--------------------------- MODULE RpcClientProofs ---------------------------
(***************************************************************************)
(* Safety of RpcClient for any number of threads, calls and methods.       *)
(*                                                                         *)
(* All actions of the second half of a handler are a Return: HandlersReturn*)
(* says so once, and the invariants then have five kinds of step: Invoke,  *)
(* the three steps of the server and the network, and Return.              *)
(***************************************************************************)
EXTENDS RpcClient, SequenceTheorems, TLAPS

(***************************************************************************)
(* The inductive invariant.                                                *)
(***************************************************************************)

\* A request that is under way was sent by some call, and nothing has become of
\* it; a call not made has left no trace.
InFlight ==
    \A c \in Calls :
        /\ c \in net => /\ status[c] # "unissued"
                        /\ ~IsLogged(c)
                        /\ answer[c] = "none"
        /\ status[c] = "unissued" => ~IsLogged(c) /\ answer[c] = "none"

\* "0" was returned on an answer, and answers with code 0 come from requests
\* that were carried out.
Answered ==
    \A c \in Calls :
        /\ answer[c] \in {"ok", "empty"} => IsLogged(c)
        /\ status[c] = "ok" => answer[c] = "ok"

OnceInLog == \A i, j \in 1..Len(log) : log[i] = log[j] => i = j

\* What was acknowledged when a call was made stays acknowledged.
Acked == \A b \in Calls : before[b] \subseteq Acknowledged

\* A strong request asks for strong consistency, and its answer reflects what
\* was acknowledged before it.
Strong ==
    \A c \in Calls :
        /\ observed[c] <= Len(log)
        /\ (/\ status[c] # "unissued"
            /\ request[c].op \in {"query", "search"})
                => request[c].consistency = consistency
        /\ (/\ answer[c] = "ok"
            /\ request[c].consistency = "strongConsistency")
                => \A w \in before[c] : \E i \in 1..observed[c] : log[i] = w

IInv == InFlight /\ Answered /\ OnceInLog /\ Acked /\ RealTimeOrder /\ Strong

\* Writing one thread's result for one method keeps the type of the table.
LEMMA TableUpdate ==
    ASSUME NEW S, NEW T, NEW V, NEW f \in [S -> [T -> V]],
           NEW t \in S, NEW o \in T, NEW v \in V
    PROVE  [f EXCEPT ![t] = [@ EXCEPT ![o] = v]] \in [S -> [T -> V]]
<1>1. f[t] \in [T -> V]
  OBVIOUS
<1>2. [f[t] EXCEPT ![o] = v] \in [T -> V]
  BY <1>1
<1> QED
  BY <1>2

(***************************************************************************)
(* The second half of every handler is a Return.                           *)
(***************************************************************************)
SecondHalf(c) ==
    StatusError(c) \/ CodeError(c) \/ NoCollection(c) \/ Handled(c)

\* Whatever branch a handler takes, it writes a result of the right type, and
\* it returns 0 only on an answer with code 0.
LEMMA HandlersReturn ==
    ASSUME TypeOK, NEW c \in Calls, SecondHalf(c)
    PROVE  \E code \in {"ok", "error"}, written \in Result :
              /\ Return(c, code, written)
              /\ code = "ok" => answer[c] = "ok"
<1>1. status[c] = "pending"
  BY DEF SecondHalf, StatusError, CodeError, NoCollection, Handled, Succeed,
         Return, createDatabase, listDatabases, dropDatabase, createCollection,
         listCollections, describeCollection, truncateCollection, dropCollection,
         upsert, query, dele, update, search, count, rebuildIndex
<1>2. OutParam(c) \in Result
  BY <1>1 DEF TypeOK, OutParam, Request
<1>3. Failure(OutParam(c), c) \in Result
  BY <1>2 DEF Failure, Result
<1>4. ASSUME NEW o, NEW written \in Result, Succeed(c, o, written)
      PROVE  \E code \in {"ok", "error"}, w \in Result :
                Return(c, code, w) /\ (code = "ok" => answer[c] = "ok")
  BY <1>4 DEF Succeed
<1>5. <<c>> \in Seq(Calls)
  OBVIOUS
<1>6. Success(OutParam(c), c) \in Result
  BY <1>2, <1>5 DEF Success, Result
<1>7. [OutParam(c) EXCEPT !.success = TRUE, !.data = <<c>>] \in Result
  BY <1>2, <1>5 DEF Result
<1>8. [OutParam(c) EXCEPT !.data = <<c>>] \in Result
  BY <1>2, <1>5 DEF Result
<1>9. [OutParam(c) EXCEPT !.success = TRUE, !.message = c,
                          !.data = Append(@, c)] \in Result
  <2>1. Append(OutParam(c).data, c) \in Seq(Calls)
    BY <1>2, AppendProperties DEF Result
  <2> QED
    BY <1>2, <2>1 DEF Result
<1>10. CASE StatusError(c)
  BY <1>3, <1>10 DEF StatusError
<1>11. CASE CodeError(c)
  BY <1>3, <1>11 DEF CodeError
<1>12. CASE NoCollection(c)
  BY <1>3, <1>12 DEF NoCollection
<1>13. CASE Handled(c)
  <2>1. CASE createDatabase(c) \/ listDatabases(c) \/ dropDatabase(c)
    BY <1>4, <1>7, <2>1 DEF createDatabase, listDatabases, dropDatabase
  <2>2. CASE \/ createCollection(c) \/ listCollections(c)
             \/ describeCollection(c) \/ truncateCollection(c)
             \/ dropCollection(c)
    BY <1>4, <1>6, <2>2
       DEF createCollection, listCollections, describeCollection,
           truncateCollection, dropCollection
  <2>3. CASE upsert(c) \/ dele(c) \/ update(c) \/ count(c) \/ rebuildIndex(c)
    BY <1>4, <1>6, <2>3 DEF upsert, dele, update, count, rebuildIndex
  <2>4. CASE query(c)
    BY <1>4, <1>8, <2>4 DEF query
  <2>5. CASE search(c)
    BY <1>4, <1>9, <2>5 DEF search
  <2> QED
    BY <1>13, <2>1, <2>2, <2>3, <2>4, <2>5 DEF Handled
<1> QED
  BY <1>10, <1>11, <1>12, <1>13 DEF SecondHalf

(***************************************************************************)
(* Type correctness.                                                       *)
(***************************************************************************)

\* The state of the client stays within its types in every step.
THEOREM TypeCorrect == Spec => []TypeOK
<1>1. Init => TypeOK
  <2> SUFFICES ASSUME Init PROVE TypeOK
    OBVIOUS
  <2>1. <<>> \in Seq(Calls)
    OBVIOUS
  <2>2. results \in [Threads -> [Operations -> Result]]
    BY <2>1 DEF Init, Result
  <2> QED
    BY <2>1, <2>2 DEF Init, TypeOK
<1>2. TypeOK /\ [Next]_vars => TypeOK'
  <2> SUFFICES ASSUME TypeOK, [Next]_vars PROVE TypeOK'
    OBVIOUS
  <2> USE DEF TypeOK
  <2>1. ASSUME NEW t \in Threads, NEW c \in Calls, NEW o \in Operations,
               NEW h \in BOOLEAN, Invoke(t, c, o, h)
        PROVE  TypeOK'
    <3>1. ReadConsistency(o) \in Levels \cup {""}
      BY DEF ReadConsistency
    <3>2. request' \in [Calls -> Request \cup {NoRequest}]
      BY <2>1, <3>1 DEF Invoke, Request
    <3>3. \A d \in Calls : status'[d] # "unissued" => request'[d] \in Request
      BY <2>1, <3>1 DEF Invoke, Request
    <3>4. results' \in [Threads -> [Operations -> Result]]
      <4>1. CASE UNCHANGED <<results, latest>>
        BY <4>1
      <4>2. CASE \E r \in NewResults :
                    results' = [results EXCEPT ![t] = [@ EXCEPT ![o] = r]]
        <5>1. NewResults \subseteq Result
          <6>1. <<>> \in Seq(Calls)
            OBVIOUS
          <6> QED
            BY <6>1 DEF NewResults, Result
        <5> QED
          BY <4>2, <5>1
      <4> QED
        BY <2>1, <4>1, <4>2 DEF Invoke
    <3>5. latest' \in [Threads -> [Operations -> Calls \cup {NoCall}]]
      <4>1. \/ latest' = latest
            \/ latest' = [latest EXCEPT ![t] = [@ EXCEPT ![o] = NoCall]]
        BY <2>1 DEF Invoke
      <4>2. [latest EXCEPT ![t] = [@ EXCEPT ![o] = NoCall]]
               \in [Threads -> [Operations -> Calls \cup {NoCall}]]
        <5>1. /\ latest \in [Threads -> [Operations -> Calls \cup {NoCall}]]
              /\ NoCall \in Calls \cup {NoCall}
          OBVIOUS
        <5> HIDE DEF TypeOK
        <5> QED
          BY <5>1, TableUpdate
      <4> QED
        BY <4>1, <4>2
    <3>6. before' \in [Calls -> SUBSET Calls]
      BY <2>1 DEF Invoke, Acknowledged
    <3>7. /\ status' \in [Calls -> {"unissued", "pending", "ok", "error"}]
          /\ net' \in SUBSET Calls
          /\ UNCHANGED <<consistency, log, answer, observed, crashed>>
      BY <2>1 DEF Invoke
    <3> QED
      BY <3>2, <3>3, <3>4, <3>5, <3>6, <3>7
  <2>2. ASSUME NEW c \in Calls, ServerExecutes(c)
        PROVE  TypeOK'
    <3>1. log' \in Seq(Calls)
      BY <2>2 DEF ServerExecutes
    <3>2. answer' \in [Calls -> {"none", "ok", "refused", "empty"}]
      BY <2>2 DEF ServerExecutes, Answers
    <3>3. Visible(c) \subseteq Nat
      BY LenProperties DEF Visible
    <3>4. observed' \in [Calls -> Nat]
      BY <2>2, <3>3 DEF ServerExecutes
    <3> QED
      BY <2>2, <3>1, <3>2, <3>4 DEF ServerExecutes
  <2>3. ASSUME NEW c \in Calls, ServerRefuses(c)
        PROVE  TypeOK'
    BY <2>3 DEF ServerRefuses
  <2>4. ASSUME NEW c \in Calls, RequestLost(c)
        PROVE  TypeOK'
    BY <2>4 DEF RequestLost
  <2>5. ASSUME NEW c \in Calls, SecondHalf(c)
        PROVE  TypeOK'
    <3>1. PICK code \in {"ok", "error"}, written \in Result :
             Return(c, code, written)
      BY <2>5, HandlersReturn
    <3>2. /\ status' \in [Calls -> {"unissued", "pending", "ok", "error"}]
          /\ \A d \in Calls : status'[d] # "unissued" => status[d] # "unissued"
      BY <3>1 DEF Return
    <3> DEFINE t == request[c].thread
               o == request[c].op
    <3>0. t \in Threads /\ o \in Operations
      BY <3>1 DEF Return, Request
    <3>3. results' \in [Threads -> [Operations -> Result]]
      <4>1. \/ results' = results
            \/ results' = [results EXCEPT ![t] = [@ EXCEPT ![o] = written]]
        BY <3>1 DEF Return
      <4>2. [results EXCEPT ![t] = [@ EXCEPT ![o] = written]]
               \in [Threads -> [Operations -> Result]]
        <5>1. /\ results \in [Threads -> [Operations -> Result]]
              /\ written \in Result
          OBVIOUS
        <5> HIDE DEF TypeOK, t, o
        <5> QED
          BY <3>0, <5>1, TableUpdate
      <4> QED
        BY <4>1, <4>2
    <3>4. latest' \in [Threads -> [Operations -> Calls \cup {NoCall}]]
      <4>1. \/ latest' = latest
            \/ latest' = [latest EXCEPT ![t] = [@ EXCEPT ![o] = c]]
        BY <3>1 DEF Return
      <4>2. [latest EXCEPT ![t] = [@ EXCEPT ![o] = c]]
               \in [Threads -> [Operations -> Calls \cup {NoCall}]]
        <5>1. /\ latest \in [Threads -> [Operations -> Calls \cup {NoCall}]]
              /\ c \in Calls \cup {NoCall}
          OBVIOUS
        <5> HIDE DEF TypeOK, t, o
        <5> QED
          BY <3>0, <5>1, TableUpdate
      <4> QED
        BY <4>1, <4>2
    <3>5. /\ UNCHANGED <<consistency, request, before, net, log, answer, observed>>
          /\ crashed' \in BOOLEAN
      BY <3>1 DEF Return, wire
    <3> QED
      BY <3>2, <3>3, <3>4, <3>5
  <2>6. CASE UNCHANGED vars
    BY <2>6 DEF vars
  <2> QED
    BY <2>1, <2>2, <2>3, <2>4, <2>5, <2>6 DEF Next, SecondHalf
<1> QED
  BY <1>1, <1>2, PTL DEF Spec

(***************************************************************************)
(* The inductive invariant, step by step.                                  *)
(***************************************************************************)

\* What one more request does to the server's log.
LEMMA LogGrows ==
    ASSUME TypeOK, NEW c \in Calls, log' = Append(log, c)
    PROVE  /\ Len(log') = Len(log) + 1
           /\ Len(log) \in Nat
           /\ \A i \in 1..Len(log) : log'[i] = log[i]
           /\ log'[Len(log) + 1] = c
           /\ \A d \in Calls : IsLogged(d)' <=> (IsLogged(d) \/ d = c)
<1>1. log \in Seq(Calls) /\ Len(log) \in Nat
  BY LenProperties DEF TypeOK
<1>2. /\ Len(log') = Len(log) + 1
      /\ \A i \in 1..Len(log) : log'[i] = log[i]
      /\ log'[Len(log) + 1] = c
  BY <1>1, AppendProperties
<1>3. ASSUME NEW d \in Calls
      PROVE  IsLogged(d)' <=> (IsLogged(d) \/ d = c)
  BY <1>1, <1>2 DEF IsLogged
<1> QED
  BY <1>1, <1>2, <1>3

\* A new call is pending and not in the log: issuing it keeps IInv.
LEMMA InvokeStep ==
    ASSUME TypeOK, IInv, NEW t \in Threads, NEW c \in Calls,
           NEW o \in Operations, NEW h \in BOOLEAN, Invoke(t, c, o, h)
    PROVE  IInv'
<1>1. /\ status[c] = "unissued"
      /\ status' = [status EXCEPT ![c] = "pending"]
      /\ request' = [request EXCEPT ![c] =
                       [thread |-> t, op |-> o, hasResult |-> h,
                        consistency |-> ReadConsistency(o)]]
      /\ net' = net \cup {c}
      /\ before' = [before EXCEPT ![c] = Acknowledged]
      /\ UNCHANGED <<consistency, log, answer, observed>>
  BY DEF Invoke
<1>2. ~IsLogged(c) /\ answer[c] = "none"
  BY <1>1 DEF IInv, InFlight
<1>3. \A d \in Calls : IsLogged(d)' <=> IsLogged(d)
  BY <1>1 DEF IsLogged
<1>4. Acknowledged' = Acknowledged
  BY <1>1 DEF Acknowledged, TypeOK
<1>5. InFlight'
  BY <1>1, <1>2, <1>3 DEF IInv, InFlight, TypeOK
<1>6. Answered'
  BY <1>1, <1>3 DEF IInv, Answered, TypeOK
<1>7. OnceInLog'
  BY <1>1 DEF IInv, OnceInLog
<1>8. Acked'
  BY <1>1, <1>4 DEF IInv, Acked, TypeOK
<1>9. RealTimeOrder'
  <2>1. \A j \in 1..Len(log) : log[j] \in Calls /\ log[j] # c
    BY <1>2, ElementOfSeq DEF IsLogged, TypeOK
  <2> QED
    BY <1>1, <2>1 DEF IInv, RealTimeOrder, TypeOK
<1>10. Strong'
  <2>1. \A d \in Calls \ {c} : /\ status'[d] = status[d]
                              /\ request'[d] = request[d]
                              /\ before'[d] = before[d]
    BY <1>1 DEF TypeOK
  <2>2. /\ request'[c].op = o
        /\ request'[c].consistency = ReadConsistency(o)
    BY <1>1 DEF TypeOK
  <2>3. o \in {"query", "search"} => ReadConsistency(o) = consistency
    BY DEF ReadConsistency
  <2> QED
    BY <1>1, <1>2, <2>1, <2>2, <2>3 DEF IInv, Strong
<1> QED
  BY <1>5, <1>6, <1>7, <1>8, <1>9, <1>10 DEF IInv

\* The server carries out a request for the first time, at the end of its log:
\* what was acknowledged before the call stays ahead of it.
LEMMA ServerExecutesStep ==
    ASSUME TypeOK, IInv, NEW c \in Calls, ServerExecutes(c)
    PROVE  IInv'
<1>1. /\ c \in net
      /\ net' = net \ {c}
      /\ log' = Append(log, c)
      /\ UNCHANGED <<consistency, status, request, before>>
  BY DEF ServerExecutes
<1>2. PICK a \in {"ok", "empty"} : answer' = [answer EXCEPT ![c] = a]
  BY DEF ServerExecutes, Answers
<1>3. PICK n \in Visible(c) : observed' = [observed EXCEPT ![c] = n]
  BY DEF ServerExecutes
<1>4. ~IsLogged(c) /\ answer[c] = "none" /\ status[c] # "unissued"
  BY <1>1 DEF IInv, InFlight
<1>5. status[c] # "ok"
  BY <1>4 DEF IInv, Answered
<1>6. /\ Len(log') = Len(log) + 1
      /\ Len(log) \in Nat
      /\ \A i \in 1..Len(log) : log'[i] = log[i]
      /\ log'[Len(log) + 1] = c
      /\ \A d \in Calls : IsLogged(d)' <=> (IsLogged(d) \/ d = c)
  BY <1>1, LogGrows
<1>7. \A i \in 1..Len(log) : log[i] \in Calls /\ log[i] # c
  BY <1>4, ElementOfSeq DEF IsLogged, TypeOK
<1>8. \A b \in Calls : \A w \in before[b] : w \in Calls /\ IsLogged(w)
  BY DEF IInv, Acked, Acknowledged, Answered, TypeOK
<1>9. InFlight'
  BY <1>1, <1>2, <1>4, <1>6 DEF IInv, InFlight, TypeOK
<1>10. Answered'
  BY <1>1, <1>2, <1>5, <1>6 DEF IInv, Answered, TypeOK
<1>11. OnceInLog'
  BY <1>6, <1>7 DEF IInv, OnceInLog
<1>12. Acked'
  BY <1>1 DEF IInv, Acked, Acknowledged
<1>13. RealTimeOrder'
  <2>1. \A b \in Calls : c \notin before[b]
    BY <1>4, <1>8
  <2>2. \A j \in 1..Len(log') : log'[j] \in Calls
    BY <1>6, <1>7
  <2> QED
    BY <1>1, <1>6, <2>1, <2>2 DEF IInv, RealTimeOrder
<1>14. Strong'
  <2>1. n \in Nat /\ n <= Len(log)
    BY <1>6 DEF Visible
  <2>2. request[c].consistency = "strongConsistency" => n = Len(log)
    BY DEF Visible
  <2>3. /\ \A d \in Calls \ {c} : /\ observed'[d] = observed[d]
                                 /\ answer'[d] = answer[d]
        /\ observed'[c] = n
    BY <1>2, <1>3 DEF TypeOK
  <2>4. \A d \in Calls : observed[d] \in Nat /\ observed[d] <= Len(log)
    BY DEF IInv, Strong, TypeOK
  <2>5. \A d \in Calls : observed'[d] <= Len(log')
    BY <1>6, <2>1, <2>3, <2>4
  <2>6. \A w \in before[c] : n = Len(log) => \E i \in 1..n : log'[i] = w
    BY <1>6, <1>8 DEF IsLogged
  <2>7. ASSUME NEW d \in Calls \ {c}, answer[d] = "ok",
               request[d].consistency = "strongConsistency"
        PROVE  \A w \in before[d] : \E i \in 1..observed[d] : log'[i] = w
    BY <1>6, <2>4, <2>7 DEF IInv, Strong
  <2>8. ASSUME NEW d \in Calls, answer'[d] = "ok",
               request[d].consistency = "strongConsistency"
        PROVE  \A w \in before[d] : \E i \in 1..observed'[d] : log'[i] = w
    <3>1. CASE d = c
      BY <2>2, <2>3, <2>6, <2>8, <3>1
    <3>2. CASE d # c
      BY <2>3, <2>7, <2>8, <3>2
    <3> QED
      BY <3>1, <3>2
  <2>9. \A d \in Calls :
           (status[d] # "unissued" /\ request[d].op \in {"query", "search"})
               => request[d].consistency = consistency
    BY DEF IInv, Strong
  <2> QED
    BY <1>1, <2>5, <2>8, <2>9 DEF Strong
<1> QED
  BY <1>9, <1>10, <1>11, <1>12, <1>13, <1>14 DEF IInv

\* A request refused or lost leaves the log and the acknowledgements alone.
LEMMA RequestDroppedStep ==
    ASSUME TypeOK, IInv, NEW c \in Calls, ServerRefuses(c) \/ RequestLost(c)
    PROVE  IInv'
<1>1. /\ c \in net
      /\ net' = net \ {c}
      /\ UNCHANGED <<consistency, status, request, log, observed, before>>
      /\ \/ answer' = answer
         \/ answer' = [answer EXCEPT ![c] = "refused"]
  BY DEF ServerRefuses, RequestLost
<1>2. status[c] # "unissued" /\ status[c] # "ok"
  BY <1>1 DEF IInv, InFlight, Answered
<1>3. \A d \in Calls : IsLogged(d)' <=> IsLogged(d)
  BY <1>1 DEF IsLogged
<1>4. /\ \A d \in Calls \ {c} : answer'[d] = answer[d]
      /\ answer'[c] \in {"ok", "empty"} => answer[c] = answer'[c]
  BY <1>1 DEF TypeOK
<1>5. InFlight'
  BY <1>1, <1>2, <1>3, <1>4 DEF IInv, InFlight
<1>6. Answered'
  BY <1>1, <1>2, <1>3, <1>4 DEF IInv, Answered
<1>7. OnceInLog' /\ Acked' /\ RealTimeOrder'
  BY <1>1 DEF IInv, OnceInLog, Acked, Acknowledged, RealTimeOrder
<1>8. Strong'
  BY <1>1, <1>4 DEF IInv, Strong
<1> QED
  BY <1>5, <1>6, <1>7, <1>8 DEF IInv

\* A handler that returns 0 does so on an answer, so the call it acknowledges is
\* in the log; one that returns -1 acknowledges nothing.
LEMMA ReturnStep ==
    ASSUME TypeOK, IInv, NEW c \in Calls, NEW code \in {"ok", "error"},
           NEW written, Return(c, code, written),
           code = "ok" => answer[c] = "ok"
    PROVE  IInv'
<1>1. UNCHANGED <<consistency, request, before, net, log, answer, observed>>
  BY DEF Return, wire
<1>2. ASSUME NEW d \in Calls
      PROVE  /\ status[d] = "unissued" => status'[d] = "unissued"
             /\ status'[d] = "unissued" => status[d] = "unissued"
             /\ status[d] = "ok" => status'[d] = "ok"
             /\ status'[d] = "ok" => (status[d] = "ok" \/ answer[d] = "ok")
  <2>1. /\ status[c] = "pending"
        /\ status' = status \/ status' = [status EXCEPT ![c] = code]
    BY DEF Return
  <2> QED
    BY <2>1 DEF TypeOK
<1>3. \A d \in Calls : IsLogged(d)' <=> IsLogged(d)
  BY <1>1 DEF IsLogged
<1>4. InFlight'
  BY <1>1, <1>2, <1>3 DEF IInv, InFlight
<1>5. Answered'
  BY <1>1, <1>2, <1>3 DEF IInv, Answered
<1>6. OnceInLog' /\ RealTimeOrder'
  BY <1>1 DEF IInv, OnceInLog, RealTimeOrder
<1>7. Acked'
  BY <1>1, <1>2 DEF IInv, Acked, Acknowledged
<1>8. Strong'
  BY <1>1, <1>2 DEF IInv, Strong
<1> QED
  BY <1>4, <1>5, <1>6, <1>7, <1>8 DEF IInv

\* IInv holds initially and every step keeps it.
LEMMA Inductive ==
    Spec => []IInv
<1>1. Init => IInv
  <2> SUFFICES ASSUME Init PROVE IInv
    OBVIOUS
  <2>1. Len(log) = 0 /\ \A c \in Calls : ~IsLogged(c)
    BY DEF Init, IsLogged
  <2> QED
    BY <2>1 DEF Init, IInv, InFlight, Answered, OnceInLog, Acked, Acknowledged,
                RealTimeOrder, Strong
<1>2. TypeOK /\ IInv /\ [Next]_vars => IInv'
  <2> SUFFICES ASSUME TypeOK, IInv, [Next]_vars PROVE IInv'
    OBVIOUS
  <2>1. ASSUME NEW c \in Calls, SecondHalf(c)
        PROVE  IInv'
    BY <2>1, HandlersReturn, ReturnStep
  <2>2. CASE UNCHANGED vars
    BY <2>2 DEF vars, IInv, InFlight, Answered, OnceInLog, Acked, Acknowledged,
                RealTimeOrder, Strong, IsLogged
  <2> QED
    BY <2>1, <2>2, InvokeStep, ServerExecutesStep, RequestDroppedStep
       DEF Next, SecondHalf
<1> QED
  BY <1>1, <1>2, TypeCorrect, PTL DEF Spec

(***************************************************************************)
(* What callers may rely on.                                               *)
(***************************************************************************)

\* A handler that returned 0 had its request carried out, and no request is
\* carried out twice, for any number of threads and calls.
THEOREM CallsAreAcknowledgedOnce == Spec => []AcknowledgedOnce
<1>1. TypeOK /\ IInv => AcknowledgedOnce
  BY DEF TypeOK, IInv, Answered, OnceInLog, Acknowledged, AcknowledgedOnce
<1> QED
  BY <1>1, TypeCorrect, Inductive, PTL

\* What was acknowledged before a call was made comes before it in the server's
\* order, late effects of calls that were given up included.
THEOREM CallsKeepRealTimeOrder == Spec => []RealTimeOrder
<1>1. IInv => RealTimeOrder
  BY DEF IInv
<1> QED
  BY <1>1, Inductive, PTL

\* With strong consistency, a query or search that returned 0 reflects every
\* call acknowledged before it.
THEOREM StrongReadsSeeWrites == Spec => []StrongReads
<1>1. TypeOK /\ IInv => StrongReads
  <2> SUFFICES ASSUME TypeOK, IInv, consistency = "strongConsistency",
                      NEW c \in Acknowledged,
                      request[c].op \in {"query", "search"}
               PROVE  \A w \in before[c] : \E i \in 1..observed[c] : log[i] = w
    BY DEF StrongReads
  <2>1. c \in Calls /\ status[c] = "ok" /\ status[c] # "unissued"
    BY DEF Acknowledged
  <2>2. answer[c] = "ok"
    BY <2>1 DEF IInv, Answered
  <2>3. request[c].consistency = "strongConsistency"
    BY <2>1 DEF IInv, Strong
  <2> QED
    BY <2>1, <2>2, <2>3 DEF IInv, Strong
<1> QED
  BY <1>1, TypeCorrect, Inductive, PTL

(***************************************************************************)
(* Refinement: every step of the client, the network and the server is a   *)
(* step of RemoteCall or leaves its variables alone.                       *)
(***************************************************************************)

\* The calls implement RemoteCall.
THEOREM CallsImplementRemoteCall == Spec => ImplementsRemoteCall
<1>1. Init => Remote!Init
  BY DEF Init, Remote!Init
<1>2. TypeOK /\ IInv /\ [Next]_vars => [Remote!Next]_(Remote!vars)
  <2> SUFFICES ASSUME TypeOK, IInv, [Next]_vars
               PROVE  Remote!Next \/ UNCHANGED <<status, log>>
    BY DEF Remote!vars
  <2>1. \A c \in Calls : Remote!HasEffect(c) <=> IsLogged(c)
    BY DEF Remote!HasEffect, IsLogged
  <2>2. ASSUME NEW t \in Threads, NEW c \in Calls, NEW o \in Operations,
               NEW h \in BOOLEAN, Invoke(t, c, o, h)
        PROVE  Remote!Next
    <3>1. Remote!Issue(c)
      BY <2>2 DEF Invoke, Remote!Issue
    <3> QED
      BY <3>1 DEF Remote!Next
  <2>3. ASSUME NEW c \in Calls, ServerExecutes(c)
        PROVE  Remote!Next
    <3>1. c \in net /\ log' = Append(log, c) /\ status' = status
      BY <2>3 DEF ServerExecutes
    <3>2. ~IsLogged(c) /\ status[c] # "unissued" /\ answer[c] = "none"
      BY <3>1 DEF IInv, InFlight
    <3>3. status[c] \in {"pending", "error"}
      BY <3>2 DEF IInv, Answered, TypeOK
    <3>4. Remote!TakeEffect(c)
      BY <2>1, <3>1, <3>2, <3>3 DEF Remote!TakeEffect
    <3> QED
      BY <3>4 DEF Remote!Next
  <2>4. ASSUME NEW c \in Calls, ServerRefuses(c) \/ RequestLost(c)
        PROVE  UNCHANGED <<status, log>>
    BY <2>4 DEF ServerRefuses, RequestLost
  <2>5. ASSUME NEW c \in Calls, SecondHalf(c)
        PROVE  Remote!Next \/ UNCHANGED <<status, log>>
    <3>1. PICK code \in {"ok", "error"}, written \in Result :
             Return(c, code, written) /\ (code = "ok" => answer[c] = "ok")
      BY <2>5, HandlersReturn
    <3>2. /\ status[c] = "pending"
          /\ log' = log
          /\ \/ status' = [status EXCEPT ![c] = code]
             \/ status' = status
      BY <3>1 DEF Return, wire
    <3>3. CASE status' = status
      BY <3>2, <3>3
    <3>4. CASE code = "error" /\ status' = [status EXCEPT ![c] = code]
      <4>1. Remote!GiveUp(c)
        BY <3>2, <3>4 DEF Remote!GiveUp
      <4> QED
        BY <4>1 DEF Remote!Next
    <3>5. CASE code = "ok" /\ status' = [status EXCEPT ![c] = code]
      <4>1. IsLogged(c)
        BY <3>1, <3>5 DEF IInv, Answered
      <4>2. Remote!Acknowledge(c)
        BY <2>1, <3>2, <3>5, <4>1 DEF Remote!Acknowledge
      <4> QED
        BY <4>2 DEF Remote!Next
    <3> QED
      BY <3>2, <3>3, <3>4, <3>5
  <2>6. CASE UNCHANGED vars
    BY <2>6 DEF vars
  <2> QED
    BY <2>2, <2>3, <2>4, <2>5, <2>6 DEF Next, SecondHalf
<1> QED
  BY <1>1, <1>2, TypeCorrect, Inductive, PTL
     DEF Spec, ImplementsRemoteCall, Remote!Spec
=============================================================================
