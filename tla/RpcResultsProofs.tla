--------------------------- MODULE RpcResultsProofs ---------------------------
(***************************************************************************)
(* What the result objects of RpcClient hold, for any number of threads,   *)
(* calls and methods, and any reuse of the objects.                        *)
(***************************************************************************)
EXTENDS RpcClientProofs

(***************************************************************************)
(* The invariant: what result r of method o of thread t, through which call*)
(* l was the last to return, has to do with what the calls told their      *)
(* callers.                                                                *)
(***************************************************************************)
Distinct(data) == \A i, j \in 1..Len(data) : data[i] = data[j] => i = j

Owned(data, t, o, told, asked) ==
    /\ \A i \in 1..Len(data) : /\ told[data[i]] = "ok"
                               /\ asked[data[i]].thread = t
                               /\ asked[data[i]].op = o
    /\ Distinct(data)

Truthful(r, l, o, told) ==
    l # NoCall =>
        /\ told[l] \in {"ok", "error"}
        /\ o # "query" => (r.success <=> told[l] = "ok")
        /\ told[l] = "ok" => r.data # <<>> /\ r.data[Len(r.data)] = l
        /\ told[l] = "error" => ~r.success /\ r.message = l

Single(r, o) == o # "search" => Len(r.data) <= 1

Fits(r, l, t, o, told, asked) ==
    Owned(r.data, t, o, told, asked) /\ Truthful(r, l, o, told) /\ Single(r, o)

ResultInv ==
    \A t \in Threads, o \in Operations :
        Fits(results[t][o], latest[t][o], t, o, status, request)

\* Calls that have returned stay as they are, and so does what results say of
\* them.
LEMMA FitsStays ==
    ASSUME NEW r \in Result, NEW l \in Calls \cup {NoCall}, NEW t, NEW o,
           NEW told, NEW asked, NEW told2, NEW asked2,
           Fits(r, l, t, o, told, asked),
           \A c \in Calls : told[c] \in {"ok", "error"} =>
               told2[c] = told[c] /\ asked2[c] = asked[c]
    PROVE  Fits(r, l, t, o, told2, asked2)
<1>1. \A i \in 1..Len(r.data) : r.data[i] \in Calls
  BY ElementOfSeq DEF Result
<1>2. Owned(r.data, t, o, told2, asked2)
  BY <1>1 DEF Fits, Owned
<1>3. Truthful(r, l, o, told2)
  BY DEF Fits, Truthful
<1> QED
  BY <1>2, <1>3 DEF Fits

\* Writing one thread's result for one method leaves the others.
LEMMA TableRead ==
    ASSUME NEW S, NEW T, NEW V, NEW f \in [S -> [T -> V]],
           NEW t \in S, NEW o \in T, NEW v, NEW g,
           g = [f EXCEPT ![t] = [@ EXCEPT ![o] = v]]
    PROVE  /\ g[t][o] = v
           /\ \A u \in S : \A p \in T : (u # t \/ p # o) => g[u][p] = f[u][p]
<1>1. f[t] \in [T -> V]
  OBVIOUS
<1>2. g[t] = [f[t] EXCEPT ![o] = v]
  OBVIOUS
<1>3. g[t][o] = v /\ \A p \in T : p # o => g[t][p] = f[t][p]
  BY <1>1, <1>2
<1>4. \A u \in S : u # t => g[u] = f[u]
  OBVIOUS
<1> QED
  BY <1>3, <1>4

\* What the second half of each handler writes.
Writes(c, code, written) ==
    LET r == OutParam(c)
        o == request[c].op
    IN  /\ written \in Result
        /\ code = "error" => written = Failure(r, c)
        /\ code = "ok" => /\ \/ written.data = <<c>>
                             \/ o = "search" /\ written.data = Append(r.data, c)
                          /\ o # "query" => written.success = TRUE

LEMMA HandlersWrite ==
    ASSUME TypeOK, NEW c \in Calls, SecondHalf(c)
    PROVE  \E code \in {"ok", "error"}, written \in Result :
              Return(c, code, written) /\ Writes(c, code, written)
<1>1. status[c] = "pending"
  BY DEF SecondHalf, StatusError, CodeError, NoCollection, Handled, Succeed,
         Return, createDatabase, listDatabases, dropDatabase, createCollection,
         listCollections, describeCollection, truncateCollection, dropCollection,
         upsert, query, dele, update, search, count, rebuildIndex
<1>2. OutParam(c) \in Result
  BY <1>1 DEF TypeOK, OutParam, Request
<1>3. Failure(OutParam(c), c) \in Result
  BY <1>2 DEF Failure, Result
<1>4. <<c>> \in Seq(Calls)
  OBVIOUS
<1>5. CASE StatusError(c) \/ CodeError(c) \/ NoCollection(c)
  <2>1. Return(c, "error", Failure(OutParam(c), c))
    BY <1>5 DEF StatusError, CodeError, NoCollection
  <2>2. Writes(c, "error", Failure(OutParam(c), c))
    BY <1>3 DEF Writes
  <2> QED
    BY <1>3, <2>1, <2>2
<1>6. ASSUME NEW written \in Result, NEW o, Succeed(c, o, written),
             o # "query" => written.success = TRUE,
             \/ written.data = <<c>>
             \/ o = "search" /\ written.data = Append(OutParam(c).data, c)
      PROVE  \E code \in {"ok", "error"}, w \in Result :
                Return(c, code, w) /\ Writes(c, code, w)
  <2>1. Return(c, "ok", written) /\ request[c].op = o
    BY <1>6 DEF Succeed
  <2>2. Writes(c, "ok", written)
    BY <1>6, <2>1 DEF Writes
  <2> QED
    BY <2>1, <2>2
<1> DEFINE plain == [OutParam(c) EXCEPT !.success = TRUE, !.data = <<c>>]
           bare == [OutParam(c) EXCEPT !.data = <<c>>]
           more == [OutParam(c) EXCEPT !.success = TRUE, !.message = c,
                                       !.data = Append(@, c)]
<1>7. Success(OutParam(c), c) \in Result /\ plain \in Result /\ bare \in Result
  BY <1>2, <1>4 DEF Success, Result
<1>8. more \in Result
  <2>1. Append(OutParam(c).data, c) \in Seq(Calls)
    BY <1>2, AppendProperties DEF Result
  <2> QED
    BY <1>2, <2>1 DEF Result
<1>9. /\ Success(OutParam(c), c).success = TRUE
      /\ Success(OutParam(c), c).data = <<c>>
      /\ plain.success = TRUE /\ plain.data = <<c>>
      /\ bare.data = <<c>>
      /\ more.success = TRUE /\ more.data = Append(OutParam(c).data, c)
  BY <1>2 DEF Success, Result
<1>10. CASE Handled(c)
  <2> HIDE DEF plain, bare, more
  <2>1. CASE createDatabase(c) \/ listDatabases(c) \/ dropDatabase(c)
    <3>1. \E o : Succeed(c, o, plain)
      BY <2>1 DEF createDatabase, listDatabases, dropDatabase, plain
    <3> QED
      BY <1>6, <1>7, <1>9, <3>1
  <2>2. CASE \/ createCollection(c) \/ listCollections(c)
             \/ describeCollection(c) \/ truncateCollection(c)
             \/ dropCollection(c)
             \/ upsert(c) \/ dele(c) \/ update(c) \/ count(c) \/ rebuildIndex(c)
    <3>1. \E o : Succeed(c, o, Success(OutParam(c), c))
      BY <2>2 DEF createCollection, listCollections, describeCollection,
                  truncateCollection, dropCollection, upsert, dele, update,
                  count, rebuildIndex
    <3> QED
      BY <1>6, <1>7, <1>9, <3>1
  <2>3. CASE query(c)
    <3>1. Succeed(c, "query", bare)
      BY <2>3 DEF query, bare
    <3> QED
      BY <1>6, <1>7, <1>9, <3>1
  <2>4. CASE search(c)
    <3>1. Succeed(c, "search", more)
      BY <2>4 DEF search, more
    <3> QED
      BY <1>6, <1>8, <1>9, <3>1
  <2> QED
    BY <1>10, <2>1, <2>2, <2>3, <2>4 DEF Handled
<1> QED
  BY <1>5, <1>10 DEF SecondHalf

LEMMA ResultInvokeStep ==
    ASSUME TypeOK, ResultInv, NEW t \in Threads, NEW c \in Calls,
           NEW o \in Operations, NEW h \in BOOLEAN, Invoke(t, c, o, h)
    PROVE  ResultInv'
<1>1. /\ status[c] = "unissued"
      /\ \A d \in Calls : status[d] \in {"ok", "error"} =>
            status'[d] = status[d] /\ request'[d] = request[d]
  BY DEF Invoke, TypeOK
<1>2. ASSUME NEW u \in Threads, NEW p \in Operations
      PROVE  Fits(results[u][p], latest[u][p], u, p, status', request')
  <2>1. /\ results[u][p] \in Result /\ latest[u][p] \in Calls \cup {NoCall}
        /\ Fits(results[u][p], latest[u][p], u, p, status, request)
    BY DEF TypeOK, ResultInv
  <2> QED
    BY <1>1, <2>1, FitsStays
<1>3. CASE UNCHANGED <<results, latest>>
  BY <1>2, <1>3 DEF ResultInv
<1>4. CASE /\ \E r \in NewResults :
                 results' = [results EXCEPT ![t] = [@ EXCEPT ![o] = r]]
           /\ latest' = [latest EXCEPT ![t] = [@ EXCEPT ![o] = NoCall]]
  <2>1. PICK r \in NewResults :
           results' = [results EXCEPT ![t] = [@ EXCEPT ![o] = r]]
    BY <1>4
  <2>2. /\ results'[t][o] = r
        /\ \A u \in Threads : \A p \in Operations :
              (u # t \/ p # o) => results'[u][p] = results[u][p]
    BY <2>1, TableRead DEF TypeOK
  <2>3. /\ latest'[t][o] = NoCall
        /\ \A u \in Threads : \A p \in Operations :
              (u # t \/ p # o) => latest'[u][p] = latest[u][p]
    BY <1>4, TableRead DEF TypeOK
  <2>4. Fits(r, NoCall, t, o, status', request')
    <3>1. r.data = <<>> /\ Len(r.data) = 0
      BY DEF NewResults
    <3> QED
      BY <3>1 DEF Fits, Owned, Distinct, Truthful, Single
  <2> QED
    BY <1>2, <2>2, <2>3, <2>4 DEF ResultInv
<1> QED
  BY <1>3, <1>4 DEF Invoke

\* What a handler writes fits what it returns.
LEMMA WrittenFits ==
    ASSUME TypeOK, ResultInv, NEW c \in Calls, NEW code \in {"ok", "error"},
           NEW written \in Result, Writes(c, code, written),
           status[c] = "pending",
           NEW told, told = [status EXCEPT ![c] = code]
    PROVE  Fits(written, c, request[c].thread, request[c].op, told, request)
<1> DEFINE t == request[c].thread
           o == request[c].op
           r == results[t][o]
<1>1. t \in Threads /\ o \in Operations
  BY DEF TypeOK, Request
<1>2. r \in Result /\ Fits(r, latest[t][o], t, o, status, request)
  BY <1>1 DEF TypeOK, ResultInv
<1>3. /\ told[c] = code /\ c # NoCall
      /\ \A d \in Calls : d # c => told[d] = status[d]
  BY NoCallAssumption DEF TypeOK
<1>4. /\ r.data \in Seq(Calls) /\ Len(r.data) \in Nat
      /\ \A i \in 1..Len(r.data) : r.data[i] \in Calls /\ r.data[i] # c
                                   /\ told[r.data[i]] = "ok"
  <2>1. r.data \in Seq(Calls)
    BY <1>2 DEF Result
  <2>2. \A i \in 1..Len(r.data) : r.data[i] \in Calls /\ status[r.data[i]] = "ok"
    BY <1>2, <2>1, ElementOfSeq DEF Fits, Owned
  <2>3. Len(r.data) \in Nat
    BY <2>1, LenProperties
  <2>4. ASSUME NEW i \in 1..Len(r.data)
        PROVE  r.data[i] \in Calls /\ r.data[i] # c /\ told[r.data[i]] = "ok"
    <3>1. r.data[i] \in Calls /\ status[r.data[i]] = "ok"
      BY <2>2
    <3>2. r.data[i] # c
      BY <3>1
    <3> QED
      BY <1>3, <3>1, <3>2
  <2> QED
    BY <2>1, <2>3, <2>4
<1>5. CASE code = "error"
  <2>1. /\ written.data = r.data /\ written.success = FALSE /\ written.message = c
    BY <1>2, <1>5 DEF Writes, Failure, OutParam, Result
  <2>2. Owned(written.data, t, o, told, request)
    <3>1. Owned(r.data, t, o, status, request)
      BY <1>2 DEF Fits
    <3>2. Owned(r.data, t, o, told, request)
      <4> HIDE DEF r, t, o
      <4> QED
        BY <1>4, <3>1 DEF Owned
    <3> QED
      BY <2>1, <3>2
  <2>3. Truthful(written, c, o, told) /\ Single(written, o)
    BY <1>2, <1>3, <1>5, <2>1 DEF Fits, Truthful, Single
  <2> QED
    BY <2>2, <2>3 DEF Fits
<1>6. CASE code = "ok" /\ written.data = <<c>>
  <2>1. Owned(written.data, t, o, told, request)
    BY <1>3, <1>6 DEF Owned, Distinct
  <2>2. Truthful(written, c, o, told) /\ Single(written, o)
    BY <1>3, <1>6 DEF Writes, Truthful, Single
  <2> QED
    BY <2>1, <2>2 DEF Fits
<1>7. CASE code = "ok" /\ o = "search" /\ written.data = Append(r.data, c)
  <2> DEFINE old == r.data
             new == written.data
  <2>0. /\ old \in Seq(Calls) /\ Len(old) \in Nat /\ new = Append(old, c)
        /\ Owned(old, t, o, status, request) /\ Distinct(old)
        /\ \A i \in 1..Len(old) : old[i] # c /\ told[old[i]] = "ok"
    BY <1>2, <1>4, <1>7 DEF Fits, Owned
  <2> HIDE DEF old, new, r
  <2>1. /\ Len(new) = Len(old) + 1
        /\ \A i \in 1..Len(old) : new[i] = old[i]
        /\ new[Len(old) + 1] = c
    BY <2>0, AppendProperties
  <2>2. ASSUME NEW i \in 1..Len(new)
        PROVE  /\ told[new[i]] = "ok"
               /\ request[new[i]].thread = t
               /\ request[new[i]].op = o
    <3>1. CASE i = Len(old) + 1
      BY <1>3, <1>7, <2>1, <3>1
    <3>2. CASE i # Len(old) + 1
      <4>1. i \in 1..Len(old)
        BY <2>0, <2>1, <3>2
      <4> QED
        BY <2>0, <2>1, <4>1 DEF Owned
    <3> QED
      BY <3>1, <3>2
  <2>3. Distinct(new)
    BY <2>0, <2>1 DEF Distinct
  <2>5. Owned(written.data, t, o, told, request)
    BY <2>2, <2>3 DEF Owned, new
  <2>6. written.data # <<>> /\ written.data[Len(written.data)] = c
    BY <2>0, <2>1 DEF new
  <2>4. Truthful(written, c, o, told) /\ Single(written, o)
    BY <1>3, <1>7, <2>6 DEF Writes, Truthful, Single
  <2> QED
    BY <2>4, <2>5 DEF Fits
<1> QED
  BY <1>5, <1>6, <1>7 DEF Writes, OutParam

LEMMA ResultReturnStep ==
    ASSUME TypeOK, ResultInv, NEW c \in Calls, SecondHalf(c)
    PROVE  ResultInv'
<1>1. PICK code \in {"ok", "error"}, written \in Result :
         Return(c, code, written) /\ Writes(c, code, written)
  BY HandlersWrite
<1> DEFINE t == request[c].thread
           o == request[c].op
<1>2. status[c] = "pending" /\ request' = request /\ t \in Threads /\ o \in Operations
  BY <1>1 DEF Return, TypeOK, Request
<1>3. CASE UNCHANGED <<status, results, latest>>
  BY <1>2, <1>3 DEF ResultInv
<1>4. CASE /\ status' = [status EXCEPT ![c] = code]
           /\ results' = [results EXCEPT ![t] = [@ EXCEPT ![o] = written]]
           /\ latest' = [latest EXCEPT ![t] = [@ EXCEPT ![o] = c]]
  <2>1. /\ results'[t][o] = written
        /\ \A u \in Threads : \A p \in Operations :
              (u # t \/ p # o) => results'[u][p] = results[u][p]
    BY <1>2, <1>4, TableRead DEF TypeOK
  <2>2. /\ latest'[t][o] = c
        /\ \A u \in Threads : \A p \in Operations :
              (u # t \/ p # o) => latest'[u][p] = latest[u][p]
    BY <1>2, <1>4, TableRead DEF TypeOK
  <2>3. Fits(written, c, t, o, status', request')
    BY <1>1, <1>2, <1>4, WrittenFits
  <2>4. \A d \in Calls : status[d] \in {"ok", "error"} => status'[d] = status[d]
    BY <1>2, <1>4 DEF TypeOK
  <2>5. ASSUME NEW u \in Threads, NEW p \in Operations
        PROVE  Fits(results[u][p], latest[u][p], u, p, status', request')
    <3>1. /\ results[u][p] \in Result /\ latest[u][p] \in Calls \cup {NoCall}
          /\ Fits(results[u][p], latest[u][p], u, p, status, request)
      BY DEF TypeOK, ResultInv
    <3> QED
      BY <1>2, <2>4, <3>1, FitsStays
  <2> QED
    BY <2>1, <2>2, <2>3, <2>5 DEF ResultInv
<1> QED
  BY <1>1, <1>3, <1>4 DEF Return

\* The invariant holds in every reachable state.
THEOREM ResultInvariance == Spec => []ResultInv
<1>1. Init => ResultInv
  BY DEF Init, ResultInv, Fits, Owned, Distinct, Truthful, Single
<1>2. TypeOK /\ ResultInv /\ [Next]_vars => ResultInv'
  <2> SUFFICES ASSUME TypeOK, ResultInv, [Next]_vars PROVE ResultInv'
    OBVIOUS
  <2>1. CASE UNCHANGED <<results, latest, status, request>>
    BY <2>1 DEF ResultInv
  <2>2. ASSUME NEW c \in Calls,
               ServerExecutes(c) \/ ServerRefuses(c) \/ RequestLost(c)
        PROVE  ResultInv'
    BY <2>1, <2>2 DEF ServerExecutes, ServerRefuses, RequestLost
  <2>3. ASSUME NEW c \in Calls, SecondHalf(c) PROVE ResultInv'
    BY <2>3, ResultReturnStep
  <2> QED
    BY <2>1, <2>2, <2>3, ResultInvokeStep DEF Next, SecondHalf, vars
<1> QED
  BY <1>1, <1>2, TypeCorrect, PTL DEF Spec

(***************************************************************************)
(* What the caller may rely on.                                            *)
(***************************************************************************)

\* An answer that loses the race against the deadline never reaches a result,
\* no answer reaches one twice, and none reaches another thread's.
THEOREM DataOfAcknowledgedCalls == Spec => []DataIsAcknowledged
<1>1. ResultInv => DataIsAcknowledged
  BY DEF ResultInv, Fits, Owned, Distinct, DataIsAcknowledged
<1> QED
  BY <1>1, ResultInvariance, PTL

\* `success`, the message and the answer held agree with the code the last call
\* returned, whatever the object went through before.
THEOREM ResultsAreTruthful == Spec => []TruthfulResult
<1>1. ResultInv => TruthfulResult
  BY DEF ResultInv, Fits, Truthful, TruthfulResult
<1> QED
  BY <1>1, ResultInvariance, PTL

\* Only search keeps what a reused object held.
THEOREM OneAnswerHeld == Spec => []OneAnswerUnlessSearch
<1>1. ResultInv => OneAnswerUnlessSearch
  BY DEF ResultInv, Fits, Single, OneAnswerUnlessSearch
<1> QED
  BY <1>1, ResultInvariance, PTL
=============================================================================
