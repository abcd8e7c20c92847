---------------------------- MODULE FilterProofs ----------------------------
(***************************************************************************)
(* Safety of Filter for any number of threads.  The mutex makes `built`    *)
(* what assemblyCond would make of cond now (MutexInv); so an assignment   *)
(* either leaves cond alone or appends one clause of its own call          *)
(* (AssembleExtends), and every invariant of the text follows from that.   *)
(***************************************************************************)
EXTENDS Filter, SequenceTheorems, TLAPS

Critical == {"locked", "built", "assigning"}

\* Whoever is past Lock holds the mutex, and nobody else changes cond between
\* its reading cond and its assigning it.
MutexInv ==
    /\ \A a \in Additions : pc[a] \in Critical <=> mutex = a
    /\ \A a \in Additions : pc[a] \in {"built", "assigning"} =>
                               built[a] = Assemble(cond, a, args[a])

\* What had returned when a call or a copy began has returned.
EarlierReturned == \A x \in Additions \cup Requests : earlier[x] \subseteq Returned

TextInv == NoClauseLost /\ OneHead /\ CallOrder /\ EarlierReturned /\ WholeCopy

IsKept(a) == ~args[a].blank \/ IsNegated(args[a])

\* `longer` is `text` and the clause c of call a, with a connective unless it is
\* the first.
Extends(longer, text, c, a) ==
    /\ longer \in Seq(Clauses)
    /\ Len(longer) = Len(text) + 1
    /\ \A i \in 1..Len(text) : longer[i] = text[i]
    /\ longer[Len(text) + 1] = c
    /\ c.by = a
    /\ c.op \in {"", "not"} => Len(text) = 0
    /\ Len(text) = 0 => c.op \in {"", "not"}

\* Appending a clause keeps every clause at its place.
LEMMA AppendKeeps ==
    ASSUME NEW text \in Seq(Clauses), NEW c \in Clauses
    PROVE  /\ Append(text, c) \in Seq(Clauses)
           /\ Len(Append(text, c)) = Len(text) + 1
           /\ \A i \in 1..Len(text) : Append(text, c)[i] = text[i]
           /\ Append(text, c)[Len(text) + 1] = c
BY AppendProperties

\* Appending a clause extends a text by one clause.
LEMMA AppendExtends ==
    ASSUME NEW text \in Seq(Clauses), NEW a \in Additions,
           NEW op \in Connectives \cup {"", "not"},
           op \in {"", "not"} => text = <<>>,
           text = <<>> => op \in {"", "not"}
    PROVE  \E c \in Clauses :
              Extends(Append(text, [op |-> op, by |-> a]), text, c, a)
<1> DEFINE c == [op |-> op, by |-> a]
<1>1. c \in Clauses
  BY DEF Clauses
<1>0. c.op = op /\ c.by = a
  OBVIOUS
<1> HIDE DEF c
<1>2. /\ Append(text, c) \in Seq(Clauses)
      /\ Len(Append(text, c)) = Len(text) + 1
      /\ \A i \in 1..Len(text) : Append(text, c)[i] = text[i]
      /\ Append(text, c)[Len(text) + 1] = c
  BY <1>1, AppendKeeps
<1>3. /\ op \in {"", "not"} => Len(text) = 0
      /\ Len(text) = 0 => op \in {"", "not"}
  BY EmptySeq
<1>4. Extends(Append(text, c), text, c, a)
  BY <1>0, <1>2, <1>3 DEF Extends
<1> QED
  BY <1>1, <1>4 DEF c

\* What assemblyCond makes of a text: the same text if the condition is blank
\* and there is nothing to connect it to, or one clause more.
LEMMA AssembleExtends ==
    ASSUME NEW text \in Seq(Clauses), NEW a \in Additions, NEW x \in Arguments
    PROVE  \/ Assemble(text, a, x) = text /\ x.blank /\ ~IsNegated(x)
           \/ \E c \in Clauses : Extends(Assemble(text, a, x), text, c, a)
<1>1. \A c : Append(<<>>, c) = <<c>>
  OBVIOUS
<1>2. CASE text = <<>> /\ IsNegated(x)
  <2>1. Assemble(text, a, x) = Append(text, [op |-> "not", by |-> a])
    BY <1>1, <1>2 DEF Assemble, FirstClause
  <2>2. \E c \in Clauses :
           Extends(Append(text, [op |-> "not", by |-> a]), text, c, a)
    BY <1>2, AppendExtends
  <2> QED
    BY <2>1, <2>2
<1>3. CASE text = <<>> /\ ~IsNegated(x) /\ ~x.blank
  <2>1. Assemble(text, a, x) = Append(text, [op |-> "", by |-> a])
    BY <1>1, <1>3 DEF Assemble, FirstClause
  <2>2. \E c \in Clauses :
           Extends(Append(text, [op |-> "", by |-> a]), text, c, a)
    BY <1>3, AppendExtends
  <2> QED
    BY <2>1, <2>2
<1>4. CASE text = <<>> /\ ~IsNegated(x) /\ x.blank
  BY <1>4 DEF Assemble, FirstClause
<1>5. CASE text # <<>>
  <2>1. Assemble(text, a, x) = Append(text, [op |-> x.operation, by |-> a])
    BY <1>5 DEF Assemble
  <2>2. x.operation \in Connectives /\ x.operation \notin {"", "not"}
    BY DEF Arguments, Connectives
  <2>3. \E c \in Clauses :
           Extends(Append(text, [op |-> x.operation, by |-> a]), text, c, a)
    BY <1>5, <2>2, AppendExtends
  <2> QED
    BY <2>1, <2>3
<1> QED
  BY <1>2, <1>3, <1>4, <1>5 DEF Arguments

\* Every text assemblyCond makes is a sequence of clauses.
LEMMA AssembleType ==
    ASSUME NEW text \in Seq(Clauses), NEW a \in Additions, NEW x \in Arguments
    PROVE  Assemble(text, a, x) \in Seq(Clauses)
BY AssembleExtends DEF Extends

\* A constructed filter has a condition or none, and nothing has begun.
LEMMA InitTypes == Init => TypeOK
<1> SUFFICES ASSUME Init PROVE TypeOK
  OBVIOUS
<1>1. <<>> \in Seq(Clauses)
  OBVIOUS
<1>2. [op |-> "", by |-> Constructor] \in Clauses
  BY DEF Clauses
<1>3. <<[op |-> "", by |-> Constructor]>> \in Seq(Clauses)
  <2> DEFINE c == [op |-> "", by |-> Constructor]
  <2> HIDE DEF c
  <2>1. c \in Clauses => <<c>> \in Seq(Clauses)
    OBVIOUS
  <2> QED
    BY <1>2, <2>1 DEF c
<1>4. [operation |-> "and", blank |-> FALSE] \in Arguments
  BY DEF Arguments, Connectives
<1> QED
  BY <1>1, <1>3, <1>4 DEF Init, TypeOK, Constructed

\* The filter, the calls and the requests stay within their types.
THEOREM FilterTypes == Spec => []TypeOK
<1>1. TypeOK /\ [Next]_vars => TypeOK'
  <2> SUFFICES ASSUME TypeOK, [Next]_vars PROVE TypeOK'
    OBVIOUS
  <2> USE DEF TypeOK
  <2>1. ASSUME NEW a \in Additions, NEW x \in Arguments, CallAssemblyCond(a, x)
        PROVE  TypeOK'
    BY <2>1 DEF CallAssemblyCond, Returned
  <2>2. ASSUME NEW a \in Additions, Lock(a)
        PROVE  TypeOK'
    BY <2>2 DEF Lock
  <2>3. ASSUME NEW a \in Additions, Build(a)
        PROVE  TypeOK'
    BY <2>3, AssembleType DEF Build
  <2>4. ASSUME NEW a \in Additions, BeginAssign(a)
        PROVE  TypeOK'
    BY <2>4 DEF BeginAssign
  <2>5. ASSUME NEW a \in Additions, EndAssign(a)
        PROVE  TypeOK'
    BY <2>5 DEF EndAssign
  <2>6. ASSUME NEW r \in Requests, BeginCopy(r)
        PROVE  TypeOK'
    BY <2>6 DEF BeginCopy, builder, Returned
  <2>7. ASSUME NEW r \in Requests, EndCopy(r)
        PROVE  TypeOK'
    BY <2>7 DEF EndCopy, builder
  <2>8. CASE UNCHANGED vars
    BY <2>8 DEF vars
  <2> QED
    BY <2>1, <2>2, <2>3, <2>4, <2>5, <2>6, <2>7, <2>8 DEF Next, Assembly
<1> QED
  BY <1>1, InitTypes, PTL DEF Spec

\* The critical section of assemblyCond: one call at a time, and the string it
\* is about to assign extends the text as it is now.
THEOREM FilterMutex == Spec => []MutexInv
<1>1. Init => MutexInv
  BY NoAdditionAssumption DEF Init, MutexInv, Critical
<1>2. TypeOK /\ MutexInv /\ [Next]_vars => MutexInv'
  <2> SUFFICES ASSUME TypeOK, MutexInv, [Next]_vars PROVE MutexInv'
    OBVIOUS
  <2> USE NoAdditionAssumption DEF TypeOK, MutexInv, Critical
  <2>1. ASSUME NEW a \in Additions, NEW x \in Arguments, CallAssemblyCond(a, x)
        PROVE  MutexInv'
    BY <2>1 DEF CallAssemblyCond
  <2>2. ASSUME NEW a \in Additions, Lock(a)
        PROVE  MutexInv'
    BY <2>2 DEF Lock
  <2>3. ASSUME NEW a \in Additions, Build(a)
        PROVE  MutexInv'
    BY <2>3 DEF Build
  <2>4. ASSUME NEW a \in Additions, BeginAssign(a)
        PROVE  MutexInv'
    BY <2>4 DEF BeginAssign
  <2>5. ASSUME NEW a \in Additions, EndAssign(a)
        PROVE  MutexInv'
    BY <2>5 DEF EndAssign
  <2>6. ASSUME NEW r \in Requests, BeginCopy(r) \/ EndCopy(r)
        PROVE  MutexInv'
    BY <2>6 DEF BeginCopy, EndCopy, builder
  <2>7. CASE UNCHANGED vars
    BY <2>7 DEF vars
  <2> QED
    BY <2>1, <2>2, <2>3, <2>4, <2>5, <2>6, <2>7 DEF Next, Assembly
<1> QED
  BY <1>1, <1>2, FilterTypes, PTL DEF Spec

(***************************************************************************)
(* The text.                                                               *)
(***************************************************************************)

\* The end of an assignment: cond is what it was, or one clause longer.
LEMMA AssignmentExtends ==
    ASSUME TypeOK, MutexInv, NEW a \in Additions, EndAssign(a)
    PROVE  \/ cond' = cond /\ ~IsKept(a)
           \/ \E c \in Clauses : Extends(cond', cond, c, a)
<1>1. cond' = Assemble(cond, a, args[a])
  BY DEF EndAssign, MutexInv
<1>2. cond \in Seq(Clauses) /\ args[a] \in Arguments
  BY DEF TypeOK
<1> QED
  BY <1>1, <1>2, AssembleExtends DEF IsKept

\* A step that leaves the text, the returned calls and their arguments alone.
LEMMA TextUnchanged ==
    ASSUME TypeOK, TextInv, cond' = cond, Returned' = Returned,
           \A a \in Returned : args'[a] = args[a],
           \A a \in Additions : pc[a] # "idle" => earlier'[a] = earlier[a],
           \A x \in Additions \cup Requests :
               earlier'[x] = earlier[x] \/ earlier'[x] = Returned
    PROVE  NoClauseLost' /\ OneHead' /\ CallOrder' /\ EarlierReturned'
<1>1. \A a \in Returned : a \in Additions /\ pc[a] # "idle"
  BY DEF Returned
<1>2. NoClauseLost'
  BY <1>1 DEF TextInv, NoClauseLost, Mentions, IsNegated
<1>3. OneHead'
  BY DEF TextInv, OneHead
<1>4. CallOrder'
  <2>1. \A i \in 1..Len(cond) :
           cond[i].by \in Additions => earlier'[cond[i].by] = earlier[cond[i].by]
    BY <1>1, ConstructorAssumption DEF TextInv, NoClauseLost
  <2> QED
    BY <2>1 DEF TextInv, CallOrder
<1>5. EarlierReturned'
  BY DEF TextInv, EarlierReturned
<1> QED
  BY <1>2, <1>3, <1>4, <1>5

\* A step that writes no request's filter keeps WholeCopy.
LEMMA CopiesUnchanged ==
    ASSUME TypeOK, TextInv, filter' = filter, copying' = copying,
           \A a \in Returned : args'[a] = args[a],
           \A r \in Requests : earlier'[r] = earlier[r],
           \A r \in Requests : copying[r] = "done" => (overlap'[r] <=> overlap[r])
    PROVE  WholeCopy'
<1>1. \A r \in Requests : \A a \in earlier[r] : a \in Returned
  BY DEF TextInv, EarlierReturned
<1> QED
  BY <1>1 DEF TextInv, WholeCopy, Mentions, IsNegated

\* The end of an assignment adds the clause of its own call, once, at the end.
LEMMA EndAssignStep ==
    ASSUME TypeOK, MutexInv, TextInv, NEW a \in Additions, EndAssign(a)
    PROVE  TextInv'
<1>1. /\ pc[a] = "assigning"
      /\ UNCHANGED <<args, earlier, copying, overlap, filter>>
      /\ a \notin Returned
      /\ Returned' = Returned \cup {a}
  BY DEF EndAssign, Returned, TypeOK
<1>2. a # Constructor
  BY ConstructorAssumption
<1>3. \A x : IsKept(x)' <=> IsKept(x)
  BY <1>1 DEF IsKept, IsNegated
<1>4. Len(cond) \in Nat
  BY LenProperties DEF TypeOK
<1>5. \A i \in 1..Len(cond) : cond[i].by # a
  BY <1>1, <1>2 DEF TextInv, NoClauseLost
<1>6. WholeCopy'
  BY <1>1, CopiesUnchanged
<1>7. EarlierReturned'
  BY <1>1 DEF TextInv, EarlierReturned
<1>8. CASE cond' = cond /\ ~IsKept(a)
  <2>1. NoClauseLost'
    BY <1>1, <1>3, <1>8 DEF TextInv, NoClauseLost, Mentions, IsKept
  <2>2. OneHead' /\ CallOrder'
    BY <1>1, <1>8 DEF TextInv, OneHead, CallOrder
  <2> QED
    BY <1>6, <1>7, <2>1, <2>2 DEF TextInv
<1>9. ASSUME NEW c \in Clauses, Extends(cond', cond, c, a)
      PROVE  TextInv'
  <2>1. /\ Len(cond') = Len(cond) + 1
        /\ \A i \in 1..Len(cond) : cond'[i] = cond[i]
    BY <1>9 DEF Extends
  <2>2. cond'[Len(cond) + 1].by = a
    BY <1>9 DEF Extends
  <2>3. /\ cond'[Len(cond) + 1].op \in {"", "not"} => Len(cond) = 0
        /\ Len(cond) = 0 => cond'[Len(cond) + 1].op \in {"", "not"}
    BY <1>9 DEF Extends
  <2>4. 1..Len(cond') = 1..Len(cond) \cup {Len(cond) + 1}
    BY <1>4, <2>1
  <2>5. NoClauseLost'
    <3>1. \A x : Mentions(cond, x) => Mentions(cond, x)'
      BY <2>1, <2>4 DEF Mentions
    <3>2. Mentions(cond, a)'
      BY <2>2, <2>4 DEF Mentions
    <3>3. \A x \in Returned' : IsKept(x)' => Mentions(cond, x)'
      BY <1>1, <1>3, <3>1, <3>2 DEF TextInv, NoClauseLost, IsKept
    <3>4. \A i \in 1..Len(cond') : cond'[i].by \in Returned' \cup {Constructor}
      BY <1>1, <2>1, <2>2, <2>4 DEF TextInv, NoClauseLost
    <3>5. \A i, j \in 1..Len(cond') : cond'[i].by = cond'[j].by => i = j
      BY <1>5, <2>1, <2>2, <2>4 DEF TextInv, NoClauseLost
    <3> QED
      BY <3>3, <3>4, <3>5 DEF NoClauseLost, IsKept
  <2>6. OneHead'
    <3>1. \A i \in 1..Len(cond) : i < Len(cond) + 1 /\ Len(cond) # 0
      BY <1>4
    <3>2. ASSUME NEW i \in 1..Len(cond)
          PROVE  cond'[i].op \in {"", "not"} <=> i = 1
      BY <2>1 DEF TextInv, OneHead
    <3>3. CASE Len(cond) = 0
      <4>1. Len(cond) + 1 = 1 /\ Len(cond') = 1
        BY <2>1, <3>3
      <4>2. cond'[1].op \in {"", "not"}
        BY <2>3, <3>3, <4>1
      <4> QED
        <5>1. \A i \in 1..Len(cond') : i = 1
          BY <4>1
        <5> QED
          BY <4>2, <5>1 DEF OneHead
    <3>4. CASE Len(cond) # 0
      <4>1. Len(cond) + 1 # 1
        BY <1>4, <3>4
      <4> QED
        BY <2>3, <2>4, <3>2, <3>4, <4>1 DEF OneHead
    <3> QED
      BY <3>3, <3>4
  <2>7. CallOrder'
    <3>1. \A x \in Additions : a \notin earlier[x]
      BY <1>1 DEF TextInv, EarlierReturned
    <3>2. \A i \in 1..Len(cond) : i < Len(cond) + 1
      BY <1>4
    <3> QED
      BY <1>1, <2>1, <2>2, <2>4, <3>1, <3>2 DEF TextInv, CallOrder
  <2> QED
    BY <1>6, <1>7, <2>5, <2>6, <2>7 DEF TextInv
<1> QED
  BY <1>8, <1>9, AssignmentExtends

\* A copy that met no assignment takes the text as it is.
LEMMA EndCopyStep ==
    ASSUME TypeOK, TextInv, NEW r \in Requests, EndCopy(r)
    PROVE  TextInv'
<1>1. /\ UNCHANGED <<cond, pc, args, overlap, earlier>>
      /\ copying' = [copying EXCEPT ![r] = "done"]
  BY DEF EndCopy, builder
<1>2. PICK f \in {cond, Torn} :
           filter' = [filter EXCEPT ![r] = f] /\ (~overlap[r] => f = cond)
  BY DEF EndCopy
<1>3. Returned' = Returned
  BY <1>1 DEF Returned
<1>4. NoClauseLost' /\ OneHead' /\ CallOrder' /\ EarlierReturned'
  BY <1>1, <1>3, TextUnchanged
<1>5. \A q \in Requests : \A a \in earlier[q] : a \in Returned
  BY DEF TextInv, EarlierReturned
<1>6. ASSUME NEW q \in Requests, copying'[q] = "done", ~overlap[q],
             NEW a \in earlier[q], IsKept(a)
      PROVE  Mentions(filter'[q], a)
  <2>1. CASE q = r
    <3>1. filter'[q] = cond
      BY <1>2, <1>6, <2>1 DEF TypeOK
    <3>2. Mentions(cond, a)
      BY <1>5, <1>6 DEF TextInv, NoClauseLost, IsKept
    <3> QED
      BY <3>1, <3>2
  <2>2. CASE q # r
    BY <1>1, <1>2, <1>6, <2>2 DEF TypeOK, TextInv, WholeCopy, IsKept
  <2> QED
    BY <2>1, <2>2
<1>7. WholeCopy'
  BY <1>1, <1>6 DEF WholeCopy, IsKept, IsNegated, Mentions
<1> QED
  BY <1>4, <1>7 DEF TextInv

\* The text and the filters in the requests, in every reachable state.
LEMMA FilterTextInv == Spec => []TextInv
<1>1. Init => TextInv
  <2> SUFFICES ASSUME Init PROVE TextInv
    OBVIOUS
  <2>1. Returned = {} /\ \A x \in Additions \cup Requests : earlier[x] = {}
    BY DEF Init, Returned
  <2>2. \/ Len(cond) = 0
        \/ Len(cond) = 1 /\ cond[1].op = "" /\ cond[1].by = Constructor
    <3>1. CASE cond = <<>>
      BY <3>1
    <3>2. CASE cond = <<[op |-> "", by |-> Constructor]>>
      BY <3>2
    <3> QED
      BY <3>1, <3>2 DEF Init, Constructed
  <2>3. NoClauseLost /\ OneHead
    <3>1. \A i \in 1..Len(cond) :
             i = 1 /\ cond[i].op = "" /\ cond[i].by = Constructor
      <4>1. CASE Len(cond) = 0
        <5>1. \A i : i \notin 1..0
          OBVIOUS
        <5> QED
          BY <4>1, <5>1
      <4>2. CASE Len(cond) = 1 /\ cond[1].op = "" /\ cond[1].by = Constructor
        <5>1. \A i \in 1..1 : i = 1
          OBVIOUS
        <5> QED
          BY <4>2, <5>1
      <4> QED
        BY <2>2, <4>1, <4>2
    <3>2. NoClauseLost
      BY <2>1, <3>1 DEF NoClauseLost
    <3>3. OneHead
      BY <3>1 DEF OneHead
    <3> QED
      BY <3>2, <3>3
  <2>4. CallOrder /\ EarlierReturned
    BY <2>1 DEF CallOrder, EarlierReturned
  <2>5. WholeCopy
    BY DEF Init, WholeCopy
  <2> QED
    BY <2>3, <2>4, <2>5 DEF TextInv
<1>2. TypeOK /\ MutexInv /\ TextInv /\ [Next]_vars => TextInv'
  <2> SUFFICES ASSUME TypeOK, MutexInv, TextInv, [Next]_vars PROVE TextInv'
    OBVIOUS
  <2>1. ASSUME NEW a \in Additions, NEW x \in Arguments, CallAssemblyCond(a, x)
        PROVE  TextInv'
    <3>1. /\ pc[a] = "idle" /\ a \notin Returned
          /\ UNCHANGED <<cond, filter, copying, overlap>>
          /\ Returned' = Returned
          /\ \A b \in Returned : args'[b] = args[b]
      BY <2>1 DEF CallAssemblyCond, Returned, TypeOK
    <3>2. /\ \A y \in (Additions \cup Requests) \ {a} : earlier'[y] = earlier[y]
          /\ earlier'[a] = Returned
      BY <2>1 DEF CallAssemblyCond, TypeOK
    <3>3. NoClauseLost' /\ OneHead' /\ CallOrder' /\ EarlierReturned'
      BY <3>1, <3>2, TextUnchanged
    <3>4. WholeCopy'
      BY <3>1, <3>2, RequestsAssumption, CopiesUnchanged
    <3> QED
      BY <3>3, <3>4 DEF TextInv
  <2>2. ASSUME NEW a \in Additions, Lock(a) \/ Build(a) \/ BeginAssign(a)
        PROVE  TextInv'
    <3>1. /\ UNCHANGED <<cond, filter, copying, args, earlier>>
          /\ Returned' = Returned
          /\ \A r \in Requests : copying[r] = "done" =>
                                    (overlap'[r] <=> overlap[r])
      BY <2>2 DEF Lock, Build, BeginAssign, Returned, TypeOK
    <3> QED
      BY <3>1, TextUnchanged, CopiesUnchanged DEF TextInv
  <2>3. ASSUME NEW r \in Requests, BeginCopy(r)
        PROVE  TextInv'
    <3>1. /\ copying[r] = "idle"
          /\ copying' = [copying EXCEPT ![r] = "copying"]
          /\ UNCHANGED <<cond, args, filter>>
          /\ Returned' = Returned
          /\ \A q \in Requests \ {r} : overlap'[q] = overlap[q]
          /\ \A y \in (Additions \cup Requests) \ {r} : earlier'[y] = earlier[y]
          /\ earlier'[r] = Returned
      BY <2>3 DEF BeginCopy, builder, Returned, TypeOK
    <3>2. NoClauseLost' /\ OneHead' /\ CallOrder' /\ EarlierReturned'
      BY <3>1, RequestsAssumption, TextUnchanged
    <3>3. WholeCopy'
      <4>1. \A q \in Requests : copying'[q] = "done" =>
                 q # r /\ copying[q] = "done"
        BY <3>1 DEF TypeOK
      <4> QED
        BY <3>1, <4>1 DEF TextInv, WholeCopy, IsNegated, Mentions
    <3> QED
      BY <3>2, <3>3 DEF TextInv
  <2>4. CASE UNCHANGED vars
    <3>1. /\ UNCHANGED <<cond, filter, copying, args, earlier, overlap>>
          /\ Returned' = Returned
      BY <2>4 DEF vars, Returned
    <3> QED
      BY <3>1, TextUnchanged, CopiesUnchanged DEF TextInv
  <2> QED
    BY <2>1, <2>2, <2>3, <2>4, EndAssignStep, EndCopyStep DEF Next, Assembly
<1> QED
  BY <1>1, <1>2, FilterTypes, FilterMutex, PTL DEF Spec

(***************************************************************************)
(* What the threads that share a filter may rely on.                       *)
(***************************************************************************)

\* Of any number of threads adding to one filter, none overwrites the clause of
\* another.
THEOREM FilterLosesNoClause == Spec => []NoClauseLost
<1>1. TextInv => NoClauseLost
  BY DEF TextInv
<1> QED
  BY <1>1, FilterTextInv, PTL

\* Only the clause at the head of the text has no connective.
THEOREM FilterHasOneHead == Spec => []OneHead
<1>1. TextInv => OneHead
  BY DEF TextInv
<1> QED
  BY <1>1, FilterTextInv, PTL

\* Clauses stand in the order of the calls that added them.
THEOREM FilterKeepsCallOrder == Spec => []CallOrder
<1>1. TextInv => CallOrder
  BY DEF TextInv
<1> QED
  BY <1>1, FilterTextInv, PTL

\* A request whose copy met no assignment carries every clause added before it.
THEOREM FilterCopiesWhole == Spec => []WholeCopy
<1>1. TextInv => WholeCopy
  BY DEF TextInv
<1> QED
  BY <1>1, FilterTextInv, PTL

\* assemblyCond implements FilterLog: the end of its assignment is the one step
\* in which the clause appears, and all its other steps stutter.
THEOREM FilterImplementsFilterLog == Spec => ImplementsFilterLog
<1>1. Init => Log!Init
  BY DEF Init, Phase, Log!Init, Constructed, Log!Constructed
<1>2. TypeOK /\ MutexInv /\ [Next]_vars => [Log!Next]_(Log!vars)
  <2> SUFFICES ASSUME TypeOK, MutexInv, [Next]_vars
               PROVE  Log!Next \/ UNCHANGED <<cond, Phase, args>>
    BY DEF Log!vars
  <2>1. ASSUME NEW a \in Additions, NEW x \in Arguments, CallAssemblyCond(a, x)
        PROVE  Log!Next
    <3>1. Phase[a] = "idle" /\ Phase' = [Phase EXCEPT ![a] = "called"]
      BY <2>1 DEF CallAssemblyCond, Phase, TypeOK
    <3>2. Log!Call(a)
      BY <2>1, <3>1 DEF CallAssemblyCond, Log!Call, Arguments, Log!Arguments,
                        Connectives, Log!Connectives
    <3> QED
      BY <3>2 DEF Log!Next
  <2>2. ASSUME NEW a \in Additions, Lock(a) \/ Build(a) \/ BeginAssign(a)
        PROVE  UNCHANGED <<cond, Phase, args>>
    BY <2>2 DEF Lock, Build, BeginAssign, Phase, TypeOK
  <2>3. ASSUME NEW a \in Additions, EndAssign(a)
        PROVE  Log!Next
    <3>1. Phase[a] = "called" /\ Phase' = [Phase EXCEPT ![a] = "returned"]
      BY <2>3 DEF EndAssign, Phase, TypeOK
    <3>2. cond' = Assemble(cond, a, args[a]) /\ UNCHANGED args
      BY <2>3 DEF EndAssign, MutexInv
    <3>3. Log!Add(a)
      BY <3>1, <3>2 DEF Log!Add, Log!Assemble, Assemble, Log!FirstClause,
                        FirstClause, Log!IsNegated, IsNegated
    <3> QED
      BY <3>3 DEF Log!Next
  <2>4. ASSUME NEW r \in Requests, BeginCopy(r) \/ EndCopy(r)
        PROVE  UNCHANGED <<cond, Phase, args>>
    BY <2>4 DEF BeginCopy, EndCopy, builder, Phase
  <2>5. CASE UNCHANGED vars
    BY <2>5 DEF vars, Phase
  <2> QED
    BY <2>1, <2>2, <2>3, <2>4, <2>5 DEF Next, Assembly
<1> QED
  BY <1>1, <1>2, FilterTypes, FilterMutex, PTL
     DEF Spec, ImplementsFilterLog, Log!Spec
=============================================================================
