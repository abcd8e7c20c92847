------------------------------- MODULE Filter -------------------------------
(***************************************************************************)
(* One Filter shared by the threads of a program: some call assemblyCond,  *)
(* which assigns `cond` under `mutex`, and others make requests, which copy*)
(* `cond` without it.  An assignment or a copy of a std::string is not one *)
(* step: a copy that overlaps an assignment is undefined behaviour.        *)
(***************************************************************************)
EXTENDS FilterText

CONSTANTS Requests,     \* the requests built from the filter
          NoAddition,   \* the mutex is free
          Torn          \* what a copy that overlaps an assignment may hold

ASSUME NoAdditionAssumption == NoAddition \notin Additions
ASSUME RequestsAssumption == Requests \cap Additions = {}

VARIABLES
    cond,       \* Filter::cond
    mutex,      \* the call that holds Filter::mutex
    pc,         \* pc[a]: how far the call a of assemblyCond has come
    args,       \* args[a]: its operation and condition
    built,      \* built[a]: the string it is about to assign
    copying,    \* copying[r]: how far request r has copied cond
    overlap,    \* overlap[r]: the copy overlaps an assignment
    filter,     \* filter[r]: the filter in the request
    earlier     \* history: the calls that had returned when a call or a copy began

vars == <<cond, mutex, pc, args, built, copying, overlap, filter, earlier>>

builder == <<cond, mutex, pc, args, built>>

\* Texts are sequences of clauses; calls and copies move through their phases.
TypeOK ==
    /\ cond \in Seq(Clauses)
    /\ mutex \in Additions \cup {NoAddition}
    /\ pc \in [Additions -> {"idle", "waiting", "locked", "built", "assigning", "done"}]
    /\ args \in [Additions -> Arguments]
    /\ built \in [Additions -> Seq(Clauses)]
    /\ copying \in [Requests -> {"idle", "copying", "done"}]
    /\ overlap \in [Requests -> BOOLEAN]
    /\ filter \in [Requests -> Seq(Clauses) \cup {Torn}]
    /\ earlier \in [Additions \cup Requests -> SUBSET Additions]

Init ==
    /\ cond \in Constructed
    /\ mutex = NoAddition
    /\ pc = [a \in Additions |-> "idle"]
    /\ args = [a \in Additions |-> [operation |-> "and", blank |-> FALSE]]
    /\ built = [a \in Additions |-> <<>>]
    /\ copying = [r \in Requests |-> "idle"]
    /\ overlap = [r \in Requests |-> FALSE]
    /\ filter = [r \in Requests |-> <<>>]
    /\ earlier = [x \in Additions \cup Requests |-> {}]

Returned == {a \in Additions : pc[a] = "done"}

(***************************************************************************)
(* assemblyCond, called by andCond, orCond, andNotCond and orNotCond.      *)
(***************************************************************************)
CallAssemblyCond(a, x) ==
    /\ pc[a] = "idle"
    /\ pc' = [pc EXCEPT ![a] = "waiting"]
    /\ args' = [args EXCEPT ![a] = x]
    /\ earlier' = [earlier EXCEPT ![a] = Returned]
    /\ UNCHANGED <<cond, mutex, built, copying, overlap, filter>>

\* MUTANT: assemblyCond does not lock.
LockNothing(a) ==
    /\ pc[a] = "waiting"
    /\ pc' = [pc EXCEPT ![a] = "locked"]
    /\ UNCHANGED <<cond, mutex, args, built, copying, overlap, filter, earlier>>

\* std::unique_lock lock(mutex)
Lock(a) ==
    /\ pc[a] = "waiting"
    /\ mutex = NoAddition
    /\ mutex' = a
    /\ pc' = [pc EXCEPT ![a] = "locked"]
    /\ UNCHANGED <<cond, args, built, copying, overlap, filter, earlier>>

\* The right-hand side of the assignment is computed from cond.
Build(a) ==
    /\ pc[a] = "locked"
    /\ pc' = [pc EXCEPT ![a] = "built"]
    /\ built' = [built EXCEPT ![a] = Assemble(cond, a, args[a])]
    /\ UNCHANGED <<cond, mutex, args, copying, overlap, filter, earlier>>

BeginAssign(a) ==
    /\ pc[a] = "built"
    /\ pc' = [pc EXCEPT ![a] = "assigning"]
    /\ overlap' = [r \in Requests |-> overlap[r] \/ copying[r] = "copying"]
    /\ UNCHANGED <<cond, mutex, args, built, copying, filter, earlier>>

\* MUTANT: the mutex is never released.
AssignAndKeepLock(a) ==
    /\ pc[a] = "assigning"
    /\ pc' = [pc EXCEPT ![a] = "done"]
    /\ cond' = built[a]
    /\ UNCHANGED <<mutex, args, built, copying, overlap, filter, earlier>>

\* The assignment ends; `lock` goes out of scope and the call returns.
EndAssign(a) ==
    /\ pc[a] = "assigning"
    /\ pc' = [pc EXCEPT ![a] = "done"]
    /\ cond' = built[a]
    /\ mutex' = NoAddition
    /\ UNCHANGED <<args, built, copying, overlap, filter, earlier>>

(***************************************************************************)
(* query, dele, update, search and count: set_filter(filter->cond).        *)
(***************************************************************************)
BeginCopy(r) ==
    /\ copying[r] = "idle"
    /\ copying' = [copying EXCEPT ![r] = "copying"]
    /\ overlap' = [overlap EXCEPT ![r] = \E a \in Additions : pc[a] = "assigning"]
    /\ earlier' = [earlier EXCEPT ![r] = Returned]
    /\ UNCHANGED <<builder, filter>>

EndCopy(r) ==
    /\ copying[r] = "copying"
    /\ copying' = [copying EXCEPT ![r] = "done"]
    /\ \E f \in {cond} \cup (IF overlap[r] THEN {Torn} ELSE {}) :
           filter' = [filter EXCEPT ![r] = f]
    /\ UNCHANGED <<builder, overlap, earlier>>

Assembly(a) == Lock(a) \/ Build(a) \/ BeginAssign(a) \/ EndAssign(a)

Next == \/ \E a \in Additions, x \in Arguments : CallAssemblyCond(a, x)
        \/ \E a \in Additions : Assembly(a)
        \/ \E r \in Requests : BeginCopy(r) \/ EndCopy(r)

Spec == Init /\ [][Next]_vars

\* A thread inside assemblyCond keeps running and is given the mutex when it
\* is free: each addition happens once, so no stream of others passes it by.
FairSpec == Spec /\ \A a \in Additions : WF_vars(Assembly(a))

(***************************************************************************)
(* Properties.                                                             *)
(***************************************************************************)

\* No clause is lost or doubled: of two calls at once neither overwrites the
\* other's clause, and what a call that has returned added is still there.
NoClauseLost ==
    /\ \A a \in Returned :
          (~args[a].blank \/ IsNegated(args[a])) => Mentions(cond, a)
    /\ \A i \in 1..Len(cond) :
          cond[i].by \in Returned \cup {Constructor}
    /\ \A i, j \in 1..Len(cond) : cond[i].by = cond[j].by => i = j

\* The text is one expression, whichever calls add to it first and whether their
\* conditions are blank: the clause at its head has no connective, and every
\* other has one.
OneHead ==
    \A i \in 1..Len(cond) : cond[i].op \in {"", "not"} <=> i = 1

\* Clauses stand in the order of their calls: what had been added when a call
\* began comes before what it adds.
CallOrder ==
    \A i, j \in 1..Len(cond) :
        cond[j].by \in Additions /\ cond[i].by \in earlier[cond[j].by] => i < j

\* A request whose copy met no assignment carries every clause that was in the
\* text when it began, though it takes no lock.
WholeCopy ==
    \A r \in Requests :
        copying[r] = "done" /\ ~overlap[r] =>
            \A a \in earlier[r] :
                (~args[a].blank \/ IsNegated(args[a])) => Mentions(filter[r], a)

\* assemblyCond implements FilterLog: its clause appears in one step.
Phase == [a \in Additions |->
            IF pc[a] = "idle" THEN "idle"
            ELSE IF pc[a] = "done" THEN "returned" ELSE "called"]
Log == INSTANCE FilterLog WITH text <- cond, phase <- Phase, args <- args
ImplementsFilterLog == Log!Spec

\* Every call of assemblyCond returns: the mutex is always released.
EveryAdditionReturns ==
    \A a \in Additions : (pc[a] = "waiting") ~> (pc[a] = "done")
=============================================================================
