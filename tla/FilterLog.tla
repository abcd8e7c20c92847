------------------------------ MODULE FilterLog ------------------------------
(***************************************************************************)
(* What the threads that build one Filter may rely on: each call adds its  *)
(* clause to the text in one step between its start and its return.        *)
(***************************************************************************)
EXTENDS FilterText

VARIABLES text,     \* the condition built so far
          phase,    \* how far each call has come
          args      \* what it was called with

vars == <<text, phase, args>>

Init == /\ text \in Constructed
        /\ phase = [a \in Additions |-> "idle"]
        /\ args = [a \in Additions |-> [operation |-> "and", blank |-> FALSE]]

Call(a) == /\ phase[a] = "idle"
           /\ phase' = [phase EXCEPT ![a] = "called"]
           /\ \E x \in Arguments : args' = [args EXCEPT ![a] = x]
           /\ UNCHANGED text

Add(a) == /\ phase[a] = "called"
          /\ phase' = [phase EXCEPT ![a] = "returned"]
          /\ text' = Assemble(text, a, args[a])
          /\ UNCHANGED args

Next == \E a \in Additions : Call(a) \/ Add(a)

Spec == Init /\ [][Next]_vars
=============================================================================
