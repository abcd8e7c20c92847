----------------------------- MODULE RemoteCall -----------------------------
(***************************************************************************)
(* What a caller may rely on when it calls a method of RpcClient: the call *)
(* ends in "ok" only after the server has carried the request out, it is   *)
(* carried out at most once, and an "error" says nothing about whether it  *)
(* was, or still will be, carried out.                                     *)
(***************************************************************************)
EXTENDS Naturals, Sequences

CONSTANT Calls          \* the calls the program ever makes

VARIABLES outcome,      \* what each call has told its caller
          effects       \* the requests carried out, in the server's order

vars == <<outcome, effects>>

HasEffect(c) == \E i \in 1..Len(effects) : effects[i] = c

Init == /\ outcome = [c \in Calls |-> "unissued"]
        /\ effects = <<>>

Issue(c) == /\ outcome[c] = "unissued"
            /\ outcome' = [outcome EXCEPT ![c] = "pending"]
            /\ UNCHANGED effects

\* The effect of a call may come after the caller has been told "error", and
\* never after it has been told "ok".
TakeEffect(c) == /\ outcome[c] \in {"pending", "error"}
                 /\ ~HasEffect(c)
                 /\ effects' = Append(effects, c)
                 /\ UNCHANGED outcome

Acknowledge(c) == /\ outcome[c] = "pending"
                  /\ HasEffect(c)
                  /\ outcome' = [outcome EXCEPT ![c] = "ok"]
                  /\ UNCHANGED effects

GiveUp(c) == /\ outcome[c] = "pending"
             /\ outcome' = [outcome EXCEPT ![c] = "error"]
             /\ UNCHANGED effects

Next == \E c \in Calls :
            Issue(c) \/ TakeEffect(c) \/ Acknowledge(c) \/ GiveUp(c)

Spec == Init /\ [][Next]_vars
=============================================================================
