------------------------------ MODULE MCSession ------------------------------
(***************************************************************************)
(* Instances of Session for TLC.                                           *)
(***************************************************************************)
EXTENDS Session

\* A tick is 500 ms: the timeouts are 500 ms and 1500 ms.
TicksPerSecond == 2
FractionalTimeouts == {1, 3}
=============================================================================
