---------------------------- MODULE MCRpcClient ----------------------------
(***************************************************************************)
(* Instances of RpcClient for TLC.                                         *)
(***************************************************************************)
EXTENDS RpcClient, TLC

\* Calls and threads are interchangeable; no safety property names one.
Symmetry == Permutations(Calls) \cup Permutations(Threads)
=============================================================================
