------------------------ MODULE MCCollectionIndexes ------------------------
(***************************************************************************)
(* Instances of CollectionIndexes for TLC.                                 *)
(***************************************************************************)
EXTENDS CollectionIndexes, TLC

\* Collections and fields are interchangeable; no property names one.
Symmetry == Permutations(Collections) \cup Permutations(Names)
=============================================================================
