---------------------------- MODULE MCDocuments ----------------------------
(***************************************************************************)
(* An instance of Documents for TLC: the arguments a program may choose    *)
(* from, for each kind of field, filter and limit that the code tells      *)
(* apart.                                                                  *)
(***************************************************************************)
EXTENDS Documents, TLC

CONSTANTS d1, d2, key, red, seven, vector

Doc(field) == [vector |-> vector, fields |-> key :> field]

Red == [kind |-> "str", val |-> red]
Seven == [kind |-> "u64", val |-> seven]
Empty == [kind |-> "strArr", val |-> <<>>]
Reds == [kind |-> "strArr", val |-> <<red, red>>]

IsRed == [key |-> key, value |-> red]

Query(filter, outputFields, offset, limit) ==
    [op |-> "query", ids |-> {}, filter |-> filter, retrieveVector |-> FALSE,
     outputFields |-> outputFields, offset |-> offset, limit |-> limit]

Search(items, filter, limit) ==
    [op |-> "search", items |-> items, filter |-> filter, retrieveVector |-> TRUE,
     outputFields |-> {}, limit |-> limit]

SomeArrays == {Empty.val, Reds.val}

SomeArguments ==
    {[op |-> "upsert", documents |-> d1 :> Doc(Red) @@ d2 :> Doc(Seven)],
     [op |-> "upsert", documents |-> d1 :> Doc(Empty)],
     [op |-> "upsert", documents |-> d1 :> [Doc(Reds) EXCEPT !.vector = None]],
     [op |-> "update", ids |-> {d1}, filter |-> None,
      change |-> [vector |-> None, fields |-> key :> Seven]],
     [op |-> "update", ids |-> {}, filter |-> IsRed,
      change |-> [vector |-> vector, fields |-> << >>]],
     [op |-> "update", ids |-> {d1, d2}, filter |-> IsRed,
      change |-> [vector |-> None, fields |-> key :> Reds]],
     [op |-> "dele", ids |-> {}, filter |-> IsRed, limit |-> 0],
     [op |-> "dele", ids |-> {}, filter |-> None, limit |-> 1],
     [op |-> "dele", ids |-> {d1, d2}, filter |-> None, limit |-> -1],
     Query(None, {}, 0, 0), Query(IsRed, {key}, 0, 0), Query(None, {}, 1, 1),
     Query(IsRed, {}, -1, -1),
     Search(1, None, 1), Search(2, IsRed, Width + 1),
     [op |-> "count", filter |-> None], [op |-> "count", filter |-> IsRed]}

Symmetry == Permutations(Calls)
=============================================================================
