---------------------------- MODULE MethodTable ----------------------------
(***************************************************************************)
(* Which method of the service a call of the stub reaches.  gRPC generates *)
(* an array SearchEngine_method_names, in the order of the proto, and each *)
(* method of the stub takes its path from its own position.  The README    *)
(* has the array replaced by a table of the server's paths, by hand.       *)
(***************************************************************************)
EXTENDS Naturals, Sequences

\* service SearchEngine
Methods ==
    <<"setAlias", "getAlias", "deleteAlias", "createCollection",
      "dropCollection", "truncateCollection", "describeCollection",
      "listCollections", "rebuildIndex", "modifyVectorIndex", "upsert",
      "update", "query", "search", "dele", "count", "createDatabase",
      "dropDatabase", "listDatabases">>

\* A path of the table, written as the method the server serves there.
SearchEngine_method_names ==
    <<"setAlias", "getAlias", "deleteAlias", "createCollection",
      "dropCollection", "truncateCollection", "describeCollection",
      "listCollections", "rebuildIndex", "upsert", "update", "query",
      "search", "dele", "createDatabase", "dropDatabase", "listDatabases">>

\* The methods that RpcClient calls.
Called ==
    {Methods[i] : i \in 1..Len(Methods)}
    \ {"setAlias", "getAlias", "deleteAlias", "modifyVectorIndex"}

Position(method) == CHOOSE i \in 1..Len(Methods) : Methods[i] = method

\* Past the end of the table the stub reads whatever is there.
Paths(method) ==
    IF Position(method) <= Len(SearchEngine_method_names)
    THEN {SearchEngine_method_names[Position(method)]}
    ELSE {Methods[i] : i \in 1..Len(Methods)} \cup {"no path"}

VARIABLE call    \* the call in progress and where it goes

Idle == [method |-> "none", reaches |-> "none"]

Init == call = Idle

Call == /\ call = Idle
        /\ \E m \in Called : \E p \in Paths(m) :
              call' = [method |-> m, reaches |-> p]

Return == /\ call # Idle
          /\ call' = Idle

Next == Call \/ Return

Spec == Init /\ [][Next]_call

\* The README gives the table that makes the SDK work: each method of the
\* client reaches the method of the server with its name.
CallReachesOwnMethod == call.method = call.reaches
=============================================================================
