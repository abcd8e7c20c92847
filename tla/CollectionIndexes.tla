-------------------------- MODULE CollectionIndexes --------------------------
(***************************************************************************)
(* The indexes of a collection on their way to the server and back:        *)
(* createCollection puts the caller's two lists into one map keyed by      *)
(* field name, the server keeps that map with the collection, and          *)
(* describeCollection and listCollections turn it into two lists again     *)
(* with toCollection.  The order in which a protobuf map is iterated is    *)
(* unspecified.                                                            *)
(*                                                                         *)
(* An index is its field's name and type, the list entry it came from,     *)
(* which stands for indexType, and `metric`, the number of the vectorIndex *)
(* entry whose dimension, metricType and params it carries, 0 for none.    *)
(***************************************************************************)
EXTENDS Naturals, Sequences, SequencesExt

CONSTANTS
    Collections,  \* names of collections
    Names,        \* names of fields
    VectorTypes,  \* the field types the program gives to vector indexes
    FilterTypes,  \* and to filter indexes
    MaxVectors,   \* how many vector indexes it lists (bounds the model)
    MaxFilters,   \* how many filter indexes it lists (bounds the model)
    Unknown       \* no collection

ASSUME MaxAssumption == MaxVectors \in Nat /\ MaxFilters \in Nat

\* Indexes: the two lists of a program.
Listings ==
    [vectorIndex: BoundedSeq([fieldName: Names, fieldType: VectorTypes], MaxVectors),
     filterIndex: BoundedSeq([fieldName: Names, fieldType: FilterTypes], MaxFilters)]

VARIABLES
    server,     \* the request the server keeps with each collection
    created,    \* the indexes in the result of the last createCollection
    described   \* those of the last describeCollection or listCollections since

vars == <<server, created, described>>

(***************************************************************************)
(* createCollection: the request.                                          *)
(***************************************************************************)
VectorColumn(v, i) ==
    [fieldName |-> v.fieldName, fieldType |-> v.fieldType, elemType |-> "",
     entry |-> <<"vectorIndex", i>>, metric |-> i]

\* MUTANT: the element type is copied from the wrong member.
FilterColumnOfType(f, i) ==
    [fieldName |-> f.fieldName, fieldType |-> f.fieldType,
     elemType |-> IF f.fieldType = "array" THEN f.fieldType ELSE "",
     entry |-> <<"filterIndex", i>>, metric |-> 0]

\* The element type of an array is string, whatever elemType the caller gave.
FilterColumn(f, i) ==
    [fieldName |-> f.fieldName, fieldType |-> f.fieldType,
     elemType |-> IF f.fieldType = "array" THEN "string" ELSE "",
     entry |-> <<"filterIndex", i>>, metric |-> 0]

\* MUTANT: an index whose field has one already is left out.
PutIfAbsent(columns, column) ==
    IF column.fieldName \in DOMAIN columns THEN columns
    ELSE [n \in DOMAIN columns \cup {column.fieldName} |->
             IF n = column.fieldName THEN column ELSE columns[n]]

\* (*request.mutable_indexes())[v.fieldName] = column
Put(columns, column) ==
    [n \in DOMAIN columns \cup {column.fieldName} |->
        IF n = column.fieldName THEN column ELSE columns[n]]

Columns(listed) ==
    [i \in 1..Len(listed.vectorIndex) |-> VectorColumn(listed.vectorIndex[i], i)]
    \o
    [i \in 1..Len(listed.filterIndex) |-> FilterColumn(listed.filterIndex[i], i)]

Request(listed) == FoldLeft(Put, <<>>, Columns(listed))

(***************************************************************************)
(* toCollection: it adds the indexes of a map, in the order the iteration  *)
(* has, to those `collection` holds.                                       *)
(***************************************************************************)
NewCollection == [vectorIndex |-> <<>>, filterIndex |-> <<>>]

\* What is read of an index: the element type only of an array; dimension,
\* metricType and params only of a field of type vector, so that an index of the
\* list vectorIndex of any other type loses them.
IndexRead(column) ==
    [column EXCEPT !.elemType = IF column.fieldType = "array" THEN @ ELSE "",
                   !.metric = IF column.fieldType = "vector" THEN @ ELSE 0]

\* Fields of type vector to one list, arrays and all others to the other.
Emplace(collection, column) ==
    IF column.fieldType = "vector"
    THEN [collection EXCEPT !.vectorIndex = Append(@, IndexRead(column))]
    ELSE [collection EXCEPT !.filterIndex = Append(@, IndexRead(column))]

toCollection(columns, order, collection) ==
    FoldLeft(LAMBDA coll, n : Emplace(coll, columns[n]), collection, order)

Orders(columns) == SetToSeqs(DOMAIN columns)

(***************************************************************************)
(* The calls.  The server refuses to create a collection that exists and   *)
(* changes no index of one it keeps; a call that fails changes nothing here*)
(* (RpcClient has the ways it fails).                                      *)
(***************************************************************************)
Existing == {c \in Collections : server[c] # Unknown}

Init ==
    /\ server = [c \in Collections |-> Unknown]
    /\ created = [c \in Collections |-> Unknown]
    /\ described = [c \in Collections |-> Unknown]

createCollection(c, listed) ==
    /\ c \notin Existing
    /\ server' = [server EXCEPT ![c] = Request(listed)]
    /\ created' = [created EXCEPT ![c] = listed]
    /\ described' = [described EXCEPT ![c] = Unknown]

dropCollection(c) ==
    /\ c \in Existing
    /\ server' = [server EXCEPT ![c] = Unknown]
    /\ UNCHANGED <<created, described>>

describeCollection(c) ==
    /\ c \in Existing
    /\ \E order \in Orders(server[c]) :
          described' = [described EXCEPT ![c] =
                           toCollection(server[c], order, NewCollection)]
    /\ UNCHANGED <<server, created>>

\* MUTANT: one Collection object serves for all collections of the list.
ListIntoOneObject ==
    /\ \E c, d \in Existing : \E oc \in Orders(server[c]), od \in Orders(server[d]) :
          LET first == toCollection(server[c], oc, NewCollection) IN
          described' = [described EXCEPT ![c] = first,
                                         ![d] = toCollection(server[d], od, first)]
    /\ UNCHANGED <<server, created>>

\* Each collection of the response gets an object of its own.
listCollections ==
    /\ \E order \in [Existing -> UNION {Orders(server[c]) : c \in Existing}] :
          /\ \A c \in Existing : order[c] \in Orders(server[c])
          /\ described' = [c \in Collections |->
                IF c \in Existing
                THEN toCollection(server[c], order[c], NewCollection)
                ELSE described[c]]
    /\ UNCHANGED <<server, created>>

Next ==
    \/ \E c \in Collections :
          \/ \E listed \in Listings : createCollection(c, listed)
          \/ dropCollection(c)
          \/ describeCollection(c)
    \/ listCollections

Spec == Init /\ [][Next]_vars

(***************************************************************************)
(* Properties.                                                             *)
(***************************************************************************)
AllColumns == [fieldName: Names, fieldType: VectorTypes \cup FilterTypes,
               elemType: {"", "string"},
               entry: {"vectorIndex", "filterIndex"} \X (1..(MaxVectors + MaxFilters)),
               metric: 0..MaxVectors]

\* A map has the columns of its fields; a description has its columns in lists.
TypeOK ==
    /\ \A c \in Existing :
          /\ DOMAIN server[c] \subseteq Names
          /\ \A n \in DOMAIN server[c] : server[c][n] \in AllColumns
    /\ created \in [Collections -> Listings \cup {Unknown}]
    /\ \A c \in Collections : described[c] # Unknown =>
          /\ ToSet(described[c].vectorIndex) \subseteq AllColumns
          /\ ToSet(described[c].filterIndex) \subseteq AllColumns

\* A listing the documentation asks for: every field has one index, vectors are
\* of type vector and nothing else is.
WellFormed(listed) ==
    LET columns == Columns(listed) IN
    /\ \A i, j \in 1..Len(columns) :
          columns[i].fieldName = columns[j].fieldName => i = j
    /\ \A i \in 1..Len(listed.vectorIndex) : listed.vectorIndex[i].fieldType = "vector"
    /\ \A i \in 1..Len(listed.filterIndex) : listed.filterIndex[i].fieldType # "vector"

\* Whatever was created, dropped and created again, and in whatever order the map
\* is iterated, the indexes a program reads of a collection are those it gave to
\* the last createCollection, each once and in the list it was in.
IndexesSurvive ==
    \A c \in Collections :
        described[c] # Unknown /\ WellFormed(created[c]) =>
            LET columns == Columns(created[c])
                vectors == Len(created[c].vectorIndex)
            IN  /\ Len(described[c].vectorIndex) + Len(described[c].filterIndex)
                      = Len(columns)
                /\ ToSet(described[c].vectorIndex) =
                      {columns[i] : i \in 1..vectors}
                /\ ToSet(described[c].filterIndex) =
                      {columns[i] : i \in (vectors + 1)..Len(columns)}

\* Of several indexes a program lists for one field, the collection has the last,
\* filter indexes counting after vector indexes, and no other.
LastIndexOfField ==
    \A c \in Collections :
        described[c] # Unknown =>
            LET columns == Columns(created[c])
                got == described[c].vectorIndex \o described[c].filterIndex
            IN  \A n \in Names :
                    LET listed == {i \in 1..Len(columns) : columns[i].fieldName = n}
                        read == {i \in 1..Len(got) : got[i].fieldName = n}
                    IN  /\ listed = {} => read = {}
                        /\ listed # {} =>
                              \E i \in listed, k \in read :
                                  /\ \A j \in listed : j <= i
                                  /\ read = {k}
                                  /\ got[k].entry = columns[i].entry
=============================================================================
