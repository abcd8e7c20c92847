---------------------------- MODULE DocumentData ----------------------------
(***************************************************************************)
(* Documents and the arguments of the calls on them, as a program sees     *)
(* them (Field, Document and the parameter types) and as they travel       *)
(* (olama::Field and olama::Document), with the conversions between the    *)
(* two.  A Field is a std::variant, an olama::Field a oneof: they differ   *)
(* in the empty array, for which no member of the oneof is set.            *)
(***************************************************************************)
EXTENDS Integers, Sequences, FiniteSets

CONSTANTS
    Ids,          \* ids of documents
    Keys,         \* names of their fields
    Strings,      \* string values of fields
    EmptyString,  \* one of them
    Arrays,       \* arrays of them
    Numbers,      \* values of numeric fields
    Vectors,      \* vectors that are not empty
    None          \* no document, no filter, an empty vector, no answer

ASSUME IdsAssumption == IsFiniteSet(Ids)
ASSUME EmptyStringAssumption == EmptyString \in Strings
ASSUME ArraysAssumption == Arrays \subseteq Seq(Strings)

(***************************************************************************)
(* Fields.                                                                 *)
(***************************************************************************)
Field == [kind: {"str"}, val: Strings]
         \cup [kind: {"u64", "double"}, val: Numbers]
         \cup [kind: {"strArr"}, val: Arrays]

\* Field() holds the variant's first alternative.
DefaultField == [kind |-> "str", val |-> EmptyString]

\* An olama::Field with no member of its oneof set.
Unset == [oneof |-> "unset"]

ProtoField == [oneof: {"str"}, val: Strings]
              \cup [oneof: {"u64", "double"}, val: Numbers]
              \cup [oneof: {"strArr"}, val: Arrays \ {<<>>}]
              \cup {Unset}

IsEmptyArray(field) == field.kind = "strArr" /\ field.val = <<>>

\* MUTANT: an array is sent as an array, whatever its length.
ArraysAsTheyAre(field) == [oneof |-> field.kind, val |-> field.val]

\* Only adding an element sets val_str_arr.
convertField2Proto(field) ==
    IF IsEmptyArray(field) THEN Unset
    ELSE [oneof |-> field.kind, val |-> field.val]

\* The default case leaves the new Field as it is.
convertProto2Field(protoField) ==
    IF protoField = Unset THEN DefaultField
    ELSE [kind |-> protoField.oneof, val |-> protoField.val]

\* What a program reads of a field it wrote: an empty array has become the empty
\* string.
Readable(field) == IF IsEmptyArray(field) THEN DefaultField ELSE field

(***************************************************************************)
(* Documents.  The fields are a map; ids are kept beside the documents.    *)
(***************************************************************************)
Maps(values) == UNION {[keys -> values] : keys \in SUBSET Keys}

Document == [vector: Vectors \cup {None}, fields: Maps(Field)]

ProtoDocument == [vector: Vectors \cup {None}, fields: Maps(ProtoField)]

ASSUME NoneAssumption == None \notin Vectors \cup Document \cup ProtoDocument

MapFields(document, Convert(_)) ==
    [document EXCEPT !.fields = [k \in DOMAIN @ |-> Convert(@[k])]]

\* The loops over doc.fields and doc.vector in upsert and update.
ToProto(document) == MapFields(document, convertField2Proto)

\* The loops over doc.fields() and doc.vector() in query and search.
FromProto(document) == MapFields(document, convertProto2Field)

\* Fields and vector replace the old ones, an empty vector leaves the old one.
Overwrite(old, new) ==
    IF old = None THEN new
    ELSE [new EXCEPT !.vector = IF @ = None THEN old.vector ELSE @]

\* The fields given are changed or added and the others stay.
Merge(old, change) ==
    [vector |-> IF change.vector = None THEN old.vector ELSE change.vector,
     fields |-> [k \in DOMAIN old.fields \cup DOMAIN change.fields |->
                    IF k \in DOMAIN change.fields THEN change.fields[k]
                    ELSE old.fields[k]]]

(***************************************************************************)
(* Filters: a condition "key = value", or None for a null pointer.  Arrays *)
(* are not compared with, and neither is the empty string, which a program *)
(* may send like any other: where an empty array was stored, the program   *)
(* reads an empty string and the server has no value, and nothing in the   *)
(* repository says whether that meets key = "".                            *)
(***************************************************************************)
Filters == [key: Keys, value: Strings \ {EmptyString}] \cup {None}

Holds(document, key, value) ==
    key \in DOMAIN document.fields /\ document.fields[key] = value

\* A document as a program sees it meets a filter.
Meets(document, filter) ==
    \/ filter = None
    \/ Holds(document, filter.key, [kind |-> "str", val |-> filter.value])

\* A document of the server does.
Matches(document, filter) ==
    \/ filter = None
    \/ Holds(document, filter.key, [oneof |-> "str", val |-> filter.value])

(***************************************************************************)
(* The arguments of the calls.  No ids means every document.  The members  *)
(* of the parameter types have no initialisers: one the program leaves     *)
(* unset has any value.                                                    *)
(***************************************************************************)
UpsertArguments ==
    [op: {"upsert"}, documents: UNION {[ids -> Document] : ids \in SUBSET Ids}]

UpdateArguments ==
    [op: {"update"}, ids: SUBSET Ids, filter: Filters, change: Document]

DeleArguments ==
    [op: {"dele"}, ids: SUBSET Ids, filter: Filters, limit: Int]

\* The defaults of the request stand for params == nullptr.
QueryArguments ==
    [op: {"query"}, ids: SUBSET Ids, filter: Filters, retrieveVector: BOOLEAN,
     outputFields: SUBSET Keys, offset: Int, limit: Int]

\* `items`: how many ids, vectors and texts to search for; each gets a group.
SearchArguments ==
    [op: {"search"}, items: Nat, filter: Filters, retrieveVector: BOOLEAN,
     outputFields: SUBSET Keys, limit: Int]

CountArguments == [op: {"count"}, filter: Filters]

AllArguments == UpsertArguments \cup UpdateArguments \cup DeleArguments
                \cup QueryArguments \cup SearchArguments \cup CountArguments
=============================================================================
