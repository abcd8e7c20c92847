--------------------------- MODULE DocumentsProofs ---------------------------
(***************************************************************************)
(* The calls on documents implement DocumentStore, for any number of calls,*)
(* documents, fields and values, and any arguments.                        *)
(*                                                                         *)
(* The first part is about data: a field that goes out and comes back is   *)
(* the field that was given, but for the empty array; and what the server  *)
(* does to documents as they travel is what the store does to documents as *)
(* the program sees them.  The second part is about steps.                 *)
(***************************************************************************)
EXTENDS Documents, SequenceTheorems, TLAPS

(***************************************************************************)
(* Fields.                                                                 *)
(***************************************************************************)
LEMMA FieldTypes ==
    /\ \A f \in Field : convertField2Proto(f) \in ProtoField
    /\ \A p \in ProtoField : convertProto2Field(p) \in Field
<1>1. ASSUME NEW f \in Field PROVE convertField2Proto(f) \in ProtoField
  BY SMT DEF Field, ProtoField, convertField2Proto, IsEmptyArray, Unset
<1>2. ASSUME NEW p \in ProtoField PROVE convertProto2Field(p) \in Field
  <2>1. CASE p = Unset
    BY <2>1, EmptyStringAssumption DEF Field, convertProto2Field, DefaultField
  <2>2. CASE p # Unset
    BY <2>2 DEF Field, ProtoField, convertProto2Field, Unset
  <2> QED
    BY <2>1, <2>2
<1> QED
  BY <1>1, <1>2

\* convertProto2Field after convertField2Proto: type and value of every field
\* survive the way through olama::Field, except that an empty array becomes the
\* empty string.
THEOREM RoundTrip ==
    \A f \in Field : convertProto2Field(convertField2Proto(f)) = Readable(f)
<1> SUFFICES ASSUME NEW f \in Field
             PROVE  convertProto2Field(convertField2Proto(f)) = Readable(f)
  OBVIOUS
<1>1. CASE IsEmptyArray(f)
  BY <1>1 DEF convertField2Proto, convertProto2Field, Readable
<1>2. CASE ~IsEmptyArray(f)
  <2>1. [oneof |-> f.kind, val |-> f.val] # Unset
    <3>1. f.kind # "unset"
      BY DEF Field
    <3> QED
      BY <3>1 DEF Unset
  <2>2. f = [kind |-> f.kind, val |-> f.val]
    BY DEF Field
  <2> QED
    BY <1>2, <2>1, <2>2 DEF convertField2Proto, convertProto2Field, Readable
<1> QED
  BY <1>1, <1>2

\* A field as it travels holds a string other than the empty one exactly if the
\* field the program sees does: conditions mean the same on both sides.
LEMMA SameString ==
    ASSUME NEW p \in ProtoField, NEW v, v # EmptyString
    PROVE  (p = [oneof |-> "str", val |-> v])
              <=> (convertProto2Field(p) = [kind |-> "str", val |-> v])
<1>1. CASE p = Unset
  <2>1. p # [oneof |-> "str", val |-> v]
    BY <1>1 DEF Unset
  <2>2. DefaultField # [kind |-> "str", val |-> v]
    BY DEF DefaultField
  <2> QED
    BY <1>1, <2>1, <2>2 DEF convertProto2Field
<1>2. CASE p # Unset
  <2>1. p = [oneof |-> p.oneof, val |-> p.val]
    BY <1>2 DEF ProtoField
  <2>2. convertProto2Field(p) = [kind |-> p.oneof, val |-> p.val]
    BY <1>2 DEF convertProto2Field
  <2> QED
    BY <2>1, <2>2
<1> QED
  BY <1>1, <1>2

(***************************************************************************)
(* Documents.                                                              *)
(***************************************************************************)
LEMMA MapsAre ==
    ASSUME NEW S, NEW f
    PROVE  f \in Maps(S) <=> f \in [DOMAIN f -> S] /\ DOMAIN f \subseteq Keys
BY DEF Maps

LEMMA ToProtoIs ==
    ASSUME NEW x \in Document
    PROVE  /\ ToProto(x) \in ProtoDocument
           /\ ToProto(x) = [vector |-> x.vector,
                            fields |-> [k \in DOMAIN x.fields |->
                                          convertField2Proto(x.fields[k])]]
<1> DEFINE fields == [k \in DOMAIN x.fields |-> convertField2Proto(x.fields[k])]
<1>1. x.fields \in Maps(Field) /\ x.vector \in Vectors \cup {None}
  BY DEF Document
<1>2. fields \in Maps(ProtoField)
  <2>1. x.fields \in [DOMAIN x.fields -> Field] /\ DOMAIN x.fields \subseteq Keys
    BY <1>1, MapsAre
  <2>2. fields \in [DOMAIN fields -> ProtoField] /\ DOMAIN fields \subseteq Keys
    BY <2>1, FieldTypes
  <2> QED
    BY <2>2, MapsAre
<1>3. ToProto(x) = [vector |-> x.vector, fields |-> fields]
  BY DEF ToProto, MapFields, Document
<1> QED
  BY <1>1, <1>2, <1>3 DEF ProtoDocument

LEMMA FromProtoIs ==
    ASSUME NEW p \in ProtoDocument
    PROVE  /\ FromProto(p) \in Document
           /\ FromProto(p) # None
           /\ FromProto(p) = [vector |-> p.vector,
                              fields |-> [k \in DOMAIN p.fields |->
                                            convertProto2Field(p.fields[k])]]
<1> DEFINE fields == [k \in DOMAIN p.fields |-> convertProto2Field(p.fields[k])]
<1>1. p.fields \in Maps(ProtoField) /\ p.vector \in Vectors \cup {None}
  BY DEF ProtoDocument
<1>2. fields \in Maps(Field)
  <2>1. p.fields \in [DOMAIN p.fields -> ProtoField] /\ DOMAIN p.fields \subseteq Keys
    BY <1>1, MapsAre
  <2>2. fields \in [DOMAIN fields -> Field] /\ DOMAIN fields \subseteq Keys
    BY <2>1, FieldTypes
  <2> QED
    BY <2>2, MapsAre
<1>3. FromProto(p) = [vector |-> p.vector, fields |-> fields]
  BY DEF FromProto, MapFields, ProtoDocument
<1>4. FromProto(p) \in Document
  BY <1>1, <1>2, <1>3 DEF Document
<1> QED
  BY <1>3, <1>4, NoneAssumption

\* What the program reads of a document it wrote.
ReadBack(x) == [vector |-> x.vector,
                fields |-> [k \in DOMAIN x.fields |-> Readable(x.fields[k])]]

LEMMA ReadBackIs ==
    ASSUME NEW x \in Document
    PROVE  /\ FromProto(ToProto(x)) = ReadBack(x)
           /\ MapFields(x, Readable) = ReadBack(x)
<1>1. x.fields \in [DOMAIN x.fields -> Field]
  BY MapsAre DEF Document
<1>2. FromProto(ToProto(x)) = ReadBack(x)
  <2> DEFINE sent == ToProto(x).fields
             read == [k \in DOMAIN sent |-> convertProto2Field(sent[k])]
  <2>1. FromProto(ToProto(x)) = [vector |-> ToProto(x).vector, fields |-> read]
    BY ToProtoIs, FromProtoIs
  <2>2. /\ ToProto(x).vector = x.vector
        /\ sent = [k \in DOMAIN x.fields |-> convertField2Proto(x.fields[k])]
    BY ToProtoIs
  <2>3. read = [k \in DOMAIN x.fields |-> Readable(x.fields[k])]
    BY <1>1, <2>2, RoundTrip
  <2> QED
    BY <2>1, <2>2, <2>3 DEF ReadBack
<1>3. MapFields(x, Readable) = ReadBack(x)
  BY DEF MapFields, ReadBack, Document
<1> QED
  BY <1>2, <1>3

\* A document of the server as the program sees it.
AsSeen(p) == IF p = None THEN None ELSE FromProto(p)

LEMMA Overwritten ==
    ASSUME NEW p \in ProtoDocument \cup {None}, NEW x \in Document
    PROVE  /\ Overwrite(p, ToProto(x)) \in ProtoDocument
           /\ FromProto(Overwrite(p, ToProto(x))) = Overwrite(AsSeen(p), ReadBack(x))
<1>1. CASE p = None
  BY <1>1, ToProtoIs, ReadBackIs DEF Overwrite, AsSeen
<1>2. CASE p # None
  <2> DEFINE new == ToProto(x)
             vec == IF new.vector = None THEN p.vector ELSE new.vector
             doc == [vector |-> vec, fields |-> new.fields]
  <2>1. p \in ProtoDocument /\ new \in ProtoDocument
    BY <1>2, ToProtoIs
  <2>2. Overwrite(p, new) = doc
    BY <1>2, <2>1 DEF Overwrite, ProtoDocument
  <2>3. doc \in ProtoDocument
    BY <2>1 DEF ProtoDocument
  <2>4. FromProto(doc) = [vector |-> vec, fields |-> FromProto(new).fields]
    BY <2>1, <2>3, FromProtoIs
  <2>5. FromProto(new) = ReadBack(x) /\ new.vector = x.vector
    BY ReadBackIs, ToProtoIs
  <2>6. /\ AsSeen(p) = FromProto(p) /\ FromProto(p) # None
        /\ FromProto(p).vector = p.vector
    BY <1>2, <2>1, FromProtoIs DEF AsSeen
  <2>7. Overwrite(AsSeen(p), ReadBack(x))
          = [vector |-> vec, fields |-> ReadBack(x).fields]
    BY <2>5, <2>6 DEF Overwrite, ReadBack
  <2> QED
    BY <2>2, <2>3, <2>4, <2>5, <2>7
<1> QED
  BY <1>1, <1>2

LEMMA Merged ==
    ASSUME NEW p \in ProtoDocument, NEW x \in Document
    PROVE  /\ Merge(p, ToProto(x)) \in ProtoDocument
           /\ FromProto(Merge(p, ToProto(x))) = Merge(FromProto(p), ReadBack(x))
<1> DEFINE new == ToProto(x)
           old == FromProto(p)
           read == ReadBack(x)
           vec == IF new.vector = None THEN p.vector ELSE new.vector
           fields == [k \in DOMAIN p.fields \cup DOMAIN new.fields |->
                        IF k \in DOMAIN new.fields THEN new.fields[k]
                        ELSE p.fields[k]]
           doc == [vector |-> vec, fields |-> fields]
<1>1. new \in ProtoDocument /\ new.vector = x.vector /\ FromProto(new) = read
  BY ToProtoIs, ReadBackIs
<1>2. /\ p.fields \in [DOMAIN p.fields -> ProtoField] /\ DOMAIN p.fields \subseteq Keys
      /\ new.fields \in [DOMAIN new.fields -> ProtoField]
      /\ DOMAIN new.fields \subseteq Keys
  BY <1>1, MapsAre DEF ProtoDocument
<1>3. fields \in [DOMAIN fields -> ProtoField] /\ DOMAIN fields \subseteq Keys
  BY <1>2
<1>4. Merge(p, new) = doc
  BY DEF Merge
<1>5. doc \in ProtoDocument
  <2>1. fields \in Maps(ProtoField)
    BY <1>3, MapsAre
  <2>2. vec \in Vectors \cup {None}
    BY <1>1 DEF ProtoDocument
  <2> QED
    BY <2>1, <2>2 DEF ProtoDocument
<1>6. FromProto(doc) = [vector |-> vec,
                        fields |-> [k \in DOMAIN fields |->
                                      convertProto2Field(fields[k])]]
  BY <1>5, FromProtoIs
<1>7. /\ old = [vector |-> p.vector,
                fields |-> [k \in DOMAIN p.fields |-> convertProto2Field(p.fields[k])]]
      /\ read = [vector |-> new.vector,
                 fields |-> [k \in DOMAIN new.fields |->
                               convertProto2Field(new.fields[k])]]
  BY <1>1, FromProtoIs
<1>8. Merge(old, read) =
        [vector |-> vec,
         fields |-> [k \in DOMAIN p.fields \cup DOMAIN new.fields |->
                       IF k \in DOMAIN new.fields
                       THEN convertProto2Field(new.fields[k])
                       ELSE convertProto2Field(p.fields[k])]]
  BY <1>7 DEF Merge
<1>9. [k \in DOMAIN fields |-> convertProto2Field(fields[k])]
        = [k \in DOMAIN p.fields \cup DOMAIN new.fields |->
             IF k \in DOMAIN new.fields
             THEN convertProto2Field(new.fields[k])
             ELSE convertProto2Field(p.fields[k])]
  OBVIOUS
<1> QED
  BY <1>4, <1>5, <1>6, <1>8, <1>9

LEMMA SameFilter ==
    ASSUME NEW p \in ProtoDocument, NEW f \in Filters
    PROVE  Matches(p, f) <=> Meets(FromProto(p), f)
<1>1. CASE f = None
  BY <1>1 DEF Matches, Meets
<1>2. CASE f # None
  <2>1. f.value # EmptyString
    BY <1>2 DEF Filters
  <2>2. p.fields \in [DOMAIN p.fields -> ProtoField]
    BY MapsAre DEF ProtoDocument
  <2>3. FromProto(p).fields
          = [k \in DOMAIN p.fields |-> convertProto2Field(p.fields[k])]
    BY FromProtoIs
  <2>4. ASSUME f.key \in DOMAIN p.fields
        PROVE  (p.fields[f.key] = [oneof |-> "str", val |-> f.value])
                 <=> (FromProto(p).fields[f.key] = [kind |-> "str", val |-> f.value])
    BY <2>1, <2>2, <2>3, <2>4, SameString
  <2> QED
    BY <1>2, <2>3, <2>4 DEF Matches, Meets, Holds
<1> QED
  BY <1>1, <1>2

(***************************************************************************)
(* The inductive invariant: the state has its types, and the request of a  *)
(* call carries what its arguments say.                                    *)
(***************************************************************************)
Stores == [Ids -> ProtoDocument \cup {None}]

Shape ==
    /\ outcome \in [Calls -> {"unissued", "pending", "ok", "error"}]
    /\ effects \in Seq(Calls)
    /\ args \in [Calls -> Arguments \cup {None}]
    /\ request = [c \in Calls |-> request[c]]
    /\ answer = [c \in Calls |-> answer[c]]
    /\ result = [c \in Calls |-> result[c]]
    /\ versions \in Seq(Stores)
    /\ Len(versions) = Len(effects) + 1

Carries(r, a) ==
    /\ r.op = a.op
    /\ a.op = "upsert" =>
          r.documents = [d \in DOMAIN a.documents |-> ToProto(a.documents[d])]
    /\ a.op # "upsert" => r.filter = a.filter
    /\ a.op \in {"update", "dele", "query"} => r.ids = a.ids
    /\ a.op = "update" => r.update = ToProto(a.change)
    /\ a.op = "dele" => r.limit = IF a.limit > 0 THEN a.limit ELSE 0
    /\ a.op = "query" => r.limit = a.limit /\ r.offset = a.offset
    /\ a.op = "search" => /\ r.limit = a.limit % Width
                          /\ r.items = a.items
                          /\ r.ids = {}
    /\ a.op \in {"query", "search"} => /\ r.retrieveVector = a.retrieveVector
                                       /\ r.outputFields = a.outputFields

Linked ==
    \A c \in Calls : IF outcome[c] = "unissued" THEN args[c] = None
                     ELSE args[c] \in Arguments /\ Carries(request[c], args[c])

IInv == Shape /\ Linked

LEMMA RequestCarries ==
    ASSUME NEW a \in Arguments
    PROVE  Carries(Request(a), a)
<1>1. a \in AllArguments
  BY ArgumentsAssumption
<1>2. CASE a \in UpsertArguments
  BY <1>2 DEF UpsertArguments, Request, UpsertRequest, Carries
<1>3. CASE a \in UpdateArguments
  BY <1>3 DEF UpdateArguments, Request, UpdateRequest, Carries
<1>4. CASE a \in DeleArguments
  BY <1>4 DEF DeleArguments, Request, DeleRequest, Carries
<1>5. CASE a \in QueryArguments
  BY <1>5 DEF QueryArguments, Request, QueryRequest, Reading, Carries
<1>6. CASE a \in SearchArguments
  BY <1>6 DEF SearchArguments, Request, SearchRequest, Reading, Carries
<1>7. CASE a \in CountArguments
  BY <1>7 DEF CountArguments, Request, CountRequest, Carries
<1> QED
  BY <1>1, <1>2, <1>3, <1>4, <1>5, <1>6, <1>7 DEF AllArguments

\* What the kinds of argument contain.
LEMMA ArgumentTypes ==
    ASSUME NEW a \in Arguments
    PROVE  /\ a.op \in {"upsert", "update", "dele", "query", "search", "count"}
           /\ a.op = "upsert" => /\ DOMAIN a.documents \subseteq Ids
                                 /\ \A d \in DOMAIN a.documents :
                                       a.documents[d] \in Document
           /\ a.op # "upsert" => a.filter \in Filters
           /\ a.op \in {"update", "dele"} => a.ids \subseteq Ids
           /\ a.op = "update" => a.change \in Document
           /\ a.op = "dele" => a.limit \in Int
           /\ a.op = "query" => a.limit \in Int /\ a.offset \in Int
           /\ a.op = "search" => a.limit \in Int /\ a.items \in Nat
<1>1. a \in AllArguments
  BY ArgumentsAssumption
<1>2. CASE a \in UpsertArguments
  BY <1>2 DEF UpsertArguments
<1>3. CASE a \in UpdateArguments
  BY <1>3 DEF UpdateArguments
<1>4. CASE a \in DeleArguments
  BY <1>4 DEF DeleArguments
<1>5. CASE a \in QueryArguments
  BY <1>5 DEF QueryArguments
<1>6. CASE a \in SearchArguments
  BY <1>6 DEF SearchArguments
<1>7. CASE a \in CountArguments
  BY <1>7 DEF CountArguments
<1> QED
  BY <1>1, <1>2, <1>3, <1>4, <1>5, <1>6, <1>7 DEF AllArguments

LEMMA CurrentIsStore ==
    ASSUME Shape
    PROVE  /\ Len(versions) \in Nat \ {0}
           /\ Current \in Stores
<1>1. Len(versions) \in Nat \ {0}
  <2>1. Len(effects) \in Nat
    BY DEF Shape
  <2> QED
    BY <2>1 DEF Shape
<1>2. Current \in Stores
  BY <1>1 DEF Current, Shape
<1> QED
  BY <1>1, <1>2

\* What all steps of the server have in common.
LEMMA ExecutesStep ==
    ASSUME IInv, NEW c \in Calls, NEW op, NEW store \in Stores, NEW reply,
           Executes(c, op, store, reply)
    PROVE  /\ IInv'
           /\ Current' = store
           /\ Len(versions') = Len(versions) + 1
<1>1. /\ outcome' = outcome /\ args' = args /\ request' = request
      /\ result' = result
      /\ effects' = Append(effects, c)
      /\ versions' = Append(versions, store)
      /\ answer' = [answer EXCEPT ![c] = reply]
  BY DEF Executes, Remote!TakeEffect
<1>2. /\ effects \in Seq(Calls) /\ versions \in Seq(Stores)
      /\ Len(versions) = Len(effects) + 1
  BY DEF IInv, Shape
<1>3. /\ effects' \in Seq(Calls) /\ Len(effects') = Len(effects) + 1
      /\ versions' \in Seq(Stores) /\ Len(versions') = Len(versions) + 1
      /\ versions'[Len(versions) + 1] = store
  BY <1>1, <1>2, AppendProperties
<1>4. Len(versions') = Len(effects') + 1
  BY <1>2, <1>3
<1>5. Shape'
  BY <1>1, <1>3, <1>4 DEF IInv, Shape
<1>6. Linked'
  BY <1>1 DEF IInv, Linked
<1>7. Current' = store
  BY <1>3 DEF Current
<1> QED
  BY <1>3, <1>5, <1>6, <1>7 DEF IInv

(***************************************************************************)
(* What the server does to the documents of a request.                     *)
(***************************************************************************)
Overwriting(documents) ==
    [d \in Ids |-> IF d \in DOMAIN documents
                   THEN Overwrite(Current[d], documents[d]) ELSE Current[d]]

Merging(selected, change) ==
    [d \in Ids |-> IF d \in selected THEN Merge(Current[d], change)
                   ELSE Current[d]]

Deleting(gone) == [d \in Ids |-> IF d \in gone THEN None ELSE Current[d]]

\* The documents the program sees.
SeenOf(store) == [d \in Ids |-> AsSeen(store[d])]

LEMMA AsSeenNone ==
    ASSUME NEW p \in ProtoDocument \cup {None}
    PROVE  /\ (AsSeen(p) = None) <=> (p = None)
           /\ p # None => p \in ProtoDocument /\ AsSeen(p) = FromProto(p)
BY FromProtoIs DEF AsSeen

\* Selected and chosen documents are the same.
LEMMA SameSelection ==
    ASSUME Shape, NEW a \in Arguments, a.op \in {"update", "dele"}
    PROVE  Selected(Current, a.ids, a.filter) = Store!Chosen(a)
<1>1. Current \in Stores /\ a.filter \in Filters
  BY CurrentIsStore, ArgumentTypes
<1>2. ASSUME NEW d \in Ids
      PROVE  /\ (Current[d] # None) <=> (Seen(Len(versions))[d] # None)
             /\ Current[d] # None =>
                   (Matches(Current[d], a.filter)
                      <=> Store!Meets(Seen(Len(versions))[d], a.filter))
  <2>1. Current[d] \in ProtoDocument \cup {None}
    BY <1>1 DEF Stores
  <2>2. Seen(Len(versions))[d] = AsSeen(Current[d])
    BY DEF Seen, AsSeen, Current
  <2>3. Current[d] # None =>
           (Matches(Current[d], a.filter) <=> Meets(AsSeen(Current[d]), a.filter))
    BY <1>1, <2>1, AsSeenNone, SameFilter
  <2> QED
    BY <2>1, <2>2, <2>3, AsSeenNone DEF Meets, Holds, Store!Meets, Store!Holds
<1> QED
  BY <1>2 DEF Selected, Store!Chosen

LEMMA UpsertedStore ==
    ASSUME Shape, NEW a \in Arguments, a.op = "upsert",
           NEW documents,
           documents = [d \in DOMAIN a.documents |-> ToProto(a.documents[d])]
    PROVE  /\ Overwriting(documents) \in Stores
           /\ SeenOf(Overwriting(documents)) =
                [d \in Ids |->
                   IF d \in DOMAIN a.documents
                   THEN Overwrite(AsSeen(Current[d]), ReadBack(a.documents[d]))
                   ELSE AsSeen(Current[d])]
<1> DEFINE new == Overwriting(documents)
<1>1. Current \in Stores
  BY CurrentIsStore
<1>2. ASSUME NEW d \in DOMAIN a.documents
      PROVE  /\ d \in Ids
             /\ new[d] \in ProtoDocument
             /\ AsSeen(new[d]) = Overwrite(AsSeen(Current[d]), ReadBack(a.documents[d]))
  <2>1. d \in Ids /\ a.documents[d] \in Document
    BY ArgumentTypes
  <2>2. new[d] = Overwrite(Current[d], ToProto(a.documents[d]))
    BY <2>1 DEF Overwriting
  <2>3. Current[d] \in ProtoDocument \cup {None}
    BY <1>1, <2>1 DEF Stores
  <2>4. new[d] \in ProtoDocument
    BY <2>1, <2>2, <2>3, Overwritten
  <2>5. AsSeen(new[d]) = FromProto(new[d])
    BY <2>4, AsSeenNone, NoneAssumption
  <2> QED
    BY <2>1, <2>2, <2>3, <2>4, <2>5, Overwritten
<1>3. ASSUME NEW d \in Ids, d \notin DOMAIN a.documents
      PROVE  new[d] = Current[d]
  BY <1>3 DEF Overwriting
<1>4. new \in Stores
  BY <1>1, <1>2, <1>3 DEF Stores, Overwriting
<1> QED
  BY <1>2, <1>3, <1>4 DEF SeenOf

LEMMA UpdatedStore ==
    ASSUME Shape, NEW a \in Arguments, a.op = "update", NEW selected,
           selected = Selected(Current, a.ids, a.filter)
    PROVE  /\ Merging(selected, ToProto(a.change)) \in Stores
           /\ SeenOf(Merging(selected, ToProto(a.change))) =
                [d \in Ids |-> IF d \in selected
                               THEN Merge(AsSeen(Current[d]), ReadBack(a.change))
                               ELSE AsSeen(Current[d])]
<1> DEFINE new == Merging(selected, ToProto(a.change))
<1>1. Current \in Stores /\ a.change \in Document
  BY CurrentIsStore, ArgumentTypes
<1>2. ASSUME NEW d \in selected
      PROVE  /\ d \in Ids
             /\ new[d] \in ProtoDocument
             /\ AsSeen(new[d]) = Merge(AsSeen(Current[d]), ReadBack(a.change))
  <2>1. d \in Ids /\ Current[d] # None
    BY DEF Selected
  <2>2. new[d] = Merge(Current[d], ToProto(a.change))
    BY <2>1 DEF Merging
  <2>3. Current[d] \in ProtoDocument /\ AsSeen(Current[d]) = FromProto(Current[d])
    BY <1>1, <2>1, AsSeenNone DEF Stores
  <2>4. /\ new[d] \in ProtoDocument
        /\ FromProto(new[d]) = Merge(AsSeen(Current[d]), ReadBack(a.change))
    BY <1>1, <2>2, <2>3, Merged
  <2> QED
    BY <2>1, <2>4, AsSeenNone, NoneAssumption
<1>3. ASSUME NEW d \in Ids, d \notin selected
      PROVE  new[d] = Current[d]
  BY <1>3 DEF Merging
<1>4. new \in Stores
  BY <1>1, <1>2, <1>3 DEF Stores, Merging
<1> QED
  BY <1>2, <1>3, <1>4 DEF SeenOf

LEMMA DeletedStore ==
    ASSUME Shape, NEW gone
    PROVE  /\ Deleting(gone) \in Stores
           /\ SeenOf(Deleting(gone)) =
                [d \in Ids |-> IF d \in gone THEN None ELSE AsSeen(Current[d])]
BY CurrentIsStore DEF Deleting, Stores, SeenOf, AsSeen

\* Every step of the server keeps the invariant.
LEMMA ServerStep ==
    ASSUME IInv, NEW c \in Calls,
           \/ ServerUpserts(c) \/ ServerUpdates(c)
           \/ \E gone \in SUBSET Ids : ServerDeletes(c, gone)
           \/ ServerQueries(c) \/ ServerSearches(c) \/ ServerCounts(c)
    PROVE  IInv'
<1>1. CASE ServerUpserts(c)
  <2>1. Executes(c, "upsert", Overwriting(request[c].documents),
                 [affectedCount |-> Cardinality(DOMAIN request[c].documents)])
    BY <1>1 DEF ServerUpserts, Overwriting
  <2>2. /\ args[c] \in Arguments /\ Carries(request[c], args[c])
        /\ request[c].op = "upsert"
    BY <2>1 DEF Executes, Asks, IInv, Linked
  <2>3. Overwriting(request[c].documents) \in Stores
    BY <2>2, UpsertedStore DEF Carries, IInv
  <2> QED
    BY <2>1, <2>3, ExecutesStep
<1>2. CASE ServerUpdates(c)
  <2> DEFINE selected == Selected(Current, request[c].ids, request[c].filter)
  <2>1. Executes(c, "update", Merging(selected, request[c].update),
                 [affectedCount |-> Cardinality(selected)])
    BY <1>2 DEF ServerUpdates, Merging
  <2>2. /\ args[c] \in Arguments /\ Carries(request[c], args[c])
        /\ request[c].op = "update"
    BY <2>1 DEF Executes, Asks, IInv, Linked
  <2>3. /\ args[c].op = "update"
        /\ request[c].update = ToProto(args[c].change)
        /\ selected = Selected(Current, args[c].ids, args[c].filter)
    BY <2>2 DEF Carries
  <2>4. Merging(selected, request[c].update) \in Stores
    BY <2>2, <2>3, UpdatedStore DEF IInv
  <2> QED
    BY <2>1, <2>4, ExecutesStep
<1>3. CASE \E gone \in SUBSET Ids : ServerDeletes(c, gone)
  <2>1. PICK gone \in SUBSET Ids : ServerDeletes(c, gone)
    BY <1>3
  <2>2. Executes(c, "dele", Deleting(gone), [affectedCount |-> Cardinality(gone)])
    BY <2>1 DEF ServerDeletes, Deleting
  <2> QED
    BY <2>2, DeletedStore, ExecutesStep DEF IInv
<1>4. CASE ServerQueries(c) \/ ServerSearches(c) \/ ServerCounts(c)
  <2>1. \E op, reply : Executes(c, op, Current, reply)
    BY <1>4 DEF ServerQueries, ServerSearches, ServerCounts
  <2> QED
    BY <2>1, CurrentIsStore, ExecutesStep DEF IInv
<1> QED
  BY <1>1, <1>2, <1>3, <1>4

\* The second half of a handler changes the outcome and the result only.
Handled(c) == upsert(c) \/ update(c) \/ dele(c) \/ query(c) \/ search(c) \/ count(c)

LEMMA HandledStep ==
    ASSUME IInv, NEW c \in Calls, Handled(c) \/ Fail(c)
    PROVE  /\ IInv'
           /\ UNCHANGED <<consistency, args, request, versions, effects, answer>>
<1>1. \E op, written : Handled(c) => Return(c, op, written)
  BY DEF Handled, upsert, update, dele, query, search, count
<1>2. /\ outcome[c] = "pending"
      /\ outcome' \in {[outcome EXCEPT ![c] = "ok"], [outcome EXCEPT ![c] = "error"]}
      /\ UNCHANGED <<consistency, args, request, versions, effects, answer>>
      /\ \/ result' = result
         \/ \E written : result' = [result EXCEPT ![c] = written]
  BY <1>1 DEF Return, Fail, Remote!Acknowledge, Remote!GiveUp
<1>3. Shape'
  BY <1>2 DEF IInv, Shape
<1>4. Linked'
  BY <1>2 DEF IInv, Linked, Shape
<1> QED
  BY <1>2, <1>3, <1>4 DEF IInv

LEMMA InvokeStep ==
    ASSUME IInv, NEW c \in Calls, NEW a \in Arguments, Invoke(c, a)
    PROVE  IInv'
<1>1. /\ outcome[c] = "unissued"
      /\ outcome' = [outcome EXCEPT ![c] = "pending"]
      /\ args' = [args EXCEPT ![c] = a]
      /\ request' = [request EXCEPT ![c] = Request(a)]
      /\ UNCHANGED <<versions, effects, answer, result>>
  BY DEF Invoke, Remote!Issue
<1>2. Shape'
  BY <1>1 DEF IInv, Shape
<1>3. Linked'
  <2> SUFFICES ASSUME NEW b \in Calls
               PROVE  IF outcome'[b] = "unissued" THEN args'[b] = None
                      ELSE args'[b] \in Arguments /\ Carries(request'[b], args'[b])
    BY DEF Linked
  <2>1. CASE b = c
    <3>1. outcome'[b] = "pending" /\ args'[b] = a /\ request'[b] = Request(a)
      BY <1>1, <2>1 DEF IInv, Shape
    <3> QED
      BY <3>1, RequestCarries
  <2>2. CASE b # c
    BY <1>1, <2>2 DEF IInv, Linked, Shape
  <2> QED
    BY <2>1, <2>2
<1> QED
  BY <1>2, <1>3 DEF IInv

LEMMA InitInv == Init => IInv
<1> SUFFICES ASSUME Init PROVE IInv
  OBVIOUS
<1>1. outcome = [c \in Calls |-> "unissued"] /\ effects = <<>>
  BY DEF Init, Remote!Init
<1>2. [d \in Ids |-> None] \in Stores
  BY DEF Stores
<1>3. versions \in Seq(Stores) /\ Len(versions) = 1
  BY <1>2 DEF Init
<1>4. Shape
  BY <1>1, <1>3 DEF Init, Shape
<1>5. Linked
  BY <1>1 DEF Init, Linked
<1> QED
  BY <1>4, <1>5 DEF IInv

LEMMA NextInv == IInv /\ [Next]_vars => IInv'
<1> SUFFICES ASSUME IInv, [Next]_vars PROVE IInv'
  OBVIOUS
<1>1. CASE UNCHANGED vars
  BY <1>1 DEF vars, IInv, Shape, Linked
<1>2. ASSUME NEW c \in Calls, NEW a \in Arguments, Invoke(c, a) PROVE IInv'
  BY <1>2, InvokeStep
<1>3. ASSUME NEW c \in Calls,
             \/ ServerUpserts(c) \/ ServerUpdates(c)
             \/ \E gone \in SUBSET Ids : ServerDeletes(c, gone)
             \/ ServerQueries(c) \/ ServerSearches(c) \/ ServerCounts(c)
      PROVE  IInv'
  BY <1>3, ServerStep
<1>4. ASSUME NEW c \in Calls, Handled(c) \/ Fail(c) PROVE IInv'
  BY <1>4, HandledStep
<1> QED
  BY <1>1, <1>2, <1>3, <1>4 DEF Next, Handled

\* The invariant holds in every reachable state.
THEOREM Invariance == Spec => []IInv
<1> QED
  BY InitInv, NextInv, PTL DEF Spec

(***************************************************************************)
(* The refinement.                                                         *)
(***************************************************************************)
Applied == {c \in Calls : Remote!HasEffect(c)}

LEMMA AppliedGrows ==
    ASSUME IInv, NEW c \in Calls, NEW op, NEW store \in Stores, NEW reply,
           Executes(c, op, store, reply)
    PROVE  /\ Store!Apply(c, args[c].op)
           /\ request[c].op = op
           /\ args[c] \in Arguments /\ Carries(request[c], args[c])
           /\ Seen(Len(versions))' = SeenOf(store)
<1>1. /\ outcome[c] # "unissued" /\ request[c].op = op
      /\ ~Remote!HasEffect(c)
      /\ effects' = Append(effects, c)
      /\ UNCHANGED args
  BY DEF Executes, Asks, Remote!TakeEffect
<1>2. args[c] \in Arguments /\ Carries(request[c], args[c])
  BY <1>1 DEF IInv, Linked
<1>3. Applied' = Applied \cup {c}
  <2>1. /\ effects \in Seq(Calls)
        /\ Len(effects') = Len(effects) + 1
        /\ \A i \in 1..Len(effects) : effects'[i] = effects[i]
        /\ effects'[Len(effects) + 1] = c
    BY <1>1, AppendProperties DEF IInv, Shape
  <2>2. ASSUME NEW b \in Calls
        PROVE  Remote!HasEffect(b)' <=> Remote!HasEffect(b) \/ b = c
    BY <2>1 DEF Remote!HasEffect
  <2> QED
    BY <2>2 DEF Applied
<1>4. Current' = store
  BY ExecutesStep
<1>5. Seen(Len(versions))' = SeenOf(store)
  BY <1>4 DEF Seen, SeenOf, AsSeen, Current
<1>6. Store!Apply(c, args[c].op)
  BY <1>1, <1>2, <1>3, NoArguments DEF Store!Apply, Applied
<1> QED
  BY <1>1, <1>2, <1>5, <1>6

LEMMA SeenIs == Seen(Len(versions)) = SeenOf(Current)
BY DEF Seen, SeenOf, AsSeen, Current

\* A step of the server is the step of the store for the same arguments.
LEMMA ServerRefines ==
    ASSUME IInv, NEW c \in Calls,
           \/ ServerUpserts(c) \/ ServerUpdates(c)
           \/ \E gone \in SUBSET Ids : ServerDeletes(c, gone)
           \/ ServerQueries(c) \/ ServerSearches(c) \/ ServerCounts(c)
    PROVE  Store!Upsert(c) \/ Store!Update(c) \/ Store!Dele(c) \/ Store!Read(c)
<1> DEFINE docs == Seen(Len(versions))
<1>1. docs = [d \in Ids |-> AsSeen(Current[d])]
  BY SeenIs DEF SeenOf
<1>2. CASE ServerUpserts(c)
  <2> DEFINE a == args[c]
             store == Overwriting(request[c].documents)
  <2>1. Executes(c, "upsert", store,
                 [affectedCount |-> Cardinality(DOMAIN request[c].documents)])
    BY <1>2 DEF ServerUpserts, Overwriting
  <2>2. a \in Arguments /\ Carries(request[c], a) /\ request[c].op = "upsert"
    BY <2>1 DEF Executes, Asks, IInv, Linked
  <2>3. /\ a.op = "upsert"
        /\ request[c].documents = [d \in DOMAIN a.documents |-> ToProto(a.documents[d])]
    BY <2>2 DEF Carries
  <2>4. /\ store \in Stores
        /\ SeenOf(store) =
             [d \in Ids |-> IF d \in DOMAIN a.documents
                            THEN Overwrite(AsSeen(Current[d]), ReadBack(a.documents[d]))
                            ELSE AsSeen(Current[d])]
    BY <2>2, <2>3, UpsertedStore DEF IInv
  <2>5. Store!Apply(c, "upsert") /\ docs' = SeenOf(store)
    BY <2>1, <2>3, <2>4, AppliedGrows
  <2>6. ASSUME NEW d \in DOMAIN a.documents
        PROVE  Overwrite(AsSeen(Current[d]), ReadBack(a.documents[d]))
                 = Store!Overwrite(docs[d], Store!ReadableDocument(a.documents[d]))
    <3>1. d \in Ids /\ a.documents[d] \in Document
      BY <2>2, <2>3, ArgumentTypes
    <3>2. Store!ReadableDocument(a.documents[d]) = ReadBack(a.documents[d])
      <4>1. Store!ReadableDocument(a.documents[d]) = MapFields(a.documents[d], Readable)
        BY DEF Store!ReadableDocument, Store!MapFields, Store!Readable, MapFields,
               Readable, Store!IsEmptyArray, IsEmptyArray, Store!DefaultField,
               DefaultField
      <4> QED
        BY <3>1, <4>1, ReadBackIs
    <3> QED
      BY <1>1, <3>1, <3>2 DEF Overwrite, Store!Overwrite
  <2>7. docs' = [d \in Ids |->
                   IF d \in DOMAIN a.documents
                   THEN Store!Overwrite(docs[d], Store!ReadableDocument(a.documents[d]))
                   ELSE docs[d]]
    BY <1>1, <2>4, <2>5, <2>6
  <2> QED
    BY <2>5, <2>7 DEF Store!Upsert
<1>3. CASE ServerUpdates(c)
  <2> DEFINE a == args[c]
             selected == Selected(Current, request[c].ids, request[c].filter)
             store == Merging(selected, request[c].update)
  <2>1. Executes(c, "update", store, [affectedCount |-> Cardinality(selected)])
    BY <1>3 DEF ServerUpdates, Merging
  <2>2. a \in Arguments /\ Carries(request[c], a) /\ request[c].op = "update"
    BY <2>1 DEF Executes, Asks, IInv, Linked
  <2>3. /\ a.op = "update"
        /\ request[c].update = ToProto(a.change)
        /\ selected = Selected(Current, a.ids, a.filter)
    BY <2>2 DEF Carries
  <2>4. /\ store \in Stores
        /\ SeenOf(store) = [d \in Ids |-> IF d \in selected
                                          THEN Merge(AsSeen(Current[d]), ReadBack(a.change))
                                          ELSE AsSeen(Current[d])]
    BY <2>2, <2>3, UpdatedStore DEF IInv
  <2>5. Store!Apply(c, "update") /\ docs' = SeenOf(store)
    BY <2>1, <2>3, <2>4, AppliedGrows
  <2>6. selected = Store!Chosen(a) /\ selected \subseteq Ids
    BY <2>2, <2>3, SameSelection DEF IInv, Selected
  <2>7. Store!ReadableDocument(a.change) = ReadBack(a.change)
    <3>1. Store!ReadableDocument(a.change) = MapFields(a.change, Readable)
      BY DEF Store!ReadableDocument, Store!MapFields, Store!Readable, MapFields,
             Readable, Store!IsEmptyArray, IsEmptyArray, Store!DefaultField,
             DefaultField
    <3> QED
      BY <2>2, <2>3, <3>1, ArgumentTypes, ReadBackIs
  <2>8. ASSUME NEW d \in Ids
        PROVE  Merge(AsSeen(Current[d]), ReadBack(a.change))
                 = Store!Merge(docs[d], Store!ReadableDocument(a.change))
    BY <1>1, <2>7 DEF Merge, Store!Merge
  <2>9. docs' = [d \in Ids |-> IF d \in Store!Chosen(a)
                               THEN Store!Merge(docs[d], Store!ReadableDocument(a.change))
                               ELSE docs[d]]
    BY <1>1, <2>4, <2>5, <2>6, <2>8
  <2> QED
    BY <2>5, <2>9 DEF Store!Update
<1>4. CASE \E gone \in SUBSET Ids : ServerDeletes(c, gone)
  <2> DEFINE a == args[c]
  <2>1. PICK gone \in SUBSET Ids : ServerDeletes(c, gone)
    BY <1>4
  <2>2. /\ Executes(c, "dele", Deleting(gone), [affectedCount |-> Cardinality(gone)])
        /\ gone \in Firsts(Selected(Current, request[c].ids, request[c].filter),
                           request[c].limit)
    BY <2>1 DEF ServerDeletes, Deleting
  <2>3. a \in Arguments /\ Carries(request[c], a) /\ request[c].op = "dele"
    BY <2>2 DEF Executes, Asks, IInv, Linked
  <2>4. /\ a.op = "dele" /\ a.limit \in Int
        /\ request[c].limit = IF a.limit > 0 THEN a.limit ELSE 0
        /\ Selected(Current, request[c].ids, request[c].filter) = Store!Chosen(a)
    BY <2>3, SameSelection, ArgumentTypes DEF Carries, IInv
  <2>5. /\ gone \in SUBSET Store!Chosen(a)
        /\ \/ gone = Store!Chosen(a)
           \/ a.limit > 0 /\ Cardinality(gone) = a.limit
    BY <2>2, <2>4 DEF Firsts
  <2>6. Store!Apply(c, "dele") /\ docs' = SeenOf(Deleting(gone))
    BY <2>2, <2>4, DeletedStore, AppliedGrows DEF IInv
  <2>7. docs' = [d \in Ids |-> IF d \in gone THEN None ELSE docs[d]]
    BY <1>1, <2>6, DeletedStore DEF IInv
  <2>8. Store!Cardinality(gone) = Cardinality(gone)
    BY DEF Store!Cardinality, Cardinality
  <2> QED
    BY <2>5, <2>6, <2>7, <2>8 DEF Store!Dele
<1>5. CASE ServerQueries(c) \/ ServerSearches(c) \/ ServerCounts(c)
  <2>1. \E op \in {"query", "search", "count"} : \E reply :
           Executes(c, op, Current, reply)
    BY <1>5 DEF ServerQueries, ServerSearches, ServerCounts
  <2>2. PICK op \in {"query", "search", "count"} : \E reply :
           Executes(c, op, Current, reply)
    BY <2>1
  <2>3. Store!Apply(c, op) /\ docs' = SeenOf(Current)
    <3>1. PICK reply : Executes(c, op, Current, reply)
      BY <2>2
    <3>2. Current \in Stores
      BY CurrentIsStore DEF IInv
    <3>3. /\ Store!Apply(c, args[c].op) /\ request[c].op = op
          /\ Carries(request[c], args[c])
          /\ docs' = SeenOf(Current)
      BY <3>1, <3>2, AppliedGrows
    <3>4. args[c].op = op
      BY <3>3 DEF Carries
    <3> QED
      BY <3>3, <3>4
  <2>4. docs' = docs
    BY <2>3, SeenIs
  <2> QED
    BY <2>3, <2>4 DEF Store!Read
<1> QED
  BY <1>2, <1>3, <1>4, <1>5

\* The calls on documents implement DocumentStore: whatever is lost, late or
\* given up, every write does once and in one step what its arguments say, to
\* the documents they select, as the program sees them.
THEOREM DocumentsImplementStore == Spec => ImplementsDocumentStore
<1>1. Init => Store!Init
  BY DEF Init, Store!Init, Remote!Init, Seen, Remote!HasEffect
<1>2. IInv /\ [Next]_vars => [Store!Next]_Store!vars
  <2> SUFFICES ASSUME IInv, [Next]_vars PROVE Store!Next \/ UNCHANGED Store!vars
    OBVIOUS
  <2>1. CASE UNCHANGED vars
    BY <2>1 DEF vars, Store!vars, Seen, Remote!HasEffect
  <2>2. ASSUME NEW c \in Calls, NEW a \in Arguments, Invoke(c, a)
        PROVE  Store!Call(c)
    <3>1. /\ outcome[c] = "unissued"
          /\ args' = [args EXCEPT ![c] = a]
          /\ UNCHANGED <<versions, effects>>
      BY <2>2 DEF Invoke, Remote!Issue
    <3>2. args[c] = None
      BY <3>1 DEF IInv, Linked
    <3> QED
      BY <3>1, <3>2 DEF Store!Call, Seen, Remote!HasEffect
  <2>3. ASSUME NEW c \in Calls,
               \/ ServerUpserts(c) \/ ServerUpdates(c)
               \/ \E gone \in SUBSET Ids : ServerDeletes(c, gone)
               \/ ServerQueries(c) \/ ServerSearches(c) \/ ServerCounts(c)
        PROVE  Store!Next
    BY <2>3, ServerRefines DEF Store!Next
  <2>4. ASSUME NEW c \in Calls, Handled(c) \/ Fail(c)
        PROVE  UNCHANGED Store!vars
    BY <2>4, HandledStep DEF Store!vars, Seen, Remote!HasEffect
  <2> QED
    BY <2>1, <2>2, <2>3, <2>4 DEF Next, Handled, Store!Next
<1> QED
  BY <1>1, <1>2, Invariance, PTL DEF Spec, Store!Spec, ImplementsDocumentStore
=============================================================================
