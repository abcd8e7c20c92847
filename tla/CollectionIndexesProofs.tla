---------------------- MODULE CollectionIndexesProofs ----------------------
(***************************************************************************)
(* The indexes a program reads of a collection are the last it gave for    *)
(* each field, for any number of collections, fields and indexes.          *)
(*                                                                         *)
(* createCollection and toCollection are loops, which the model writes as  *)
(* folds.  The first lemmas unfold a fold into the values its loop has     *)
(* after each iteration; an induction over those, by the well-founded      *)
(* order of the naturals, gives what each loop computes.                   *)
(***************************************************************************)
EXTENDS CollectionIndexes, FiniteSetTheorems, SequenceTheorems,
        WellFoundedInduction, TLAPS

(***************************************************************************)
(* Loops.                                                                  *)
(***************************************************************************)

\* Induction on the iterations of a loop: a set of numbers up to n that has 0 and,
\* with a number, the next one has them all.
LEMMA Iterations ==
    ASSUME NEW n \in Nat, NEW T, 0 \in T, \A k \in 0..n : k \in T /\ k < n => k + 1 \in T
    PROVE  0..n \subseteq T
<1> DEFINE Left == {k \in 0..n : k \notin T}
           R == OpToRel(<, Nat)
<1> SUFFICES ASSUME Left # {} PROVE FALSE
    OBVIOUS
<1>1. PICK x \in Left : \A y \in Left : <<y, x>> \notin R
  <2>1. IsWellFoundedOn(R, Nat)
    BY NatLessThanWellFounded
  <2>2. Left \subseteq Nat
    OBVIOUS
  <2> HIDE DEF Left, R
  <2> QED
    BY <2>1, <2>2, WFMin
<1>2. x \in 1..n /\ x - 1 \in 0..n /\ x - 1 < n
    OBVIOUS
<1>3. x - 1 \in T
  <2> SUFFICES ASSUME x - 1 \notin T PROVE FALSE
      OBVIOUS
  <2>1. x - 1 \in Left
    BY <1>2
  <2>2. <<x - 1, x>> \in R
    BY <1>2 DEF OpToRel
  <2> QED
    BY <1>1, <2>1, <2>2
<1> QED
  BY <1>2, <1>3

\* The last of some iterations.
LEMMA LastIteration ==
    ASSUME NEW n \in Nat, NEW s \in SUBSET (1..n), s # {}
    PROVE  Max(s) \in s /\ \A i \in s : i <= Max(s)
<1> SUFFICES \E m \in s : \A i \in s : m >= i
  BY DEF Max
<1> SUFFICES ASSUME \A m \in s : \E i \in s : m < i PROVE FALSE
  OBVIOUS
<1> DEFINE Above == {k \in 0..n : \E i \in s : i > k}
<1>1. PICK m \in s : m \in 1..n
  OBVIOUS
<1>2. 0 \in Above
  BY <1>1
<1>3. ASSUME NEW k \in 0..n, k \in Above, k < n PROVE k + 1 \in Above
  <2>1. PICK i \in s : i > k
    BY <1>3
  <2>2. CASE i = k + 1
    <3>1. PICK j \in s : i < j
      OBVIOUS
    <3> QED
      BY <3>1, <2>2, <1>3
  <2>3. CASE i # k + 1
    BY <2>1, <2>3, <1>3
  <2> QED
    BY <2>2, <2>3
<1> HIDE DEF Above
<1>4. 0..n \subseteq Above
  BY <1>2, <1>3, Iterations
<1> QED
  BY <1>4 DEF Above

\* g has, at each set of iterations, what a loop computes that starts with `base`
\* and does these in their order.
IsFold(g, n, base, step) ==
    \A s \in SUBSET (1..n) :
        g[s] = IF s = {} THEN base ELSE step[<<g[s \ {Max(s)}], Max(s)>>]

\* The function a fold over 1..n is defined by exists.
LEMMA FoldExists ==
    ASSUME NEW n \in Nat, NEW X, NEW base \in X, NEW step \in [X \X (1..n) -> X]
    PROVE  \E g \in [SUBSET (1..n) -> X] : IsFold(g, n, base, step)
<1> DEFINE Defined(k) ==
       \E g \in [SUBSET (1..k) -> X] : IsFold(g, k, base, step)
<1> DEFINE T == {k \in 0..n : Defined(k)}
<1>1. 0 \in T
  <2> DEFINE g == [s \in SUBSET (1..0) |-> base]
  <2>1. 1..0 = {}
    OBVIOUS
  <2>2. g \in [SUBSET (1..0) -> X]
    OBVIOUS
  <2>3. \A s \in SUBSET (1..0) : s = {} /\ g[s] = base
    BY <2>1
  <2> HIDE DEF g
  <2>4. Defined(0)
    BY <2>2, <2>3 DEF IsFold
  <2> HIDE DEF Defined
  <2> QED
    BY <2>4
<1>2. ASSUME NEW k \in 0..n, k \in T, k < n PROVE k + 1 \in T
  <2>1. PICK g \in [SUBSET (1..k) -> X] :
           \A s \in SUBSET (1..k) :
             g[s] = IF s = {} THEN base ELSE step[<<g[s \ {Max(s)}], Max(s)>>]
    BY <1>2 DEF IsFold
  <2> DEFINE h == [s \in SUBSET (1..(k + 1)) |->
                     IF k + 1 \in s THEN step[<<g[s \ {k + 1}], k + 1>>] ELSE g[s]]
  <2>2. ASSUME NEW s \in SUBSET (1..(k + 1)) PROVE s \ {k + 1} \in SUBSET (1..k)
    BY <2>2
  <2>3. ASSUME NEW s \in SUBSET (1..(k + 1)), k + 1 \in s
        PROVE  /\ Max(s) = k + 1
               /\ h[s] = step[<<h[s \ {Max(s)}], Max(s)>>]
               /\ h[s] \in X
    <3>1. Max(s) = k + 1
      <4>1. Max(s) \in s /\ \A i \in s : i <= Max(s)
        BY <2>3, LastIteration, k + 1 \in Nat
      <4>2. Max(s) \in 1..(k + 1)
        BY <4>1
      <4> QED
        BY <2>3, <4>1, <4>2
    <3>2. h[s \ {k + 1}] = g[s \ {k + 1}]
      BY <2>2
    <3>3. h[s] = step[<<g[s \ {k + 1}], k + 1>>]
      BY <2>3
    <3>4. g[s \ {k + 1}] \in X /\ k + 1 \in 1..n
      BY <2>1, <2>2, <1>2
    <3> HIDE DEF h
    <3>5. h[s] \in X
      BY <3>3, <3>4
    <3> QED
      BY <3>1, <3>2, <3>3, <3>5
  <2>4. ASSUME NEW s \in SUBSET (1..(k + 1)), k + 1 \notin s
        PROVE  /\ h[s] = IF s = {} THEN base ELSE step[<<h[s \ {Max(s)}], Max(s)>>]
               /\ h[s] \in X
    <3>1. s \in SUBSET (1..k) /\ s \ {Max(s)} \in SUBSET (1..k)
      <4>1. k \in Nat /\ \A i \in s : i \in 1..k
        BY <2>4
      <4> QED
        BY <4>1
    <3>2. h[s] = g[s]
      BY <2>4
    <3>3. h[s \ {Max(s)}] = g[s \ {Max(s)}]
      BY <2>4, <3>1
    <3> HIDE DEF h
    <3> QED
      BY <2>1, <3>1, <3>2, <3>3
  <2>5. h \in [SUBSET (1..(k + 1)) -> X]
    <3>1. \A s \in SUBSET (1..(k + 1)) : h[s] \in X
      BY <2>3, <2>4
    <3>2. h = [s \in SUBSET (1..(k + 1)) |-> h[s]]
      OBVIOUS
    <3> HIDE DEF h
    <3> QED
      BY <3>1, <3>2
  <2>6. \A s \in SUBSET (1..(k + 1)) :
           h[s] = IF s = {} THEN base ELSE step[<<h[s \ {Max(s)}], Max(s)>>]
    <3> HIDE DEF h
    <3> QED
      BY <2>3, <2>4
  <2> HIDE DEF h
  <2>7. Defined(k + 1)
    BY <2>5, <2>6 DEF IsFold
  <2> HIDE DEF Defined
  <2> QED
    BY <2>7, <1>2
<1>3. n \in T
  <2> HIDE DEF T
  <2> QED
    BY <1>1, <1>2, Iterations
<1> QED
  BY <1>3

\* The last of the first i iterations, and those before it.
LEMMA FirstIterations ==
    ASSUME NEW n \in Nat, NEW i \in 1..n
    PROVE  /\ 1..i \in SUBSET (1..n) /\ 1..i # {}
           /\ Max(1..i) = i
           /\ (1..i) \ {i} = 1..(i - 1)
<1>1. i \in 1..i /\ 1..i \in SUBSET (1..i)
  OBVIOUS
<1>2. Max(1..i) \in 1..i /\ \A k \in 1..i : k <= Max(1..i)
  BY <1>1, i \in Nat, LastIteration
<1>3. Max(1..i) = i
  BY <1>1, <1>2
<1> QED
  BY <1>1, <1>3

(***************************************************************************)
(* createCollection: the request.                                          *)
(***************************************************************************)
\* The columns of a request: only that of an array has an element type.
Sent == {column \in AllColumns : column.fieldType # "array" => column.elemType = ""}

\* The maps from the names of fields to columns.
Maps == UNION {[D -> Sent] : D \in SUBSET Names}

\* Their type, in terms of their fields.
LEMMA MapType ==
    ASSUME NEW m
    PROVE  m \in Maps <=> /\ m = [x \in DOMAIN m |-> m[x]]
                          /\ DOMAIN m \subseteq Names
                          /\ \A x \in DOMAIN m : m[x] \in Sent
<1> HIDE DEF Sent
<1>1. m \in Maps => /\ m = [x \in DOMAIN m |-> m[x]]
                    /\ DOMAIN m \subseteq Names
                    /\ \A x \in DOMAIN m : m[x] \in Sent
  BY DEF Maps
<1>2. ASSUME m = [x \in DOMAIN m |-> m[x]], DOMAIN m \subseteq Names,
             \A x \in DOMAIN m : m[x] \in Sent
      PROVE  m \in Maps
  <2>1. m \in [DOMAIN m -> Sent]
    BY <1>2
  <2> QED
    BY <1>2, <2>1 DEF Maps
<1> QED
  BY <1>1, <1>2

\* An assignment to a slot of a map leaves a map.
LEMMA PutType ==
    ASSUME NEW m \in Maps, NEW column \in Sent
    PROVE  Put(m, column) \in Maps
<1>1. column.fieldName \in Names
  BY DEF Sent, AllColumns
<1> DEFINE p == Put(m, column)
<1>2. DOMAIN p = DOMAIN m \cup {column.fieldName}
  BY DEF Put
<1>3. \A x \in DOMAIN p : p[x] = IF x = column.fieldName THEN column ELSE m[x]
  BY DEF Put
<1>4. p = [x \in DOMAIN p |-> p[x]]
  BY DEF Put
<1>5. DOMAIN m \subseteq Names /\ \A x \in DOMAIN m : m[x] \in Sent
  BY MapType
<1>6. DOMAIN p \subseteq Names /\ \A x \in DOMAIN p : p[x] \in Sent
  <2> HIDE DEF p
  <2> QED
    BY <1>1, <1>2, <1>3, <1>5
<1> HIDE DEF p
<1>7. p \in Maps
  BY <1>4, <1>6, MapType
<1> QED
  BY <1>7 DEF p

\* The loop of createCollection over the columns of both lists.
LEMMA RequestSteps ==
    ASSUME NEW columns \in Seq(Sent)
    PROVE  \E built \in [0..Len(columns) -> Maps] :
              /\ built[0] = <<>>
              /\ \A i \in 1..Len(columns) : built[i] = Put(built[i - 1], columns[i])
              /\ built[Len(columns)] = FoldLeft(Put, <<>>, columns)
<1> DEFINE n == Len(columns)
           step == [x \in Maps \X (1..n) |-> Put(x[1], columns[x[2]])]
           Iterates(g) == g = [s \in SUBSET (DOMAIN columns) |->
                                IF s = {} THEN <<>>
                                ELSE Put(g[s \ {Max(s)}], columns[Max(s)])]
<1>1. n \in Nat /\ DOMAIN columns = 1..n /\ \A i \in 1..n : columns[i] \in Sent
  BY LenProperties, ElementOfSeq
<1>2. <<>> \in Maps
  <2>1. <<>> \in [1..0 -> Sent] /\ 1..0 = {}
    BY EmptySeq, LenProperties
  <2> QED
    BY <2>1 DEF Maps
<1>3. step \in [Maps \X (1..n) -> Maps]
  BY <1>1, PutType
<1> DEFINE folded == CHOOSE g : Iterates(g)
<1>4. FoldLeft(Put, <<>>, columns) = folded[DOMAIN columns]
  BY DEF FoldLeft, MapThenFoldSet
<1>5. PICK g \in [SUBSET (1..n) -> Maps] :
         \A s \in SUBSET (1..n) :
            g[s] = IF s = {} THEN <<>> ELSE step[<<g[s \ {Max(s)}], Max(s)>>]
  <2> HIDE DEF step, n, folded, Iterates
  <2>1. PICK g \in [SUBSET (1..n) -> Maps] : IsFold(g, n, <<>>, step)
    BY <1>1, <1>2, <1>3, FoldExists
  <2> QED
    BY <2>1 DEF IsFold
<1>6. ASSUME NEW s \in SUBSET (1..n), s # {}
      PROVE  step[<<g[s \ {Max(s)}], Max(s)>>] = Put(g[s \ {Max(s)}], columns[Max(s)])
  BY <1>1, <1>6, LastIteration
<1>7. Iterates(g)
  BY <1>1, <1>5, <1>6
<1>8. Iterates(folded)
  <2> HIDE DEF Iterates
  <2> QED
    BY <1>7
<1>9. /\ folded[{}] = <<>>
      /\ \A i \in 1..n : folded[1..i] = Put(folded[1..(i - 1)], columns[i])
  <2>1. /\ {} \in SUBSET (1..n)
        /\ \A i \in 1..n : /\ 1..i \in SUBSET (1..n) /\ 1..i # {}
                           /\ Max(1..i) = i
                           /\ (1..i) \ {i} = 1..(i - 1)
    <3> HIDE DEF n
    <3> QED
      BY <1>1, FirstIterations
  <2>2. \A s \in SUBSET (1..n) :
           folded[s] = IF s = {} THEN <<>>
                       ELSE Put(folded[s \ {Max(s)}], columns[Max(s)])
    <3> HIDE DEF folded
    <3> QED
      BY <1>1, <1>8
  <2> HIDE DEF folded, n, Iterates
  <2> QED
    BY <2>1, <2>2
<1> DEFINE built == [i \in 0..n |-> folded[1..i]]
           T == {i \in 0..n : built[i] \in Maps}
<1>10. /\ built[0] = <<>>
       /\ \A i \in 1..n : built[i] = Put(built[i - 1], columns[i])
       /\ built[n] = folded[1..n]
  <2>1. 1..0 = {}
    OBVIOUS
  <2> HIDE DEF folded, n
  <2> QED
    BY <1>1, <1>9, <2>1
<1>11. 0..n \subseteq T
  <2> HIDE DEF built, n, folded
  <2>1. 0 \in T
    BY <1>1, <1>2, <1>10
  <2>2. ASSUME NEW k \in 0..n, k \in T, k < n PROVE k + 1 \in T
    <3>1. k + 1 \in 1..n /\ (k + 1) - 1 = k
      BY <1>1, <2>2
    <3>2. built[k + 1] = Put(built[k], columns[k + 1])
      BY <1>10, <3>1
    <3>3. Put(built[k], columns[k + 1]) \in Maps
      BY <1>1, <2>2, <3>1, PutType
    <3> QED
      BY <1>1, <3>1, <3>2, <3>3
  <2> HIDE DEF T
  <2> QED
    BY <1>1, <2>1, <2>2, Iterations
<1>12. built \in [0..n -> Maps]
  BY <1>11
<1>13. built[n] = FoldLeft(Put, <<>>, columns)
  BY <1>1, <1>4, <1>10
<1> HIDE DEF built
<1> QED
  BY <1>10, <1>12, <1>13

\* Column m[x] is the last of the first i columns that are of the field x.
LastColumns(m, columns, i) ==
    /\ m \in Maps
    /\ \A k \in 1..i : columns[k].fieldName \in DOMAIN m
    /\ \A x \in DOMAIN m : \E k \in 1..i :
          /\ columns[k].fieldName = x
          /\ m[x] = columns[k]
          /\ \A j \in 1..i : columns[j].fieldName = x => j <= k

\* createCollection: for every list of columns the request has, for each field, the
\* last of its columns, and no other field.
THEOREM RequestHasLast ==
    ASSUME NEW columns \in Seq(Sent)
    PROVE  LastColumns(FoldLeft(Put, <<>>, columns), columns, Len(columns))
<1> DEFINE n == Len(columns)
<1>1. n \in Nat /\ \A i \in 1..n : columns[i] \in Sent
  BY LenProperties, ElementOfSeq
<1>2. PICK built \in [0..n -> Maps] :
         /\ built[0] = <<>>
         /\ \A i \in 1..n : built[i] = Put(built[i - 1], columns[i])
         /\ built[n] = FoldLeft(Put, <<>>, columns)
  BY RequestSteps
<1> HIDE DEF n
<1> DEFINE T == {i \in 0..n : LastColumns(built[i], columns, i)}
<1>3. 0 \in T
  <2>1. built[0] \in Maps /\ DOMAIN built[0] = {} /\ 1..0 = {} /\ 0 \in 0..n
    BY <1>1, <1>2
  <2> QED
    BY <2>1 DEF LastColumns
<1>4. ASSUME NEW k \in 0..n, k \in T, k < n PROVE k + 1 \in T
  <2>1. k + 1 \in 1..n /\ k + 1 \in 0..n /\ (k + 1) - 1 = k
    BY <1>1, <1>4
  <2> DEFINE m == built[k]
             p == built[k + 1]
             column == columns[k + 1]
  <2>2. p = Put(m, column) /\ p \in Maps
    BY <1>2, <2>1
  <2>3. LastColumns(m, columns, k)
    BY <1>4
  <2>4. /\ DOMAIN p = DOMAIN m \cup {column.fieldName}
        /\ \A x \in DOMAIN p : p[x] = IF x = column.fieldName THEN column ELSE m[x]
    BY <2>2 DEF Put
  <2>5. \A i : i \in 1..(k + 1) <=> i \in 1..k \/ i = k + 1
    BY <1>1
  <2> HIDE DEF m, p
  <2>6. \A i \in 1..(k + 1) : columns[i].fieldName \in DOMAIN p
    BY <2>3, <2>4, <2>5 DEF LastColumns
  <2>7. ASSUME NEW x \in DOMAIN p
        PROVE  \E i \in 1..(k + 1) : /\ columns[i].fieldName = x
                                     /\ p[x] = columns[i]
                                     /\ \A j \in 1..(k + 1) :
                                           columns[j].fieldName = x => j <= i
    <3>1. CASE x = column.fieldName
      BY <1>1, <2>1, <2>4, <2>5, <3>1
    <3>2. CASE x # column.fieldName
      <4>1. x \in DOMAIN m /\ p[x] = m[x]
        BY <2>4, <3>2
      <4>2. PICK i \in 1..k : /\ columns[i].fieldName = x
                             /\ m[x] = columns[i]
                             /\ \A j \in 1..k : columns[j].fieldName = x => j <= i
        BY <2>3, <4>1 DEF LastColumns
      <4> QED
        BY <2>5, <3>2, <4>1, <4>2
    <3> QED
      BY <3>1, <3>2
  <2>8. LastColumns(p, columns, k + 1)
    BY <2>2, <2>6, <2>7 DEF LastColumns
  <2> QED
    BY <2>1, <2>8 DEF p
<1>5. 0..n \subseteq T
  <2> HIDE DEF T
  <2> QED
    BY <1>1, <1>3, <1>4, Iterations
<1> QED
  BY <1>1, <1>2, <1>5 DEF n

(***************************************************************************)
(* toCollection.                                                           *)
(***************************************************************************)
Lists == [vectorIndex: Seq(Sent), filterIndex: Seq(Sent)]

\* What is read of a column is a column of the same field, type and entry.
LEMMA ReadColumn ==
    ASSUME NEW column \in Sent
    PROVE  /\ IndexRead(column) \in Sent
           /\ IndexRead(column).fieldName = column.fieldName
           /\ IndexRead(column).fieldType = column.fieldType
           /\ IndexRead(column).entry = column.entry
<1>1. 0 \in 0..MaxVectors
  BY MaxAssumption
<1> QED
  BY <1>1 DEF IndexRead, Sent, AllColumns

\* A map with its columns as they are read.
AsRead(m) == [x \in DOMAIN m |-> IndexRead(m[x])]

\* It is a map of the same fields, types and entries.
LEMMA ReadMap ==
    ASSUME NEW m \in Maps
    PROVE  /\ AsRead(m) \in Maps
           /\ DOMAIN AsRead(m) = DOMAIN m
           /\ \A x \in DOMAIN m : /\ AsRead(m)[x] = IndexRead(m[x])
                                 /\ AsRead(m)[x].fieldName = m[x].fieldName
                                 /\ AsRead(m)[x].fieldType = m[x].fieldType
                                 /\ AsRead(m)[x].entry = m[x].entry
<1> DEFINE r == AsRead(m)
<1>1. DOMAIN m \subseteq Names /\ \A x \in DOMAIN m : m[x] \in Sent
  BY MapType
<1>2. /\ r = [x \in DOMAIN r |-> r[x]] /\ DOMAIN r = DOMAIN m
      /\ \A x \in DOMAIN m : r[x] = IndexRead(m[x])
  BY DEF AsRead
<1> HIDE DEF r
<1>3. \A x \in DOMAIN m : /\ r[x] \in Sent
                         /\ r[x].fieldName = m[x].fieldName
                         /\ r[x].fieldType = m[x].fieldType
                         /\ r[x].entry = m[x].entry
  BY <1>1, <1>2, ReadColumn
<1>4. r \in Maps
  BY <1>1, <1>2, <1>3, MapType
<1> QED
  BY <1>2, <1>3, <1>4 DEF r

\* What is read of a column goes to the end of one list.
LEMMA EmplaceColumn ==
    ASSUME NEW d \in Lists, NEW column \in Sent
    PROVE  /\ Emplace(d, column) \in Lists
           /\ column.fieldType = "vector" =>
                 /\ Emplace(d, column).vectorIndex = Append(d.vectorIndex, IndexRead(column))
                 /\ Emplace(d, column).filterIndex = d.filterIndex
           /\ column.fieldType # "vector" =>
                 /\ Emplace(d, column).vectorIndex = d.vectorIndex
                 /\ Emplace(d, column).filterIndex = Append(d.filterIndex, IndexRead(column))
<1>1. /\ Append(d.vectorIndex, IndexRead(column)) \in Seq(Sent)
      /\ Append(d.filterIndex, IndexRead(column)) \in Seq(Sent)
  <2>1. IndexRead(column) \in Sent
    BY ReadColumn
  <2> QED
    BY <2>1 DEF Lists
<1> QED
  BY <1>1 DEF Emplace, Lists

\* The loop of toCollection over the entries of the map in some order.
LEMMA toCollectionSteps ==
    ASSUME NEW m \in Maps, NEW order \in Seq(DOMAIN m)
    PROVE  \E built \in [0..Len(order) -> Lists] :
              /\ built[0] = NewCollection
              /\ \A i \in 1..Len(order) :
                    built[i] = Emplace(built[i - 1], m[order[i]])
              /\ built[Len(order)] = toCollection(m, order, NewCollection)
<1> DEFINE n == Len(order)
           step == [x \in Lists \X (1..n) |-> Emplace(x[1], m[order[x[2]]])]
           Iterates(g) == g = [s \in SUBSET (DOMAIN order) |->
                                IF s = {} THEN NewCollection
                                ELSE Emplace(g[s \ {Max(s)}], m[order[Max(s)]])]
<1>1. n \in Nat /\ DOMAIN order = 1..n /\ \A i \in 1..n : m[order[i]] \in Sent
  <2>1. \A x \in DOMAIN m : m[x] \in Sent
    BY MapType
  <2> QED
    BY <2>1, LenProperties, ElementOfSeq
<1>2. NewCollection \in Lists
  BY EmptySeq DEF NewCollection, Lists
<1>3. step \in [Lists \X (1..n) -> Lists]
  BY <1>1, EmplaceColumn
<1> DEFINE folded == CHOOSE g : Iterates(g)
<1>4. toCollection(m, order, NewCollection) = folded[DOMAIN order]
  BY DEF toCollection, FoldLeft, MapThenFoldSet
<1>5. PICK g \in [SUBSET (1..n) -> Lists] :
         \A s \in SUBSET (1..n) :
            g[s] = IF s = {} THEN NewCollection ELSE step[<<g[s \ {Max(s)}], Max(s)>>]
  <2> HIDE DEF step, n, folded, Iterates
  <2>1. PICK g \in [SUBSET (1..n) -> Lists] : IsFold(g, n, NewCollection, step)
    BY <1>1, <1>2, <1>3, FoldExists
  <2> QED
    BY <2>1 DEF IsFold
<1>6. ASSUME NEW s \in SUBSET (1..n), s # {}
      PROVE  step[<<g[s \ {Max(s)}], Max(s)>>]
                = Emplace(g[s \ {Max(s)}], m[order[Max(s)]])
  BY <1>1, <1>6, LastIteration
<1>7. Iterates(g)
  BY <1>1, <1>5, <1>6
<1>8. Iterates(folded)
  <2> HIDE DEF Iterates
  <2> QED
    BY <1>7
<1>9. /\ folded[{}] = NewCollection
      /\ \A i \in 1..n : folded[1..i] = Emplace(folded[1..(i - 1)], m[order[i]])
  <2>1. /\ {} \in SUBSET (1..n)
        /\ \A i \in 1..n : /\ 1..i \in SUBSET (1..n) /\ 1..i # {}
                           /\ Max(1..i) = i
                           /\ (1..i) \ {i} = 1..(i - 1)
    <3> HIDE DEF n
    <3> QED
      BY <1>1, FirstIterations
  <2>2. \A s \in SUBSET (1..n) :
           folded[s] = IF s = {} THEN NewCollection
                       ELSE Emplace(folded[s \ {Max(s)}], m[order[Max(s)]])
    <3> HIDE DEF folded
    <3> QED
      BY <1>1, <1>8
  <2> HIDE DEF folded, n, Iterates
  <2> QED
    BY <2>1, <2>2
<1> DEFINE built == [i \in 0..n |-> folded[1..i]]
           T == {i \in 0..n : built[i] \in Lists}
<1>10. /\ built[0] = NewCollection
       /\ \A i \in 1..n : built[i] = Emplace(built[i - 1], m[order[i]])
       /\ built[n] = folded[1..n]
  <2>1. 1..0 = {}
    OBVIOUS
  <2> HIDE DEF folded, n
  <2> QED
    BY <1>1, <1>9, <2>1
<1>11. 0..n \subseteq T
  <2> HIDE DEF built, n, folded
  <2>1. 0 \in T
    BY <1>1, <1>2, <1>10
  <2>2. ASSUME NEW k \in 0..n, k \in T, k < n PROVE k + 1 \in T
    <3>1. k + 1 \in 1..n /\ (k + 1) - 1 = k
      BY <1>1, <2>2
    <3>2. built[k + 1] = Emplace(built[k], m[order[k + 1]])
      BY <1>10, <3>1
    <3>3. Emplace(built[k], m[order[k + 1]]) \in Lists
      BY <1>1, <2>2, <3>1, EmplaceColumn
    <3> QED
      BY <1>1, <3>1, <3>2, <3>3
  <2> HIDE DEF T
  <2> QED
    BY <1>1, <2>1, <2>2, Iterations
<1>12. built \in [0..n -> Lists]
  BY <1>11
<1>13. built[n] = toCollection(m, order, NewCollection)
  BY <1>1, <1>4, <1>10
<1> HIDE DEF built
<1> QED
  BY <1>10, <1>12, <1>13

\* The entries the loop has come to in i iterations.
Visited(order, i) == {order[k] : k \in 1..i}

\* The two lists of d are the entries of m visited so far, split by type.
Split(d, m, visited, i) ==
    /\ d \in Lists
    /\ Len(d.vectorIndex) + Len(d.filterIndex) = i
    /\ \A column : column \in ToSet(d.vectorIndex) <=>
          \E x \in visited : column = m[x] /\ m[x].fieldType = "vector"
    /\ \A column : column \in ToSet(d.filterIndex) <=>
          \E x \in visited : column = m[x] /\ m[x].fieldType # "vector"

\* One element more, at the end.
LEMMA AppendToSet ==
    ASSUME NEW S, NEW seq \in Seq(S), NEW e \in S
    PROVE  /\ Append(seq, e) \in Seq(S)
           /\ Len(Append(seq, e)) = Len(seq) + 1
           /\ ToSet(Append(seq, e)) = ToSet(seq) \cup {e}
<1>1. /\ Append(seq, e) \in Seq(S) /\ Len(Append(seq, e)) = Len(seq) + 1
      /\ \A i \in 1..(Len(seq) + 1) :
            Append(seq, e)[i] = IF i = Len(seq) + 1 THEN e ELSE seq[i]
  BY LenProperties
<1>2. /\ DOMAIN seq = 1..Len(seq) /\ DOMAIN Append(seq, e) = 1..(Len(seq) + 1)
      /\ Len(seq) \in Nat
  BY <1>1, LenProperties
<1>3. \A i : i \in 1..(Len(seq) + 1) <=> i \in 1..Len(seq) \/ i = Len(seq) + 1
  BY <1>2
<1> QED
  BY <1>1, <1>2, <1>3 DEF ToSet

\* toCollection: for every map and order, the lists have the entries the iteration
\* comes to, as they are read, split by type, one list entry for each.
THEOREM toCollectionSplits ==
    ASSUME NEW m \in Maps, NEW order \in Seq(DOMAIN m)
    PROVE  Split(toCollection(m, order, NewCollection), AsRead(m),
                 Visited(order, Len(order)), Len(order))
<1> DEFINE n == Len(order)
           r == AsRead(m)
<1>1. /\ n \in Nat
      /\ \A i \in 1..n : order[i] \in DOMAIN m /\ m[order[i]] \in Sent
  <2>1. \A x \in DOMAIN m : m[x] \in Sent
    BY MapType
  <2> QED
    BY <2>1, LenProperties, ElementOfSeq
<1>2. PICK built \in [0..n -> Lists] :
         /\ built[0] = NewCollection
         /\ \A i \in 1..n : built[i] = Emplace(built[i - 1], m[order[i]])
         /\ built[n] = toCollection(m, order, NewCollection)
  BY toCollectionSteps
<1> HIDE DEF n, r
<1> DEFINE T == {i \in 0..n : Split(built[i], r, Visited(order, i), i)}
<1>3. 0 \in T
  <2>1. /\ ToSet(<<>>) = {} /\ Len(<<>>) = 0 /\ 1..0 = {} /\ 0 \in 0..n
    BY <1>1, EmptySeq DEF ToSet
  <2>2. built[0] \in Lists /\ built[0] = NewCollection
    BY <1>2, <2>1
  <2>3. Split(built[0], r, Visited(order, 0), 0)
    BY <2>1, <2>2 DEF NewCollection, Split, Visited
  <2> QED
    BY <2>1, <2>3
<1>4. ASSUME NEW k \in 0..n, k \in T, k < n PROVE k + 1 \in T
  <2>1. k + 1 \in 1..n /\ k + 1 \in 0..n /\ (k + 1) - 1 = k
    BY <1>1, <1>4
  <2> DEFINE d == built[k]
             e == built[k + 1]
             x == order[k + 1]
  <2>2. e = Emplace(d, m[x]) /\ d \in Lists /\ x \in DOMAIN m /\ m[x] \in Sent
    BY <1>1, <1>2, <2>1
  <2>14. r[x] = IndexRead(m[x]) /\ r[x] \in Sent /\ r[x].fieldType = m[x].fieldType
    BY <2>2, ReadMap, ReadColumn DEF r
  <2>3. Split(d, r, Visited(order, k), k)
    BY <1>4
  <2>4. \A i : i \in 1..(k + 1) <=> i \in 1..k \/ i = k + 1
    BY <1>1
  <2>5. Visited(order, k + 1) = Visited(order, k) \cup {x}
    BY <2>4 DEF Visited
  <2>6. /\ d.vectorIndex \in Seq(Sent) /\ d.filterIndex \in Seq(Sent)
        /\ Len(d.vectorIndex) \in Nat /\ Len(d.filterIndex) \in Nat
    BY <2>2, LenProperties DEF Lists
  <2> HIDE DEF d, e, x
  <2>7. /\ e \in Lists
        /\ r[x].fieldType = "vector" =>
              /\ e.vectorIndex = Append(d.vectorIndex, r[x])
              /\ e.filterIndex = d.filterIndex
        /\ r[x].fieldType # "vector" =>
              /\ e.vectorIndex = d.vectorIndex
              /\ e.filterIndex = Append(d.filterIndex, r[x])
    BY <2>2, <2>14, EmplaceColumn
  <2>8. /\ ToSet(Append(d.vectorIndex, r[x])) = ToSet(d.vectorIndex) \cup {r[x]}
        /\ Len(Append(d.vectorIndex, r[x])) = Len(d.vectorIndex) + 1
    BY <2>14, <2>6, AppendToSet
  <2>9. /\ ToSet(Append(d.filterIndex, r[x])) = ToSet(d.filterIndex) \cup {r[x]}
        /\ Len(Append(d.filterIndex, r[x])) = Len(d.filterIndex) + 1
    BY <2>14, <2>6, AppendToSet
  <2>10. Len(e.vectorIndex) + Len(e.filterIndex) = k + 1
    <3>1. Len(d.vectorIndex) + Len(d.filterIndex) = k
      BY <2>3 DEF Split
    <3>2. \/ /\ Len(e.vectorIndex) = Len(d.vectorIndex) + 1
             /\ Len(e.filterIndex) = Len(d.filterIndex)
          \/ /\ Len(e.vectorIndex) = Len(d.vectorIndex)
             /\ Len(e.filterIndex) = Len(d.filterIndex) + 1
      BY <2>7, <2>8, <2>9, Zenon
    <3>3. \A a, b \in Nat : a + b = k => (a + 1) + b = k + 1 /\ a + (b + 1) = k + 1
      OBVIOUS
    <3> QED
      BY <2>6, <3>1, <3>2, <3>3, Zenon
  <2>11. ASSUME NEW column
         PROVE  column \in ToSet(e.vectorIndex) <=>
                   \E y \in Visited(order, k + 1) :
                      column = r[y] /\ r[y].fieldType = "vector"
    <3>1. column \in ToSet(e.vectorIndex) <=>
             \/ column \in ToSet(d.vectorIndex)
             \/ column = r[x] /\ r[x].fieldType = "vector"
      BY <2>7, <2>8
    <3>2. column \in ToSet(d.vectorIndex) <=>
             \E y \in Visited(order, k) : column = r[y] /\ r[y].fieldType = "vector"
      BY <2>3 DEF Split
    <3> QED
      BY <2>5, <3>1, <3>2
  <2>12. ASSUME NEW column
         PROVE  column \in ToSet(e.filterIndex) <=>
                   \E y \in Visited(order, k + 1) :
                      column = r[y] /\ r[y].fieldType # "vector"
    <3>1. column \in ToSet(e.filterIndex) <=>
             \/ column \in ToSet(d.filterIndex)
             \/ column = r[x] /\ r[x].fieldType # "vector"
      BY <2>7, <2>9
    <3>2. column \in ToSet(d.filterIndex) <=>
             \E y \in Visited(order, k) : column = r[y] /\ r[y].fieldType # "vector"
      BY <2>3 DEF Split
    <3> QED
      BY <2>5, <3>1, <3>2
  <2>13. Split(e, r, Visited(order, k + 1), k + 1)
    BY <2>7, <2>10, <2>11, <2>12 DEF Split
  <2> QED
    BY <2>1, <2>13 DEF e
<1>5. 0..n \subseteq T
  <2> HIDE DEF T
  <2> QED
    BY <1>1, <1>3, <1>4, Iterations
<1> QED
  BY <1>1, <1>2, <1>5 DEF n, r

(***************************************************************************)
(* From the caller's lists to those it reads.                              *)
(***************************************************************************)

\* The columns of a listing: those of the vector indexes, then the others.
LEMMA ColumnsOfListing ==
    ASSUME NEW listed \in Listings
    PROVE  LET columns == Columns(listed)
               V == Len(listed.vectorIndex)
               F == Len(listed.filterIndex)
           IN  /\ columns \in Seq(Sent)
               /\ V \in Nat /\ F \in Nat /\ Len(columns) = V + F
               /\ \A i \in 1..V : columns[i] = VectorColumn(listed.vectorIndex[i], i)
               /\ \A i \in 1..F :
                     columns[V + i] = FilterColumn(listed.filterIndex[i], i)
<1> DEFINE v == listed.vectorIndex
           f == listed.filterIndex
           VT == [fieldName: Names, fieldType: VectorTypes]
           FT == [fieldName: Names, fieldType: FilterTypes]
<1>1. PICK V \in 0..MaxVectors : v \in [1..V -> VT]
  BY MaxAssumption DEF Listings, BoundedSeq, SeqOf
<1>2. PICK F \in 0..MaxFilters : f \in [1..F -> FT]
  BY MaxAssumption DEF Listings, BoundedSeq, SeqOf
<1>3. V \in Nat /\ F \in Nat /\ v \in Seq(VT) /\ f \in Seq(FT)
  <2> HIDE DEF v, f, VT, FT
  <2> QED
    BY <1>1, <1>2, MaxAssumption, SeqDef
<1>4. Len(v) = V /\ Len(f) = F
  <2> HIDE DEF v, f, VT, FT
  <2> QED
    BY <1>1, <1>2, <1>3, LenProperties
<1> DEFINE vc == [i \in 1..V |-> VectorColumn(v[i], i)]
           fc == [i \in 1..F |-> FilterColumn(f[i], i)]
<1>5. ASSUME NEW i \in 1..V PROVE VectorColumn(v[i], i) \in Sent
  <2>1. v[i] \in VT /\ i \in 1..(MaxVectors + MaxFilters) /\ i \in 0..MaxVectors
    BY <1>1, MaxAssumption
  <2> HIDE DEF v
  <2> QED
    BY <2>1 DEF VectorColumn, Sent, AllColumns
<1>6. ASSUME NEW i \in 1..F PROVE FilterColumn(f[i], i) \in Sent
  <2>1. f[i] \in FT /\ i \in 1..(MaxVectors + MaxFilters) /\ 0 \in 0..MaxVectors
    BY <1>2, MaxAssumption
  <2> HIDE DEF f
  <2> QED
    BY <2>1 DEF FilterColumn, Sent, AllColumns
<1>7. vc \in [1..V -> Sent] /\ fc \in [1..F -> Sent]
  BY <1>5, <1>6
<1>8. Columns(listed) = vc \o fc
  BY <1>4 DEF Columns
<1>9. \A i \in 1..V : vc[i] = VectorColumn(v[i], i)
  OBVIOUS
<1>10. \A i \in 1..F : fc[i] = FilterColumn(f[i], i)
  OBVIOUS
<1> HIDE DEF vc, fc, v, f
<1>11. /\ vc \in Seq(Sent) /\ fc \in Seq(Sent)
       /\ Len(vc) = V /\ Len(fc) = F
  <2>1. vc \in Seq(Sent) /\ fc \in Seq(Sent)
    BY <1>3, <1>7, SeqDef
  <2> QED
    BY <1>3, <1>7, <2>1, LenProperties
<1>12. /\ vc \o fc \in Seq(Sent) /\ Len(vc \o fc) = V + F
       /\ \A i \in 1..(V + F) : (vc \o fc)[i] = IF i <= V THEN vc[i] ELSE fc[i - V]
  BY <1>11, ConcatProperties
<1>13. \A i \in 1..V : (vc \o fc)[i] = vc[i]
  BY <1>3, <1>12
<1>14. ASSUME NEW i \in 1..F PROVE (vc \o fc)[V + i] = fc[i]
  <2>1. V + i \in 1..(V + F) /\ ~ (V + i <= V) /\ (V + i) - V = i
    BY <1>3
  <2> QED
    BY <1>12, <2>1
<1> QED
  BY <1>3, <1>4, <1>8, <1>9, <1>10, <1>12, <1>13, <1>14 DEF v, f

\* The request of a listing.
LEMMA RequestOfListing ==
    ASSUME NEW listed \in Listings
    PROVE  LET m == Request(listed)
               columns == Columns(listed)
           IN  /\ m \in Maps
               /\ LastColumns(m, columns, Len(columns))
               /\ \A x \in DOMAIN m : m[x].fieldName = x
               /\ IsFiniteSet(DOMAIN m)
<1> DEFINE m == Request(listed)
           columns == Columns(listed)
           n == Len(columns)
<1>1. columns \in Seq(Sent)
  BY ColumnsOfListing
<1>2. LastColumns(m, columns, n)
  <2> HIDE DEF columns
  <2> QED
    BY <1>1, RequestHasLast DEF Request, columns
<1>3. m \in Maps /\ \A x \in DOMAIN m : m[x].fieldName = x
  <2> HIDE DEF m, columns
  <2> QED
    BY <1>2 DEF LastColumns
<1> DEFINE name == [k \in 1..n |-> columns[k].fieldName]
<1>4. name \in Surjection(1..n, DOMAIN m)
  <2> HIDE DEF m, columns
  <2> QED
    BY <1>2 DEF LastColumns, Surjection
<1>5. IsFiniteSet(1..n)
  <2> HIDE DEF columns
  <2> QED
    BY <1>1, LenProperties, FS_Interval
<1>6. IsFiniteSet(DOMAIN m)
  <2> HIDE DEF m, name, n
  <2> QED
    BY <1>4, <1>5, FS_Surjection
<1> QED
  BY <1>2, <1>3, <1>6

\* What toCollection makes of a map has all its columns, whatever the order.
LEMMA MapToCollection ==
    ASSUME NEW m \in Maps, IsFiniteSet(DOMAIN m), NEW order \in Orders(m)
    PROVE  Split(toCollection(m, order, NewCollection), AsRead(m), DOMAIN m,
                 Cardinality(DOMAIN m))
<1> DEFINE n == Cardinality(DOMAIN m)
<1>1. n \in Nat
  BY FS_CardinalityType
<1>2. order \in [1..n -> DOMAIN m] /\ \A i, j \in 1..n : i # j => order[i] # order[j]
  BY DEF Orders, SetToSeqs
<1> HIDE DEF n
<1>3. order \in Injection(1..n, DOMAIN m)
  BY <1>2 DEF Injection, IsInjective
<1>4. Cardinality(1..n) = n
  BY <1>1, FS_Interval
<1>5. order \in Surjection(1..n, DOMAIN m)
  BY <1>3, <1>4, FS_Injection DEF n
<1>6. order \in Seq(DOMAIN m) /\ Len(order) = n
  <2>1. order \in Seq(DOMAIN m)
    BY <1>1, <1>2, SeqDef
  <2> QED
    BY <1>1, <1>2, <2>1, LenProperties
<1>7. Visited(order, n) = DOMAIN m
  BY <1>2, <1>5 DEF Visited, Surjection
<1> QED
  BY <1>6, <1>7, toCollectionSplits DEF n

\* The columns a program reads are those of the map, each once.
LEMMA ColumnsRead ==
    ASSUME NEW m \in Maps, IsFiniteSet(DOMAIN m),
           \A x \in DOMAIN m : m[x].fieldName = x,
           NEW d, Split(d, m, DOMAIN m, Cardinality(DOMAIN m))
    PROVE  LET got == d.vectorIndex \o d.filterIndex IN
           /\ got \in Seq(Sent)
           /\ \A k \in 1..Len(got) :
                 got[k].fieldName \in DOMAIN m /\ got[k] = m[got[k].fieldName]
           /\ \A x \in DOMAIN m : \E k \in 1..Len(got) : got[k] = m[x]
           /\ \A k, l \in 1..Len(got) : got[k].fieldName = got[l].fieldName => k = l
<1> DEFINE v == d.vectorIndex
           f == d.filterIndex
           V == Len(v)
           F == Len(f)
           got == v \o f
<1>1. v \in Seq(Sent) /\ f \in Seq(Sent) /\ V + F = Cardinality(DOMAIN m)
  BY DEF Split, Lists
<1>2. /\ \A k \in 1..V : \E x \in DOMAIN m : v[k] = m[x]
      /\ \A k \in 1..F : \E x \in DOMAIN m : f[k] = m[x]
      /\ \A x \in DOMAIN m : \/ (\E k \in 1..V : v[k] = m[x])
                              \/ (\E k \in 1..F : f[k] = m[x])
  <2>1. \A column : /\ column \in ToSet(v) <=> (\E k \in 1..V : v[k] = column)
                    /\ column \in ToSet(f) <=> (\E k \in 1..F : f[k] = column)
    <3>1. DOMAIN v = 1..V /\ DOMAIN f = 1..F
      BY <1>1, LenProperties
    <3> HIDE DEF v, f
    <3> QED
      BY <3>1 DEF ToSet
  <2>2. \A column :
           /\ column \in ToSet(v) <=>
                 (\E x \in DOMAIN m : column = m[x] /\ m[x].fieldType = "vector")
           /\ column \in ToSet(f) <=>
                 (\E x \in DOMAIN m : column = m[x] /\ m[x].fieldType # "vector")
    BY DEF Split
  <2> HIDE DEF v, f, V, F
  <2>3. \A k \in 1..V : \E x \in DOMAIN m : v[k] = m[x]
    BY <2>1, <2>2
  <2>4. \A k \in 1..F : \E x \in DOMAIN m : f[k] = m[x]
    BY <2>1, <2>2
  <2>5. ASSUME NEW x \in DOMAIN m
        PROVE  (\E k \in 1..V : v[k] = m[x]) \/ (\E k \in 1..F : f[k] = m[x])
    <3>1. m[x] \in ToSet(v) \/ m[x] \in ToSet(f)
      BY <2>2
    <3> QED
      BY <2>1, <3>1
  <2> QED
    BY <2>3, <2>4, <2>5
<1> HIDE DEF v, f
<1>3. V \in Nat /\ F \in Nat
  BY <1>1, LenProperties
<1>4. /\ got \in Seq(Sent) /\ Len(got) = V + F
      /\ \A i \in 1..(V + F) : got[i] = IF i <= V THEN v[i] ELSE f[i - V]
  BY <1>1, ConcatProperties
<1> HIDE DEF got, V, F
<1>5. \A i \in 1..V : i \in 1..(V + F) /\ got[i] = v[i]
  BY <1>3, <1>4
<1>6. \A i \in 1..F : V + i \in 1..(V + F) /\ got[V + i] = f[i]
  <2> TAKE i \in 1..F
  <2>1. V + i \in 1..(V + F) /\ ~ (V + i <= V) /\ (V + i) - V = i
    BY <1>3
  <2> QED
    BY <1>4, <2>1
<1>7. ASSUME NEW k \in 1..Len(got) PROVE \E x \in DOMAIN m : got[k] = m[x]
  <2>1. CASE k <= V
    <3>1. k \in 1..V
      BY <1>3, <1>4, <2>1
    <3> QED
      BY <1>2, <1>5, <3>1
  <2>2. CASE ~ (k <= V)
    <3>1. k - V \in 1..F /\ got[k] = f[k - V]
      BY <1>3, <1>4, <2>2
    <3> QED
      BY <1>2, <3>1
  <2> QED
    BY <2>1, <2>2
<1>8. \A k \in 1..Len(got) :
         got[k].fieldName \in DOMAIN m /\ got[k] = m[got[k].fieldName]
  BY <1>7
<1>9. \A x \in DOMAIN m : \E k \in 1..Len(got) : got[k] = m[x]
  BY <1>2, <1>4, <1>5, <1>6
<1>10. \A k, l \in 1..Len(got) : got[k].fieldName = got[l].fieldName => k = l
  <2> DEFINE n == Len(got)
             name == [k \in 1..n |-> got[k].fieldName]
  <2>1. name \in Surjection(1..n, DOMAIN m)
    <3>1. name \in [1..n -> DOMAIN m]
      BY <1>8
    <3>2. \A x \in DOMAIN m : \E k \in 1..n : name[k] = x
      BY <1>9
    <3> HIDE DEF name, n
    <3> QED
      BY <3>1, <3>2 DEF Surjection
  <2>2. n \in Nat /\ n = Cardinality(DOMAIN m)
    BY <1>1, <1>3, <1>4 DEF V, F
  <2>3. IsFiniteSet(1..n) /\ Cardinality(1..n) = Cardinality(DOMAIN m)
    <3> HIDE DEF n
    <3> QED
      BY <2>2, FS_Interval
  <2>4. name \in Injection(1..n, DOMAIN m)
    <3> HIDE DEF name, n
    <3> QED
      BY <2>1, <2>3, FS_SurjSameCardinalityImpliesInj
  <2>5. \A k, l \in 1..n : name[k] = name[l] => k = l
    <3> HIDE DEF name, n
    <3> QED
      BY <2>4 DEF Injection, IsInjective
  <2> QED
    BY <2>5
<1> QED
  BY <1>4, <1>8, <1>9, <1>10 DEF got, v, f

(***************************************************************************)
(* The invariant: what the server keeps with a collection is the request of*)
(* the listing last created under its name, and what was read since is made*)
(* of that request.                                                        *)
(***************************************************************************)
Kept ==
    \A c \in Collections : server[c] # Unknown =>
        created[c] \in Listings /\ server[c] = Request(created[c])

Read ==
    \A c \in Collections : described[c] # Unknown =>
        /\ created[c] \in Listings
        /\ \E order \in Orders(Request(created[c])) :
              described[c] = toCollection(Request(created[c]), order, NewCollection)

IndexInv ==
    /\ created \in [Collections -> Listings \cup {Unknown}]
    /\ server = [c \in Collections |-> server[c]]
    /\ described = [c \in Collections |-> described[c]]
    /\ Kept
    /\ Read

\* The invariant holds in every state.
THEOREM IndexInvariance == Spec => []IndexInv
<1>1. Init => IndexInv
  BY DEF Init, IndexInv, Kept, Read
<1>2. IndexInv /\ [Next]_vars => IndexInv'
  <2> SUFFICES ASSUME IndexInv, [Next]_vars PROVE IndexInv'
    OBVIOUS
  <2> USE DEF IndexInv
  <2>1. ASSUME NEW c \in Collections, NEW listed \in Listings, createCollection(c, listed)
        PROVE  IndexInv'
    <3>1. created' \in [Collections -> Listings \cup {Unknown}]
      BY <2>1 DEF createCollection
    <3>2. /\ server' = [d \in Collections |-> server'[d]]
          /\ described' = [d \in Collections |-> described'[d]]
      BY <2>1 DEF createCollection
    <3>3. /\ created'[c] = listed /\ server'[c] = Request(listed)
          /\ described'[c] = Unknown
          /\ \A d \in Collections \ {c} : /\ created'[d] = created[d]
                                          /\ server'[d] = server[d]
                                          /\ described'[d] = described[d]
      BY <2>1 DEF createCollection
    <3>4. Kept'
      BY <3>3 DEF Kept
    <3>5. Read'
      BY <3>3 DEF Read
    <3> QED
      BY <3>1, <3>2, <3>4, <3>5
  <2>2. ASSUME NEW c \in Collections, dropCollection(c) PROVE IndexInv'
    <3>1. /\ server'[c] = Unknown
          /\ \A d \in Collections \ {c} : server'[d] = server[d]
          /\ server' = [d \in Collections |-> server'[d]]
      BY <2>2 DEF dropCollection
    <3>2. created' = created /\ described' = described
      BY <2>2 DEF dropCollection
    <3> QED
      BY <3>1, <3>2 DEF Kept, Read
  <2>3. ASSUME NEW c \in Collections, describeCollection(c) PROVE IndexInv'
    <3>1. PICK order \in Orders(server[c]) :
             described' = [described EXCEPT ![c] =
                              toCollection(server[c], order, NewCollection)]
      BY <2>3 DEF describeCollection
    <3>2. server[c] # Unknown /\ server' = server /\ created' = created
      BY <2>3 DEF describeCollection, Existing
    <3>3. /\ described' = [d \in Collections |-> described'[d]]
          /\ described'[c] = toCollection(server[c], order, NewCollection)
          /\ \A d \in Collections \ {c} : described'[d] = described[d]
      BY <3>1
    <3>4. Read'
      BY <3>2, <3>3 DEF Kept, Read
    <3> QED
      BY <3>2, <3>3, <3>4 DEF Kept
  <2>4. ASSUME listCollections PROVE IndexInv'
    <3>1. PICK order \in [Existing -> UNION {Orders(server[c]) : c \in Existing}] :
             /\ \A c \in Existing : order[c] \in Orders(server[c])
             /\ described' = [c \in Collections |->
                   IF c \in Existing
                   THEN toCollection(server[c], order[c], NewCollection)
                   ELSE described[c]]
      BY <2>4 DEF listCollections
    <3>2. server' = server /\ created' = created
      BY <2>4 DEF listCollections
    <3>3. \A c \in Existing : c \in Collections /\ server[c] # Unknown
      BY DEF Existing
    <3>4. Read'
      <4> SUFFICES ASSUME NEW c \in Collections, described'[c] # Unknown
                   PROVE  /\ created[c] \in Listings
                          /\ \E o \in Orders(Request(created[c])) :
                                described'[c] =
                                   toCollection(Request(created[c]), o, NewCollection)
        BY <3>2 DEF Read
      <4>1. CASE c \in Existing
        <5>1. /\ described'[c] = toCollection(server[c], order[c], NewCollection)
              /\ order[c] \in Orders(server[c])
          BY <3>1, <4>1
        <5>2. created[c] \in Listings /\ server[c] = Request(created[c])
          BY <3>3, <4>1 DEF Kept
        <5> QED
          BY <5>1, <5>2
      <4>2. CASE c \notin Existing
        <5>1. described'[c] = described[c]
          BY <3>1, <4>2
        <5> QED
          BY <5>1 DEF Read
      <4> QED
        BY <4>1, <4>2
    <3>5. described' = [c \in Collections |-> described'[c]]
      BY <3>1
    <3> QED
      BY <3>2, <3>4, <3>5 DEF Kept
  <2>5. CASE UNCHANGED vars
    BY <2>5 DEF vars, Kept, Read
  <2> QED
    BY <2>1, <2>2, <2>3, <2>4, <2>5 DEF Next
<1> QED
  BY <1>1, <1>2, PTL DEF Spec

\* What was read of a collection, and the request it was read of.
LEMMA DescribedIsRequest ==
    ASSUME IndexInv, NEW c \in Collections, described[c] # Unknown
    PROVE  LET m == Request(created[c]) IN
           /\ created[c] \in Listings
           /\ m \in Maps /\ IsFiniteSet(DOMAIN m)
           /\ \A x \in DOMAIN m : m[x].fieldName = x
           /\ LastColumns(m, Columns(created[c]), Len(Columns(created[c])))
           /\ Split(described[c], AsRead(m), DOMAIN m, Cardinality(DOMAIN m))
<1>1. created[c] \in Listings
  BY DEF IndexInv, Read
<1>2. PICK order \in Orders(Request(created[c])) :
         described[c] = toCollection(Request(created[c]), order, NewCollection)
  BY DEF IndexInv, Read
<1> QED
  BY <1>1, <1>2, RequestOfListing, MapToCollection

\* Types: what the server keeps and what a program reads are columns of its fields.
THEOREM IndexTypes == Spec => []TypeOK
<1>1. IndexInv => TypeOK
  <2> SUFFICES ASSUME IndexInv PROVE TypeOK
    OBVIOUS
  <2>1. Sent \subseteq AllColumns
    BY DEF Sent
  <2>2. ASSUME NEW c \in Existing
        PROVE  /\ DOMAIN server[c] \subseteq Names
               /\ \A n \in DOMAIN server[c] : server[c][n] \in AllColumns
    <3>1. created[c] \in Listings /\ server[c] = Request(created[c])
      BY DEF Existing, IndexInv, Kept
    <3>2. server[c] \in Maps
      BY <3>1, RequestOfListing
    <3> QED
      BY <2>1, <3>2, MapType
  <2>3. ASSUME NEW c \in Collections, described[c] # Unknown
        PROVE  /\ ToSet(described[c].vectorIndex) \subseteq AllColumns
               /\ ToSet(described[c].filterIndex) \subseteq AllColumns
    <3>1. described[c].vectorIndex \in Seq(Sent) /\ described[c].filterIndex \in Seq(Sent)
      BY <2>3, DescribedIsRequest DEF Split, Lists
    <3>2. ASSUME NEW seq \in Seq(Sent) PROVE ToSet(seq) \subseteq AllColumns
      BY <2>1, LenProperties, ElementOfSeq DEF ToSet
    <3> QED
      BY <3>1, <3>2
  <2> QED
    BY <2>2, <2>3 DEF TypeOK, IndexInv
<1> QED
  BY <1>1, IndexInvariance, PTL

\* Of several indexes listed for one field the program reads the last and no other.
THEOREM LastIndexIsRead == Spec => []LastIndexOfField
<1>1. IndexInv => LastIndexOfField
  <2> SUFFICES ASSUME IndexInv, NEW c \in Collections, described[c] # Unknown,
                      NEW n \in Names
               PROVE  LET columns == Columns(created[c])
                          got == described[c].vectorIndex \o described[c].filterIndex
                          listed == {i \in 1..Len(columns) : columns[i].fieldName = n}
                          read == {i \in 1..Len(got) : got[i].fieldName = n}
                      IN  /\ listed = {} => read = {}
                          /\ listed # {} =>
                                \E i \in listed, k \in read :
                                    /\ \A j \in listed : j <= i
                                    /\ read = {k}
                                    /\ got[k].entry = columns[i].entry
    BY DEF LastIndexOfField
  <2> DEFINE m == Request(created[c])
             r == AsRead(m)
             columns == Columns(created[c])
             got == described[c].vectorIndex \o described[c].filterIndex
             listed == {i \in 1..Len(columns) : columns[i].fieldName = n}
             read == {i \in 1..Len(got) : got[i].fieldName = n}
  <2>1. /\ LastColumns(m, columns, Len(columns)) /\ m \in Maps
        /\ \A x \in DOMAIN m : m[x].fieldName = x
    BY DescribedIsRequest
  <2>6. /\ r \in Maps /\ DOMAIN r = DOMAIN m
        /\ \A x \in DOMAIN m : r[x].fieldName = x /\ r[x].entry = m[x].entry
    <3> HIDE DEF m
    <3> QED
      BY <2>1, ReadMap
  <2>2. /\ \A k \in 1..Len(got) :
              got[k].fieldName \in DOMAIN r /\ got[k] = r[got[k].fieldName]
        /\ \A x \in DOMAIN r : \E k \in 1..Len(got) : got[k] = r[x]
        /\ \A k, l \in 1..Len(got) : got[k].fieldName = got[l].fieldName => k = l
    <3>1. IsFiniteSet(DOMAIN m) /\ Split(described[c], r, DOMAIN m, Cardinality(DOMAIN m))
      BY DescribedIsRequest
    <3>2. r \in Maps /\ \A x \in DOMAIN r : r[x].fieldName = x
      BY <2>6
    <3>3. IsFiniteSet(DOMAIN r) /\ Split(described[c], r, DOMAIN r, Cardinality(DOMAIN r))
      <4> HIDE DEF m, r
      <4> QED
        BY <2>6, <3>1
    <3> HIDE DEF r
    <3> QED
      BY <3>2, <3>3, ColumnsRead
  <2> HIDE DEF m, r, columns, got
  <2>3. n \in DOMAIN m <=> listed # {}
    BY <2>1 DEF LastColumns
  <2>4. ASSUME listed = {} PROVE read = {}
    BY <2>2, <2>3, <2>4, <2>6
  <2>5. ASSUME listed # {}
        PROVE  \E i \in listed, k \in read : /\ \A j \in listed : j <= i
                                            /\ read = {k}
                                            /\ got[k].entry = columns[i].entry
    <3>1. PICK i \in listed : m[n] = columns[i] /\ \A j \in listed : j <= i
      BY <2>1, <2>3, <2>5 DEF LastColumns
    <3>2. PICK k \in 1..Len(got) : got[k] = r[n]
      BY <2>2, <2>3, <2>5, <2>6
    <3>3. k \in read /\ read = {k}
      <4>1. got[k].fieldName = n
        BY <2>3, <2>5, <2>6, <3>2
      <4> QED
        BY <2>2, <4>1
    <3>4. got[k].entry = columns[i].entry
      BY <2>3, <2>5, <2>6, <3>1, <3>2
    <3> QED
      BY <3>1, <3>3, <3>4
  <2> QED
    BY <2>4, <2>5 DEF m, columns, got
<1> QED
  BY <1>1, IndexInvariance, PTL

\* A well-formed listing is read as it was given: each index once, in its list.
THEOREM ListingSurvives == Spec => []IndexesSurvive
<1>1. IndexInv => IndexesSurvive
  <2> SUFFICES ASSUME IndexInv, NEW c \in Collections, described[c] # Unknown,
                      WellFormed(created[c])
               PROVE  LET columns == Columns(created[c])
                          vectors == Len(created[c].vectorIndex)
                      IN  /\ Len(described[c].vectorIndex) + Len(described[c].filterIndex)
                                = Len(columns)
                          /\ ToSet(described[c].vectorIndex) =
                                {columns[i] : i \in 1..vectors}
                          /\ ToSet(described[c].filterIndex) =
                                {columns[i] : i \in (vectors + 1)..Len(columns)}
    BY DEF IndexesSurvive
  <2> DEFINE listing == created[c]
             m == Request(listing)
             r == AsRead(m)
             columns == Columns(listing)
             V == Len(listing.vectorIndex)
             F == Len(listing.filterIndex)
             n == Len(columns)
             d == described[c]
  <2>1. /\ listing \in Listings
        /\ m \in Maps /\ IsFiniteSet(DOMAIN m)
        /\ LastColumns(m, columns, n)
        /\ Split(d, r, DOMAIN m, Cardinality(DOMAIN m))
    BY DescribedIsRequest
  <2> HIDE DEF listing, d
  <2>2. /\ V \in Nat /\ F \in Nat /\ n = V + F
        /\ \A i \in 1..V : columns[i].fieldType = listing.vectorIndex[i].fieldType
        /\ \A i \in 1..F : /\ columns[V + i].fieldType = listing.filterIndex[i].fieldType
                           /\ columns[V + i].metric = 0
        /\ \A i \in 1..n : columns[i] \in Sent
    <3>1. /\ V \in Nat /\ F \in Nat /\ n = V + F
          /\ \A i \in 1..V : columns[i] = VectorColumn(listing.vectorIndex[i], i)
          /\ \A i \in 1..F : columns[V + i] = FilterColumn(listing.filterIndex[i], i)
          /\ columns \in Seq(Sent)
      BY <2>1, ColumnsOfListing
    <3>2. \A index, i : /\ VectorColumn(index, i).fieldType = index.fieldType
                        /\ FilterColumn(index, i).fieldType = index.fieldType
                        /\ FilterColumn(index, i).metric = 0
      BY DEF VectorColumn, FilterColumn
    <3> HIDE DEF columns, V, F
    <3>3. \A i \in 1..n : columns[i] \in Sent
      BY <3>1, LenProperties, ElementOfSeq
    <3> HIDE DEF n
    <3> QED
      BY <3>1, <3>2, <3>3
  <2>3. /\ \A i, j \in 1..n : columns[i].fieldName = columns[j].fieldName => i = j
        /\ \A i \in 1..V : listing.vectorIndex[i].fieldType = "vector"
        /\ \A i \in 1..F : listing.filterIndex[i].fieldType # "vector"
    BY DEF WellFormed, listing
  <2> HIDE DEF m, r, columns, n, V, F
  <2>4. \A i \in 1..V : i \in 1..n /\ columns[i].fieldType = "vector"
    BY <2>2, <2>3
  <2>5. ASSUME NEW i \in (V + 1)..n
        PROVE  i \in 1..n /\ columns[i].fieldType # "vector" /\ columns[i].metric = 0
    <3>1. i \in 1..n /\ i - V \in 1..F /\ V + (i - V) = i
      BY <2>2
    <3> QED
      BY <2>2, <2>3, <3>1
  <2>6. \A i \in 1..n : i \in 1..V \/ i \in (V + 1)..n
    BY <2>2
  <2>7. /\ \A i \in 1..n : columns[i].fieldName \in DOMAIN m
        /\ \A i \in 1..n : r[columns[i].fieldName] = columns[i]
        /\ \A x \in DOMAIN m : \E i \in 1..n : columns[i].fieldName = x /\ r[x] = columns[i]
    <3>1. /\ \A i \in 1..n : columns[i].fieldName \in DOMAIN m
          /\ \A i \in 1..n : m[columns[i].fieldName] = columns[i]
          /\ \A x \in DOMAIN m : \E i \in 1..n : columns[i].fieldName = x /\ m[x] = columns[i]
      BY <2>1, <2>3 DEF LastColumns
    <3>2. \A i \in 1..n : IndexRead(columns[i]) = columns[i]
      <4> TAKE i \in 1..n
      <4>1. columns[i] \in Sent /\ (columns[i].fieldType = "vector" \/ columns[i].metric = 0)
        BY <2>2, <2>4, <2>5, <2>6
      <4> QED
        BY <4>1 DEF IndexRead, Sent, AllColumns
    <3>3. \A x \in DOMAIN m : r[x] = IndexRead(m[x])
      BY <2>1, ReadMap DEF r
    <3> QED
      BY <3>1, <3>2, <3>3
  <2>8. Cardinality(DOMAIN m) = n
    <3> DEFINE name == [i \in 1..n |-> columns[i].fieldName]
    <3>1. name \in Bijection(1..n, DOMAIN m)
      <4>1. name \in [1..n -> DOMAIN m]
        BY <2>7
      <4>2. \A x \in DOMAIN m : \E i \in 1..n : name[i] = x
        BY <2>7
      <4>3. \A i, j \in 1..n : name[i] = name[j] => i = j
        BY <2>3
      <4> HIDE DEF name
      <4> QED
        BY <4>1, <4>2, <4>3 DEF Bijection, Injection, Surjection, IsInjective
    <3> HIDE DEF name
    <3>2. ExistsBijection(1..n, DOMAIN m) /\ n \in Nat
      BY <2>2, <3>1 DEF ExistsBijection
    <3> QED
      BY <3>2, FS_CountingElements
  <2>9. Len(d.vectorIndex) + Len(d.filterIndex) = n
    BY <2>1, <2>8 DEF Split
  <2>10. ToSet(d.vectorIndex) = {columns[i] : i \in 1..V}
    <3>1. \A column : column \in ToSet(d.vectorIndex) <=>
             (\E x \in DOMAIN m : column = r[x] /\ r[x].fieldType = "vector")
      BY <2>1 DEF Split
    <3>2. ASSUME NEW column \in ToSet(d.vectorIndex)
          PROVE  \E i \in 1..V : column = columns[i]
      BY <2>5, <2>6, <2>7, <3>1
    <3>3. ASSUME NEW i \in 1..V PROVE columns[i] \in ToSet(d.vectorIndex)
      BY <2>4, <2>7, <3>1
    <3> QED
      BY <3>2, <3>3
  <2>11. ToSet(d.filterIndex) = {columns[i] : i \in (V + 1)..n}
    <3>1. \A column : column \in ToSet(d.filterIndex) <=>
             (\E x \in DOMAIN m : column = r[x] /\ r[x].fieldType # "vector")
      BY <2>1 DEF Split
    <3>2. ASSUME NEW column \in ToSet(d.filterIndex)
          PROVE  \E i \in (V + 1)..n : column = columns[i]
      BY <2>4, <2>6, <2>7, <3>1
    <3>3. ASSUME NEW i \in (V + 1)..n PROVE columns[i] \in ToSet(d.filterIndex)
      BY <2>5, <2>7, <3>1
    <3> QED
      BY <3>2, <3>3
  <2> QED
    BY <2>9, <2>10, <2>11 DEF listing, columns, V, n, d
<1> QED
  BY <1>1, IndexInvariance, PTL
=============================================================================
