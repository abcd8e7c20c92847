--------------------------- MODULE DocumentStore ---------------------------
(***************************************************************************)
(* What a program may rely on when it writes the documents of a            *)
(* collection: every call takes effect at most once and in one step, on    *)
(* documents as the program sees them and not as they travel.              *)
(***************************************************************************)
EXTENDS DocumentData

CONSTANTS Calls, Arguments

VARIABLES docs,      \* the documents, by id
          args,      \* the arguments of each call made
          applied    \* the calls that have had their effect

vars == <<docs, args, applied>>

Init == /\ docs = [d \in Ids |-> None]
        /\ args = [c \in Calls |-> None]
        /\ applied = {}

\* The documents a call with these arguments is about.
Chosen(a) ==
    {d \in Ids : /\ docs[d] # None
                 /\ a.ids = {} \/ d \in a.ids
                 /\ Meets(docs[d], a.filter)}

ReadableDocument(document) == MapFields(document, Readable)

Call(c) == /\ args[c] = None
           /\ \E a \in Arguments : args' = [args EXCEPT ![c] = a]
           /\ UNCHANGED <<docs, applied>>

Apply(c, op) == /\ args[c] # None
                /\ args[c].op = op
                /\ c \notin applied
                /\ applied' = applied \cup {c}
                /\ UNCHANGED args

Upsert(c) ==
    /\ Apply(c, "upsert")
    /\ docs' = [d \in Ids |->
                  IF d \in DOMAIN args[c].documents
                  THEN Overwrite(docs[d], ReadableDocument(args[c].documents[d]))
                  ELSE docs[d]]

Update(c) ==
    /\ Apply(c, "update")
    /\ docs' = [d \in Ids |->
                  IF d \in Chosen(args[c])
                  THEN Merge(docs[d], ReadableDocument(args[c].change))
                  ELSE docs[d]]

\* With a limit, that many of the documents chosen are deleted, if there are so
\* many, and without one all of them.
Dele(c) ==
    /\ Apply(c, "dele")
    /\ \E gone \in SUBSET Chosen(args[c]) :
          /\ docs' = [d \in Ids |-> IF d \in gone THEN None ELSE docs[d]]
          /\ \/ gone = Chosen(args[c])
             \/ args[c].limit > 0 /\ Cardinality(gone) = args[c].limit

Read(c) ==
    /\ \E op \in {"query", "search", "count"} : Apply(c, op)
    /\ UNCHANGED docs

Next == \E c \in Calls : Call(c) \/ Upsert(c) \/ Update(c) \/ Dele(c) \/ Read(c)

Spec == Init /\ [][Next]_vars
=============================================================================
