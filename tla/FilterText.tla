----------------------------- MODULE FilterText -----------------------------
(***************************************************************************)
(* The text a Filter assembles.  A condition is opaque: the text is the    *)
(* sequence of its clauses, each with the connective written before it and *)
(* the call of assemblyCond whose condition it is.  A blank condition, like*)
(* that of Filter::in for an empty list, is the empty string.              *)
(***************************************************************************)
EXTENDS Naturals, Sequences

CONSTANTS Additions,     \* calls of andCond, orCond, andNotCond, orNotCond
          Constructor    \* stands for the condition given to the constructor

ASSUME ConstructorAssumption == Constructor \notin Additions

Connectives == {"and", "or", "and not", "or not"}

\* The arguments of assemblyCond.
Arguments == [operation: Connectives, blank: BOOLEAN]

Clauses == [op: Connectives \cup {"", "not"}, by: Additions \cup {Constructor}]

\* Filter() and Filter(val)
Constructed == {<<>>, <<[op |-> "", by |-> Constructor]>>}

\* operation.find("not") != npos
IsNegated(args) == args.operation \in {"and not", "or not"}

\* MUTANT: the first clause keeps the connective of its operation.
FirstClauseConnected(a, args) ==
    IF args.blank THEN <<>> ELSE <<[op |-> args.operation, by |-> a]>>

\* MUTANT: the operation of the first clause is cut off at the wrong place.
FirstClauseCut(a, args) ==
    IF args.blank THEN <<>> ELSE <<[op |-> "and no", by |-> a]>>

\* The first clause: a blank one that is not negated is no text at all.
FirstClause(a, args) ==
    IF IsNegated(args) THEN <<[op |-> "not", by |-> a]>>
    ELSE IF args.blank THEN <<>>
    ELSE <<[op |-> "", by |-> a]>>

\* MUTANT: the new clause is written before the text.
AssembleBefore(text, a, args) ==
    IF text = <<>> THEN FirstClause(a, args)
    ELSE <<[op |-> args.operation, by |-> a]>> \o text

\* What assemblyCond makes of the text it finds.
Assemble(text, a, args) ==
    IF text = <<>> THEN FirstClause(a, args)
    ELSE Append(text, [op |-> args.operation, by |-> a])

Mentions(text, a) == \E i \in 1..Len(text) : text[i].by = a
=============================================================================
