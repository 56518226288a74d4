-------------------------------- MODULE Pred --------------------------------
(***************************************************************************)
(* Predicates (lib/ca/ca-pred.js): what is accepted from a user and how it *)
(* is evaluated on the field values of a data point.                       *)
(*                                                                         *)
(* A predicate is {} (the key "none"), a comparison of a field with a      *)
(* constant, an "and" or "or" of predicates, or anything else a client may *)
(* send ("malformed": not an object, several keys, an unknown key, not an  *)
(* array, a wrong number of elements, a field that is no string, ...).     *)
(* A value is <<"number", n>> or <<"string", s>>.                          *)
(***************************************************************************)
EXTENDS Integers, Sequences, SequencesExt

Trivial == [key |-> "none"]
Malformed == [key |-> "malformed"]
Rel(op, field, const) == [key |-> op, field |-> field, const |-> const]
And(ps) == [key |-> "and", args |-> ps]
Or(ps) == [key |-> "or", args |-> ps]

Inequalities == {"lt", "le", "gt", "ge"}
Relations == Inequalities \cup {"eq", "ne"}
Connectives == {"and", "or"}

caPredNonTrivial(p) == p.key # "none"

\* Validation of the form.  A nested {} is let through.
RECURSIVE caPredValidateSyntax(_)
caPredValidateSyntax(p) ==
    \/ ~caPredNonTrivial(p)
    \/ p.key \in Relations
    \/ /\ p.key \in Connectives
       /\ Len(p.args) >= 2
       /\ \A i \in DOMAIN p.args : caPredValidateSyntax(p.args[i])

\* caPredWalk visits the comparisons.
RECURSIVE Leaves(_)
Leaves(p) == CASE p.key \in Relations -> {p}
               [] p.key \in Connectives -> UNION {Leaves(p.args[i]) : i \in DOMAIN p.args}
               [] OTHER -> {}

caPredFields(p) == {leaf.field : leaf \in Leaves(p)}

\* The type of the constant must fit the arity of the field.  That the operator
\* fits the arity (keyFields) is looked up and not used.
caPredValidateSemantics(arity, p) ==
    \A leaf \in Leaves(p) :
        leaf.const[1] = IF arity[leaf.field] = "numeric" THEN "number" ELSE "string"

\* What instnValidateProps asks of a predicate.
ValidPred(arities, p) ==
    /\ caPredValidateSyntax(p)
    /\ caPredFields(p) \subseteq DOMAIN arities
    /\ caPredValidateSemantics(arities, p)

-----------------------------------------------------------------------------
(* Evaluation: "dies" when an assertion or the lack of a key throws.       *)

caPredEvalHelper(op, a, b) ==
    CASE op = "lt" -> a[2] < b[2]
      [] op = "le" -> a[2] <= b[2]
      [] op = "gt" -> a[2] > b[2]
      [] op = "ge" -> a[2] >= b[2]
      [] op = "eq" -> a = b
      [] op = "ne" -> a # b

Outcome(b) == IF b THEN "true" ELSE "false"

\* "and" stops at the first element that is false, "or" at the first that is
\* true; no other element is evaluated.
RECURSIVE caPredEvalExpr(_, _)
caPredEvalExpr(p, row) ==
    LET first(otherwise) ==
            LET at == SelectInSeq(p.args, LAMBDA q : caPredEvalExpr(q, row) # otherwise)
            IN IF at = 0 THEN otherwise ELSE caPredEvalExpr(p.args[at], row)
        Mixed == p.key \in Inequalities /\ "string" \in {row[p.field][1], p.const[1]}
    IN CASE p.key = "and" -> first("true")
         [] p.key = "or" -> first("false")
         [] p.key \in Relations /\ ~Mixed -> Outcome(caPredEvalHelper(p.key, row[p.field], p.const))
         [] OTHER -> "dies"

\* caPredReplaceFields comes first and asserts that every field has a value.
caPredEval(p, row) ==
    IF ~caPredNonTrivial(p) THEN "true"
    ELSE IF ~(caPredFields(p) \subseteq DOMAIN row) THEN "dies"
    ELSE caPredEvalExpr(p, row)
=============================================================================
