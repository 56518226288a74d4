-------------------------------- MODULE Sums --------------------------------
(***************************************************************************)
(* The sums of lib/ca/ca-agg.js that both the aggregator and the           *)
(* instrumenter's own back end are built on.                               *)
(*                                                                         *)
(* A distribution is a sequence of entries, records that have at least     *)
(* .lo, where the bucket starts, and .n, its count.  An object is a        *)
(* function on the names it has.                                           *)
(***************************************************************************)
EXTENDS Integers, Sequences, FiniteSetsExt

\* The elements of a set in some order.
Listed(S) == FoldSet(LAMBDA x, listed : Append(listed, x), <<>>, S)

Empty == [x \in {} |-> 0]
With(f, x, v) == [y \in DOMAIN f \cup {x} |-> IF y = x THEN v ELSE f[y]]
Get(f, x, default) == IF x \in DOMAIN f THEN f[x] ELSE default

caAddScalars(lhs, rhs) == lhs + rhs

\* Merges two sorted distributions.
caAddDistributions(lhs, rhs) ==
    LET merge[p \in (1..Len(lhs) + 1) \X (1..Len(rhs) + 1)] ==
        LET ll == p[1]
            rr == p[2]
            more == ll <= Len(lhs)
        IN  IF rr > Len(rhs) THEN SubSeq(lhs, ll, Len(lhs))
            ELSE IF more /\ lhs[ll].lo < rhs[rr].lo
              THEN <<lhs[ll]>> \o merge[<<ll + 1, rr>>]
            ELSE IF more /\ lhs[ll].lo = rhs[rr].lo
              THEN <<[lhs[ll] EXCEPT !.n = @ + rhs[rr].n]>>
                   \o merge[<<ll + 1, rr + 1>>]
            ELSE <<rhs[rr]>> \o merge[<<ll, rr + 1>>]
    IN  merge[<<1, 1>>]

\* Adds the values of each key, with the sum that fits what they are.
caAddDecompositions(lhs, rhs, add(_, _)) ==
    [k \in DOMAIN lhs \cup DOMAIN rhs |->
        IF k \notin DOMAIN rhs THEN lhs[k]
        ELSE IF k \notin DOMAIN lhs THEN rhs[k] ELSE add(lhs[k], rhs[k])]

-----------------------------------------------------------------------------
(* The representation that fits an instrumentation: its dimension is one   *)
(* more than its decompositions, its arity that of the last of them.       *)

caDatasetForInstrumentation(instn) ==
    CASE instn.dimension = 1 -> "Scalar"
      [] instn.dimension = 3 -> "HeatmapDecomp"
      [] instn.dimension = 2 /\ instn.arity = "numeric" -> "HeatmapScalar"
      [] OTHER -> "Decomp"
=============================================================================
