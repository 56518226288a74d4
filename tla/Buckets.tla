------------------------------ MODULE Buckets ------------------------------
(***************************************************************************)
(* From data points to the value of an instrumentation                     *)
(* (lib/ca/ca-instr.js): filtering, decomposing and bucketizing.           *)
(*                                                                         *)
(* A data point is [fields, value]: the fields are <<"number", n>> or      *)
(* <<"string", s>> (as in Pred).  A value is [scalar |-> n],               *)
(* [bykey |-> object] or [dist |-> distribution], an entry of which is     *)
(* [lo, hi, n] with its bounds in hundredths: buckets of log-linear        *)
(* distributions have fractional bounds.                                   *)
(***************************************************************************)
EXTENDS Pred, Sums

Cents(n) == 100 * n

caInstrApplyPredicate(predicate, points) ==
    SelectSeq(points, LAMBDA pt : caPredEval(predicate, pt.fields) = "true")

\* The first entry that holds the value counts it, unless an entry that starts
\* above the value comes first: then "bucket" is inserted before that one.
Place(rv, value, card, bucket) ==
    LET v == Cents(value)
        at == SelectInSeq(rv, LAMBDA e : v <= e.hi)
        entry == [lo |-> bucket[1], hi |-> bucket[2], n |-> card]
    IN  IF at = 0 THEN Append(rv, entry)
        ELSE IF v >= rv[at].lo THEN [rv EXCEPT ![at].n = @ + card]
        ELSE InsertAt(rv, at, entry)

caLinearBucketize(rv, value, card, step) ==
    LET lo == (value \div step) * step
    IN  Place(rv, value, card, <<Cents(lo), Cents(lo + step - 1)>>)

caLogFloor(base, value) ==
    IF value < base THEN 0
    ELSE CHOOSE exp \in 1..30 : base^exp <= value /\ value < base^(exp + 1)

\* Mutant: A bucket ends where the next one starts.
MLogLinear(base, min, value, nbuckets) ==
    IF value < base^min THEN <<0, Cents(base^min)>>
    ELSE LET first == base^caLogFloor(base, value)
             step == Cents(base * first) \div nbuckets
             lo == Cents(first) + (Cents(value - first) \div step) * step
         IN  <<lo, lo + step>>
\* The bucket of a value: below base^min there is one, from there on nbuckets for
\* each power of the base, less those below the power itself.  A bucket ends one
\* base-th of a step before the next one starts.
LogLinear(base, min, value, nbuckets) ==
    IF value < base^min THEN <<0, Cents(base^min)>>
    ELSE LET first == base^caLogFloor(base, value)
             step == Cents(base * first) \div nbuckets
             lo == Cents(first) + (Cents(value - first) \div step) * step
         IN  <<lo, lo + step - (step \div base)>>

caLogLinearBucketize(rv, value, card, base, min, nbuckets) ==
    Place(rv, value, card, LogLinear(base, min, value, nbuckets))

\* bucketizers[field] is a record with the parameters of one of the two.
Bucketize(how, rv, value, card) ==
    IF how.scale = "linear" THEN caLinearBucketize(rv, value, card, how.step)
    ELSE caLogLinearBucketize(rv, value, card, 10, how.min, how.nbuckets)

Total(points) == FoldLeft(LAMBDA sum, pt : sum + pt.value, 0, points)

\* Decompositions are names of fields, those of a numeric one come last.
RECURSIVE caInstrComputeValue(_, _, _)
caInstrComputeValue(bucketizers, decomps, points) ==
    IF decomps = <<>> THEN [scalar |-> Total(points)]
    ELSE LET field == Head(decomps)
             of(pt) == pt.fields[field]
             keys == {of(points[i]) : i \in DOMAIN points}
             sub(k) == caInstrComputeValue(bucketizers, Tail(decomps),
                           SelectSeq(points, LAMBDA pt : of(pt) = k))
         IN  IF field \in DOMAIN bucketizers
             THEN [dist |-> FoldLeft(LAMBDA rv, pt :
                      Bucketize(bucketizers[field], rv, of(pt)[2], pt.value), <<>>, points)]
             ELSE [bykey |-> [k \in keys |-> sub(k)]]
=============================================================================
