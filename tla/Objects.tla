------------------------------ MODULE Objects ------------------------------
(***************************************************************************)
(* JavaScript's objects: functions on the names they have.                 *)
(***************************************************************************)

Has(obj, key) == key \in DOMAIN obj
Nothing == [x \in {} |-> x]

\* What the first has, and what only the second has.
Merged(obj, other) ==
    [x \in DOMAIN obj \cup DOMAIN other |-> IF Has(obj, x) THEN obj[x] ELSE other[x]]
Single(key, value) == [x \in {key} |-> value]
Updated(obj, key, value) == Merged(Single(key, value), obj)
=============================================================================
