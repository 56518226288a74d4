----------------------------- MODULE MCDataset -----------------------------
EXTENDS Requests

CONSTANTS h1, h2, k1, k2

Symmetry == Permutations(Hosts) \cup Permutations(Keys)

\* One instrumentation of each shape; sums and readings.
Shape(d, a, s) == [dimension |-> d, arity |-> a, scope |-> s]
Shapes == {Shape(1, "scalar", "interval"), Shape(2, "discrete", "interval"),
           Shape(2, "numeric", "interval"), Shape(3, "numeric", "interval"),
           Shape(2, "discrete", "point")}
=============================================================================
