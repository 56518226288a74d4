---------------------------- MODULE MCAggregator ----------------------------
EXTENDS Aggregator, TLC

Symmetry == Permutations(Hosts)
=============================================================================
