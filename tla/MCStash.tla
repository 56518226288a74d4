------------------------------- MODULE MCStash -------------------------------
EXTENDS Stash, TLC

\* The bucket names: no name is the start of another.
Apart == [b \in Buckets |-> {}]
ASSUME Standalone
=============================================================================
