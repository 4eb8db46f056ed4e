---------------------------- MODULE MCCleanupCron ----------------------------
\* A small deployment for TLC.
EXTENDS CleanupCron, TLC

\* Processes are told apart by nothing; rows are, by the order of their ids.
Interchangeable == Permutations(Replicas)

=============================================================================
