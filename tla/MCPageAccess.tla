---------------------------- MODULE MCPageAccess ----------------------------
\* A small instance of page access for TLC.
EXTENDS PageAccess, TLC

\* Codes, processes and handlers are told apart by nothing else.
Interchangeable == Permutations(Codes) \cup Permutations(Requests)

=============================================================================
