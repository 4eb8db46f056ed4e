------------------------------ MODULE MCSessions ------------------------------
\* A small instance of the sessions for TLC.
EXTENDS Sessions, TLC

\* Ids, accounts, flows and handlers are told apart by nothing else.
Interchangeable ==
    Permutations(Sids) \cup Permutations(Users) \cup Permutations(Flows)
        \cup Permutations(Requests)

=============================================================================
