---------------------------- MODULE MCCredentials ----------------------------
\* A small instance of the credentials for TLC.
EXTENDS Credentials, TLC

\* Accounts, pages, tokens and handlers are told apart by nothing else.
Interchangeable ==
    Permutations(Users) \cup Permutations(Pages) \cup Permutations(Tokens)
        \cup Permutations(Requests)

=============================================================================
