----------------------------- MODULE MCAccounts -----------------------------
(* Small instances of Accounts; accounts, requests and providers are         *)
(* interchangeable.                                                          *)
EXTENDS Accounts, TLC

Interchangeable ==
    Permutations(Users) \cup Permutations(Requests) \cup Permutations(Providers)
=============================================================================
