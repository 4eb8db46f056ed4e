----------------------------- MODULE MCPageStore -----------------------------
(* Small instances of PageStore: requests are interchangeable. *)
EXTENDS PageStore, TLC

ClientSymmetry == Permutations(Clients)
=============================================================================
