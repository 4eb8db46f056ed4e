------------------------------- MODULE MCBoot -------------------------------
\* A small deployment for TLC.
EXTENDS Boot, TLC

\* Servers and keys are told apart by nothing else; values are numbers.
Interchangeable == Permutations(Servers) \cup Permutations(Keys)

=============================================================================
