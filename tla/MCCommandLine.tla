---------------------------- MODULE MCCommandLine ----------------------------
\* A small instance of the command line for TLC: versions 1.9, 1.10-rc.2 and 1.10.
EXTENDS CommandLine, TLC

Version(core, pre) == [core |-> core, pre |-> pre]

Stable9 == Version(<<1, 9>>, <<>>)
Stable10 == Version(<<1, 10>>, <<>>)
Candidate == Version(<<1, 10>>, <<[word |-> TRUE, rank |-> 1], [word |-> FALSE, rank |-> 2]>>)

PublishedVersions == {Stable9, Candidate, Stable10}
InstalledVersions == {Candidate, LocalBuild}
MinimumVersions == {Stable10, LocalBuild}

\* Processes, servers and tokens are told apart by nothing else.
Interchangeable == Permutations(Procs) \cup Permutations(Bases) \cup Permutations(Tokens)

=============================================================================
