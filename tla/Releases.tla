------------------------------ MODULE Releases ------------------------------
(***************************************************************************)
(* Release versions and the list they are published in: how two versions   *)
(* compare (for the CLI's update and for the server's minimum alike), and  *)
(* what one page of the list shows a search.                               *)
(*                                                                         *)
(* A version is a record: its numbers, and the identifiers of its          *)
(* prerelease, each a number or a word.  Words are given by their rank     *)
(* among the words.                                                        *)
(***************************************************************************)
EXTENDS Integers, Sequences, FiniteSetsExt

CONSTANTS
    PerPage,        \* releases on a page (100)
    MaxPages,       \* pages that a search walks (10)
    LocalBuild      \* what a build that is no release calls itself

ASSUME ReleasesAssumption == PerPage \in Nat \ {0} /\ MaxPages \in Nat \ {0}

-----------------------------------------------------------------------------
Identifiers == [word : BOOLEAN, rank : Nat]

Versions == [core : Seq(Nat) \ {<<>>}, pre : Seq(Identifiers)]

IsRelease(v) == v # LocalBuild

Sign(n) == IF n > 0 THEN 1 ELSE IF n < 0 THEN -1 ELSE 0

\* A component that is missing reads as 0.
Part(core, i) == IF i <= Len(core) THEN core[i] ELSE 0

CoreDifferences(a, b) ==
    {i \in 1 .. Len(a) + Len(b) : Part(a, i) # Part(b, i)}

CompareCore(a, b) ==
    IF CoreDifferences(a, b) = {} THEN 0
    ELSE LET i == Min(CoreDifferences(a, b)) IN Sign(Part(a, i) - Part(b, i))

\* Numbers rank below words.
CompareIdentifiers(x, y) ==
    IF x.word = y.word THEN Sign(x.rank - y.rank) ELSE IF x.word THEN 1 ELSE -1

PreDifferences(a, b) ==
    {i \in DOMAIN a \cap DOMAIN b : CompareIdentifiers(a[i], b[i]) # 0}

\* A longer run of identifiers outranks its own prefix.
ComparePrerelease(a, b) ==
    IF PreDifferences(a, b) = {} THEN Sign(Len(a) - Len(b))
    ELSE LET i == Min(PreDifferences(a, b)) IN CompareIdentifiers(a[i], b[i])

\* A release beats its own prereleases.
Compare(a, b) ==
    LET core == CompareCore(a.core, b.core) IN
    IF core # 0 THEN core
    ELSE IF a.pre = b.pre THEN 0
    ELSE IF a.pre = <<>> THEN 1
    ELSE IF b.pre = <<>> THEN -1
    ELSE ComparePrerelease(a.pre, b.pre)

-----------------------------------------------------------------------------
\* One page of the repository's releases, newest first.
Page(list, n) ==
    SubSeq(list, (n - 1) * PerPage + 1,
           IF n * PerPage < Len(list) THEN n * PerPage ELSE Len(list))

\* A page that is not full is the last one.
Full(list, n) == Len(Page(list, n)) = PerPage

\* Where the CLI releases are on it; the server's and the drafts are dropped.
List(list, n) == {i \in DOMAIN Page(list, n) : Page(list, n)[i].tag = "cli"}

\* Latest goes by GitHub's prerelease flag, which the release workflow sets on
\* exactly the versions that have a prerelease suffix.
Stable(r) == r.version.pre = <<>>

\* MinCLIVersion: a server without a minimum, or a build that is no release, is
\* let through.
Admits(min, v) == IsRelease(min) /\ IsRelease(v) => Compare(v, min) >= 0

=============================================================================
