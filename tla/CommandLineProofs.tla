------------------------- MODULE CommandLineProofs -------------------------
(***************************************************************************)
(* What CommandLine promises for every number of commands, servers and     *)
(* tokens, every set of versions that may be published or installed, and   *)
(* every length of the release list: the executable survives, nobody is    *)
(* silently taken back, who is up to date is admitted, tokens go home and  *)
(* logins coexist.                                                         *)
(*                                                                         *)
(* The bounds on releases, commands and changes are used nowhere but in    *)
(* the type of what counts them.                                           *)
(***************************************************************************)
EXTENDS CommandLine, TLAPS, SequenceTheorems, FiniteSetTheorems, WellFoundedInduction

-----------------------------------------------------------------------------
(***************************************************************************)
(* Comparing versions.                                                     *)
(***************************************************************************)

\* A set of numbers that is not empty has a least one, and Min is it.
LEMMA LeastIsIn ==
    ASSUME NEW S \in SUBSET Nat, S # {}
    PROVE  Min(S) \in S
<1>. DEFINE Below == {pair \in Nat \X Nat : pair[1] < pair[2]}
<1>1. IsWellFoundedOn(Below, Nat)
  BY NatLessThanWellFounded DEF OpToRel
<1>2. PICK m \in S : \A y \in S : ~ (<<y, m>> \in Below)
  <2>. HIDE DEF Below
  <2>. QED  BY <1>1, WFMin
<1>3. ASSUME NEW y \in S
      PROVE  m <= y
  <2>1. <<y, m>> \notin Below
    BY <1>2
  <2>2. ~ (y < m)
    BY <2>1
  <2>. QED  BY <2>2
<1>. QED  BY <1>3 DEF Min

\* Numbers are a whole number each, written or not.
LEMMA PartTyped ==
    ASSUME NEW a \in Seq(Nat), NEW i \in Nat \ {0}
    PROVE  Part(a, i) \in Nat
  BY DEF Part

\* Beyond what either writes down, two versions do not differ.
LEMMA Differences ==
    ASSUME NEW a \in Seq(Nat), NEW b \in Seq(Nat)
    PROVE  CoreDifferences(a, b) = {i \in Nat \ {0} : Part(a, i) # Part(b, i)}
<1>1. ASSUME NEW i \in Nat \ {0}, Part(a, i) # Part(b, i)
      PROVE  i \in 1 .. Len(a) + Len(b)
  BY <1>1 DEF Part
<1>. QED  BY <1>1 DEF CoreDifferences

\* Two versions compare as the same numbers only if they have the same numbers.
LEMMA SameNumbers ==
    ASSUME NEW a \in Seq(Nat), NEW b \in Seq(Nat), CompareCore(a, b) = 0,
           NEW i \in Nat \ {0}
    PROVE  Part(a, i) = Part(b, i)
<1>1. SUFFICES ASSUME Part(a, i) # Part(b, i)  PROVE FALSE
  OBVIOUS
<1>2. i \in CoreDifferences(a, b) /\ CoreDifferences(a, b) \in SUBSET Nat
  BY <1>1, Differences
<1>3. PICK m \in Nat \ {0} : /\ m = Min(CoreDifferences(a, b))
                             /\ Part(a, m) # Part(b, m)
  BY <1>2, LeastIsIn, Differences
<1>4. Part(a, m) \in Nat /\ Part(b, m) \in Nat
  BY PartTyped
<1>5. CompareCore(a, b) = Sign(Part(a, m) - Part(b, m))
  BY <1>2, <1>3 DEF CompareCore
<1>. QED  BY <1>3, <1>4, <1>5 DEF Sign

\* and then either stands in for the other.
LEMMA NumbersStandIn ==
    ASSUME NEW a \in Seq(Nat), NEW b \in Seq(Nat), NEW c \in Seq(Nat),
           CompareCore(a, b) = 0
    PROVE  CompareCore(b, c) = CompareCore(a, c)
<1>1. \A i \in Nat \ {0} : Part(a, i) = Part(b, i)
  BY SameNumbers
<1>2. CoreDifferences(a, c) = CoreDifferences(b, c)
  <2>1. CoreDifferences(a, c) = {i \in Nat \ {0} : Part(a, i) # Part(c, i)}
    BY Differences
  <2>2. CoreDifferences(b, c) = {i \in Nat \ {0} : Part(b, i) # Part(c, i)}
    BY Differences
  <2>. QED  BY <1>1, <2>1, <2>2
<1>3. CASE CoreDifferences(a, c) = {}
  BY <1>2, <1>3 DEF CompareCore
<1>4. CASE CoreDifferences(a, c) # {}
  <2>1. PICK m : m = Min(CoreDifferences(a, c))
    OBVIOUS
  <2>2. m = Min(CoreDifferences(b, c))
    BY <1>2, <2>1
  <2>3. m \in Nat \ {0}
    BY <1>4, <2>1, LeastIsIn, Differences
  <2>4. /\ CompareCore(a, c) = Sign(Part(a, m) - Part(c, m))
        /\ CompareCore(b, c) = Sign(Part(b, m) - Part(c, m))
    BY <1>2, <1>4, <2>1, <2>2 DEF CompareCore
  <2>. QED  BY <1>1, <2>3, <2>4
<1>. QED  BY <1>3, <1>4

\* A comparison comes out one of three ways.
LEMMA CompareIs ==
    ASSUME NEW a, NEW b
    PROVE  Compare(a, b) \in {-1, 0, 1}
<1>1. \A n : Sign(n) \in {-1, 0, 1}
  BY DEF Sign
<1>2. CompareCore(a.core, b.core) \in {-1, 0, 1}
  BY <1>1 DEF CompareCore
<1>3. \A x, y : CompareIdentifiers(x, y) \in {-1, 0, 1}
  BY <1>1 DEF CompareIdentifiers
<1>4. ComparePrerelease(a.pre, b.pre) \in {-1, 0, 1}
  BY <1>1, <1>3 DEF ComparePrerelease
<1>. QED  BY <1>2, <1>4 DEF Compare

\* A version is as new as itself.
LEMMA AsNewAsItself ==
    ASSUME NEW v
    PROVE  Compare(v, v) = 0
<1>1. CoreDifferences(v.core, v.core) = {}
  BY DEF CoreDifferences
<1>. QED  BY <1>1 DEF Compare, CompareCore

\* Whoever compares as the same as a stable release is no older than what that
\* release is no older than.
LEMMA AtLeastAsNew ==
    ASSUME NEW a \in Versions, NEW b \in Versions, NEW c \in Versions,
           a.pre = <<>>, c.pre = <<>>, Compare(a, b) = 0, Compare(a, c) >= 0
    PROVE  Compare(b, c) >= 0
<1>1. a.core \in Seq(Nat) /\ b.core \in Seq(Nat) /\ c.core \in Seq(Nat)
  BY DEF Versions
<1>2. CompareCore(a.core, b.core) = 0 /\ b.pre = <<>>
  BY DEF Compare
<1>3. CompareCore(b.core, c.core) = CompareCore(a.core, c.core)
  BY <1>1, <1>2, NumbersStandIn
<1>. QED  BY <1>2, <1>3 DEF Compare

\* A page shows the releases after those of the pages before it, as many as it
\* holds, each at its place.
LEMMA PageShows ==
    ASSUME NEW S, NEW list \in Seq(S), NEW n \in Nat \ {0}
    PROVE  \E before \in Nat :
             /\ before = (n - 1) * PerPage /\ before + PerPage = n * PerPage
             /\ Len(Page(list, n)) \in Nat /\ DOMAIN Page(list, n) = 1 .. Len(Page(list, n))
             /\ \A i \in DOMAIN Page(list, n) :
                  i <= PerPage /\ before + i \in DOMAIN list /\ Page(list, n)[i] = list[before + i]
             /\ \A k \in DOMAIN list :
                  before < k /\ k <= before + PerPage => k - before \in DOMAIN Page(list, n)
<1>1. PerPage \in Nat \ {0}
  BY ReleasesAssumption
<1>2. PICK before \in Nat, after \in Nat :
        before = (n - 1) * PerPage /\ after = n * PerPage /\ before + PerPage = after
  BY <1>1
<1>3. PICK end \in Nat : end = IF after < Len(list) THEN after ELSE Len(list)
  OBVIOUS
<1>4. Page(list, n) = SubSeq(list, before + 1, end)
  BY <1>2, <1>3, Zenon DEF Page
<1>5. /\ Page(list, n) \in Seq(S)
      /\ Len(Page(list, n)) = IF before + 1 <= end THEN end - (before + 1) + 1 ELSE 0
      /\ \A i \in 1 .. end - (before + 1) + 1 : Page(list, n)[i] = list[before + 1 + i - 1]
  <2>1. \A i \in before + 1 .. end : list[i] \in S
    BY <1>3
  <2>. QED  BY <1>4, <2>1, SubSeqProperties
<1>6. PICK shown \in Seq(S) : shown = Page(list, n)
  BY <1>5
<1>7. /\ before \in Nat /\ end \in Nat /\ end <= Len(list) /\ end <= after
      /\ Len(list) <= end \/ after <= end
  BY <1>3
<1>8. ASSUME NEW i \in DOMAIN shown
      PROVE  i <= PerPage /\ before + i \in DOMAIN list /\ shown[i] = list[before + i]
  <2>1. i \in 1 .. Len(shown)
    OBVIOUS
  <2>2. i \in 1 .. end - (before + 1) + 1
    BY <1>5, <1>6, <1>7, <2>1
  <2>3. i \in Nat /\ i <= end - before
    BY <1>7, <2>2
  <2>4. i <= PerPage
    BY <1>1, <1>2, <1>7, <2>3
  <2>. QED  BY <1>5, <1>6, <1>7, <2>2, <2>4
<1>9. ASSUME NEW k \in DOMAIN list, before < k, k <= before + PerPage
      PROVE  k - before \in DOMAIN shown
  <2>1. k \in Nat /\ k <= end
    BY <1>2, <1>7, <1>9
  <2>2. k - before \in 1 .. Len(shown)
    BY <1>5, <1>6, <1>7, <1>9, <2>1
  <2>. QED  BY <2>2
<1>10. before = (n - 1) * PerPage /\ before + PerPage = n * PerPage
  BY <1>2, Zenon
<1>11. Len(shown) \in Nat /\ DOMAIN shown = 1 .. Len(shown)
  OBVIOUS
<1>. QED  BY <1>6, <1>8, <1>9, <1>10, <1>11, Zenon

-----------------------------------------------------------------------------
(***************************************************************************)
(* The invariant: what each variable holds, and what a process at each     *)
(* stage has behind it.                                                    *)
(***************************************************************************)
Release == [tag : {"cli"}, version : Published] \cup [tag : {"server"}]

UpdateState ==
    [at : Stages, runs : Whole \cup {LocalBuild}, image : {"path", "old", "gone"},
     force : BOOLEAN, page : 1 .. MaxPages, want : Published \cup {LocalBuild},
     data : Contents, overtaken : BOOLEAN, known : SUBSET Published]

\* From which stage on the download has been verified, and the version settled.
Verified == {"replace", "copy", "stat", "remove", "aside", "in"}
Settled == {"find", "fetch"} \cup Verified

\* What was settled on is a published version, and what was verified is it.
Genuine ==
    \A p \in Procs :
      /\ update[p].at \in Settled => update[p].want \in Published
      /\ update[p].at \in Verified => update[p].data = update[p].want

UpdatesTyped ==
    /\ platform \in Platforms
    /\ releases \in Seq(Release)
    /\ exe \in Contents /\ old \in Contents /\ last \in Whole
    /\ update \in [Procs -> UpdateState]
    /\ ordered \in BOOLEAN /\ fellBack \in BOOLEAN
    /\ copies \subseteq Procs
    /\ Genuine

\* A command that ends, or whose process gives up, away from the executable.
Leave(p) ==
    /\ update[p].at \notin {"idle", "copy"}
    /\ update' = Ended(p)
    /\ UNCHANGED <<platform, releases, exe, old, ordered, copies, fellBack, last, assured>>

\* A command that starts; one that updates runs a release, or was forced.
Start(p) ==
    \E stage \in {"search", "busy"}, force \in BOOLEAN :
      /\ stage = "search" => IsRelease(exe) \/ force
      /\ Launch(p, stage, force)

Move(p) ==
    \/ Start(p) \/ Leave(p) \/ SearchPage(p) \/ Fetch(p)
    \/ RenameOver(p) \/ OpenCopy(p) \/ FinishCopy(p)
    \/ StatExe(p) \/ RemoveOld(p) \/ MoveAside(p) \/ MoveIn(p) \/ KillUpdate(p)

\* What the versions held and the processes are.
LEMMA Kinds ==
    /\ Published \subseteq Whole /\ Whole \subseteq Contents
    /\ {Garbage, Torn, Missing} \subseteq Contents
    /\ Whole \cap {Garbage, Torn, Missing} = {}
    /\ Garbage # Torn /\ Garbage # Missing /\ Torn # Missing
    /\ LocalBuild \notin Published
    /\ Published \subseteq Versions /\ Whole \subseteq Versions \cup {LocalBuild}
    /\ Platforms \subseteq {"unix", "windows"}
    /\ 1 \in 1 .. MaxPages
  BY SelfUpdateAssumption, ReleasesAssumption DEF Whole, Contents

LEMMA NoUpdateTyped == NoUpdate \in UpdateState
  BY Kinds DEF NoUpdate, UpdateState, Stages

\* The releases a search may decide on.
LEMMA ListedIsPublished ==
    ASSUME UpdatesTyped, NEW p \in Procs,
           NEW i \in List(releases, update[p].page)
    PROVE  Page(releases, update[p].page)[i].version \in Published
<1>1. update[p].page \in Nat \ {0}
  BY DEF UpdatesTyped, UpdateState
<1>2. PICK page \in Nat \ {0} : page = update[p].page
  BY <1>1
<1>3. releases \in Seq(Release)
  BY DEF UpdatesTyped
<1>4. PICK k \in DOMAIN releases : Page(releases, page)[i] = releases[k]
  <2>1. i \in DOMAIN Page(releases, page)
    BY <1>2 DEF List
  <2>2. \A j \in DOMAIN Page(releases, page) :
          \E k \in DOMAIN releases : Page(releases, page)[j] = releases[k]
    BY <1>3, PageShows
  <2>. QED  BY <2>1, <2>2
<1>5. releases[k] \in Release /\ releases[k].tag = "cli"
  BY <1>2, <1>3, <1>4 DEF List
<1>. QED  BY <1>2, <1>4, <1>5 DEF Release

\* What a process that begins, ends or is overtaken is.
LEMMA EndedTyped ==
    ASSUME UpdatesTyped, NEW p \in Procs
    PROVE  Ended(p) \in [Procs -> UpdateState]
  BY NoUpdateTyped DEF UpdatesTyped, Ended

LEMMA StagesAre ==
    /\ "idle" \in Stages /\ "busy" \in Stages /\ "search" \in Stages
    /\ "find" \in Stages /\ "fetch" \in Stages /\ "replace" \in Stages
    /\ "copy" \in Stages /\ "stat" \in Stages /\ "remove" \in Stages
    /\ "aside" \in Stages /\ "in" \in Stages
  BY DEF Stages

LEMMA GoesOnTyped ==
    ASSUME NEW r \in UpdateState
    PROVE  /\ \A stage \in Stages :
                /\ [r EXCEPT !.at = stage] \in UpdateState
                /\ [r EXCEPT !.at = stage, !.page = 1] \in UpdateState
                /\ \A want \in Published :
                     [r EXCEPT !.at = stage, !.page = 1, !.want = want] \in UpdateState
                /\ \A data \in Contents :
                     [r EXCEPT !.at = stage, !.data = data] \in UpdateState
                /\ [r EXCEPT !.image = "old", !.at = stage] \in UpdateState
           /\ \A page \in 1 .. MaxPages : [r EXCEPT !.page = page] \in UpdateState
           /\ [r EXCEPT !.image = "old"] \in UpdateState
<1>1. 1 \in 1 .. MaxPages
  BY Kinds
<1>. QED  BY ONLY <1>1, r \in UpdateState DEF UpdateState

LEMMA OvertakingTyped ==
    ASSUME NEW p \in Procs, NEW after \in [Procs -> UpdateState]
    PROVE  /\ Overtaking(p, after) \in [Procs -> UpdateState]
           /\ \A q \in Procs :
                /\ Overtaking(p, after)[q].at = after[q].at
                /\ Overtaking(p, after)[q].want = after[q].want
                /\ Overtaking(p, after)[q].data = after[q].data
                /\ Overtaking(p, after)[q].runs = after[q].runs
                /\ Overtaking(p, after)[q].image = after[q].image
                /\ Overtaking(p, after)[q].force = after[q].force
                /\ Overtaking(p, after)[q].page = after[q].page
                /\ Overtaking(p, after)[q].known = after[q].known
                /\ q # p /\ after[q].at # "idle" => Overtaking(p, after)[q].overtaken
                /\ q = p \/ after[q].at = "idle" => Overtaking(p, after)[q] = after[q]
  BY DEF Overtaking, UpdateState

\* One process moves on, as it may.
LEMMA OneMoves ==
    ASSUME UpdatesTyped, NEW p \in Procs, NEW r \in UpdateState,
           update' = [update EXCEPT ![p] = r],
           r.at \in Settled => r.want \in Published,
           r.at \in Verified => r.data = r.want
    PROVE  update' \in [Procs -> UpdateState] /\ Genuine'
  BY DEF UpdatesTyped, Genuine

\* Another one replaces or tears the executable.
LEMMA OthersOvertaken ==
    ASSUME UpdatesTyped, NEW p \in Procs, NEW r \in UpdateState,
           update' = Overtaking(p, [update EXCEPT ![p] = r]),
           r.at \in Settled => r.want \in Published,
           r.at \in Verified => r.data = r.want
    PROVE  update' \in [Procs -> UpdateState] /\ Genuine'
<1>1. [update EXCEPT ![p] = r] \in [Procs -> UpdateState]
  BY DEF UpdatesTyped
<1>2. PICK after \in [Procs -> UpdateState] : after = [update EXCEPT ![p] = r]
  BY <1>1
<1>3. update' = Overtaking(p, after)
  BY <1>2
<1>4. \A q \in Procs : /\ after[q].at \in Settled => after[q].want \in Published
                       /\ after[q].at \in Verified => after[q].data = after[q].want
  BY <1>2 DEF UpdatesTyped, Genuine
<1>5. /\ update' \in [Procs -> UpdateState]
      /\ \A q \in Procs : /\ update'[q].at = after[q].at
                           /\ update'[q].want = after[q].want
                           /\ update'[q].data = after[q].data
  <2>1. /\ Overtaking(p, after) \in [Procs -> UpdateState]
        /\ \A q \in Procs : /\ Overtaking(p, after)[q].at = after[q].at
                             /\ Overtaking(p, after)[q].want = after[q].want
                             /\ Overtaking(p, after)[q].data = after[q].data
    BY OvertakingTyped, Zenon
  <2>. QED  BY <1>3, <2>1, Zenon
<1>. QED  BY <1>4, <1>5 DEF Genuine

LEMMA StableVersionsPublished ==
    ASSUME UpdatesTyped
    PROVE  StableVersions \in SUBSET Published
  BY DEF UpdatesTyped, StableVersions, Release, Stable

LEMMA MoveKeepsTypes ==
    ASSUME UpdatesTyped, NEW p \in Procs, Move(p)
    PROVE  UpdatesTyped'
<1>. USE Kinds DEF UpdatesTyped
<1>1. CASE Start(p)
  <2>1. PICK stage \in {"search", "busy"}, force \in BOOLEAN : Launch(p, stage, force)
    BY <1>1 DEF Start
  <2>2. PICK known \in SUBSET Published :
          known = IF stage = "search" THEN StableVersions ELSE {}
    BY StableVersionsPublished
  <2>3. update' = [update EXCEPT ![p] =
                    [NoUpdate EXCEPT !.at = stage, !.runs = exe, !.image = "path",
                                     !.force = force, !.known = known]]
    BY <2>1, <2>2 DEF Launch
  <2>4. /\ exe \in Whole
        /\ UNCHANGED <<platform, releases, exe, old, ordered, copies, fellBack, last, assured>>
    BY <2>1 DEF Launch
  <2>5. [NoUpdate EXCEPT !.at = stage, !.runs = exe, !.image = "path",
                         !.force = force, !.known = known] \in UpdateState
    BY <2>4 DEF NoUpdate, UpdateState, Stages
  <2>6. update' \in [Procs -> UpdateState]
    BY <2>3, <2>5
  <2>7. Genuine'
    BY <2>3 DEF Genuine, Settled, Verified, UpdateState, NoUpdate
  <2>. QED  BY <2>4, <2>6, <2>7
<1>2. CASE Leave(p)
  BY <1>2, EndedTyped DEF Leave, Ended, Genuine, Settled, Verified, NoUpdate
<1>3. CASE SearchPage(p)
  <2>1. UNCHANGED <<platform, releases, exe, old, ordered, copies, fellBack, last>>
    BY <1>3 DEF SearchPage
  <2>2. update[p].at \in {"search", "find"}
    BY <1>3 DEF SearchPage
  <2>3. \/ update' = Ended(p)
        \/ /\ update[p].at = "find"
           /\ update' = To(p, "fetch")
        \/ \E latest \in Published :
             update' = [update EXCEPT ![p].at = "find", ![p].page = 1, ![p].want = latest]
        \/ /\ update[p].page < MaxPages
           /\ update' = [update EXCEPT ![p].page = update[p].page + 1]
    BY <1>3, <2>2, ListedIsPublished DEF SearchPage, Decided
  <2>4. update' \in [Procs -> UpdateState] /\ Genuine'
    <3>1. CASE update' = Ended(p)
      BY <3>1, EndedTyped DEF Ended, Genuine, Settled, Verified, NoUpdate
    <3>2. CASE update[p].at = "find" /\ update' = To(p, "fetch")
      <4>1. PICK r \in UpdateState :
              /\ r = [update[p] EXCEPT !.at = "fetch", !.page = 1]
              /\ r.at = "fetch" /\ r.want = update[p].want
        <5>1. update[p] \in UpdateState
          OBVIOUS
        <5>2. [update[p] EXCEPT !.at = "fetch", !.page = 1] \in UpdateState
          BY <5>1, GoesOnTyped, StagesAre, Zenon
        <5>. QED  BY <5>1, <5>2 DEF UpdateState
      <4>2. update' = [update EXCEPT ![p] = r]
        BY <3>2, <4>1 DEF To, UpdateState
      <4>3. update[p].want \in Published
        BY <3>2 DEF Genuine, Settled
      <4>. QED  BY <4>1, <4>2, <4>3, OneMoves DEF Verified
    <3>3. ASSUME NEW latest \in Published,
                 update' = [update EXCEPT ![p].at = "find", ![p].page = 1, ![p].want = latest]
          PROVE  update' \in [Procs -> UpdateState] /\ Genuine'
      <4>1. PICK r \in UpdateState :
              /\ r = [update[p] EXCEPT !.at = "find", !.page = 1, !.want = latest]
              /\ r.at = "find" /\ r.want = latest
        <5>1. update[p] \in UpdateState
          OBVIOUS
        <5>2. [update[p] EXCEPT !.at = "find", !.page = 1, !.want = latest] \in UpdateState
          BY <5>1, GoesOnTyped, StagesAre, Zenon
        <5>. QED  BY <5>1, <5>2 DEF UpdateState
      <4>2. update' = [update EXCEPT ![p] = r]
        BY <3>3, <4>1 DEF UpdateState
      <4>. QED  BY <4>1, <4>2, OneMoves DEF Verified
    <3>4. CASE /\ update[p].page < MaxPages
               /\ update' = [update EXCEPT ![p].page = update[p].page + 1]
      <4>1. update[p].page + 1 \in 1 .. MaxPages
        BY <3>4, ReleasesAssumption DEF UpdateState
      <4>2. PICK r \in UpdateState :
              /\ r = [update[p] EXCEPT !.page = update[p].page + 1]
              /\ r.at = update[p].at /\ r.want = update[p].want /\ r.data = update[p].data
        <5>1. update[p] \in UpdateState
          OBVIOUS
        <5>2. [update[p] EXCEPT !.page = update[p].page + 1] \in UpdateState
          BY <5>1, <4>1, GoesOnTyped, Zenon
        <5>. QED  BY <5>1, <5>2 DEF UpdateState
      <4>3. update' = [update EXCEPT ![p] = r]
        BY <3>4, <4>2 DEF UpdateState
      <4>. QED  BY <4>2, <4>3, OneMoves DEF Genuine
    <3>. QED  BY <2>3, <3>1, <3>2, <3>3, <3>4
  <2>. QED  BY <2>1, <2>4
<1>4. CASE Fetch(p)
  <2>1. /\ UNCHANGED <<platform, releases, exe, old, ordered, copies, fellBack, last>>
        /\ update[p].at = "fetch"
    BY <1>4 DEF Fetch
  <2>2. PICK stage \in {"stat", "replace"} :
          update' = [update EXCEPT ![p].at = stage, ![p].data = update[p].want]
    BY <1>4 DEF Fetch, VerifySHA256, ChecksumFor, FetchText
  <2>3. update[p].want \in Contents
    BY <2>1 DEF Genuine, Settled
  <2>4. PICK r \in UpdateState :
          /\ r = [update[p] EXCEPT !.at = stage, !.data = update[p].want]
          /\ r.data = update[p].want /\ r.want = update[p].want
    <3>1. update[p] \in UpdateState
      OBVIOUS
    <3>2. [update[p] EXCEPT !.at = stage, !.data = update[p].want] \in UpdateState
      BY <3>1, <2>3, GoesOnTyped, StagesAre, Zenon
    <3>. QED  BY <3>1, <3>2 DEF UpdateState
  <2>5. update' = [update EXCEPT ![p] = r]
    BY <2>2, <2>4 DEF UpdateState
  <2>6. update[p].want \in Published
    BY <2>1 DEF Genuine, Settled
  <2>. QED  BY <2>1, <2>4, <2>5, <2>6, OneMoves
<1>5. CASE RenameOver(p)
  <2>1. update' = Overtaking(p, [update EXCEPT ![p] = NoUpdate])
    BY <1>5 DEF RenameOver, Ended
  <2>2. update' \in [Procs -> UpdateState] /\ Genuine'
    BY <2>1, NoUpdateTyped, OthersOvertaken DEF NoUpdate, Settled, Verified
  <2>3. exe' \in Whole /\ last' \in Whole
    BY <1>5 DEF RenameOver, Genuine, Settled, Verified
  <2>. QED  BY <1>5, <2>2, <2>3 DEF RenameOver
<1>6. CASE OpenCopy(p)
  <2>1. PICK r \in UpdateState :
          /\ r = [update[p] EXCEPT !.at = "copy"]
          /\ r.data = update[p].data /\ r.want = update[p].want
    <3>1. update[p] \in UpdateState
      OBVIOUS
    <3>2. [update[p] EXCEPT !.at = "copy"] \in UpdateState
      BY <3>1, GoesOnTyped, StagesAre, Zenon
    <3>. QED  BY <3>1, <3>2 DEF UpdateState
  <2>2. [update EXCEPT ![p].at = "copy"] = [update EXCEPT ![p] = r]
    BY <2>1 DEF UpdateState
  <2>3. update' = Overtaking(p, [update EXCEPT ![p] = r])
    BY <1>6, <2>2, Zenon DEF OpenCopy
  <2>4. update[p].at = "replace"
    BY <1>6 DEF OpenCopy
  <2>5. update[p].want \in Published /\ update[p].data = update[p].want
    BY <2>4 DEF Genuine, Settled, Verified
  <2>6. update' \in [Procs -> UpdateState] /\ Genuine'
    BY <2>1, <2>3, <2>5, OthersOvertaken
  <2>. QED  BY <1>6, <2>6 DEF OpenCopy
<1>7. CASE FinishCopy(p)
  <2>1. update' = Overtaking(p, [update EXCEPT ![p] = NoUpdate])
    BY <1>7 DEF FinishCopy, Ended
  <2>2. update' \in [Procs -> UpdateState] /\ Genuine'
    BY <2>1, NoUpdateTyped, OthersOvertaken DEF NoUpdate, Settled, Verified
  <2>3. exe' \in Contents /\ last' \in Whole
    BY <1>7 DEF FinishCopy, Genuine, Settled, Verified
  <2>. QED  BY <1>7, <2>2, <2>3 DEF FinishCopy
<1>8. CASE StatExe(p)
  <2>1. PICK stage \in {"in", "remove"} : update' = To(p, stage)
    BY <1>8 DEF StatExe
  <2>2. PICK r \in UpdateState :
          /\ r = [update[p] EXCEPT !.at = stage, !.page = 1]
          /\ r.data = update[p].data /\ r.want = update[p].want
    <3>1. update[p] \in UpdateState
      OBVIOUS
    <3>2. [update[p] EXCEPT !.at = stage, !.page = 1] \in UpdateState
      BY <3>1, GoesOnTyped, StagesAre, Zenon
    <3>. QED  BY <3>1, <3>2 DEF UpdateState
  <2>3. update' = [update EXCEPT ![p] = r]
    BY <2>1, <2>2 DEF To, UpdateState
  <2>4. update[p].want \in Published /\ update[p].data = update[p].want
    BY <1>8 DEF StatExe, Genuine, Settled, Verified
  <2>5. update' \in [Procs -> UpdateState] /\ Genuine'
    BY <2>2, <2>3, <2>4, OneMoves
  <2>. QED  BY <1>8, <2>5 DEF StatExe
<1>9. CASE RemoveOld(p)
  <2>1. PICK r \in UpdateState :
          /\ r = [update[p] EXCEPT !.at = "aside", !.page = 1]
          /\ r.data = update[p].data /\ r.want = update[p].want
    <3>1. update[p] \in UpdateState
      OBVIOUS
    <3>2. [update[p] EXCEPT !.at = "aside", !.page = 1] \in UpdateState
      BY <3>1, GoesOnTyped, StagesAre, Zenon
    <3>. QED  BY <3>1, <3>2 DEF UpdateState
  <2>2. update' = [update EXCEPT ![p] = r]
    BY <1>9, <2>1 DEF RemoveOld, To, UpdateState
  <2>3. update[p].want \in Published /\ update[p].data = update[p].want
    BY <1>9 DEF RemoveOld, Genuine, Settled, Verified
  <2>4. update' \in [Procs -> UpdateState] /\ Genuine'
    BY <2>1, <2>2, <2>3, OneMoves
  <2>. QED  BY <1>9, <2>4 DEF RemoveOld
<1>10. CASE MoveAside(p)
  <2>1. update' \in [Procs -> UpdateState]
    <3>1. ASSUME NEW q \in Procs
          PROVE  /\ [update[q] EXCEPT !.image = "old"] \in UpdateState
                 /\ [update[q] EXCEPT !.image = "old", !.at = "in"] \in UpdateState
                 /\ [update[q] EXCEPT !.at = "in"] \in UpdateState
      BY GoesOnTyped, StagesAre, Zenon
    <3>2. update' = [q \in Procs |->
                      LET moved == IF update[q].image = "path"
                                   THEN [update[q] EXCEPT !.image = "old"] ELSE update[q] IN
                      IF q = p THEN [moved EXCEPT !.at = "in"] ELSE moved]
      BY <1>10 DEF MoveAside
    <3>. QED  BY <3>1, <3>2
  <2>2. Genuine'
    BY <1>10 DEF MoveAside, Genuine, Settled, Verified, UpdateState
  <2>. QED  BY <1>10, <2>1, <2>2 DEF MoveAside
<1>11. CASE MoveIn(p)
  <2>1. update' = Overtaking(p, [update EXCEPT ![p] = NoUpdate])
    BY <1>11 DEF MoveIn, Ended
  <2>2. update' \in [Procs -> UpdateState] /\ Genuine'
    BY <2>1, NoUpdateTyped, OthersOvertaken DEF NoUpdate, Settled, Verified
  <2>3. exe' \in Whole /\ last' \in Whole
    BY <1>11 DEF MoveIn, Genuine, Settled, Verified
  <2>. QED  BY <1>11, <2>2, <2>3 DEF MoveIn
<1>12. CASE KillUpdate(p)
  BY <1>12, EndedTyped DEF KillUpdate, Ended, Genuine, Settled, Verified, NoUpdate
<1>. QED  BY <1>1, <1>2, <1>3, <1>4, <1>5, <1>6, <1>7, <1>8, <1>9, <1>10, <1>11, <1>12 DEF Move

LEMMA PublicationKeepsTypes ==
    ASSUME UpdatesTyped, Publication
    PROVE  UpdatesTyped'
<1>1. ASSUME NEW r \in Release
      PROVE  <<r>> \o releases \in Seq(Release)
  BY DEF UpdatesTyped
<1>2. CASE PublishServer
  <2>1. releases' \in Seq(Release)
    BY <1>1, <1>2 DEF PublishServer, Release
  <2>. QED  BY <1>2, <2>1 DEF PublishServer, UpdatesTyped, Genuine
<1>3. CASE Retract
  <2>1. releases' \in Seq(Release)
    BY <1>3 DEF Retract, UpdatesTyped
  <2>. QED  BY <1>3, <2>1 DEF Retract, UpdatesTyped, Genuine
<1>4. ASSUME NEW v \in Published, PublishCLI(v)
      PROVE  UpdatesTyped'
  <2>1. releases' \in Seq(Release)
    BY <1>1, <1>4 DEF PublishCLI, Release
  <2>2. ordered' \in BOOLEAN
    BY <1>4 DEF PublishCLI
  <2>. QED  BY <1>4, <2>1, <2>2 DEF PublishCLI, UpdatesTyped, Genuine
<1>. QED  BY <1>2, <1>3, <1>4 DEF Publication

-----------------------------------------------------------------------------
(***************************************************************************)
(* The credential store: every entry, in the file and in every copy that   *)
(* is about to be saved, holds a token that the entry's server issued.     *)
(***************************************************************************)
SessionState ==
    [at : {"idle", "code", "approval", "load", "save", "confirm", "resolve", "send"},
     cmd : {"login", "logout", "call"}, base : Bases \cup {Nothing}, explicit : BOOLEAN,
     token : Tokens \cup {EnvToken, Nothing}, stored : BOOLEAN, copy : Config,
     overtaken : BOOLEAN]

\* by says who issued each token.
Home(cfg, by) ==
    \A b \in Bases : cfg.tokens[b] # Nothing => by[cfg.tokens[b].token] = cfg.tokens[b].base

\* A command knows its server; a token that it will store or send from the
\* store is that server's; what it will save differs from the file at that server
\* alone, unless the file has changed since.
Sound(s, by, cfg) ==
    /\ s.at # "idle" => s.base \in Bases
    /\ s.at \in {"code", "approval", "confirm"} => s.cmd = "login"
    /\ s.at \in {"load", "save", "confirm"} /\ s.cmd = "login" =>
         s.token \in Tokens /\ by[s.token] = s.base
    /\ s.stored => s.at = "send" /\ s.token \in Tokens /\ by[s.token] = s.base
    /\ s.at = "save" => Home(s.copy, by)
    /\ s.at = "save" /\ ~ s.overtaken =>
         \A b \in Bases \ {s.base} : s.copy.tokens[b] = cfg.tokens[b]

ConfigInv ==
    /\ file \in Config
    /\ minimum \in [Bases -> Minima]
    /\ session \in [Commands -> SessionState]
    /\ issuer \in [Tokens -> Bases \cup {Nothing}]
    /\ sent \in SUBSET (Tokens \X Bases)
    /\ Home(file, issuer)
    /\ \A p \in Commands : Sound(session[p], issuer, file)
    /\ TokensGoHome

LEMMA Placeless == Nothing \notin Bases /\ Nothing \notin Tokens /\ EnvToken \notin Tokens
  BY CLIConfigAssumption

\* An entry is never the mark for none.
LEMMA EntryIsSomething ==
    ASSUME NEW cfg \in Config, NEW b \in Bases, cfg.tokens[b] # Nothing
    PROVE  /\ cfg.tokens[b] \in Entry
           /\ cfg.tokens[b].token \in Tokens /\ cfg.tokens[b].base \in Bases
<1>1. cfg.tokens[b] \in Entry
  BY DEF Config
<1>. QED  BY <1>1 DEF Entry

LEMMA EmptyTyped == Empty \in Config /\ \A b \in Bases : Empty.tokens[b] = Nothing
  BY DEF Empty, Config

LEMMA SoleBaseTyped ==
    ASSUME NEW cfg
    PROVE  SoleBase(cfg) \in Bases \cup {Nothing}
<1>1. CASE Cardinality(LoggedIn(cfg)) = 1
  <2>1. LoggedIn(cfg) # {}
    BY <1>1, FS_EmptySet
  <2>2. PICK b \in Bases : b \in LoggedIn(cfg)
    BY <2>1 DEF LoggedIn
  <2>. QED  BY <2>2, <1>1 DEF SoleBase
<1>2. CASE Cardinality(LoggedIn(cfg)) # 1
  BY <1>2 DEF SoleBase
<1>. QED  BY <1>1, <1>2

LEMMA WithLoginIs ==
    ASSUME NEW cfg \in Config, NEW b \in Bases, NEW t \in Tokens
    PROVE  /\ WithLogin(cfg, b, t) \in Config
           /\ WithLogin(cfg, b, t).tokens[b].token = t
           /\ WithLogin(cfg, b, t).tokens[b].base = b
           /\ \A c \in Bases \ {b} : WithLogin(cfg, b, t).tokens[c] = cfg.tokens[c]
<1>1. [token |-> t, base |-> b] \in Entry
  BY DEF Entry
<1>2. cfg.tokens \in [Bases -> Entry \cup {Nothing}]
  BY DEF Config
<1>3. [cfg.tokens EXCEPT ![b] = [token |-> t, base |-> b]] \in [Bases -> Entry \cup {Nothing}]
  BY <1>1, <1>2
<1>. QED  BY <1>2, <1>3 DEF WithLogin, Config

LEMMA WithoutLoginIs ==
    ASSUME NEW cfg \in Config, NEW b \in Bases
    PROVE  /\ WithoutLogin(cfg, b) \in Config
           /\ WithoutLogin(cfg, b).tokens[b] = Nothing
           /\ \A c \in Bases \ {b} : WithoutLogin(cfg, b).tokens[c] = cfg.tokens[c]
<1>1. PICK left \in Config : /\ left = [cfg EXCEPT !.tokens[b] = Nothing]
                            /\ left.tokens[b] = Nothing
                            /\ \A c \in Bases \ {b} : left.tokens[c] = cfg.tokens[c]
  <2>1. PICK tokens \in [Bases -> Entry \cup {Nothing}] :
          tokens = [cfg.tokens EXCEPT ![b] = Nothing]
    BY DEF Config
  <2>2. [cfg EXCEPT !.tokens[b] = Nothing] = [cfg EXCEPT !.tokens = tokens]
    BY <2>1 DEF Config
  <2>3. [cfg EXCEPT !.tokens = tokens] \in Config /\ [cfg EXCEPT !.tokens = tokens].tokens = tokens
    BY DEF Config
  <2>4. tokens[b] = Nothing /\ \A c \in Bases \ {b} : tokens[c] = cfg.tokens[c]
    BY <2>1 DEF Config
  <2>. QED  BY <2>2, <2>3, <2>4, Zenon
<1>2. WithoutLogin(cfg, b) = IF cfg.default = b THEN [left EXCEPT !.default = SoleBase(left)]
                                                ELSE left
  BY <1>1, Zenon DEF WithoutLogin
<1>3. SoleBase(left) \in Bases \cup {Nothing}
  BY SoleBaseTyped
<1>4. /\ [left EXCEPT !.default = SoleBase(left)] \in Config
      /\ [left EXCEPT !.default = SoleBase(left)].tokens = left.tokens
  BY <1>3 DEF Config
<1>. QED  BY <1>1, <1>2, <1>4, Zenon

\* Both changes leave tokens where they belong.
LEMMA WithLoginHome ==
    ASSUME NEW cfg \in Config, NEW b \in Bases, NEW t \in Tokens, NEW by,
           Home(cfg, by), by[t] = b
    PROVE  Home(WithLogin(cfg, b, t), by)
  BY WithLoginIs DEF Home

LEMMA WithoutLoginHome ==
    ASSUME NEW cfg \in Config, NEW b \in Bases, NEW by, Home(cfg, by)
    PROVE  Home(WithoutLogin(cfg, b), by)
  BY WithoutLoginIs DEF Home

\* A token that nobody had issued is in no entry, so issuing it moves none.
LEMMA HomeStays ==
    ASSUME NEW cfg \in Config, NEW by \in [Tokens -> Bases \cup {Nothing}],
           NEW t \in Tokens, NEW b \in Bases, by[t] = Nothing, Home(cfg, by)
    PROVE  Home(cfg, [by EXCEPT ![t] = b])
<1>1. ASSUME NEW c \in Bases, cfg.tokens[c] # Nothing
      PROVE  [by EXCEPT ![t] = b][cfg.tokens[c].token] = cfg.tokens[c].base
  <2>1. cfg.tokens[c].token \in Tokens /\ cfg.tokens[c].base \in Bases
    BY <1>1, EntryIsSomething
  <2>2. by[cfg.tokens[c].token] = cfg.tokens[c].base
    BY <1>1 DEF Home
  <2>. QED  BY <2>1, <2>2, Placeless
<1>. QED  BY <1>1 DEF Home

LEMMA SoundStays ==
    ASSUME NEW s \in SessionState, NEW cfg, NEW by \in [Tokens -> Bases \cup {Nothing}],
           NEW t \in Tokens, NEW b \in Bases, by[t] = Nothing, Sound(s, by, cfg)
    PROVE  Sound(s, [by EXCEPT ![t] = b], cfg)
<1>1. s.at = "save" => Home(s.copy, [by EXCEPT ![t] = b])
  BY HomeStays DEF Sound, SessionState
<1>2. ASSUME s.token \in Tokens, s.base \in Bases, by[s.token] = s.base
      PROVE  [by EXCEPT ![t] = b][s.token] = s.base
  BY <1>2, Placeless
<1>. QED  BY <1>1, <1>2 DEF Sound

\* What becomes of a command's record is one again.
LEMMA SessionGoesOn ==
    ASSUME NEW s \in SessionState
    PROVE  /\ [s EXCEPT !.at = "approval"] \in SessionState
           /\ \A t \in Tokens : [s EXCEPT !.at = "load", !.token = t] \in SessionState
           /\ \A cfg \in Config :
                [s EXCEPT !.at = "save", !.overtaken = FALSE, !.copy = cfg] \in SessionState
           /\ [s EXCEPT !.overtaken = TRUE] \in SessionState
           /\ [s EXCEPT !.at = "confirm", !.copy = Empty] \in SessionState
           /\ [s EXCEPT !.at = "send", !.token = EnvToken] \in SessionState
           /\ \A t \in Tokens : [s EXCEPT !.at = "send", !.stored = TRUE, !.token = t] \in SessionState
<1>1. Empty \in Config
  BY EmptyTyped
<1>. QED  BY ONLY <1>1, s \in SessionState DEF SessionState

LEMMA NoSessionTyped ==
    /\ NoSession \in SessionState
    /\ \A stage \in {"code", "load", "resolve"}, cmd \in {"login", "logout", "call"},
          b \in Bases, explicit \in BOOLEAN :
         /\ [NoSession EXCEPT !.at = stage, !.cmd = cmd, !.base = b] \in SessionState
         /\ [NoSession EXCEPT !.at = stage, !.cmd = cmd, !.base = b, !.explicit = explicit] \in SessionState
<1>1. Empty \in Config
  BY EmptyTyped
<1>2. NoSession \in SessionState
  BY ONLY <1>1 DEF SessionState, NoSession
<1>3. ASSUME NEW stage \in {"code", "load", "resolve"}, NEW cmd \in {"login", "logout", "call"},
             NEW b \in Bases
      PROVE  [NoSession EXCEPT !.at = stage, !.cmd = cmd, !.base = b] \in SessionState
  BY ONLY <1>2, <1>3 DEF SessionState
<1>4. ASSUME NEW s \in SessionState, NEW explicit \in BOOLEAN
      PROVE  [s EXCEPT !.explicit = explicit] \in SessionState
  BY ONLY <1>4 DEF SessionState
<1>5. ASSUME NEW stage \in {"code", "load", "resolve"}, NEW cmd \in {"login", "logout", "call"},
             NEW b \in Bases, NEW explicit \in BOOLEAN
      PROVE  [NoSession EXCEPT !.at = stage, !.cmd = cmd, !.base = b, !.explicit = explicit] \in SessionState
  <2>1. PICK s \in SessionState : s = [NoSession EXCEPT !.at = stage, !.cmd = cmd, !.base = b]
    BY <1>3
  <2>2. [s EXCEPT !.explicit = explicit] \in SessionState
    BY <1>4
  <2>3. [s EXCEPT !.explicit = explicit]
          = [NoSession EXCEPT !.at = stage, !.cmd = cmd, !.base = b, !.explicit = explicit]
    BY ONLY <1>2, <2>1 DEF SessionState
  <2>. QED  BY <2>2, <2>3
<1>. QED  BY <1>2, <1>3, <1>5

LEMMA NoSessionSound ==
    ASSUME NEW by, NEW cfg
    PROVE  Sound(NoSession, by, cfg)
  BY DEF Sound, NoSession

\* One command moves on while the file and the issuers stay.
LEMMA OneSession ==
    ASSUME ConfigInv, NEW p \in Commands, NEW s \in SessionState,
           session' = [session EXCEPT ![p] = s], Sound(s, issuer, file),
           UNCHANGED <<file, minimum, issuer, sent>>
    PROVE  ConfigInv'
  BY DEF ConfigInv, TokensGoHome

LEMMA BeginKeeps ==
    ASSUME ConfigInv, NEW p \in Commands, NEW cmd \in {"login", "logout", "call"}, Begin(p, cmd)
    PROVE  ConfigInv'
<1>1. PICK stage \in {"code", "load", "resolve"} :
        /\ stage = FirstStage(cmd)
        /\ stage = "code" => cmd = "login"
        /\ stage = "load" => cmd = "logout"
  BY DEF FirstStage
<1>2. UNCHANGED <<file, minimum, issuer, sent>>
  BY DEF Begin
<1>3. DefaultBase \in Bases \cup {Nothing}
  BY SoleBaseTyped DEF DefaultBase, ConfigInv, Config
<1>4. ASSUME NEW b \in Bases, NEW explicit \in BOOLEAN,
             session' = [session EXCEPT ![p] = [NoSession EXCEPT
                           !.at = stage, !.cmd = cmd, !.base = b, !.explicit = explicit]]
      PROVE  ConfigInv'
  <2>1. PICK s \in SessionState :
          s = [NoSession EXCEPT !.at = stage, !.cmd = cmd, !.base = b, !.explicit = explicit]
    BY NoSessionTyped, Zenon
  <2>2. Sound(s, issuer, file)
    BY <1>1, <2>1 DEF Sound, NoSession
  <2>. QED  BY <1>2, <1>4, <2>1, <2>2, OneSession
<1>5. ASSUME NEW b \in Bases,
             session' = [session EXCEPT ![p] = [NoSession EXCEPT
                           !.at = stage, !.cmd = cmd, !.base = b]]
      PROVE  ConfigInv'
  <2>1. PICK s \in SessionState : s = [NoSession EXCEPT !.at = stage, !.cmd = cmd, !.base = b]
    BY NoSessionTyped, Zenon
  <2>2. Sound(s, issuer, file)
    BY <1>1, <2>1 DEF Sound, NoSession
  <2>. QED  BY <1>2, <1>5, <2>1, <2>2, OneSession
<1>. QED  BY <1>1, <1>3, <1>4, <1>5, Zenon DEF Begin

\* A command that ends leaves nothing behind.
LEMMA OverKeeps ==
    ASSUME ConfigInv, NEW p \in Commands, Over(p), UNCHANGED <<file, minimum, issuer, sent>>
    PROVE  ConfigInv'
  BY NoSessionTyped, NoSessionSound, OneSession DEF Over

\* So does one that sends the token it holds, if the token is the server's.
LEMMA SendingKeeps ==
    ASSUME ConfigInv, NEW p \in Commands, Over(p), UNCHANGED <<file, minimum, issuer>>,
           session[p].token \in Tokens, session[p].base \in Bases,
           issuer[session[p].token] = session[p].base,
           sent' = sent \cup {<<session[p].token, session[p].base>>}
    PROVE  ConfigInv'
<1>1. session' \in [Commands -> SessionState] /\ \A q \in Commands : Sound(session'[q], issuer, file)
  BY NoSessionTyped, NoSessionSound DEF Over, ConfigInv
<1>2. sent' \in SUBSET (Tokens \X Bases)
  BY DEF ConfigInv
<1>3. \A s \in sent' : issuer[s[1]] = s[2]
  BY DEF ConfigInv, TokensGoHome
<1>. QED  BY <1>1, <1>2, <1>3 DEF ConfigInv, TokensGoHome

\* Every command's record is one, and is sound.
LEMMA EachSession ==
    ASSUME ConfigInv, NEW p \in Commands
    PROVE  session[p] \in SessionState /\ Sound(session[p], issuer, file)
  BY DEF ConfigInv

LEMMA SaveKeeps ==
    ASSUME ConfigInv, NEW p \in Commands, SaveConfig(p)
    PROVE  ConfigInv'
<1>1. /\ session[p].at = "save" /\ file' = session[p].copy
      /\ UNCHANGED <<minimum, issuer, sent>>
  BY DEF SaveConfig
<1>2. session[p].copy \in Config /\ Home(session[p].copy, issuer)
  BY <1>1, EachSession DEF Sound, SessionState
<1>3. PICK s \in SessionState :
        /\ s = IF session[p].cmd = "login" THEN [session[p] EXCEPT !.at = "confirm", !.copy = Empty]
                                           ELSE NoSession
        /\ \A cfg : Sound(s, issuer, cfg)
        /\ s.at # "save"
  <2>1. CASE session[p].cmd = "login"
    <3>1. PICK s \in SessionState : s = [session[p] EXCEPT !.at = "confirm", !.copy = Empty]
      BY EachSession, SessionGoesOn, Zenon
    <3>2. /\ s.at = "confirm" /\ s.cmd = "login"
          /\ s.token = session[p].token /\ s.base = session[p].base
          /\ s.stored = session[p].stored
      BY <2>1, <3>1, EachSession DEF SessionState
    <3>3. /\ session[p].token \in Tokens /\ issuer[session[p].token] = session[p].base
          /\ session[p].base \in Bases /\ ~ session[p].stored
      BY <1>1, <2>1, EachSession DEF Sound
    <3>. QED  BY <2>1, <3>1, <3>2, <3>3 DEF Sound
  <2>2. CASE session[p].cmd # "login"
    BY <2>2, NoSessionTyped, NoSessionSound DEF NoSession
  <2>. QED  BY <2>1, <2>2
<1>4. session' = Overtaken(p, [session EXCEPT ![p] = s])
  <2>1. CASE session[p].cmd = "login"
    <3>1. [session EXCEPT ![p].at = "confirm", ![p].copy = Empty] = [session EXCEPT ![p] = s]
      BY <1>3, <2>1 DEF ConfigInv, SessionState
    <3>. QED  BY <2>1, <3>1, Zenon DEF SaveConfig
  <2>2. CASE session[p].cmd # "login"
    BY <1>3, <2>2, Zenon DEF SaveConfig
  <2>. QED  BY <2>1, <2>2
<1>5. session \in [Commands -> SessionState]
  BY DEF ConfigInv
<1>6. PICK after \in [Commands -> SessionState] : after = [session EXCEPT ![p] = s]
  BY <1>5
<1>7. session' = [q \in Commands |-> IF q # p /\ after[q].at = "save"
                                     THEN [after[q] EXCEPT !.overtaken = TRUE] ELSE after[q]]
  BY <1>4, <1>6, Zenon DEF Overtaken
<1>8. ASSUME NEW q \in Commands
      PROVE  session'[q] \in SessionState /\ Sound(session'[q], issuer, file')
  <2>1. CASE q = p
    BY <1>3, <1>5, <1>6, <1>7, <2>1
  <2>2. CASE q # p /\ session[q].at = "save"
    <3>1. PICK t \in SessionState : t = [session[q] EXCEPT !.overtaken = TRUE]
      BY EachSession, SessionGoesOn, Zenon
    <3>2. session'[q] = t
      BY <1>5, <1>6, <1>7, <2>2, <3>1
    <3>3. /\ t.overtaken /\ t.at = "save" /\ t.cmd = session[q].cmd /\ t.base = session[q].base
          /\ t.token = session[q].token /\ t.copy = session[q].copy
          /\ t.stored = session[q].stored
      BY <2>2, <3>1, EachSession DEF SessionState
    <3>4. Sound(t, issuer, file')
      BY <2>2, <3>3, EachSession DEF Sound
    <3>. QED  BY <3>2, <3>4
  <2>3. CASE q # p /\ session[q].at # "save"
    <3>1. session'[q] = session[q]
      BY <1>5, <1>6, <1>7, <2>3
    <3>2. Sound(session[q], issuer, file')
      BY <2>3, EachSession DEF Sound
    <3>. QED  BY <3>1, <3>2, EachSession
  <2>. QED  BY <2>1, <2>2, <2>3
<1>9. session' \in [Commands -> SessionState]
  BY <1>7, <1>8
<1>. QED  BY <1>1, <1>2, <1>8, <1>9 DEF ConfigInv, TokensGoHome

LEMMA EditKeeps ==
    ASSUME ConfigInv, NEW a \in Bases, NEW b \in Bases, EditFile(a, b)
    PROVE  ConfigInv'
<1>1. /\ file.tokens[a] # Nothing /\ UNCHANGED <<minimum, issuer, sent>>
      /\ file' = [file EXCEPT !.tokens[b] = file.tokens[a]]
      /\ session' = [q \in Commands |-> IF session[q].at = "save"
                                         THEN [session[q] EXCEPT !.overtaken = TRUE]
                                         ELSE session[q]]
  BY DEF EditFile
<1>2. file' \in Config /\ Home(file', issuer)
  <2>1. file.tokens \in [Bases -> Entry \cup {Nothing}] /\ file \in Config
    BY DEF ConfigInv, Config
  <2>2. PICK tokens \in [Bases -> Entry \cup {Nothing}] :
          tokens = [file.tokens EXCEPT ![b] = file.tokens[a]]
    BY <2>1
  <2>3. file' = [file EXCEPT !.tokens = tokens]
    BY <1>1, <2>1, <2>2 DEF Config
  <2>4. file' \in Config /\ file'.tokens = tokens
    BY <2>1, <2>2, <2>3 DEF Config
  <2>5. \A c \in Bases : tokens[c] = file.tokens[IF c = b THEN a ELSE c]
    BY <2>1, <2>2
  <2>6. Home(file, issuer)
    BY DEF ConfigInv
  <2>. QED  BY <2>4, <2>5, <2>6 DEF Home
<1>3. ASSUME NEW q \in Commands
      PROVE  session'[q] \in SessionState /\ Sound(session'[q], issuer, file')
  <2>1. CASE session[q].at = "save"
    <3>1. PICK t \in SessionState : t = [session[q] EXCEPT !.overtaken = TRUE]
      BY EachSession, SessionGoesOn, Zenon
    <3>2. session'[q] = t
      BY <1>1, <2>1, <3>1
    <3>3. /\ t.overtaken /\ t.at = "save" /\ t.cmd = session[q].cmd /\ t.base = session[q].base
          /\ t.token = session[q].token /\ t.copy = session[q].copy
          /\ t.stored = session[q].stored
      BY <2>1, <3>1, EachSession DEF SessionState
    <3>4. Sound(t, issuer, file')
      BY <2>1, <3>3, EachSession DEF Sound
    <3>. QED  BY <3>2, <3>4
  <2>2. CASE session[q].at # "save"
    <3>1. session'[q] = session[q]
      BY <1>1, <2>2
    <3>2. Sound(session[q], issuer, file')
      BY <2>2, EachSession DEF Sound
    <3>. QED  BY <3>1, <3>2, EachSession
  <2>. QED  BY <2>1, <2>2
<1>4. session' \in [Commands -> SessionState]
  BY <1>1, <1>3
<1>. QED  BY <1>1, <1>2, <1>3, <1>4 DEF ConfigInv, TokensGoHome

LEMMA SessionKeeps ==
    ASSUME ConfigInv, NEW p \in Commands, NEW v, SessionStep(p, v)
    PROVE  ConfigInv'
<1>. PICK s \in SessionState : s = session[p] /\ Sound(s, issuer, file)
  BY EachSession
<1>. session \in [Commands -> SessionState] /\ file \in Config
  BY DEF ConfigInv
<1>1. CASE RequestCode(p, v)
  <2>1. CASE Over(p)
    BY <1>1, <2>1, OverKeeps DEF RequestCode
  <2>2. CASE Go(p, "approval")
    <3>1. PICK t \in SessionState : t = [s EXCEPT !.at = "approval"]
      BY SessionGoesOn, Zenon
    <3>2. session' = [session EXCEPT ![p] = t]
      BY <2>2, <3>1 DEF Go
    <3>3. s.at = "code"
      BY <1>1 DEF RequestCode
    <3>4. Sound(t, issuer, file)
      BY <3>1, <3>3 DEF Sound, SessionState
    <3>. QED  BY <1>1, <3>2, <3>4, OneSession DEF RequestCode
  <2>. QED  BY <1>1, <2>1, <2>2 DEF RequestCode
<1>2. CASE Approval(p, v)
  <2>1. PICK t \in Tokens :
          /\ issuer[t] = Nothing
          /\ session' = [session EXCEPT ![p].at = "load", ![p].token = t]
          /\ issuer' = [issuer EXCEPT ![t] = session[p].base]
          /\ s.at = "approval" /\ UNCHANGED <<file, minimum, sent>>
    BY <1>2 DEF Approval
  <2>2. s.base \in Bases /\ s.cmd = "login"
    BY <2>1 DEF Sound
  <2>3. PICK r \in SessionState : r = [s EXCEPT !.at = "load", !.token = t]
    BY SessionGoesOn, Zenon
  <2>4. session' = [session EXCEPT ![p] = r]
    BY <2>1, <2>3
  <2>5. issuer \in [Tokens -> Bases \cup {Nothing}]
    BY DEF ConfigInv
  <2>6. PICK by \in [Tokens -> Bases \cup {Nothing}] :
          by = [issuer EXCEPT ![t] = s.base] /\ by = issuer'
    BY <2>1, <2>2, <2>5
  <2>7. Home(file, by) /\ \A q \in Commands : Sound(session[q], by, file)
    <3>1. Home(file, [issuer EXCEPT ![t] = s.base])
      BY <2>1, <2>2, <2>5, HomeStays DEF ConfigInv
    <3>2. ASSUME NEW q \in Commands
          PROVE  Sound(session[q], [issuer EXCEPT ![t] = s.base], file)
      BY <2>1, <2>2, <2>5, SoundStays, EachSession
    <3>. QED  BY <2>6, <3>1, <3>2
  <2>8. Sound(r, by, file)
    <3>1. r.at = "load" /\ r.cmd = "login" /\ r.token = t /\ r.base = s.base /\ r.stored = s.stored
      BY <2>2, <2>3 DEF SessionState
    <3>2. by[t] = s.base /\ ~ s.stored
      BY <2>1, <2>5, <2>6 DEF Sound
    <3>. QED  BY <2>2, <3>1, <3>2 DEF Sound
  <2>9. \A u \in sent : by[u[1]] = u[2]
    <3>1. ASSUME NEW u \in sent
          PROVE  by[u[1]] = u[2]
      <4>1. u[1] \in Tokens /\ u[2] \in Bases /\ issuer[u[1]] = u[2]
        BY DEF ConfigInv, TokensGoHome
      <4>. QED  BY <2>1, <2>5, <2>6, <4>1, Placeless
    <3>. QED  BY <3>1
  <2>10. session' \in [Commands -> SessionState] /\ \A q \in Commands : Sound(session'[q], by, file)
    BY <2>4, <2>7, <2>8
  <2>. QED  BY <2>1, <2>6, <2>7, <2>9, <2>10 DEF ConfigInv, TokensGoHome
<1>3. CASE LoadConfig(p)
  <2>1. s.at = "load" /\ s.base \in Bases
    BY <1>3 DEF LoadConfig, Sound
  <2>2. PICK copy \in Config :
          /\ copy = IF s.cmd = "login" THEN WithLogin(file, s.base, s.token)
                                       ELSE WithoutLogin(file, s.base)
          /\ \A c \in Bases \ {s.base} : copy.tokens[c] = file.tokens[c]
          /\ Home(copy, issuer)
    <3>1. Home(file, issuer)
      BY DEF ConfigInv
    <3>2. CASE s.cmd = "login"
      <4>1. s.token \in Tokens /\ issuer[s.token] = s.base
        BY <2>1, <3>2 DEF Sound
      <4>. QED  BY <2>1, <3>1, <3>2, <4>1, WithLoginIs, WithLoginHome
    <3>3. CASE s.cmd # "login"
      BY <2>1, <3>1, <3>3, WithoutLoginIs, WithoutLoginHome
    <3>. QED  BY <3>2, <3>3
  <2>3. PICK r \in SessionState : r = [s EXCEPT !.at = "save", !.overtaken = FALSE, !.copy = copy]
    BY SessionGoesOn, Zenon
  <2>4. session' = [session EXCEPT ![p].at = "save", ![p].overtaken = FALSE, ![p].copy = copy]
    BY <1>3, <2>2, Zenon DEF LoadConfig
  <2>5. session' = [session EXCEPT ![p] = r]
    BY <2>3, <2>4
  <2>6. Sound(r, issuer, file)
    BY <2>1, <2>2, <2>3 DEF Sound, SessionState
  <2>. QED  BY <1>3, <2>5, <2>6, OneSession DEF LoadConfig
<1>4. CASE SaveConfig(p)
  BY <1>4, SaveKeeps
<1>5. CASE Confirm(p)
  <2>1. s.token \in Tokens /\ issuer[s.token] = s.base /\ s.base \in Bases
    BY <1>5 DEF Confirm, Sound
  <2>. QED  BY <1>5, <2>1, SendingKeeps DEF Confirm
<1>6. CASE ResolveCredential(p)
  <2>1. s.at = "resolve" /\ s.base \in Bases
    BY <1>6 DEF ResolveCredential, Sound
  <2>2. \/ session' = [session EXCEPT ![p].at = "send", ![p].token = EnvToken]
        \/ /\ Bound(file.tokens[s.base], s.base)
           /\ session' = [session EXCEPT ![p].at = "send", ![p].stored = TRUE,
                                         ![p].token = file.tokens[s.base].token]
        \/ Over(p)
    BY <1>6, Zenon DEF ResolveCredential, Over
  <2>3. CASE session' = [session EXCEPT ![p].at = "send", ![p].token = EnvToken]
    <3>1. PICK r \in SessionState : r = [s EXCEPT !.at = "send", !.token = EnvToken]
      BY SessionGoesOn, Zenon
    <3>2. session' = [session EXCEPT ![p] = r]
      BY <2>3, <3>1
    <3>3. Sound(r, issuer, file)
      BY <2>1, <3>1 DEF Sound, SessionState
    <3>. QED  BY <1>6, <3>2, <3>3, OneSession DEF ResolveCredential
  <2>4. CASE /\ Bound(file.tokens[s.base], s.base)
             /\ session' = [session EXCEPT ![p].at = "send", ![p].stored = TRUE,
                                           ![p].token = file.tokens[s.base].token]
    <3>1. PICK t \in Tokens : t = file.tokens[s.base].token /\ issuer[t] = s.base
      BY <2>1, <2>4, EntryIsSomething DEF Bound, ConfigInv, Home
    <3>2. PICK r \in SessionState : r = [s EXCEPT !.at = "send", !.stored = TRUE, !.token = t]
      BY SessionGoesOn, Zenon
    <3>3. session' = [session EXCEPT ![p].at = "send", ![p].stored = TRUE, ![p].token = t]
      BY <2>4, <3>1, Zenon
    <3>4. session' = [session EXCEPT ![p] = r]
      BY <3>2, <3>3
    <3>5. Sound(r, issuer, file)
      BY <2>1, <3>1, <3>2 DEF Sound, SessionState
    <3>. QED  BY <1>6, <3>4, <3>5, OneSession DEF ResolveCredential
  <2>5. CASE Over(p)
    BY <1>6, <2>5, OverKeeps DEF ResolveCredential
  <2>. QED  BY <2>2, <2>3, <2>4, <2>5
<1>7. CASE Send(p)
  <2>1. CASE session[p].stored
    <3>1. s.token \in Tokens /\ issuer[s.token] = s.base /\ s.base \in Bases
      BY <1>7, <2>1 DEF Send, Sound
    <3>. QED  BY <1>7, <2>1, <3>1, SendingKeeps DEF Send
  <2>2. CASE ~ session[p].stored
    BY <1>7, <2>2, OverKeeps DEF Send
  <2>. QED  BY <2>1, <2>2
<1>8. CASE Quit(p)
  BY <1>8, OverKeeps DEF Quit
<1>. QED  BY <1>1, <1>2, <1>3, <1>4, <1>5, <1>6, <1>7, <1>8 DEF SessionStep

LEMMA SetMinimumKeeps ==
    ASSUME ConfigInv, NEW b \in Bases, NEW v \in Minima, SetMinimum(b, v)
    PROVE  ConfigInv'
  BY DEF ConfigInv, SetMinimum, TokensGoHome

-----------------------------------------------------------------------------
(***************************************************************************)
(* The two together: a process that runs a command has a session, and no   *)
(* other has one.                                                          *)
(***************************************************************************)
Linked == \A p \in Procs : session[p].at # "idle" <=> update[p].at = "busy"

Typed ==
    /\ UpdatesTyped /\ ConfigInv /\ Linked
    /\ commands \in 0 .. MaxCommands /\ changes \in 0 .. MaxChanges

\* What a step does to the store.
Storing ==
    \/ \E p \in Commands, cmd \in {"login", "logout", "call"} : Begin(p, cmd)
    \/ \E p \in Commands : \E v : SessionStep(p, v)
    \/ \E a, b \in Bases : EditFile(a, b)
    \/ \E b \in Bases, v \in Minima : SetMinimum(b, v)

\* Nobody's stage but the mover's changes.
LEMMA SessionAts ==
    ASSUME ConfigInv, NEW p \in Commands, NEW v, SessionStep(p, v)
    PROVE  /\ session[p].at # "idle"
           /\ \A q \in Commands \ {p} : session'[q].at = session[q].at
<1>. USE EachSession
<1>. session \in [Commands -> SessionState]
  BY DEF ConfigInv
<1>1. CASE SaveConfig(p)
  <2>1. session[p].at = "save"
    BY <1>1 DEF SaveConfig
  <2>2. PICK s : session' = Overtaken(p, [session EXCEPT ![p] = s])
    <3>1. CASE session[p].cmd = "login"
      <4>1. session' = Overtaken(p, [session EXCEPT ![p].at = "confirm", ![p].copy = Empty])
        BY <1>1, <3>1 DEF SaveConfig
      <4>2. [session EXCEPT ![p].at = "confirm", ![p].copy = Empty]
              = [session EXCEPT ![p] = [session[p] EXCEPT !.at = "confirm", !.copy = Empty]]
        BY DEF SessionState
      <4>. QED  BY <4>1, <4>2
    <3>2. CASE session[p].cmd # "login"
      BY <1>1, <3>2 DEF SaveConfig
    <3>. QED  BY <3>1, <3>2
  <2>3. ASSUME NEW q \in Commands \ {p}
        PROVE  session'[q].at = session[q].at
    <3>1. session'[q] = IF session[q].at = "save" THEN [session[q] EXCEPT !.overtaken = TRUE]
                                                  ELSE session[q]
      BY <2>2, <2>3 DEF Overtaken
    <3>. QED  BY <3>1 DEF SessionState
  <2>. QED  BY <2>1, <2>3
<1>2. CASE RequestCode(p, v) \/ Approval(p, v)
  BY <1>2 DEF RequestCode, Approval, Go, Over
<1>3. CASE LoadConfig(p) \/ Confirm(p) \/ Send(p) \/ Quit(p)
  BY <1>3 DEF LoadConfig, Confirm, Send, Quit, Over
<1>4. CASE ResolveCredential(p)
  <2>1. session[p].at = "resolve"
    BY <1>4 DEF ResolveCredential
  <2>2. \A q \in Commands \ {p} : session'[q] = session[q]
    BY <1>4 DEF ResolveCredential
  <2>. QED  BY <2>1, <2>2
<1>. QED  BY <1>1, <1>2, <1>3, <1>4 DEF SessionStep

LEMMA MoveAts ==
    ASSUME UpdatesTyped, NEW p \in Procs, Move(p)
    PROVE  \A q \in Procs \ {p} : update'[q].at = update[q].at
<1>. update \in [Procs -> UpdateState]
  BY DEF UpdatesTyped
<1>1. CASE Start(p) \/ Leave(p) \/ Fetch(p) \/ StatExe(p) \/ RemoveOld(p) \/ KillUpdate(p)
  BY <1>1 DEF Start, Launch, Leave, Fetch, StatExe, RemoveOld, KillUpdate, Ended, To
<1>2. CASE SearchPage(p)
  BY <1>2 DEF SearchPage, Decided, Ended, To
<1>3. ASSUME NEW r, update' = Overtaking(p, [update EXCEPT ![p] = r])
      PROVE  \A q \in Procs \ {p} : update'[q].at = update[q].at
  <2>1. ASSUME NEW q \in Procs \ {p}
        PROVE  update'[q].at = update[q].at
    <3>1. update'[q] = IF update[q].at # "idle" THEN [update[q] EXCEPT !.overtaken = TRUE]
                                                ELSE update[q]
      BY <1>3, <2>1 DEF Overtaking
    <3>. QED  BY <3>1 DEF UpdateState
  <2>. QED  BY <2>1
<1>4. CASE RenameOver(p) \/ FinishCopy(p) \/ MoveIn(p)
  BY <1>3, <1>4 DEF RenameOver, FinishCopy, MoveIn, Ended
<1>5. CASE OpenCopy(p)
  <2>1. [update EXCEPT ![p].at = "copy"]
          = [update EXCEPT ![p] = [update[p] EXCEPT !.at = "copy"]]
    OBVIOUS
  <2>. QED  BY <1>3, <1>5, <2>1 DEF OpenCopy
<1>6. CASE MoveAside(p)
  BY <1>6 DEF MoveAside, UpdateState
<1>. QED  BY <1>1, <1>2, <1>4, <1>5, <1>6 DEF Move

\* An update goes through its own stages, none of which is a command's.
LEMMA UpdateAts ==
    ASSUME UpdatesTyped, NEW p \in Procs,
           UpdateStep(p) \/ (update[p].at # "busy" /\ KillUpdate(p))
    PROVE  Move(p) /\ update[p].at # "busy" /\ update'[p].at # "busy"
<1>. update \in [Procs -> UpdateState] /\ update[p] \in UpdateState
  BY DEF UpdatesTyped
<1>1. CASE SearchPage(p)
  BY <1>1 DEF SearchPage, Decided, Ended, NoUpdate, To, Move, UpdateState
<1>2. CASE Fetch(p) \/ StatExe(p) \/ RemoveOld(p)
  BY <1>2 DEF Fetch, StatExe, RemoveOld, To, Move, UpdateState
<1>3. CASE GiveUp(p) \/ (update[p].at # "busy" /\ KillUpdate(p))
  BY <1>3 DEF GiveUp, KillUpdate, Ended, NoUpdate, Move, Leave
<1>4. CASE RenameOver(p) \/ FinishCopy(p) \/ MoveIn(p)
  <2>1. Move(p) /\ update[p].at # "busy"
    BY <1>4 DEF RenameOver, FinishCopy, MoveIn, Move
  <2>2. update' = Overtaking(p, Ended(p))
    BY <1>4 DEF RenameOver, FinishCopy, MoveIn
  <2>3. update'[p] = NoUpdate
    BY <2>2 DEF Overtaking, Ended
  <2>. QED  BY <2>1, <2>3 DEF NoUpdate
<1>5. CASE OpenCopy(p)
  <2>1. Move(p) /\ update[p].at # "busy"
    BY <1>5 DEF OpenCopy, Move
  <2>2. update'[p] = [update[p] EXCEPT !.at = "copy"]
    BY <1>5 DEF OpenCopy, Overtaking
  <2>. QED  BY <2>1, <2>2 DEF UpdateState
<1>6. CASE MoveAside(p)
  BY <1>6 DEF MoveAside, Move, UpdateState
<1>. QED  BY <1>1, <1>2, <1>3, <1>4, <1>5, <1>6 DEF UpdateStep

LEMMA StartAts ==
    ASSUME UpdatesTyped, NEW p \in Procs, NEW stage \in {"search", "busy"},
           NEW force, Launch(p, stage, force)
    PROVE  update[p].at = "idle" /\ update'[p].at = stage
<1>. update \in [Procs -> UpdateState]
  BY DEF UpdatesTyped
<1>. QED  BY DEF Launch, NoUpdate

LEMMA BeginAts ==
    ASSUME ConfigInv, NEW p \in Commands, NEW cmd \in {"login", "logout", "call"}, Begin(p, cmd)
    PROVE  session'[p].at # "idle" /\ \A q \in Commands \ {p} : session'[q].at = session[q].at
<1>. session \in [Commands -> SessionState]
  BY DEF ConfigInv
<1>1. FirstStage(cmd) \in {"code", "load", "resolve"}
  BY DEF FirstStage
<1>2. PICK s : session' = [session EXCEPT ![p] = s] /\ s.at = FirstStage(cmd)
  <2>1. CASE \E b \in Bases, explicit \in {cmd = "call", FALSE} :
               session' = [session EXCEPT ![p] = [NoSession EXCEPT
                             !.at = FirstStage(cmd), !.cmd = cmd, !.base = b, !.explicit = explicit]]
    <3>1. PICK b \in Bases, explicit \in {cmd = "call", FALSE} :
            session' = [session EXCEPT ![p] = [NoSession EXCEPT
                          !.at = FirstStage(cmd), !.cmd = cmd, !.base = b, !.explicit = explicit]]
      BY <2>1, Zenon
    <3>2. [NoSession EXCEPT !.at = FirstStage(cmd), !.cmd = cmd, !.base = b,
                            !.explicit = explicit].at = FirstStage(cmd)
      BY DEF NoSession
    <3>. QED  BY <3>1, <3>2, Zenon
  <2>2. CASE session' = [session EXCEPT ![p] = [NoSession EXCEPT
                           !.at = FirstStage(cmd), !.cmd = cmd, !.base = DefaultBase]]
    <3>1. [NoSession EXCEPT !.at = FirstStage(cmd), !.cmd = cmd, !.base = DefaultBase].at
            = FirstStage(cmd)
      BY DEF NoSession
    <3>. QED  BY <2>2, <3>1, Zenon
  <2>. QED  BY <2>1, <2>2, Zenon DEF Begin
<1>. QED  BY <1>1, <1>2

\* A step of the system is one of the update's part, or none, together with one
\* of the store's, or none.
LEMMA SystemStep ==
    ASSUME Typed, [Next]_vars
    PROVE  /\ (\E p \in Procs : Move(p)) \/ Publication \/ UNCHANGED updateVars
           /\ Storing \/ UNCHANGED configVars
           /\ Linked'
           /\ commands' \in 0 .. MaxCommands /\ changes' \in 0 .. MaxChanges
<1>. Commands = Procs /\ MaxCommands \in Nat /\ MaxChanges \in Nat
  BY CommandLineAssumption
<1>. UpdatesTyped /\ ConfigInv /\ Linked /\ commands \in 0 .. MaxCommands /\ changes \in 0 .. MaxChanges
  BY DEF Typed
<1>1. ASSUME NEW p \in Procs, Update(p)
      PROVE  Move(p) /\ UNCHANGED configVars /\ Linked'
             /\ commands' \in 0 .. MaxCommands /\ changes' \in 0 .. MaxChanges
  <2>1. PICK force \in BOOLEAN : Launch(p, "search", force) /\ (IsRelease(exe) \/ force)
    BY <1>1 DEF Update, StartUpdate
  <2>2. Move(p)
    BY <2>1 DEF Move, Start
  <2>3. UNCHANGED session
    BY <1>1 DEF Update, configVars
  <2>4. Linked'
    BY <2>1, <2>2, <2>3, StartAts, MoveAts DEF Linked
  <2>. QED  BY <1>1, <2>2, <2>4 DEF Update, Run
<1>2. ASSUME NEW p \in Procs, Command(p)
      PROVE  Move(p) /\ Storing /\ Linked'
             /\ commands' \in 0 .. MaxCommands /\ changes' \in 0 .. MaxChanges
  <2>1. Launch(p, "busy", FALSE)
    BY <1>2 DEF Command
  <2>2. PICK cmd \in {"login", "logout", "call"} : Begin(p, cmd)
    BY <1>2 DEF Command
  <2>3. Move(p)
    BY <2>1 DEF Move, Start
  <2>4. update'[p].at = "busy" /\ \A q \in Procs \ {p} : update'[q].at = update[q].at
    BY <2>1, <2>3, StartAts, MoveAts
  <2>5. session'[p].at # "idle" /\ \A q \in Procs \ {p} : session'[q].at = session[q].at
    BY <2>2, BeginAts
  <2>6. Linked'
    BY <2>4, <2>5 DEF Linked
  <2>. QED  BY <1>2, <2>2, <2>3, <2>6 DEF Command, Run, Storing
<1>3. ASSUME NEW p \in Procs, Session(p)
      PROVE  /\ Move(p) \/ UNCHANGED updateVars
             /\ Storing /\ Linked'
             /\ commands' \in 0 .. MaxCommands /\ changes' \in 0 .. MaxChanges
  <2>1. /\ SessionStep(p, update[p].runs)
        /\ update' = IF session'[p].at = "idle" THEN Ended(p) ELSE update
        /\ UNCHANGED <<platform, releases, exe, old, ordered, copies, fellBack, last, assured,
                       commands, changes>>
    BY <1>3 DEF Session
  <2>2. /\ update[p].at = "busy"
        /\ \A q \in Procs \ {p} : session'[q].at = session[q].at
    BY <2>1, SessionAts DEF Linked
  <2>3. Storing
    BY <2>1 DEF Storing
  <2>4. CASE session'[p].at = "idle"
    <3>1. Leave(p)
      BY <2>1, <2>2, <2>4 DEF Leave
    <3>2. update'[p].at = "idle" /\ \A q \in Procs \ {p} : update'[q].at = update[q].at
      BY <2>1, <2>4 DEF Ended, NoUpdate, UpdatesTyped
    <3>3. Linked'
      BY <2>2, <2>4, <3>2 DEF Linked
    <3>. QED  BY <2>1, <2>3, <3>1, <3>3 DEF Move
  <2>5. CASE session'[p].at # "idle"
    <3>1. UNCHANGED updateVars
      BY <2>1, <2>5 DEF updateVars
    <3>2. Linked'
      BY <2>1, <2>2, <2>5 DEF Linked
    <3>. QED  BY <2>1, <2>3, <3>1, <3>2
  <2>. QED  BY <2>4, <2>5
<1>4. ASSUME NEW p \in Procs, Updating(p)
      PROVE  Move(p) /\ UNCHANGED configVars /\ Linked'
             /\ commands' \in 0 .. MaxCommands /\ changes' \in 0 .. MaxChanges
  <2>1. Move(p) /\ update[p].at # "busy" /\ update'[p].at # "busy"
    BY <1>4, UpdateAts DEF Updating
  <2>2. UNCHANGED session
    BY <1>4 DEF Updating, configVars
  <2>3. Linked'
    BY <2>1, <2>2, MoveAts DEF Linked
  <2>. QED  BY <1>4, <2>1, <2>3 DEF Updating
<1>5. CASE Publishing
  <2>1. UNCHANGED <<update, session>>
    BY <1>5 DEF Publishing, Publication, PublishServer, Retract, PublishCLI, configVars
  <2>. QED  BY <1>5, <2>1 DEF Publishing, Linked
<1>6. CASE Change
  <2>1. UNCHANGED updateVars /\ Storing /\ UNCHANGED commands /\ changes' \in 0 .. MaxChanges
    BY <1>6 DEF Change, Storing
  <2>2. \A q \in Commands : session'[q].at = session[q].at
    <3>1. ASSUME NEW a \in Bases, NEW b \in Bases, EditFile(a, b), NEW q \in Commands
          PROVE  session'[q].at = session[q].at
      <4>1. session'[q] = IF session[q].at = "save" THEN [session[q] EXCEPT !.overtaken = TRUE]
                                                    ELSE session[q]
        BY <3>1 DEF EditFile
      <4>. QED  BY <4>1, EachSession DEF SessionState
    <3>. QED  BY <1>6, <3>1 DEF Change, SetMinimum
  <2>3. Linked'
    BY <2>1, <2>2 DEF Linked, updateVars
  <2>. QED  BY <2>1, <2>3
<1>7. CASE UNCHANGED vars
  BY <1>7 DEF vars, updateVars, configVars, Linked
<1>. QED  BY <1>1, <1>2, <1>3, <1>4, <1>5, <1>6, <1>7 DEF Next

LEMMA StoringKeeps ==
    ASSUME ConfigInv, Storing
    PROVE  ConfigInv'
  BY BeginKeeps, SessionKeeps, EditKeeps, SetMinimumKeeps DEF Storing

LEMMA InitTyped == Init => Typed
<1>. SUFFICES ASSUME Init  PROVE Typed
  OBVIOUS
<1>1. UpdatesTyped
  <2>1. update \in [Procs -> UpdateState]
    BY NoUpdateTyped DEF Init, UpdateInit
  <2>2. releases \in Seq(Release)
    <3>1. PICK v \in Published : releases = <<[tag |-> "cli", version |-> v]>>
      BY DEF Init, UpdateInit
    <3>2. [tag |-> "cli", version |-> v] \in Release
      BY DEF Release
    <3>. QED  BY <3>1, <3>2
  <2>3. Genuine
    BY DEF Init, UpdateInit, Genuine, NoUpdate, Settled, Verified
  <2>4. Installed \subseteq Whole
    BY DEF Whole
  <2>. QED  BY <2>1, <2>2, <2>3, <2>4, Kinds DEF Init, UpdateInit, UpdatesTyped
<1>2. ConfigInv
  <2>1. session \in [Commands -> SessionState] /\ \A p \in Commands : Sound(session[p], issuer, file)
    BY NoSessionTyped, NoSessionSound DEF Init, ConfigInit
  <2>2. minimum \in [Bases -> Minima]
    BY CLIConfigAssumption DEF Init, ConfigInit
  <2>3. file \in Config /\ Home(file, issuer) /\ issuer \in [Tokens -> Bases \cup {Nothing}]
    <3>1. CASE file = Empty /\ issuer = [t \in Tokens |-> Nothing]
      BY <3>1, EmptyTyped DEF Home
    <3>2. ASSUME NEW b \in Bases, NEW t \in Tokens, file = WithLogin(Empty, b, t),
                 issuer = [u \in Tokens |-> IF u = t THEN b ELSE Nothing]
          PROVE  file \in Config /\ Home(file, issuer) /\ issuer \in [Tokens -> Bases \cup {Nothing}]
      <4>1. Home(Empty, issuer) /\ Empty \in Config
        BY EmptyTyped DEF Home
      <4>2. issuer[t] = b
        BY <3>2
      <4>. QED  BY <3>2, <4>1, <4>2, WithLoginIs, WithLoginHome
    <3>. QED  BY <3>1, <3>2 DEF Init, ConfigInit
  <2>4. sent = {} /\ TokensGoHome
    BY DEF Init, ConfigInit, TokensGoHome
  <2>. QED  BY <2>1, <2>2, <2>3, <2>4 DEF ConfigInv
<1>3. Linked
  BY CommandLineAssumption DEF Init, UpdateInit, ConfigInit, Linked, NoUpdate, NoSession
<1>. QED  BY <1>1, <1>2, <1>3, CommandLineAssumption DEF Init, Typed

LEMMA NextKeepsTyped ==
    ASSUME Typed, [Next]_vars
    PROVE  Typed'
<1>1. UpdatesTyped'
  <2>1. CASE UNCHANGED updateVars
    BY <2>1 DEF updateVars, UpdatesTyped, Genuine, Typed
  <2>. QED  BY <2>1, SystemStep, MoveKeepsTypes, PublicationKeepsTypes DEF Typed
<1>2. ConfigInv'
  <2>1. CASE UNCHANGED configVars
    BY <2>1 DEF configVars, ConfigInv, TokensGoHome, Typed
  <2>. QED  BY <2>1, SystemStep, StoringKeeps DEF Typed
<1>. QED  BY <1>1, <1>2, SystemStep DEF Typed

LEMMA AlwaysTyped == Spec => []Typed
  BY InitTyped, NextKeepsTyped, PTL DEF Spec

\* Every variable keeps to its type, and a command that calls a server is a
\* process that runs and does not update.
THEOREM CommandLineTyped == Spec => []TypeOK
<1>1. Typed => TypeOK
  BY DEF Typed, UpdatesTyped, ConfigInv, Linked, TypeOK, UpdateTypeOK, ConfigTypeOK,
         UpdateState, SessionState
<1>. QED  BY <1>1, AlwaysTyped, PTL

\* A stored token is sent to the server that issued it and to no other: every
\* entry that login, logout or a person's edit ever leaves in config.json
\* is an issuer's own, and ResolveCredential goes by what the entry says.
THEOREM TokensStayHome == Spec => []TokensGoHome
<1>1. Typed => TokensGoHome
  BY DEF Typed, ConfigInv
<1>. QED  BY <1>1, AlwaysTyped, PTL

\* Whoever saves is done saving.
LEMMA SaveIsOver ==
    ASSUME ConfigInv, NEW p \in Commands, SaveConfig(p)
    PROVE  session[p].at = "save" /\ session'[p].at # "save"
<1>. session \in [Commands -> SessionState]
  BY DEF ConfigInv
<1>1. session[p].at = "save"
  BY DEF SaveConfig
<1>2. CASE session[p].cmd = "login"
  <2>1. session'[p] = [session[p] EXCEPT !.at = "confirm", !.copy = Empty]
    BY <1>2 DEF SaveConfig, Overtaken
  <2>. QED  BY <1>1, <2>1 DEF SessionState
<1>3. CASE session[p].cmd # "login"
  <2>1. session'[p] = NoSession
    BY <1>3 DEF SaveConfig, Overtaken
  <2>. QED  BY <1>1, <2>1 DEF NoSession
<1>. QED  BY <1>2, <1>3

\* What a step of the store may do to an entry of the file.
LEMMA StoringCoexists ==
    ASSUME ConfigInv, Storing, NEW b \in Bases, file'.tokens[b] # file.tokens[b]
    PROVE  IF \E p \in Commands : session[p].at = "save" /\ session'[p].at # "save"
           THEN \E p \in Commands :
                  /\ session[p].at = "save" /\ session'[p].at # "save"
                  /\ session[p].base = b \/ session[p].overtaken
           ELSE file.tokens[b] = Nothing
<1>1. ASSUME NEW p \in Commands, SaveConfig(p)
      PROVE  /\ session[p].at = "save" /\ session'[p].at # "save"
             /\ session[p].base = b \/ session[p].overtaken
  <2>1. session[p].at = "save" /\ session'[p].at # "save"
    BY <1>1, SaveIsOver
  <2>2. file' = session[p].copy
    BY <1>1 DEF SaveConfig
  <2>3. Sound(session[p], issuer, file)
    BY EachSession
  <2>. QED  BY <2>1, <2>2, <2>3 DEF Sound
<1>2. ASSUME NEW a \in Bases, NEW c \in Bases, EditFile(a, c)
      PROVE  /\ \A p \in Commands : session'[p].at = session[p].at
             /\ file.tokens[b] = Nothing
  <2>1. ASSUME NEW q \in Commands
        PROVE  session'[q].at = session[q].at
    <3>1. session'[q] = IF session[q].at = "save" THEN [session[q] EXCEPT !.overtaken = TRUE]
                                                  ELSE session[q]
      BY <1>2 DEF EditFile
    <3>. QED  BY <3>1, EachSession DEF SessionState
  <2>2. file.tokens \in [Bases -> Entry \cup {Nothing}] /\ file \in Config
    BY DEF ConfigInv, Config
  <2>3. file.tokens[c] = Nothing /\ file' = [file EXCEPT !.tokens[c] = file.tokens[a]]
    BY <1>2 DEF EditFile
  <2>4. b = c
    BY <2>2, <2>3 DEF Config
  <2>. QED  BY <2>1, <2>3, <2>4
<1>3. ASSUME NEW p \in Commands, NEW cmd, Begin(p, cmd)
      PROVE  FALSE
  BY <1>3 DEF Begin
<1>4. ASSUME NEW p \in Commands, NEW v, SessionStep(p, v), ~ SaveConfig(p)
      PROVE  FALSE
  BY <1>4 DEF SessionStep, RequestCode, Approval, LoadConfig, Confirm, ResolveCredential, Send, Quit
<1>5. ASSUME NEW c \in Bases, NEW v, SetMinimum(c, v)
      PROVE  FALSE
  BY <1>5 DEF SetMinimum
<1>6. CASE \E p \in Commands : SaveConfig(p)
  BY <1>1, <1>6
<1>7. CASE \E a, c \in Bases : EditFile(a, c)
  BY <1>2, <1>7
<1>. QED  BY <1>3, <1>4, <1>5, <1>6, <1>7 DEF Storing

\* Logins to several servers live side by side: SaveConfig writes the whole file,
\* yet an entry changes only by a command for its server, by one that
\* was overtaken between its read and its write, or by hand.
THEOREM LoginsLiveTogether == Spec => LoginsCoexist
<1>1. ASSUME Typed, [Next]_vars
      PROVE  [\A b \in Bases : file'.tokens[b] # file.tokens[b] =>
                IF \E p \in Commands : session[p].at = "save" /\ session'[p].at # "save"
                THEN \E p \in Commands :
                       /\ session[p].at = "save" /\ session'[p].at # "save"
                       /\ session[p].base = b \/ session[p].overtaken
                ELSE file.tokens[b] = Nothing]_configVars
  BY <1>1, SystemStep, StoringCoexists DEF Typed
<1>. QED  BY <1>1, AlwaysTyped, PTL DEF Spec, LoginsCoexist

-----------------------------------------------------------------------------
(***************************************************************************)
(* The executable.                                                         *)
(***************************************************************************)

\* What a step leaves as it was, of every process that still runs after it.
LEMMA Carries ==
    ASSUME UpdatesTyped, NEW p \in Procs, Move(p), ~ Start(p),
           NEW q \in Procs, update'[q].at # "idle"
    PROVE  /\ update[q].at # "idle"
           /\ update'[q].runs = update[q].runs
           /\ update'[q].force = update[q].force
           /\ update'[q].known = update[q].known
           /\ update[q].overtaken => update'[q].overtaken
           /\ ~ MoveAside(p) => update'[q].image = update[q].image
           /\ q # p => /\ update'[q].at = update[q].at
                       /\ update'[q].page = update[q].page
                       /\ update'[q].want = update[q].want
<1>. update \in [Procs -> UpdateState] /\ update[q] \in UpdateState
  BY DEF UpdatesTyped
<1>1. CASE Leave(p) \/ KillUpdate(p)
  <2>1. update' = [update EXCEPT ![p] = NoUpdate]
    BY <1>1 DEF Leave, KillUpdate, Ended
  <2>2. q # p /\ update'[q] = update[q]
    BY <2>1 DEF NoUpdate
  <2>. QED  BY <2>2
<1>2. CASE Fetch(p)
  <2>1. PICK stage, data : update' = [update EXCEPT ![p].at = stage, ![p].data = data]
    BY <1>2 DEF Fetch
  <2>2. update[p].at # "idle"
    BY <1>2 DEF Fetch
  <2>. QED  BY <2>1, <2>2 DEF UpdateState
<1>3. CASE StatExe(p) \/ RemoveOld(p)
  <2>1. PICK stage : update' = [update EXCEPT ![p].at = stage, ![p].page = 1]
    BY <1>3 DEF StatExe, RemoveOld, To
  <2>2. update[p].at # "idle"
    BY <1>3 DEF StatExe, RemoveOld
  <2>. QED  BY <2>1, <2>2 DEF UpdateState
<1>4. CASE SearchPage(p)
  <2>1. update[p].at # "idle"
    BY <1>4 DEF SearchPage
  <2>2. \/ update' = [update EXCEPT ![p] = NoUpdate]
        \/ update' = [update EXCEPT ![p].at = "fetch", ![p].page = 1]
        \/ \E latest : update' = [update EXCEPT ![p].at = "find", ![p].page = 1, ![p].want = latest]
        \/ \E page : update' = [update EXCEPT ![p].page = page]
    BY <1>4 DEF SearchPage, Decided, Ended, To
  <2>3. CASE update' = [update EXCEPT ![p] = NoUpdate]
    <3>1. q # p /\ update'[q] = update[q]
      BY <2>3 DEF NoUpdate
    <3>. QED  BY <3>1
  <2>. QED  BY <2>1, <2>2, <2>3 DEF UpdateState
<1>5. ASSUME NEW r, update' = Overtaking(p, [update EXCEPT ![p] = r]), q # p
      PROVE  /\ update[q].at # "idle"
             /\ update'[q] = [update[q] EXCEPT !.overtaken = TRUE]
  <2>1. update'[q] = IF update[q].at # "idle" THEN [update[q] EXCEPT !.overtaken = TRUE]
                                              ELSE update[q]
    BY <1>5 DEF Overtaking
  <2>. QED  BY <2>1
<1>6. CASE RenameOver(p) \/ FinishCopy(p) \/ MoveIn(p)
  <2>1. update' = Overtaking(p, [update EXCEPT ![p] = NoUpdate])
    BY <1>6 DEF RenameOver, FinishCopy, MoveIn, Ended
  <2>2. update'[p] = NoUpdate
    BY <2>1 DEF Overtaking
  <2>3. q # p
    BY <2>2 DEF NoUpdate
  <2>. QED  BY <1>5, <2>1, <2>3 DEF UpdateState
<1>7. CASE OpenCopy(p)
  <2>1. update[p].at # "idle"
    BY <1>7 DEF OpenCopy
  <2>2. [update EXCEPT ![p].at = "copy"]
          = [update EXCEPT ![p] = [update[p] EXCEPT !.at = "copy"]]
    OBVIOUS
  <2>3. update' = Overtaking(p, [update EXCEPT ![p] = [update[p] EXCEPT !.at = "copy"]])
    BY <1>7, <2>2 DEF OpenCopy
  <2>4. CASE q = p
    <3>1. update'[p] = [update[p] EXCEPT !.at = "copy"]
      BY <2>3 DEF Overtaking
    <3>. QED  BY <2>1, <2>4, <3>1 DEF UpdateState
  <2>. QED  BY <1>5, <2>3, <2>4 DEF UpdateState
<1>8. CASE MoveAside(p)
  BY <1>8 DEF MoveAside, UpdateState
<1>. QED  BY <1>1, <1>2, <1>3, <1>4, <1>6, <1>7, <1>8 DEF Move

\* The stages after verification are one platform's or the other's. Copying is
\* the one's, so that nothing is ever torn on the other. And while the executable
\* is aside, every process runs the image that is there, so that nobody
\* can remove it.
Standing ==
    /\ ExecutableSurvives
    /\ old # Torn
    /\ platform = "windows" => ~ fellBack
    /\ copies # {} => fellBack
    /\ \A p \in Procs :
         /\ update[p].at \in {"replace", "copy"} => platform # "windows"
         /\ update[p].at \in Verified \ {"replace", "copy"} => platform = "windows"
         /\ update[p].at # "idle" => update[p].image \in {"path", "old"}
         /\ exe = Missing /\ update[p].at # "idle" => update[p].image = "old"

\* The conditions on processes hold on, if they do of the one that moves, the
\* executable does not vanish and no image moves.
LEMMA StandingCarries ==
    ASSUME UpdatesTyped, Standing, NEW p \in Procs, Move(p), ~ Start(p), ~ MoveAside(p),
           UNCHANGED platform, exe' = Missing => exe = Missing,
           /\ update'[p].at \in {"replace", "copy"} => platform # "windows"
           /\ update'[p].at \in Verified \ {"replace", "copy"} => platform = "windows",
           NEW q \in Procs
    PROVE  /\ update'[q].at \in {"replace", "copy"} => platform' # "windows"
           /\ update'[q].at \in Verified \ {"replace", "copy"} => platform' = "windows"
           /\ update'[q].at # "idle" => update'[q].image \in {"path", "old"}
           /\ exe' = Missing /\ update'[q].at # "idle" => update'[q].image = "old"
<1>1. CASE update'[q].at = "idle"
  BY <1>1 DEF Verified
<1>2. CASE update'[q].at # "idle"
  BY <1>2, Carries DEF Standing
<1>. QED  BY <1>1, <1>2

LEMMA MoveStands ==
    ASSUME UpdatesTyped, Standing, NEW p \in Procs, Move(p)
    PROVE  Standing'
<1>. USE Kinds
<1>. UpdatesTyped /\ update \in [Procs -> UpdateState] /\ update[p] \in UpdateState
  BY DEF UpdatesTyped
<1>1. CASE Start(p)
  <2>1. PICK stage \in {"search", "busy"}, force \in BOOLEAN : Launch(p, stage, force)
    BY <1>1 DEF Start
  <2>2. /\ exe \in Whole
        /\ UNCHANGED <<platform, releases, exe, old, ordered, copies, fellBack, last, assured>>
        /\ \A q \in Procs \ {p} : update'[q] = update[q]
        /\ update'[p].at = stage /\ update'[p].image = "path"
    BY <2>1 DEF Launch, NoUpdate
  <2>. QED  BY <2>2 DEF Standing, ExecutableSurvives, Verified
<1>2. CASE MoveAside(p)
  <2>1. /\ update[p].at = "aside" /\ exe # Missing /\ old' = exe /\ exe' = Missing
        /\ UNCHANGED <<platform, copies, fellBack>>
    BY <1>2 DEF MoveAside, CanMoveAside
  <2>2. ASSUME NEW q \in Procs
        PROVE  /\ update'[q].at = IF q = p THEN "in" ELSE update[q].at
               /\ update'[q].image = IF update[q].image = "path" THEN "old" ELSE update[q].image
    BY <1>2 DEF MoveAside, UpdateState
  <2>3. platform = "windows" /\ exe # Torn /\ exe # Garbage
    BY <2>1 DEF Standing, ExecutableSurvives, Verified
  <2>4. exe \in Whole
    BY <2>1, <2>3 DEF UpdatesTyped, Contents
  <2>. QED  BY <2>1, <2>2, <2>3, <2>4 DEF Standing, ExecutableSurvives, Verified
<1>. SUFFICES ASSUME ~ Start(p), ~ MoveAside(p)  PROVE Standing'
  BY <1>1, <1>2
<1>3. CASE Leave(p) \/ KillUpdate(p)
  <2>1. update'[p].at = "idle"
    BY <1>3 DEF Leave, KillUpdate, Ended, NoUpdate
  <2>2. UNCHANGED <<platform, exe, old, fellBack>> /\ copies' \subseteq copies
    BY <1>3 DEF Leave, KillUpdate
  <2>. QED  BY <2>1, <2>2, StandingCarries DEF Standing, ExecutableSurvives, Verified
<1>4. CASE SearchPage(p)
  <2>1. UNCHANGED <<platform, exe, old, fellBack, copies>>
    BY <1>4 DEF SearchPage
  <2>2. update'[p].at \in {"idle", "search", "find", "fetch"}
    BY <1>4 DEF SearchPage, Decided, Ended, To, NoUpdate, UpdateState
  <2>. QED  BY <2>1, <2>2, StandingCarries DEF Standing, ExecutableSurvives, Verified
<1>5. CASE Fetch(p)
  <2>1. UNCHANGED <<platform, exe, old, fellBack, copies>>
    BY <1>5 DEF Fetch
  <2>2. update'[p].at = IF platform = "windows" THEN "stat" ELSE "replace"
    BY <1>5 DEF Fetch, UpdateState
  <2>. QED  BY <2>1, <2>2, StandingCarries DEF Standing, ExecutableSurvives, Verified
<1>6. CASE RenameOver(p) \/ MoveIn(p)
  <2>1. update' = Overtaking(p, Ended(p)) /\ UNCHANGED <<platform, old>>
    BY <1>6 DEF RenameOver, MoveIn
  <2>2. update'[p].at = "idle"
    BY <2>1 DEF Overtaking, Ended, NoUpdate
  <2>3. exe' \in Whole
    BY <1>6 DEF RenameOver, MoveIn, UpdatesTyped, Genuine, Settled, Verified
  <2>4. \/ copies' = {} /\ fellBack' = FALSE
        \/ UNCHANGED <<copies, fellBack>>
    BY <1>6 DEF RenameOver, MoveIn
  <2>5. /\ ExecutableSurvives'
        /\ platform' = "windows" => ~ fellBack'
        /\ copies' # {} => fellBack'
    BY <2>1, <2>3, <2>4 DEF Standing, ExecutableSurvives
  <2>. QED  BY <2>1, <2>2, <2>3, <2>5, StandingCarries DEF Standing, Verified
<1>7. CASE OpenCopy(p)
  <2>1. update[p].at = "replace" /\ exe' = Torn /\ fellBack' = TRUE /\ UNCHANGED <<platform, old>>
    BY <1>7 DEF OpenCopy
  <2>2. update'[p].at = "copy"
    <3>1. update'[p] = [update[p] EXCEPT !.at = "copy"]
      BY <1>7 DEF OpenCopy, Overtaking
    <3>. QED  BY <3>1 DEF UpdateState
  <2>3. platform # "windows"
    BY <2>1 DEF Standing
  <2>. QED  BY <2>1, <2>2, <2>3, StandingCarries DEF Standing, ExecutableSurvives, Verified
<1>8. CASE FinishCopy(p)
  <2>1. /\ update[p].at = "copy" /\ UNCHANGED <<platform, old, fellBack>>
        /\ copies' \subseteq copies
        /\ update' = Overtaking(p, Ended(p))
        /\ exe' = exe \/ (p \in copies /\ exe' = Torn) \/ exe' = update[p].data
    BY <1>8 DEF FinishCopy
  <2>2. update'[p].at = "idle"
    BY <2>1 DEF Overtaking, Ended, NoUpdate
  <2>3. update[p].data \in Whole
    BY <2>1 DEF UpdatesTyped, Genuine, Settled, Verified
  <2>4. ExecutableSurvives'
    BY <2>1, <2>3 DEF Standing, ExecutableSurvives
  <2>. QED  BY <2>1, <2>2, <2>3, <2>4, StandingCarries DEF Standing, Verified
<1>9. CASE StatExe(p) \/ RemoveOld(p)
  <2>1. /\ update[p].at \in {"stat", "remove"}
        /\ UNCHANGED <<platform, exe, fellBack, copies>>
        /\ update'[p].at \in {"in", "remove", "aside"}
    BY <1>9 DEF StatExe, RemoveOld, To, UpdateState
  <2>2. platform = "windows"
    BY <2>1 DEF Standing, Verified
  <2>3. old' = old \/ (old' = Missing /\ ~ InUse("old"))
    BY <1>9 DEF StatExe, RemoveOld
  <2>4. exe = Missing => InUse("old")
    BY <2>1 DEF Standing, InUse
  <2>5. ExecutableSurvives' /\ old' # Torn
    BY <2>1, <2>3, <2>4 DEF Standing, ExecutableSurvives
  <2>. QED  BY <2>1, <2>2, <2>5, StandingCarries DEF Standing, Verified
<1>. QED  BY <1>3, <1>4, <1>5, <1>6, <1>7, <1>8, <1>9 DEF Move

LEMMA PublicationStands ==
    ASSUME Standing, Publication
    PROVE  Standing'
<1>1. UNCHANGED <<platform, exe, old, update, copies, fellBack>>
  BY DEF Publication, PublishServer, Retract, PublishCLI
<1>. QED  BY <1>1 DEF Standing, ExecutableSurvives

\* Nothing unverified is ever at the executable's path or beside it; it is torn
\* only where writeFileAtomic had to fall back on copying; and it is absent
\* only between the two renames of Windows, with the executable before it beside.
THEOREM ExecutableStands == Spec => []ExecutableSurvives
<1>1. Init => Standing
  <2>. SUFFICES ASSUME Init  PROVE Standing
    OBVIOUS
  <2>1. exe \in Whole /\ old = Missing
    BY DEF Init, UpdateInit, Whole
  <2>. QED  BY <2>1, Kinds DEF Init, UpdateInit, NoUpdate, Standing, ExecutableSurvives, Verified
<1>2. ASSUME Typed, Standing, [Next]_vars
      PROVE  Standing'
  <2>1. CASE UNCHANGED updateVars
    BY <1>2, <2>1 DEF updateVars, Standing, ExecutableSurvives
  <2>. QED  BY <1>2, <2>1, SystemStep, MoveStands, PublicationStands DEF Typed
<1>3. Standing => ExecutableSurvives
  BY DEF Standing
<1>. QED  BY <1>1, <1>2, <1>3, AlwaysTyped, PTL DEF Spec

-----------------------------------------------------------------------------
(***************************************************************************)
(* Which version is in place, and which a command settled on.              *)
(***************************************************************************)

\* A whole executable is the version last put there; a command that was not
\* overtaken runs it; and one that was not forced settled on a newer one.
Current ==
    /\ exe \in Whole => exe = last
    /\ \A p \in Procs :
         /\ update[p].at # "idle" /\ ~ update[p].overtaken => last = update[p].runs
         /\ update[p].at \in Settled /\ ~ update[p].force =>
              Compare(update[p].want, update[p].runs) = 1

\* Whoever has settled had before, on the same version, or decides now.
LEMMA SettlesOnce ==
    ASSUME UpdatesTyped, NEW p \in Procs, Move(p), update'[p].at \in Settled
    PROVE  \/ update[p].at \in Settled /\ update'[p].want = update[p].want
           \/ /\ update[p].at = "search"
              /\ ~ update[p].force => Compare(update'[p].want, update[p].runs) = 1
<1>. update \in [Procs -> UpdateState] /\ update[p] \in UpdateState
  BY DEF UpdatesTyped
<1>1. CASE Start(p)
  <2>1. update'[p].at \in {"search", "busy"}
    BY <1>1, StartAts DEF Start
  <2>. QED  BY <2>1 DEF Settled, Verified
<1>2. CASE Leave(p) \/ KillUpdate(p)
  BY <1>2 DEF Leave, KillUpdate, Ended, NoUpdate, Settled, Verified
<1>3. CASE RenameOver(p) \/ FinishCopy(p) \/ MoveIn(p)
  <2>1. update'[p] = NoUpdate
    BY <1>3 DEF RenameOver, FinishCopy, MoveIn, Overtaking, Ended
  <2>. QED  BY <2>1 DEF NoUpdate, Settled, Verified
<1>4. CASE OpenCopy(p)
  <2>1. update'[p] = [update[p] EXCEPT !.at = "copy"] /\ update[p].at = "replace"
    BY <1>4 DEF OpenCopy, Overtaking
  <2>. QED  BY <2>1 DEF UpdateState, Settled, Verified
<1>5. CASE Fetch(p)
  <2>1. PICK stage, data : update' = [update EXCEPT ![p].at = stage, ![p].data = data]
    BY <1>5 DEF Fetch
  <2>2. update[p].at = "fetch"
    BY <1>5 DEF Fetch
  <2>. QED  BY <2>1, <2>2 DEF UpdateState, Settled
<1>6. CASE StatExe(p) \/ RemoveOld(p)
  <2>1. PICK stage : update' = [update EXCEPT ![p].at = stage, ![p].page = 1]
    BY <1>6 DEF StatExe, RemoveOld, To
  <2>2. update[p].at \in {"stat", "remove"}
    BY <1>6 DEF StatExe, RemoveOld
  <2>. QED  BY <2>1, <2>2 DEF UpdateState, Settled, Verified
<1>7. CASE MoveAside(p)
  BY <1>7 DEF MoveAside, UpdateState, Settled, Verified
<1>8. CASE SearchPage(p)
  <2>1. update[p].at \in {"search", "find"}
    BY <1>8 DEF SearchPage
  <2>2. \/ update' = [update EXCEPT ![p] = NoUpdate]
        \/ update[p].at = "find" /\ update' = [update EXCEPT ![p].at = "fetch", ![p].page = 1]
        \/ \E latest :
             /\ update[p].at = "search" /\ Verdict(p, latest) = 1
             /\ update' = [update EXCEPT ![p].at = "find", ![p].page = 1, ![p].want = latest]
        \/ \E page : update' = [update EXCEPT ![p].page = page]
    BY <1>8, <2>1 DEF SearchPage, Decided, Ended, To
  <2>3. CASE update' = [update EXCEPT ![p] = NoUpdate]
    BY <2>3 DEF NoUpdate, Settled, Verified
  <2>4. CASE update[p].at = "find" /\ update' = [update EXCEPT ![p].at = "fetch", ![p].page = 1]
    BY <2>4 DEF UpdateState, Settled
  <2>5. ASSUME NEW latest, update[p].at = "search", Verdict(p, latest) = 1,
               update' = [update EXCEPT ![p].at = "find", ![p].page = 1, ![p].want = latest]
        PROVE  ~ update[p].force => Compare(update'[p].want, update[p].runs) = 1
    <3>1. update'[p].want = latest
      BY <2>5 DEF UpdateState
    <3>. QED  BY <2>5, <3>1 DEF Verdict
  <2>6. CASE \E page : update' = [update EXCEPT ![p].page = page]
    BY <2>6, <2>1 DEF UpdateState, Settled, Verified
  <2>. QED  BY <2>2, <2>3, <2>4, <2>5, <2>6
<1>. QED  BY <1>1, <1>2, <1>3, <1>4, <1>5, <1>6, <1>7, <1>8 DEF Move

\* A version is put in place by one who then ends, and overtakes all others.
LEMMA Replacing ==
    ASSUME UpdatesTyped, Current, NEW p \in Procs, Move(p), ~ Start(p), last' # last
    PROVE  /\ last' = update[p].data
           /\ update'[p].at = "idle"
           /\ update[p].at \in Verified
           /\ exe' = last'
           /\ \A q \in Procs \ {p} : update'[q].at # "idle" => update'[q].overtaken
<1>. update \in [Procs -> UpdateState]
  BY DEF UpdatesTyped
<1>1. RenameOver(p) \/ MoveIn(p) \/ FinishCopy(p)
  BY DEF Move, Leave, SearchPage, Fetch, OpenCopy, StatExe, RemoveOld, MoveAside, KillUpdate
<1>2. update' = Overtaking(p, [update EXCEPT ![p] = NoUpdate]) /\ update[p].at \in Verified
  BY <1>1 DEF RenameOver, MoveIn, FinishCopy, Ended, Verified
<1>3. update'[p].at = "idle"
  BY <1>2 DEF Overtaking, NoUpdate
<1>4. ASSUME NEW q \in Procs \ {p}, update'[q].at # "idle"
      PROVE  update'[q].overtaken
  <2>1. update'[q] = IF update[q].at # "idle" THEN [update[q] EXCEPT !.overtaken = TRUE]
                                              ELSE update[q]
    BY <1>2, <1>4 DEF Overtaking
  <2>. QED  BY <1>4, <2>1 DEF UpdateState
<1>5. last' = update[p].data /\ exe' = last'
  <2>1. CASE RenameOver(p) \/ MoveIn(p)
    BY <2>1 DEF RenameOver, MoveIn
  <2>2. CASE FinishCopy(p)
    <3>1. exe' \in Whole /\ last' = exe'
      BY <2>2 DEF FinishCopy
    <3>2. exe' # exe /\ exe' # Torn
      BY <3>1, Kinds DEF Current
    <3>. QED  BY <2>2, <3>1, <3>2 DEF FinishCopy
  <2>. QED  BY <1>1, <2>1, <2>2
<1>. QED  BY <1>2, <1>3, <1>4, <1>5

LEMMA MoveStaysCurrent ==
    ASSUME UpdatesTyped, Current, NEW p \in Procs, Move(p)
    PROVE  Current'
<1>. update \in [Procs -> UpdateState]
  BY DEF UpdatesTyped
<1>1. CASE Start(p)
  <2>1. PICK stage \in {"search", "busy"}, force \in BOOLEAN : Launch(p, stage, force)
    BY <1>1 DEF Start
  <2>2. /\ exe \in Whole /\ UNCHANGED <<exe, last>>
        /\ \A q \in Procs \ {p} : update'[q] = update[q]
        /\ update'[p].at = stage /\ update'[p].runs = exe
    BY <2>1 DEF Launch, NoUpdate
  <2>. QED  BY <2>2 DEF Current, Settled, Verified
<1>2. CASE ~ Start(p)
  <2>1. exe' \in Whole => exe' = last'
    <3>1. CASE last' # last
      BY <1>2, <3>1, Replacing
    <3>2. CASE last' = last
      <4>1. CASE Leave(p) \/ SearchPage(p) \/ Fetch(p) \/ StatExe(p) \/ RemoveOld(p) \/ KillUpdate(p)
        <5>1. exe' = exe
          BY <4>1 DEF Leave, SearchPage, Fetch, StatExe, RemoveOld, KillUpdate
        <5>. QED  BY <3>2, <5>1 DEF Current
      <4>2. CASE RenameOver(p) \/ MoveIn(p)
        BY <4>2 DEF RenameOver, MoveIn
      <4>3. CASE FinishCopy(p)
        BY <4>3 DEF FinishCopy
      <4>4. CASE OpenCopy(p) \/ MoveAside(p)
        <5>1. exe' \in {Torn, Missing}
          BY <4>4 DEF OpenCopy, MoveAside
        <5>. QED  BY <5>1, Kinds
      <4>. QED  BY <1>2, <4>1, <4>2, <4>3, <4>4 DEF Move
    <3>. QED  BY <3>1, <3>2
  <2>2. ASSUME NEW q \in Procs, update'[q].at # "idle", ~ update'[q].overtaken
        PROVE  last' = update'[q].runs
    <3>1. /\ update[q].at # "idle" /\ ~ update[q].overtaken
          /\ update'[q].runs = update[q].runs
      BY <1>2, <2>2, Carries
    <3>2. last' = last
      BY <1>2, <2>2, Replacing
    <3>. QED  BY <3>1, <3>2 DEF Current
  <2>3. ASSUME NEW q \in Procs, update'[q].at \in Settled, ~ update'[q].force
        PROVE  Compare(update'[q].want, update'[q].runs) = 1
    <3>1. update'[q].at # "idle"
      BY <2>3 DEF Settled, Verified
    <3>2. PICK want, runs : /\ want = update'[q].want /\ runs = update'[q].runs
                            /\ runs = update[q].runs /\ ~ update[q].force
      BY <1>2, <2>3, <3>1, Carries
    <3>3. CASE q = p
      BY <2>3, <3>2, <3>3, SettlesOnce DEF Current
    <3>4. CASE q # p
      <4>1. want = update[q].want /\ update[q].at \in Settled
        BY <1>2, <2>3, <3>1, <3>2, <3>4, Carries
      <4>. QED  BY <3>2, <4>1 DEF Current
    <3>. QED  BY <3>3, <3>4
  <2>. QED  BY <2>1, <2>2, <2>3 DEF Current
<1>. QED  BY <1>1, <1>2

LEMMA AlwaysCurrent == Spec => []Current
<1>1. Init => Current
  <2>. SUFFICES ASSUME Init  PROVE Current
    OBVIOUS
  <2>. QED  BY DEF Init, UpdateInit, NoUpdate, Current, Settled, Verified
<1>2. ASSUME Typed, Current, [Next]_vars
      PROVE  Current'
  <2>1. CASE UNCHANGED updateVars
    BY <2>1, <1>2 DEF updateVars, Current
  <2>2. CASE Publication
    <3>1. UNCHANGED <<exe, last, update>>
      BY <2>2 DEF Publication, PublishServer, Retract, PublishCLI
    <3>. QED  BY <1>2, <3>1 DEF Current
  <2>. QED  BY <1>2, <2>1, <2>2, SystemStep, MoveStaysCurrent DEF Typed
<1>. QED  BY <1>1, <1>2, AlwaysTyped, PTL DEF Spec

\* `placard update` without --force never silently puts an older version in
\* place: it goes back only if another update replaced the executable after it
\* had begun, whatever is published or withdrawn meanwhile.
THEOREM NobodyIsTakenBack == Spec => NoSilentDowngrade
<1>1. ASSUME Typed, Current, [Next]_vars
      PROVE  [\A p \in Procs :
                update[p].at # "idle" /\ IsRelease(last) /\ Compare(last', last) < 0
                   /\ update'[p].at = "idle" /\ last' = update[p].data
                => update[p].force \/ update[p].overtaken]_updateVars
  <2>1. SUFFICES ASSUME NEW p \in Procs, update[p].at # "idle", Compare(last', last) < 0,
                        update'[p].at = "idle", ~ update[p].force, ~ update[p].overtaken
                 PROVE  FALSE
    OBVIOUS
  <2>2. last' # last
    BY <2>1, AsNewAsItself
  <2>3. PICK q \in Procs : Move(q) /\ ~ Start(q)
    <3>1. PICK q \in Procs : Move(q)
      BY <1>1, <2>2, SystemStep DEF updateVars, Publication, PublishServer, Retract, PublishCLI
    <3>2. ~ Start(q)
      BY <2>2 DEF Start, Launch
    <3>. QED  BY <3>1, <3>2
  <2>4. /\ last' = update[q].data /\ update[q].at \in Verified
        /\ \A r \in Procs \ {q} : update'[r].at # "idle" => update'[r].overtaken
    BY <1>1, <2>2, <2>3, Replacing DEF Typed
  <2>5. p = q
    BY <1>1, <2>1, <2>3, MoveAts DEF Typed
  <2>6. last = update[p].runs /\ Compare(update[p].want, update[p].runs) = 1
    BY <1>1, <2>1, <2>4, <2>5 DEF Current, Settled
  <2>7. last' = update[p].want
    BY <1>1, <2>4, <2>5 DEF Typed, UpdatesTyped, Genuine
  <2>. QED  BY <2>1, <2>6, <2>7
<1>. QED  BY <1>1, AlwaysTyped, AlwaysCurrent, PTL DEF Spec, NoSilentDowngrade

-----------------------------------------------------------------------------
(***************************************************************************)
(* What a search has passed over, and whom it told to be up to date.       *)
(***************************************************************************)
IsCLI(i) == releases[i].tag = "cli"

\* While releases go up and none is withdrawn, the list is in order;
Descending ==
    ordered => \A i, j \in DOMAIN releases :
                 i < j /\ IsCLI(i) /\ IsCLI(j) =>
                   Compare(releases[i].version, releases[j].version) > 0

\* what a search knew of when it began is still ahead of it, because the list
\* only ever grows at the end that has been read;
Ahead ==
    ordered => \A p \in Procs : update[p].at = "search" =>
                 \A v \in update[p].known :
                   /\ v.pre = <<>>
                   /\ \E k \in DOMAIN releases :
                        /\ (update[p].page - 1) * PerPage < k
                        /\ IsCLI(k) /\ releases[k].version = v

\* and whoever was told to be up to date is no older than what it knew of.
Reassured == \A r \in assured : \A v \in r.known : Compare(r.runs, v) >= 0

\* A search that was not forced is of a release.
Searching ==
    \A p \in Procs : update[p].at = "search" /\ ~ update[p].force => IsRelease(update[p].runs)

Upward == Descending /\ Ahead /\ Searching /\ Reassured

LEMMA KnownVersions ==
    ASSUME UpdatesTyped, NEW i \in DOMAIN releases, IsCLI(i)
    PROVE  releases[i].version \in Published
<1>1. releases[i] \in Release
  BY DEF UpdatesTyped
<1>. QED  BY <1>1 DEF IsCLI, Release

\* The first match of a search is the newest of what it knew of, or newer; who
\* compares as the same may be told to be up to date.
LEMMA Reassuring ==
    ASSUME UpdatesTyped, Upward, ordered, NEW p \in Procs, update[p].at = "search",
           NEW first \in List(releases, update[p].page),
           Matches(p, Page(releases, update[p].page)[first]),
           \A i \in List(releases, update[p].page) :
             Matches(p, Page(releases, update[p].page)[i]) => first <= i,
           Verdict(p, Page(releases, update[p].page)[first].version) = 0,
           NEW v \in update[p].known
    PROVE  Compare(update[p].runs, v) >= 0
<1>. update \in [Procs -> UpdateState] /\ update[p] \in UpdateState /\ releases \in Seq(Release)
  BY DEF UpdatesTyped
<1>1. PICK page \in Nat \ {0} : page = update[p].page
  BY DEF UpdateState
<1>2. PICK before \in Nat :
        /\ before = (page - 1) * PerPage
        /\ \A i \in DOMAIN Page(releases, page) :
             i <= PerPage /\ before + i \in DOMAIN releases
               /\ Page(releases, page)[i] = releases[before + i]
        /\ \A k \in DOMAIN releases :
             before < k /\ k <= before + PerPage => k - before \in DOMAIN Page(releases, page)
        /\ DOMAIN Page(releases, page) \subseteq Nat
  <2>1. PICK before \in Nat :
          /\ before = (page - 1) * PerPage
          /\ Len(Page(releases, page)) \in Nat
          /\ DOMAIN Page(releases, page) = 1 .. Len(Page(releases, page))
          /\ \A i \in DOMAIN Page(releases, page) :
               i <= PerPage /\ before + i \in DOMAIN releases
                 /\ Page(releases, page)[i] = releases[before + i]
          /\ \A k \in DOMAIN releases :
               before < k /\ k <= before + PerPage => k - before \in DOMAIN Page(releases, page)
    BY PageShows, Zenon
  <2>2. DOMAIN Page(releases, page) \subseteq Nat
    BY <2>1
  <2>. QED  BY <2>1, <2>2, Zenon
<1>3. PICK latest : latest = Page(releases, page)[first].version
  OBVIOUS
<1>4. /\ first \in DOMAIN Page(releases, page) /\ first \in Nat
      /\ before + first \in DOMAIN releases /\ IsCLI(before + first) /\ first <= PerPage
      /\ latest = releases[before + first].version
  BY <1>1, <1>2, <1>3 DEF List, IsCLI
<1>5. latest \in Versions /\ latest.pre = <<>>
  <2>1. latest \in Published
    BY <1>4, KnownVersions
  <2>2. Stable(Page(releases, page)[first])
    BY <1>1 DEF Matches
  <2>. QED  BY <1>3, <2>1, <2>2, Kinds DEF Stable
<1>6. ~ update[p].force /\ Compare(latest, update[p].runs) = 0
  BY <1>1, <1>3 DEF Verdict
<1>7. update[p].runs \in Versions
  <2>1. update[p].runs # LocalBuild
    BY <1>6 DEF Upward, Searching, IsRelease
  <2>. QED  BY <2>1, Kinds DEF UpdateState
<1>8. v.pre = <<>> /\ v \in Versions
  <2>1. v \in Published
    BY DEF UpdateState
  <2>. QED  BY <2>1, Kinds DEF Upward, Ahead
<1>9. PICK k \in DOMAIN releases : before < k /\ IsCLI(k) /\ releases[k].version = v
  BY <1>1, <1>2 DEF Upward, Ahead
<1>10. PerPage \in Nat /\ k \in Nat
  BY ReleasesAssumption
<1>11. before + first <= k
  <2>1. CASE k <= before + PerPage
    <3>1. PICK i \in DOMAIN Page(releases, page) : i = k - before
      BY <1>2, <1>9, <2>1
    <3>2. Page(releases, page)[i] = releases[k]
      BY <1>2, <1>10, <3>1
    <3>3. i \in List(releases, page) /\ Stable(Page(releases, page)[i])
      BY <1>8, <1>9, <3>2 DEF List, IsCLI, Stable
    <3>4. first <= i
      BY <1>1, <3>3 DEF Matches
    <3>. QED  BY <1>2, <1>4, <1>10, <3>1, <3>4
  <2>2. CASE ~ (k <= before + PerPage)
    BY <1>4, <1>10, <2>2
  <2>. QED  BY <2>1, <2>2
<1>12. Compare(latest, v) >= 0
  <2>1. CASE before + first = k
    BY <1>4, <1>9, <2>1, AsNewAsItself
  <2>2. CASE before + first # k
    <3>1. before + first < k
      BY <1>4, <1>10, <1>11, <2>2
    <3>2. Compare(releases[before + first].version, releases[k].version) > 0
      BY <1>4, <1>9, <3>1 DEF Upward, Descending
    <3>3. Compare(latest, v) > 0
      BY <1>4, <1>9, <3>2
    <3>. QED  BY <3>3, CompareIs
  <2>. QED  BY <2>1, <2>2
<1>. QED  BY <1>5, <1>6, <1>7, <1>8, <1>12, AtLeastAsNew

\* A search that finds nothing on a page has all it knew of on the pages ahead.
LEMMA StillAhead ==
    ASSUME UpdatesTyped, Upward, ordered, NEW p \in Procs, update[p].at = "search",
           \A i \in List(releases, update[p].page) :
             ~ Matches(p, Page(releases, update[p].page)[i]),
           NEW v \in update[p].known
    PROVE  /\ v.pre = <<>>
           /\ \E k \in DOMAIN releases :
                /\ update[p].page * PerPage < k
                /\ IsCLI(k) /\ releases[k].version = v
<1>. update \in [Procs -> UpdateState] /\ update[p] \in UpdateState /\ releases \in Seq(Release)
  BY DEF UpdatesTyped
<1>1. PICK page \in Nat \ {0} : page = update[p].page
  BY DEF UpdateState
<1>2. PICK before \in Nat :
        /\ before = (page - 1) * PerPage /\ before + PerPage = page * PerPage
        /\ \A i \in DOMAIN Page(releases, page) :
             i <= PerPage /\ before + i \in DOMAIN releases
               /\ Page(releases, page)[i] = releases[before + i]
        /\ \A k \in DOMAIN releases :
             before < k /\ k <= before + PerPage => k - before \in DOMAIN Page(releases, page)
  BY PageShows, Zenon
<1>3. v.pre = <<>>
  BY DEF Upward, Ahead
<1>4. PICK k \in DOMAIN releases : before < k /\ IsCLI(k) /\ releases[k].version = v
  BY <1>1, <1>2 DEF Upward, Ahead
<1>5. PerPage \in Nat /\ k \in Nat
  BY ReleasesAssumption
<1>6. ~ (k <= before + PerPage)
  <2>1. SUFFICES ASSUME k <= before + PerPage  PROVE FALSE
    OBVIOUS
  <2>2. PICK i \in DOMAIN Page(releases, page) : i = k - before
    BY <1>2, <1>4, <2>1
  <2>3. Page(releases, page)[i] = releases[k]
    BY <1>2, <1>5, <2>2
  <2>4. i \in List(releases, page) /\ Stable(Page(releases, page)[i])
    BY <1>3, <1>4, <2>3 DEF List, IsCLI, Stable
  <2>. QED  BY <1>1, <2>4 DEF Matches
<1>7. before + PerPage < k
  BY <1>5, <1>6
<1>8. page * PerPage < k
  BY <1>2, <1>7
<1>. QED  BY <1>1, <1>3, <1>4, <1>8

LEMMA MoveUpward ==
    ASSUME UpdatesTyped, Upward, NEW p \in Procs, Move(p)
    PROVE  Upward'
<1>. update \in [Procs -> UpdateState] /\ update[p] \in UpdateState /\ releases \in Seq(Release)
  BY DEF UpdatesTyped
<1>1. UNCHANGED <<releases, ordered>>
  BY DEF Move, Start, Launch, Leave, SearchPage, Fetch, RenameOver, OpenCopy, FinishCopy,
         StatExe, RemoveOld, MoveAside, MoveIn, KillUpdate
<1>2. Descending'
  BY <1>1 DEF Upward, Descending, IsCLI
<1>3. Reassured'
  <2>1. CASE assured' = assured
    BY <2>1 DEF Upward, Reassured
  <2>2. CASE assured' # assured
    <3>1. SearchPage(p)
      BY <2>2 DEF Move, Start, Launch, Leave, Fetch, RenameOver, OpenCopy, FinishCopy,
                  StatExe, RemoveOld, MoveAside, MoveIn, KillUpdate
    <3>2. PICK first \in {i \in List(releases, update[p].page) :
                           Matches(p, Page(releases, update[p].page)[i])} :
            /\ \A i \in {j \in List(releases, update[p].page) :
                          Matches(p, Page(releases, update[p].page)[j])} : first <= i
            /\ Assure(p, Page(releases, update[p].page)[first].version)
      BY <2>2, <3>1 DEF SearchPage
    <3>3. /\ update[p].at = "search" /\ ordered
          /\ Verdict(p, Page(releases, update[p].page)[first].version) = 0
          /\ assured' = assured \cup {[runs |-> update[p].runs, known |-> update[p].known]}
      BY <2>2, <3>2 DEF Assure
    <3>4. \A v \in update[p].known : Compare(update[p].runs, v) >= 0
      BY <3>2, <3>3, Reassuring
    <3>5. PICK r : r.runs = update[p].runs /\ r.known = update[p].known /\ assured' = assured \cup {r}
      BY <3>3
    <3>. QED  BY <3>4, <3>5 DEF Upward, Reassured
  <2>. QED  BY <2>1, <2>2
<1>4. Ahead' /\ Searching'
  <2>1. CASE Start(p)
    <3>1. PICK stage \in {"search", "busy"}, force \in BOOLEAN :
            Launch(p, stage, force) /\ (stage = "search" => IsRelease(exe) \/ force)
      BY <2>1 DEF Start
    <3>2. /\ \A q \in Procs \ {p} : update'[q] = update[q]
          /\ update'[p].at = stage /\ update'[p].page = 1 /\ update'[p].runs = exe
          /\ update'[p].force = force
          /\ stage = "search" => update'[p].known = StableVersions
      BY <3>1 DEF Launch, NoUpdate
    <3>3. ASSUME NEW v \in StableVersions
          PROVE  /\ v.pre = <<>>
                 /\ \E k \in DOMAIN releases :
                      (1 - 1) * PerPage < k /\ IsCLI(k) /\ releases[k].version = v
      <4>1. PICK k \in DOMAIN releases : IsCLI(k) /\ releases[k].version = v /\ v.pre = <<>>
        BY DEF StableVersions, IsCLI, Stable
      <4>2. 0 < k /\ (1 - 1) * PerPage = 0
        BY ReleasesAssumption
      <4>. QED  BY <4>1, <4>2
    <3>4. Ahead'
      BY <1>1, <3>2, <3>3 DEF Upward, Ahead, IsCLI
    <3>5. Searching'
      BY <3>1, <3>2 DEF Upward, Searching, IsRelease
    <3>. QED  BY <3>4, <3>5
  <2>2. CASE ~ Start(p)
    <3>1. ASSUME NEW q \in Procs, update'[q].at = "search"
          PROVE  /\ update[q].at = "search"
                 /\ update'[q].runs = update[q].runs /\ update'[q].force = update[q].force
                 /\ update'[q].known = update[q].known
                 /\ \/ update'[q].page = update[q].page
                    \/ /\ update'[q].page = update[q].page + 1
                       /\ \A i \in List(releases, update[q].page) :
                            ~ Matches(q, Page(releases, update[q].page)[i])
      <4>1. /\ update'[q].runs = update[q].runs /\ update'[q].force = update[q].force
            /\ update'[q].known = update[q].known
        BY <2>2, <3>1, Carries
      <4>2. CASE q # p
        <5>1. update'[q].at = update[q].at /\ update'[q].page = update[q].page
          BY <2>2, <3>1, <4>2, Carries
        <5>. QED  BY <3>1, <4>1, <5>1
      <4>3. CASE q = p
        <5>1. CASE SearchPage(p)
          <6>1. CASE update' = [update EXCEPT ![p].page = update[p].page + 1]
            <7>1. update[p].at = "search" /\ update'[p].page = update[p].page + 1
              BY <3>1, <4>3, <6>1 DEF UpdateState
            <7>2. \A i \in List(releases, update[p].page) :
                    ~ Matches(p, Page(releases, update[p].page)[i])
              <8>1. CASE \E first : update' = IF update[p].at = "search"
                                             THEN Decided(p, Page(releases, update[p].page)[first].version)
                                             ELSE To(p, "fetch")
                <9>1. update'[p].at \in {"find", "idle"}
                  BY <7>1, <8>1 DEF Decided, Ended, NoUpdate, UpdateState
                <9>. QED  BY <3>1, <4>3, <9>1
              <8>. QED  BY <5>1, <8>1 DEF SearchPage
            <7>. QED  BY <4>1, <4>3, <7>1, <7>2
          <6>2. CASE update' # [update EXCEPT ![p].page = update[p].page + 1]
            <7>1. update'[p].at \in {"find", "fetch", "idle"}
              BY <5>1, <6>2 DEF SearchPage, Decided, Ended, To, NoUpdate, UpdateState
            <7>. QED  BY <3>1, <4>3, <7>1
          <6>. QED  BY <6>1, <6>2
        <5>2. CASE ~ SearchPage(p)
          <6>1. update'[p].at # "search"
            <7>1. CASE Leave(p) \/ KillUpdate(p)
              BY <7>1 DEF Leave, KillUpdate, Ended, NoUpdate
            <7>2. CASE Fetch(p) \/ StatExe(p) \/ RemoveOld(p)
              BY <7>2 DEF Fetch, StatExe, RemoveOld, To, UpdateState
            <7>3. CASE RenameOver(p) \/ FinishCopy(p) \/ MoveIn(p)
              BY <7>3 DEF RenameOver, FinishCopy, MoveIn, Overtaking, Ended, NoUpdate
            <7>4. CASE OpenCopy(p)
              <8>1. update'[p] = [update[p] EXCEPT !.at = "copy"]
                BY <7>4 DEF OpenCopy, Overtaking
              <8>. QED  BY <8>1 DEF UpdateState
            <7>5. CASE MoveAside(p)
              BY <7>5 DEF MoveAside, UpdateState
            <7>. QED  BY <2>2, <5>2, <7>1, <7>2, <7>3, <7>4, <7>5 DEF Move
          <6>. QED  BY <3>1, <4>3, <6>1
        <5>. QED  BY <5>1, <5>2
      <4>. QED  BY <4>2, <4>3
    <3>2. Searching'
      BY <3>1 DEF Upward, Searching
    <3>3. Ahead'
      <4>1. SUFFICES ASSUME ordered, NEW q \in Procs, update'[q].at = "search",
                            NEW v \in update'[q].known
                     PROVE  /\ v.pre = <<>>
                            /\ \E k \in DOMAIN releases :
                                 /\ (update'[q].page - 1) * PerPage < k
                                 /\ IsCLI(k) /\ releases[k].version = v
        BY <1>1 DEF Ahead, IsCLI
      <4>2. update[q].at = "search" /\ v \in update[q].known
        BY <3>1, <4>1
      <4>3. CASE update'[q].page = update[q].page
        BY <4>1, <4>2, <4>3 DEF Upward, Ahead
      <4>4. CASE /\ update'[q].page = update[q].page + 1
                 /\ \A i \in List(releases, update[q].page) :
                      ~ Matches(q, Page(releases, update[q].page)[i])
        <5>1. v.pre = <<>> /\ \E k \in DOMAIN releases :
                update[q].page * PerPage < k /\ IsCLI(k) /\ releases[k].version = v
          BY <4>1, <4>2, <4>4, StillAhead
        <5>2. update[q] \in UpdateState /\ update[q].page \in Nat
          BY DEF UpdateState
        <5>3. update'[q].page - 1 = update[q].page
          BY <4>4, <5>2
        <5>. QED  BY <5>1, <5>3, Zenon
      <4>. QED  BY <3>1, <4>1, <4>3, <4>4
    <3>. QED  BY <3>2, <3>3
  <2>. QED  BY <2>1, <2>2
<1>. QED  BY <1>2, <1>3, <1>4 DEF Upward

LEMMA PublicationUpward ==
    ASSUME UpdatesTyped, Upward, Publication
    PROVE  Upward'
<1>. releases \in Seq(Release) /\ update \in [Procs -> UpdateState]
  BY DEF UpdatesTyped
<1>1. UNCHANGED <<update, assured>>
  BY DEF Publication, PublishServer, Retract, PublishCLI
<1>2. Searching' /\ Reassured'
  BY <1>1 DEF Upward, Searching, Reassured
<1>3. CASE ~ ordered'
  BY <1>2, <1>3 DEF Upward, Descending, Ahead
<1>4. ASSUME ordered, NEW r \in Release, releases' = <<r>> \o releases,
             r.tag = "cli" => \A i \in DOMAIN releases : IsCLI(i) =>
                                Compare(r.version, releases[i].version) > 0
      PROVE  Descending' /\ Ahead'
  <2>1. /\ DOMAIN releases' = 1 .. Len(releases) + 1 /\ releases'[1] = r
        /\ \A i \in DOMAIN releases : i + 1 \in DOMAIN releases' /\ releases'[i + 1] = releases[i]
        /\ \A i \in DOMAIN releases' \ {1} : i - 1 \in DOMAIN releases /\ releases'[i] = releases[i - 1]
    BY <1>4
  <2>2. Descending'
    <3>1. ASSUME NEW i \in DOMAIN releases', NEW j \in DOMAIN releases',
                 i < j, releases'[i].tag = "cli", releases'[j].tag = "cli"
          PROVE  Compare(releases'[i].version, releases'[j].version) > 0
      <4>1. j - 1 \in DOMAIN releases /\ releases'[j] = releases[j - 1] /\ IsCLI(j - 1)
        BY <2>1, <3>1 DEF IsCLI
      <4>2. CASE i = 1
        BY <1>4, <2>1, <3>1, <4>1, <4>2
      <4>3. CASE i # 1
        <5>1. i - 1 \in DOMAIN releases /\ releases'[i] = releases[i - 1] /\ IsCLI(i - 1)
          BY <2>1, <3>1, <4>3 DEF IsCLI
        <5>2. i - 1 < j - 1
          BY <2>1, <3>1
        <5>3. Compare(releases[i - 1].version, releases[j - 1].version) > 0
          BY <1>4, <4>1, <5>1, <5>2 DEF Upward, Descending
        <5>. QED  BY <4>1, <5>1, <5>3
      <4>. QED  BY <4>2, <4>3
    <3>. QED  BY <3>1 DEF Descending, IsCLI
  <2>3. Ahead'
    <3>1. SUFFICES ASSUME NEW q \in Procs, update[q].at = "search", NEW v \in update[q].known
                   PROVE  /\ v.pre = <<>>
                          /\ \E k \in DOMAIN releases' :
                               /\ (update[q].page - 1) * PerPage < k
                               /\ releases'[k].tag = "cli" /\ releases'[k].version = v
      BY <1>1 DEF Ahead, IsCLI
    <3>2. update[q].page \in Nat \ {0} /\ PerPage \in Nat
      BY ReleasesAssumption DEF UpdateState
    <3>3. PICK before \in Nat : before = (update[q].page - 1) * PerPage
      BY <3>2
    <3>4. PICK k \in DOMAIN releases : before < k /\ IsCLI(k) /\ releases[k].version = v
      BY <1>4, <3>1, <3>3 DEF Upward, Ahead
    <3>5. k + 1 \in DOMAIN releases' /\ releases'[k + 1] = releases[k] /\ before < k + 1
      BY <2>1, <3>4
    <3>6. v.pre = <<>>
      BY <1>4, <3>1 DEF Upward, Ahead
    <3>. QED  BY <3>3, <3>4, <3>5, <3>6 DEF IsCLI
  <2>. QED  BY <2>2, <2>3
<1>5. CASE PublishServer
  <2>1. [tag |-> "server"] \in Release
    BY DEF Release
  <2>2. CASE ordered
    <3>1. PICK r \in Release : r = [tag |-> "server"] /\ r.tag # "cli"
      BY <2>1
    <3>2. releases' = <<r>> \o releases
      BY <1>5, <3>1 DEF PublishServer
    <3>. QED  BY <1>2, <1>4, <2>2, <3>1, <3>2 DEF Upward
  <2>3. CASE ~ ordered
    BY <1>3, <1>5, <2>3 DEF PublishServer
  <2>. QED  BY <2>2, <2>3
<1>6. CASE Retract
  <2>1. ordered' = FALSE
    BY <1>6 DEF Retract
  <2>. QED  BY <1>3, <2>1
<1>7. ASSUME NEW v \in Published, PublishCLI(v)
      PROVE  Upward'
  <2>1. CASE ordered'
    <3>1. PICK r \in Release : r = [tag |-> "cli", version |-> v] /\ r.version = v
      <4>1. [tag |-> "cli", version |-> v] \in Release
        BY <1>7 DEF Release
      <4>. QED  BY <4>1
    <3>2. releases' = <<r>> \o releases
      BY <1>7, <3>1 DEF PublishCLI
    <3>3. ordered /\ \A i \in DOMAIN releases : IsCLI(i) => Compare(v, releases[i].version) > 0
      BY <1>7, <2>1 DEF PublishCLI, IsCLI
    <3>. QED  BY <1>2, <1>4, <3>1, <3>2, <3>3 DEF Upward
  <2>. QED  BY <1>3, <2>1
<1>. QED  BY <1>5, <1>6, <1>7 DEF Publication

\* While releases go up and none is withdrawn, whoever `placard update` told to
\* be up to date passes MinCLIVersion on every server whose minimum is a stable
\* release that was out when it asked: however long the list, however many
\* pages it is read in, and whatever is published between two of them.
THEOREM UpToDateIsLetIn == Spec => []UpToDateIsAdmitted
<1>1. Init => Upward
  <2>. SUFFICES ASSUME Init  PROVE Upward
    OBVIOUS
  <2>1. PICK v \in Published : releases = <<[tag |-> "cli", version |-> v]>>
    BY DEF Init, UpdateInit
  <2>2. Descending
    BY <2>1 DEF Descending
  <2>3. Ahead /\ Searching /\ Reassured
    BY DEF Init, UpdateInit, NoUpdate, Ahead, Searching, Reassured
  <2>. QED  BY <2>2, <2>3 DEF Upward
<1>2. ASSUME Typed, Upward, [Next]_vars
      PROVE  Upward'
  <2>1. CASE UNCHANGED updateVars
    BY <1>2, <2>1 DEF updateVars, Upward, Descending, Ahead, Searching, Reassured, IsCLI
  <2>. QED  BY <1>2, <2>1, SystemStep, MoveUpward, PublicationUpward DEF Typed
<1>3. Upward => UpToDateIsAdmitted
  BY DEF Upward, Reassured, UpToDateIsAdmitted, Admits
<1>. QED  BY <1>1, <1>2, <1>3, AlwaysTyped, PTL DEF Spec

=============================================================================
