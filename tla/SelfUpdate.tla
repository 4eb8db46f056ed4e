----------------------------- MODULE SelfUpdate -----------------------------
(***************************************************************************)
(* `placard update`: find the newest release, decide, find it again to     *)
(* download it, verify it, replace the executable.  Several run at once,   *)
(* releases are published and retracted meanwhile, any step may fail and   *)
(* any process may be killed.                                              *)
(*                                                                         *)
(* Elsewhere than on Windows the new file is renamed over the executable,  *)
(* or copied into it when that fails.  On Windows the running executable   *)
(* cannot be replaced and is renamed out of the way first.                 *)
(***************************************************************************)
EXTENDS Releases, FiniteSets

CONSTANTS
    Procs,          \* commands that may run at once
    Published,      \* versions that may be published
    Installed,      \* versions that may be installed at first
    Platforms,      \* "unix", "windows"
    MaxReleases,    \* bound: releases in the list
    Garbage, Torn, Missing      \* what a path may hold beside a whole executable

ASSUME SelfUpdateAssumption ==
    /\ Platforms \subseteq {"unix", "windows"}
    /\ Garbage \notin {Torn, Missing} /\ Torn # Missing
    /\ {LocalBuild, Garbage, Torn, Missing} \cap Published = {}
    /\ {Garbage, Torn, Missing} \cap Installed = {}
    /\ Published \subseteq Versions /\ Installed \subseteq Versions \cup {LocalBuild}

VARIABLES
    platform,
    releases,       \* the repository's releases, newest first
    exe, old,       \* what is at the executable's path, and at <path>.old
    update,         \* the update each process runs
    ordered,        \* history: releases went up, and none was retracted
    copies,         \* processes that write the file at that path
    fellBack,       \* history: that file was copied into
    last,           \* history: the version last in place
    assured         \* history: who was told to be up to date, knowing what

updateVars == <<platform, releases, exe, old, update, ordered, copies,
                fellBack, last, assured>>

-----------------------------------------------------------------------------
(***************************************************************************)
(* What a path holds: an executable of some version, the garbage of a      *)
(* download, part of a file, or nothing.                                   *)
(***************************************************************************)
Whole == Published \cup Installed
Contents == Whole \cup {Garbage, Torn, Missing}

Stages == {"idle", "busy", "search", "find", "fetch", "replace", "copy",
           "stat", "remove", "aside", "in"}

(***************************************************************************)
(* runs      the version of the process's own image                        *)
(* image     where that image is by now                                    *)
(* page      of the release list, next to be read                          *)
(* want      the version being installed                                   *)
(* data      what was downloaded                                           *)
(* overtaken history: the executable changed since the command began       *)
(* known     history: the stable releases there were when it began         *)
(***************************************************************************)
NoUpdate == [at |-> "idle", runs |-> LocalBuild, image |-> "gone", force |-> FALSE,
             page |-> 1, want |-> LocalBuild, data |-> Missing,
             overtaken |-> FALSE, known |-> {}]

UpdateTypeOK ==
    /\ platform \in Platforms
    /\ exe \in Contents /\ old \in Contents
    /\ \A p \in Procs :
         /\ update[p].at \in Stages
         /\ update[p].image \in {"path", "old", "gone"}
         /\ update[p].page \in 1 .. MaxPages
    /\ ordered \in BOOLEAN /\ fellBack \in BOOLEAN
    /\ copies \subseteq Procs /\ last \in Whole

UpdateInit ==
    /\ platform \in Platforms
    /\ releases \in {<<[tag |-> "cli", version |-> v]>> : v \in Published}
    /\ exe \in Installed /\ old = Missing
    /\ update = [p \in Procs |-> NoUpdate]
    /\ ordered = TRUE /\ copies = {} /\ assured = {}
    /\ fellBack = FALSE /\ last = exe

To(p, stage) == [update EXCEPT ![p].at = stage, ![p].page = 1]
Ended(p) == [update EXCEPT ![p] = NoUpdate]

StableVersions == {releases[i].version : i \in {j \in DOMAIN releases :
                      releases[j].tag = "cli" /\ Stable(releases[j])}}

-----------------------------------------------------------------------------
\* A command starts from the executable, if there is a whole one.
Launch(p, stage, force) ==
    /\ update[p].at = "idle" /\ exe \in Whole
    /\ update' = [update EXCEPT ![p] =
                    [NoUpdate EXCEPT !.at = stage, !.runs = exe, !.image = "path",
                                     !.force = force,
                                     !.known = IF stage = "search" THEN StableVersions ELSE {}]]
    /\ UNCHANGED <<platform, releases, exe, old, ordered, copies, fellBack, last, assured>>

\* runUpdate: a local build updates only by force.
StartUpdate(p, force) ==
    /\ IsRelease(exe) \/ force
    /\ Launch(p, "search", force)

\* What a search accepts: Latest the first stable release, Find a version.
Matches(p, r) == IF update[p].at = "search" THEN Stable(r) ELSE r.version = update[p].want

\* resolveSelfPath: the path is a regular file's.
Resolvable == exe # Missing

\* Slip: a comparison of the CLI's own, which overlooks prereleases.
VerdictByNumbers(p, latest) ==
    IF update[p].force THEN 1 ELSE CompareCore(latest.core, update[p].runs.core)

\* Slip: whatever is not the same is new.
VerdictOther(p, latest) == IF latest # update[p].runs THEN 1 ELSE 0

\* runUpdate, once Latest has answered: 1 to install it, 0 for up to date, -1 to
\* refuse.
Verdict(p, latest) == IF update[p].force THEN 1 ELSE Compare(latest, update[p].runs)

Decided(p, latest) ==
    IF Verdict(p, latest) = 1 /\ Resolvable
    THEN [update EXCEPT ![p].at = "find", ![p].page = 1, ![p].want = latest]
    ELSE Ended(p)

Assure(p, latest) ==
    assured' = IF update[p].at = "search" /\ Verdict(p, latest) = 0 /\ ordered
               THEN assured \cup {[runs |-> update[p].runs, known |-> update[p].known]}
               ELSE assured

\* search: one page is one request; the next is for what the list has become.
SearchPage(p) ==
    /\ update[p].at \in {"search", "find"}
    /\ LET page == update[p].page
           listed == Page(releases, page)
           found == {i \in List(releases, page) : Matches(p, listed[i])} IN
       \/ \E first \in found :
            /\ \A i \in found : first <= i
            /\ update' = IF update[p].at = "search" THEN Decided(p, listed[first].version)
                                                    ELSE To(p, "fetch")
            /\ Assure(p, listed[first].version)
       \/ /\ found = {} /\ Full(releases, page) /\ page < MaxPages
          /\ update' = [update EXCEPT ![p].page = page + 1]
          /\ UNCHANGED assured
       \/ /\ found = {} /\ ~ (Full(releases, page) /\ page < MaxPages)
          /\ update' = Ended(p)
          /\ UNCHANGED assured
    /\ UNCHANGED <<platform, releases, exe, old, ordered, copies, fellBack, last>>

\* fetchBinary: the artifact, or something else (a cut download, another file).
FetchBinary(p) == {update[p].want, Garbage}

\* fetchText of checksums.txt: the versions whose artifact it has an entry for.
FetchText(p) == SUBSET {update[p].want}

\* The digest of a file stands for the file.
ChecksumFor(body, version) == IF version \in body THEN version ELSE Missing

\* Slip: no digest, no check.
VerifyIfListed(data, digest) == digest # Missing => data = digest

VerifySHA256(data, digest) == digest # Missing /\ data = digest

\* applyTo, fail-closed up to here.
Fetch(p) ==
    /\ update[p].at = "fetch"
    /\ \E body \in FetchText(p), data \in FetchBinary(p) :
         /\ VerifySHA256(data, ChecksumFor(body, update[p].want))
         /\ update' = [update EXCEPT ![p].at = IF platform = "windows" THEN "stat" ELSE "replace",
                                     ![p].data = data]
    /\ UNCHANGED <<platform, releases, exe, old, ordered, copies, fellBack, last, assured>>

\* Any request, check or write before the executable is touched may fail.
GiveUp(p) ==
    /\ update[p].at \notin {"idle", "busy", "copy"}
    /\ update' = Ended(p)
    /\ UNCHANGED <<platform, releases, exe, old, ordered, copies, fellBack, last, assured>>

-----------------------------------------------------------------------------
\* The executable is another: whoever decided by the one before is overtaken.
Overtaking(p, after) ==
    [q \in Procs |-> IF q # p /\ after[q].at # "idle" THEN [after[q] EXCEPT !.overtaken = TRUE]
                                                     ELSE after[q]]

\* writeFileAtomic: os.Rename of the staged file; a copy under way goes on into
\* a file that has no name.
RenameOver(p) ==
    /\ update[p].at = "replace"
    /\ exe' = update[p].data /\ last' = exe'
    /\ update' = Overtaking(p, Ended(p))
    /\ copies' = {} /\ fellBack' = FALSE
    /\ UNCHANGED <<platform, releases, old, ordered, assured>>

\* The rename failed: copyFile truncates the executable,
OpenCopy(p) ==
    /\ update[p].at = "replace"
    /\ exe' = Torn
    /\ update' = Overtaking(p, [update EXCEPT ![p].at = "copy"])
    /\ copies' = copies \cup {p} /\ fellBack' = TRUE
    /\ UNCHANGED <<platform, releases, old, ordered, last, assured>>

\* and writes it, which may fail; if it was not alone, the file may be a mixture.
FinishCopy(p) ==
    /\ update[p].at = "copy"
    /\ exe' \in IF p \notin copies THEN {exe}
                ELSE {Torn} \cup {d \in {update[p].data} : copies = {p}}
    /\ last' = IF exe' \in Whole THEN exe' ELSE last
    /\ update' = Overtaking(p, Ended(p))
    /\ copies' = copies \ {p}
    /\ UNCHANGED <<platform, releases, old, ordered, fellBack, assured>>

-----------------------------------------------------------------------------
\* An image that a process runs can be renamed, not removed or replaced.
InUse(place) == \E q \in Procs : update[q].at # "idle" /\ update[q].image = place

\* Windows: os.Stat of the executable,
StatExe(p) ==
    /\ update[p].at = "stat"
    /\ update' = To(p, IF exe = Missing THEN "in" ELSE "remove")
    /\ UNCHANGED <<platform, releases, exe, old, ordered, copies, fellBack, last, assured>>

\* os.Remove of what an earlier update moved aside, whether it succeeds or not.
RemoveOld(p) ==
    /\ update[p].at = "remove"
    /\ old' \in {old} \cup {c \in {Missing} : ~ InUse("old")}
    /\ update' = To(p, "aside")
    /\ UNCHANGED <<platform, releases, exe, ordered, copies, fellBack, last, assured>>

\* Where the executable may be moved.
CanMoveAside == exe # Missing /\ ~ InUse("old")

\* os.Rename to <path>.old, which takes every running image along.
MoveAside(p) ==
    /\ update[p].at = "aside" /\ CanMoveAside
    /\ old' = exe /\ exe' = Missing
    /\ update' = [q \in Procs |->
                    LET moved == IF update[q].image = "path" THEN [update[q] EXCEPT !.image = "old"]
                                                             ELSE update[q] IN
                    IF q = p THEN [moved EXCEPT !.at = "in"] ELSE moved]
    /\ UNCHANGED <<platform, releases, ordered, copies, fellBack, last, assured>>

\* os.Rename into the name that is free, or free again.
MoveIn(p) ==
    /\ update[p].at = "in" /\ ~ InUse("path")
    /\ exe' = update[p].data /\ last' = exe'
    /\ update' = Overtaking(p, Ended(p))
    /\ UNCHANGED <<platform, releases, old, ordered, copies, fellBack, assured>>

\* The process is killed.
KillUpdate(p) ==
    /\ update[p].at # "idle"
    /\ update' = Ended(p)
    /\ copies' = copies \ {p}
    /\ UNCHANGED <<platform, releases, exe, old, ordered, fellBack, last, assured>>

-----------------------------------------------------------------------------
\* A release of the CLI, or of the server, which shares the list.
PublishCLI(v) ==
    /\ Len(releases) < MaxReleases
    /\ \A i \in DOMAIN releases : releases[i].tag = "cli" => releases[i].version # v
    /\ releases' = <<[tag |-> "cli", version |-> v]>> \o releases
    /\ ordered' = (ordered /\ \A i \in DOMAIN releases :
                      releases[i].tag = "cli" => Compare(v, releases[i].version) > 0)
    /\ UNCHANGED <<platform, exe, old, update, copies, fellBack, last, assured>>

PublishServer ==
    /\ Len(releases) < MaxReleases
    /\ releases' = <<[tag |-> "server"]>> \o releases
    /\ UNCHANGED <<platform, exe, old, update, ordered, copies, fellBack, last, assured>>

\* The newest one is withdrawn.
Retract ==
    /\ Len(releases) > 1
    /\ releases' = Tail(releases)
    /\ ordered' = FALSE
    /\ UNCHANGED <<platform, exe, old, update, copies, fellBack, last, assured>>

UpdateStep(p) ==
    \/ SearchPage(p) \/ Fetch(p) \/ GiveUp(p)
    \/ RenameOver(p) \/ OpenCopy(p) \/ FinishCopy(p)
    \/ StatExe(p) \/ RemoveOld(p) \/ MoveAside(p) \/ MoveIn(p)

Publication == PublishServer \/ Retract \/ \E v \in Published : PublishCLI(v)

-----------------------------------------------------------------------------
\* Whatever fails or dies, and however many updates overlap: nothing unverified
\* is ever at the executable's path or beside it; a file is torn only where the
\* copy had to be used; and nothing is there only on Windows, between moving
\* the executable aside and moving the new one in, with the one before beside.
ExecutableSurvives ==
    /\ Garbage \notin {exe, old}
    /\ exe = Torn => fellBack
    /\ exe = Missing => platform = "windows" /\ old \in Whole

\* An update that is not forced takes the executable back to an older version
\* only if another update replaced it after this one had begun.
NoSilentDowngrade ==
    [][\A p \in Procs :
         update[p].at # "idle" /\ IsRelease(last) /\ Compare(last', last) < 0
            /\ update'[p].at = "idle" /\ last' = update[p].data
         => update[p].force \/ update[p].overtaken]_updateVars

=============================================================================
