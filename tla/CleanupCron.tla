----------------------------- MODULE CleanupCron -----------------------------
(***************************************************************************)
(* Cleanup rounds of several replicas over one deletion queue, and the     *)
(* staging files of the local object store that they sweep.                *)
(*                                                                         *)
(* The lock that keeps rounds apart is taken for a time, not for a round:  *)
(* it lapses under a slow one.  With Redis it is one lock for the          *)
(* deployment; without, each process has its own.  PageStore models what   *)
(* fills the queue, with one round at a time; here the queue starts full   *)
(* and the rounds overlap.                                                 *)
(***************************************************************************)
EXTENDS Naturals, FiniteSets, FiniteSetsExt

CONSTANTS
    Replicas,       \* processes of the server, each with a Scheduler
    Rows,           \* ids of the queue's rows, each naming an object
    Uploads,        \* uploads to the local store
    RetryCeilings,  \* values of cleanup.retry_max to explore
    Int8Max,        \* largest retry_count that scans into its int8 (127)
    MaxDeaths,      \* bound: processes that end
    None

ASSUME CronAssumption ==
    /\ IsFiniteSet(Replicas)
    /\ Rows \subseteq Nat
    /\ RetryCeilings \subseteq Nat \ {0}
    /\ Int8Max \in Nat /\ MaxDeaths \in Nat
    /\ None \notin Replicas

VARIABLES
    stopping,       \* servers that have been told to stop
    deaths,         \* processes that have ended, each replaced by a new one
    redis,          \* the deployment has Redis
    retryMax,       \* cleanup.retry_max
    lock,           \* holder of the lock that each replica takes
    round,          \* the round each replica runs
    queued, retries,\* pending_object_delete
    objects,        \* the queued keys whose object exists
    broken,         \* history: ListPending has failed to scan a row
    put,            \* each upload's PutObject
    staging,        \* each upload's staging file
    stored,         \* uploads whose object is in place
    stalled         \* history: not written to for the sweep's age while in flight

vars == <<stopping, deaths, redis, retryMax, lock, round, queued, retries, objects,
          broken, put, staging, stored, stalled>>
processVars == <<stopping, deaths, redis, retryMax>>
queueVars == <<queued, retries, objects, broken>>
storeVars == <<put, staging, stored, stalled>>

-----------------------------------------------------------------------------
RetryCap == Max(RetryCeilings) + Cardinality(Replicas)

NoRound == [at |-> "idle", rows |-> {}, lapsed |-> FALSE]

PutStages == {"idle", "staged", "written", "acked", "failed", "lost"}

TypeOK ==
    /\ stopping \subseteq Replicas
    /\ deaths \in 0 .. MaxDeaths
    /\ redis \in BOOLEAN
    /\ retryMax \in RetryCeilings
    /\ lock \in [Replicas -> Replicas \cup {None}]
    /\ \A p \in Replicas :
         /\ round[p].at \in {"idle", "list", "rows", "drop", "sweep", "release"}
         /\ round[p].rows \subseteq Rows
         /\ round[p].lapsed \in BOOLEAN
    /\ queued \subseteq Rows /\ objects \subseteq Rows
    /\ retries \in [Rows -> 0 .. RetryCap]
    /\ broken \in BOOLEAN
    /\ put \in [Uploads -> [at : PutStages, by : Replicas \cup {None}]]
    /\ staging \in [Uploads -> {"none", "fresh", "old"}]
    /\ stored \subseteq Uploads
    /\ stalled \subseteq Uploads

Init ==
    /\ stopping = {} /\ deaths = 0
    /\ redis \in BOOLEAN
    /\ retryMax \in RetryCeilings
    /\ lock = [p \in Replicas |-> None]
    /\ round = [p \in Replicas |-> NoRound]
    /\ queued = Rows /\ objects = Rows
    /\ retries = [k \in Rows |-> 0]
    /\ broken = FALSE
    /\ put = [u \in Uploads |-> [at |-> "idle", by |-> None]]
    /\ staging = [u \in Uploads |-> "none"]
    /\ stored = {} /\ stalled = {}

-----------------------------------------------------------------------------
\* Whose locks are one and the same.
Sharing(p) == IF redis THEN Replicas ELSE {p}

SetLock(p, holder) == lock' = [q \in Replicas |-> IF q \in Sharing(p) THEN holder ELSE lock[q]]

\* Run takes the lock, or skips the round.
StartRound(p) ==
    /\ p \notin stopping
    /\ round[p].at = "idle" /\ lock[p] = None
    /\ SetLock(p, p)
    /\ round' = [round EXCEPT ![p].at = "list"]
    /\ UNCHANGED <<processVars, queueVars, storeVars>>

\* The lock's time is up, whether its round has ended or not.
LockLapses(p) ==
    /\ lock[p] # None
    /\ SetLock(p, None)
    /\ round' = [round EXCEPT ![lock[p]].lapsed = (@ \/ round[lock[p]].at # "idle")]
    /\ UNCHANGED <<processVars, queueVars, storeVars>>

\* Slip: every row is retried, whatever its count.
SelectedAnew == queued

\* ListPending: a count past the int8 fails the scan, and the step with it. The
\* retention window is left to PageStore. The batch's limit is left out: a later
\* round lists what it leaves.
Selected == {k \in queued : retries[k] < retryMax}

Unreadable == \E k \in Selected : retries[k] > Int8Max

ListPending(p) ==
    /\ round[p].at = "list"
    /\ broken' = (broken \/ Unreadable)
    /\ round' = [round EXCEPT ![p].at = "rows", ![p].rows = IF Unreadable THEN {} ELSE Selected]
    /\ UNCHANGED <<processVars, lock, queued, retries, objects, storeVars>>

NextRow(p) == Min(round[p].rows)

\* IncrRetry counts in the row as it is now, if there is one.
Bumped(k) == IF k \in queued THEN [retries EXCEPT ![k] = @ + 1] ELSE retries

\* DeleteObject succeeds, also on an object that has gone, or fails and is
\* counted; the count is a statement that may fail too.
DeleteObject(p) ==
    /\ round[p].at = "rows" /\ round[p].rows # {}
    /\ \/ /\ objects' = objects \ {NextRow(p)}
          /\ round' = [round EXCEPT ![p].at = "drop"]
          /\ UNCHANGED retries
       \/ /\ retries' \in {retries, Bumped(NextRow(p))}
          /\ round' = [round EXCEPT ![p].rows = @ \ {NextRow(p)}]
          /\ UNCHANGED objects
    /\ UNCHANGED <<processVars, lock, queued, broken, storeVars>>

\* The row goes by its id, if the statement succeeds.
DropRow(p) ==
    /\ round[p].at = "drop"
    /\ queued' \in {queued, queued \ {NextRow(p)}}
    /\ round' = [round EXCEPT ![p].at = "rows", ![p].rows = @ \ {NextRow(p)}]
    /\ UNCHANGED <<processVars, lock, retries, objects, broken, storeVars>>

\* Every tempSweepEvery-th round goes on to sweep.
EndRows(p) ==
    /\ round[p].at = "rows" /\ round[p].rows = {}
    /\ \E step \in {"sweep", "release"} : round' = [round EXCEPT ![p].at = step]
    /\ UNCHANGED <<processVars, lock, queueVars, storeVars>>

\* Slip: the age is not looked at.
EveryTemp == {u \in Uploads : staging[u] # "none"}

\* SweepTemp: by age, whoever the staging file belongs to.
Stale == {u \in Uploads : staging[u] = "old"}

SweepTemp(p) ==
    /\ round[p].at = "sweep"
    /\ staging' = [u \in Uploads |-> IF u \in Stale THEN "none" ELSE staging[u]]
    /\ round' = [round EXCEPT ![p].at = "release"]
    /\ UNCHANGED <<processVars, lock, queueVars, put, stored, stalled>>

\* SIGTERM: rootCancel. Requests in flight have ten seconds more.
Shutdown(p) ==
    /\ p \notin stopping
    /\ stopping' = stopping \cup {p}
    /\ UNCHANGED <<deaths, redis, retryMax, lock, round, queueVars, storeVars>>

\* The server is stopping: the loops look at the context and return.
CutShort(p) ==
    /\ p \in stopping /\ round[p].at \in {"list", "rows", "sweep"}
    /\ round' = [round EXCEPT ![p].at = "release"]
    /\ UNCHANGED <<processVars, lock, queueVars, storeVars>>

\* Slip: DEL, whoever holds it now.
ReleasesAny(p) == lock[p] # None

\* The release deletes the lock only while it is this round's own; Redis may
\* not answer.
MayRelease(p) == lock[p] = p

Release(p) ==
    /\ round[p].at = "release"
    /\ \/ MayRelease(p) /\ SetLock(p, None)
       \/ (MayRelease(p) => redis) /\ UNCHANGED lock
    /\ round' = [round EXCEPT ![p] = NoRound]
    /\ UNCHANGED <<processVars, queueVars, storeVars>>

-----------------------------------------------------------------------------
\* PutObject: stage, write, rename into place; a failed step removes the file.
Stage(p, u) ==
    /\ p \notin stopping /\ put[u].at = "idle"
    /\ put' = [put EXCEPT ![u] = [at |-> "staged", by |-> p]]
    /\ staging' = [staging EXCEPT ![u] = "fresh"]
    /\ UNCHANGED <<processVars, lock, round, queueVars, stored, stalled>>

\* Bytes written to a file that has been swept go nowhere, and say nothing.
Write(u) ==
    /\ put[u].at = "staged"
    /\ staging' = [staging EXCEPT ![u] = IF @ = "none" THEN "none" ELSE "fresh"]
    /\ \E stage \in {"staged", "written"} : put' = [put EXCEPT ![u].at = stage]
    /\ UNCHANGED <<processVars, lock, round, queueVars, stored, stalled>>

Rename(u) ==
    /\ put[u].at = "written"
    /\ \/ /\ staging[u] # "none"
          /\ stored' = stored \cup {u}
          /\ put' = [put EXCEPT ![u].at = "acked"]
       \/ /\ staging[u] = "none"
          /\ put' = [put EXCEPT ![u].at = "lost"]
          /\ UNCHANGED stored
    /\ staging' = [staging EXCEPT ![u] = "none"]
    /\ UNCHANGED <<processVars, lock, round, queueVars, stalled>>

Fail(u) ==
    /\ put[u].at \in {"staged", "written"}
    /\ put' = [put EXCEPT ![u].at = "failed"]
    /\ staging' = [staging EXCEPT ![u] = "none"]
    /\ UNCHANGED <<processVars, lock, round, queueVars, stored, stalled>>

\* tempSweepAge passes and nothing is written.
Age(u) ==
    /\ staging[u] = "fresh"
    /\ staging' = [staging EXCEPT ![u] = "old"]
    /\ stalled' = IF put[u].at \in {"staged", "written"} THEN stalled \cup {u} ELSE stalled
    /\ UNCHANGED <<processVars, lock, round, queueVars, put, stored>>

-----------------------------------------------------------------------------
\* The process ends, its work done or not (main does not wait for the round),
\* and is started again: its own lock goes with it, one in Redis stays, and a
\* staging file has nobody left to remove it.
Restart(p) ==
    /\ deaths < MaxDeaths /\ deaths' = deaths + 1
    /\ stopping' = stopping \ {p}
    /\ lock' = IF redis THEN lock ELSE [lock EXCEPT ![p] = None]
    /\ round' = [round EXCEPT ![p] = NoRound]
    /\ put' = [u \in Uploads |->
                 IF put[u].by = p /\ put[u].at \in {"staged", "written"}
                 THEN [put[u] EXCEPT !.at = "failed"] ELSE put[u]]
    /\ UNCHANGED <<redis, retryMax, queueVars, staging, stored, stalled>>

Next ==
    \/ \E p \in Replicas :
         \/ StartRound(p) \/ LockLapses(p)
         \/ ListPending(p) \/ DeleteObject(p) \/ DropRow(p) \/ EndRows(p) \/ SweepTemp(p)
         \/ CutShort(p) \/ Release(p)
         \/ Shutdown(p) \/ Restart(p)
         \/ \E u \in Uploads : Stage(p, u)
    \/ \E u \in Uploads : Write(u) \/ Rename(u) \/ Fail(u) \/ Age(u)

Spec == Init /\ [][Next]_vars

-----------------------------------------------------------------------------
\* Until its lock lapses a round keeps it: a slower predecessor that ends, or a
\* replica that restarts, never frees it for a third. So at most one round of
\* those that share a lock runs within its time.
RoundsExclusive ==
    \A p \in Replicas : round[p].at # "idle" /\ ~ round[p].lapsed => lock[p] = p

\* Whatever rounds overlap: a row goes only after its object, each replica can
\* push a count at most one past the ceiling, and so no count makes the queue
\* unreadable unless the ceiling itself is past what an int8 holds.
QueueIsSound ==
    /\ objects \subseteq queued
    /\ \A k \in Rows : retries[k] < retryMax + Cardinality(Replicas)
    /\ broken => retryMax > Int8Max + 1

\* An upload finds its staging file swept only if it wrote nothing for the
\* sweep's age; one that was acknowledged is in place.
UploadsSpared ==
    /\ \A u \in Uploads : put[u].at = "lost" => u \in stalled
    /\ \A u \in Uploads : put[u].at = "acked" => u \in stored

=============================================================================
