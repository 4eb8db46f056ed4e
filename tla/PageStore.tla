------------------------------ MODULE PageStore ------------------------------
(***************************************************************************)
(* Published pages and the two stores that hold them: the database (file,  *)
(* file_version, pending_object_delete and view rows) and the object store *)
(* (local disk or S3) that keeps each version's HTML.  The two share no     *)
(* transaction, so every write handler is a sequence of steps: it reads    *)
(* rows, calls the object store, then commits a database transaction, and  *)
(* a background cron deletes objects through a queue.                      *)
(*                                                                         *)
(* A database transaction is one action.  Everything a handler does        *)
(* between two transactions or object-store calls may interleave with the  *)
(* others.  Ownership is not modelled here: every Clients process acts for *)
(* the page's owner (a non-owner's request is a 404 that changes nothing). *)
(***************************************************************************)
EXTENDS Naturals, FiniteSets

CONSTANTS
    Pages,          \* nano ids
    Bodies,         \* contents of a page, told apart by their SHA-256
    Visibilities,   \* private, link, ...
    Clients,        \* write requests in flight at once
    Viewers,        \* /render requests in flight at once
    MaxAttempts,    \* nanoIDMaxRetries
    RetryMax,       \* cleanup.retry_max
    MaxVersion,     \* bound: versions of a page
    Nonces,         \* bound: random suffixes of an object key
    Faults          \* what the environment may do, from FaultKinds

(***************************************************************************)
(* store      an object-store call fails and changes nothing               *)
(* store_ack  PutObject stores the object and still reports an error       *)
(* db         a transaction rolls back with an error                       *)
(* db_ack     a transaction commits and still reports an error             *)
(* queue      a best-effort write of the queue fails and its error is       *)
(*            dropped: enqueueOrphan's, step2's Delete, or step2's IncrRetry *)
(*            after an object-store call that failed too                    *)
(* crash      the process running a request or the cron dies               *)
(* collision  a generated nano id is one already in use                    *)
(***************************************************************************)
FaultKinds ==
    {"store", "store_ack", "db", "db_ack", "queue", "crash", "collision"}

ASSUME FaultsAssumption == Faults \subseteq FaultKinds
ASSUME BoundsAssumption ==
    /\ MaxAttempts \in Nat \ {0}
    /\ RetryMax \in Nat \ {0}
    /\ MaxVersion \in Nat \ {0}
    /\ Nonces \subseteq Nat \ {0}
ASSUME NonEmptyAssumption == Pages # {} /\ Bodies # {} /\ Visibilities # {}

VARIABLES
    file,           \* the file table: one row per nano id
    fileVersion,    \* the file_version table: a set of rows
    object,         \* the object store: a set of stored objects
    pending,        \* the pending_object_delete table: a set of rows
    view,           \* pages that have rows in the view table
    req,            \* the write requests
    render,         \* the /render requests
    cron            \* the cleanup round

vars == <<file, fileVersion, object, pending, view, req, render, cron>>

-----------------------------------------------------------------------------
(* Keys and rows *)

Keys == [page : Pages, version : 1..MaxVersion, nonce : Nonces \cup {0}]

\* objectKey: the first publish of a page uses a key without a random suffix.
FirstKey(p) == [page |-> p, version |-> 1, nonce |-> 0]

Reasons == {"publish_rollback", "nanoid_conflict", "version_conflict",
            "user_delete", "expired"}
RollbackReasons == {"publish_rollback", "nanoid_conflict", "version_conflict"}

FileRows ==
    [status : {"none", "live", "deleted"}, expired : BOOLEAN,
     latest : 0..MaxVersion, shared : 0..MaxVersion,
     serving : Keys, visibility : Visibilities]
VersionRows == [page : Pages, version : 1..MaxVersion, key : Keys, body : Bodies]
Objects == [key : Keys, body : Bodies]
QueueRows == [key : Keys, reason : Reasons, aged : BOOLEAN, retries : 0..RetryMax]

\* The state of a nano id no row exists for.
NoFile(p) ==
    [status |-> "none", expired |-> FALSE, latest |-> 0, shared |-> 0,
     serving |-> FirstKey(p), visibility |-> CHOOSE v \in Visibilities : TRUE]

Live(p) == file[p].status = "live"

\* FileVersionRepo.GetByVersion
RowsOf(p, v) == {r \in fileVersion : r.page = p /\ r.version = v}

\* FileVersionRepo.ReclaimKeys, for a page that has version rows.
ReclaimKeys(p) == {r.key : r \in {x \in fileVersion : x.page = p}}

QueuedKeys == {q.key : q \in pending}
StoredKeys == {o.key : o \in object}

\* Keys in the hands of a request that has uploaded and not yet settled.
InFlightKeys ==
    {req[c].key : c \in {d \in Clients :
                             req[d].pc \in {"create", "append", "orphan"}}}

\* Every key that names something: a version, an object, a row of the queue, or
\* an upload not yet settled.  The cron and the deletions only hold keys of
\* these; a key that names nothing any more is as good as one never drawn.
UsedKeys ==
    {r.key : r \in fileVersion} \cup StoredKeys \cup QueuedKeys \cup InFlightKeys

\* Slip: a later version's key without its random suffix.
DeterministicKeys(p, v) ==
    {k \in Keys : k.page = p /\ k.version = v /\ k.nonce = 1}

\* objectVersionKey: later versions carry a random suffix, here one not in use.
FreshKeys(p, v) ==
    {k \in Keys : k.page = p /\ k.version = v /\ k.nonce # 0 /\ k \notin UsedKeys}

-----------------------------------------------------------------------------
(* What the repositories' statements write *)

Put(k, b) == {o \in object : o.key # k} \cup {[key |-> k, body |-> b]}

\* PendingObjectDeleteRepo.Insert and InsertBatch: ON CONFLICT DO NOTHING.  Only
\* user_delete rows are held back for the retention window.
Enqueue(keys, reason) ==
    pending \cup {[key |-> k, reason |-> reason,
                   aged |-> reason # "user_delete", retries |-> 0] :
                      k \in keys \ QueuedKeys}

\* Slip: the CAS without its liveness.
AdvanceDeleted(f, next) == f.latest = next - 1

\* AdvanceHead's WHERE clause.
CanAdvance(f, next) == f.status = "live" /\ f.latest = next - 1

\* Slip: the serving cache always moves.
AdvanceServing(f, next, k) == [f EXCEPT !.latest = next, !.serving = k]

\* FileRepo.AdvanceHead: the serving cache moves only while the share follows
\* the latest version.
AdvanceHead(f, next, k) ==
    [f EXCEPT !.latest = next,
              !.serving = IF f.shared = 0 THEN k ELSE @]

\* Slip: unpinning does not refresh the serving cache.
UnpinKeepsServing(f, target, k) ==
    [f EXCEPT !.shared = target, !.serving = IF target = 0 THEN @ ELSE k]

\* FileRepo.SetSharedVersion
SetSharedVersion(f, target, k) == [f EXCEPT !.shared = target, !.serving = k]

\* FileRepo.MarkDeleted: matches only a row that is not deleted yet.
MarkDeleted(f) == IF f.status = "live" THEN [f EXCEPT !.status = "deleted"] ELSE f

-----------------------------------------------------------------------------
(* Requests *)

(***************************************************************************)
(* Where a write request stands between two steps:                         *)
(*   new     about to generate a nano id (Publish's retry loop)            *)
(*   create  first version uploaded, the inserting transaction is next     *)
(*   upload  head read, the upload of the next version is next             *)
(*   append  next version uploaded, the CAS transaction is next            *)
(*   read    lost a race, about to read the head again                     *)
(*   orphan  the transaction failed, enqueueOrphan is next                 *)
(*   delete  keys of the page read, the deleting transaction is next       *)
(***************************************************************************)
ReqPCs == {"idle", "new", "create", "upload", "append", "read", "orphan", "delete"}

Reqs == [pc : ReqPCs, page : Pages, body : Bodies, head : 0..MaxVersion,
         key : Keys, keys : SUBSET Keys, attempt : 1..MaxAttempts, reason : Reasons]

SomePage == CHOOSE p \in Pages : TRUE

IdleReq ==
    [pc |-> "idle", page |-> SomePage, body |-> CHOOSE b \in Bodies : TRUE,
     head |-> 0, key |-> FirstKey(SomePage), keys |-> {}, attempt |-> 1,
     reason |-> "publish_rollback"]

Goto(c, r) == req' = [req EXCEPT ![c] = r]

\* One attempt of body b on page p, at pc.
Attempt(pc, p, b, n) ==
    [IdleReq EXCEPT !.pc = pc, !.page = p, !.body = b, !.attempt = n]

\* What the attempt leaves for enqueueOrphan after its transaction failed.
Orphaned(r, reason) ==
    [IdleReq EXCEPT !.pc = "orphan", !.page = r.page, !.body = r.body,
                    !.key = r.key, !.attempt = r.attempt, !.reason = reason]

\* Storage.PutObject, and then r; on an error the handler returns.
PutObject(c, k, b, r) ==
    /\ \/ object' = Put(k, b) /\ Goto(c, r)
       \/ "store" \in Faults /\ object' = object /\ Goto(c, IdleReq)
       \/ "store_ack" \in Faults /\ object' = Put(k, b) /\ Goto(c, IdleReq)

\* One turn of Publish's loop: a nano id, and the upload under its first key.
GenerateAndPut(c, b, n) ==
    \E p \in Pages :
        /\ FirstKey(p) \in UsedKeys => "collision" \in Faults
        /\ PutObject(c, FirstKey(p), b,
                     [Attempt("create", p, b, n) EXCEPT !.key = FirstKey(p)])
        /\ UNCHANGED <<file, fileVersion, pending, view, render, cron>>

Publish(c) ==
    /\ req[c].pc = "idle"
    /\ \E b \in Bodies : GenerateAndPut(c, b, 1)

RetryPublish(c) ==
    /\ req[c].pc = "new"
    /\ GenerateAndPut(c, req[c].body, req[c].attempt)

\* The first publish's transaction takes effect: the file row and its version 1.
InsertPage(r) ==
    \E vis \in Visibilities :
        /\ file' = [file EXCEPT ![r.page] =
                        [status |-> "live", expired |-> FALSE, latest |-> 1,
                         shared |-> 0, serving |-> r.key, visibility |-> vis]]
        /\ fileVersion' = fileVersion \cup
               {[page |-> r.page, version |-> 1, key |-> r.key, body |-> r.body]}

\* The transaction of Publish.  A failure after the upload that is not a
\* conflict (minting the share code, or the database) rolls back.
CommitPage(c) ==
    LET r == req[c]
        taken == file[r.page].status # "none"
    IN
    /\ r.pc = "create"
    /\ \/ ~taken /\ InsertPage(r) /\ Goto(c, IdleReq)
       \/ /\ "db_ack" \in Faults /\ ~taken /\ InsertPage(r)
          /\ Goto(c, Orphaned(r, "publish_rollback"))
       \/ /\ taken /\ Goto(c, Orphaned(r, "nanoid_conflict"))
          /\ UNCHANGED <<file, fileVersion>>
       \/ /\ "db" \in Faults /\ Goto(c, Orphaned(r, "publish_rollback"))
          /\ UNCHANGED <<file, fileVersion>>
    /\ UNCHANGED <<object, pending, view, render, cron>>

\* Slip: a lost race queues the upload only when no turn is left.
EnqueueLastOrphan(c) ==
    LET r == req[c] IN
    /\ r.pc = "orphan"
    /\ IF r.reason = "version_conflict" /\ r.attempt < MaxAttempts
         THEN /\ Goto(c, Attempt("read", r.page, r.body, r.attempt + 1))
              /\ pending' = pending
         ELSE /\ Goto(c, IdleReq)
              /\ pending' = Enqueue({r.key}, r.reason)
    /\ UNCHANGED <<file, fileVersion, object, view, render, cron>>

\* enqueueOrphan, whose failure is dropped, and then the next turn of the loop
\* if the failure was a lost race and turns are left.
EnqueueOrphan(c) ==
    LET r == req[c]
        after == IF r.attempt = MaxAttempts \/ r.reason = "publish_rollback"
                   THEN IdleReq
                   ELSE IF r.reason = "nanoid_conflict"
                   THEN Attempt("new", SomePage, r.body, r.attempt + 1)
                   ELSE Attempt("read", r.page, r.body, r.attempt + 1)
    IN
    /\ r.pc = "orphan"
    /\ Goto(c, after)
    /\ \/ pending' = Enqueue({r.key}, r.reason)
       \/ "queue" \in Faults /\ pending' = pending
    /\ UNCHANGED <<file, fileVersion, object, view, render, cron>>

\* The body of the head row, which a new body is compared with by hash.
IsHead(p, b) == \E r \in RowsOf(p, file[p].latest) : r.body = b

\* publishNewVersion once the head has been read: identical content returns.
AppendTo(c, p, b, n) ==
    Goto(c, IF IsHead(p, b) THEN IdleReq
            ELSE [Attempt("upload", p, b, n) EXCEPT !.head = file[p].latest])

\* Publish with an id
Republish(c) ==
    /\ req[c].pc = "idle"
    /\ \E p \in Pages, b \in Bodies :
           /\ Live(p) /\ ~file[p].expired /\ ~IsHead(p, b)
           /\ AppendTo(c, p, b, 1)
    /\ UNCHANGED <<file, fileVersion, object, pending, view, render, cron>>

\* RestoreVersion: an old version's bytes, read from the object store.
RestoreVersion(c) ==
    /\ req[c].pc = "idle"
    /\ \E r \in fileVersion, o \in object :
           /\ Live(r.page) /\ ~file[r.page].expired
           /\ o.key = r.key /\ ~IsHead(r.page, o.body)
           /\ AppendTo(c, r.page, o.body, 1)
    /\ UNCHANGED <<file, fileVersion, object, pending, view, render, cron>>

\* A lost race reads the head again; the page's expiry is not checked again.
ReadHead(c) ==
    LET r == req[c] IN
    /\ r.pc = "read"
    /\ IF Live(r.page) THEN AppendTo(c, r.page, r.body, r.attempt)
                       ELSE Goto(c, IdleReq)
    /\ UNCHANGED <<file, fileVersion, object, pending, view, render, cron>>

\* The upload, before the transaction.  Without a key left in the bounds the
\* request ends, as it does when no random suffix can be drawn.
UploadVersion(c) ==
    LET r == req[c]
        fresh == FreshKeys(r.page, r.head + 1)
        k == CHOOSE x \in fresh : TRUE
    IN
    /\ r.pc = "upload"
    /\ IF fresh = {}
         THEN Goto(c, IdleReq) /\ UNCHANGED object
         ELSE PutObject(c, k, r.body, [r EXCEPT !.pc = "append", !.key = k])
    /\ UNCHANGED <<file, fileVersion, pending, view, render, cron>>

\* The transaction of publishNewVersion takes effect.
InsertVersion(r) ==
    /\ file' = [file EXCEPT ![r.page] = AdvanceHead(@, r.head + 1, r.key)]
    /\ fileVersion' = fileVersion \cup
           {[page |-> r.page, version |-> r.head + 1, key |-> r.key, body |-> r.body]}

\* Slip: a CAS miss does not roll the version row back.
CommitKeepsRow(c) ==
    LET r == req[c] IN
    /\ r.pc = "append"
    /\ \/ CanAdvance(file[r.page], r.head + 1) /\ InsertVersion(r) /\ Goto(c, IdleReq)
       \/ /\ ~CanAdvance(file[r.page], r.head + 1)
          /\ fileVersion' = fileVersion \cup
                 {[page |-> r.page, version |-> r.head + 1, key |-> r.key,
                   body |-> r.body]}
          /\ file' = file /\ Goto(c, Orphaned(r, "version_conflict"))
    /\ UNCHANGED <<object, pending, view, render, cron>>

CommitVersion(c) ==
    LET r == req[c]
        won == CanAdvance(file[r.page], r.head + 1)
    IN
    /\ r.pc = "append"
    /\ \/ won /\ InsertVersion(r) /\ Goto(c, IdleReq)
       \/ /\ "db_ack" \in Faults /\ won /\ InsertVersion(r)
          /\ Goto(c, Orphaned(r, "publish_rollback"))
       \/ /\ ~won /\ Goto(c, Orphaned(r, "version_conflict"))
          /\ UNCHANGED <<file, fileVersion>>
       \/ /\ "db" \in Faults /\ Goto(c, Orphaned(r, "publish_rollback"))
          /\ UNCHANGED <<file, fileVersion>>
    /\ UNCHANGED <<object, pending, view, render, cron>>

\* DeleteFile reads the page's keys before its transaction.
DeleteFile(c) ==
    /\ req[c].pc = "idle"
    /\ \E p \in Pages :
           /\ Live(p)
           /\ Goto(c, [IdleReq EXCEPT !.pc = "delete", !.page = p,
                                      !.keys = ReclaimKeys(p)])
    /\ UNCHANGED <<file, fileVersion, object, pending, view, render, cron>>

\* Slip: the keys are queued and the row is not marked.
RemoveKeysOnly(p, keys, reason) ==
    /\ pending' = Enqueue(keys, reason)
    /\ view' = view \ {p}
    /\ file' = file

\* The transaction that DeleteFile and step1ExpireFiles share.
RemovePage(p, keys, reason) ==
    /\ pending' = Enqueue(keys, reason)
    /\ file' = [file EXCEPT ![p] = MarkDeleted(@)]
    /\ view' = view \ {p}

\* Slip: the batch insert outside the transaction.
DeleteQueuesFirst(c) ==
    /\ req[c].pc = "delete"
    /\ Goto(c, IdleReq)
    /\ \/ RemovePage(req[c].page, req[c].keys, "user_delete")
       \/ /\ "db" \in Faults
          /\ pending' = Enqueue(req[c].keys, "user_delete")
          /\ UNCHANGED <<file, view>>
    /\ UNCHANGED <<fileVersion, object, render, cron>>

CommitDelete(c) ==
    /\ req[c].pc = "delete"
    /\ Goto(c, IdleReq)
    /\ \/ RemovePage(req[c].page, req[c].keys, "user_delete")
       \/ "db" \in Faults /\ UNCHANGED <<pending, file, view>>
    /\ UNCHANGED <<fileVersion, object, render, cron>>

(***************************************************************************)
(* PatchFile is one transaction over a locked row: it pins a version (or   *)
(* unpins, target 0, resolving to the latest row), sets the visibility, or  *)
(* both.  It is open to a page that has expired.                           *)
(***************************************************************************)
PatchFile(p) ==
    /\ Live(p)
    /\ \E vis \in Visibilities, target \in 0..MaxVersion :
           \/ \E r \in RowsOf(p, IF target = 0 THEN file[p].latest ELSE target) :
                  file' = [file EXCEPT ![p] =
                      [SetSharedVersion(@, target, r.key) EXCEPT !.visibility = vis]]
           \/ file' = [file EXCEPT ![p].visibility = vis]
    /\ UNCHANGED <<fileVersion, object, pending, view, req, render, cron>>

\* A page with a finite lifetime passes its expires_at.
Expire(p) ==
    /\ Live(p) /\ ~file[p].expired
    /\ file' = [file EXCEPT ![p].expired = TRUE]
    /\ UNCHANGED <<fileVersion, object, pending, view, req, render, cron>>

CrashRequest(c) ==
    /\ "crash" \in Faults
    /\ req[c].pc # "idle"
    /\ Goto(c, IdleReq)
    /\ UNCHANGED <<file, fileVersion, object, pending, view, render, cron>>

-----------------------------------------------------------------------------
(* /render: the serving key is read with the file row, the object next, and *)
(* the view is counted in two statements: a check and an insert.            *)

Renders == [pc : {"idle", "fetch", "preview", "check", "count"},
            page : Pages, key : Keys]

IdleRender == [pc |-> "idle", page |-> SomePage, key |-> FirstKey(SomePage)]

RenderTo(v, r) == render' = [render EXCEPT ![v] = r]

\* GetActiveByNanoID, and the key to fetch: the serving cache's, or, for the
\* owner's ?v= preview, that of a version row.
Render(v) ==
    /\ render[v].pc = "idle"
    /\ \E p \in Pages :
           /\ Live(p) /\ ~file[p].expired
           /\ \/ RenderTo(v, [pc |-> "fetch", page |-> p, key |-> file[p].serving])
              \/ \E k \in ReclaimKeys(p) :
                     RenderTo(v, [pc |-> "preview", page |-> p, key |-> k])
    /\ UNCHANGED <<file, fileVersion, object, pending, view, req, cron>>

\* GetObject: only a page that could be read, by someone else than its owner
\* flipping through versions, is counted.
FetchObject(v) ==
    LET r == render[v] IN
    /\ r.pc \in {"fetch", "preview"}
    /\ \/ /\ r.pc = "fetch" /\ r.key \in StoredKeys
          /\ RenderTo(v, [IdleRender EXCEPT !.pc = "check", !.page = r.page])
       \/ /\ r.pc = "preview" \/ r.key \notin StoredKeys \/ "store" \in Faults
          /\ RenderTo(v, IdleRender)
    /\ UNCHANGED <<file, fileVersion, object, pending, view, req, cron>>

\* ViewRepo.Upsert, first statement: the page must not be deleted.
CheckView(v) ==
    /\ render[v].pc = "check"
    /\ RenderTo(v, IF Live(render[v].page) THEN [render[v] EXCEPT !.pc = "count"]
                                           ELSE IdleRender)
    /\ UNCHANGED <<file, fileVersion, object, pending, view, req, cron>>

\* ViewRepo.Upsert, second statement.
CountView(v) ==
    /\ render[v].pc = "count"
    /\ view' = view \cup {render[v].page}
    /\ RenderTo(v, IdleRender)
    /\ UNCHANGED <<file, fileVersion, object, pending, req, cron>>

-----------------------------------------------------------------------------
(***************************************************************************)
(* The cleanup round, one at a time: the lock admits no second one.        *)
(*   expire   step1, between two pages of the list taken at its start      *)
(*   expiring keys of a page read, its transaction is next                 *)
(*   drain    step2, between two rows of the list taken at its start       *)
(*   drop     the object of a row is gone, removing the row is next        *)
(* The lists are snapshots; the rows are taken in any order.  The drain's  *)
(* limit of 200 rows is left out: a later round lists what it leaves.      *)
(***************************************************************************)
CronPCs == {"idle", "expire", "expiring", "drain", "drop"}

Crons == [pc : CronPCs, pages : SUBSET Pages, page : Pages,
          keys : SUBSET Keys, rows : SUBSET Keys, key : Keys]

IdleCron == [pc |-> "idle", pages |-> {}, page |-> SomePage, keys |-> {},
             rows |-> {}, key |-> FirstKey(SomePage)]

\* Run: the lock is taken and ListExpired read.
StartRound ==
    /\ cron.pc = "idle"
    /\ cron' = [IdleCron EXCEPT !.pc = "expire",
                    !.pages = {p \in Pages : Live(p) /\ file[p].expired}]
    /\ UNCHANGED <<file, fileVersion, object, pending, view, req, render>>

ReadExpired(p) ==
    /\ cron.pc = "expire" /\ p \in cron.pages
    /\ cron' = [cron EXCEPT !.pc = "expiring", !.pages = @ \ {p}, !.page = p,
                            !.keys = ReclaimKeys(p)]
    /\ UNCHANGED <<file, fileVersion, object, pending, view, req, render>>

CommitExpired ==
    /\ cron.pc = "expiring"
    /\ cron' = [IdleCron EXCEPT !.pc = "expire", !.pages = cron.pages]
    /\ \/ RemovePage(cron.page, cron.keys, "expired")
       \/ "db" \in Faults /\ UNCHANGED <<pending, file, view>>
    /\ UNCHANGED <<fileVersion, object, req, render>>

\* Slip: no retry ceiling.
ReclaimableForever == {q \in pending : q.aged}

\* ListPending: rows below the retry ceiling, user_delete rows only once they
\* are past the retention window.
Reclaimable == {q \in pending : q.retries < RetryMax /\ q.aged}

ListPending ==
    /\ cron.pc = "expire" /\ cron.pages = {}
    /\ cron' = [IdleCron EXCEPT !.pc = "drain", !.rows = {q.key : q \in Reclaimable}]
    /\ UNCHANGED <<file, fileVersion, object, pending, view, req, render>>

\* Slip: a failed row is not counted.
RetrySilently(k) == pending

\* PendingObjectDeleteRepo.IncrRetry
IncrRetry(k) ==
    {q \in pending : q.key # k} \cup
    {[q EXCEPT !.retries = @ + 1] : q \in {x \in pending : x.key = k}}

\* Slip: a row leaves the queue although its object could not be deleted.
DeleteForgetsRow(k) ==
    /\ cron.pc = "drain" /\ k \in cron.rows
    /\ cron' = [cron EXCEPT !.rows = @ \ {k}]
    /\ pending' = {q \in pending : q.key # k}
    /\ \/ object' = {o \in object : o.key # k}
       \/ "store" \in Faults /\ object' = object
    /\ UNCHANGED <<file, fileVersion, view, req, render>>

\* step2ReconcilePending, one row: the object goes first, its row after; a
\* failure leaves the row for a later round.
DeleteObject(k) ==
    /\ cron.pc = "drain" /\ k \in cron.rows
    /\ \/ /\ object' = {o \in object : o.key # k}
          /\ cron' = [cron EXCEPT !.pc = "drop", !.rows = @ \ {k}, !.key = k]
          /\ pending' = pending
       \/ /\ cron' = [cron EXCEPT !.rows = @ \ {k}]
          /\ object' = object
          /\ \/ "store" \in Faults /\ pending' = IncrRetry(k)
             \/ "queue" \in Faults /\ pending' = pending
    /\ UNCHANGED <<file, fileVersion, view, req, render>>

DropRow ==
    /\ cron.pc = "drop"
    /\ cron' = [IdleCron EXCEPT !.pc = "drain", !.rows = cron.rows]
    /\ \/ pending' = {q \in pending : q.key # cron.key}
       \/ "queue" \in Faults /\ pending' = pending
    /\ UNCHANGED <<file, fileVersion, object, view, req, render>>

EndRound ==
    /\ cron.pc = "drain" /\ cron.rows = {}
    /\ cron' = IdleCron
    /\ UNCHANGED <<file, fileVersion, object, pending, view, req, render>>

CrashCron ==
    /\ "crash" \in Faults
    /\ cron.pc # "idle"
    /\ cron' = IdleCron
    /\ UNCHANGED <<file, fileVersion, object, pending, view, req, render>>

\* The retention window of a user_delete row passes.
PassRetention(q) ==
    /\ ~q.aged
    /\ pending' = (pending \ {q}) \cup {[q EXCEPT !.aged = TRUE]}
    /\ UNCHANGED <<file, fileVersion, object, view, req, render, cron>>

-----------------------------------------------------------------------------
Init ==
    /\ file = [p \in Pages |-> NoFile(p)]
    /\ fileVersion = {}
    /\ object = {}
    /\ pending = {}
    /\ view = {}
    /\ req = [c \in Clients |-> IdleReq]
    /\ render = [v \in Viewers |-> IdleRender]
    /\ cron = IdleCron

\* What a request in flight does next.
Proceed(c) ==
    \/ RetryPublish(c) \/ CommitPage(c) \/ EnqueueOrphan(c) \/ ReadHead(c)
    \/ UploadVersion(c) \/ CommitVersion(c) \/ CommitDelete(c)

Submit(c) == Publish(c) \/ Republish(c) \/ RestoreVersion(c) \/ DeleteFile(c)

RenderStep(v) == Render(v) \/ FetchObject(v) \/ CheckView(v) \/ CountView(v)

CronStep ==
    \/ StartRound \/ ListPending \/ CommitExpired \/ DropRow \/ EndRound
    \/ \E p \in Pages : ReadExpired(p)
    \/ \E k \in cron.rows : DeleteObject(k)

Next ==
    \/ \E c \in Clients : Submit(c) \/ Proceed(c) \/ CrashRequest(c)
    \/ \E p \in Pages : PatchFile(p) \/ Expire(p)
    \/ \E v \in Viewers : RenderStep(v)
    \/ CronStep \/ CrashCron
    \/ \E q \in pending : PassRetention(q)

Spec == Init /\ [][Next]_vars

-----------------------------------------------------------------------------
(* Properties *)

TypeOK ==
    /\ file \in [Pages -> FileRows]
    /\ fileVersion \subseteq VersionRows
    /\ object \subseteq Objects
    /\ pending \subseteq QueueRows
    /\ view \subseteq Pages
    /\ req \in [Clients -> Reqs]
    /\ render \in [Viewers -> Renders]
    /\ cron \in Crons

\* Every version of a live page can be read back, with the bytes it was
\* published with: no interleaving of uploads, failed transactions, orphan
\* clean-up, deletion and expiry ever takes or overwrites a live page's object.
LiveVersionsStored ==
    \A r \in fileVersion :
        Live(r.page) => [key |-> r.key, body |-> r.body] \in object

\* The deferred-delete queue never names an object of a live page, whichever
\* handler or cron step enqueued it and however often.
QueueSparesLivePages ==
    \A r \in fileVersion : Live(r.page) => r.key \notin QueuedKeys

\* pending_object_delete.go: a rollback orphan's "referencing row never committed".
RollbackNeverCommitted ==
    \A q \in pending, r \in fileVersion :
        q.reason \in RollbackReasons => q.key # r.key

\* The serving cache of a page names the object of the version it shares (the
\* pinned one, or the latest), although publishes, pins and unpins race.
ServingFollowsShare ==
    \A p \in Pages : Live(p) =>
        \E r \in RowsOf(p, IF file[p].shared = 0 THEN file[p].latest
                                                 ELSE file[p].shared) :
            r.key = file[p].serving

\* A page's versions are 1..latest_version, one row each: racing publishes lose
\* no version and duplicate none.
GaplessHistory ==
    \A p \in Pages :
        /\ {r.version : r \in {x \in fileVersion : x.page = p}} = 1..file[p].latest
        /\ \A r, s \in fileVersion :
               r.page = p /\ s.page = p /\ r.version = s.version => r = s

DeletedStandStill ==
    \A p \in Pages : file[p].status = "deleted" =>
        /\ file'[p] = file[p]
        /\ \A r \in fileVersion' : r.page = p => r \in fileVersion

\* Once a page is deleted, by its owner or by the cron, its row and its
\* versions stand still: a publish or a pin that was in flight changes nothing.
DeletedIsFinal == [][DeletedStandStill]_vars

\* An uploaded object is never forgotten: it belongs to a version, or is queued
\* for deletion, or a request still holds it.
UploadsAccounted ==
    \A o \in object :
        \/ \E r \in fileVersion : r.key = o.key
        \/ o.key \in QueuedKeys
        \/ o.key \in InFlightKeys

\* files.go and cleanup.go: deleting or expiring a page enqueues EVERY version's
\* object, so what is left of a deleted page is on its way out.
DeletionIsComplete ==
    \A r \in fileVersion :
        file[r.page].status = "deleted" /\ r.key \in StoredKeys =>
            r.key \in QueuedKeys

\* view.go: view rows of a page go with it, so that "counts can't dangle".
NoDanglingViews == \A p \in view : Live(p)

-----------------------------------------------------------------------------
(* Progress.  A handler that is not killed runs to its end; the cron's ticker *)
(* never stops; time passes.  Nothing is assumed of users.                    *)

FairSpec ==
    /\ Spec
    /\ \A c \in Clients : WF_vars(Proceed(c))
    /\ WF_vars(CronStep)
    /\ WF_vars(\E q \in pending : PassRetention(q))

Referenced(k) == \E r \in fileVersion : r.key = k

\* R9: a row at RetryMax is left to a human.
Poisoned(k) == \E q \in pending : q.key = k /\ q.retries = RetryMax

\* An upload whose transaction never committed is eventually deleted: the
\* request that lost or failed queues it and the cron drains the queue.
OrphansReclaimed ==
    \A k \in Keys :
        k \in StoredKeys /\ ~Referenced(k)
            ~> k \notin StoredKeys \/ Referenced(k) \/ Poisoned(k)

\* Whatever is queued is eventually deleted, unless the storage keeps failing.
QueueDrains ==
    \A k \in Keys : k \in QueuedKeys ~> k \notin StoredKeys \/ Poisoned(k)

\* A page past its expiry is eventually removed, and its link with it.
ExpiredIsRemoved ==
    \A p \in Pages : Live(p) /\ file[p].expired ~> file[p].status = "deleted"

\* A visitor who was admitted to a page finds its object, however long ago the
\* key was read and whatever was published since, unless the page was deleted.
AdmittedReaderFindsObject ==
    \A v \in Viewers :
        render[v].pc \in {"fetch", "preview"} /\ Live(render[v].page) =>
            render[v].key \in StoredKeys

=============================================================================
