--------------------------- MODULE PageStoreProofs ---------------------------
(***************************************************************************)
(* Theorems about PageStore, for any number of pages, versions, requests   *)
(* and viewers.                                                            *)
(*                                                                         *)
(* Under every fault:                                                      *)
(*   TypeCorrect        rows and processes keep their types                *)
(*   DeletionFinal      a deleted page stands still                        *)
(*   HistoryGapless     a page's versions are 1..latest_version            *)
(*   ServingCurrent     the serving cache follows the share                *)
(*   HistoryImplemented PageStore implements PageHistory                   *)
(* If nano ids do not repeat and commits report what they did:             *)
(*   VersionsKept       every version of a live page can be read back      *)
(*   QueueSafe          the deletion queue spares live pages               *)
(*   RollbackSafe       what a failed publish queued is of no version      *)
(*   ReaderSafe         an admitted reader finds the object it was sent to *)
(* If no process dies, the store reports what it stored and the queue's    *)
(* best-effort writes succeed:                                             *)
(*   UploadsTraced      no uploaded object is forgotten                    *)
(*                                                                         *)
(* Each group rests on inductive invariants: TypeInv, HistoryInv and       *)
(* ReadInv for the first, Inv for the second, AccountInv for the third.    *)
(***************************************************************************)
EXTENDS PageStoreRefinement, TLAPS

-----------------------------------------------------------------------------
(* Type correctness.  TypeOK is not inductive: the version a request is about *)
(* to insert must have come from a key in bounds, and the cron may only hold  *)
(* rows below the retry ceiling, one per key.                                 *)

AppendInBounds == \A c \in Clients : req[c].pc = "append" => req[c].head < MaxVersion

OneRowPerKey == \A q1, q2 \in pending : q1.key = q2.key => q1 = q2

BelowCeiling == \A q \in pending : q.key \in cron.rows => q.retries < RetryMax

TypeInv == TypeOK /\ AppendInBounds /\ OneRowPerKey /\ BelowCeiling

LEMMA FirstKeyType == \A p \in Pages : FirstKey(p) \in Keys
  BY BoundsAssumption DEF FirstKey, Keys

LEMMA SomeValues ==
    /\ SomePage \in Pages
    /\ (CHOOSE b \in Bodies : TRUE) \in Bodies
    /\ (CHOOSE v \in Visibilities : TRUE) \in Visibilities
  BY NonEmptyAssumption DEF SomePage

LEMMA IdleReqType == IdleReq \in Reqs /\ IdleReq.pc = "idle"
<1>1. FirstKey(SomePage) \in Keys
  BY FirstKeyType, SomeValues
<1>2. 0 \in 0..MaxVersion /\ 1 \in 1..MaxAttempts
  BY BoundsAssumption
<1> QED
  BY <1>1, <1>2, SomeValues DEF IdleReq, Reqs, ReqPCs, Reasons

\* What an attempt is made of.
LEMMA AttemptType ==
    ASSUME NEW pc \in ReqPCs, NEW p \in Pages, NEW b \in Bodies,
           NEW n \in 1..MaxAttempts
    PROVE  /\ Attempt(pc, p, b, n) \in Reqs
           /\ Attempt(pc, p, b, n).pc = pc
           /\ Attempt(pc, p, b, n).page = p
           /\ Attempt(pc, p, b, n).body = b
  BY IdleReqType DEF Attempt, Reqs

LEMMA OrphanedType ==
    ASSUME NEW r \in Reqs, NEW reason \in Reasons
    PROVE  /\ Orphaned(r, reason) \in Reqs
           /\ Orphaned(r, reason).pc = "orphan"
           /\ Orphaned(r, reason).page = r.page
           /\ Orphaned(r, reason).key = r.key
  BY IdleReqType DEF Orphaned, Reqs, ReqPCs

LEMMA IdleRenderType == IdleRender \in Renders /\ IdleRender.pc = "idle"
  BY FirstKeyType, SomeValues DEF IdleRender, Renders

LEMMA IdleCronType ==
    IdleCron \in Crons /\ IdleCron.pc = "idle" /\ IdleCron.rows = {}
  BY FirstKeyType, SomeValues DEF IdleCron, Crons, CronPCs

LEMMA ReclaimKeysType ==
    ASSUME TypeOK, NEW p PROVE ReclaimKeys(p) \subseteq Keys
  BY DEF TypeOK, ReclaimKeys, VersionRows

\* The queue grows by rows of keys it did not hold, none of them retried yet.
LEMMA EnqueueType ==
    ASSUME TypeOK, OneRowPerKey, BelowCeiling,
           NEW keys \in SUBSET Keys, NEW reason \in Reasons
    PROVE  /\ Enqueue(keys, reason) \subseteq QueueRows
           /\ \A q1, q2 \in Enqueue(keys, reason) : q1.key = q2.key => q1 = q2
           /\ \A q \in Enqueue(keys, reason) :
                  q.key \in cron.rows => q.retries < RetryMax
<1>1. \A k \in keys : [key |-> k, reason |-> reason,
                       aged |-> reason # "user_delete", retries |-> 0] \in QueueRows
  BY BoundsAssumption DEF QueueRows
<1>2. 0 < RetryMax
  BY BoundsAssumption
<1> QED
  BY <1>1, <1>2 DEF Enqueue, QueuedKeys, TypeOK, OneRowPerKey, BelowCeiling

LEMMA TypeInit == Init => TypeInv
<1> SUFFICES ASSUME Init PROVE TypeInv
  OBVIOUS
<1>1. file \in [Pages -> FileRows]
  <2>1. \A p \in Pages : NoFile(p) \in FileRows
    BY FirstKeyType, SomeValues, BoundsAssumption DEF NoFile, FileRows
  <2> QED
    BY <2>1 DEF Init
<1>2. req \in [Clients -> Reqs] /\ render \in [Viewers -> Renders] /\ cron \in Crons
  BY IdleReqType, IdleRenderType, IdleCronType DEF Init
<1> QED
  BY <1>1, <1>2, IdleReqType DEF Init, TypeInv, TypeOK, AppendInBounds, OneRowPerKey,
       BelowCeiling

\* Steps that leave the queue and the cron alone, and move one request.
LEMMA RequestStepType ==
    ASSUME TypeInv, NEW c \in Clients, NEW r \in Reqs, Goto(c, r),
           r.pc = "append" => r.head < MaxVersion,
           UNCHANGED <<pending, cron>>
    PROVE  /\ req' \in [Clients -> Reqs]
           /\ AppendInBounds' /\ OneRowPerKey' /\ BelowCeiling'
  BY DEF TypeInv, TypeOK, Goto, AppendInBounds, OneRowPerKey, BelowCeiling

LEMMA PutType ==
    ASSUME TypeOK, NEW k \in Keys, NEW b \in Bodies
    PROVE  Put(k, b) \subseteq Objects
  BY DEF Put, TypeOK, Objects

LEMMA PutObjectType ==
    ASSUME TypeInv, NEW c \in Clients, NEW k \in Keys, NEW b \in Bodies,
           NEW r \in Reqs, r.pc = "append" => r.head < MaxVersion,
           PutObject(c, k, b, r),
           UNCHANGED <<file, fileVersion, pending, view, render, cron>>
    PROVE  TypeInv'
<1>1. Put(k, b) \subseteq Objects /\ object \subseteq Objects
  BY PutType DEF TypeInv, TypeOK
<1>2. object' \subseteq Objects
  BY <1>1 DEF PutObject
<1>3. Goto(c, r) \/ Goto(c, IdleReq)
  BY DEF PutObject
<1>4. /\ req' \in [Clients -> Reqs]
      /\ AppendInBounds' /\ OneRowPerKey' /\ BelowCeiling'
  BY <1>3, RequestStepType, IdleReqType
<1> QED
  BY <1>2, <1>4 DEF TypeInv, TypeOK

LEMMA GenerateAndPutType ==
    ASSUME TypeInv, NEW c \in Clients, NEW b \in Bodies, NEW n \in 1..MaxAttempts,
           GenerateAndPut(c, b, n)
    PROVE  TypeInv'
<1>1. PICK p \in Pages :
          /\ PutObject(c, FirstKey(p), b,
                       [Attempt("create", p, b, n) EXCEPT !.key = FirstKey(p)])
          /\ UNCHANGED <<file, fileVersion, pending, view, render, cron>>
  BY DEF GenerateAndPut
<1>2. FirstKey(p) \in Keys
  BY FirstKeyType
<1> DEFINE r == [Attempt("create", p, b, n) EXCEPT !.key = FirstKey(p)]
<1>3. r \in Reqs /\ r.pc = "create"
  BY <1>2, AttemptType DEF Reqs, ReqPCs
<1> QED
  BY <1>1, <1>2, <1>3, PutObjectType

LEMMA AppendToType ==
    ASSUME TypeInv, NEW c \in Clients, NEW p \in Pages, NEW b \in Bodies,
           NEW n \in 1..MaxAttempts, AppendTo(c, p, b, n),
           UNCHANGED <<file, fileVersion, object, pending, view, render, cron>>
    PROVE  TypeInv'
<1> DEFINE r == IF IsHead(p, b) THEN IdleReq
                ELSE [Attempt("upload", p, b, n) EXCEPT !.head = file[p].latest]
<1>1. file[p].latest \in 0..MaxVersion
  BY DEF TypeInv, TypeOK, FileRows
<1>2. r \in Reqs /\ r.pc # "append"
  BY <1>1, AttemptType, IdleReqType DEF Reqs, ReqPCs
<1>3. Goto(c, r)
  BY DEF AppendTo
<1>4. /\ req' \in [Clients -> Reqs]
      /\ AppendInBounds' /\ OneRowPerKey' /\ BelowCeiling'
  BY <1>2, <1>3, RequestStepType
<1> QED
  BY <1>4 DEF TypeInv, TypeOK

\* The transactions of a page, whatever the queue already holds.
LEMMA RemovePageType ==
    ASSUME TypeInv, NEW p \in Pages, NEW keys \in SUBSET Keys,
           NEW reason \in Reasons, RemovePage(p, keys, reason)
    PROVE  /\ file' \in [Pages -> FileRows]
           /\ view' \subseteq Pages
           /\ pending' \subseteq QueueRows
           /\ OneRowPerKey'
           /\ \A q \in pending' : q.key \in cron.rows => q.retries < RetryMax
<1>1. MarkDeleted(file[p]) \in FileRows
  BY DEF MarkDeleted, FileRows, TypeInv, TypeOK
<1> QED
  BY <1>1, EnqueueType DEF RemovePage, TypeInv, TypeOK, OneRowPerKey

\* Steps that change neither a request, nor the queue, nor the cron.
LEMMA TypeFrame ==
    ASSUME TypeInv, file' \in [Pages -> FileRows], view' \subseteq Pages,
           render' \in [Viewers -> Renders],
           UNCHANGED <<fileVersion, object, pending, req, cron>>
    PROVE  TypeInv'
  BY DEF TypeInv, TypeOK, AppendInBounds, OneRowPerKey, BelowCeiling

\* Steps of the cron that leave the pages alone.
LEMMA TypeCron ==
    ASSUME TypeInv, cron' \in Crons, object' \subseteq object,
           pending' \subseteq QueueRows, OneRowPerKey', BelowCeiling',
           UNCHANGED <<file, fileVersion, view, req, render>>
    PROVE  TypeInv'
  BY DEF TypeInv, TypeOK, AppendInBounds

LEMMA TypeRequest ==
    ASSUME TypeInv, NEW c \in Clients,
           Submit(c) \/ Proceed(c) \/ CrashRequest(c)
    PROVE  TypeInv'
<1>0. TypeOK /\ req[c] \in Reqs
  BY DEF TypeInv, TypeOK
<1>1. CASE Publish(c)
  <2>1. PICK b \in Bodies : GenerateAndPut(c, b, 1)
    BY <1>1 DEF Publish
  <2>2. 1 \in 1..MaxAttempts
    BY BoundsAssumption
  <2> QED
    BY <2>1, <2>2, GenerateAndPutType
<1>2. CASE RetryPublish(c)
  <2>1. req[c].body \in Bodies /\ req[c].attempt \in 1..MaxAttempts
    BY <1>0 DEF Reqs
  <2> QED
    BY <1>2, <2>1, GenerateAndPutType DEF RetryPublish
<1>3. CASE CommitPage(c)
  <2> DEFINE r == req[c]
  <2>1. \E reason \in Reasons : Goto(c, IdleReq) \/ Goto(c, Orphaned(r, reason))
    BY <1>3 DEF CommitPage, Reasons
  <2>2. /\ req' \in [Clients -> Reqs]
        /\ AppendInBounds' /\ OneRowPerKey' /\ BelowCeiling'
    <3>1. UNCHANGED <<pending, cron>>
      BY <1>3 DEF CommitPage
    <3>2. \A reason \in Reasons : Orphaned(r, reason) \in Reqs
                                 /\ Orphaned(r, reason).pc = "orphan"
      BY <1>0, OrphanedType
    <3> QED
      BY <2>1, <3>1, <3>2, RequestStepType, IdleReqType
  <2>3. /\ file' \in [Pages -> FileRows]
        /\ fileVersion' \subseteq VersionRows
    <3>1. CASE InsertPage(r)
      <4>1. /\ r.page \in Pages /\ r.key \in Keys /\ r.body \in Bodies
            /\ 0 \in 0..MaxVersion /\ 1 \in 0..MaxVersion /\ 1 \in 1..MaxVersion
        BY <1>0, BoundsAssumption DEF Reqs
      <4> QED
        BY <1>0, <3>1, <4>1 DEF InsertPage, TypeOK, FileRows, VersionRows
    <3>2. CASE UNCHANGED <<file, fileVersion>>
      BY <1>0, <3>2 DEF TypeOK
    <3> QED
      BY <1>3, <3>1, <3>2 DEF CommitPage
  <2> QED
    BY <1>0, <1>3, <2>2, <2>3 DEF CommitPage, TypeInv, TypeOK
<1>4. CASE EnqueueOrphan(c)
  <2> DEFINE r == req[c]
             after == IF r.attempt = MaxAttempts \/ r.reason = "publish_rollback"
                      THEN IdleReq
                      ELSE IF r.reason = "nanoid_conflict"
                      THEN Attempt("new", SomePage, r.body, r.attempt + 1)
                      ELSE Attempt("read", r.page, r.body, r.attempt + 1)
  <2>1. /\ r.page \in Pages /\ r.body \in Bodies /\ r.key \in Keys
        /\ r.reason \in Reasons /\ r.attempt \in 1..MaxAttempts
    BY <1>0 DEF Reqs
  <2>2. r.attempt # MaxAttempts => r.attempt + 1 \in 1..MaxAttempts
    BY <2>1, BoundsAssumption
  <2>3. after \in Reqs /\ after.pc # "append"
    BY <2>1, <2>2, AttemptType, IdleReqType, SomeValues DEF ReqPCs
  <2>4. req' \in [Clients -> Reqs] /\ AppendInBounds'
    <3>1. Goto(c, after)
      BY <1>4 DEF EnqueueOrphan
    <3> HIDE DEF after
    <3> QED
      BY <1>0, <3>1, <2>3 DEF Goto, TypeInv, TypeOK, AppendInBounds
  <2>5. /\ pending' \subseteq QueueRows /\ OneRowPerKey' /\ BelowCeiling'
    <3>1. CASE pending' = Enqueue({r.key}, r.reason)
      <4>1. {r.key} \in SUBSET Keys
        BY <2>1
      <4> QED
        BY <1>4, <2>1, <3>1, <4>1, EnqueueType
           DEF EnqueueOrphan, TypeInv, OneRowPerKey, BelowCeiling
    <3>2. CASE pending' = pending
      BY <1>0, <1>4, <3>2 DEF EnqueueOrphan, TypeInv, TypeOK, OneRowPerKey, BelowCeiling
    <3> QED
      BY <1>4, <3>1, <3>2 DEF EnqueueOrphan
  <2> QED
    BY <1>0, <1>4, <2>4, <2>5 DEF EnqueueOrphan, TypeInv, TypeOK
<1>5. CASE Republish(c)
  <2>1. 1 \in 1..MaxAttempts
    BY BoundsAssumption
  <2> QED
    BY <1>5, <2>1, AppendToType DEF Republish
<1>6. CASE RestoreVersion(c)
  <2>1. 1 \in 1..MaxAttempts
    BY BoundsAssumption
  <2>2. PICK r \in fileVersion, o \in object : AppendTo(c, r.page, o.body, 1)
    BY <1>6 DEF RestoreVersion
  <2>3. r.page \in Pages /\ o.body \in Bodies
    BY <1>0 DEF TypeOK, VersionRows, Objects
  <2>4. UNCHANGED <<file, fileVersion, object, pending, view, render, cron>>
    BY <1>6 DEF RestoreVersion
  <2> QED
    BY <2>1, <2>2, <2>3, <2>4, AppendToType
<1>7. CASE ReadHead(c)
  <2> DEFINE r == req[c]
  <2>1. /\ r.page \in Pages /\ r.body \in Bodies /\ r.attempt \in 1..MaxAttempts
        /\ UNCHANGED <<file, fileVersion, object, pending, view, render, cron>>
    BY <1>0, <1>7 DEF Reqs, ReadHead
  <2>2. CASE AppendTo(c, r.page, r.body, r.attempt)
    BY <2>1, <2>2, AppendToType
  <2>3. CASE Goto(c, IdleReq)
    BY <1>0, <2>1, <2>3, RequestStepType, IdleReqType DEF TypeInv, TypeOK
  <2> QED
    BY <1>7, <2>2, <2>3 DEF ReadHead
<1>8. CASE UploadVersion(c)
  <2> DEFINE r == req[c]
             fresh == FreshKeys(r.page, r.head + 1)
             k == CHOOSE x \in fresh : TRUE
             next == [r EXCEPT !.pc = "append", !.key = k]
  <2>1. UNCHANGED <<file, fileVersion, pending, view, render, cron>>
    BY <1>8 DEF UploadVersion
  <2>2. CASE fresh = {}
    <3>1. Goto(c, IdleReq) /\ UNCHANGED object
      BY <1>8, <2>2 DEF UploadVersion
    <3> QED
      BY <1>0, <2>1, <3>1, RequestStepType, IdleReqType DEF TypeInv, TypeOK
  <2>3. CASE fresh # {}
    <3>1. k \in fresh
      BY <2>3
    <3>2. k \in Keys /\ k.version = r.head + 1
      BY <3>1 DEF FreshKeys
    <3>3. r.head < MaxVersion
      <4>1. k.version \in 1..MaxVersion
        BY <3>2 DEF Keys
      <4> QED
        BY <1>0, <3>2, <4>1, BoundsAssumption DEF Reqs
    <3>4. next \in Reqs /\ next.head = r.head
      BY <1>0, <3>2 DEF Reqs, ReqPCs
    <3>5. r.body \in Bodies
      BY <1>0 DEF Reqs
    <3>6. PutObject(c, k, r.body, next)
      BY <1>8, <2>3 DEF UploadVersion
    <3> HIDE DEF r, k, next
    <3> QED
      BY <2>1, <3>2, <3>3, <3>4, <3>5, <3>6, PutObjectType
  <2> QED
    BY <2>2, <2>3
<1>9. CASE CommitVersion(c)
  <2> DEFINE r == req[c]
  <2>1. \E reason \in Reasons : Goto(c, IdleReq) \/ Goto(c, Orphaned(r, reason))
    BY <1>9 DEF CommitVersion, Reasons
  <2>2. /\ req' \in [Clients -> Reqs]
        /\ AppendInBounds' /\ OneRowPerKey' /\ BelowCeiling'
    <3>1. UNCHANGED <<pending, cron>>
      BY <1>9 DEF CommitVersion
    <3>2. \A reason \in Reasons : Orphaned(r, reason) \in Reqs
                                 /\ Orphaned(r, reason).pc = "orphan"
      BY <1>0, OrphanedType
    <3> QED
      BY <2>1, <3>1, <3>2, RequestStepType, IdleReqType
  <2>3. /\ file' \in [Pages -> FileRows]
        /\ fileVersion' \subseteq VersionRows
    <3>1. CASE InsertVersion(r)
      <4>1. /\ r.page \in Pages /\ r.key \in Keys /\ r.body \in Bodies
            /\ r.head \in 0..MaxVersion
        BY <1>0 DEF Reqs
      <4>2. r.head + 1 \in 1..MaxVersion /\ r.head + 1 \in 0..MaxVersion
        BY <1>9, <4>1, BoundsAssumption DEF CommitVersion, TypeInv, AppendInBounds
      <4>3. AdvanceHead(file[r.page], r.head + 1, r.key) \in FileRows
        BY <1>0, <4>1, <4>2 DEF AdvanceHead, TypeOK, FileRows
      <4>4. file' \in [Pages -> FileRows]
        BY <1>0, <3>1, <4>1, <4>3 DEF InsertVersion, TypeOK
      <4>5. fileVersion' \subseteq VersionRows
        BY <1>0, <3>1, <4>1, <4>2 DEF InsertVersion, TypeOK, VersionRows
      <4> QED
        BY <4>4, <4>5
    <3>2. CASE UNCHANGED <<file, fileVersion>>
      BY <1>0, <3>2 DEF TypeOK
    <3> QED
      BY <1>9, <3>1, <3>2 DEF CommitVersion
  <2> QED
    BY <1>0, <1>9, <2>2, <2>3 DEF CommitVersion, TypeInv, TypeOK
<1>10. CASE DeleteFile(c)
  <2>1. PICK p \in Pages :
            Goto(c, [IdleReq EXCEPT !.pc = "delete", !.page = p, !.keys = ReclaimKeys(p)])
    BY <1>10 DEF DeleteFile
  <2> DEFINE r == [IdleReq EXCEPT !.pc = "delete", !.page = p, !.keys = ReclaimKeys(p)]
  <2>2. r \in Reqs /\ r.pc = "delete"
    BY <1>0, ReclaimKeysType, IdleReqType DEF Reqs, ReqPCs
  <2> QED
    BY <1>0, <1>10, <2>1, <2>2, RequestStepType DEF DeleteFile, TypeInv, TypeOK
<1>11. CASE CommitDelete(c)
  <2> DEFINE r == req[c]
  <2>1. r.page \in Pages /\ r.keys \in SUBSET Keys /\ "user_delete" \in Reasons
    BY <1>0 DEF Reqs, Reasons
  <2>2. /\ file' \in [Pages -> FileRows] /\ view' \subseteq Pages
        /\ pending' \subseteq QueueRows /\ OneRowPerKey' /\ BelowCeiling'
    <3>1. CASE RemovePage(r.page, r.keys, "user_delete")
      BY <1>11, <2>1, <3>1, RemovePageType DEF CommitDelete, BelowCeiling
    <3>2. CASE UNCHANGED <<pending, file, view>>
      BY <1>0, <1>11, <3>2
         DEF CommitDelete, TypeInv, TypeOK, OneRowPerKey, BelowCeiling
    <3> QED
      BY <1>11, <3>1, <3>2 DEF CommitDelete
  <2>3. req' \in [Clients -> Reqs] /\ AppendInBounds'
    BY <1>0, <1>11, IdleReqType DEF CommitDelete, Goto, TypeInv, TypeOK, AppendInBounds
  <2> QED
    BY <1>0, <1>11, <2>2, <2>3 DEF CommitDelete, TypeInv, TypeOK
<1>12. CASE CrashRequest(c)
  BY <1>0, <1>12, RequestStepType, IdleReqType DEF CrashRequest, TypeInv, TypeOK
<1> QED
  BY <1>1, <1>2, <1>3, <1>4, <1>5, <1>6, <1>7, <1>8, <1>9, <1>10, <1>11, <1>12
     DEF Submit, Proceed

LEMMA TypePage ==
    ASSUME TypeInv, NEW p \in Pages, PatchFile(p) \/ Expire(p)
    PROVE  TypeInv'
<1>0. TypeOK /\ file[p] \in FileRows
  BY DEF TypeInv, TypeOK
<1>1. CASE PatchFile(p)
  <2>1. PICK vis \in Visibilities, target \in 0..MaxVersion :
            \/ \E r \in RowsOf(p, IF target = 0 THEN file[p].latest ELSE target) :
                   file' = [file EXCEPT ![p] =
                       [SetSharedVersion(@, target, r.key) EXCEPT !.visibility = vis]]
            \/ file' = [file EXCEPT ![p].visibility = vis]
    BY <1>1 DEF PatchFile
  <2>2. \A r \in fileVersion : r.key \in Keys
    BY <1>0 DEF TypeOK, VersionRows
  <2>3. file' \in [Pages -> FileRows]
    <3>1. CASE file' = [file EXCEPT ![p].visibility = vis]
      BY <1>0, <3>1 DEF TypeOK, FileRows
    <3>2. ASSUME NEW r \in fileVersion,
                 file' = [file EXCEPT ![p] =
                     [SetSharedVersion(@, target, r.key) EXCEPT !.visibility = vis]]
          PROVE  file' \in [Pages -> FileRows]
      <4>1. [SetSharedVersion(file[p], target, r.key) EXCEPT !.visibility = vis] \in FileRows
        BY <1>0, <2>2 DEF SetSharedVersion, FileRows
      <4> QED
        BY <1>0, <3>2, <4>1 DEF TypeOK
    <3> QED
      BY <2>1, <3>1, <3>2 DEF RowsOf
  <2> QED
    BY <1>0, <1>1, <2>3, TypeFrame DEF PatchFile, TypeOK
<1>2. CASE Expire(p)
  <2>1. file' \in [Pages -> FileRows]
    BY <1>0, <1>2 DEF Expire, TypeOK, FileRows
  <2> QED
    BY <1>0, <1>2, <2>1, TypeFrame DEF Expire, TypeOK
<1> QED
  BY <1>1, <1>2

LEMMA TypeRender ==
    ASSUME TypeInv, NEW v \in Viewers, RenderStep(v)
    PROVE  TypeInv'
<1>0. TypeOK /\ render[v] \in Renders
  BY DEF TypeInv, TypeOK
<1>1. CASE Render(v)
  <2>1. PICK p \in Pages :
            \/ RenderTo(v, [pc |-> "fetch", page |-> p, key |-> file[p].serving])
            \/ \E k \in ReclaimKeys(p) :
                   RenderTo(v, [pc |-> "preview", page |-> p, key |-> k])
    BY <1>1 DEF Render
  <2>2. file[p].serving \in Keys /\ ReclaimKeys(p) \subseteq Keys
    BY <1>0, ReclaimKeysType DEF TypeOK, FileRows
  <2>3. \A k \in Keys, pc \in {"fetch", "preview"} :
            [pc |-> pc, page |-> p, key |-> k] \in Renders
    BY DEF Renders
  <2> QED
    BY <1>0, <1>1, <2>1, <2>2, <2>3, TypeFrame DEF Render, RenderTo, TypeOK
<1>2. CASE FetchObject(v)
  <2>1. [IdleRender EXCEPT !.pc = "check", !.page = render[v].page] \in Renders
    BY <1>0, IdleRenderType DEF Renders
  <2>2. render' \in [Viewers -> Renders]
    BY <1>0, <1>2, <2>1, IdleRenderType DEF FetchObject, RenderTo, TypeOK
  <2> QED
    BY <1>0, <1>2, <2>2, TypeFrame DEF FetchObject, TypeOK
<1>3. CASE CheckView(v)
  <2>1. [render[v] EXCEPT !.pc = "count"] \in Renders
    BY <1>0 DEF Renders
  <2>2. render' \in [Viewers -> Renders]
    BY <1>0, <1>3, <2>1, IdleRenderType DEF CheckView, RenderTo, TypeOK
  <2> QED
    BY <1>0, <1>3, <2>2, TypeFrame DEF CheckView, TypeOK
<1>4. CASE CountView(v)
  <2>1. render' \in [Viewers -> Renders] /\ view' \subseteq Pages
    BY <1>0, <1>4, IdleRenderType DEF CountView, RenderTo, TypeOK, Renders
  <2> QED
    BY <1>0, <1>4, <2>1, TypeFrame DEF CountView, TypeOK
<1> QED
  BY <1>1, <1>2, <1>3, <1>4 DEF RenderStep

LEMMA TypeCleanup ==
    ASSUME TypeInv, CronStep \/ CrashCron
    PROVE  TypeInv'
<1>0. TypeOK /\ cron \in Crons
  BY DEF TypeInv, TypeOK
<1>1. CASE StartRound
  <2>1. cron' \in Crons /\ cron'.rows = {}
    BY <1>1, IdleCronType DEF StartRound, Crons, CronPCs
  <2> QED
    BY <1>0, <1>1, <2>1, TypeCron
       DEF StartRound, TypeInv, TypeOK, OneRowPerKey, BelowCeiling
<1>2. CASE \E p \in Pages : ReadExpired(p)
  <2>1. PICK p \in Pages : ReadExpired(p)
    BY <1>2
  <2>2. cron' \in Crons /\ cron'.rows = cron.rows
    BY <1>0, <2>1, ReclaimKeysType DEF ReadExpired, Crons, CronPCs
  <2> QED
    BY <1>0, <2>1, <2>2, TypeCron
       DEF ReadExpired, TypeInv, TypeOK, OneRowPerKey, BelowCeiling
<1>3. CASE CommitExpired
  <2>1. cron.page \in Pages /\ cron.keys \in SUBSET Keys /\ "expired" \in Reasons
    BY <1>0 DEF Crons, Reasons
  <2>2. cron' \in Crons /\ cron'.rows = {}
    BY <1>0, <1>3, IdleCronType DEF CommitExpired, Crons, CronPCs
  <2>3. /\ file' \in [Pages -> FileRows] /\ view' \subseteq Pages
        /\ pending' \subseteq QueueRows /\ OneRowPerKey'
    <3>1. CASE RemovePage(cron.page, cron.keys, "expired")
      BY <2>1, <3>1, RemovePageType
    <3>2. CASE UNCHANGED <<pending, file, view>>
      BY <1>0, <3>2 DEF TypeInv, TypeOK, OneRowPerKey
    <3> QED
      BY <1>3, <3>1, <3>2 DEF CommitExpired
  <2> QED
    BY <1>0, <1>3, <2>2, <2>3
       DEF CommitExpired, TypeInv, TypeOK, AppendInBounds, BelowCeiling
<1>4. CASE ListPending
  <2> DEFINE rows == {q.key : q \in Reclaimable}
  <2>0. rows \in SUBSET Keys
    BY <1>0 DEF Reclaimable, TypeOK, QueueRows
  <2>1. cron' \in Crons /\ cron'.rows = rows
    <3>1. cron' = [IdleCron EXCEPT !.pc = "drain", !.rows = rows]
      BY <1>4 DEF ListPending
    <3> HIDE DEF rows
    <3> QED
      BY <2>0, <3>1, IdleCronType DEF Crons, CronPCs
  <2>2. BelowCeiling'
    BY <1>4, <2>1 DEF ListPending, Reclaimable, TypeInv, OneRowPerKey, BelowCeiling
  <2> QED
    BY <1>0, <1>4, <2>1, <2>2, TypeCron DEF ListPending, TypeInv, TypeOK, OneRowPerKey
<1>5. CASE \E k \in cron.rows : DeleteObject(k)
  <2>1. PICK k \in cron.rows : DeleteObject(k)
    BY <1>5
  <2>2. k \in Keys
    BY <1>0 DEF Crons
  <2>3. cron' \in Crons /\ cron'.rows = cron.rows \ {k} /\ object' \subseteq object
    BY <1>0, <2>1, <2>2 DEF DeleteObject, Crons, CronPCs
  <2>4. CASE pending' = pending
    BY <1>0, <2>1, <2>3, <2>4, TypeCron
       DEF DeleteObject, TypeInv, TypeOK, OneRowPerKey, BelowCeiling
  <2>5. CASE pending' = IncrRetry(k)
    <3>1. \A q \in pending : q.key = k => q.retries + 1 \in 0..RetryMax
      BY <1>0, BoundsAssumption DEF TypeInv, TypeOK, QueueRows, BelowCeiling
    <3>2. \A q \in pending : q.key = k =>
              /\ [q EXCEPT !.retries = @ + 1] \in QueueRows
              /\ [q EXCEPT !.retries = @ + 1].key = k
      BY <1>0, <3>1 DEF TypeOK, QueueRows
    <3>3. pending' \subseteq QueueRows
      BY <1>0, <2>5, <3>2 DEF IncrRetry, TypeOK
    <3>4. OneRowPerKey'
      <4>1. \A q \in pending' :
                \/ q \in pending /\ q.key # k
                \/ \E x \in pending : x.key = k /\ q = [x EXCEPT !.retries = @ + 1]
        BY <2>5 DEF IncrRetry
      <4>2. \A q1, q2 \in pending : q1.key = q2.key => q1 = q2
        BY DEF TypeInv, OneRowPerKey
      <4>3. ASSUME NEW q1 \in pending', NEW q2 \in pending', q1.key = q2.key
            PROVE  q1 = q2
        <5>1. CASE q1.key = k
          <6>1. PICK x1 \in pending : x1.key = k /\ q1 = [x1 EXCEPT !.retries = @ + 1]
            BY <4>1, <5>1
          <6>2. PICK x2 \in pending : x2.key = k /\ q2 = [x2 EXCEPT !.retries = @ + 1]
            BY <4>1, <4>3, <5>1
          <6> QED
            BY <4>2, <6>1, <6>2
        <5>2. CASE q1.key # k
          BY <3>2, <4>1, <4>2, <4>3, <5>2
        <5> QED
          BY <5>1, <5>2
      <4> QED
        BY <4>3 DEF OneRowPerKey
    <3>5. BelowCeiling'
      BY <2>3, <2>5, <3>2 DEF IncrRetry, TypeInv, BelowCeiling
    <3> QED
      BY <2>1, <2>3, <3>3, <3>4, <3>5, TypeCron DEF DeleteObject
  <2> QED
    BY <2>1, <2>4, <2>5 DEF DeleteObject
<1>6. CASE DropRow
  <2>1. cron' \in Crons /\ cron'.rows = cron.rows
    BY <1>0, <1>6, IdleCronType DEF DropRow, Crons, CronPCs
  <2>2. pending' \subseteq pending
    BY <1>6 DEF DropRow
  <2> QED
    BY <1>0, <1>6, <2>1, <2>2, TypeCron
       DEF DropRow, TypeInv, TypeOK, OneRowPerKey, BelowCeiling
<1>7. CASE EndRound \/ CrashCron
  <2>1. cron' \in Crons /\ cron'.rows = {}
    BY <1>7, IdleCronType DEF EndRound, CrashCron
  <2> QED
    BY <1>0, <1>7, <2>1, TypeCron
       DEF EndRound, CrashCron, TypeInv, TypeOK, OneRowPerKey, BelowCeiling
<1> QED
  BY <1>1, <1>2, <1>3, <1>4, <1>5, <1>6, <1>7 DEF CronStep

LEMMA TypeRetention ==
    ASSUME TypeInv, NEW q \in pending, PassRetention(q)
    PROVE  TypeInv'
<1> DEFINE a == [q EXCEPT !.aged = TRUE]
<1>1. a \in QueueRows /\ a.key = q.key /\ a.retries = q.retries
  BY DEF TypeInv, TypeOK, QueueRows
<1>2. pending' = (pending \ {q}) \cup {a}
  BY DEF PassRetention
<1> HIDE DEF a
<1>3. pending' \subseteq QueueRows
  BY <1>1, <1>2 DEF TypeInv, TypeOK
<1>4. OneRowPerKey' /\ BelowCeiling'
  BY <1>1, <1>2 DEF TypeInv, OneRowPerKey, BelowCeiling, PassRetention
<1> QED
  BY <1>3, <1>4 DEF PassRetention, TypeInv, TypeOK, AppendInBounds

LEMMA TypeStep == TypeInv /\ [Next]_vars => TypeInv'
<1> SUFFICES ASSUME TypeInv, [Next]_vars PROVE TypeInv'
  OBVIOUS
<1>1. CASE UNCHANGED vars
  BY <1>1 DEF vars, TypeInv, TypeOK, AppendInBounds, OneRowPerKey, BelowCeiling
<1>2. CASE Next
  BY <1>2, TypeRequest, TypePage, TypeRender, TypeCleanup, TypeRetention DEF Next
<1> QED
  BY <1>1, <1>2

LEMMA TypeInvariant == Spec => []TypeInv
  BY TypeInit, TypeStep, PTL DEF Spec

\* Under every fault, rows and processes keep their types: publish.go takes no
\* more turns than nanoIDMaxRetries, and no row's retry_count passes retry_max,
\* although the cron's list is a snapshot older than the counts it bumps.
THEOREM TypeCorrect == Spec => []TypeOK
<1>1. TypeInv => TypeOK
  BY DEF TypeInv
<1> QED
  BY <1>1, TypeInvariant, PTL

-----------------------------------------------------------------------------
(* Deletion is final.                                                         *)

\* The ways a step can change the rows of a page.
LEMMA RowSteps ==
    ASSUME TypeOK, Next
    PROVE  \/ UNCHANGED <<file, fileVersion>>
           \/ \E c \in Clients : /\ req[c].pc = "create" /\ InsertPage(req[c])
                                 /\ file[req[c].page].status = "none"
           \/ \E c \in Clients : /\ req[c].pc = "append" /\ InsertVersion(req[c])
                                 /\ CanAdvance(file[req[c].page], req[c].head + 1)
           \/ \E p \in Pages : PatchFile(p) \/ Expire(p)
           \/ /\ fileVersion' = fileVersion
              /\ \E p \in Pages : file' = [file EXCEPT ![p] = MarkDeleted(@)]
<1>1. ASSUME NEW c \in Clients, Submit(c) \/ CrashRequest(c)
      PROVE  UNCHANGED <<file, fileVersion>>
  BY <1>1 DEF Submit, CrashRequest, Publish, GenerateAndPut, Republish, RestoreVersion,
              DeleteFile
<1>2. ASSUME NEW c \in Clients, RetryPublish(c) \/ EnqueueOrphan(c) \/ ReadHead(c)
                                  \/ UploadVersion(c)
      PROVE  UNCHANGED <<file, fileVersion>>
  BY <1>2 DEF RetryPublish, GenerateAndPut, EnqueueOrphan, ReadHead, UploadVersion
<1>3. ASSUME NEW c \in Clients, CommitPage(c)
      PROVE  \/ UNCHANGED <<file, fileVersion>>
             \/ /\ req[c].pc = "create" /\ InsertPage(req[c])
                /\ file[req[c].page].status = "none"
  BY <1>3 DEF CommitPage
<1>4. ASSUME NEW c \in Clients, CommitVersion(c)
      PROVE  \/ UNCHANGED <<file, fileVersion>>
             \/ /\ req[c].pc = "append" /\ InsertVersion(req[c])
                /\ CanAdvance(file[req[c].page], req[c].head + 1)
  BY <1>4 DEF CommitVersion
<1>5. ASSUME NEW c \in Clients, CommitDelete(c)
      PROVE  /\ fileVersion' = fileVersion
             /\ \/ file' = file
                \/ \E p \in Pages : file' = [file EXCEPT ![p] = MarkDeleted(@)]
  <2>1. req[c].page \in Pages
    BY DEF TypeOK, Reqs
  <2> QED
    BY <1>5, <2>1 DEF CommitDelete, RemovePage
<1>6. ASSUME NEW v \in Viewers, RenderStep(v)
      PROVE  UNCHANGED <<file, fileVersion>>
  BY <1>6 DEF RenderStep, Render, FetchObject, CheckView, CountView
<1>7. ASSUME CronStep \/ CrashCron
      PROVE  /\ fileVersion' = fileVersion
             /\ \/ file' = file
                \/ \E p \in Pages : file' = [file EXCEPT ![p] = MarkDeleted(@)]
  <2>1. cron.page \in Pages
    BY DEF TypeOK, Crons
  <2> QED
    BY <1>7, <2>1 DEF CronStep, CrashCron, StartRound, ListPending, CommitExpired,
         RemovePage, DropRow, EndRound, ReadExpired, DeleteObject
<1>8. ASSUME NEW q \in pending, PassRetention(q)
      PROVE  UNCHANGED <<file, fileVersion>>
  BY <1>8 DEF PassRetention
<1> QED
  BY <1>1, <1>2, <1>3, <1>4, <1>5, <1>6, <1>7, <1>8 DEF Next, Proceed

\* AdvanceHead, SetSharedVersion and SetVisibility only reach a page that is
\* live, and MarkDeleted leaves a deleted one as it is.
LEMMA DeletionStep == TypeOK /\ [Next]_vars => [DeletedStandStill]_vars
<1> SUFFICES ASSUME TypeOK, Next,
                    NEW p \in Pages, file[p].status = "deleted"
             PROVE  /\ file'[p] = file[p]
                    /\ \A r \in fileVersion' : r.page = p => r \in fileVersion
  BY DEF DeletedStandStill
<1>0. file \in [Pages -> FileRows] /\ req \in [Clients -> Reqs]
  BY DEF TypeOK
<1>1. CASE UNCHANGED <<file, fileVersion>>
  BY <1>1
<1>2. ASSUME NEW c \in Clients, InsertPage(req[c]), file[req[c].page].status = "none"
      PROVE  /\ file'[p] = file[p]
             /\ \A r \in fileVersion' : r.page = p => r \in fileVersion
  BY <1>0, <1>2 DEF InsertPage
<1>3. ASSUME NEW c \in Clients, InsertVersion(req[c]),
             CanAdvance(file[req[c].page], req[c].head + 1)
      PROVE  /\ file'[p] = file[p]
             /\ \A r \in fileVersion' : r.page = p => r \in fileVersion
  BY <1>0, <1>3 DEF InsertVersion, CanAdvance
<1>4. ASSUME NEW x \in Pages, PatchFile(x) \/ Expire(x)
      PROVE  file'[p] = file[p] /\ fileVersion' = fileVersion
  <2>1. x # p
    BY <1>4 DEF PatchFile, Expire, Live
  <2>2. fileVersion' = fileVersion
    BY <1>4 DEF PatchFile, Expire
  <2>3. CASE PatchFile(x)
    BY <1>0, <2>1, <2>2, <2>3 DEF PatchFile
  <2>4. CASE Expire(x)
    BY <1>0, <2>1, <2>2, <2>4 DEF Expire
  <2> QED
    BY <1>4, <2>3, <2>4
<1>5. ASSUME NEW x \in Pages, file' = [file EXCEPT ![x] = MarkDeleted(@)],
             fileVersion' = fileVersion
      PROVE  file'[p] = file[p]
  BY <1>0, <1>5 DEF MarkDeleted
<1> QED
  BY <1>1, <1>2, <1>3, <1>4, <1>5, RowSteps

\* Under every fault, a deleted page stands still: whatever a publish, a restore
\* or a pin was about to commit when DeleteFile or the cron removed the page.
THEOREM DeletionFinal == Spec => DeletedIsFinal
<1>1. TypeOK /\ [Next]_vars => [DeletedStandStill]_vars
  BY DeletionStep
<1> QED
  BY <1>1, TypeCorrect, PTL DEF Spec, DeletedIsFinal

-----------------------------------------------------------------------------
(* Histories are gapless and serving caches current.                          *)

\* A nano id without a row has no history.
Fresh == \A p \in Pages : file[p].status = "none" => file[p].latest = 0

HistoryInv == TypeOK /\ Fresh /\ GaplessHistory /\ ServingFollowsShare

\* A transaction that adds the version after the latest keeps the history whole.
LEMMA HistoryGrows ==
    ASSUME HistoryInv, TypeOK', NEW p \in Pages, NEW row \in FileRows, NEW new \in VersionRows,
           new.page = p, new.version = file[p].latest + 1, row.status = "live",
           row.latest = new.version, file' = [file EXCEPT ![p] = row],
           fileVersion' = fileVersion \cup {new},
           \/ row.shared = 0 /\ row.serving = new.key
           \/ Live(p) /\ row.shared # 0 /\ row.shared = file[p].shared
                     /\ row.serving = file[p].serving
    PROVE  HistoryInv'
<1>0. /\ file \in [Pages -> FileRows] /\ fileVersion \subseteq VersionRows
      /\ file[p].latest \in Nat /\ file'[p] = row
      /\ \A x \in Pages : x # p => file'[x] = file[x]
  BY BoundsAssumption DEF HistoryInv, TypeOK, FileRows
<1>1. \A r \in fileVersion : r.page = p => r.version \in 1..file[p].latest
  BY DEF HistoryInv, GaplessHistory
<1>2. Fresh'
  BY <1>0 DEF HistoryInv, Fresh
<1>3. GaplessHistory'
  <2>1. ASSUME NEW q \in Pages
        PROVE  {r.version : r \in {x \in fileVersion' : x.page = q}} = 1..file'[q].latest
    <3>1. {r.version : r \in {x \in fileVersion : x.page = q}} = 1..file[q].latest
      BY DEF HistoryInv, GaplessHistory
    <3>2. CASE q = p
      <4>1. {r.version : r \in {x \in fileVersion' : x.page = p}} =
                {r.version : r \in {x \in fileVersion : x.page = p}} \cup {new.version}
        OBVIOUS
      <4>2. 1..(file[p].latest + 1) = 1..file[p].latest \cup {file[p].latest + 1}
        BY <1>0
      <4> QED
        BY <1>0, <3>1, <3>2, <4>1, <4>2
    <3>3. CASE q # p
      <4>1. {x \in fileVersion' : x.page = q} = {x \in fileVersion : x.page = q}
        BY <3>3
      <4> QED
        BY <1>0, <3>1, <3>3, <4>1
    <3> QED
      BY <3>2, <3>3
  <2>2. ASSUME NEW q \in Pages, NEW r \in fileVersion', NEW s \in fileVersion',
               r.page = q, s.page = q, r.version = s.version
        PROVE  r = s
    <3>1. \A x \in fileVersion : x.page = p => x.version # new.version
      BY <1>0, <1>1
    <3> QED
      BY <2>2, <3>1 DEF HistoryInv, GaplessHistory
  <2> QED
    BY <2>1, <2>2 DEF GaplessHistory
<1>4. ServingFollowsShare'
  <2> SUFFICES ASSUME NEW q \in Pages, file'[q].status = "live"
               PROVE  \E r \in fileVersion' :
                          /\ r.page = q
                          /\ r.version = (IF file'[q].shared = 0 THEN file'[q].latest
                                                                ELSE file'[q].shared)
                          /\ r.key = file'[q].serving
    BY DEF ServingFollowsShare, RowsOf, Live
  <2>1. CASE q # p
    BY <1>0, <2>1 DEF HistoryInv, ServingFollowsShare, RowsOf, Live
  <2>2. CASE q = p /\ row.shared = 0
    BY <1>0, <2>2
  <2>3. CASE q = p /\ row.shared # 0
    BY <1>0, <2>3 DEF HistoryInv, ServingFollowsShare, RowsOf
  <2> QED
    BY <2>1, <2>2, <2>3
<1> QED
  BY <1>2, <1>3, <1>4 DEF HistoryInv

\* Transactions that add no version, and leave the serving cache on the share.
LEMMA HistoryStays ==
    ASSUME HistoryInv, TypeOK', NEW p \in Pages, NEW row \in FileRows,
           file' = [file EXCEPT ![p] = row], fileVersion' = fileVersion,
           row.latest = file[p].latest,
           row.status # "none" \/ file[p].status = "none",
           row.status = "live" =>
               \E r \in fileVersion :
                   /\ r.page = p /\ r.key = row.serving
                   /\ r.version = (IF row.shared = 0 THEN row.latest ELSE row.shared)
    PROVE  HistoryInv'
<1>0. /\ file \in [Pages -> FileRows] /\ file'[p] = row
      /\ \A x \in Pages : file'[x].latest = file[x].latest /\ (x # p => file'[x] = file[x])
  BY DEF HistoryInv, TypeOK
<1>1. Fresh' /\ GaplessHistory'
  BY <1>0 DEF HistoryInv, Fresh, GaplessHistory
<1>2. ServingFollowsShare'
  BY <1>0 DEF HistoryInv, ServingFollowsShare, RowsOf, Live
<1> QED
  BY <1>1, <1>2 DEF HistoryInv

LEMMA HistoryPage ==
    ASSUME HistoryInv, TypeOK', NEW p \in Pages, PatchFile(p) \/ Expire(p)
    PROVE  HistoryInv'
<1>0. file \in [Pages -> FileRows] /\ file[p] \in FileRows /\ fileVersion' = fileVersion
  BY DEF HistoryInv, TypeOK, PatchFile, Expire
<1>1. Live(p)
  BY DEF PatchFile, Expire
<1>2. ASSUME NEW row, file' = [file EXCEPT ![p] = row], row.status = "live",
             row.latest = file[p].latest,
             \/ row.shared = file[p].shared /\ row.serving = file[p].serving
             \/ \E r \in RowsOf(p, IF row.shared = 0 THEN row.latest ELSE row.shared) :
                    r.key = row.serving
      PROVE  HistoryInv'
  <2>1. row \in FileRows
    <3>1. file'[p] = row
      BY <1>0, <1>2
    <3> QED
      BY <3>1 DEF TypeOK
  <2>2. \E r \in fileVersion :
            /\ r.page = p /\ r.key = row.serving
            /\ r.version = (IF row.shared = 0 THEN row.latest ELSE row.shared)
    BY <1>1, <1>2 DEF HistoryInv, ServingFollowsShare, RowsOf
  <2> QED
    BY <1>0, <1>2, <2>1, <2>2, HistoryStays
<1>3. CASE PatchFile(p)
  <2>1. PICK vis \in Visibilities, target \in 0..MaxVersion :
            \/ \E r \in RowsOf(p, IF target = 0 THEN file[p].latest ELSE target) :
                   file' = [file EXCEPT ![p] =
                       [SetSharedVersion(@, target, r.key) EXCEPT !.visibility = vis]]
            \/ file' = [file EXCEPT ![p].visibility = vis]
    BY <1>3 DEF PatchFile
  <2>2. CASE file' = [file EXCEPT ![p].visibility = vis]
    <3> DEFINE row == [file[p] EXCEPT !.visibility = vis]
    <3>1. /\ row.status = "live" /\ row.latest = file[p].latest
          /\ row.shared = file[p].shared /\ row.serving = file[p].serving
      BY <1>0, <1>1 DEF FileRows, Live
    <3>2. file' = [file EXCEPT ![p] = row]
      BY <1>0, <2>2
    <3> HIDE DEF row
    <3> QED
      BY <1>2, <3>1, <3>2
  <2>3. ASSUME NEW r \in RowsOf(p, IF target = 0 THEN file[p].latest ELSE target),
               file' = [file EXCEPT ![p] =
                   [SetSharedVersion(@, target, r.key) EXCEPT !.visibility = vis]]
        PROVE  HistoryInv'
    <3> DEFINE row == [SetSharedVersion(file[p], target, r.key) EXCEPT !.visibility = vis]
    <3>1. /\ row.status = "live" /\ row.latest = file[p].latest
          /\ row.shared = target /\ row.serving = r.key
      BY <1>0, <1>1 DEF SetSharedVersion, FileRows, Live
    <3>2. file' = [file EXCEPT ![p] = row]
      BY <2>3
    <3> HIDE DEF row
    <3> QED
      BY <1>2, <2>3, <3>1, <3>2
  <2> QED
    BY <2>1, <2>2, <2>3
<1>4. CASE Expire(p)
  <2> DEFINE row == [file[p] EXCEPT !.expired = TRUE]
  <2>1. /\ row.status = "live" /\ row.latest = file[p].latest
        /\ row.shared = file[p].shared /\ row.serving = file[p].serving
    BY <1>0, <1>1 DEF FileRows, Live
  <2>2. file' = [file EXCEPT ![p] = row]
    BY <1>0, <1>4 DEF Expire
  <2> HIDE DEF row
  <2> QED
    BY <1>2, <2>1, <2>2
<1> QED
  BY <1>3, <1>4

LEMMA HistoryStep == TypeInv /\ HistoryInv /\ [Next]_vars => HistoryInv'
<1> SUFFICES ASSUME TypeInv, HistoryInv, [Next]_vars PROVE HistoryInv'
  OBVIOUS
<1>0. TypeOK' /\ TypeOK /\ req \in [Clients -> Reqs] /\ file \in [Pages -> FileRows]
  BY TypeStep DEF TypeInv, TypeOK
<1>1. CASE UNCHANGED <<file, fileVersion>>
  BY <1>0, <1>1 DEF HistoryInv, Fresh, GaplessHistory, ServingFollowsShare, RowsOf, Live
<1>2. ASSUME NEW c \in Clients, InsertPage(req[c]), file[req[c].page].status = "none"
      PROVE  HistoryInv'
  <2> DEFINE r == req[c]
             new == [page |-> r.page, version |-> 1, key |-> r.key, body |-> r.body]
  <2>1. /\ r.page \in Pages /\ r.key \in Keys /\ r.body \in Bodies
        /\ 0 \in 0..MaxVersion /\ 1 \in 0..MaxVersion /\ 1 \in 1..MaxVersion
    BY <1>0, BoundsAssumption DEF Reqs
  <2>2. PICK vis \in Visibilities :
            file' = [file EXCEPT ![r.page] =
                        [status |-> "live", expired |-> FALSE, latest |-> 1,
                         shared |-> 0, serving |-> r.key, visibility |-> vis]]
    BY <1>2 DEF InsertPage
  <2> DEFINE row == [status |-> "live", expired |-> FALSE, latest |-> 1,
                     shared |-> 0, serving |-> r.key, visibility |-> vis]
  <2>3. /\ row \in FileRows /\ row.status = "live" /\ row.latest = 1
        /\ row.shared = 0 /\ row.serving = r.key
    BY <2>1 DEF FileRows
  <2>4. /\ new \in VersionRows /\ new.page = r.page /\ new.version = 1 /\ new.key = r.key
        /\ fileVersion' = fileVersion \cup {new}
    BY <1>2, <2>1 DEF VersionRows, InsertPage
  <2>5. file[r.page].latest + 1 = 1
    BY <1>2, <2>1 DEF HistoryInv, Fresh
  <2>6. file' = [file EXCEPT ![r.page] = row]
    BY <2>2
  <2> HIDE DEF row, new
  <2> QED
    BY <1>0, <2>1, <2>3, <2>4, <2>5, <2>6, HistoryGrows
<1>3. ASSUME NEW c \in Clients, InsertVersion(req[c]),
             CanAdvance(file[req[c].page], req[c].head + 1)
      PROVE  HistoryInv'
  <2> DEFINE r == req[c]
             new == [page |-> r.page, version |-> r.head + 1, key |-> r.key, body |-> r.body]
             row == AdvanceHead(file[r.page], r.head + 1, r.key)
  <2>1. /\ r.page \in Pages /\ r.head \in Nat /\ file[r.page] \in FileRows
        /\ file[r.page].latest \in Nat
    BY <1>0, BoundsAssumption DEF Reqs, FileRows
  <2>2. file[r.page].status = "live" /\ file[r.page].latest = r.head
    BY <1>3, <2>1 DEF CanAdvance
  <2>3. /\ row.status = "live" /\ row.latest = r.head + 1
        /\ row.shared = file[r.page].shared
        /\ row.serving = IF file[r.page].shared = 0 THEN r.key ELSE file[r.page].serving
    BY <2>1, <2>2 DEF AdvanceHead, FileRows
  <2>4. /\ file' = [file EXCEPT ![r.page] = row]
        /\ fileVersion' = fileVersion \cup {new}
    BY <1>3 DEF InsertVersion
  <2>5. row = file'[r.page] /\ new \in fileVersion'
    BY <1>0, <2>1, <2>4
  <2>6. row \in FileRows /\ new \in VersionRows
    BY <1>0, <2>1, <2>5 DEF TypeOK
  <2>7. new.page = r.page /\ new.version = r.head + 1 /\ new.key = r.key
    OBVIOUS
  <2> HIDE DEF row, new
  <2> QED
    BY <1>0, <2>1, <2>2, <2>3, <2>4, <2>6, <2>7, HistoryGrows DEF Live
<1>4. ASSUME NEW p \in Pages, PatchFile(p) \/ Expire(p)
      PROVE  HistoryInv'
  BY <1>0, <1>4, HistoryPage
<1>5. ASSUME NEW p \in Pages, file' = [file EXCEPT ![p] = MarkDeleted(@)],
             fileVersion' = fileVersion
      PROVE  HistoryInv'
  <2> DEFINE row == MarkDeleted(file[p])
  <2>1. /\ row \in FileRows /\ row.status # "live" /\ row.latest = file[p].latest
        /\ row.status = "none" => file[p].status = "none"
    BY <1>0 DEF MarkDeleted, FileRows
  <2> HIDE DEF row
  <2>2. file' = [file EXCEPT ![p] = row]
    BY <1>5 DEF row
  <2> QED
    BY <1>0, <1>5, <2>1, <2>2, HistoryStays
<1>6. CASE Next
  BY <1>0, <1>1, <1>2, <1>3, <1>4, <1>5, <1>6, RowSteps
<1> QED
  BY <1>1, <1>6 DEF vars

LEMMA HistoryInvariance == Spec => []HistoryInv
<1>1. Init => HistoryInv
  <2> SUFFICES ASSUME Init PROVE HistoryInv
    OBVIOUS
  <2>1. TypeOK
    BY TypeInit DEF TypeInv
  <2>2. \A p \in Pages : file[p].status = "none" /\ file[p].latest = 0
    BY DEF Init, NoFile
  <2>3. fileVersion = {}
    BY DEF Init
  <2>4. GaplessHistory
    <3>1. 1..0 = {}
      OBVIOUS
    <3> QED
      BY <2>2, <2>3, <3>1 DEF GaplessHistory
  <2> QED
    BY <2>1, <2>2, <2>4 DEF HistoryInv, Fresh, ServingFollowsShare, Live
<1>2. TypeInv /\ HistoryInv /\ [Next]_vars => HistoryInv'
  BY HistoryStep
<1> QED
  BY <1>1, <1>2, TypeInvariant, PTL DEF Spec

\* Under every fault, racing publishes and restores number a page's versions
\* 1..latest_version, one row each: the CAS of AdvanceHead and the version row
\* commit together or not at all.
THEOREM HistoryGapless == Spec => []GaplessHistory
<1>1. HistoryInv => GaplessHistory
  BY DEF HistoryInv
<1> QED
  BY <1>1, HistoryInvariance, PTL

\* Under every fault, the serving cache of a live page names the version it
\* shares, whichever of AdvanceHead and SetSharedVersion wrote it last.
THEOREM ServingCurrent == Spec => []ServingFollowsShare
<1>1. HistoryInv => ServingFollowsShare
  BY DEF HistoryInv
<1> QED
  BY <1>1, HistoryInvariance, PTL

-----------------------------------------------------------------------------
(* No live page loses an object.  What the safety properties rest on: until   *)
(* its transaction an upload is nobody else's, what a deletion or the cron    *)
(* holds belongs to the page being removed or to the queue, and a serving     *)
(* cache or a reader holds the key of a version.                              *)

\* A nano id is drawn once, and a transaction that reports an error did not
\* take effect.
UnambiguousWrites == "collision" \notin Faults /\ "db_ack" \notin Faults

Uploading(c) == req[c].pc \in {"create", "append"}
Holding(c) == req[c].pc \in {"create", "append", "orphan"}

RowsKnown ==
    \A r \in fileVersion : r.key.page = r.page /\ file[r.page].status # "none"

HeldUnreferenced ==
    \A c \in Clients : Holding(c) =>
        /\ req[c].key.page = req[c].page
        /\ \A r \in fileVersion : r.key # req[c].key

HeldApart ==
    \A c, d \in Clients : Holding(c) /\ Holding(d) /\ c # d => req[c].key # req[d].key

UploadsStored ==
    \A c \in Clients : Uploading(c) =>
        /\ [key |-> req[c].key, body |-> req[c].body] \in object
        /\ req[c].key \notin QueuedKeys

DeletionsKnown ==
    /\ \A c \in Clients : req[c].pc = "delete" => req[c].keys \subseteq ReclaimKeys(req[c].page)
    /\ cron.pc = "expiring" => cron.keys \subseteq ReclaimKeys(cron.page)

CronQueued ==
    /\ cron.rows \subseteq QueuedKeys
    /\ cron.pc = "drop" => cron.key \notin cron.rows

ReadersKnown ==
    /\ \A p \in Pages : file[p].status # "none" => file[p].serving \in ReclaimKeys(p)
    /\ \A v \in Viewers : render[v].pc \in {"fetch", "preview"} =>
           render[v].key \in ReclaimKeys(render[v].page)

Held == HeldUnreferenced /\ HeldApart /\ UploadsStored
Known == RowsKnown /\ DeletionsKnown /\ CronQueued /\ ReadersKnown
Safe == LiveVersionsStored /\ QueueSparesLivePages /\ RollbackNeverCommitted
Inv == TypeOK /\ Held /\ Known /\ Safe

LEMMA InvInit == Init => Inv
  BY TypeInit, IdleReqType, IdleRenderType, IdleCronType
     DEF Init, NoFile, TypeInv, Inv, Held, Known, Safe, RowsKnown, HeldUnreferenced, HeldApart,
         UploadsStored, DeletionsKnown, CronQueued, ReadersKnown, LiveVersionsStored,
         QueueSparesLivePages, RollbackNeverCommitted, QueuedKeys, Live, Uploading, Holding

\* A request gives up or reads: it holds no upload after the step.
LEMMA RequestReleases ==
    ASSUME Inv, TypeOK', NEW c \in Clients, NEW r \in Reqs, Goto(c, r),
           r.pc \notin {"create", "append", "orphan", "delete"},
           UNCHANGED <<file, fileVersion, object, pending, render, cron>>
    PROVE  Inv'
<1>0. req \in [Clients -> Reqs]
  BY DEF Inv, TypeOK
<1>1. \A d \in Clients :
          \/ req'[d] = req[d]
          \/ req'[d].pc \notin {"create", "append", "orphan", "delete"}
  BY <1>0 DEF Goto
<1>2. Held'
  BY <1>1 DEF Inv, Held, HeldUnreferenced, HeldApart, UploadsStored, Holding, Uploading,
              QueuedKeys
<1>3. Known'
  BY <1>1 DEF Inv, Known, RowsKnown, DeletionsKnown, CronQueued, ReadersKnown, ReclaimKeys,
              QueuedKeys
<1>4. Safe'
  BY DEF Inv, Safe, LiveVersionsStored, QueueSparesLivePages, RollbackNeverCommitted,
         QueuedKeys, Live
<1> QED
  BY <1>2, <1>3, <1>4 DEF Inv

\* An object stored under a key that names nothing disturbs nobody.
LEMMA UploadIsFresh ==
    ASSUME Inv, TypeOK', NEW c \in Clients, NEW r \in Reqs, NEW k \in Keys, NEW b \in Bodies,
           k \notin UsedKeys, Goto(c, r), object' = Put(k, b),
           r.pc \notin {"orphan", "delete"},
           r.pc \in {"create", "append"} => r.key = k /\ r.body = b /\ r.page = k.page,
           UNCHANGED <<file, fileVersion, pending, render, cron>>
    PROVE  Inv'
<1>0. req \in [Clients -> Reqs]
  BY DEF Inv, TypeOK
<1>1. /\ req'[c] = r
      /\ \A d \in Clients : d # c => req'[d] = req[d]
  BY <1>0 DEF Goto
<1>2. /\ \A x \in fileVersion : x.key # k
      /\ k \notin QueuedKeys
      /\ \A d \in Clients : Holding(d) => req[d].key # k
  BY DEF UsedKeys, InFlightKeys, Holding
<1>3. \A x : x.key # k /\ x \in object => x \in object'
  BY DEF Put
<1>4. [key |-> k, body |-> b] \in object'
  BY DEF Put
<1>5. Held'
  <2>1. HeldUnreferenced'
    BY <1>1, <1>2 DEF Inv, Held, HeldUnreferenced, Holding
  <2>2. HeldApart'
    BY <1>1, <1>2 DEF Inv, Held, HeldApart, Holding
  <2>3. UploadsStored'
    BY <1>1, <1>2, <1>3, <1>4 DEF Inv, Held, UploadsStored, Holding, Uploading, QueuedKeys
  <2> QED
    BY <2>1, <2>2, <2>3 DEF Held
<1>6. Known'
  BY <1>1 DEF Inv, Known, RowsKnown, DeletionsKnown, CronQueued, ReadersKnown, ReclaimKeys,
              QueuedKeys
<1>7. Safe'
  BY <1>2, <1>3 DEF Inv, Safe, LiveVersionsStored, QueueSparesLivePages,
              RollbackNeverCommitted, QueuedKeys, Live
<1> QED
  BY <1>5, <1>6, <1>7 DEF Inv

LEMMA PutObjectInv ==
    ASSUME Inv, TypeOK', NEW c \in Clients, NEW r \in Reqs, NEW k \in Keys, NEW b \in Bodies,
           k \notin UsedKeys, PutObject(c, k, b, r), r.pc \in {"create", "append"},
           r.key = k, r.body = b, r.page = k.page,
           UNCHANGED <<file, fileVersion, pending, view, render, cron>>
    PROVE  Inv'
<1>1. CASE object' = Put(k, b) /\ Goto(c, r)
  BY <1>1, UploadIsFresh
<1>2. CASE object' = Put(k, b) /\ Goto(c, IdleReq)
  BY <1>2, IdleReqType, UploadIsFresh
<1>3. CASE object' = object /\ Goto(c, IdleReq)
  BY <1>3, IdleReqType, RequestReleases
<1> QED
  BY <1>1, <1>2, <1>3 DEF PutObject

LEMMA GenerateAndPutInv ==
    ASSUME UnambiguousWrites, Inv, TypeOK', NEW c \in Clients, NEW b \in Bodies,
           NEW n \in 1..MaxAttempts, GenerateAndPut(c, b, n)
    PROVE  Inv'
<1>1. PICK p \in Pages :
          /\ FirstKey(p) \notin UsedKeys
          /\ PutObject(c, FirstKey(p), b,
                       [Attempt("create", p, b, n) EXCEPT !.key = FirstKey(p)])
          /\ UNCHANGED <<file, fileVersion, pending, view, render, cron>>
  BY DEF GenerateAndPut, UnambiguousWrites
<1> DEFINE r == [Attempt("create", p, b, n) EXCEPT !.key = FirstKey(p)]
<1>2. FirstKey(p) \in Keys /\ FirstKey(p).page = p
  BY FirstKeyType DEF FirstKey
<1>3. r \in Reqs /\ r.pc = "create" /\ r.key = FirstKey(p) /\ r.body = b /\ r.page = p
  BY <1>2, AttemptType DEF Reqs, ReqPCs
<1> HIDE DEF r
<1> QED
  BY <1>1, <1>2, <1>3, PutObjectInv DEF r

\* A transaction that references an upload takes over its key.
LEMMA InsertRowInv ==
    ASSUME Inv, TypeOK', NEW c \in Clients, Uploading(c), Goto(c, IdleReq),
           NEW row \in FileRows, row.status = "live",
           NEW v \in 1..MaxVersion,
           file' = [file EXCEPT ![req[c].page] = row],
           fileVersion' = fileVersion \cup
               {[page |-> req[c].page, version |-> v, key |-> req[c].key,
                 body |-> req[c].body]},
           \/ file[req[c].page].status = "none" /\ row.serving = req[c].key
           \/ Live(req[c].page) /\ row.serving \in {req[c].key, file[req[c].page].serving},
           UNCHANGED <<object, pending, render, cron>>
    PROVE  Inv'
<1> DEFINE p == req[c].page
           k == req[c].key
           new == [page |-> p, version |-> v, key |-> k, body |-> req[c].body]
<1>0. /\ file \in [Pages -> FileRows] /\ req \in [Clients -> Reqs]
      /\ p \in Pages
  BY DEF Inv, TypeOK, Reqs
<1>1. /\ req'[c].pc = "idle"
      /\ \A d \in Clients : d # c => req'[d] = req[d]
  BY <1>0, IdleReqType DEF Goto
<1>2. /\ Holding(c) /\ k.page = p /\ k \notin QueuedKeys
      /\ [key |-> k, body |-> req[c].body] \in object
  BY DEF Inv, Held, HeldUnreferenced, UploadsStored, Holding, Uploading
<1>3. \A q \in Pages : /\ q # p => file'[q] = file[q]
                       /\ file'[q].status = "live" => q = p \/ Live(q)
                       /\ file[q].status # "none" => file'[q].status # "none"
  BY <1>0 DEF Live
<1>4. file'[p].status = "live" /\ file'[p].serving = row.serving
  BY <1>0
<1>5. fileVersion' = fileVersion \cup {new} /\ new.page = p /\ new.key = k
  OBVIOUS
<1>6. fileVersion \subseteq fileVersion'
  OBVIOUS
<1>7. \E r \in fileVersion' : r.page = p /\ r.key = k
  BY <1>5
<1>8. \A r \in fileVersion : r.page \in Pages
  BY DEF Inv, TypeOK, VersionRows
<1>9. \A r \in fileVersion : r.page = p => Live(p)
  BY DEF Inv, Known, RowsKnown, Live
<1> HIDE DEF new
<1>10. Held'
  <2>1. HeldUnreferenced'
    BY <1>1, <1>2, <1>5 DEF Inv, Held, HeldUnreferenced, HeldApart, Holding
  <2>2. HeldApart' /\ UploadsStored'
    BY <1>1 DEF Inv, Held, HeldApart, UploadsStored, Holding, Uploading, QueuedKeys
  <2> QED
    BY <2>1, <2>2 DEF Held
<1>11. Known'
  <2>1. RowsKnown'
    BY <1>2, <1>3, <1>4, <1>5, <1>8 DEF Inv, Known, RowsKnown
  <2>2. DeletionsKnown'
    BY <1>1, <1>6 DEF Inv, Known, DeletionsKnown, ReclaimKeys
  <2>3. CronQueued'
    BY DEF Inv, Known, CronQueued, QueuedKeys
  <2>4. ReadersKnown'
    <3>1. \E r \in fileVersion' : r.page = p /\ r.key = row.serving
      <4>1. CASE row.serving = k
        BY <1>7, <4>1
      <4>2. CASE Live(p) /\ row.serving = file[p].serving
        BY <1>0, <1>6, <4>2 DEF Inv, Known, ReadersKnown, ReclaimKeys, Live
      <4> QED
        BY <4>1, <4>2
    <3>2. \A q \in Pages : file'[q].status # "none" =>
              \E r \in fileVersion' : r.page = q /\ r.key = file'[q].serving
      BY <1>3, <1>4, <1>6, <3>1 DEF Inv, Known, ReadersKnown, ReclaimKeys
    <3>3. \A u \in Viewers : render[u].pc \in {"fetch", "preview"} =>
              \E r \in fileVersion' : r.page = render[u].page /\ r.key = render[u].key
      BY <1>6 DEF Inv, Known, ReadersKnown, ReclaimKeys
    <3> QED
      BY <3>2, <3>3 DEF ReadersKnown, ReclaimKeys
  <2> QED
    BY <2>1, <2>2, <2>3, <2>4 DEF Known
<1>12. Safe'
  <2>1. LiveVersionsStored'
    BY <1>2, <1>3, <1>8, <1>9 DEF Inv, Safe, LiveVersionsStored, Live
  <2>2. QueueSparesLivePages'
    BY <1>2, <1>3, <1>5, <1>8, <1>9 DEF Inv, Safe, QueueSparesLivePages, QueuedKeys, Live
  <2>3. RollbackNeverCommitted'
    BY <1>2, <1>5 DEF Inv, Safe, RollbackNeverCommitted, QueuedKeys
  <2> QED
    BY <2>1, <2>2, <2>3 DEF Safe
<1> QED
  BY <1>10, <1>11, <1>12 DEF Inv

\* A failed transaction leaves the upload to enqueueOrphan.
LEMMA OrphanedInv ==
    ASSUME Inv, TypeOK', NEW c \in Clients, Uploading(c), NEW reason \in Reasons,
           Goto(c, Orphaned(req[c], reason)),
           UNCHANGED <<file, fileVersion, object, pending, render, cron>>
    PROVE  Inv'
<1>0. req \in [Clients -> Reqs]
  BY DEF Inv, TypeOK
<1>1. /\ req'[c].pc = "orphan" /\ req'[c].key = req[c].key /\ req'[c].page = req[c].page
      /\ \A d \in Clients : d # c => req'[d] = req[d]
  BY <1>0, OrphanedType DEF Goto
<1>2. Holding(c)
  BY DEF Holding, Uploading
<1>3. Held'
  BY <1>1, <1>2 DEF Inv, Held, HeldUnreferenced, HeldApart, UploadsStored, Holding, Uploading,
              QueuedKeys
<1>4. Known'
  BY <1>1 DEF Inv, Known, RowsKnown, DeletionsKnown, CronQueued, ReadersKnown, ReclaimKeys,
              QueuedKeys
<1>5. Safe'
  BY DEF Inv, Safe, LiveVersionsStored, QueueSparesLivePages, RollbackNeverCommitted,
         QueuedKeys, Live
<1> QED
  BY <1>3, <1>4, <1>5 DEF Inv

LEMMA CommitPageInv ==
    ASSUME UnambiguousWrites, Inv, TypeOK', NEW c \in Clients, CommitPage(c)
    PROVE  Inv'
<1> DEFINE r == req[c]
<1>0. Uploading(c) /\ r \in Reqs /\ UNCHANGED <<object, pending, view, render, cron>>
  BY DEF CommitPage, Uploading, Inv, TypeOK
<1>1. CASE file[r.page].status = "none" /\ InsertPage(r) /\ Goto(c, IdleReq)
  <2>1. PICK vis \in Visibilities :
            /\ file' = [file EXCEPT ![r.page] =
                   [status |-> "live", expired |-> FALSE, latest |-> 1,
                    shared |-> 0, serving |-> r.key, visibility |-> vis]]
            /\ fileVersion' = fileVersion \cup
                   {[page |-> r.page, version |-> 1, key |-> r.key, body |-> r.body]}
    BY <1>1 DEF InsertPage
  <2> DEFINE row == [status |-> "live", expired |-> FALSE, latest |-> 1,
                     shared |-> 0, serving |-> r.key, visibility |-> vis]
  <2>2. row \in FileRows /\ row.status = "live" /\ row.serving = r.key
    BY <1>0, BoundsAssumption DEF FileRows, Reqs
  <2>3. 1 \in 1..MaxVersion
    BY BoundsAssumption
  <2> HIDE DEF row
  <2> QED
    BY <1>0, <1>1, <2>1, <2>2, <2>3, InsertRowInv DEF row
<1>2. ASSUME NEW reason \in Reasons, Goto(c, Orphaned(r, reason)),
             UNCHANGED <<file, fileVersion>>
      PROVE  Inv'
  BY <1>0, <1>2, OrphanedInv
<1> QED
  BY <1>1, <1>2 DEF CommitPage, UnambiguousWrites, Reasons

LEMMA CommitVersionInv ==
    ASSUME UnambiguousWrites, TypeInv, Inv, TypeOK', NEW c \in Clients, CommitVersion(c)
    PROVE  Inv'
<1> DEFINE r == req[c]
           row == AdvanceHead(file[r.page], r.head + 1, r.key)
<1>0. Uploading(c) /\ r \in Reqs /\ UNCHANGED <<object, pending, view, render, cron>>
  BY DEF CommitVersion, Uploading, Inv, TypeOK
<1>1. CASE Live(r.page) /\ InsertVersion(r) /\ Goto(c, IdleReq)
  <2>1. r.head + 1 \in 1..MaxVersion /\ r.page \in Pages
    BY <1>0, BoundsAssumption DEF CommitVersion, TypeInv, AppendInBounds, Reqs
  <2>2. file[r.page] \in FileRows /\ r.key \in Keys /\ r.head + 1 \in 0..MaxVersion
    BY <1>0, <2>1 DEF Inv, TypeOK, Reqs
  <2>3. /\ row \in FileRows /\ row.status = "live"
        /\ row.serving \in {r.key, file[r.page].serving}
    BY <1>1, <2>2 DEF AdvanceHead, FileRows, Live
  <2>4. /\ file' = [file EXCEPT ![r.page] = row]
        /\ fileVersion' = fileVersion \cup
               {[page |-> r.page, version |-> r.head + 1, key |-> r.key, body |-> r.body]}
    BY <1>1 DEF InsertVersion
  <2> HIDE DEF row
  <2> QED
    BY <1>0, <1>1, <2>1, <2>3, <2>4, InsertRowInv
<1>2. ASSUME NEW reason \in Reasons, Goto(c, Orphaned(r, reason)),
             UNCHANGED <<file, fileVersion>>
      PROVE  Inv'
  BY <1>0, <1>2, OrphanedInv
<1> QED
  BY <1>1, <1>2 DEF CommitVersion, CanAdvance, Live, UnambiguousWrites, Reasons

LEMMA EnqueueKeys ==
    ASSUME NEW keys, NEW reason
    PROVE  /\ {q.key : q \in Enqueue(keys, reason)} = QueuedKeys \cup keys
           /\ \A q \in Enqueue(keys, reason) :
                  q \in pending \/ (q.key \in keys /\ q.reason = reason)
<1> DEFINE row(k) == [key |-> k, reason |-> reason,
                     aged |-> reason # "user_delete", retries |-> 0]
<1>1. \A k : row(k).key = k /\ row(k).reason = reason
  OBVIOUS
<1>2. Enqueue(keys, reason) = pending \cup {row(k) : k \in keys \ QueuedKeys}
  BY DEF Enqueue
<1> HIDE DEF row
<1> QED
  BY <1>1, <1>2 DEF QueuedKeys

\* enqueueOrphan queues a key no version has.
LEMMA EnqueueOrphanInv ==
    ASSUME Inv, TypeOK', NEW c \in Clients, EnqueueOrphan(c)
    PROVE  Inv'
<1> DEFINE r == req[c]
<1>0. req \in [Clients -> Reqs] /\ r \in Reqs /\ r.pc = "orphan"
  BY DEF Inv, TypeOK, EnqueueOrphan
<1>1. PICK after \in Reqs : /\ Goto(c, after)
                           /\ after.pc \notin {"create", "append", "orphan", "delete"}
  <2>1. /\ r.body \in Bodies /\ r.page \in Pages /\ r.attempt \in 1..MaxAttempts
    BY <1>0 DEF Reqs
  <2>2. r.attempt # MaxAttempts => r.attempt + 1 \in 1..MaxAttempts
    BY <2>1, BoundsAssumption
  <2>3. /\ IdleReq \in Reqs /\ IdleReq.pc = "idle"
        /\ \A pc \in {"new", "read"}, p \in Pages : r.attempt # MaxAttempts =>
               /\ Attempt(pc, p, r.body, r.attempt + 1) \in Reqs
               /\ Attempt(pc, p, r.body, r.attempt + 1).pc = pc
    BY <2>1, <2>2, AttemptType, IdleReqType DEF ReqPCs
  <2> QED
    BY <2>1, <2>3, SomeValues DEF EnqueueOrphan
<1>2. UNCHANGED <<file, fileVersion, object, view, render, cron>>
  BY DEF EnqueueOrphan
<1>3. CASE pending' = pending
  BY <1>1, <1>2, <1>3, RequestReleases
<1>4. CASE pending' = Enqueue({r.key}, r.reason)
  <2>1. \A d \in Clients :
            \/ req'[d] = req[d] /\ d # c
            \/ req'[d].pc \notin {"create", "append", "orphan", "delete"}
    BY <1>0, <1>1 DEF Goto
  <2>2. /\ {q.key : q \in pending'} = QueuedKeys \cup {r.key}
        /\ \A q \in pending' : q \in pending \/ q.key = r.key
    BY <1>4, EnqueueKeys
  <2>3. Holding(c) /\ \A x \in fileVersion : x.key # r.key
    BY <1>0 DEF Inv, Held, HeldUnreferenced, Holding
  <2>4. Held'
    <3>1. HeldUnreferenced' /\ HeldApart'
      BY <1>2, <2>1 DEF Inv, Held, HeldUnreferenced, HeldApart, Holding
    <3>2. \A d \in Clients : Uploading(d) /\ d # c => req[d].key # r.key
      BY <2>3 DEF Inv, Held, HeldApart, Holding, Uploading
    <3>3. UploadsStored'
      BY <1>2, <2>1, <2>2, <3>2 DEF Inv, Held, UploadsStored, Uploading, QueuedKeys
    <3> QED
      BY <3>1, <3>3 DEF Held
  <2>5. Known'
    BY <1>2, <2>1, <2>2 DEF Inv, Known, RowsKnown, DeletionsKnown, CronQueued, ReadersKnown,
         ReclaimKeys, QueuedKeys
  <2>6. Safe'
    BY <1>2, <2>2, <2>3 DEF Inv, Safe, LiveVersionsStored, QueueSparesLivePages,
         RollbackNeverCommitted, QueuedKeys, Live
  <2> QED
    BY <2>4, <2>5, <2>6 DEF Inv
<1> QED
  BY <1>3, <1>4 DEF EnqueueOrphan

\* The keys a deletion queues are of the page it marks.
LEMMA RemovePageInv ==
    ASSUME Inv, TypeOK', NEW p \in Pages, NEW keys \in SUBSET Keys,
           NEW reason \in {"user_delete", "expired"}, RemovePage(p, keys, reason),
           keys \subseteq ReclaimKeys(p),
           \A c \in Clients : req'[c] = req[c] \/ req'[c].pc = "idle",
           \/ cron' = cron
           \/ cron'.rows = {} /\ cron'.pc = "expire",
           UNCHANGED <<fileVersion, object, render>>
    PROVE  Inv'
<1>0. file \in [Pages -> FileRows]
  BY DEF Inv, TypeOK
<1>1. /\ {q.key : q \in pending'} = QueuedKeys \cup keys
      /\ \A q \in pending' : q \in pending \/ (q.key \in keys /\ q.reason = reason)
  BY EnqueueKeys DEF RemovePage
<1>2. \A x \in Pages : /\ x # p => file'[x] = file[x]
                       /\ file'[x].status = "live" => Live(x) /\ x # p
                       /\ file'[x].status = "none" <=> file[x].status = "none"
                       /\ file'[x].serving = file[x].serving
  BY <1>0 DEF RemovePage, MarkDeleted, FileRows, Live
<1>3. \A k \in keys : /\ \E x \in fileVersion : x.key = k
                      /\ \A x \in fileVersion : x.key = k => x.page = p
  BY DEF ReclaimKeys, Inv, Known, RowsKnown
<1>4. \A x \in fileVersion : x.page \in Pages
  BY DEF Inv, TypeOK, VersionRows
<1>5. Held'
  <2>1. HeldUnreferenced' /\ HeldApart'
    BY DEF Inv, Held, HeldUnreferenced, HeldApart, Holding
  <2>2. \A c \in Clients : Uploading(c) => req[c].key \notin keys
    BY <1>3 DEF Inv, Held, HeldUnreferenced, Holding, Uploading
  <2>3. UploadsStored'
    BY <1>1, <2>2 DEF Inv, Held, UploadsStored, Uploading, QueuedKeys
  <2> QED
    BY <2>1, <2>3 DEF Held
<1>6. Known'
  <2>1. RowsKnown' /\ ReadersKnown'
    BY <1>2, <1>4 DEF Inv, Known, RowsKnown, ReadersKnown, ReclaimKeys
  <2>2. DeletionsKnown' /\ CronQueued'
    BY <1>1 DEF Inv, Known, DeletionsKnown, CronQueued, ReclaimKeys, QueuedKeys
  <2> QED
    BY <2>1, <2>2 DEF Known
<1>7. Safe'
  <2>1. LiveVersionsStored'
    BY <1>2, <1>4 DEF Inv, Safe, LiveVersionsStored, Live
  <2>2. QueueSparesLivePages'
    BY <1>1, <1>2, <1>3, <1>4 DEF Inv, Safe, QueueSparesLivePages, QueuedKeys, Live
  <2>3. RollbackNeverCommitted'
    BY <1>1 DEF Inv, Safe, RollbackNeverCommitted, RollbackReasons
  <2> QED
    BY <2>1, <2>2, <2>3 DEF Safe
<1> QED
  BY <1>5, <1>6, <1>7 DEF Inv

LEMMA InvRequest ==
    ASSUME UnambiguousWrites, TypeInv, Inv, TypeOK', NEW c \in Clients,
           Submit(c) \/ Proceed(c) \/ CrashRequest(c)
    PROVE  Inv'
<1>0. TypeOK /\ req \in [Clients -> Reqs] /\ req[c] \in Reqs
  BY DEF Inv, TypeOK
<1>1. 1 \in 1..MaxAttempts
  BY BoundsAssumption
<1>2. ASSUME NEW p \in Pages, NEW b \in Bodies, NEW n \in 1..MaxAttempts, AppendTo(c, p, b, n),
             UNCHANGED <<file, fileVersion, object, pending, render, cron>>
      PROVE  Inv'
  <2> DEFINE r == IF IsHead(p, b) THEN IdleReq
                  ELSE [Attempt("upload", p, b, n) EXCEPT !.head = file[p].latest]
  <2>1. file[p].latest \in 0..MaxVersion
    BY <1>0 DEF TypeOK, FileRows
  <2>2. r \in Reqs /\ r.pc \in {"idle", "upload"}
    BY <2>1, AttemptType, IdleReqType DEF Reqs, ReqPCs
  <2>3. Goto(c, r)
    BY <1>2 DEF AppendTo
  <2> HIDE DEF r
  <2> QED
    BY <1>2, <2>2, <2>3, RequestReleases
<1>3. CASE Publish(c) \/ RetryPublish(c)
  <2>1. \E b \in Bodies, n \in 1..MaxAttempts : GenerateAndPut(c, b, n)
    BY <1>0, <1>1, <1>3 DEF Publish, RetryPublish, Reqs
  <2> QED
    BY <2>1, GenerateAndPutInv
<1>4. CASE CommitPage(c) \/ EnqueueOrphan(c) \/ CommitVersion(c)
  BY <1>4, CommitPageInv, EnqueueOrphanInv, CommitVersionInv
<1>5. CASE Republish(c)
  BY <1>1, <1>2, <1>5 DEF Republish
<1>6. CASE RestoreVersion(c)
  <2>1. PICK r \in fileVersion, o \in object : AppendTo(c, r.page, o.body, 1)
    BY <1>6 DEF RestoreVersion
  <2>2. r.page \in Pages /\ o.body \in Bodies
    BY <1>0 DEF TypeOK, VersionRows, Objects
  <2> QED
    BY <1>1, <1>2, <1>6, <2>1, <2>2 DEF RestoreVersion
<1>7. CASE ReadHead(c)
  <2>1. CASE Goto(c, IdleReq)
    BY <1>7, <2>1, IdleReqType, RequestReleases DEF ReadHead
  <2>2. CASE AppendTo(c, req[c].page, req[c].body, req[c].attempt)
    BY <1>0, <1>2, <1>7, <2>2 DEF ReadHead, Reqs
  <2> QED
    BY <1>7, <2>1, <2>2 DEF ReadHead
<1>8. CASE UploadVersion(c)
  <2> DEFINE r == req[c]
             fresh == FreshKeys(r.page, r.head + 1)
             k == CHOOSE x \in fresh : TRUE
             next == [r EXCEPT !.pc = "append", !.key = k]
  <2>1. UNCHANGED <<file, fileVersion, pending, view, render, cron>>
    BY <1>8 DEF UploadVersion
  <2>2. CASE fresh = {}
    <3>1. Goto(c, IdleReq) /\ UNCHANGED object
      BY <1>8, <2>2 DEF UploadVersion
    <3> QED
      BY <2>1, <3>1, IdleReqType, RequestReleases
  <2>3. CASE fresh # {}
    <3>1. k \in fresh
      BY <2>3
    <3>2. k \in Keys /\ k \notin UsedKeys /\ k.page = r.page
      BY <3>1 DEF FreshKeys
    <3>3. /\ next \in Reqs /\ next.pc = "append" /\ next.key = k /\ next.body = r.body
          /\ next.page = r.page /\ r.body \in Bodies
      BY <1>0, <3>2 DEF Reqs, ReqPCs
    <3>4. PutObject(c, k, r.body, next)
      BY <1>8, <2>3 DEF UploadVersion
    <3> HIDE DEF r, k, next
    <3> QED
      BY <2>1, <3>2, <3>3, <3>4, PutObjectInv
  <2> QED
    BY <2>2, <2>3
<1>9. CASE DeleteFile(c)
  <2>1. PICK p \in Pages :
            Goto(c, [IdleReq EXCEPT !.pc = "delete", !.page = p, !.keys = ReclaimKeys(p)])
    BY <1>9 DEF DeleteFile
  <2>2. UNCHANGED <<file, fileVersion, object, pending, view, render, cron>>
    BY <1>9 DEF DeleteFile
  <2>3. /\ req'[c].pc = "delete" /\ req'[c].page = p /\ req'[c].keys = ReclaimKeys(p)
        /\ \A d \in Clients : d # c => req'[d] = req[d]
    BY <1>0, <2>1, IdleReqType DEF Goto, Reqs
  <2>4. Held'
    BY <2>2, <2>3 DEF Inv, Held, HeldUnreferenced, HeldApart, UploadsStored, Holding,
         Uploading, QueuedKeys
  <2>5. Known'
    BY <2>2, <2>3 DEF Inv, Known, RowsKnown, DeletionsKnown, CronQueued, ReadersKnown,
         ReclaimKeys, QueuedKeys
  <2>6. Safe'
    BY <2>2 DEF Inv, Safe, LiveVersionsStored, QueueSparesLivePages,
         RollbackNeverCommitted, QueuedKeys, Live
  <2> QED
    BY <2>4, <2>5, <2>6 DEF Inv
<1>10. CASE CommitDelete(c)
  <2>1. /\ req[c].page \in Pages /\ req[c].keys \in SUBSET Keys
        /\ req[c].keys \subseteq ReclaimKeys(req[c].page)
    BY <1>0, <1>10 DEF Reqs, CommitDelete, Inv, Known, DeletionsKnown
  <2>2. \A d \in Clients : req'[d] = req[d] \/ req'[d].pc = "idle"
    BY <1>0, <1>10, IdleReqType DEF CommitDelete, Goto
  <2>3. CASE RemovePage(req[c].page, req[c].keys, "user_delete")
    BY <1>10, <2>1, <2>2, <2>3, RemovePageInv DEF CommitDelete
  <2>4. CASE UNCHANGED <<pending, file, view>>
    BY <1>10, <2>4, IdleReqType, RequestReleases DEF CommitDelete
  <2> QED
    BY <1>10, <2>3, <2>4 DEF CommitDelete
<1>11. CASE CrashRequest(c)
  BY <1>11, IdleReqType, RequestReleases DEF CrashRequest
<1> QED
  BY <1>3, <1>4, <1>5, <1>6, <1>7, <1>8, <1>9, <1>10, <1>11 DEF Submit, Proceed

LEMMA InvPage ==
    ASSUME Inv, TypeOK', NEW p \in Pages, PatchFile(p) \/ Expire(p)
    PROVE  Inv'
<1>0. file \in [Pages -> FileRows] /\ file' \in [Pages -> FileRows]
  BY DEF Inv, TypeOK
<1>1. UNCHANGED <<fileVersion, object, pending, req, render, cron>>
  BY DEF PatchFile, Expire
<1>2. /\ Live(p) /\ file'[p].status = "live"
      /\ \A x \in Pages : x # p => file'[x] = file[x]
      /\ \/ file'[p].serving = file[p].serving
         \/ \E r \in fileVersion : r.page = p /\ r.key = file'[p].serving
  <2>1. CASE PatchFile(p)
    <3>1. PICK vis \in Visibilities, target \in 0..MaxVersion :
              \/ \E r \in RowsOf(p, IF target = 0 THEN file[p].latest ELSE target) :
                     file' = [file EXCEPT ![p] =
                         [SetSharedVersion(@, target, r.key) EXCEPT !.visibility = vis]]
              \/ file' = [file EXCEPT ![p].visibility = vis]
      BY <2>1 DEF PatchFile
    <3>2. CASE file' = [file EXCEPT ![p].visibility = vis]
      BY <1>0, <2>1, <3>2 DEF PatchFile, Live, FileRows
    <3>3. ASSUME NEW r \in fileVersion, r.page = p,
                 file' = [file EXCEPT ![p] =
                     [SetSharedVersion(@, target, r.key) EXCEPT !.visibility = vis]]
          PROVE  /\ Live(p) /\ file'[p].status = "live" /\ file'[p].serving = r.key
                 /\ \A x \in Pages : x # p => file'[x] = file[x]
      <4> DEFINE row == [SetSharedVersion(file[p], target, r.key) EXCEPT !.visibility = vis]
      <4>1. file[p] \in FileRows
        BY <1>0
      <4>2. row.status = file[p].status /\ row.serving = r.key
        BY <4>1 DEF SetSharedVersion, FileRows
      <4>3. file' = [file EXCEPT ![p] = row]
        BY <3>3
      <4> HIDE DEF row
      <4>4. file'[p] = row /\ \A x \in Pages : x # p => file'[x] = file[x]
        BY <1>0, <4>3
      <4> QED
        BY <2>1, <4>2, <4>4 DEF PatchFile, Live
    <3> QED
      BY <3>1, <3>2, <3>3 DEF RowsOf
  <2>2. CASE Expire(p)
    BY <1>0, <2>2 DEF Expire, Live, FileRows
  <2> QED
    BY <2>1, <2>2
<1>3. Held'
  BY <1>1 DEF Inv, Held, HeldUnreferenced, HeldApart, UploadsStored, Holding, Uploading,
       QueuedKeys
<1>4. Known'
  <2>1. RowsKnown'
    BY <1>1, <1>2 DEF Inv, Known, RowsKnown, Live, TypeOK, VersionRows
  <2>2. DeletionsKnown' /\ CronQueued'
    BY <1>1 DEF Inv, Known, DeletionsKnown, CronQueued, ReclaimKeys, QueuedKeys
  <2>3. ReadersKnown'
    BY <1>1, <1>2 DEF Inv, Known, ReadersKnown, ReclaimKeys, Live
  <2> QED
    BY <2>1, <2>2, <2>3 DEF Known
<1>5. Safe'
  BY <1>1, <1>2 DEF Inv, Safe, LiveVersionsStored, QueueSparesLivePages,
       RollbackNeverCommitted, QueuedKeys, Live, TypeOK, VersionRows
<1> QED
  BY <1>3, <1>4, <1>5 DEF Inv

\* Steps that move neither a request nor a page: a reader's, the cron's, time's.
LEMMA ElsewhereInv ==
    ASSUME Inv, TypeOK', UNCHANGED <<file, fileVersion, req>>,
           {q.key : q \in pending'} \subseteq QueuedKeys,
           \A q \in pending' : \E x \in pending : x.key = q.key /\ x.reason = q.reason,
           \A o \in object : o \in object' \/ o.key \in QueuedKeys,
           CronQueued', DeletionsKnown', ReadersKnown'
    PROVE  Inv'
<1>1. Held'
  BY DEF Inv, Held, HeldUnreferenced, HeldApart, UploadsStored, Holding, Uploading, QueuedKeys
<1>2. RowsKnown'
  BY DEF Inv, Known, RowsKnown
<1>3. Safe'
  <2>1. LiveVersionsStored'
    BY DEF Inv, Safe, LiveVersionsStored, QueueSparesLivePages, Live
  <2>2. QueueSparesLivePages' /\ RollbackNeverCommitted'
    BY DEF Inv, Safe, QueueSparesLivePages, RollbackNeverCommitted, QueuedKeys, Live
  <2> QED
    BY <2>1, <2>2 DEF Safe
<1> QED
  BY <1>1, <1>2, <1>3 DEF Inv, Known

LEMMA InvRender ==
    ASSUME Inv, TypeOK', NEW v \in Viewers, RenderStep(v)
    PROVE  Inv'
<1>0. render \in [Viewers -> Renders] /\ file \in [Pages -> FileRows]
  BY DEF Inv, TypeOK
<1>1. UNCHANGED <<file, fileVersion, object, pending, req, cron>>
  BY DEF RenderStep, Render, FetchObject, CheckView, CountView
<1>2. \A u \in Viewers :
          \/ render'[u] = render[u]
          \/ render'[u].pc \notin {"fetch", "preview"}
          \/ \E r \in fileVersion : r.page = render'[u].page /\ r.key = render'[u].key
  <2>1. CASE Render(v)
    <3>1. PICK p \in Pages :
              /\ Live(p)
              /\ \/ RenderTo(v, [pc |-> "fetch", page |-> p, key |-> file[p].serving])
                 \/ \E k \in ReclaimKeys(p) :
                        RenderTo(v, [pc |-> "preview", page |-> p, key |-> k])
      BY <2>1 DEF Render
    <3>2. \E k \in ReclaimKeys(p), pc \in {"fetch", "preview"} :
              RenderTo(v, [pc |-> pc, page |-> p, key |-> k])
      BY <3>1 DEF Inv, Known, ReadersKnown, Live
    <3> QED
      BY <1>0, <3>2 DEF RenderTo, ReclaimKeys
  <2>2. CASE FetchObject(v)
    <3>1. [IdleRender EXCEPT !.pc = "check", !.page = render[v].page].pc = "check"
      BY IdleRenderType DEF Renders
    <3> QED
      BY <1>0, <2>2, <3>1, IdleRenderType DEF FetchObject, RenderTo
  <2>3. CASE CheckView(v)
    <3>1. [render[v] EXCEPT !.pc = "count"].pc = "count"
      BY <1>0 DEF Renders
    <3> QED
      BY <1>0, <2>3, <3>1, IdleRenderType DEF CheckView, RenderTo
  <2>4. CASE CountView(v)
    BY <1>0, <2>4, IdleRenderType DEF CountView, RenderTo
  <2> QED
    BY <2>1, <2>2, <2>3, <2>4 DEF RenderStep
<1>3. ReadersKnown'
  BY <1>1, <1>2 DEF Inv, Known, ReadersKnown, ReclaimKeys
<1>4. CronQueued' /\ DeletionsKnown'
  BY <1>1 DEF Inv, Known, CronQueued, DeletionsKnown, ReclaimKeys, QueuedKeys
<1> QED
  BY <1>1, <1>3, <1>4, ElsewhereInv DEF QueuedKeys

LEMMA InvCleanup ==
    ASSUME TypeInv, Inv, TypeOK', CronStep \/ CrashCron
    PROVE  Inv'
<1>0. cron \in Crons /\ cron' \in Crons
  BY DEF Inv, TypeOK
<1>1. CASE CommitExpired
  <2>1. /\ cron.page \in Pages /\ cron.keys \in SUBSET Keys
        /\ cron.keys \subseteq ReclaimKeys(cron.page)
    BY <1>0, <1>1 DEF Crons, CommitExpired, Inv, Known, DeletionsKnown
  <2>2. cron'.rows = {} /\ cron'.pc = "expire"
    BY <1>1, IdleCronType DEF CommitExpired, Crons
  <2>3. UNCHANGED <<fileVersion, object, req, render>>
    BY <1>1 DEF CommitExpired
  <2>4. CASE RemovePage(cron.page, cron.keys, "expired")
    BY <2>1, <2>2, <2>3, <2>4, RemovePageInv
  <2>5. CASE UNCHANGED <<pending, file, view>>
    <3>1. CronQueued' /\ DeletionsKnown' /\ ReadersKnown'
      BY <2>2, <2>3, <2>5 DEF Inv, Known, CronQueued, DeletionsKnown, ReadersKnown,
           ReclaimKeys, QueuedKeys
    <3> QED
      BY <2>3, <2>5, <3>1, ElsewhereInv DEF QueuedKeys
  <2> QED
    BY <1>1, <2>4, <2>5 DEF CommitExpired
<1>2. CASE ~CommitExpired
  <2>1. /\ UNCHANGED <<file, fileVersion, req, render>>
        /\ object' \subseteq object
    BY <1>2 DEF CronStep, CrashCron, StartRound, ReadExpired, ListPending, DeleteObject,
         DropRow, EndRound
  <2>2. ReadersKnown'
    BY <2>1 DEF Inv, Known, ReadersKnown, ReclaimKeys
  <2>3. CASE StartRound \/ EndRound \/ CrashCron
    <3>1. cron'.rows = {} /\ cron'.pc \notin {"drop", "expiring"}
          /\ UNCHANGED <<object, pending>>
      BY <2>3, IdleCronType DEF StartRound, EndRound, CrashCron, Crons
    <3>2. CronQueued' /\ DeletionsKnown'
      BY <2>1, <3>1 DEF Inv, Known, CronQueued, DeletionsKnown, ReclaimKeys
    <3> QED
      BY <2>1, <2>2, <3>1, <3>2, ElsewhereInv DEF QueuedKeys
  <2>4. ASSUME NEW p \in Pages, ReadExpired(p) PROVE Inv'
    <3>1. /\ cron'.pc = "expiring" /\ cron'.page = p /\ cron'.keys = ReclaimKeys(p)
          /\ cron'.rows = cron.rows
          /\ UNCHANGED <<object, pending>>
      BY <1>0, <2>4 DEF ReadExpired, Crons
    <3>2. CronQueued' /\ DeletionsKnown'
      BY <2>1, <3>1 DEF Inv, Known, CronQueued, DeletionsKnown, ReclaimKeys, QueuedKeys
    <3> QED
      BY <2>1, <2>2, <3>1, <3>2, ElsewhereInv DEF QueuedKeys
  <2>5. CASE ListPending
    <3> DEFINE rows == {q.key : q \in Reclaimable}
    <3>1. rows \subseteq QueuedKeys
      BY DEF Reclaimable, QueuedKeys
    <3>2. cron'.pc = "drain" /\ cron'.rows = rows /\ UNCHANGED <<object, pending>>
      <4>1. cron' = [IdleCron EXCEPT !.pc = "drain", !.rows = rows]
        BY <2>5 DEF ListPending
      <4> HIDE DEF rows
      <4> QED
        BY <2>5, <4>1, IdleCronType DEF ListPending, Crons
    <3> HIDE DEF rows
    <3>3. CronQueued' /\ DeletionsKnown'
      BY <2>1, <3>1, <3>2 DEF Inv, Known, CronQueued, DeletionsKnown, ReclaimKeys, QueuedKeys
    <3> QED
      BY <2>1, <2>2, <3>2, <3>3, ElsewhereInv DEF QueuedKeys
  <2>6. ASSUME NEW k \in cron.rows, DeleteObject(k) PROVE Inv'
    <3>1. /\ k \in QueuedKeys /\ cron'.rows = cron.rows \ {k}
          /\ cron'.pc \in {"drain", "drop"}
          /\ cron'.pc = "drop" => cron'.key = k
      BY <1>0, <2>6 DEF DeleteObject, Crons, Inv, Known, CronQueued
    <3>2. \A o \in object : o \in object' \/ o.key \in QueuedKeys
      BY <2>6, <3>1 DEF DeleteObject
    <3>3. /\ {q.key : q \in pending'} = QueuedKeys
          /\ \A q \in pending' : \E x \in pending : x.key = q.key /\ x.reason = q.reason
      <4>1. CASE pending' = pending
        BY <4>1 DEF QueuedKeys
      <4>2. CASE pending' = IncrRetry(k)
        <5> DEFINE bumped(x) == [x EXCEPT !.retries = @ + 1]
        <5>1. \A x \in pending : bumped(x).key = x.key /\ bumped(x).reason = x.reason
          BY DEF Inv, TypeOK, QueueRows
        <5>2. pending' = {x \in pending : x.key # k} \cup
                         {bumped(x) : x \in {y \in pending : y.key = k}}
          BY <4>2 DEF IncrRetry
        <5> HIDE DEF bumped
        <5>3. QueuedKeys \subseteq {q.key : q \in pending'}
          <6> SUFFICES ASSUME NEW x \in pending PROVE \E q \in pending' : q.key = x.key
            BY DEF QueuedKeys
          <6>1. CASE x.key = k
            <7>1. bumped(x) \in pending'
              BY <5>2, <6>1
            <7> QED
              BY <5>1, <7>1
          <6>2. CASE x.key # k
            BY <5>2, <6>2
          <6> QED
            BY <6>1, <6>2
        <5>4. \A q \in pending' : \E x \in pending : x.key = q.key /\ x.reason = q.reason
          BY <5>1, <5>2
        <5>5. {q.key : q \in pending'} \subseteq QueuedKeys
          BY <5>4 DEF QueuedKeys
        <5> QED
          BY <5>3, <5>4, <5>5
      <4> QED
        BY <2>6, <4>1, <4>2 DEF DeleteObject
    <3>4. CronQueued' /\ DeletionsKnown'
      BY <2>1, <3>1, <3>3 DEF Inv, Known, CronQueued, DeletionsKnown, ReclaimKeys, QueuedKeys
    <3> QED
      BY <2>1, <2>2, <3>2, <3>3, <3>4, ElsewhereInv
  <2>7. CASE DropRow
    <3>1. cron'.pc = "drain" /\ cron'.rows = cron.rows /\ object' = object
      BY <1>0, <2>7, IdleCronType DEF DropRow, Crons
    <3>2. pending' \subseteq pending
      BY <2>7 DEF DropRow
    <3>3. cron.rows \subseteq {q.key : q \in pending'}
      <4>1. cron.key \notin cron.rows /\ cron.rows \subseteq QueuedKeys
        BY <2>7 DEF DropRow, Inv, Known, CronQueued
      <4> QED
        BY <2>7, <4>1 DEF DropRow, QueuedKeys
    <3>4. CronQueued' /\ DeletionsKnown'
      BY <2>1, <3>1, <3>3 DEF Inv, Known, CronQueued, DeletionsKnown, ReclaimKeys, QueuedKeys
    <3> QED
      BY <2>1, <2>2, <3>1, <3>2, <3>4, ElsewhereInv DEF QueuedKeys
  <2> QED
    BY <1>2, <2>3, <2>4, <2>5, <2>6, <2>7 DEF CronStep
<1> QED
  BY <1>1, <1>2

LEMMA InvRetention ==
    ASSUME Inv, TypeOK', NEW q \in pending, PassRetention(q)
    PROVE  Inv'
<1>1. LET a == [q EXCEPT !.aged = TRUE] IN a.key = q.key /\ a.reason = q.reason
  BY DEF Inv, TypeOK, QueueRows
<1>2. /\ {x.key : x \in pending'} = QueuedKeys
      /\ \A x \in pending' : \E y \in pending : y.key = x.key /\ y.reason = x.reason
  BY <1>1 DEF PassRetention, QueuedKeys
<1>3. UNCHANGED <<file, fileVersion, object, req, render, cron>>
  BY DEF PassRetention
<1>4. CronQueued' /\ DeletionsKnown' /\ ReadersKnown'
  BY <1>2, <1>3 DEF Inv, Known, CronQueued, DeletionsKnown, ReadersKnown, ReclaimKeys,
       QueuedKeys
<1> QED
  BY <1>2, <1>3, <1>4, ElsewhereInv

LEMMA InvStep == UnambiguousWrites /\ TypeInv /\ Inv /\ [Next]_vars => Inv'
<1> SUFFICES ASSUME UnambiguousWrites, TypeInv, Inv, [Next]_vars PROVE Inv'
  OBVIOUS
<1>0. TypeOK'
  BY TypeStep DEF TypeInv
<1>1. CASE UNCHANGED vars
  <2>1. Held'
    BY <1>1 DEF vars, Inv, Held, HeldUnreferenced, HeldApart, UploadsStored, Holding,
         Uploading, QueuedKeys
  <2>2. Known'
    BY <1>1 DEF vars, Inv, Known, RowsKnown, DeletionsKnown, CronQueued, ReadersKnown,
         ReclaimKeys, QueuedKeys
  <2>3. Safe'
    BY <1>1 DEF vars, Inv, Safe, LiveVersionsStored, QueueSparesLivePages,
         RollbackNeverCommitted, QueuedKeys, Live
  <2> QED
    BY <1>0, <2>1, <2>2, <2>3 DEF Inv
<1>2. CASE Next
  BY <1>0, <1>2, InvRequest, InvPage, InvRender, InvCleanup, InvRetention DEF Next
<1> QED
  BY <1>1, <1>2

LEMMA Invariance == ASSUME UnambiguousWrites PROVE Spec => []Inv
<1>1. Init => Inv
  BY InvInit
<1>2. TypeInv /\ Inv /\ [Next]_vars => Inv'
  BY InvStep
<1> QED
  BY <1>1, <1>2, TypeInvariant, PTL DEF Spec

\* If no nano id repeats and no commit loses its acknowledgement, then whatever
\* else fails or races, every version of a live page can be read back with the
\* bytes it was published with: the upload-first order of publish.go and the
\* queue-in-the-transaction order of DeleteFile and the cron suffice for it.
THEOREM VersionsKept == ASSUME UnambiguousWrites PROVE Spec => []LiveVersionsStored
<1>1. Inv => LiveVersionsStored
  BY DEF Inv, Safe
<1> QED
  BY <1>1, Invariance, PTL

\* Under the same assumption the deletion queue never names a live page's object.
THEOREM QueueSafe == ASSUME UnambiguousWrites PROVE Spec => []QueueSparesLivePages
<1>1. Inv => QueueSparesLivePages
  BY DEF Inv, Safe
<1> QED
  BY <1>1, Invariance, PTL

\* Under the same assumption what enqueueOrphan queued is of no version, now or
\* ever: the reading pending_object_delete.go gives of a rollback orphan.
THEOREM RollbackSafe == ASSUME UnambiguousWrites PROVE Spec => []RollbackNeverCommitted
<1>1. Inv => RollbackNeverCommitted
  BY DEF Inv, Safe
<1> QED
  BY <1>1, Invariance, PTL

\* Under the same assumption a reader admitted to a live page finds the object
\* whose key it read, however many versions were published in between.
THEOREM ReaderSafe == ASSUME UnambiguousWrites PROVE Spec => []AdmittedReaderFindsObject
<1>1. Inv => AdmittedReaderFindsObject
  <2> SUFFICES ASSUME Inv, NEW v \in Viewers,
                      render[v].pc \in {"fetch", "preview"}, Live(render[v].page)
               PROVE  render[v].key \in StoredKeys
    BY DEF AdmittedReaderFindsObject
  <2>1. PICK r \in fileVersion : r.page = render[v].page /\ r.key = render[v].key
    BY DEF Inv, Known, ReadersKnown, ReclaimKeys
  <2>2. [key |-> r.key, body |-> r.body] \in object
    BY <2>1 DEF Inv, Safe, LiveVersionsStored
  <2> QED
    BY <2>1, <2>2 DEF StoredKeys
<1> QED
  BY <1>1, Invariance, PTL
-----------------------------------------------------------------------------
(* PageStore implements PageHistory.  A key names the page and the version it *)
(* was drawn for, so the serving cache leads to one row; and a request that is *)
(* about to append differs from the head it has read, which is still there.    *)

Begun == \A p \in Pages : file[p].status # "none" => file[p].latest # 0

KeysNamed == \A r \in fileVersion : r.key.page = r.page /\ r.key.version = r.version

KeysDrawn ==
    \A c \in Clients :
        /\ req[c].pc = "create" => req[c].key = FirstKey(req[c].page)
        /\ req[c].pc = "append" =>
               /\ req[c].key.page = req[c].page
               /\ req[c].key.version = req[c].head + 1

HeadsRead ==
    \A c \in Clients : req[c].pc \in {"upload", "append"} =>
        /\ file[req[c].page].status # "none"
        /\ req[c].head \in 1..file[req[c].page].latest
        /\ \A r \in RowsOf(req[c].page, req[c].head) : r.body # req[c].body

Served ==
    \A p \in Pages : file[p].status # "none" =>
        \E r \in fileVersion : r.page = p /\ r.key = file[p].serving

ReadInv == Begun /\ KeysNamed /\ KeysDrawn /\ HeadsRead /\ Served

\* What a step can make of a request that is to upload or to commit next.
LEMMA RequestMoves ==
    ASSUME TypeOK, Next, NEW c \in Clients, req'[c].pc \in {"create", "upload", "append"}
    PROVE  \/ req'[c] = req[c]
           \/ req'[c].pc = "create" /\ req'[c].key = FirstKey(req'[c].page)
           \/ /\ req'[c].pc = "upload" /\ UNCHANGED <<file, fileVersion>>
              /\ req'[c].page \in Pages /\ Live(req'[c].page)
              /\ req'[c].head = file[req'[c].page].latest
              /\ ~IsHead(req'[c].page, req'[c].body)
           \/ /\ req[c].pc = "upload" /\ req'[c].pc = "append"
              /\ UNCHANGED <<file, fileVersion>>
              /\ req'[c].page = req[c].page /\ req'[c].head = req[c].head
              /\ req'[c].body = req[c].body
              /\ req'[c].key.page = req[c].page
              /\ req'[c].key.version = req[c].head + 1
<1> DEFINE Moves ==
           \/ req'[c] = req[c]
           \/ req'[c].pc = "create" /\ req'[c].key = FirstKey(req'[c].page)
           \/ /\ req'[c].pc = "upload" /\ UNCHANGED <<file, fileVersion>>
              /\ req'[c].page \in Pages /\ Live(req'[c].page)
              /\ req'[c].head = file[req'[c].page].latest
              /\ ~IsHead(req'[c].page, req'[c].body)
           \/ /\ req[c].pc = "upload" /\ req'[c].pc = "append"
              /\ UNCHANGED <<file, fileVersion>>
              /\ req'[c].page = req[c].page /\ req'[c].head = req[c].head
              /\ req'[c].body = req[c].body
              /\ req'[c].key.page = req[c].page
              /\ req'[c].key.version = req[c].head + 1
<1>0. req \in [Clients -> Reqs] /\ file \in [Pages -> FileRows]
  BY DEF TypeOK
<1>1. ASSUME NEW d \in Clients, NEW r, Goto(d, r), d = c => r.pc = "idle"
      PROVE  Moves
  BY <1>0, <1>1 DEF Goto
<1>2. ASSUME NEW d \in Clients, NEW k \in Keys, NEW b, NEW r, PutObject(d, k, b, r)
      PROVE  Goto(d, r) \/ Goto(d, IdleReq)
  BY <1>2 DEF PutObject
<1>3. ASSUME NEW d \in Clients, NEW b \in Bodies, NEW n \in 1..MaxAttempts,
             GenerateAndPut(d, b, n)
      PROVE  Moves
  <2>1. PICK p \in Pages :
            PutObject(d, FirstKey(p), b,
                      [Attempt("create", p, b, n) EXCEPT !.key = FirstKey(p)])
    BY <1>3 DEF GenerateAndPut
  <2> DEFINE r == [Attempt("create", p, b, n) EXCEPT !.key = FirstKey(p)]
  <2>2. r.pc = "create" /\ r.key = FirstKey(r.page)
    BY AttemptType DEF Reqs, ReqPCs
  <2>3. Goto(d, r) \/ Goto(d, IdleReq)
    BY <1>2, <2>1, FirstKeyType
  <2> HIDE DEF r
  <2>4. CASE Goto(d, r)
    BY <1>0, <2>2, <2>4 DEF Goto
  <2> QED
    BY <1>1, <2>3, <2>4, IdleReqType
<1>4. ASSUME NEW d \in Clients, NEW p \in Pages, NEW b \in Bodies, NEW n \in 1..MaxAttempts,
             Live(p), AppendTo(d, p, b, n), UNCHANGED <<file, fileVersion>>
      PROVE  Moves
  <2> DEFINE r == [Attempt("upload", p, b, n) EXCEPT !.head = file[p].latest]
  <2>1. /\ r.pc = "upload" /\ r.page = p /\ r.body = b /\ r.head = file[p].latest
    BY AttemptType DEF Reqs, ReqPCs
  <2> HIDE DEF r
  <2>2. CASE IsHead(p, b)
    BY <1>1, <1>4, <2>2, IdleReqType DEF AppendTo
  <2>3. CASE ~IsHead(p, b)
    <3>1. Goto(d, r)
      BY <1>4, <2>3 DEF AppendTo, r
    <3> QED
      BY <1>0, <1>4, <2>1, <2>3, <3>1 DEF Goto
  <2> QED
    BY <2>2, <2>3
<1>5. ASSUME NEW d \in Clients, Submit(d) PROVE Moves
  <2>0. 1 \in 1..MaxAttempts
    BY BoundsAssumption
  <2>1. CASE Publish(d)
    BY <1>3, <2>0, <2>1 DEF Publish
  <2>2. CASE Republish(d)
    BY <1>4, <2>0, <2>2 DEF Republish
  <2>3. CASE RestoreVersion(d)
    <3>1. PICK r \in fileVersion, o \in object :
              /\ Live(r.page) /\ AppendTo(d, r.page, o.body, 1)
      BY <2>3 DEF RestoreVersion
    <3>2. r.page \in Pages /\ o.body \in Bodies
      BY DEF TypeOK, VersionRows, Objects
    <3> QED
      BY <1>4, <2>0, <2>3, <3>1, <3>2 DEF RestoreVersion
  <2>4. CASE DeleteFile(d)
    <3>1. PICK p \in Pages : Goto(d, [IdleReq EXCEPT !.pc = "delete", !.page = p,
                                                     !.keys = ReclaimKeys(p)])
      BY <2>4 DEF DeleteFile
    <3>2. [IdleReq EXCEPT !.pc = "delete", !.page = p,
                          !.keys = ReclaimKeys(p)].pc = "delete"
      BY IdleReqType DEF Reqs
    <3> QED
      BY <1>0, <3>1, <3>2 DEF Goto
  <2> QED
    BY <1>5, <2>1, <2>2, <2>3, <2>4 DEF Submit
<1>6. ASSUME NEW d \in Clients, Proceed(d) PROVE Moves
  <2>0. /\ req[d] \in Reqs /\ req[d].page \in Pages /\ req[d].body \in Bodies
        /\ req[d].attempt \in 1..MaxAttempts /\ req[d].head \in Nat
    BY <1>0, BoundsAssumption DEF Reqs
  <2>1. CASE RetryPublish(d)
    BY <1>3, <2>0, <2>1 DEF RetryPublish
  <2>2. ASSUME NEW reason \in Reasons, Goto(d, Orphaned(req[d], reason))
        PROVE  Moves
    BY <1>0, <2>0, <2>2, OrphanedType DEF Goto
  <2>3. CASE CommitPage(d) \/ CommitVersion(d)
    <3>1. Goto(d, IdleReq) \/ \E reason \in Reasons : Goto(d, Orphaned(req[d], reason))
      BY <2>3 DEF CommitPage, CommitVersion, Reasons
    <3> QED
      BY <1>1, <2>2, <3>1, IdleReqType
  <2>4. CASE EnqueueOrphan(d)
    <3>1. \/ Goto(d, IdleReq)
          \/ Goto(d, Attempt("new", SomePage, req[d].body, req[d].attempt + 1))
             /\ req[d].attempt # MaxAttempts
          \/ Goto(d, Attempt("read", req[d].page, req[d].body, req[d].attempt + 1))
             /\ req[d].attempt # MaxAttempts
      BY <2>4 DEF EnqueueOrphan
    <3>2. req[d].attempt # MaxAttempts => req[d].attempt + 1 \in 1..MaxAttempts
      BY <2>0, BoundsAssumption
    <3>3. ASSUME NEW pc \in {"new", "read"}, NEW p \in Pages,
                 Goto(d, Attempt(pc, p, req[d].body, req[d].attempt + 1)),
                 req[d].attempt + 1 \in 1..MaxAttempts
          PROVE  Moves
      <4>1. Attempt(pc, p, req[d].body, req[d].attempt + 1).pc = pc
        BY <2>0, <3>3, AttemptType DEF ReqPCs
      <4> QED
        BY <1>0, <3>3, <4>1 DEF Goto
    <3> QED
      BY <1>1, <2>0, <3>1, <3>2, <3>3, IdleReqType, SomeValues
  <2>5. CASE ReadHead(d)
    <3>1. \/ Live(req[d].page) /\ AppendTo(d, req[d].page, req[d].body, req[d].attempt)
          \/ Goto(d, IdleReq)
      BY <2>5 DEF ReadHead
    <3> QED
      BY <1>1, <1>4, <2>0, <2>5, <3>1, IdleReqType DEF ReadHead
  <2>6. CASE UploadVersion(d)
    <3> DEFINE fresh == FreshKeys(req[d].page, req[d].head + 1)
               k == CHOOSE x \in fresh : TRUE
               r == [req[d] EXCEPT !.pc = "append", !.key = k]
    <3>1. CASE fresh = {}
      BY <1>1, <2>6, <3>1, IdleReqType DEF UploadVersion
    <3>2. CASE fresh # {}
      <4>1. k \in Keys /\ k.page = req[d].page /\ k.version = req[d].head + 1
        BY <3>2 DEF FreshKeys
      <4>2. PutObject(d, k, req[d].body, r) /\ req[d].pc = "upload"
            /\ UNCHANGED <<file, fileVersion>>
        BY <2>6, <3>2 DEF UploadVersion
      <4>3. /\ r.pc = "append" /\ r.page = req[d].page /\ r.head = req[d].head
            /\ r.body = req[d].body /\ r.key = k
        BY <2>0 DEF Reqs
      <4>4. Goto(d, r) \/ Goto(d, IdleReq)
        BY <1>2, <4>1, <4>2
      <4> HIDE DEF r, k
      <4>5. CASE Goto(d, r)
        BY <1>0, <4>1, <4>2, <4>3, <4>5 DEF Goto
      <4> QED
        BY <1>1, <4>4, <4>5, IdleReqType
    <3> QED
      BY <3>1, <3>2
  <2>7. CASE CommitDelete(d)
    BY <1>1, <2>7, IdleReqType DEF CommitDelete
  <2> QED
    BY <1>6, <2>1, <2>3, <2>4, <2>5, <2>6, <2>7 DEF Proceed
<1>7. ASSUME NEW d \in Clients, CrashRequest(d) PROVE Moves
  BY <1>1, <1>7, IdleReqType DEF CrashRequest
<1>8. CASE req' = req
  BY <1>8
<1>9. ASSUME NEW p \in Pages, PatchFile(p) \/ Expire(p) PROVE req' = req
  BY <1>9 DEF PatchFile, Expire
<1>10. ASSUME NEW v \in Viewers, RenderStep(v) PROVE req' = req
  BY <1>10 DEF RenderStep, Render, FetchObject, CheckView, CountView
<1>11. ASSUME CronStep \/ CrashCron PROVE req' = req
  BY <1>11 DEF CronStep, CrashCron, StartRound, ListPending, CommitExpired, DropRow,
               EndRound, ReadExpired, DeleteObject
<1>12. ASSUME NEW q \in pending, PassRetention(q) PROVE req' = req
  BY <1>12 DEF PassRetention
<1> QED
  BY <1>5, <1>6, <1>7, <1>8, <1>9, <1>10, <1>11, <1>12 DEF Next

\* The rows of a page only grow, at its end; the key of a new row names it.
RowsGrow ==
    /\ \A p \in Pages : /\ file[p].status # "none" => file'[p].status # "none"
                        /\ file[p].latest <= file'[p].latest
                        /\ file'[p].status = "deleted" =>
                               /\ file[p].status # "none"
                               /\ file'[p].serving = file[p].serving
    /\ fileVersion \subseteq fileVersion'
    /\ \A r \in fileVersion' :
           \/ r \in fileVersion
           \/ /\ r.version > file[r.page].latest
              /\ r.key.page = r.page /\ r.key.version = r.version
    /\ Begun'

LEMMA GrowStep ==
    ASSUME TypeInv, HistoryInv, ReadInv, Next PROVE RowsGrow
<1>0. /\ req \in [Clients -> Reqs] /\ file \in [Pages -> FileRows] /\ TypeOK
      /\ \A p \in Pages : file[p].latest \in Nat
  BY BoundsAssumption DEF TypeInv, TypeOK, FileRows
<1>1. CASE UNCHANGED <<file, fileVersion>>
  BY <1>0, <1>1 DEF ReadInv, Begun, RowsGrow
<1>2. ASSUME NEW c \in Clients, req[c].pc = "create", InsertPage(req[c]),
             file[req[c].page].status = "none"
      PROVE  RowsGrow
  <2>1. /\ req[c].page \in Pages /\ file[req[c].page].latest = 0
        /\ req[c].key = FirstKey(req[c].page)
    BY <1>0, <1>2 DEF Reqs, HistoryInv, Fresh, ReadInv, KeysDrawn
  <2>2. /\ file'[req[c].page].status = "live" /\ file'[req[c].page].latest = 1
        /\ \A p \in Pages : p # req[c].page => file'[p] = file[p]
    BY <1>0, <1>2, <2>1 DEF InsertPage
  <2>3. \A r \in fileVersion' :
            \/ r \in fileVersion
            \/ r.version = 1 /\ r.page = req[c].page /\ r.key = FirstKey(r.page)
    BY <1>2, <2>1 DEF InsertPage
  <2>4. \A r \in fileVersion' :
            \/ r \in fileVersion
            \/ /\ r.version > file[r.page].latest
               /\ r.key.page = r.page /\ r.key.version = r.version
    <3>1. \A p : FirstKey(p).page = p /\ FirstKey(p).version = 1
      BY DEF FirstKey
    <3>2. \A r \in fileVersion' : \/ r \in fileVersion
                                  \/ r.version = 1 /\ file[r.page].latest = 0
      BY <2>1, <2>3
    <3> QED
      BY <2>3, <3>1, <3>2
  <2>5. \A p \in Pages : /\ file[p].status # "none" => file'[p].status # "none"
                         /\ file[p].latest <= file'[p].latest
                         /\ file'[p].status = "deleted" =>
                                /\ file[p].status # "none"
                                /\ file'[p].serving = file[p].serving
    BY <1>0, <2>1, <2>2
  <2>6. Begun'
    BY <2>2 DEF Begun, ReadInv
  <2> QED
    BY <1>2, <2>4, <2>5, <2>6 DEF RowsGrow, InsertPage
<1>3. ASSUME NEW c \in Clients, req[c].pc = "append", InsertVersion(req[c]),
             CanAdvance(file[req[c].page], req[c].head + 1)
      PROVE  RowsGrow
  <2>1. /\ req[c].page \in Pages /\ req[c].head \in Nat
        /\ req[c].key.page = req[c].page /\ req[c].key.version = req[c].head + 1
    BY <1>0, <1>3, BoundsAssumption DEF Reqs, ReadInv, KeysDrawn
  <2>2. file[req[c].page].status = "live" /\ file[req[c].page].latest = req[c].head
    BY <1>0, <1>3, <2>1 DEF CanAdvance
  <2>3. /\ file'[req[c].page].status = "live" /\ file'[req[c].page].latest = req[c].head + 1
        /\ \A p \in Pages : p # req[c].page => file'[p] = file[p]
    BY <1>0, <1>3, <2>1, <2>2 DEF InsertVersion, AdvanceHead, FileRows
  <2>4. \A r \in fileVersion' :
            \/ r \in fileVersion
            \/ r.version = req[c].head + 1 /\ r.page = req[c].page /\ r.key = req[c].key
    BY <1>3 DEF InsertVersion
  <2> QED
    BY <1>0, <1>3, <2>1, <2>2, <2>3, <2>4 DEF RowsGrow, Begun, ReadInv, InsertVersion
<1>4. ASSUME NEW p \in Pages, PatchFile(p) \/ Expire(p)
      PROVE  RowsGrow
  <2>1. /\ fileVersion' = fileVersion
        /\ \A q \in Pages : q # p => file'[q] = file[q]
        /\ file'[p].status = file[p].status /\ file'[p].latest = file[p].latest
        /\ file'[p].status = "live"
    <3>1. CASE PatchFile(p)
      BY <1>0, <3>1 DEF PatchFile, SetSharedVersion, FileRows, Live
    <3>2. CASE Expire(p)
      BY <1>0, <3>2 DEF Expire, FileRows, Live
    <3> QED
      BY <1>4, <3>1, <3>2
  <2>2. Begun'
    BY <2>1 DEF Begun, ReadInv
  <2>3. \A q \in Pages : /\ file[q].status # "none" => file'[q].status # "none"
                         /\ file[q].latest <= file'[q].latest
                         /\ file'[q].status = "deleted" =>
                                /\ file[q].status # "none"
                                /\ file'[q].serving = file[q].serving
    BY <1>0, <2>1
  <2> QED
    BY <2>1, <2>2, <2>3 DEF RowsGrow
<1>5. ASSUME NEW p \in Pages, file' = [file EXCEPT ![p] = MarkDeleted(@)],
             fileVersion' = fileVersion
      PROVE  RowsGrow
  <2>1. /\ \A q \in Pages : q # p => file'[q] = file[q]
        /\ file'[p].status # "none" <=> file[p].status # "none"
        /\ file'[p].latest = file[p].latest /\ file'[p].serving = file[p].serving
    BY <1>0, <1>5 DEF MarkDeleted, FileRows
  <2> QED
    BY <1>0, <1>5, <2>1 DEF RowsGrow, Begun, ReadInv
<1> QED
  BY <1>0, <1>1, <1>2, <1>3, <1>4, <1>5, RowSteps

LEMMA ReadStep == TypeInv /\ HistoryInv /\ ReadInv /\ [Next]_vars => ReadInv'
<1> SUFFICES ASSUME TypeInv, HistoryInv, ReadInv, [Next]_vars PROVE ReadInv'
  OBVIOUS
<1>1. CASE UNCHANGED vars
  BY <1>1 DEF vars, ReadInv, Begun, KeysNamed, KeysDrawn, HeadsRead, RowsOf, Served
<1>2. CASE Next
  <2>0. /\ TypeOK /\ TypeOK' /\ req \in [Clients -> Reqs] /\ file \in [Pages -> FileRows]
        /\ \A p \in Pages : file[p].latest \in Nat /\ file'[p].latest \in Nat
    BY <1>2, TypeStep, BoundsAssumption DEF TypeInv, TypeOK, FileRows
  <2>1. RowsGrow
    BY <1>2, GrowStep
  <2>2. KeysNamed' /\ Begun'
    BY <2>1 DEF RowsGrow, ReadInv, KeysNamed
  <2>6. Served'
    <3> SUFFICES ASSUME NEW p \in Pages, file'[p].status # "none"
                 PROVE  \E r \in fileVersion' : r.page = p /\ r.key = file'[p].serving
      BY DEF Served
    <3>1. CASE file'[p].status = "live"
      BY <1>2, <3>1, HistoryStep DEF HistoryInv, ServingFollowsShare, RowsOf, Live
    <3>2. CASE file'[p].status = "deleted"
      BY <2>1, <3>2 DEF RowsGrow, ReadInv, Served
    <3> QED
      BY <2>0, <3>1, <3>2 DEF TypeOK, FileRows
  <2>3. ASSUME NEW c \in Clients, req'[c].pc \in {"create", "upload", "append"}
        PROVE  \/ req'[c] = req[c]
               \/ req'[c].pc = "create" /\ req'[c].key = FirstKey(req'[c].page)
               \/ /\ req'[c].pc = "upload" /\ UNCHANGED <<file, fileVersion>>
                  /\ req'[c].page \in Pages /\ Live(req'[c].page)
                  /\ req'[c].head = file[req'[c].page].latest
                  /\ ~IsHead(req'[c].page, req'[c].body)
               \/ /\ req[c].pc = "upload" /\ req'[c].pc = "append"
                  /\ UNCHANGED <<file, fileVersion>>
                  /\ req'[c].page = req[c].page /\ req'[c].head = req[c].head
                  /\ req'[c].body = req[c].body
                  /\ req'[c].key.page = req[c].page
                  /\ req'[c].key.version = req[c].head + 1
    BY <1>2, <2>0, <2>3, RequestMoves
  <2>4. KeysDrawn'
    BY <2>3 DEF KeysDrawn, ReadInv
  <2>5. HeadsRead'
    <3> SUFFICES ASSUME NEW c \in Clients, req'[c].pc \in {"upload", "append"}
                 PROVE  /\ file'[req'[c].page].status # "none"
                        /\ req'[c].head \in 1..file'[req'[c].page].latest
                        /\ \A r \in fileVersion' :
                               r.page = req'[c].page /\ r.version = req'[c].head
                                   => r.body # req'[c].body
      BY DEF HeadsRead, RowsOf
    <3>1. ASSUME req[c].pc \in {"upload", "append"}, req'[c].page = req[c].page,
                 req'[c].head = req[c].head, req'[c].body = req[c].body
          PROVE  /\ file'[req'[c].page].status # "none"
                 /\ req'[c].head \in 1..file'[req'[c].page].latest
                 /\ \A r \in fileVersion' :
                        r.page = req'[c].page /\ r.version = req'[c].head
                            => r.body # req'[c].body
      <4>1. /\ file[req[c].page].status # "none"
            /\ req[c].head \in 1..file[req[c].page].latest
            /\ \A r \in fileVersion :
                   r.page = req[c].page /\ r.version = req[c].head => r.body # req[c].body
        BY <3>1 DEF ReadInv, HeadsRead, RowsOf
      <4>2. req[c].page \in Pages /\ req[c].head \in Nat
        BY <2>0, BoundsAssumption DEF Reqs
      <4> QED
        BY <2>0, <2>1, <3>1, <4>1, <4>2 DEF RowsGrow
    <3>2. ASSUME UNCHANGED <<file, fileVersion>>, req'[c].page \in Pages,
                 Live(req'[c].page), req'[c].head = file[req'[c].page].latest,
                 ~IsHead(req'[c].page, req'[c].body)
          PROVE  /\ file'[req'[c].page].status # "none"
                 /\ req'[c].head \in 1..file'[req'[c].page].latest
                 /\ \A r \in fileVersion' :
                        r.page = req'[c].page /\ r.version = req'[c].head
                            => r.body # req'[c].body
      <4>1. file[req'[c].page].status # "none" /\ file[req'[c].page].latest # 0
        BY <3>2 DEF ReadInv, Begun, Live
      <4> QED
        BY <2>0, <3>2, <4>1 DEF IsHead, RowsOf
    <3> QED
      BY <2>3, <3>1, <3>2
  <2> QED
    BY <2>2, <2>4, <2>5, <2>6 DEF ReadInv
<1> QED
  BY <1>1, <1>2

LEMMA ReadInvariance == Spec => []ReadInv
<1>1. Init => ReadInv
  <2> SUFFICES ASSUME Init PROVE ReadInv
    OBVIOUS
  <2>1. /\ \A p \in Pages : file[p].status = "none"
        /\ fileVersion = {} /\ \A c \in Clients : req[c].pc = "idle"
    BY IdleReqType DEF Init, NoFile
  <2> QED
    BY <2>1 DEF ReadInv, Begun, KeysNamed, KeysDrawn, HeadsRead, Served
<1> QED
  BY <1>1, ReadStep, TypeInvariant, HistoryInvariance, PTL DEF Spec

-----------------------------------------------------------------------------
(* The mapping: one row per version, and one row under the serving cache.     *)

Mapped ==
    /\ History \in [Pages -> Seq(Bodies)]
    /\ \A p \in Pages : /\ Len(History[p]) = file[p].latest
                        /\ file[p].status = "none" => Serves[p] = NoBody
    /\ \A r \in fileVersion :
           /\ r.page \in Pages /\ r.body \in Bodies
           /\ r.version \in 1..file[r.page].latest
           /\ History[r.page][r.version] = r.body
           /\ file[r.page].status # "none" /\ r.key = file[r.page].serving
                  => Serves[r.page] = r.body
    /\ \A p \in Pages : \A v \in 1..file[p].latest :
           \E r \in fileVersion : r.page = p /\ r.version = v
    /\ \A p \in Pages : Live(p) => Serves[p] = Abstract!Shown(History[p], file[p].shared)

LEMMA MappingRead == TypeOK /\ HistoryInv /\ ReadInv => Mapped
<1> SUFFICES ASSUME TypeOK, HistoryInv, ReadInv PROVE Mapped
  OBVIOUS
<1>0. /\ fileVersion \subseteq VersionRows
      /\ \A p \in Pages : file[p].latest \in Nat
  BY BoundsAssumption DEF TypeOK, FileRows
<1>1. \A p \in Pages : \A v \in 1..file[p].latest :
          \E r \in fileVersion : r.page = p /\ r.version = v
  BY DEF HistoryInv, GaplessHistory
<1>2. \A r \in fileVersion : /\ r.page \in Pages /\ r.body \in Bodies
                             /\ r.version \in 1..file[r.page].latest
  BY <1>0 DEF VersionRows, HistoryInv, GaplessHistory
<1>3. \A r \in fileVersion : BodyOf(r.page, r.version) = r.body
  BY <1>2 DEF BodyOf, RowsOf, HistoryInv, GaplessHistory
<1>4. \A p \in Pages : History[p] = [v \in 1..file[p].latest |-> BodyOf(p, v)]
  BY DEF History
<1>5. \A p \in Pages : History[p] \in [1..file[p].latest -> Bodies]
  <2> TAKE p \in Pages
  <2>1. \A v \in 1..file[p].latest : BodyOf(p, v) \in Bodies
    BY <1>1, <1>2, <1>3
  <2> QED
    BY <1>4, <2>1
<1>6. \A p \in Pages : History[p] \in Seq(Bodies) /\ Len(History[p]) = file[p].latest
  BY <1>0, <1>5
<1>7. History \in [Pages -> Seq(Bodies)]
  BY <1>6 DEF History
<1>8. \A r \in fileVersion : History[r.page][r.version] = r.body
  <2> TAKE r \in fileVersion
  <2>1. r.page \in Pages /\ r.version \in 1..file[r.page].latest
    BY <1>2
  <2>2. History[r.page][r.version] = BodyOf(r.page, r.version)
    BY <1>4, <2>1
  <2> QED
    BY <1>3, <2>2
<1>9. \A p \in Pages : file[p].status = "none" => Serves[p] = NoBody
  BY DEF Serves
<1>10. ASSUME NEW r \in fileVersion, file[r.page].status # "none",
              r.key = file[r.page].serving
       PROVE  Serves[r.page] = r.body
  <2>1. \A s \in fileVersion : s.page = r.page /\ s.key = r.key => s = r
    BY <1>2 DEF ReadInv, KeysNamed, HistoryInv, GaplessHistory
  <2>2. Serves[r.page] =
            CHOOSE b \in Bodies :
                \E s \in fileVersion :
                    s.page = r.page /\ s.key = file[r.page].serving /\ s.body = b
    BY <1>2, <1>10 DEF Serves
  <2> QED
    BY <1>2, <1>10, <2>1, <2>2
<1>11. ASSUME NEW p \in Pages, Live(p)
       PROVE  Serves[p] = Abstract!Shown(History[p], file[p].shared)
  <2>1. PICK r \in fileVersion :
            /\ r.page = p /\ r.key = file[p].serving
            /\ r.version = (IF file[p].shared = 0 THEN file[p].latest ELSE file[p].shared)
    BY <1>11 DEF HistoryInv, ServingFollowsShare, RowsOf
  <2>2. Serves[p] = r.body
    BY <1>10, <1>11, <2>1 DEF Live
  <2>3. History[p][r.version] = r.body
    BY <1>8, <2>1
  <2>4. Abstract!Shown(History[p], file[p].shared) = History[p][r.version]
    BY <1>6, <2>1 DEF Abstract!Shown
  <2> QED
    BY <2>2, <2>3, <2>4
<1> QED
  BY <1>1, <1>2, <1>6, <1>7, <1>8, <1>9, <1>10, <1>11 DEF Mapped

\* A page that keeps its versions and its serving cache reads as before.
LEMMA ReadsAlike ==
    ASSUME TypeOK, TypeOK', Served, Mapped, Mapped', fileVersion \subseteq fileVersion',
           NEW p \in Pages, file'[p].latest = file[p].latest,
           file'[p].status = "none" <=> file[p].status = "none",
           file'[p].serving = file[p].serving
    PROVE  History'[p] = History[p] /\ Serves'[p] = Serves[p]
<1>1. /\ History[p] \in Seq(Bodies) /\ History'[p] \in Seq(Bodies)
      /\ Len(History[p]) = file[p].latest /\ Len(History'[p]) = file[p].latest
  BY DEF Mapped
<1>2. ASSUME NEW v \in 1..file[p].latest PROVE History'[p][v] = History[p][v]
  <2>1. PICK r \in fileVersion : r.page = p /\ r.version = v
    BY DEF Mapped
  <2> QED
    BY <2>1 DEF Mapped
<1>3. History'[p] = History[p]
  BY <1>1, <1>2
<1>4. CASE file[p].status = "none"
  BY <1>3, <1>4 DEF Mapped
<1>5. CASE file[p].status # "none"
  <2>1. PICK r \in fileVersion : r.page = p /\ r.key = file[p].serving
    BY <1>5 DEF Served
  <2>2. Serves[p] = r.body
    BY <1>5, <2>1 DEF Mapped
  <2>3. Serves'[p] = r.body
    <3>1. r \in fileVersion' /\ file'[r.page].status # "none" /\ r.key = file'[r.page].serving
      BY <1>5, <2>1
    <3>2. \A s \in fileVersion' :
              file'[s.page].status # "none" /\ s.key = file'[s.page].serving
                  => Serves'[s.page] = s.body
      BY DEF Mapped
    <3> QED
      BY <2>1, <3>1, <3>2
  <2> QED
    BY <1>3, <2>2, <2>3
<1> QED
  BY <1>4, <1>5

\* What it takes for a step to change page p, and no other, as PageHistory says.
LEMMA OnePageReads ==
    ASSUME TypeOK, TypeOK', Served, Mapped, Mapped', fileVersion \subseteq fileVersion',
           NEW p \in Pages, \A q \in Pages : q # p => file'[q] = file[q]
    PROVE  /\ [q \in Pages |-> file'[q].status] =
                  [[q \in Pages |-> file[q].status] EXCEPT ![p] = file'[p].status]
           /\ [q \in Pages |-> file'[q].shared] =
                  [[q \in Pages |-> file[q].shared] EXCEPT ![p] = file'[p].shared]
           /\ History' = [History EXCEPT ![p] = History'[p]]
           /\ Serves' = [Serves EXCEPT ![p] = Serves'[p]]
<1>1. \A q \in Pages : q # p => History'[q] = History[q] /\ Serves'[q] = Serves[q]
  BY ReadsAlike
<1>2. /\ History = [q \in Pages |-> History[q]] /\ History' = [q \in Pages |-> History'[q]]
      /\ Serves = [q \in Pages |-> Serves[q]] /\ Serves' = [q \in Pages |-> Serves'[q]]
  BY DEF History, Serves
<1>3. History' = [History EXCEPT ![p] = History'[p]]
  BY <1>1, <1>2
<1>4. Serves' = [Serves EXCEPT ![p] = Serves'[p]]
  BY <1>1, <1>2
<1> QED
  BY <1>3, <1>4

LEMMA StutterReads ==
    ASSUME TypeOK, TypeOK', Served, Mapped, Mapped', fileVersion \subseteq fileVersion',
           \A p \in Pages : /\ file'[p].status = file[p].status
                            /\ file'[p].latest = file[p].latest
                            /\ file'[p].shared = file[p].shared
                            /\ file'[p].serving = file[p].serving
    PROVE  UNCHANGED Abstract!vars
<1>1. \A q \in Pages : History'[q] = History[q] /\ Serves'[q] = Serves[q]
  BY ReadsAlike
<1>2. History' = History
  BY <1>1 DEF History
<1>3. Serves' = Serves
  BY <1>1 DEF Serves
<1> QED
  BY <1>2, <1>3 DEF Abstract!vars

\* A step that moves a live page to history h and share s.
LEMMA ChangeReads ==
    ASSUME TypeOK, TypeOK', Served, Mapped, Mapped', fileVersion \subseteq fileVersion',
           NEW p \in Pages, \A q \in Pages : q # p => file'[q] = file[q],
           NEW h, NEW s, file'[p].status = "live", History'[p] = h, file'[p].shared = s
    PROVE  Abstract!Change(p, h, s)
<1>1. /\ [q \in Pages |-> file'[q].shared] =
              [[q \in Pages |-> file[q].shared] EXCEPT ![p] = file'[p].shared]
      /\ History' = [History EXCEPT ![p] = History'[p]]
      /\ Serves' = [Serves EXCEPT ![p] = Serves'[p]]
  BY OnePageReads
<1>2. Serves'[p] = Abstract!Shown(h, s)
  BY DEF Mapped, Live, Abstract!Shown
<1> QED
  BY <1>1, <1>2 DEF Abstract!Change

\* Each way a step can change the rows is one step of PageHistory, or none.
LEMMA ReadsStep ==
    ASSUME TypeOK, TypeOK', HistoryInv, HistoryInv', ReadInv, ReadInv', Mapped, Mapped', Next,
           RowsGrow
    PROVE  Abstract!Next \/ UNCHANGED Abstract!vars
<1>0. /\ req \in [Clients -> Reqs] /\ file \in [Pages -> FileRows]
      /\ \A p \in Pages : file[p].latest \in Nat /\ file'[p].latest \in Nat
      /\ Served /\ fileVersion \subseteq fileVersion'
      /\ \A p \in Pages : History[p] \in Seq(Bodies) /\ Len(History[p]) = file[p].latest
      /\ \A p \in Pages : History'[p] \in Seq(Bodies) /\ Len(History'[p]) = file'[p].latest
  BY BoundsAssumption DEF TypeOK, FileRows, ReadInv, Mapped, RowsGrow
<1>1. CASE UNCHANGED <<file, fileVersion>>
  BY <1>0, <1>1, StutterReads
<1>2. ASSUME NEW c \in Clients, req[c].pc = "create", InsertPage(req[c]),
             file[req[c].page].status = "none"
      PROVE  Abstract!Next
  <2>1. PICK p \in Pages, b \in Bodies : p = req[c].page /\ b = req[c].body
    BY <1>0 DEF Reqs
  <2> DEFINE new == [page |-> p, version |-> 1, key |-> req[c].key, body |-> b]
  <2>2. /\ file'[p].status = "live" /\ file'[p].latest = 1 /\ file'[p].shared = 0
        /\ \A q \in Pages : q # p => file'[q] = file[q]
    BY <1>0, <1>2, <2>1 DEF InsertPage
  <2>3. new \in fileVersion' /\ new.page = p /\ new.version = 1 /\ new.body = b
    BY <1>2, <2>1 DEF InsertPage
  <2>4. file[p].status = "none"
    BY <1>2, <2>1
  <2> HIDE DEF new
  <2>5. History'[p][1] = b
    BY <2>3 DEF Mapped
  <2>6. History'[p] = <<b>>
    BY <1>0, <2>1, <2>2, <2>5
  <2>7. Abstract!Change(p, <<b>>, 0)
    BY <1>0, <2>1, <2>2, <2>6, ChangeReads
  <2>8. [q \in Pages |-> file'[q].status] =
            [[q \in Pages |-> file[q].status] EXCEPT ![p] = "live"]
    BY <2>1, <2>2
  <2>9. Abstract!Create(p, b)
    BY <2>1, <2>4, <2>7, <2>8 DEF Abstract!Create
  <2> QED
    BY <2>1, <2>9 DEF Abstract!Next
<1>3. ASSUME NEW c \in Clients, req[c].pc = "append", InsertVersion(req[c]),
             CanAdvance(file[req[c].page], req[c].head + 1)
      PROVE  Abstract!Next
  <2>1. PICK p \in Pages, b \in Bodies, n \in Nat :
            p = req[c].page /\ b = req[c].body /\ n = req[c].head
    BY <1>0, BoundsAssumption DEF Reqs
  <2> DEFINE new == [page |-> p, version |-> n + 1, key |-> req[c].key, body |-> b]
  <2>2. file[p].status = "live" /\ file[p].latest = n
    BY <1>0, <1>3, <2>1 DEF CanAdvance
  <2>3. /\ file'[p].status = "live" /\ file'[p].latest = n + 1
        /\ file'[p].shared = file[p].shared
        /\ \A q \in Pages : q # p => file'[q] = file[q]
    BY <1>0, <1>3, <2>1, <2>2 DEF InsertVersion, AdvanceHead, FileRows
  <2>4. new \in fileVersion' /\ new.page = p /\ new.version = n + 1 /\ new.body = b
    BY <1>3, <2>1 DEF InsertVersion
  <2>5. /\ n \in 1..file[p].latest
        /\ \A r \in fileVersion : r.page = p /\ r.version = n => r.body # b
    BY <1>3, <2>1 DEF ReadInv, HeadsRead, RowsOf
  <2> HIDE DEF new
  <2>6. ASSUME NEW v \in 1..n
        PROVE  History'[p][v] = History[p][v] /\ (v = n => History[p][v] # b)
    <3>1. PICK r \in fileVersion : r.page = p /\ r.version = v
      BY <2>1, <2>2 DEF Mapped
    <3>2. History[p][v] = r.body
      BY <3>1 DEF Mapped
    <3>3. History'[p][v] = r.body
      BY <1>0, <3>1 DEF Mapped
    <3> QED
      BY <2>5, <3>1, <3>2, <3>3
  <2>7. History'[p][n + 1] = b
    BY <2>4 DEF Mapped
  <2>8. History'[p] = Append(History[p], b)
    BY <1>0, <2>1, <2>2, <2>3, <2>6, <2>7
  <2>9. b # History[p][Len(History[p])]
    BY <1>0, <2>1, <2>2, <2>5, <2>6
  <2>10. PICK h, s : h = Append(History[p], b) /\ s = file[p].shared /\ Abstract!Change(p, h, s)
    <3>1. PICK h, s : h = Append(History[p], b) /\ s = file[p].shared
      OBVIOUS
    <3>2. Abstract!Change(p, h, s)
      BY <1>0, <2>1, <2>3, <2>8, <3>1, ChangeReads
    <3> QED
      BY <3>1, <3>2
  <2>11. [q \in Pages |-> file'[q].status] = [q \in Pages |-> file[q].status]
    BY <2>2, <2>3
  <2>12. Abstract!Append_(p, b)
    BY <2>1, <2>2, <2>9, <2>10, <2>11 DEF Abstract!Append_, Abstract!Change
  <2> QED
    BY <2>1, <2>12 DEF Abstract!Next
<1>4. ASSUME NEW p \in Pages, PatchFile(p)
      PROVE  Abstract!Next \/ UNCHANGED Abstract!vars
  <2>1. PICK vis \in Visibilities, target \in 0..MaxVersion :
            \/ \E r \in RowsOf(p, IF target = 0 THEN file[p].latest ELSE target) :
                   file' = [file EXCEPT ![p] =
                       [SetSharedVersion(@, target, r.key) EXCEPT !.visibility = vis]]
            \/ file' = [file EXCEPT ![p].visibility = vis]
    BY <1>4 DEF PatchFile
  <2>2. CASE file' = [file EXCEPT ![p].visibility = vis]
    <3>1. \A q \in Pages : /\ file'[q].status = file[q].status
                           /\ file'[q].latest = file[q].latest
                           /\ file'[q].shared = file[q].shared
                           /\ file'[q].serving = file[q].serving
      BY <1>0, <2>2 DEF FileRows
    <3> QED
      BY <1>0, <3>1, StutterReads
  <2>3. ASSUME NEW r \in RowsOf(p, IF target = 0 THEN file[p].latest ELSE target),
               file' = [file EXCEPT ![p] =
                   [SetSharedVersion(@, target, r.key) EXCEPT !.visibility = vis]]
        PROVE  Abstract!Next
    <3>1. /\ file'[p].status = "live" /\ file[p].status = "live"
          /\ file'[p].latest = file[p].latest /\ file'[p].shared = target
          /\ \A q \in Pages : q # p => file'[q] = file[q]
      BY <1>0, <1>4, <2>3 DEF PatchFile, Live, SetSharedVersion, FileRows
    <3>2. target \in 0..Len(History[p])
      BY <1>0, <2>3 DEF RowsOf, Mapped
    <3>3. fileVersion' = fileVersion
      BY <1>4 DEF PatchFile
    <3>4. ASSUME NEW v \in 1..file[p].latest PROVE History'[p][v] = History[p][v]
      <4>1. PICK s \in fileVersion : s.page = p /\ s.version = v
        BY DEF Mapped
      <4>2. History[p][v] = s.body
        BY <4>1 DEF Mapped
      <4>3. History'[p][v] = s.body
        BY <3>3, <4>1 DEF Mapped
      <4> QED
        BY <4>2, <4>3
    <3>5. History'[p] = History[p]
      BY <1>0, <3>1, <3>4
    <3>6. Abstract!Change(p, History[p], target)
      BY <1>0, <3>1, <3>5, ChangeReads
    <3>7. [q \in Pages |-> file'[q].status] = [q \in Pages |-> file[q].status]
      BY <3>1
    <3>8. Abstract!Share(p, target)
      BY <3>1, <3>2, <3>6, <3>7 DEF Abstract!Share
    <3> QED
      BY <3>2, <3>8 DEF Abstract!Next
  <2> QED
    BY <2>1, <2>2, <2>3
<1>5. ASSUME NEW p \in Pages, Expire(p)
      PROVE  UNCHANGED Abstract!vars
  <2>1. \A q \in Pages : /\ file'[q].status = file[q].status
                         /\ file'[q].latest = file[q].latest
                         /\ file'[q].shared = file[q].shared
                         /\ file'[q].serving = file[q].serving
    BY <1>0, <1>5 DEF Expire, FileRows
  <2> QED
    BY <1>0, <2>1, StutterReads
<1>6. ASSUME NEW p \in Pages, file' = [file EXCEPT ![p] = MarkDeleted(@)],
             fileVersion' = fileVersion
      PROVE  Abstract!Next \/ UNCHANGED Abstract!vars
  <2>1. CASE file[p].status # "live"
    <3>1. file' = file
      BY <1>0, <1>6, <2>1 DEF MarkDeleted
    <3> QED
      BY <1>1, <1>6, <3>1
  <2>2. CASE file[p].status = "live"
    <3>1. /\ file'[p].status = "deleted" /\ file'[p].latest = file[p].latest
          /\ file'[p].shared = file[p].shared /\ file'[p].serving = file[p].serving
          /\ \A q \in Pages : q # p => file'[q] = file[q]
      BY <1>0, <1>6, <2>2 DEF MarkDeleted, FileRows
    <3>2. \A q \in Pages : History'[q] = History[q] /\ Serves'[q] = Serves[q]
      BY <1>0, <2>2, <3>1, ReadsAlike
    <3>3. History' = History
      BY <3>2 DEF History
    <3>4. Serves' = Serves
      BY <3>2 DEF Serves
    <3>5. /\ [q \in Pages |-> file'[q].status] =
                 [[q \in Pages |-> file[q].status] EXCEPT ![p] = "deleted"]
          /\ [q \in Pages |-> file'[q].shared] = [q \in Pages |-> file[q].shared]
      BY <3>1
    <3>6. Abstract!Remove(p)
      BY <2>2, <3>3, <3>4, <3>5 DEF Abstract!Remove
    <3> QED
      BY <3>6 DEF Abstract!Next
  <2> QED
    BY <2>1, <2>2
<1> QED
  BY <1>1, <1>2, <1>3, <1>4, <1>5, <1>6, RowSteps

\* Under every fault, PageStore implements PageHistory: publish.go and files.go
\* create a page once, add whole versions one at a time, none equal to the one
\* before it although the head was compared before the upload, and serve what is
\* shared; the serving cache, the retries and the queue are not seen.
THEOREM HistoryImplemented == Spec => ImplementsPageHistory
<1>1. Init => Abstract!Init
  <2> SUFFICES ASSUME Init PROVE Abstract!Init
    OBVIOUS
  <2>1. \A p \in Pages : /\ file[p].status = "none" /\ file[p].latest = 0
                         /\ file[p].shared = 0
    BY DEF Init, NoFile
  <2>2. \A p \in Pages : History[p] = <<>>
    BY <2>1 DEF History
  <2>3. History = [p \in Pages |-> <<>>]
    BY <2>2 DEF History
  <2>4. Serves = [p \in Pages |-> NoBody]
    BY <2>1 DEF Serves
  <2> QED
    BY <2>1, <2>3, <2>4 DEF Abstract!Init
<1>2. TypeInv /\ HistoryInv /\ ReadInv => Mapped
  BY MappingRead DEF TypeInv
<1>3. ASSUME TypeInv, TypeInv', HistoryInv, HistoryInv', ReadInv, ReadInv',
             Mapped, Mapped', [Next]_vars
      PROVE  [Abstract!Next]_(Abstract!vars)
  <2>1. CASE Next
    BY <1>3, <2>1, GrowStep, ReadsStep DEF TypeInv
  <2>2. CASE UNCHANGED vars
    BY <1>3, <2>2, StutterReads DEF TypeInv, vars, ReadInv
  <2> QED
    BY <1>3, <2>1, <2>2
<1> QED
  BY <1>1, <1>2, <1>3, TypeInvariant, HistoryInvariance, ReadInvariance, PTL
     DEF Spec, ImplementsPageHistory, Abstract!Spec
-----------------------------------------------------------------------------
(* No upload is forgotten.  A request that is killed, an upload stored under   *)
(* a reported error or a best-effort write that fails loses one, as it does in *)
(* the code (CleanupCron's backstop is for those).  And so does a nano id      *)
(* drawn again while the cron, which has deleted the object of its key, is     *)
(* about to drop the queue's row, if the second publish rolls back: its key is *)
(* queued already, so enqueueOrphan inserts nothing, and the row goes.         *)

UploadsSettle ==
    /\ {"store_ack", "queue", "crash"} \cap Faults = {}
    /\ "collision" \notin Faults \/ "db" \notin Faults

Accounted(k) == Referenced(k) \/ k \in QueuedKeys \/ k \in InFlightKeys

\* The first version of a page lies under its first key.
FirstRow == \A p \in Pages : file[p].status # "none" => Referenced(FirstKey(p))

\* What the cron is about to delete or to drop is queued.
ListQueued ==
    /\ cron.rows \subseteq QueuedKeys
    /\ cron.pc = "drop" => cron.key \in QueuedKeys /\ cron.key \notin cron.rows

\* The object of a row about to be dropped is gone, or was put again by a
\* publish that drew the page's nano id and that can only succeed or find the
\* page taken.
DropSafe ==
    cron.pc = "drop" /\ cron.key \in StoredKeys =>
        /\ "db" \notin Faults
        /\ \/ Referenced(cron.key)
           \/ \E c \in Clients : req[c].pc = "create" /\ req[c].key = cron.key

AccountInv == UploadsAccounted /\ FirstRow /\ ListQueued /\ DropSafe

LEMMA AccountedOf == UploadsAccounted <=> \A k \in StoredKeys : Accounted(k)
  BY DEF UploadsAccounted, Accounted, Referenced, StoredKeys

\* Steps of one request that take nothing out of the queue: what it puts, it
\* holds, and what it lets go of is a version's or is queued.
LEMMA AccountRequest ==
    ASSUME TypeOK, AccountInv, FirstRow', NEW c \in Clients, NEW old, NEW r,
           req[c] = old, Goto(c, r),
           fileVersion \subseteq fileVersion', QueuedKeys \subseteq QueuedKeys', cron' = cron,
           \A k \in StoredKeys' : k \in StoredKeys \/ (Holding(c)' /\ k = r.key),
           Holding(c) => \/ Holding(c)' /\ r.key = old.key
                         \/ Referenced(old.key)' \/ old.key \in QueuedKeys',
           old.pc = "create" => Referenced(old.key)' \/ "db" \in Faults,
           \A k \in StoredKeys' :
               k \in StoredKeys \/ k \notin QueuedKeys \/ (r.pc = "create" /\ "db" \notin Faults)
    PROVE  AccountInv'
<1>0. /\ req'[c] = r /\ req \in [Clients -> Reqs]
      /\ \A d \in Clients : d # c => req'[d] = req[d]
  BY DEF TypeOK, Goto
<1>1. ListQueued'
  BY DEF AccountInv, ListQueued
<1>2. \A k \in InFlightKeys : \/ k \in InFlightKeys' \/ Referenced(k)' \/ k \in QueuedKeys'
  <2> TAKE k \in InFlightKeys
  <2>0. PICK d \in Clients : Holding(d) /\ k = req[d].key
    BY DEF InFlightKeys, Holding
  <2>1. CASE d = c
    BY <1>0, <2>0, <2>1 DEF InFlightKeys, Holding
  <2>2. CASE d # c
    BY <1>0, <2>0, <2>2 DEF InFlightKeys, Holding
  <2> QED
    BY <2>1, <2>2
<1>3. \A k : Referenced(k) => Referenced(k)'
  BY DEF Referenced
<1>4. \A k \in StoredKeys' : Accounted(k)'
  <2> TAKE k \in StoredKeys'
  <2>1. CASE k \in StoredKeys
    <3>1. Accounted(k)
      BY <2>1, AccountedOf DEF AccountInv
    <3> QED
      BY <1>2, <1>3, <3>1 DEF Accounted
  <2>2. CASE Holding(c)' /\ k = r.key
    BY <1>0, <2>2 DEF Accounted, InFlightKeys, Holding
  <2> QED
    BY <2>1, <2>2
<1>5. UploadsAccounted'
  BY <1>4 DEF UploadsAccounted, Accounted, Referenced, StoredKeys
<1>6. DropSafe'
  <2> SUFFICES ASSUME cron.pc = "drop", cron.key \in StoredKeys'
               PROVE  /\ "db" \notin Faults
                      /\ \/ Referenced(cron.key)'
                         \/ \E d \in Clients : req'[d].pc = "create" /\ req'[d].key = cron.key
    BY DEF DropSafe
  <2>1. CASE cron.key \in StoredKeys
    <3>1. /\ "db" \notin Faults
          /\ \/ Referenced(cron.key)
             \/ \E d \in Clients : req[d].pc = "create" /\ req[d].key = cron.key
      BY <2>1 DEF AccountInv, DropSafe
    <3>2. CASE Referenced(cron.key)
      BY <1>3, <3>1, <3>2
    <3>3. ASSUME NEW d \in Clients, req[d].pc = "create", req[d].key = cron.key
          PROVE  \/ Referenced(cron.key)'
                 \/ \E e \in Clients : req'[e].pc = "create" /\ req'[e].key = cron.key
      <4>1. CASE d = c
        BY <3>1, <3>3, <4>1 DEF Referenced
      <4>2. CASE d # c
        BY <1>0, <3>3, <4>2
      <4> QED
        BY <4>1, <4>2
    <3> QED
      BY <3>1, <3>2, <3>3
  <2>2. CASE cron.key \notin StoredKeys
    <3>1. cron.key \in QueuedKeys
      BY DEF AccountInv, ListQueued
    <3> QED
      BY <1>0, <2>2, <3>1
  <2> QED
    BY <2>1, <2>2
<1> QED
  BY <1>1, <1>5, <1>6 DEF AccountInv

\* Steps that leave the requests and the objects alone.
LEMMA AccountElsewhere ==
    ASSUME AccountInv, FirstRow', ListQueued', UNCHANGED <<req, object>>,
           fileVersion \subseteq fileVersion', QueuedKeys \subseteq QueuedKeys',
           cron'.pc = "drop" => cron' = cron
    PROVE  AccountInv'
<1>1. \A k : Referenced(k) => Referenced(k)'
  BY DEF Referenced
<1>2. StoredKeys' = StoredKeys /\ InFlightKeys' = InFlightKeys
  BY DEF StoredKeys, InFlightKeys
<1>3. UploadsAccounted'
  <2>1. \A k \in StoredKeys' : Accounted(k)'
    <3> TAKE k \in StoredKeys'
    <3>1. Accounted(k)
      BY <1>2, AccountedOf DEF AccountInv
    <3> QED
      BY <1>1, <1>2, <3>1 DEF Accounted
  <2> QED
    BY <2>1 DEF UploadsAccounted, Accounted, Referenced, StoredKeys
<1>4. DropSafe'
  BY <1>1, <1>2 DEF AccountInv, DropSafe
<1> QED
  BY <1>3, <1>4 DEF AccountInv

LEMMA FirstRowStep == TypeInv /\ ReadInv /\ FirstRow /\ Next => FirstRow'
<1> SUFFICES ASSUME TypeInv, ReadInv, FirstRow, Next PROVE FirstRow'
  OBVIOUS
<1>0. /\ req \in [Clients -> Reqs] /\ file \in [Pages -> FileRows] /\ TypeOK
  BY DEF TypeInv, TypeOK
<1>1. CASE UNCHANGED <<file, fileVersion>>
  BY <1>1 DEF FirstRow, Referenced
<1>2. ASSUME NEW c \in Clients, req[c].pc = "create", InsertPage(req[c]),
             file[req[c].page].status = "none"
      PROVE  FirstRow'
  <2> DEFINE new == [page |-> req[c].page, version |-> 1, key |-> req[c].key,
                     body |-> req[c].body]
  <2>1. /\ new \in fileVersion' /\ fileVersion \subseteq fileVersion'
        /\ new.key = FirstKey(req[c].page)
    BY <1>2 DEF InsertPage, ReadInv, KeysDrawn
  <2>2. \A p \in Pages : p # req[c].page => file'[p] = file[p]
    BY <1>0, <1>2 DEF InsertPage
  <2> HIDE DEF new
  <2> QED
    BY <2>1, <2>2 DEF FirstRow, Referenced
<1>3. ASSUME NEW c \in Clients, req[c].pc = "append", InsertVersion(req[c]),
             CanAdvance(file[req[c].page], req[c].head + 1)
      PROVE  FirstRow'
  <2>1. \A p \in Pages : file'[p].status = "none" <=> file[p].status = "none"
    BY <1>0, <1>3 DEF InsertVersion, AdvanceHead, CanAdvance, FileRows
  <2>2. fileVersion \subseteq fileVersion'
    BY <1>3 DEF InsertVersion
  <2> QED
    BY <2>1, <2>2 DEF FirstRow, Referenced
<1>4. ASSUME NEW p \in Pages, PatchFile(p) \/ Expire(p)
      PROVE  FirstRow'
  <2>1. \A q \in Pages : file'[q].status = file[q].status
    <3>1. CASE PatchFile(p)
      BY <1>0, <3>1 DEF PatchFile, SetSharedVersion, FileRows, Live
    <3>2. CASE Expire(p)
      BY <1>0, <3>2 DEF Expire, FileRows
    <3> QED
      BY <1>4, <3>1, <3>2
  <2>2. fileVersion' = fileVersion
    BY <1>4 DEF PatchFile, Expire
  <2> QED
    BY <2>1, <2>2 DEF FirstRow, Referenced
<1>5. ASSUME NEW p \in Pages, file' = [file EXCEPT ![p] = MarkDeleted(@)],
             fileVersion' = fileVersion
      PROVE  FirstRow'
  <2>1. \A q \in Pages : file'[q].status = "none" <=> file[q].status = "none"
    BY <1>0, <1>5 DEF MarkDeleted, FileRows
  <2> QED
    BY <1>5, <2>1 DEF FirstRow, Referenced
<1> QED
  BY <1>0, <1>1, <1>2, <1>3, <1>4, <1>5, RowSteps

LEMMA AccountPut ==
    ASSUME UploadsSettle, NEW c \in Clients, NEW k \in Keys, NEW b \in Bodies, NEW r,
           PutObject(c, k, b, r)
    PROVE  /\ Goto(c, r) \/ Goto(c, IdleReq)
           /\ \A x \in StoredKeys' : x \in StoredKeys \/ (x = k /\ Goto(c, r))
  BY DEF PutObject, Put, StoredKeys, UploadsSettle

LEMMA AccountGenerate ==
    ASSUME UploadsSettle, TypeOK, AccountInv, FirstRow', NEW c \in Clients,
           req[c].pc \in {"idle", "new"}, NEW b \in Bodies, NEW n \in 1..MaxAttempts,
           GenerateAndPut(c, b, n)
    PROVE  AccountInv'
<1>1. PICK p \in Pages :
          /\ FirstKey(p) \in UsedKeys => "collision" \in Faults
          /\ PutObject(c, FirstKey(p), b,
                       [Attempt("create", p, b, n) EXCEPT !.key = FirstKey(p)])
          /\ UNCHANGED <<file, fileVersion, pending, view, render, cron>>
  BY DEF GenerateAndPut
<1>2. PICK old, r : old = req[c] /\ r = [Attempt("create", p, b, n) EXCEPT !.key = FirstKey(p)]
  OBVIOUS
<1>3. /\ r.pc = "create" /\ r.key = FirstKey(p) /\ IdleReq.pc = "idle"
      /\ req \in [Clients -> Reqs]
  BY <1>2, AttemptType, IdleReqType DEF Reqs, ReqPCs, TypeOK
<1>4. /\ Goto(c, r) \/ Goto(c, IdleReq)
      /\ \A k \in StoredKeys' : k \in StoredKeys \/ (k = FirstKey(p) /\ Goto(c, r))
  BY <1>1, <1>2, AccountPut, FirstKeyType
<1>5. QueuedKeys' = QueuedKeys
  BY <1>1 DEF QueuedKeys
<1>6. FirstKey(p) \in QueuedKeys => "db" \notin Faults
  BY <1>1 DEF UsedKeys, UploadsSettle
<1>7. CASE Goto(c, r)
  <2>1. Holding(c)'
    BY <1>3, <1>7 DEF Goto, Holding
  <2>2. \A k \in StoredKeys' :
            /\ k \in StoredKeys \/ (Holding(c)' /\ k = r.key)
            /\ k \in StoredKeys \/ k \notin QueuedKeys \/ (r.pc = "create" /\ "db" \notin Faults)
    BY <1>3, <1>4, <1>6, <2>1
  <2> QED
    BY <1>1, <1>2, <1>5, <1>7, <2>2, AccountRequest DEF Holding
<1>8. CASE Goto(c, IdleReq) /\ ~Goto(c, r)
  <2>1. \A k \in StoredKeys' : k \in StoredKeys
    BY <1>4, <1>8
  <2> QED
    BY <1>1, <1>2, <1>5, <1>8, <2>1, AccountRequest DEF Holding
<1> QED
  BY <1>4, <1>7, <1>8

\* Steps of a request that lets go of nothing and puts nothing.
LEMMA AccountQuiet ==
    ASSUME TypeOK, AccountInv, FirstRow', NEW c \in Clients, ~Holding(c), NEW r, Goto(c, r),
           UNCHANGED <<fileVersion, object, cron>>, QueuedKeys \subseteq QueuedKeys'
    PROVE  AccountInv'
<1>1. PICK old : old = req[c]
  OBVIOUS
<1>2. StoredKeys' = StoredKeys
  BY DEF StoredKeys
<1>3. old.pc # "create"
  BY <1>1 DEF Holding
<1> QED
  BY <1>1, <1>2, <1>3, AccountRequest

LEMMA AccountSubmit ==
    ASSUME UploadsSettle, TypeOK, AccountInv, FirstRow', NEW c \in Clients, Submit(c)
    PROVE  AccountInv'
<1>1. CASE Publish(c)
  <2>1. 1 \in 1..MaxAttempts
    BY BoundsAssumption
  <2> QED
    BY <1>1, <2>1, AccountGenerate DEF Publish
<1>2. CASE Republish(c) \/ RestoreVersion(c) \/ DeleteFile(c)
  <2>1. /\ ~Holding(c) /\ UNCHANGED <<fileVersion, object, pending, cron>>
        /\ \E r : Goto(c, r)
    BY <1>2 DEF Republish, RestoreVersion, DeleteFile, AppendTo, Holding
  <2>2. QueuedKeys' = QueuedKeys
    BY <2>1 DEF QueuedKeys
  <2> QED
    BY <2>1, <2>2, AccountQuiet
<1> QED
  BY <1>1, <1>2 DEF Submit

LEMMA AccountProceed ==
    ASSUME UploadsSettle, TypeOK, ReadInv, AccountInv, FirstRow', NEW c \in Clients, Proceed(c)
    PROVE  AccountInv'
<1>1. PICK old \in Reqs : old = req[c]
  BY DEF TypeOK
<1>2. /\ old.body \in Bodies /\ old.page \in Pages /\ old.attempt \in 1..MaxAttempts
      /\ req \in [Clients -> Reqs] /\ IdleReq.pc = "idle"
  BY IdleReqType DEF Reqs, TypeOK
<1>3. CASE RetryPublish(c)
  BY <1>1, <1>2, <1>3, AccountGenerate DEF RetryPublish
<1>4. CASE CommitPage(c) \/ CommitVersion(c)
  <2>1. /\ UNCHANGED <<object, pending, cron>> /\ fileVersion \subseteq fileVersion'
        /\ old.pc \in {"create", "append"}
    BY <1>1, <1>4 DEF CommitPage, CommitVersion, InsertPage, InsertVersion
  <2>2. QueuedKeys' = QueuedKeys /\ StoredKeys' = StoredKeys
    BY <2>1 DEF QueuedKeys, StoredKeys
  <2>3. ASSUME Goto(c, IdleReq), Referenced(old.key)'
        PROVE  AccountInv'
    BY <1>1, <2>1, <2>2, <2>3, AccountRequest
  <2>4. ASSUME NEW reason \in Reasons, Goto(c, Orphaned(old, reason)),
               old.pc = "create" => Referenced(old.key)' \/ "db" \in Faults
        PROVE  AccountInv'
    <3>1. PICK r : r = Orphaned(old, reason) /\ r.pc = "orphan" /\ r.key = old.key
      BY OrphanedType
    <3>2. Goto(c, r)
      BY <2>4, <3>1
    <3>3. Holding(c)'
      BY <1>2, <3>1, <3>2 DEF Goto, Holding
    <3> QED
      BY <1>1, <2>1, <2>2, <2>4, <3>1, <3>2, <3>3, AccountRequest
  <2>5. (\/ InsertPage(old) \/ InsertVersion(old)) => Referenced(old.key)'
    <3>1. ASSUME NEW new, new \in fileVersion', new.key = old.key PROVE Referenced(old.key)'
      BY <3>1 DEF Referenced
    <3>2. CASE InsertPage(old)
      <4> DEFINE new == [page |-> old.page, version |-> 1, key |-> old.key, body |-> old.body]
      <4>1. new \in fileVersion' /\ new.key = old.key
        BY <3>2 DEF InsertPage
      <4> QED
        BY <3>1, <4>1
    <3>3. CASE InsertVersion(old)
      <4> DEFINE new == [page |-> old.page, version |-> old.head + 1, key |-> old.key,
                         body |-> old.body]
      <4>1. new \in fileVersion' /\ new.key = old.key
        BY <3>3 DEF InsertVersion
      <4> QED
        BY <3>1, <4>1
    <3> QED
      BY <3>2, <3>3
  <2>6. CASE CommitPage(c)
    <3>1. old.pc = "create" /\ old.key = FirstKey(old.page)
      BY <1>1, <2>6 DEF CommitPage, ReadInv, KeysDrawn
    <3>2. file[old.page].status # "none" => Referenced(old.key)'
      <4>1. file[old.page].status # "none" => Referenced(FirstKey(old.page))
        BY <1>2 DEF AccountInv, FirstRow
      <4> QED
        BY <2>1, <3>1, <4>1 DEF Referenced
    <3>3. \/ InsertPage(old) /\ Goto(c, IdleReq)
          \/ InsertPage(old) /\ Goto(c, Orphaned(old, "publish_rollback"))
          \/ file[old.page].status # "none" /\ Goto(c, Orphaned(old, "nanoid_conflict"))
          \/ "db" \in Faults /\ Goto(c, Orphaned(old, "publish_rollback"))
      BY <1>1, <2>6 DEF CommitPage
    <3> QED
      BY <2>3, <2>4, <2>5, <3>2, <3>3 DEF Reasons
  <2>7. CASE CommitVersion(c)
    <3>1. old.pc = "append"
      BY <1>1, <2>7 DEF CommitVersion
    <3>2. \/ InsertVersion(old) /\ Goto(c, IdleReq)
          \/ Goto(c, Orphaned(old, "publish_rollback"))
          \/ Goto(c, Orphaned(old, "version_conflict"))
      BY <1>1, <2>7 DEF CommitVersion
    <3> QED
      BY <2>3, <2>4, <2>5, <3>1, <3>2 DEF Reasons
  <2> QED
    BY <1>4, <2>6, <2>7
<1>5. CASE EnqueueOrphan(c)
  <2>1. PICK r : Goto(c, r)
    BY <1>5 DEF EnqueueOrphan
  <2>2. /\ UNCHANGED <<fileVersion, object, cron>> /\ old.pc = "orphan"
        /\ pending' = Enqueue({old.key}, old.reason)
    BY <1>1, <1>5 DEF EnqueueOrphan, UploadsSettle
  <2>3. QueuedKeys' = QueuedKeys \cup {old.key}
    BY <2>2, EnqueueKeys DEF QueuedKeys
  <2>4. StoredKeys' = StoredKeys
    BY <2>2 DEF StoredKeys
  <2> QED
    BY <1>1, <2>1, <2>2, <2>3, <2>4, AccountRequest
<1>6. CASE ReadHead(c)
  <2>1. /\ ~Holding(c) /\ UNCHANGED <<fileVersion, object, pending, cron>>
        /\ \E r : Goto(c, r)
    BY <1>6 DEF ReadHead, AppendTo, Holding
  <2>2. QueuedKeys' = QueuedKeys
    BY <2>1 DEF QueuedKeys
  <2> QED
    BY <2>1, <2>2, AccountQuiet
<1>7. CASE UploadVersion(c)
  <2>0. /\ ~Holding(c) /\ old.pc = "upload" /\ UNCHANGED <<fileVersion, pending, cron>>
    BY <1>1, <1>7 DEF UploadVersion, Holding
  <2>1. QueuedKeys' = QueuedKeys
    BY <2>0 DEF QueuedKeys
  <2>2. CASE FreshKeys(old.page, old.head + 1) = {}
    <3>1. Goto(c, IdleReq) /\ object' = object
      BY <1>1, <1>7, <2>2 DEF UploadVersion
    <3> QED
      BY <2>0, <2>1, <3>1, AccountQuiet
  <2>3. CASE FreshKeys(old.page, old.head + 1) # {}
    <3>1. PICK k \in FreshKeys(old.page, old.head + 1) :
              PutObject(c, k, old.body, [old EXCEPT !.pc = "append", !.key = k])
      BY <1>1, <1>7, <2>3 DEF UploadVersion
    <3>2. k \in Keys /\ k \notin QueuedKeys
      BY DEF FreshKeys, UsedKeys
    <3>3. PICK r : r = [old EXCEPT !.pc = "append", !.key = k] /\ r.pc = "append" /\ r.key = k
      <4>1. /\ [old EXCEPT !.pc = "append", !.key = k].pc = "append"
            /\ [old EXCEPT !.pc = "append", !.key = k].key = k
        BY <1>1 DEF Reqs
      <4> QED
        BY <4>1
    <3>4. /\ Goto(c, r) \/ Goto(c, IdleReq)
          /\ \A x \in StoredKeys' : x \in StoredKeys \/ (x = k /\ Goto(c, r))
      BY <1>2, <3>1, <3>2, <3>3, AccountPut
    <3>5. CASE Goto(c, r)
      <4>1. Holding(c)'
        BY <1>2, <3>3, <3>5 DEF Goto, Holding
      <4>2. \A x \in StoredKeys' : /\ x \in StoredKeys \/ (Holding(c)' /\ x = r.key)
                                   /\ x \in StoredKeys \/ x \notin QueuedKeys
        BY <3>2, <3>3, <3>4, <4>1
      <4> QED
        BY <1>1, <2>0, <2>1, <3>5, <4>2, AccountRequest
    <3>6. CASE Goto(c, IdleReq) /\ ~Goto(c, r)
      <4>1. \A x \in StoredKeys' : x \in StoredKeys
        BY <3>4, <3>6
      <4> QED
        BY <1>1, <2>0, <2>1, <3>6, <4>1, AccountRequest
    <3> QED
      BY <3>4, <3>5, <3>6
  <2> QED
    BY <2>2, <2>3
<1>8. CASE CommitDelete(c)
  <2>1. /\ ~Holding(c) /\ UNCHANGED <<fileVersion, object, cron>> /\ Goto(c, IdleReq)
        /\ pending' = pending \/ pending' = Enqueue(old.keys, "user_delete")
    BY <1>1, <1>8 DEF CommitDelete, RemovePage, Holding
  <2>2. QueuedKeys \subseteq QueuedKeys'
    <3>1. {q.key : q \in Enqueue(old.keys, "user_delete")} = QueuedKeys \cup old.keys
      BY EnqueueKeys
    <3>2. CASE pending' = Enqueue(old.keys, "user_delete")
      BY <3>1, <3>2 DEF QueuedKeys
    <3>3. CASE pending' = pending
      BY <3>3 DEF QueuedKeys
    <3> QED
      BY <2>1, <3>2, <3>3
  <2> QED
    BY <2>1, <2>2, AccountQuiet
<1> QED
  BY <1>3, <1>4, <1>5, <1>6, <1>7, <1>8 DEF Proceed

LEMMA AccountCleanup ==
    ASSUME UploadsSettle, TypeInv, AccountInv, FirstRow', CronStep
    PROVE  AccountInv'
<1>0. cron \in Crons /\ IdleCron.pc = "idle" /\ IdleCron.rows = {}
  BY IdleCronType DEF TypeInv, TypeOK
<1>1. CASE CommitExpired
  <2>1. /\ cron'.rows = {} /\ cron'.pc = "expire" /\ UNCHANGED <<fileVersion, object, req>>
    BY <1>0, <1>1, IdleCronType DEF CommitExpired, Crons
  <2>2. PICK keys : pending' = pending \/ pending' = Enqueue(keys, "expired")
    BY <1>1 DEF CommitExpired, RemovePage
  <2>3. QueuedKeys \subseteq QueuedKeys'
    <3>1. {q.key : q \in Enqueue(keys, "expired")} = QueuedKeys \cup keys
      BY EnqueueKeys
    <3>2. CASE pending' = Enqueue(keys, "expired")
      BY <3>1, <3>2 DEF QueuedKeys
    <3>3. CASE pending' = pending
      BY <3>3 DEF QueuedKeys
    <3> QED
      BY <2>2, <3>2, <3>3
  <2>4. ListQueued'
    BY <2>1 DEF ListQueued
  <2> QED
    BY <2>1, <2>3, <2>4, AccountElsewhere
<1>2. CASE StartRound \/ EndRound
  <2>1. /\ cron'.rows = {} /\ cron'.pc \in {"idle", "expire"}
        /\ UNCHANGED <<fileVersion, object, pending, req>>
    BY <1>0, <1>2, IdleCronType DEF StartRound, EndRound, Crons
  <2>2. QueuedKeys' = QueuedKeys /\ ListQueued'
    BY <2>1 DEF ListQueued, QueuedKeys
  <2> QED
    BY <2>1, <2>2, AccountElsewhere
<1>3. ASSUME NEW p \in Pages, ReadExpired(p) PROVE AccountInv'
  <2>1. /\ cron'.rows = cron.rows /\ cron'.pc = "expiring"
        /\ UNCHANGED <<fileVersion, object, pending, req>>
    BY <1>0, <1>3 DEF ReadExpired, Crons
  <2>2. QueuedKeys' = QueuedKeys /\ ListQueued'
    BY <2>1 DEF AccountInv, ListQueued, QueuedKeys
  <2> QED
    BY <2>1, <2>2, AccountElsewhere
<1>4. CASE ListPending
  <2>1. PICK rows : rows = {q.key : q \in Reclaimable}
    OBVIOUS
  <2>2. /\ cron'.rows = rows /\ cron'.pc = "drain"
        /\ UNCHANGED <<fileVersion, object, pending, req>>
    BY <1>0, <1>4, <2>1, IdleCronType DEF ListPending, Crons
  <2>3. rows \subseteq QueuedKeys
    BY <2>1 DEF Reclaimable, QueuedKeys
  <2>4. QueuedKeys' = QueuedKeys /\ ListQueued'
    BY <2>2, <2>3 DEF ListQueued, QueuedKeys
  <2> QED
    BY <2>2, <2>4, AccountElsewhere
<1>5. ASSUME NEW k \in cron.rows, DeleteObject(k) PROVE AccountInv'
  <2>1. /\ k \in QueuedKeys /\ cron'.rows = cron.rows \ {k}
        /\ cron'.pc \in {"drain", "drop"} /\ UNCHANGED <<fileVersion, req>>
        /\ \/ cron'.pc = "drop" /\ cron'.key = k /\ pending' = pending
              /\ object' = {o \in object : o.key # k}
           \/ /\ cron'.pc = "drain" /\ object' = object
              /\ pending' = IncrRetry(k) \/ pending' = pending
    BY <1>0, <1>5 DEF DeleteObject, Crons, AccountInv, ListQueued
  <2>2. QueuedKeys \subseteq QueuedKeys'
    <3>1. CASE pending' = pending
      BY <3>1 DEF QueuedKeys
    <3>2. CASE pending' = IncrRetry(k)
      <4> SUFFICES ASSUME NEW x \in pending PROVE \E q \in pending' : q.key = x.key
        BY DEF QueuedKeys
      <4>1. CASE x.key = k
        <5>1. [x EXCEPT !.retries = @ + 1].key = x.key
          BY DEF TypeInv, TypeOK, QueueRows
        <5>2. [x EXCEPT !.retries = @ + 1] \in pending'
          BY <3>2, <4>1 DEF IncrRetry
        <5> QED
          BY <5>1, <5>2
      <4>2. CASE x.key # k
        BY <3>2, <4>2 DEF IncrRetry
      <4> QED
        BY <4>1, <4>2
    <3> QED
      BY <2>1, <3>1, <3>2
  <2>3. ListQueued'
    BY <2>1, <2>2 DEF AccountInv, ListQueued
  <2>4. CASE cron'.pc = "drain" /\ object' = object
    BY <2>1, <2>2, <2>3, <2>4, AccountElsewhere
  <2>5. CASE cron'.pc = "drop" /\ cron'.key = k /\ object' = {o \in object : o.key # k}
    <3>1. StoredKeys' \subseteq StoredKeys /\ k \notin StoredKeys'
      BY <2>5 DEF StoredKeys
    <3>2. DropSafe'
      BY <2>5, <3>1 DEF DropSafe
    <3>3. InFlightKeys' = InFlightKeys /\ \A x : Referenced(x) => Referenced(x)'
      BY <2>1 DEF InFlightKeys, Referenced
    <3>4. \A x \in StoredKeys' : Accounted(x)'
      <4> TAKE x \in StoredKeys'
      <4>1. Accounted(x)
        BY <3>1, AccountedOf DEF AccountInv
      <4> QED
        BY <2>2, <3>3, <4>1 DEF Accounted
    <3>5. UploadsAccounted'
      BY <3>4 DEF UploadsAccounted, Accounted, Referenced, StoredKeys
    <3> QED
      BY <2>3, <3>2, <3>5 DEF AccountInv
  <2> QED
    BY <2>1, <2>4, <2>5
<1>6. CASE DropRow
  <2>1. /\ cron'.pc = "drain" /\ cron'.rows = cron.rows
        /\ UNCHANGED <<fileVersion, object, req>> /\ cron.pc = "drop"
        /\ pending' = {q \in pending : q.key # cron.key}
    BY <1>0, <1>6, IdleCronType DEF DropRow, Crons, UploadsSettle
  <2>2. QueuedKeys' = QueuedKeys \ {cron.key}
    BY <2>1 DEF QueuedKeys
  <2>3. ListQueued'
    BY <2>1, <2>2 DEF AccountInv, ListQueued
  <2>4. DropSafe'
    BY <2>1 DEF DropSafe
  <2>5. /\ InFlightKeys' = InFlightKeys /\ StoredKeys' = StoredKeys
        /\ \A x : Referenced(x) => Referenced(x)'
    BY <2>1 DEF InFlightKeys, Referenced, StoredKeys
  <2>6. \A x \in StoredKeys' : Accounted(x)'
    <3> TAKE x \in StoredKeys'
    <3>1. Accounted(x)
      BY <2>5, AccountedOf DEF AccountInv
    <3>2. CASE x # cron.key
      BY <2>2, <2>5, <3>1, <3>2 DEF Accounted
    <3>3. CASE x = cron.key
      <4>1. Referenced(x) \/ x \in InFlightKeys
        BY <2>1, <2>5, <3>3 DEF AccountInv, DropSafe, InFlightKeys
      <4> QED
        BY <2>5, <4>1 DEF Accounted
    <3> QED
      BY <3>2, <3>3
  <2>7. UploadsAccounted'
    BY <2>6 DEF UploadsAccounted, Accounted, Referenced, StoredKeys
  <2> QED
    BY <2>3, <2>4, <2>7 DEF AccountInv
<1> QED
  BY <1>1, <1>2, <1>3, <1>4, <1>5, <1>6 DEF CronStep

LEMMA AccountStep ==
    UploadsSettle /\ TypeInv /\ ReadInv /\ AccountInv /\ [Next]_vars => AccountInv'
<1> SUFFICES ASSUME UploadsSettle, TypeInv, ReadInv, AccountInv, [Next]_vars
             PROVE  AccountInv'
  OBVIOUS
<1>1. CASE UNCHANGED vars
  BY <1>1 DEF vars, AccountInv, UploadsAccounted, FirstRow, ListQueued, DropSafe, Referenced,
       StoredKeys, QueuedKeys, InFlightKeys
<1>2. CASE Next
  <2>0. TypeOK /\ FirstRow'
    BY <1>2, FirstRowStep DEF TypeInv, AccountInv
  <2>1. ASSUME NEW c \in Clients, Submit(c) \/ Proceed(c)
        PROVE  AccountInv'
    BY <2>0, <2>1, AccountSubmit, AccountProceed
  <2>2. ASSUME NEW c \in Clients, CrashRequest(c) PROVE FALSE
    BY <2>2 DEF CrashRequest, UploadsSettle
  <2>3. CASE CronStep
    BY <2>0, <2>3, AccountCleanup
  <2>4. CASE CrashCron
    BY <2>4 DEF CrashCron, UploadsSettle
  <2>5. ASSUME UNCHANGED <<req, object, fileVersion, cron>>, QueuedKeys' = QueuedKeys
        PROVE  AccountInv'
    <3>1. ListQueued'
      BY <2>5 DEF AccountInv, ListQueued
    <3> QED
      BY <2>0, <2>5, <3>1, AccountElsewhere
  <2>6. ASSUME NEW p \in Pages, PatchFile(p) \/ Expire(p) PROVE AccountInv'
    <3>1. UNCHANGED <<req, object, fileVersion, cron, pending>>
      BY <2>6 DEF PatchFile, Expire
    <3>2. QueuedKeys' = QueuedKeys
      BY <3>1 DEF QueuedKeys
    <3> QED
      BY <2>5, <3>1, <3>2
  <2>7. ASSUME NEW v \in Viewers, RenderStep(v) PROVE AccountInv'
    <3>1. UNCHANGED <<req, object, fileVersion, cron, pending>>
      BY <2>7 DEF RenderStep, Render, FetchObject, CheckView, CountView
    <3>2. QueuedKeys' = QueuedKeys
      BY <3>1 DEF QueuedKeys
    <3> QED
      BY <2>5, <3>1, <3>2
  <2>8. ASSUME NEW q \in pending, PassRetention(q) PROVE AccountInv'
    <3>1. [q EXCEPT !.aged = TRUE].key = q.key
      BY DEF TypeInv, TypeOK, QueueRows
    <3>2. QueuedKeys' = QueuedKeys
      BY <2>8, <3>1 DEF PassRetention, QueuedKeys
    <3>3. UNCHANGED <<req, object, fileVersion, cron>>
      BY <2>8 DEF PassRetention
    <3> QED
      BY <2>5, <3>2, <3>3
  <2> QED
    BY <1>2, <2>1, <2>2, <2>3, <2>4, <2>6, <2>7, <2>8 DEF Next
<1> QED
  BY <1>1, <1>2

\* Unless it meets one of those faults, publish.go never forgets an object it
\* has uploaded: a version names it, the queue does, or the request still holds it.
THEOREM UploadsTraced == ASSUME UploadsSettle PROVE Spec => []UploadsAccounted
<1>1. Init => AccountInv
  <2> SUFFICES ASSUME Init PROVE AccountInv
    OBVIOUS
  <2>1. /\ \A p \in Pages : file[p].status = "none"
        /\ object = {} /\ cron.pc = "idle" /\ cron.rows = {}
    BY IdleCronType DEF Init, NoFile
  <2> QED
    BY <2>1 DEF AccountInv, UploadsAccounted, FirstRow, ListQueued, DropSafe, StoredKeys
<1>2. UploadsSettle /\ TypeInv /\ ReadInv /\ AccountInv /\ [Next]_vars => AccountInv'
  BY AccountStep
<1>3. AccountInv => UploadsAccounted
  BY DEF AccountInv
<1> QED
  BY <1>1, <1>2, <1>3, TypeInvariant, ReadInvariance, PTL DEF Spec
=============================================================================
