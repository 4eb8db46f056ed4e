----------------------------- MODULE DeviceFlow -----------------------------
(***************************************************************************)
(* The device login of the CLI.  An unauthenticated request opens a flow   *)
(* (a device code for the CLI, a user code for a person); a signed-in      *)
(* person submits the confirmation form and approves it; the CLI polls and *)
(* redeems an approved flow for a token.                                   *)
(*                                                                         *)
(* Two stores implement the flow: SQL, whose writes are conditional        *)
(* statements on a row, and Redis, which reads a record, and writes the    *)
(* whole of it back.  A behaviour runs on one of them.  Every statement or *)
(* command is an action, so requests interleave between them.              *)
(***************************************************************************)
EXTENDS Naturals, Sequences, FiniteSets

CONSTANTS
    Flows,          \* device codes, none drawn twice
    UserCodes,
    Sessions,       \* signed-in browsers
    Lifetimes,      \* deviceTokenTTLOptions
    Forms,          \* challenge tokens of the confirmation page
    Creators,       \* POST /auth/device/code in flight at once
    Approvers,      \* POST /auth/device/approve in flight at once
    Pollers,        \* POST /auth/device/token in flight at once
    Backends,       \* the stores a behaviour may run on
    MaxOutstanding,
    MaxCrashes,     \* bound: requests that die or meet a failing store
    MaxReports,     \* bound: approvals of one flow
    NoFlow, NoForm, NoGrant

ASSUME BackendsAssumption == Backends \subseteq {"sql", "redis"}
ASSUME LimitsAssumption ==
    MaxOutstanding \in Nat \ {0} /\ MaxCrashes \in Nat /\ MaxReports \in Nat \ {0}
ASSUME AbsentAssumption == NoFlow \notin Flows /\ NoForm \notin Forms
ASSUME NonEmptyAssumption == UserCodes # {} /\ Sessions # {}
ASSUME CreatorsAssumption == IsFiniteSet(Creators)

VARIABLES
    backend,
    flow,           \* the record of each device code
    index,          \* Redis: the user-code keys
    backlog,        \* Redis: the sorted set of outstanding flows
    gate,           \* flows polled less than PollInterval ago
    lapsed,         \* flows whose 180 seconds are over
    issued,         \* flows whose codes were handed to a CLI
    challenge,      \* the form a session's next submission must carry
    create, approve, poll,      \* the requests
    approvals,      \* what Approve reported as done, per flow, in order
    tokens,         \* the access tokens issued, per flow, in order
    crashes

vars == <<backend, flow, index, backlog, gate, lapsed, issued, challenge,
          create, approve, poll, approvals, tokens, crashes>>

-----------------------------------------------------------------------------
\* What an approver decides.
Grants == [by : Sessions, ttl : Lifetimes]

(***************************************************************************)
(* status  new       the device code has not been drawn                    *)
(*         pending, approved                                               *)
(*         redeemed  consumed by a poll                                    *)
(*         gone      expired from Redis, or purged from the table          *)
(***************************************************************************)
Records ==
    [status : {"new", "pending", "approved", "redeemed", "gone"},
     code : UserCodes, grant : Grants \cup {NoGrant}]

NewRecord ==
    [status |-> "new", code |-> CHOOSE u \in UserCodes : TRUE, grant |-> NoGrant]

Exists(d) == flow[d].status \in {"pending", "approved"}

\* The record a read returns: SQL filters on expires_at, Redis expires the key.
Alive(d) == Exists(d) /\ d \notin lapsed

\* Codes a new flow cannot take: the unique column, or the keys.
TakenCodes ==
    IF backend = "sql" THEN {flow[d].code : d \in {e \in Flows : Exists(e)}}
                       ELSE {u \in UserCodes : index[u] # NoFlow}

Drawn(d) ==
    \/ flow[d].status # "new"
    \/ \E u \in UserCodes : index[u] = d
    \/ \E c \in Creators : create[c].flow = d

\* Slip: nothing is counted.
NothingOutstanding == {}

\* What MaxOutstanding is compared with: live rows, or the pruned sorted set.
Outstanding ==
    {d \in Flows : Alive(d) /\ (backend = "sql" \/ d \in backlog)}

ByUserCode(u) ==
    {d \in Flows : Alive(d) /\ IF backend = "sql" THEN flow[d].code = u
                                                  ELSE index[u] = d}

\* Slip: the plain SET brings a record back.
SaveAlways(d, r) == [flow EXCEPT ![d] = r]

\* RedisStore.save: SET XX rewrites a record that still exists.
Save(d, r) == IF Exists(d) THEN [flow EXCEPT ![d] = r] ELSE flow

-----------------------------------------------------------------------------
(* Requests *)

Creates == [pc : {"idle", "mint", "store", "track"}, flow : Flows \cup {NoFlow},
            code : UserCodes]
Approves == [pc : {"idle", "burn", "lookup", "approve", "save"}, session : Sessions,
             form : Forms \cup {NoForm}, flow : Flows \cup {NoFlow}]
Polls == [pc : {"idle", "gate", "save", "read", "redeem", "issue"},
          flow : Flows \cup {NoFlow}, seen : Records]

IdleCreate == [pc |-> "idle", flow |-> NoFlow, code |-> NewRecord.code]
IdleApprove == [pc |-> "idle", session |-> CHOOSE s \in Sessions : TRUE,
                form |-> NoForm, flow |-> NoFlow]
IdlePoll == [pc |-> "idle", flow |-> NoFlow, seen |-> NewRecord]

CreateTo(c, r) == create' = [create EXCEPT ![c] = r]
ApproveTo(a, r) == approve' = [approve EXCEPT ![a] = r]
PollTo(p, r) == poll' = [poll EXCEPT ![p] = r]

Crash == crashes < MaxCrashes /\ crashes' = crashes + 1

-----------------------------------------------------------------------------
(* POST /auth/device/code *)

\* Create counts first.  The Redis script drops expired members as it counts.
CountFlows(c) ==
    /\ create[c].pc = "idle"
    /\ Cardinality(Outstanding) < MaxOutstanding
    /\ CreateTo(c, [IdleCreate EXCEPT !.pc = "mint"])
    /\ backlog' = {d \in backlog : Alive(d)}
    /\ UNCHANGED <<backend, flow, index, gate, lapsed, issued, challenge,
                   approve, poll, approvals, tokens, crashes>>

Pending(u) == [status |-> "pending", code |-> u, grant |-> NoGrant]

\* SQLStore.Create: one insert, which a taken code turns into nothing.
InsertFlow(c) ==
    /\ backend = "sql" /\ create[c].pc = "mint"
    /\ \E d \in Flows, u \in UserCodes \ TakenCodes :
           /\ ~Drawn(d)
           /\ flow' = [flow EXCEPT ![d] = Pending(u)]
           /\ issued' = issued \cup {d}
    /\ CreateTo(c, IdleCreate)
    /\ UNCHANGED <<backend, index, backlog, gate, lapsed, challenge,
                   approve, poll, approvals, tokens, crashes>>

\* Every one of the mintRetries codes drawn was taken.
RunOutOfCodes(c) ==
    /\ create[c].pc = "mint" /\ TakenCodes # {}
    /\ CreateTo(c, IdleCreate)
    /\ UNCHANGED <<backend, flow, index, backlog, gate, lapsed, issued, challenge,
                   approve, poll, approvals, tokens, crashes>>

\* RedisStore.Create: SETNX of the user code, SET of the record, ZADD.
ReserveCode(c) ==
    /\ backend = "redis" /\ create[c].pc = "mint"
    /\ \E d \in Flows, u \in UserCodes \ TakenCodes :
           /\ ~Drawn(d)
           /\ index' = [index EXCEPT ![u] = d]
           /\ CreateTo(c, [pc |-> "store", flow |-> d, code |-> u])
    /\ UNCHANGED <<backend, flow, backlog, gate, lapsed, issued, challenge,
                   approve, poll, approvals, tokens, crashes>>

StoreFlow(c) ==
    LET r == create[c] IN
    /\ r.pc = "store"
    /\ \/ /\ flow' = [flow EXCEPT ![r.flow] = Pending(r.code)]
          /\ CreateTo(c, [r EXCEPT !.pc = "track"])
          /\ UNCHANGED <<index, crashes>>
       \/ /\ Crash     \* the SET fails, and the code is given back
          /\ index' = [index EXCEPT ![r.code] = NoFlow]
          /\ CreateTo(c, IdleCreate)
          /\ flow' = flow
    /\ UNCHANGED <<backend, backlog, gate, lapsed, issued, challenge,
                   approve, poll, approvals, tokens>>

TrackFlow(c) ==
    /\ create[c].pc = "track"
    /\ backlog' = backlog \cup {create[c].flow}
    /\ issued' = issued \cup {create[c].flow}
    /\ CreateTo(c, IdleCreate)
    /\ UNCHANGED <<backend, flow, index, gate, lapsed, challenge,
                   approve, poll, approvals, tokens, crashes>>

CrashCreate(c) ==
    /\ create[c].pc # "idle" /\ Crash
    /\ CreateTo(c, IdleCreate)
    /\ UNCHANGED <<backend, flow, index, backlog, gate, lapsed, issued, challenge,
                   approve, poll, approvals, tokens>>

-----------------------------------------------------------------------------
(* GET /auth/device and POST /auth/device/approve *)

\* idgen.Generate: a form no page in use carries.
FreshForms ==
    Forms \ ({challenge[s] : s \in Sessions} \cup {approve[a].form : a \in Approvers})

\* renderDeviceConfirm: every page shown replaces the session's challenge.
PutChallenge(s) == \E f \in FreshForms : challenge' = [challenge EXCEPT ![s] = f]

DevicePage(s) ==
    /\ PutChallenge(s)
    /\ UNCHANGED <<backend, flow, index, backlog, gate, lapsed, issued,
                   create, approve, poll, approvals, tokens, crashes>>

\* ConsumeChallenge reads the session's challenge: a form that does not carry it
\* is refused, and the one read is compared here.
ReadChallenge(a) ==
    /\ approve[a].pc = "idle"
    /\ \E s \in Sessions :
           /\ challenge[s] # NoForm
           /\ ApproveTo(a, [pc |-> "burn", session |-> s, form |-> challenge[s],
                            flow |-> NoFlow])
    /\ UNCHANGED <<backend, flow, index, backlog, gate, lapsed, issued, challenge,
                   create, poll, approvals, tokens, crashes>>

\* Then it deletes it, whatever the session's challenge is by now and whether
\* or not there still is one.
BurnChallenge(a) ==
    /\ approve[a].pc = "burn"
    /\ challenge' = [challenge EXCEPT ![approve[a].session] = NoForm]
    /\ ApproveTo(a, [approve[a] EXCEPT !.pc = "lookup", !.form = NoForm])
    /\ UNCHANGED <<backend, flow, index, backlog, gate, lapsed, issued,
                   create, poll, approvals, tokens, crashes>>

\* A form that is refused is shown again, with a challenge of its own.
ShowAgain(a) ==
    /\ PutChallenge(approve[a].session)
    /\ ApproveTo(a, IdleApprove)

\* The user code as typed: it names a flow, or (as an unknown lifetime) the form
\* is shown again.
LookUpCode(a) ==
    /\ approve[a].pc = "lookup"
    /\ \/ \E u \in UserCodes : \E d \in ByUserCode(u) :
              /\ ApproveTo(a, [approve[a] EXCEPT !.pc = "approve", !.flow = d])
              /\ challenge' = challenge
       \/ ShowAgain(a)
    /\ UNCHANGED <<backend, flow, index, backlog, gate, lapsed, issued,
                   create, poll, approvals, tokens, crashes>>

Approved(r, g) == [r EXCEPT !.status = "approved", !.grant = g]

Report(d, g) ==
    /\ Len(approvals[d]) < MaxReports
    /\ approvals' = [approvals EXCEPT ![d] = Append(@, g)]

\* Slip: an approval does not ask whether there was one.
ApprovableTwice(d) == Alive(d)

Approvable(d) == Alive(d) /\ flow[d].status = "pending"

\* SQLStore.Approve: one conditional UPDATE.  A miss reads once more: it
\* answers a conflict if the row is there, approved, and else (it may have been
\* redeemed since) shows the form again.
ApproveSQL(a) ==
    LET d == approve[a].flow IN
    /\ backend = "sql" /\ approve[a].pc = "approve"
    /\ \/ \E g \in Grants :
              /\ Approvable(d) /\ g.by = approve[a].session
              /\ flow' = [flow EXCEPT ![d] = Approved(@, g)]
              /\ Report(d, g)
              /\ ApproveTo(a, IdleApprove)
              /\ challenge' = challenge
       \/ /\ ~Approvable(d)
          /\ \/ Alive(d) /\ ApproveTo(a, IdleApprove) /\ challenge' = challenge
             \/ ShowAgain(a)
          /\ UNCHANGED <<flow, approvals>>
    /\ UNCHANGED <<backend, index, backlog, gate, lapsed, issued,
                   create, poll, tokens, crashes>>

\* RedisStore.Approve: a GET,
ApproveRead(a) ==
    LET d == approve[a].flow IN
    /\ backend = "redis" /\ approve[a].pc = "approve"
    /\ \/ /\ Approvable(d)
          /\ ApproveTo(a, [approve[a] EXCEPT !.pc = "save"])
          /\ challenge' = challenge
       \/ /\ Alive(d) /\ ~Approvable(d)
          /\ ApproveTo(a, IdleApprove)
          /\ challenge' = challenge
       \/ ~Alive(d) /\ ShowAgain(a)
    /\ UNCHANGED <<backend, flow, index, backlog, gate, lapsed, issued,
                   create, poll, approvals, tokens, crashes>>

\* and a save of what was read, now approved.
ApproveSave(a) ==
    LET d == approve[a].flow IN
    /\ approve[a].pc = "save"
    /\ \/ \E g \in Grants :
              /\ Exists(d) /\ g.by = approve[a].session
              /\ flow' = Save(d, Approved(Pending(flow[d].code), g))
              /\ Report(d, g)
              /\ ApproveTo(a, IdleApprove)
              /\ challenge' = challenge
       \/ /\ ~Exists(d)
          /\ ShowAgain(a)
          /\ UNCHANGED <<flow, approvals>>
    /\ UNCHANGED <<backend, index, backlog, gate, lapsed, issued,
                   create, poll, tokens, crashes>>

CrashApprove(a) ==
    /\ approve[a].pc # "idle" /\ Crash
    /\ ApproveTo(a, IdleApprove)
    /\ UNCHANGED <<backend, flow, index, backlog, gate, lapsed, issued, challenge,
                   create, poll, approvals, tokens>>

-----------------------------------------------------------------------------
(* POST /auth/device/token.  A CLI polls one flow, but asks again when an     *)
(* answer is lost, so two requests for a flow may be under way.               *)

\* Poll reads the record.  SQL also reads next_poll_at with it.
PollRead(p, d) ==
    /\ poll[p].pc = "idle"
    /\ d \in issued /\ Alive(d)
    /\ backend = "sql" => d \notin gate
    /\ PollTo(p, [pc |-> "gate", flow |-> d, seen |-> flow[d]])
    /\ UNCHANGED <<backend, flow, index, backlog, gate, lapsed, issued, challenge,
                   create, approve, approvals, tokens, crashes>>

\* Slip: a status that is compared with a word it never holds.
AnswerPending(p) == PollTo(p, IdlePoll)

\* What DeviceToken does after a Poll that was not too soon.
Answer(p) ==
    PollTo(p, IF poll[p].seen.status = "approved"
                THEN [poll[p] EXCEPT !.pc = "read"] ELSE IdlePoll)

\* SQLStore.Poll: next_poll_at moves, if the row is still alive.
CloseGateSQL(p) ==
    LET d == poll[p].flow IN
    /\ backend = "sql" /\ poll[p].pc = "gate"
    /\ IF Alive(d) THEN gate' = gate \cup {d} /\ Answer(p)
                   ELSE gate' = gate /\ PollTo(p, IdlePoll)
    /\ UNCHANGED <<backend, flow, index, backlog, lapsed, issued, challenge,
                   create, approve, approvals, tokens, crashes>>

\* RedisStore.Poll: SETNX of the gate; a gate that is there answers slow_down.
CloseGateRedis(p) ==
    LET d == poll[p].flow IN
    /\ backend = "redis" /\ poll[p].pc = "gate"
    /\ PollTo(p, IF d \in gate THEN IdlePoll ELSE [poll[p] EXCEPT !.pc = "save"])
    /\ gate' = gate \cup {d}
    /\ UNCHANGED <<backend, flow, index, backlog, lapsed, issued, challenge,
                   create, approve, approvals, tokens, crashes>>

\* Then the record that was read is saved.
PollSave(p) ==
    LET d == poll[p].flow IN
    /\ poll[p].pc = "save"
    /\ flow' = Save(d, poll[p].seen)
    /\ IF Exists(d) THEN Answer(p) ELSE PollTo(p, IdlePoll)
    /\ UNCHANGED <<backend, index, backlog, gate, lapsed, issued, challenge,
                   create, approve, approvals, tokens, crashes>>

\* Consume reads the record once more, and goes on if it is approved.
ConsumeRead(p) ==
    LET d == poll[p].flow IN
    /\ poll[p].pc = "read"
    /\ PollTo(p, IF Alive(d) /\ flow[d].status = "approved"
                   THEN [pc |-> "redeem", flow |-> d, seen |-> flow[d]]
                   ELSE IdlePoll)
    /\ UNCHANGED <<backend, flow, index, backlog, gate, lapsed, issued, challenge,
                   create, approve, approvals, tokens, crashes>>

\* What the delete of SQLStore.Consume matches.
Redeemable(d) == flow[d].status = "approved"

\* SQLStore.Consume: the conditional DELETE has one winner, which returns the
\* record it read before.
RedeemSQL(p) ==
    LET d == poll[p].flow IN
    /\ backend = "sql" /\ poll[p].pc = "redeem"
    /\ IF Redeemable(d)
         THEN /\ flow' = [flow EXCEPT ![d].status = "redeemed"]
              /\ PollTo(p, [poll[p] EXCEPT !.pc = "issue"])
         ELSE flow' = flow /\ PollTo(p, IdlePoll)
    /\ UNCHANGED <<backend, index, backlog, gate, lapsed, issued, challenge,
                   create, approve, approvals, tokens, crashes>>

\* RedisStore.Consume: a script gets and deletes whatever is there by now; the
\* keys that belong to it go with it.
RedeemRedis(p) ==
    LET d == poll[p].flow IN
    /\ backend = "redis" /\ poll[p].pc = "redeem"
    /\ IF Exists(d)
         THEN /\ flow' = [flow EXCEPT ![d].status = "redeemed"]
              /\ PollTo(p, [pc |-> "issue", flow |-> d, seen |-> flow[d]])
              /\ index' = [index EXCEPT ![flow[d].code] = NoFlow]
              /\ backlog' = backlog \ {d}
              /\ gate' = gate \ {d}
         ELSE /\ PollTo(p, IdlePoll)
              /\ UNCHANGED <<flow, index, backlog, gate>>
    /\ UNCHANGED <<backend, lapsed, issued, challenge,
                   create, approve, approvals, tokens, crashes>>

\* issueToken, for the approver and the lifetime of the consumed record.
IssueToken(p) ==
    /\ poll[p].pc = "issue"
    /\ tokens' = [tokens EXCEPT ![poll[p].flow] = Append(@, poll[p].seen.grant)]
    /\ PollTo(p, IdlePoll)
    /\ UNCHANGED <<backend, flow, index, backlog, gate, lapsed, issued, challenge,
                   create, approve, approvals, crashes>>

\* A request dies, or its token cannot be stored.
CrashPoll(p) ==
    /\ poll[p].pc # "idle" /\ Crash
    /\ PollTo(p, IdlePoll)
    /\ UNCHANGED <<backend, flow, index, backlog, gate, lapsed, issued, challenge,
                   create, approve, approvals, tokens>>

-----------------------------------------------------------------------------
(* Time *)

\* The 180 seconds of a flow are over; its Redis keys expire, the user code's,
\* which was set first, no later than the record's.
Lapse(d) ==
    /\ Alive(d)
    /\ backend = "redis" => \A u \in UserCodes : index[u] # d
    /\ lapsed' = lapsed \cup {d}
    /\ flow' = IF backend = "redis" THEN [flow EXCEPT ![d].status = "gone"] ELSE flow
    /\ UNCHANGED <<backend, index, backlog, gate, issued, challenge,
                   create, approve, poll, approvals, tokens, crashes>>

LapseCode(u) ==
    /\ index[u] # NoFlow
    /\ index' = [index EXCEPT ![u] = NoFlow]
    /\ UNCHANGED <<backend, flow, backlog, gate, lapsed, issued, challenge,
                   create, approve, poll, approvals, tokens, crashes>>

Purgeable(d) == Exists(d) /\ d \in lapsed

\* SQLStore.PurgeExpired, from the cron.
PurgeExpired ==
    /\ backend = "sql"
    /\ \E d \in Flows : Purgeable(d)
    /\ flow' = [d \in Flows |-> IF Purgeable(d) THEN [flow[d] EXCEPT !.status = "gone"]
                                               ELSE flow[d]]
    /\ UNCHANGED <<backend, index, backlog, gate, lapsed, issued, challenge,
                   create, approve, poll, approvals, tokens, crashes>>

\* PollInterval passes.
OpenGate(d) ==
    /\ d \in gate
    /\ gate' = gate \ {d}
    /\ UNCHANGED <<backend, flow, index, backlog, lapsed, issued, challenge,
                   create, approve, poll, approvals, tokens, crashes>>

LapseChallenge(s) ==
    /\ challenge[s] # NoForm
    /\ challenge' = [challenge EXCEPT ![s] = NoForm]
    /\ UNCHANGED <<backend, flow, index, backlog, gate, lapsed, issued,
                   create, approve, poll, approvals, tokens, crashes>>

-----------------------------------------------------------------------------
Init ==
    /\ backend \in Backends
    /\ flow = [d \in Flows |-> NewRecord]
    /\ index = [u \in UserCodes |-> NoFlow]
    /\ backlog = {} /\ gate = {} /\ lapsed = {} /\ issued = {}
    /\ challenge = [s \in Sessions |-> NoForm]
    /\ create = [c \in Creators |-> IdleCreate]
    /\ approve = [a \in Approvers |-> IdleApprove]
    /\ poll = [p \in Pollers |-> IdlePoll]
    /\ approvals = [d \in Flows |-> <<>>]
    /\ tokens = [d \in Flows |-> <<>>]
    /\ crashes = 0

CreateStep(c) ==
    \/ CountFlows(c) \/ InsertFlow(c) \/ RunOutOfCodes(c)
    \/ ReserveCode(c) \/ StoreFlow(c) \/ TrackFlow(c) \/ CrashCreate(c)

ApproveStep(a) ==
    \/ ReadChallenge(a) \/ BurnChallenge(a) \/ LookUpCode(a)
    \/ ApproveSQL(a) \/ ApproveRead(a) \/ ApproveSave(a) \/ CrashApprove(a)

\* What a poll under way does next.
PollStep(p) ==
    \/ CloseGateSQL(p) \/ CloseGateRedis(p) \/ PollSave(p)
    \/ ConsumeRead(p) \/ RedeemSQL(p) \/ RedeemRedis(p) \/ IssueToken(p)

PollFlow(d) == \E p \in Pollers : PollRead(p, d)

Next ==
    \/ \E c \in Creators : CreateStep(c)
    \/ \E a \in Approvers : ApproveStep(a)
    \/ \E p \in Pollers : PollStep(p) \/ CrashPoll(p)
    \/ \E d \in Flows : PollFlow(d) \/ Lapse(d) \/ OpenGate(d)
    \/ \E u \in UserCodes : LapseCode(u)
    \/ \E s \in Sessions : DevicePage(s) \/ LapseChallenge(s)
    \/ PurgeExpired

Spec == Init /\ [][Next]_vars

(***************************************************************************)
(* The CLI polls until its flow lapses, a request that does not die ends,  *)
(* and PollInterval passes.  Strong fairness of the polls of one flow only *)
(* says that the bound on concurrent requests starves no CLI.              *)
(***************************************************************************)
FairSpec ==
    /\ Spec
    /\ \A p \in Pollers : WF_vars(PollStep(p))
    /\ \A d \in Flows : SF_vars(PollFlow(d)) /\ WF_vars(OpenGate(d))

-----------------------------------------------------------------------------
(* Properties *)

TypeOK ==
    /\ backend \in Backends
    /\ flow \in [Flows -> Records]
    /\ index \in [UserCodes -> Flows \cup {NoFlow}]
    /\ backlog \subseteq Flows /\ gate \subseteq Flows
    /\ lapsed \subseteq Flows /\ issued \subseteq Flows
    /\ challenge \in [Sessions -> Forms \cup {NoForm}]
    /\ create \in [Creators -> Creates]
    /\ approve \in [Approvers -> Approves]
    /\ poll \in [Pollers -> Polls]
    /\ approvals \in [Flows -> Seq(Grants)]
    /\ tokens \in [Flows -> Seq(Grants \cup {NoGrant})]
    /\ crashes \in 0..MaxCrashes

\* device.go, DeviceToken: "two concurrent redemptions can never both mint a
\* PAT", on either store, however polls, saves and redemptions interleave.
OneTokenPerFlow == \A d \in Flows : Len(tokens[d]) <= 1

\* The cap on outstanding flows is checked before the flow is stored, so
\* concurrent requests exceed it, but by less than their number; on Redis a
\* request that dies before its ZADD leaves one more flow uncounted.
CapOvershootBounded ==
    Cardinality({d \in Flows : Alive(d)})
        <= MaxOutstanding + Cardinality(Creators) - 1 + crashes

\* devicecode.go, Store: "Approve is one-shot (a second approval of the same
\* code is ErrAlreadyApproved)".
ApproveIsOneShot == \A d \in Flows : Len(approvals[d]) <= 1

\* devicecode.go, Record: "the only writer is the authenticated approve handler", so
\* a token carries what an approver of its flow was told they granted; only Redis can
\* delete a flow that was set back, and then its token carries no grant at all.
TokensCarryGrants ==
    \A d \in Flows : tokens[d] # <<>> =>
        \/ \E i \in DOMAIN approvals[d] : tokens[d] = <<approvals[d][i]>>
        \/ backend = "redis" /\ tokens[d] = <<NoGrant>>

Admitted(a) == approve[a].pc = "burn" /\ approve'[a].pc = "lookup"

\* devicecode.go, ConsumeChallenge: "compares and one-shot-consumes the token", so
\* when a submission has used a challenge up, no other one is past its comparison
\* with the same challenge, where nothing stops it any more.
ChallengeIsSingleUse ==
    [][\A a, b \in Approvers :
           Admitted(a) /\ a # b =>
               ~(approve[b].pc = "burn" /\ approve[b].form = approve[a].form)]_vars

\* With the SQL store an approval is never lost: a CLI that goes on polling
\* redeems it, unless the flow's time is over first.
ApprovalHonoured ==
    \A d \in Flows :
        (backend = "sql" /\ approvals[d] # <<>>)
            ~> (flow[d].status = "redeemed" \/ d \in lapsed)

-----------------------------------------------------------------------------
(* A flow is a grant, on either store: nothing else of the interleavings shows. *)

PhaseOf(status) ==
    [new |-> "unused", pending |-> "open", approved |-> "granted",
     redeemed |-> "redeemed", gone |-> "lapsed"][status]

DG == INSTANCE DeviceGrant
          WITH oneShot <- backend = "sql",
               phase <- [d \in Flows |-> PhaseOf(flow[d].status)],
               held <- [d \in Flows |-> flow[d].grant],
               granted <- approvals, token <- tokens

\* With the SQL store a flow is granted once, redeemed once, and its token carries
\* what its one approver chose.  With Redis, where whole records are written back,
\* a flow may be granted again and set back, but it is redeemed once, and its one
\* token carries what some approver of this flow was told they granted, or nothing.
ImplementsDeviceGrant == DG!Spec
=============================================================================
