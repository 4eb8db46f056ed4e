-------------------------- MODULE DeviceFlowProofs --------------------------
(***************************************************************************)
(* Proofs about DeviceFlow, for every number of flows, codes, sessions and *)
(* requests, on either store.                                              *)
(***************************************************************************)
EXTENDS DeviceFlow, FiniteSetTheorems, TLAPS

LEMMA IdleTypes ==
    /\ NewRecord \in Records
    /\ IdleCreate \in Creates
    /\ IdleApprove \in Approves
    /\ IdlePoll \in Polls
BY NonEmptyAssumption
   DEF NewRecord, Records, IdleCreate, Creates, IdleApprove, Approves, IdlePoll, Polls

LEMMA PendingType == \A u \in UserCodes : Pending(u) \in Records
BY DEF Pending, Records

-----------------------------------------------------------------------------
(* Types, and that a request past its first step has a flow in hand. *)

HasFlow ==
    /\ \A c \in Creators : create[c].pc \in {"store", "track"} => create[c].flow \in Flows
    /\ \A a \in Approvers : approve[a].pc \in {"approve", "save"} => approve[a].flow \in Flows
    /\ \A p \in Pollers : poll[p].pc # "idle" => poll[p].flow \in Flows

TypeInv == TypeOK /\ HasFlow

LEMMA TypeInit == Init => TypeInv
<1> SUFFICES ASSUME Init PROVE TypeInv
  OBVIOUS
<1>1. TypeOK
  BY IdleTypes, LimitsAssumption DEF Init, TypeOK
<1>2. HasFlow
  BY DEF Init, HasFlow, IdleCreate, IdleApprove, IdlePoll
<1> QED BY <1>1, <1>2 DEF TypeInv

LEMMA CreateRecord ==
    ASSUME NEW r \in Creates, NEW pc \in {"idle", "mint", "store", "track"}
    PROVE  [r EXCEPT !.pc = pc] \in Creates
BY DEF Creates

LEMMA TypeCreate ==
    ASSUME TypeInv, NEW c \in Creators, CreateStep(c)
    PROVE  TypeOK'
<1> USE IdleTypes DEF TypeInv, TypeOK, CreateTo
<1>1. CASE CountFlows(c)
  BY <1>1 DEF CountFlows, Creates, IdleCreate
<1>2. CASE InsertFlow(c)
  BY <1>2, PendingType DEF InsertFlow
<1>3. CASE RunOutOfCodes(c)
  BY <1>3 DEF RunOutOfCodes
<1>4. CASE ReserveCode(c)
  BY <1>4 DEF ReserveCode, Creates
<1>5. CASE StoreFlow(c)
  <2>1. create[c].flow \in Flows /\ create[c].code \in UserCodes
    BY <1>5 DEF StoreFlow, Creates, HasFlow
  <2>2. create' \in [Creators -> Creates]
    <3>1. [create[c] EXCEPT !.pc = "track"] \in Creates
      BY CreateRecord
    <3>2. \E r \in Creates : create' = [create EXCEPT ![c] = r]
      BY <1>5, <3>1 DEF StoreFlow
    <3> QED BY <3>2
  <2>3. flow' \in [Flows -> Records] /\ index' \in [UserCodes -> Flows \cup {NoFlow}]
    BY <1>5, <2>1, PendingType DEF StoreFlow
  <2>4. crashes' \in 0..MaxCrashes
    BY <1>5, LimitsAssumption DEF StoreFlow, Crash
  <2> QED BY <1>5, <2>2, <2>3, <2>4 DEF StoreFlow
<1>6. CASE TrackFlow(c)
  BY <1>6 DEF TrackFlow, Creates, HasFlow
<1>7. CASE CrashCreate(c)
  BY <1>7, LimitsAssumption DEF CrashCreate, Crash
<1> QED BY <1>1, <1>2, <1>3, <1>4, <1>5, <1>6, <1>7 DEF CreateStep

LEMMA HasFlowCreate ==
    ASSUME TypeInv, NEW c \in Creators, CreateStep(c)
    PROVE  HasFlow'
<1>1. approve' = approve /\ poll' = poll /\ \E r : CreateTo(c, r)
  BY DEF CreateStep, CountFlows, InsertFlow, RunOutOfCodes, ReserveCode, StoreFlow,
         TrackFlow, CrashCreate
<1>2. create \in [Creators -> Creates] /\ HasFlow
  BY DEF TypeInv, TypeOK
<1>3. create'[c].pc \in {"store", "track"} => create'[c].flow \in Flows
  <2> USE <1>2 DEF CreateTo, IdleCreate, HasFlow
  <2>1. CASE CountFlows(c)
    BY <2>1 DEF CountFlows
  <2>2. CASE InsertFlow(c) \/ RunOutOfCodes(c) \/ TrackFlow(c) \/ CrashCreate(c)
    BY <2>2 DEF InsertFlow, RunOutOfCodes, TrackFlow, CrashCreate
  <2>3. CASE ReserveCode(c)
    BY <2>3 DEF ReserveCode
  <2>4. CASE StoreFlow(c)
    BY <2>4 DEF StoreFlow, Creates
  <2> QED BY <2>1, <2>2, <2>3, <2>4 DEF CreateStep
<1> QED BY <1>1, <1>2, <1>3 DEF HasFlow, CreateTo

LEMMA ApprovedType ==
    ASSUME NEW r \in Records, NEW g \in Grants
    PROVE  Approved(r, g) \in Records
BY DEF Approved, Records

LEMMA ReportType ==
    ASSUME approvals \in [Flows -> Seq(Grants)], NEW d \in Flows, NEW g \in Grants,
           Report(d, g)
    PROVE  approvals' \in [Flows -> Seq(Grants)]
<1>1. approvals[d] \in Seq(Grants) /\ Append(approvals[d], g) \in Seq(Grants)
  OBVIOUS
<1> QED BY <1>1 DEF Report

LEMMA SaveType ==
    ASSUME flow \in [Flows -> Records], NEW d \in Flows, NEW r \in Records
    PROVE  Save(d, r) \in [Flows -> Records]
BY DEF Save

LEMMA ShowAgainType ==
    ASSUME TypeOK, NEW a \in Approvers, ShowAgain(a)
    PROVE  /\ challenge' \in [Sessions -> Forms \cup {NoForm}]
           /\ approve' \in [Approvers -> Approves]
BY IdleTypes DEF TypeOK, ShowAgain, PutChallenge, FreshForms, ApproveTo, Approves

LEMMA ByUserCodeType == \A u \in UserCodes : ByUserCode(u) \subseteq Flows
BY DEF ByUserCode

LEMMA TypeApprove ==
    ASSUME TypeInv, NEW a \in Approvers, ApproveStep(a)
    PROVE  TypeOK'
<1> USE IdleTypes DEF TypeInv, TypeOK, ApproveTo
<1>1. CASE ReadChallenge(a)
  BY <1>1 DEF ReadChallenge, Approves
<1>2. CASE BurnChallenge(a)
  BY <1>2 DEF BurnChallenge, Approves
<1>3. CASE LookUpCode(a)
  <2>1. CASE ShowAgain(a)
    BY <1>3, <2>1, ShowAgainType DEF LookUpCode
  <2>2. ASSUME NEW d \in Flows, challenge' = challenge,
               ApproveTo(a, [approve[a] EXCEPT !.pc = "approve", !.flow = d])
        PROVE  TypeOK'
    BY <1>3, <2>2 DEF LookUpCode, Approves
  <2> QED BY <1>3, <2>1, <2>2, ByUserCodeType DEF LookUpCode
<1>4. CASE ApproveSQL(a)
  <2>1. /\ challenge' \in [Sessions -> Forms \cup {NoForm}]
        /\ approve' \in [Approvers -> Approves]
    BY <1>4, ShowAgainType DEF ApproveSQL
  <2>2. approve[a].flow \in Flows /\ flow[approve[a].flow] \in Records
    BY <1>4 DEF ApproveSQL, HasFlow
  <2>3. flow' \in [Flows -> Records]
    <3>1. \A g \in Grants : Approved(flow[approve[a].flow], g) \in Records
      BY <2>2, ApprovedType
    <3>2. \/ flow' = flow
          \/ \E g \in Grants :
                flow' = [flow EXCEPT ![approve[a].flow] = Approved(flow[approve[a].flow], g)]
      BY <1>4 DEF ApproveSQL
    <3> QED BY <3>1, <3>2
  <2>4. approvals' \in [Flows -> Seq(Grants)]
    BY <1>4, <2>2, ReportType DEF ApproveSQL
  <2> QED BY <1>4, <2>1, <2>3, <2>4 DEF ApproveSQL
<1>5. CASE ApproveRead(a)
  <2>1. [approve[a] EXCEPT !.pc = "save"] \in Approves
    BY DEF Approves
  <2>2. /\ challenge' \in [Sessions -> Forms \cup {NoForm}]
        /\ approve' \in [Approvers -> Approves]
    BY <1>5, <2>1, ShowAgainType DEF ApproveRead
  <2> QED BY <1>5, <2>2 DEF ApproveRead
<1>6. CASE ApproveSave(a)
  <2>1. approve[a].flow \in Flows /\ flow[approve[a].flow].code \in UserCodes
    BY <1>6 DEF ApproveSave, Records, HasFlow
  <2>2. \A g \in Grants : Approved(Pending(flow[approve[a].flow].code), g) \in Records
    BY <2>1, PendingType, ApprovedType
  <2>3. flow' \in [Flows -> Records]
    BY <1>6, <2>1, <2>2, SaveType DEF ApproveSave
  <2>4. approvals' \in [Flows -> Seq(Grants)]
    BY <1>6, <2>1, ReportType DEF ApproveSave
  <2>5. /\ challenge' \in [Sessions -> Forms \cup {NoForm}]
        /\ approve' \in [Approvers -> Approves]
    BY <1>6, ShowAgainType DEF ApproveSave
  <2> QED BY <1>6, <2>3, <2>4, <2>5 DEF ApproveSave
<1>7. CASE CrashApprove(a)
  BY <1>7, LimitsAssumption DEF CrashApprove, Crash
<1> QED BY <1>1, <1>2, <1>3, <1>4, <1>5, <1>6, <1>7 DEF ApproveStep

LEMMA HasFlowApprove ==
    ASSUME TypeInv, NEW a \in Approvers, ApproveStep(a)
    PROVE  HasFlow'
<1> USE DEF ShowAgain
<1>1. create' = create /\ poll' = poll /\ \E r : ApproveTo(a, r)
  BY DEF ApproveStep, ReadChallenge, BurnChallenge, LookUpCode, ApproveSQL, ApproveRead,
         ApproveSave, CrashApprove
<1>2. approve \in [Approvers -> Approves] /\ HasFlow
  BY DEF TypeInv, TypeOK
<1>3. approve'[a].pc \in {"approve", "save"} => approve'[a].flow \in Flows
  <2> USE <1>2 DEF ApproveTo, IdleApprove, HasFlow
  <2>1. CASE ReadChallenge(a)
    BY <2>1 DEF ReadChallenge
  <2>2. CASE BurnChallenge(a)
    BY <2>2 DEF BurnChallenge, Approves
  <2>3. CASE LookUpCode(a)
    <3>1. CASE ApproveTo(a, IdleApprove)
      BY <3>1
    <3>2. ASSUME NEW d \in Flows,
                 ApproveTo(a, [approve[a] EXCEPT !.pc = "approve", !.flow = d])
          PROVE  approve'[a].flow \in Flows
      BY <3>2 DEF Approves
    <3> QED BY <2>3, <3>1, <3>2, ByUserCodeType DEF LookUpCode
  <2>4. CASE ApproveSQL(a) \/ ApproveSave(a) \/ CrashApprove(a)
    BY <2>4 DEF ApproveSQL, ApproveSave, CrashApprove
  <2>5. CASE ApproveRead(a)
    BY <2>5 DEF ApproveRead, Approves
  <2> QED BY <2>1, <2>2, <2>3, <2>4, <2>5 DEF ApproveStep
<1> QED BY <1>1, <1>2, <1>3 DEF HasFlow, ApproveTo

PollAction(p) == PollStep(p) \/ CrashPoll(p) \/ \E d \in Flows : PollRead(p, d)

LEMMA PollRecord ==
    ASSUME NEW r \in Polls, NEW pc \in {"idle", "gate", "save", "read", "redeem", "issue"}
    PROVE  [r EXCEPT !.pc = pc] \in Polls
BY DEF Polls

LEMMA AnswerType ==
    ASSUME TypeOK, NEW p \in Pollers, Answer(p)
    PROVE  poll' \in [Pollers -> Polls]
BY IdleTypes, PollRecord DEF TypeOK, Answer, PollTo

LEMMA RedeemedType ==
    ASSUME flow \in [Flows -> Records], NEW d \in Flows
    PROVE  [flow EXCEPT ![d].status = "redeemed"] \in [Flows -> Records]
BY DEF Records

LEMMA TypePoll ==
    ASSUME TypeInv, NEW p \in Pollers, PollAction(p)
    PROVE  TypeOK'
<1> USE IdleTypes DEF TypeInv, TypeOK, PollTo
<1>1. CASE CloseGateSQL(p)
  <2>1. poll' \in [Pollers -> Polls]
    BY <1>1, AnswerType DEF CloseGateSQL
  <2>2. gate' \subseteq Flows
    BY <1>1 DEF CloseGateSQL, HasFlow
  <2> QED BY <1>1, <2>1, <2>2 DEF CloseGateSQL
<1>2. CASE CloseGateRedis(p)
  BY <1>2, PollRecord DEF CloseGateRedis, HasFlow
<1>3. CASE PollSave(p)
  <2>1. poll[p].flow \in Flows /\ poll[p].seen \in Records
    BY <1>3 DEF PollSave, Polls, HasFlow
  <2>2. flow' \in [Flows -> Records]
    BY <1>3, <2>1, SaveType DEF PollSave
  <2>3. poll' \in [Pollers -> Polls]
    BY <1>3, AnswerType DEF PollSave
  <2> QED BY <1>3, <2>2, <2>3 DEF PollSave
<1>4. CASE ConsumeRead(p)
  BY <1>4 DEF ConsumeRead, Polls, HasFlow
<1>5. CASE RedeemSQL(p)
  <2>1. poll[p].flow \in Flows /\ poll[p] \in Polls
    BY <1>5 DEF RedeemSQL, HasFlow
  <2>2. poll' \in [Pollers -> Polls]
    BY <1>5, <2>1, PollRecord DEF RedeemSQL
  <2>3. flow' \in [Flows -> Records]
    <3>1. CASE Redeemable(poll[p].flow)
      BY <1>5, <2>1, <3>1, RedeemedType DEF RedeemSQL
    <3>2. CASE ~Redeemable(poll[p].flow)
      BY <1>5, <3>2 DEF RedeemSQL
    <3> QED BY <3>1, <3>2
  <2> QED BY <1>5, <2>2, <2>3 DEF RedeemSQL
<1>6. CASE RedeemRedis(p)
  <2>1. poll[p].flow \in Flows
    BY <1>6 DEF RedeemRedis, HasFlow
  <2>2. poll' \in [Pollers -> Polls]
    <3>1. [pc |-> "issue", flow |-> poll[p].flow, seen |-> flow[poll[p].flow]] \in Polls
      BY <2>1 DEF Polls
    <3>2. \E r \in Polls : poll' = [poll EXCEPT ![p] = r]
      BY <1>6, <3>1 DEF RedeemRedis
    <3> QED BY <3>2
  <2>3. flow' \in [Flows -> Records]
    BY <1>6, <2>1, RedeemedType DEF RedeemRedis
  <2>4. index' \in [UserCodes -> Flows \cup {NoFlow}]
    BY <1>6 DEF RedeemRedis
  <2> QED BY <1>6, <2>2, <2>3, <2>4 DEF RedeemRedis
<1>7. CASE IssueToken(p)
  <2>1. poll[p].flow \in Flows /\ poll[p].seen.grant \in Grants \cup {NoGrant}
    BY <1>7 DEF IssueToken, Polls, Records, HasFlow
  <2> QED BY <1>7, <2>1 DEF IssueToken
<1>8. CASE CrashPoll(p)
  BY <1>8, LimitsAssumption DEF CrashPoll, Crash
<1>9. ASSUME NEW d \in Flows, PollRead(p, d) PROVE TypeOK'
  BY <1>9 DEF PollRead, Polls
<1> QED BY <1>1, <1>2, <1>3, <1>4, <1>5, <1>6, <1>7, <1>8, <1>9 DEF PollStep, PollAction

LEMMA HasFlowPoll ==
    ASSUME TypeInv, NEW p \in Pollers, PollAction(p)
    PROVE  HasFlow'
<1> USE DEF PollAction
<1>1. create' = create /\ approve' = approve /\ \E r : PollTo(p, r)
  BY DEF PollStep, CloseGateSQL, CloseGateRedis, PollSave, ConsumeRead, RedeemSQL,
         RedeemRedis, IssueToken, CrashPoll, PollRead, Answer
<1>2. poll \in [Pollers -> Polls] /\ HasFlow
  BY DEF TypeInv, TypeOK
<1>3. poll'[p].pc # "idle" => poll'[p].flow \in Flows
  <2> USE <1>2 DEF PollTo, IdlePoll, HasFlow
  <2>1. CASE CloseGateSQL(p)
    BY <2>1 DEF CloseGateSQL, Answer, Polls
  <2>2. CASE CloseGateRedis(p)
    BY <2>2 DEF CloseGateRedis, Polls
  <2>3. CASE PollSave(p)
    BY <2>3 DEF PollSave, Answer, Polls
  <2>4. CASE ConsumeRead(p)
    BY <2>4 DEF ConsumeRead, Polls
  <2>5. CASE RedeemSQL(p)
    BY <2>5 DEF RedeemSQL, Polls
  <2>6. CASE RedeemRedis(p)
    BY <2>6 DEF RedeemRedis, Polls
  <2>7. CASE IssueToken(p) \/ CrashPoll(p)
    BY <2>7 DEF IssueToken, CrashPoll
  <2>8. ASSUME NEW d \in Flows, PollRead(p, d) PROVE poll'[p].flow \in Flows
    BY <2>8 DEF PollRead, Polls
  <2> QED BY <2>1, <2>2, <2>3, <2>4, <2>5, <2>6, <2>7, <2>8 DEF PollStep
<1> QED BY <1>1, <1>2, <1>3 DEF HasFlow, PollTo

TimeStep ==
    \/ \E d \in Flows : Lapse(d) \/ OpenGate(d)
    \/ \E u \in UserCodes : LapseCode(u)
    \/ \E s \in Sessions : DevicePage(s) \/ LapseChallenge(s)
    \/ PurgeExpired

LEMMA TypeTime == TypeInv /\ TimeStep => TypeInv'
<1> SUFFICES ASSUME TypeInv, TimeStep PROVE TypeInv'
  OBVIOUS
<1> USE DEF TypeInv, TypeOK, HasFlow
<1>1. ASSUME NEW d \in Flows, Lapse(d) PROVE TypeInv'
  BY <1>1 DEF Lapse, Records
<1>2. ASSUME NEW d \in Flows, OpenGate(d) PROVE TypeInv'
  BY <1>2 DEF OpenGate
<1>3. ASSUME NEW u \in UserCodes, LapseCode(u) PROVE TypeInv'
  BY <1>3 DEF LapseCode
<1>4. ASSUME NEW s \in Sessions, DevicePage(s) PROVE TypeInv'
  BY <1>4 DEF DevicePage, PutChallenge, FreshForms
<1>5. ASSUME NEW s \in Sessions, LapseChallenge(s) PROVE TypeInv'
  BY <1>5 DEF LapseChallenge
<1>6. CASE PurgeExpired
  BY <1>6 DEF PurgeExpired, Records
<1> QED BY <1>1, <1>2, <1>3, <1>4, <1>5, <1>6 DEF TimeStep

LEMMA NextCases ==
    ASSUME Next
    PROVE  \/ \E c \in Creators : CreateStep(c)
           \/ \E a \in Approvers : ApproveStep(a)
           \/ \E p \in Pollers : PollAction(p)
           \/ TimeStep
BY DEF Next, PollFlow, PollAction, TimeStep

LEMMA TypeStutter == TypeInv /\ UNCHANGED vars => TypeInv'
BY DEF TypeInv, TypeOK, HasFlow, vars

LEMMA TypeStep == TypeInv /\ [Next]_vars => TypeInv'
BY NextCases, TypeTime, TypeStutter, TypeCreate, HasFlowCreate, TypeApprove,
   HasFlowApprove, TypePoll, HasFlowPoll DEF TypeInv

\* Whatever a request meets, records and requests keep their types, and no more
\* requests die than MaxCrashes.
THEOREM TypeCorrect == Spec => []TypeOK
<1>1. TypeInv => TypeOK
  BY DEF TypeInv
<1> QED BY TypeInit, TypeStep, <1>1, PTL DEF Spec

-----------------------------------------------------------------------------
(* A token for each flow, at most.                                           *)

\* A record is stored once: the flow of a request that is about to do it is new,
\* and is no other request's.
StoreInv ==
    /\ \A c \in Creators :
           create[c].pc = "store" => flow[create[c].flow].status = "new"
    /\ \A c, e \in Creators :
           /\ create[c].pc = "store" /\ create[e].pc = "store"
           /\ create[c].flow = create[e].flow
           => c = e

\* A request that is about to issue a token is alone to have redeemed its flow.
IssueInv ==
    /\ \A p \in Pollers :
           poll[p].pc = "issue" => /\ flow[poll[p].flow].status = "redeemed"
                                   /\ tokens[poll[p].flow] = <<>>
    /\ \A p, q \in Pollers :
           poll[p].pc = "issue" /\ poll[q].pc = "issue" /\ poll[p].flow = poll[q].flow
           => p = q

TokenInv ==
    \A d \in Flows :
        /\ tokens[d] # <<>> => flow[d].status = "redeemed"
        /\ Len(tokens[d]) <= 1

RedeemInv == StoreInv /\ IssueInv /\ TokenInv

\* Most steps store no record, redeem no flow and issue no token.
Quiet ==
    /\ \A d \in Flows :
           flow[d].status \in {"new", "redeemed"} => flow'[d].status = flow[d].status
    /\ \A c \in Creators : create'[c].pc = "store" => create'[c] = create[c]
    /\ \A p \in Pollers : poll'[p].pc = "issue" => poll'[p] = poll[p]
    /\ tokens' = tokens

LEMMA QuietKeeps ==
    ASSUME TypeInv, RedeemInv, Quiet
    PROVE  RedeemInv'
<1> USE DEF RedeemInv, Quiet, TypeInv, HasFlow
<1>1. StoreInv'
  BY DEF StoreInv
<1>2. IssueInv'
  BY DEF IssueInv
<1>3. TokenInv'
  BY DEF TokenInv
<1> QED BY <1>1, <1>2, <1>3

LEMMA RedeemInit == Init => RedeemInv
BY DEF Init, RedeemInv, StoreInv, IssueInv, TokenInv, IdleCreate, IdlePoll

LEMMA RedeemCreate ==
    ASSUME TypeInv, RedeemInv, NEW c \in Creators, CreateStep(c)
    PROVE  RedeemInv'
<1> USE DEF TypeInv, TypeOK, CreateTo, IdleCreate
<1>1. CASE CountFlows(c) \/ RunOutOfCodes(c) \/ TrackFlow(c) \/ CrashCreate(c)
  <2>1. Quiet
    BY <1>1 DEF Quiet, CountFlows, RunOutOfCodes, TrackFlow, CrashCreate
  <2> QED BY <2>1, QuietKeeps
<1>2. CASE InsertFlow(c)
  <2>1. PICK d \in Flows, u \in UserCodes :
            ~Drawn(d) /\ flow' = [flow EXCEPT ![d] = Pending(u)]
    BY <1>2 DEF InsertFlow
  <2>2. flow[d].status = "new" /\ \A e \in Creators : create[e].flow # d
    BY <2>1 DEF Drawn
  <2>3. poll' = poll /\ tokens' = tokens /\ create' = [create EXCEPT ![c] = IdleCreate]
    BY <1>2 DEF InsertFlow
  <2>4. StoreInv'
    BY <2>1, <2>2, <2>3 DEF RedeemInv, StoreInv, HasFlow
  <2>5. IssueInv'
    BY <2>1, <2>2, <2>3 DEF RedeemInv, IssueInv, HasFlow
  <2>6. TokenInv'
    BY <2>1, <2>2, <2>3 DEF RedeemInv, TokenInv
  <2> QED BY <2>4, <2>5, <2>6 DEF RedeemInv
<1>3. CASE ReserveCode(c)
  <2>1. PICK d \in Flows, u \in UserCodes :
            /\ ~Drawn(d)
            /\ create' = [create EXCEPT ![c] = [pc |-> "store", flow |-> d, code |-> u]]
    BY <1>3 DEF ReserveCode
  <2>2. flow[d].status = "new" /\ \A e \in Creators : create[e].flow # d
    BY <2>1 DEF Drawn
  <2>3. poll' = poll /\ tokens' = tokens /\ flow' = flow
    BY <1>3 DEF ReserveCode
  <2>4. StoreInv'
    BY <2>1, <2>2, <2>3 DEF RedeemInv, StoreInv
  <2> QED BY <2>3, <2>4 DEF RedeemInv, IssueInv, TokenInv
<1>4. CASE StoreFlow(c)
  <2>1. CASE flow' = flow
    <3>1. create'[c].pc # "store"
      BY <1>4 DEF StoreFlow, Creates
    <3>2. Quiet
      BY <1>4, <2>1, <3>1 DEF Quiet, StoreFlow
    <3> QED BY <3>2, QuietKeeps
  <2>2. CASE flow' = [flow EXCEPT ![create[c].flow] = Pending(create[c].code)]
    <3>1. /\ create[c].pc = "store" /\ flow[create[c].flow].status = "new"
          /\ create[c].flow \in Flows
      BY <1>4 DEF StoreFlow, RedeemInv, StoreInv, HasFlow
    <3>2. /\ create'[c].pc # "store" /\ poll' = poll /\ tokens' = tokens
          /\ \A e \in Creators \ {c} : create'[e] = create[e]
      BY <1>4 DEF StoreFlow, Creates
    <3>3. StoreInv'
      BY <2>2, <3>1, <3>2 DEF RedeemInv, StoreInv, HasFlow
    <3>4. IssueInv'
      BY <2>2, <3>1, <3>2 DEF RedeemInv, IssueInv, HasFlow
    <3>5. TokenInv'
      BY <2>2, <3>1, <3>2 DEF RedeemInv, TokenInv
    <3> QED BY <3>3, <3>4, <3>5 DEF RedeemInv
  <2> QED BY <1>4, <2>1, <2>2 DEF StoreFlow
<1> QED BY <1>1, <1>2, <1>3, <1>4 DEF CreateStep

LEMMA SaveQuiet ==
    ASSUME flow \in [Flows -> Records], NEW d \in Flows, NEW r, NEW e \in Flows,
           flow[e].status \in {"new", "redeemed"}
    PROVE  Save(d, r)[e] = flow[e]
BY DEF Save, Exists

LEMMA RedeemApprove ==
    ASSUME TypeInv, RedeemInv, NEW a \in Approvers, ApproveStep(a)
    PROVE  RedeemInv'
<1>1. create' = create /\ poll' = poll /\ tokens' = tokens
  BY DEF ApproveStep, ReadChallenge, BurnChallenge, LookUpCode, ApproveSQL, ApproveRead,
         ApproveSave, CrashApprove
<1>2. ASSUME NEW d \in Flows, flow[d].status \in {"new", "redeemed"}
      PROVE  flow'[d].status = flow[d].status
  <2> USE DEF TypeInv, TypeOK, HasFlow
  <2>1. CASE ApproveSQL(a)
    BY <1>2, <2>1 DEF ApproveSQL, Approvable
  <2>2. CASE ApproveSave(a)
    BY <1>2, <2>2, SaveQuiet DEF ApproveSave
  <2>3. CASE flow' = flow
    BY <2>3
  <2> QED BY <2>1, <2>2, <2>3 DEF ApproveStep, ReadChallenge, BurnChallenge, LookUpCode,
             ApproveRead, CrashApprove
<1> QED BY <1>1, <1>2, QuietKeeps DEF Quiet

\* The redemption of flow d by p.
Redeems(p, d) ==
    /\ flow[d].status # "redeemed" /\ flow[d].status # "new"
    /\ flow' = [flow EXCEPT ![d].status = "redeemed"]
    /\ \E r \in Polls : r.flow = d /\ PollTo(p, r)
    /\ UNCHANGED <<create, tokens>>

LEMMA RedeemsKeeps ==
    ASSUME TypeInv, RedeemInv, NEW p \in Pollers, NEW d \in Flows, Redeems(p, d)
    PROVE  RedeemInv'
<1> USE DEF TypeInv, TypeOK, HasFlow, Redeems, PollTo, RedeemInv
<1>0. flow'[d].status = "redeemed" /\ \A e \in Flows \ {d} : flow'[e] = flow[e]
  BY DEF Records
<1>1. tokens[d] = <<>>
  BY DEF TokenInv
<1>2. StoreInv'
  BY <1>0 DEF StoreInv
<1>3. IssueInv'
  BY <1>0, <1>1 DEF IssueInv
<1>4. TokenInv'
  BY <1>0, <1>1 DEF TokenInv
<1> QED BY <1>2, <1>3, <1>4

LEMMA RedeemPoll ==
    ASSUME TypeInv, RedeemInv, NEW p \in Pollers, PollAction(p)
    PROVE  RedeemInv'
<1> USE DEF TypeInv, TypeOK, PollTo, IdlePoll
<1>1. CASE CloseGateSQL(p)
  <2>1. Quiet
    BY <1>1 DEF Quiet, CloseGateSQL, Answer, Polls
  <2> QED BY <2>1, QuietKeeps
<1>2. CASE CloseGateRedis(p) \/ ConsumeRead(p) \/ CrashPoll(p)
  <2>1. Quiet
    BY <1>2 DEF Quiet, CloseGateRedis, ConsumeRead, CrashPoll, Polls
  <2> QED BY <2>1, QuietKeeps
<1>3. CASE PollSave(p)
  <2>1. \A e \in Flows : flow[e].status \in {"new", "redeemed"} => flow'[e] = flow[e]
    <3>1. /\ poll[p].flow \in Flows
          /\ flow' = Save(poll[p].flow, poll[p].seen)
      BY <1>3 DEF PollSave, HasFlow
    <3> QED BY <3>1, SaveQuiet
  <2>2. Quiet
    BY <1>3, <2>1 DEF Quiet, PollSave, Answer, Polls
  <2> QED BY <2>2, QuietKeeps
<1>4. CASE RedeemSQL(p)
  <2>1. CASE Redeemable(poll[p].flow)
    <3>1. poll[p].flow \in Flows /\ poll[p].seen \in Records
      BY <1>4 DEF RedeemSQL, HasFlow, Polls
    <3>2. /\ [poll[p] EXCEPT !.pc = "issue"] \in Polls
          /\ [poll[p] EXCEPT !.pc = "issue"].flow = poll[p].flow
      BY <1>4 DEF Polls
    <3>3. Redeems(p, poll[p].flow)
      BY <1>4, <2>1, <3>1, <3>2 DEF RedeemSQL, Redeemable, Redeems
    <3> QED BY <3>1, <3>3, RedeemsKeeps
  <2>2. CASE ~Redeemable(poll[p].flow)
    <3>1. Quiet
      BY <1>4, <2>2 DEF Quiet, RedeemSQL
    <3> QED BY <3>1, QuietKeeps
  <2> QED BY <2>1, <2>2
<1>5. CASE RedeemRedis(p)
  <2>1. CASE Exists(poll[p].flow)
    <3>1. poll[p].flow \in Flows /\ flow[poll[p].flow] \in Records
      BY <1>5 DEF RedeemRedis, HasFlow
    <3>2. [pc |-> "issue", flow |-> poll[p].flow, seen |-> flow[poll[p].flow]] \in Polls
      BY <3>1 DEF Polls
    <3>3. Redeems(p, poll[p].flow)
      BY <1>5, <2>1, <3>1, <3>2 DEF RedeemRedis, Exists, Redeems
    <3> QED BY <3>1, <3>3, RedeemsKeeps
  <2>2. CASE ~Exists(poll[p].flow)
    <3>1. Quiet
      BY <1>5, <2>2 DEF Quiet, RedeemRedis
    <3> QED BY <3>1, QuietKeeps
  <2> QED BY <2>1, <2>2
<1>6. CASE IssueToken(p)
  <2>1. /\ poll[p].flow \in Flows /\ tokens[poll[p].flow] = <<>>
        /\ flow[poll[p].flow].status = "redeemed" /\ poll[p].pc = "issue"
    BY <1>6 DEF IssueToken, RedeemInv, IssueInv, HasFlow
  <2>2. /\ tokens' = [tokens EXCEPT ![poll[p].flow] = <<poll[p].seen.grant>>]
        /\ poll'[p].pc = "idle" /\ \A q \in Pollers \ {p} : poll'[q] = poll[q]
        /\ flow' = flow /\ create' = create
    BY <1>6, <2>1 DEF IssueToken
  <2>3. IssueInv'
    BY <2>1, <2>2 DEF RedeemInv, IssueInv, HasFlow
  <2>4. TokenInv'
    BY <2>1, <2>2 DEF RedeemInv, TokenInv
  <2> QED BY <2>2, <2>3, <2>4 DEF RedeemInv, StoreInv
<1>7. ASSUME NEW d \in Flows, PollRead(p, d) PROVE RedeemInv'
  <2>1. Quiet
    BY <1>7 DEF Quiet, PollRead
  <2> QED BY <2>1, QuietKeeps
<1> QED BY <1>1, <1>2, <1>3, <1>4, <1>5, <1>6, <1>7 DEF PollStep, PollAction

LEMMA RedeemTime ==
    ASSUME TypeInv, RedeemInv, TimeStep \/ UNCHANGED vars
    PROVE  RedeemInv'
<1>1. create' = create /\ poll' = poll /\ tokens' = tokens
  BY DEF TimeStep, Lapse, OpenGate, LapseCode, DevicePage, LapseChallenge, PurgeExpired, vars
<1>2. ASSUME NEW d \in Flows, flow[d].status \in {"new", "redeemed"}
      PROVE  flow'[d].status = flow[d].status
  <2> USE DEF TypeInv, TypeOK
  <2>1. ASSUME NEW e \in Flows, Lapse(e) PROVE flow'[d].status = flow[d].status
    BY <1>2, <2>1 DEF Lapse, Alive, Exists
  <2>2. CASE PurgeExpired
    BY <1>2, <2>2 DEF PurgeExpired, Purgeable, Exists
  <2>3. CASE flow' = flow
    BY <2>3
  <2> QED BY <2>1, <2>2, <2>3 DEF TimeStep, OpenGate, LapseCode, DevicePage,
             LapseChallenge, vars
<1> QED BY <1>1, <1>2, QuietKeeps DEF Quiet

LEMMA RedeemStep == TypeInv /\ RedeemInv /\ [Next]_vars => RedeemInv'
BY NextCases, RedeemCreate, RedeemApprove, RedeemPoll, RedeemTime

\* No flow yields two tokens, on either store, however requests interleave and
\* die: whoever deletes the record is alone to have it, and no save brings it back.
THEOREM OneTokenIsIssued == Spec => []OneTokenPerFlow
<1>1. TypeInv /\ RedeemInv => OneTokenPerFlow
  BY DEF RedeemInv, TokenInv, OneTokenPerFlow
<1> QED BY TypeInit, TypeStep, RedeemInit, RedeemStep, <1>1, PTL DEF Spec

-----------------------------------------------------------------------------
(* A flow is a grant of DeviceGrant, on either store.                        *)

\* Requests of a server that keeps its flows in SQL never write a record back.
SidesInv ==
    backend = "sql" =>
        /\ \A c \in Creators : create[c].pc \in {"idle", "mint"}
        /\ \A a \in Approvers : approve[a].pc # "save"
        /\ \A p \in Pollers : poll[p].pc # "save"

\* What the approvers of a flow were told they granted.
Told(d) == {approvals[d][i] : i \in DOMAIN approvals[d]}

\* A record of flow d, in the store or read from it, holds what was granted.
Sound(d, r) ==
    /\ r.status \in {"new", "pending"} => r.grant = NoGrant
    /\ r.status = "approved" => r.grant \in Told(d)

\* Records are sound, those that may be written back too; and who redeemed a flow,
\* or in SQL is about to, has read the grant that it holds for good.
GrantInv ==
    /\ \A d \in Flows : Sound(d, flow[d])
    /\ \A p \in Pollers :
           /\ poll[p].pc \in {"gate", "save"} =>
                  /\ poll[p].seen.status \in {"pending", "approved"}
                  /\ Sound(poll[p].flow, poll[p].seen)
           /\ poll[p].pc = "issue" => poll[p].seen.grant = flow[poll[p].flow].grant
           /\ poll[p].pc = "redeem" /\ backend = "sql" =>
                  /\ flow[poll[p].flow].status \notin {"new", "pending"}
                  /\ poll[p].seen.grant = flow[poll[p].flow].grant

LEMMA GrantInit == Init => SidesInv /\ GrantInv
BY DEF Init, SidesInv, GrantInv, Sound, IdleCreate, IdleApprove, IdlePoll, NewRecord

LEMMA BackendFixed == [Next]_vars => backend' = backend
BY NextCases
   DEF CreateStep, CountFlows, InsertFlow, RunOutOfCodes, ReserveCode, StoreFlow,
       TrackFlow, CrashCreate, ApproveStep, ReadChallenge, BurnChallenge, LookUpCode,
       ApproveSQL, ApproveRead, ApproveSave, CrashApprove, PollAction, PollStep,
       CloseGateSQL, CloseGateRedis, PollSave, ConsumeRead, RedeemSQL, RedeemRedis,
       IssueToken, CrashPoll, PollRead, TimeStep, Lapse, OpenGate, LapseCode,
       DevicePage, LapseChallenge, PurgeExpired, vars

LEMMA SidesCreate ==
    ASSUME TypeInv, SidesInv, NEW c \in Creators, CreateStep(c)
    PROVE  SidesInv'
<1> USE DEF TypeInv, TypeOK, SidesInv, CreateTo, IdleCreate
<1>1. approve' = approve /\ poll' = poll /\ backend' = backend
  BY DEF CreateStep, CountFlows, InsertFlow, RunOutOfCodes, ReserveCode, StoreFlow,
         TrackFlow, CrashCreate
<1>2. CASE CountFlows(c) \/ InsertFlow(c) \/ RunOutOfCodes(c) \/ CrashCreate(c)
  <2>1. create'[c].pc \in {"idle", "mint"} /\ \A e \in Creators \ {c} : create'[e] = create[e]
    BY <1>2 DEF CountFlows, InsertFlow, RunOutOfCodes, CrashCreate
  <2> QED BY <1>1, <2>1
<1>3. CASE ReserveCode(c) \/ StoreFlow(c) \/ TrackFlow(c)
  BY <1>1, <1>3 DEF ReserveCode, StoreFlow, TrackFlow
<1> QED BY <1>2, <1>3 DEF CreateStep

LEMMA SidesApprove ==
    ASSUME TypeInv, SidesInv, NEW a \in Approvers, ApproveStep(a)
    PROVE  SidesInv'
<1> USE DEF TypeInv, TypeOK, SidesInv, ApproveTo, IdleApprove
<1>1. create' = create /\ poll' = poll /\ backend' = backend
  BY DEF ApproveStep, ReadChallenge, BurnChallenge, LookUpCode, ApproveSQL, ApproveRead,
         ApproveSave, CrashApprove
<1>2. backend = "sql" =>
          approve'[a].pc # "save" /\ \A b \in Approvers \ {a} : approve'[b] = approve[b]
  <2>1. CASE ReadChallenge(a)
    BY <2>1 DEF ReadChallenge
  <2>2. CASE BurnChallenge(a)
    BY <2>2 DEF BurnChallenge, Approves
  <2>3. CASE LookUpCode(a)
    <3>1. CASE ShowAgain(a)
      BY <3>1 DEF ShowAgain
    <3>2. ASSUME NEW d \in Flows,
                 ApproveTo(a, [approve[a] EXCEPT !.pc = "approve", !.flow = d])
          PROVE  approve'[a].pc # "save" /\ \A b \in Approvers \ {a} : approve'[b] = approve[b]
      BY <3>2 DEF Approves
    <3> QED BY <2>3, <3>1, <3>2, ByUserCodeType DEF LookUpCode
  <2>4. CASE ApproveSQL(a) \/ ApproveSave(a) \/ CrashApprove(a)
    BY <2>4 DEF ApproveSQL, ApproveSave, CrashApprove, ShowAgain
  <2>5. CASE ApproveRead(a)
    BY <2>5 DEF ApproveRead
  <2> QED BY <2>1, <2>2, <2>3, <2>4, <2>5 DEF ApproveStep
<1> QED BY <1>1, <1>2

LEMMA SidesPoll ==
    ASSUME TypeInv, SidesInv, NEW p \in Pollers, PollAction(p)
    PROVE  SidesInv'
<1> USE DEF TypeInv, TypeOK, SidesInv, PollTo, IdlePoll
<1>1. create' = create /\ approve' = approve /\ backend' = backend
  BY DEF PollAction, PollStep, CloseGateSQL, CloseGateRedis, PollSave, ConsumeRead, RedeemSQL,
         RedeemRedis, IssueToken, CrashPoll, PollRead
<1>2. backend = "sql" =>
          poll'[p].pc # "save" /\ \A q \in Pollers \ {p} : poll'[q] = poll[q]
  <2>1. CASE CloseGateSQL(p)
    BY <2>1 DEF CloseGateSQL, Answer, Polls
  <2>2. CASE RedeemSQL(p)
    BY <2>2 DEF RedeemSQL, Polls
  <2>3. CASE ConsumeRead(p) \/ IssueToken(p) \/ CrashPoll(p) \/ \E d \in Flows : PollRead(p, d)
    BY <2>3 DEF ConsumeRead, IssueToken, CrashPoll, PollRead
  <2>4. CASE CloseGateRedis(p) \/ PollSave(p) \/ RedeemRedis(p)
    BY <2>4 DEF CloseGateRedis, PollSave, RedeemRedis
  <2> QED BY <2>1, <2>2, <2>3, <2>4 DEF PollAction, PollStep
<1> QED BY <1>1, <1>2

LEMMA SidesStep == TypeInv /\ SidesInv /\ [Next]_vars => SidesInv'
<1> SUFFICES ASSUME TypeInv, SidesInv, [Next]_vars PROVE SidesInv'
  OBVIOUS
<1>1. CASE TimeStep \/ UNCHANGED vars
  BY <1>1 DEF TimeStep, Lapse, OpenGate, LapseCode, DevicePage, LapseChallenge, PurgeExpired,
              vars, SidesInv
<1> QED BY <1>1, NextCases, SidesCreate, SidesApprove, SidesPoll

-----------------------------------------------------------------------------
(* What the mapping shows of each kind of step.                              *)

LEMMA PhaseNames ==
    /\ PhaseOf("new") = "unused" /\ PhaseOf("pending") = "open"
    /\ PhaseOf("approved") = "granted" /\ PhaseOf("redeemed") = "redeemed"
    /\ PhaseOf("gone") = "lapsed"
BY DEF PhaseOf

Phases == [d \in Flows |-> PhaseOf(flow[d].status)]
Holds == [d \in Flows |-> flow[d].grant]

LEMMA MappedAt ==
    ASSUME TypeOK, NEW d \in Flows, NEW r \in Records, flow' = [flow EXCEPT ![d] = r]
    PROVE  /\ Phases' = [Phases EXCEPT ![d] = PhaseOf(r.status)]
           /\ Holds' = [Holds EXCEPT ![d] = r.grant]
BY DEF TypeOK, Phases, Holds

LEMMA UndecidedIs ==
    ASSUME NEW d \in Flows, flow[d].status \in {"pending", "approved"}
    PROVE  DG!Undecided(d)
BY PhaseNames DEF DG!Undecided

\* A step that leaves each flow's status and grant as they are.
LEMMA SameGrants ==
    ASSUME backend' = backend, approvals' = approvals, tokens' = tokens,
           \A d \in Flows : /\ flow'[d].status = flow[d].status
                            /\ flow'[d].grant = flow[d].grant
    PROVE  UNCHANGED DG!vars
BY DEF DG!vars

Ready == TypeInv /\ RedeemInv /\ SidesInv /\ GrantInv /\ backend' = backend

Mapped == GrantInv' /\ [DG!Next]_(DG!vars)

\* The record of a new flow is stored.
LEMMA OpenMapped ==
    ASSUME Ready, UNCHANGED <<poll, approvals, tokens>>,
           NEW d \in Flows, flow[d].status = "new",
           NEW u \in UserCodes, flow' = [flow EXCEPT ![d] = Pending(u)]
    PROVE  Mapped
<1> USE DEF Ready, TypeInv, TypeOK
<1>1. /\ Pending(u) \in Records
      /\ Pending(u).status = "pending" /\ Pending(u).grant = NoGrant
  BY PendingType DEF Pending
<1>2. flow'[d] = Pending(u) /\ \A e \in Flows \ {d} : flow'[e] = flow[e]
  OBVIOUS
<1>3. \A p \in Pollers :
          poll[p].pc = "issue" \/ (poll[p].pc = "redeem" /\ backend = "sql")
          => poll[p].flow \in Flows \ {d}
  BY DEF HasFlow, RedeemInv, IssueInv, GrantInv
<1>4. GrantInv'
  BY <1>1, <1>2, <1>3 DEF GrantInv, Sound, Told, HasFlow
<1>5. DG!Open(d)
  <2>1. flow[d].grant = NoGrant
    BY DEF GrantInv, Sound
  <2>2. Holds' = [Holds EXCEPT ![d] = NoGrant] /\ Holds[d] = NoGrant
    BY <1>1, <2>1, MappedAt DEF Holds
  <2>3. Holds' = Holds
    BY <2>2 DEF Holds
  <2>4. Phases' = [Phases EXCEPT ![d] = "open"] /\ Phases[d] = "unused"
    BY <1>1, MappedAt, PhaseNames DEF Phases
  <2> QED BY <2>3, <2>4 DEF DG!Open, Phases, Holds
<1> QED BY <1>4, <1>5 DEF Mapped, DG!Next

\* An approval is stored over a record that is there.
LEMMA GrantMapped ==
    ASSUME Ready, UNCHANGED <<poll, tokens>>,
           NEW d \in Flows, flow[d].status \in {"pending", "approved"},
           backend = "sql" => flow[d].status = "pending",
           NEW r \in Records, NEW g \in Grants,
           flow' = [flow EXCEPT ![d] = Approved(r, g)], Report(d, g)
    PROVE  Mapped
<1> USE DEF Ready, TypeInv, TypeOK
<1>1. /\ Approved(r, g) \in Records
      /\ Approved(r, g).status = "approved" /\ Approved(r, g).grant = g
  BY ApprovedType DEF Approved, Records
<1>2. /\ flow'[d] = Approved(r, g) /\ \A e \in Flows \ {d} : flow'[e] = flow[e]
  OBVIOUS
<1>3. approvals' = [approvals EXCEPT ![d] = Append(approvals[d], g)]
  BY DEF Report
<1>4. g \in Told(d)' /\ \A e \in Flows : Told(e) \subseteq Told(e)'
  <2>1. approvals[d] \in Seq(Grants) /\ approvals'[d] = Append(approvals[d], g)
    BY <1>3
  <2>2. /\ DOMAIN approvals'[d] = 1 .. Len(approvals[d]) + 1
        /\ approvals'[d][Len(approvals[d]) + 1] = g
        /\ \A i \in DOMAIN approvals[d] :
              i \in DOMAIN approvals'[d] /\ approvals'[d][i] = approvals[d][i]
    BY <2>1
  <2>3. Len(approvals[d]) + 1 \in DOMAIN approvals'[d]
    BY <2>1, <2>2
  <2>4. g \in Told(d)' /\ Told(d) \subseteq Told(d)'
    BY <2>2, <2>3 DEF Told
  <2>5. \A e \in Flows \ {d} : Told(e)' = Told(e)
    BY <1>3 DEF Told
  <2> QED BY <2>4, <2>5
<1>5. \A p \in Pollers :
          poll[p].pc = "issue" \/ (poll[p].pc = "redeem" /\ backend = "sql")
          => poll[p].flow \in Flows \ {d}
  BY DEF HasFlow, RedeemInv, IssueInv, GrantInv
<1>6. GrantInv'
  <2>1. \A e \in Flows : Sound(e, flow[e])'
    BY <1>1, <1>2, <1>4 DEF GrantInv, Sound
  <2>2. \A p \in Pollers : poll[p].pc \in {"gate", "save"} =>
            /\ poll[p].seen.status \in {"pending", "approved"}
            /\ Sound(poll[p].flow, poll[p].seen)'
    BY <1>4 DEF GrantInv, Sound, HasFlow
  <2>3. \A p \in Pollers :
            /\ poll[p].pc = "issue" => poll[p].seen.grant = flow'[poll[p].flow].grant
            /\ poll[p].pc = "redeem" /\ backend = "sql" =>
                   /\ flow'[poll[p].flow].status \notin {"new", "pending"}
                   /\ poll[p].seen.grant = flow'[poll[p].flow].grant
    BY <1>2, <1>5 DEF GrantInv
  <2> QED BY <2>1, <2>2, <2>3 DEF GrantInv
<1>7. DG!Grant(d, g)
  <2>1. DG!Undecided(d) /\ (backend = "sql" => Phases[d] = "open")
    BY UndecidedIs, PhaseNames DEF Phases
  <2>2. Phases' = [Phases EXCEPT ![d] = "granted"] /\ Holds' = [Holds EXCEPT ![d] = g]
    <3>1. PICK q \in Records : /\ q.status = "approved" /\ q.grant = g
                               /\ flow' = [flow EXCEPT ![d] = q]
      BY <1>1
    <3>2. /\ Phases' = [Phases EXCEPT ![d] = PhaseOf(q.status)]
          /\ Holds' = [Holds EXCEPT ![d] = q.grant]
      BY <3>1, MappedAt
    <3> QED BY <3>1, <3>2, PhaseNames
  <2> QED BY <1>3, <2>1, <2>2 DEF DG!Grant, Phases, Holds
<1> QED BY <1>6, <1>7 DEF Mapped, DG!Next

\* A record that was read is written back.
LEMMA SetBackMapped ==
    ASSUME Ready, backend # "sql", UNCHANGED <<approvals, tokens>>,
           NEW p \in Pollers, poll[p].pc = "save",
           NEW d \in Flows, poll[p].flow = d, flow[d].status \in {"pending", "approved"},
           flow' = [flow EXCEPT ![d] = poll[p].seen],
           NEW q \in Polls, q.pc \notin {"gate", "save", "issue"},
           poll' = [poll EXCEPT ![p] = q]
    PROVE  Mapped
<1> USE DEF Ready, TypeInv, TypeOK
<1> DEFINE r == poll[p].seen
<1>1. /\ r \in Records /\ r.status \in {"pending", "approved"} /\ Sound(d, r)
  BY DEF HasFlow, GrantInv, Polls
<1>2. flow'[d] = r /\ \A e \in Flows \ {d} : flow'[e] = flow[e]
  BY <1>1
<1>3. \A o \in Pollers : o # p => poll'[o] = poll[o]
  OBVIOUS
<1>4. \A o \in Pollers : poll[o].pc = "issue" => poll[o].flow \in Flows \ {d}
  BY DEF HasFlow, RedeemInv, IssueInv
<1>5. GrantInv'
  <2>1. \A e \in Flows : Sound(e, flow[e])'
    BY <1>1, <1>2 DEF GrantInv, Sound, Told
  <2>2. poll'[p].pc \notin {"gate", "save", "issue"}
    OBVIOUS
  <2>3. \A o \in Pollers :
          /\ poll'[o].pc \in {"gate", "save"} =>
                  /\ poll'[o].seen.status \in {"pending", "approved"}
                  /\ Sound(poll[o].flow, poll[o].seen)'
          /\ poll'[o].pc = "issue" => poll'[o].seen.grant = flow'[poll'[o].flow].grant
    <3> SUFFICES ASSUME NEW o \in Pollers, o # p
                 PROVE  /\ poll'[o].pc \in {"gate", "save"} =>
                                /\ poll'[o].seen.status \in {"pending", "approved"}
                                /\ Sound(poll[o].flow, poll[o].seen)'
                        /\ poll'[o].pc = "issue" => poll'[o].seen.grant = flow'[poll'[o].flow].grant
      BY <2>2
    <3> QED BY <1>2, <1>3, <1>4 DEF GrantInv, Sound, Told
  <2> QED BY <2>1, <2>3 DEF GrantInv
<1>6. DG!SetBack(d)
  <2>1. DG!Undecided(d)
    BY <1>1, UndecidedIs
  <2>2. Phases' = [Phases EXCEPT ![d] = PhaseOf(r.status)] /\ Holds' = [Holds EXCEPT ![d] = r.grant]
    BY <1>1, MappedAt
  <2>3. CASE r.status = "pending"
    <3>1. /\ Phases' = [Phases EXCEPT ![d] = "open"]
          /\ Holds' = [Holds EXCEPT ![d] = NoGrant]
      <4>1. r.grant = NoGrant
        BY <1>1, <2>3 DEF Sound
      <4> QED BY <2>2, <2>3, <4>1, PhaseNames
    <3> QED BY <2>1, <3>1 DEF DG!SetBack, Phases, Holds
  <2>4. CASE r.status = "approved"
    <3>1. PICK i \in DOMAIN approvals[d] : r.grant = approvals[d][i]
      BY <1>1, <2>4 DEF Sound, Told
    <3>2. /\ Phases' = [Phases EXCEPT ![d] = "granted"]
          /\ Holds' = [Holds EXCEPT ![d] = approvals[d][i]]
      BY <2>2, <2>4, <3>1, PhaseNames
    <3> QED BY <2>1, <3>2 DEF DG!SetBack, Phases, Holds
  <2> QED BY <1>1, <2>3, <2>4
<1> QED BY <1>5, <1>6 DEF Mapped, DG!Next

\* A flow is redeemed, and the poll that does it holds what the flow held.
LEMMA RedeemMapped ==
    ASSUME Ready, UNCHANGED <<approvals, tokens>>,
           NEW p \in Pollers, NEW d \in Flows, flow[d].status \in {"pending", "approved"},
           backend = "sql" => flow[d].status = "approved",
           flow' = [flow EXCEPT ![d].status = "redeemed"],
           NEW q \in Polls, q.pc = "issue", q.flow = d, q.seen.grant = flow[d].grant,
           poll' = [poll EXCEPT ![p] = q]
    PROVE  Mapped
<1> USE DEF Ready, TypeInv, TypeOK
<1>1. PICK r \in Records : /\ r.status = "redeemed" /\ r.grant = flow[d].grant
                           /\ flow' = [flow EXCEPT ![d] = r]
  BY DEF Records
<1>2. flow'[d] = r /\ \A e \in Flows \ {d} : flow'[e] = flow[e]
  BY <1>1
<1>3. poll'[p] = q /\ \A o \in Pollers : o # p => poll'[o] = poll[o]
  OBVIOUS
<1>4. GrantInv'
  <2>1. \A e \in Flows : Sound(e, flow[e])'
    BY <1>1, <1>2 DEF GrantInv, Sound, Told
  <2>2. \A o \in Pollers : poll[o].pc # "idle" => poll[o].flow \in Flows
    BY DEF HasFlow
  <2>3. ASSUME NEW o \in Pollers
        PROVE  /\ poll'[o].pc \in {"gate", "save"} =>
                       /\ poll'[o].seen.status \in {"pending", "approved"}
                       /\ Sound(poll[o].flow, poll[o].seen)'
               /\ poll'[o].pc = "issue" => poll'[o].seen.grant = flow'[poll'[o].flow].grant
               /\ poll'[o].pc = "redeem" /\ backend = "sql" =>
                      /\ flow'[poll'[o].flow].status \notin {"new", "pending"}
                      /\ poll'[o].seen.grant = flow'[poll'[o].flow].grant
    <3>1. CASE o = p
      BY <1>1, <1>2, <1>3, <3>1
    <3>2. CASE o # p
      BY <1>1, <1>2, <1>3, <2>2, <3>2 DEF GrantInv, Sound, Told
    <3> QED BY <3>1, <3>2
  <2> QED BY <2>1, <2>3 DEF GrantInv
<1>5. DG!Redeem(d)
  <2>1. DG!Undecided(d)
    BY UndecidedIs
  <2>2. Phases' = [Phases EXCEPT ![d] = "redeemed"] /\ Holds' = [Holds EXCEPT ![d] = flow[d].grant]
    <3>1. /\ Phases' = [Phases EXCEPT ![d] = PhaseOf(r.status)]
          /\ Holds' = [Holds EXCEPT ![d] = r.grant]
      BY <1>1, MappedAt
    <3> QED BY <1>1, <3>1, PhaseNames
  <2>3. Holds' = Holds
    BY <2>2 DEF Holds
  <2>4. backend = "sql" => Phases[d] = "granted"
    BY PhaseNames DEF Phases
  <2> QED BY <2>1, <2>2, <2>3, <2>4 DEF DG!Redeem, Phases, Holds
<1> QED BY <1>4, <1>5 DEF Mapped, DG!Next

\* A token is issued.
LEMMA IssueMapped ==
    ASSUME Ready, NEW p \in Pollers, IssueToken(p)
    PROVE  Mapped
<1> USE DEF Ready, TypeInv, TypeOK, PollTo, IdlePoll
<1> DEFINE d == poll[p].flow
<1>1. /\ d \in Flows /\ flow[d].status = "redeemed"
      /\ tokens[d] = <<>> /\ poll[p].seen.grant = flow[d].grant
  BY DEF IssueToken, RedeemInv, IssueInv, HasFlow, GrantInv
<1>2. /\ tokens' = [tokens EXCEPT ![d] = <<flow[d].grant>>]
      /\ flow' = flow /\ approvals' = approvals
      /\ poll'[p].pc = "idle" /\ \A q \in Pollers \ {p} : poll'[q] = poll[q]
  BY <1>1 DEF IssueToken
<1>3. GrantInv'
  <2>1. \A q \in Pollers : poll'[q].pc # "idle" => poll'[q] = poll[q]
    BY <1>2
  <2>2. \A e \in Flows : Told(e)' = Told(e) /\ flow'[e] = flow[e]
    BY <1>2 DEF Told
  <2>3. \A q \in Pollers : poll'[q].pc \in {"gate", "save"} => poll'[q].flow \in Flows
    BY <2>1 DEF HasFlow
  <2> QED BY <1>2, <2>1, <2>2, <2>3 DEF GrantInv, Sound
<1>4. DG!Issue(d)
  BY <1>1, <1>2, PhaseNames DEF DG!Issue
<1> QED BY <1>1, <1>3, <1>4 DEF Mapped, DG!Next

\* Flows lapse.
LEMMA LapseMapped ==
    ASSUME Ready, UNCHANGED <<poll, approvals, tokens>>, NEW ds \in SUBSET Flows,
           \A d \in ds : flow[d].status \in {"pending", "approved"},
           flow' = [d \in Flows |-> IF d \in ds THEN [flow[d] EXCEPT !.status = "gone"]
                                                ELSE flow[d]]
    PROVE  Mapped
<1> USE DEF Ready, TypeInv, TypeOK
<1>1. \A d \in Flows : /\ flow'[d].status = IF d \in ds THEN "gone" ELSE flow[d].status
                       /\ flow'[d].grant = flow[d].grant
  BY DEF Records
<1>2. GrantInv'
  BY <1>1 DEF GrantInv, Sound, Told, HasFlow
<1>3. DG!Lapse(ds)
  <2>1. \A d \in ds : DG!Undecided(d)
    BY UndecidedIs
  <2>2. Phases' = [d \in Flows |-> IF d \in ds THEN "lapsed" ELSE Phases[d]] /\ Holds' = Holds
    BY <1>1, PhaseNames DEF Phases, Holds
  <2> QED BY <2>1, <2>2 DEF DG!Lapse, Phases, Holds
<1> QED BY <1>2, <1>3 DEF Mapped, DG!Next

\* A step that changes no record and at most what one poll has in hand.
Reads(p) ==
    /\ UNCHANGED <<flow, approvals, tokens>>
    /\ \A q \in Pollers \ {p} : poll'[q] = poll[q]
    /\ poll'[p].pc # "issue"
    /\ poll'[p].pc \in {"gate", "save"} =>
           /\ poll'[p].seen.status \in {"pending", "approved"}
           /\ Sound(poll'[p].flow, poll'[p].seen)
    /\ poll'[p].pc = "redeem" =>
           /\ flow[poll'[p].flow].status = "approved"
           /\ poll'[p].seen.grant = flow[poll'[p].flow].grant

LEMMA ReadsMapped ==
    ASSUME Ready, NEW p \in Pollers, Reads(p)
    PROVE  Mapped
<1> USE DEF Ready, Reads
<1>2. \A d : Told(d)' = Told(d)
  BY DEF Told
<1>3. ASSUME NEW q \in Pollers
      PROVE  /\ poll'[q].pc \in {"gate", "save"} =>
                     /\ poll'[q].seen.status \in {"pending", "approved"}
                     /\ Sound(poll[q].flow, poll[q].seen)'
             /\ poll'[q].pc = "issue" => poll'[q].seen.grant = flow'[poll'[q].flow].grant
             /\ poll'[q].pc = "redeem" /\ backend = "sql" =>
                    /\ flow'[poll'[q].flow].status \notin {"new", "pending"}
                    /\ poll'[q].seen.grant = flow'[poll'[q].flow].grant
  <2>1. CASE q = p
    BY <1>2, <2>1 DEF Sound
  <2>2. CASE q # p
    <3>1. poll'[q] = poll[q]
      BY <2>2
    <3> QED BY <1>2, <3>1 DEF Sound, GrantInv
  <2> QED BY <2>1, <2>2
<1>4. \A d \in Flows : Sound(d, flow[d])'
  BY <1>2 DEF Sound, GrantInv
<1>5. GrantInv'
  BY <1>3, <1>4 DEF GrantInv
<1> QED BY <1>5, SameGrants DEF Mapped

\* A step that changes neither a record nor a poll.
LEMMA ElseMapped ==
    ASSUME Ready, UNCHANGED <<flow, poll, approvals, tokens>>
    PROVE  Mapped
<1>1. GrantInv'
  BY DEF Ready, GrantInv, Sound, Told
<1> QED BY <1>1, SameGrants DEF Mapped, Ready

LEMMA GrantCreate ==
    ASSUME Ready, NEW c \in Creators, CreateStep(c)
    PROVE  Mapped
<1>1. UNCHANGED <<poll, approvals, tokens>>
  BY DEF CreateStep, CountFlows, InsertFlow, RunOutOfCodes, ReserveCode, StoreFlow,
         TrackFlow, CrashCreate
<1>2. CASE flow' = flow
  BY <1>1, <1>2, ElseMapped
<1>3. CASE InsertFlow(c)
  BY <1>1, <1>3, OpenMapped DEF InsertFlow, Drawn
<1>4. CASE StoreFlow(c) /\ flow' # flow
  <2>1. /\ create[c].flow \in Flows /\ create[c].code \in UserCodes
        /\ flow[create[c].flow].status = "new"
    BY <1>4 DEF StoreFlow, Ready, TypeInv, TypeOK, HasFlow, Creates, RedeemInv, StoreInv
  <2> QED BY <1>1, <1>4, <2>1, OpenMapped DEF StoreFlow
<1> QED BY <1>2, <1>3, <1>4 DEF CreateStep, CountFlows, RunOutOfCodes, ReserveCode, TrackFlow,
           CrashCreate

LEMMA GrantApprove ==
    ASSUME Ready, NEW a \in Approvers, ApproveStep(a)
    PROVE  Mapped
<1> DEFINE d == approve[a].flow
<1>1. UNCHANGED <<poll, tokens>>
  BY DEF ApproveStep, ReadChallenge, BurnChallenge, LookUpCode, ApproveSQL, ApproveRead,
         ApproveSave, CrashApprove
<1>2. CASE UNCHANGED <<flow, approvals>>
  BY <1>1, <1>2, ElseMapped
<1>3. CASE ApproveSQL(a) /\ ~ UNCHANGED <<flow, approvals>>
  <2>1. /\ d \in Flows /\ flow[d] \in Records /\ flow[d].status = "pending"
    BY <1>3 DEF ApproveSQL, Approvable, Ready, TypeInv, TypeOK, HasFlow
  <2>2. PICK g \in Grants : flow' = [flow EXCEPT ![d] = Approved(flow[d], g)] /\ Report(d, g)
    BY <1>3 DEF ApproveSQL
  <2> QED BY <1>1, <2>1, <2>2, GrantMapped
<1>4. CASE ApproveSave(a) /\ ~ UNCHANGED <<flow, approvals>>
  <2>1. /\ d \in Flows /\ flow[d].code \in UserCodes /\ Exists(d) /\ backend # "sql"
    BY <1>4 DEF ApproveSave, Ready, TypeInv, TypeOK, HasFlow, Records, SidesInv
  <2>2. PICK g \in Grants :
            flow' = Save(d, Approved(Pending(flow[d].code), g)) /\ Report(d, g)
    BY <1>4 DEF ApproveSave
  <2>3. PICK r \in Records : flow' = [flow EXCEPT ![d] = Approved(r, g)]
    BY <2>1, <2>2, PendingType DEF Save
  <2> QED BY <1>1, <2>1, <2>2, <2>3, GrantMapped DEF Exists
<1> QED BY <1>2, <1>3, <1>4 DEF ApproveStep, ReadChallenge, BurnChallenge, LookUpCode,
           ApproveRead, CrashApprove

LEMMA GrantPoll ==
    ASSUME Ready, NEW p \in Pollers, PollAction(p)
    PROVE  Mapped
<1> DEFINE d == poll[p].flow
<1> USE DEF TypeInv, TypeOK, PollTo, IdlePoll
<1>1. CASE UNCHANGED <<flow, approvals, tokens>> /\ poll'[p].pc \in {"idle", "read"}
           /\ \A q \in Pollers \ {p} : poll'[q] = poll[q]
  BY <1>1, ReadsMapped DEF Reads
<1>2. CASE CloseGateSQL(p) \/ CrashPoll(p)
  BY <1>1, <1>2 DEF CloseGateSQL, CrashPoll, Answer, Polls, Ready
<1>3. CASE CloseGateRedis(p)
  <2>1. /\ [poll[p] EXCEPT !.pc = "save"].flow = poll[p].flow
        /\ [poll[p] EXCEPT !.pc = "save"].seen = poll[p].seen
        /\ [poll[p] EXCEPT !.pc = "save"].pc = "save"
    BY DEF Polls, Ready
  <2> QED BY <1>3, <2>1, ReadsMapped DEF CloseGateRedis, Reads, Ready, GrantInv
<1>4. CASE PollSave(p)
  <2>1. /\ d \in Flows /\ backend # "sql" /\ poll[p].pc = "save"
        /\ UNCHANGED <<approvals, tokens>>
    BY <1>4 DEF PollSave, Ready, HasFlow, SidesInv
  <2>2. CASE Exists(d)
    <3>1. PICK q \in Polls : q.pc \in {"read", "idle"} /\ poll' = [poll EXCEPT ![p] = q]
      <4>1. [poll[p] EXCEPT !.pc = "read"] \in Polls /\ [poll[p] EXCEPT !.pc = "read"].pc = "read"
        BY DEF Polls, Ready
      <4> QED BY <1>4, <2>2, <4>1, IdleTypes DEF PollSave, Answer
    <3>2. flow' = [flow EXCEPT ![d] = poll[p].seen]
      BY <1>4, <2>2 DEF PollSave, Save
    <3> QED BY <2>1, <2>2, <3>1, <3>2, SetBackMapped DEF Exists
  <2>3. CASE ~ Exists(d)
    BY <1>1, <1>4, <2>3 DEF PollSave, Save, Ready
  <2> QED BY <2>2, <2>3
<1>5. CASE ConsumeRead(p)
  BY <1>5, ReadsMapped DEF ConsumeRead, Reads, Ready
<1>6. CASE RedeemSQL(p) /\ Redeemable(d)
  <2>1. /\ d \in Flows /\ poll[p].seen.grant = flow[d].grant /\ flow[d].status = "approved"
    BY <1>6 DEF RedeemSQL, Redeemable, Ready, HasFlow, GrantInv
  <2>2. PICK q \in Polls : /\ q.pc = "issue" /\ q.flow = d /\ q.seen = poll[p].seen
                           /\ poll' = [poll EXCEPT ![p] = q]
    BY <1>6 DEF RedeemSQL, Polls, Ready
  <2>3. flow' = [flow EXCEPT ![d].status = "redeemed"] /\ UNCHANGED <<approvals, tokens>>
    BY <1>6 DEF RedeemSQL
  <2> QED BY <2>1, <2>2, <2>3, RedeemMapped
<1>7. CASE RedeemSQL(p) /\ ~ Redeemable(d)
  BY <1>1, <1>7 DEF RedeemSQL, Ready
<1>8. CASE RedeemRedis(p) /\ Exists(d)
  <2>1. d \in Flows /\ flow[d] \in Records /\ backend # "sql"
    BY <1>8 DEF RedeemRedis, Ready, HasFlow
  <2>2. PICK q \in Polls : /\ q.pc = "issue" /\ q.flow = d /\ q.seen = flow[d]
                           /\ poll' = [poll EXCEPT ![p] = q]
    <3>1. [pc |-> "issue", flow |-> d, seen |-> flow[d]] \in Polls
      BY <2>1 DEF Polls
    <3> QED BY <1>8, <3>1 DEF RedeemRedis
  <2>3. flow' = [flow EXCEPT ![d].status = "redeemed"] /\ UNCHANGED <<approvals, tokens>>
    BY <1>8 DEF RedeemRedis
  <2> QED BY <1>8, <2>1, <2>2, <2>3, RedeemMapped DEF Exists
<1>9. CASE RedeemRedis(p) /\ ~ Exists(d)
  BY <1>1, <1>9 DEF RedeemRedis, Ready
<1>10. CASE IssueToken(p)
  BY <1>10, IssueMapped
<1>11. ASSUME NEW e \in Flows, PollRead(p, e) PROVE Mapped
  BY <1>11, ReadsMapped DEF PollRead, Reads, Alive, Exists, Ready, GrantInv
<1> QED BY <1>2, <1>3, <1>4, <1>5, <1>6, <1>7, <1>8, <1>9, <1>10, <1>11
        DEF PollAction, PollStep

LEMMA GrantTime ==
    ASSUME Ready, TimeStep \/ UNCHANGED vars
    PROVE  Mapped
<1>1. UNCHANGED <<poll, approvals, tokens>>
  BY DEF TimeStep, Lapse, OpenGate, LapseCode, DevicePage, LapseChallenge, PurgeExpired, vars
<1>2. CASE flow' = flow
  BY <1>1, <1>2, ElseMapped
<1>3. ASSUME NEW d \in Flows, Lapse(d), flow' # flow PROVE Mapped
  <2>1. flow[d].status \in {"pending", "approved"}
    BY <1>3 DEF Lapse, Alive, Exists
  <2>2. flow' = [e \in Flows |-> IF e \in {d} THEN [flow[e] EXCEPT !.status = "gone"] ELSE flow[e]]
    BY <1>3 DEF Lapse, Ready, TypeInv, TypeOK
  <2> QED BY <1>1, <2>1, <2>2, LapseMapped
<1>4. CASE PurgeExpired
  <2> DEFINE ds == {d \in Flows : Purgeable(d)}
  <2>1. \A d \in ds : flow[d].status \in {"pending", "approved"}
    BY DEF Purgeable, Exists
  <2>2. flow' = [d \in Flows |-> IF d \in ds THEN [flow[d] EXCEPT !.status = "gone"] ELSE flow[d]]
    BY <1>4 DEF PurgeExpired
  <2> HIDE DEF ds
  <2>3. ds \in SUBSET Flows
    BY DEF ds
  <2> QED BY <1>1, <2>1, <2>2, <2>3, LapseMapped
<1> QED BY <1>2, <1>3, <1>4 DEF TimeStep, OpenGate, LapseCode, DevicePage, LapseChallenge, vars

LEMMA GrantStep ==
    TypeInv /\ RedeemInv /\ SidesInv /\ GrantInv /\ [Next]_vars => Mapped
<1> SUFFICES ASSUME TypeInv, RedeemInv, SidesInv, GrantInv, [Next]_vars PROVE Mapped
  OBVIOUS
<1>1. Ready
  BY BackendFixed DEF Ready
<1> QED BY <1>1, NextCases, GrantCreate, GrantApprove, GrantPoll, GrantTime

\* Every interleaving of requests is one of single steps of a grant: with the SQL
\* store opened, granted once, redeemed once, its token what was granted; with Redis
\* granted again or set back at times, and still redeemed once.
THEOREM FlowsAreGrants == Spec => ImplementsDeviceGrant
<1>1. Init => DG!Init
  BY PhaseNames DEF Init, DG!Init, NewRecord
<1>2. Mapped => GrantInv' /\ [DG!Next]_(DG!vars)
  BY DEF Mapped
<1> QED BY TypeInit, TypeStep, RedeemInit, RedeemStep, GrantInit, SidesStep, GrantStep,
           <1>1, <1>2, PTL
        DEF Spec, ImplementsDeviceGrant, DG!Spec

-----------------------------------------------------------------------------
(* What follows from being a grant.                                          *)

PhaseAt(d) == PhaseOf(flow[d].status)

\* What a flow holds was granted, its token is what it held; and a one-shot store
\* granted it once.
HeldInv ==
    \A d \in Flows :
        /\ flow[d].grant \in Told(d) \cup {NoGrant}
        /\ tokens[d] # <<>> => PhaseAt(d) = "redeemed" /\ tokens[d] = <<flow[d].grant>>
        /\ backend = "sql" =>
             /\ PhaseAt(d) \in {"unused", "open"} => approvals[d] = <<>>
             /\ PhaseAt(d) \in {"granted", "redeemed"} => approvals[d] = <<flow[d].grant>>
             /\ Len(approvals[d]) <= 1

LEMMA HeldInit == Init => HeldInv
BY PhaseNames DEF Init, HeldInv, PhaseAt, Told, NewRecord

\* What each abstract step does to one flow and leaves of the others.
LEMMA HeldStep ==
    ASSUME HeldInv, TypeOK, TypeOK', backend' = backend, DG!Next
    PROVE  HeldInv'
<1> USE DEF TypeOK, HeldInv
<1> DEFINE Same(d) == /\ PhaseAt(d)' = PhaseAt(d) /\ flow'[d].grant = flow[d].grant
                      /\ approvals'[d] = approvals[d] /\ tokens'[d] = tokens[d]
           Fine(d) == /\ flow[d].grant \in Told(d) \cup {NoGrant}
                      /\ tokens[d] # <<>> => PhaseAt(d) = "redeemed" /\ tokens[d] = <<flow[d].grant>>
                      /\ backend = "sql" =>
                           /\ PhaseAt(d) \in {"unused", "open"} => approvals[d] = <<>>
                           /\ PhaseAt(d) \in {"granted", "redeemed"} => approvals[d] = <<flow[d].grant>>
                           /\ Len(approvals[d]) <= 1
<1>1. \A d \in Flows : Same(d) => Fine(d)'
  BY DEF Told
<1>2. ASSUME NEW d \in Flows, \A e \in Flows \ {d} : Same(e), Fine(d)'
      PROVE  HeldInv'
  BY <1>1, <1>2
<1>3. ASSUME NEW d \in Flows, DG!Open(d) PROVE HeldInv'
  <2>1. \A e \in Flows \ {d} : Same(e)
    BY <1>3 DEF DG!Open, PhaseAt
  <2>2. /\ PhaseAt(d) = "unused" /\ PhaseAt(d)' = "open" /\ flow'[d].grant = flow[d].grant
        /\ approvals'[d] = approvals[d] /\ tokens'[d] = tokens[d]
    BY <1>3 DEF DG!Open, PhaseAt
  <2>3. Fine(d)'
    BY <2>2 DEF Told
  <2> QED BY <1>2, <2>1, <2>3
<1>4. ASSUME NEW d \in Flows, NEW g \in Grants, DG!Grant(d, g) PROVE HeldInv'
  <2>1. \A e \in Flows \ {d} : Same(e)
    BY <1>4 DEF DG!Grant, PhaseAt
  <2>2. /\ PhaseAt(d) \in {"open", "granted"} /\ (backend = "sql" => PhaseAt(d) = "open")
        /\ PhaseAt(d)' = "granted" /\ flow'[d].grant = g
        /\ approvals'[d] = Append(approvals[d], g) /\ tokens'[d] = tokens[d]
    BY <1>4 DEF DG!Grant, DG!Undecided, PhaseAt
  <2>3. tokens'[d] = <<>>
    <3>1. tokens[d] # <<>> => PhaseAt(d) = "redeemed"
      OBVIOUS
    <3> QED BY <2>2, <3>1
  <2>4. g \in Told(d)'
    <3>1. /\ approvals[d] \in Seq(Grants) /\ Len(approvals[d]) + 1 \in DOMAIN approvals'[d]
          /\ approvals'[d][Len(approvals[d]) + 1] = g
      BY <2>2
    <3> QED BY <3>1 DEF Told
  <2>5. backend = "sql" => approvals'[d] = <<g>>
    <3>1. backend = "sql" => approvals[d] = <<>>
      BY <2>2
    <3>2. Append(<<>>, g) = <<g>>
      OBVIOUS
    <3> QED BY <2>2, <3>1, <3>2
  <2>6. Fine(d)'
    BY <2>2, <2>3, <2>4, <2>5
  <2> QED BY <1>2, <2>1, <2>6
<1>5. ASSUME NEW d \in Flows, DG!SetBack(d) PROVE HeldInv'
  <2>1. \A e \in Flows \ {d} : Same(e)
    BY <1>5 DEF DG!SetBack, PhaseAt
  <2>2. /\ backend # "sql" /\ PhaseAt(d) \in {"open", "granted"}
        /\ approvals'[d] = approvals[d] /\ tokens'[d] = tokens[d]
        /\ flow'[d].grant \in Told(d) \cup {NoGrant}
    BY <1>5 DEF DG!SetBack, DG!Undecided, PhaseAt, Told
  <2>3. Fine(d)'
    BY <2>2 DEF Told
  <2> QED BY <1>2, <2>1, <2>3
<1>6. ASSUME NEW d \in Flows, DG!Redeem(d) PROVE HeldInv'
  <2>1. \A e \in Flows \ {d} : Same(e)
    BY <1>6 DEF DG!Redeem, PhaseAt
  <2>2. /\ PhaseAt(d) \in {"open", "granted"} /\ (backend = "sql" => PhaseAt(d) = "granted")
        /\ PhaseAt(d)' = "redeemed" /\ flow'[d].grant = flow[d].grant
        /\ approvals'[d] = approvals[d] /\ tokens'[d] = tokens[d]
    BY <1>6 DEF DG!Redeem, DG!Undecided, PhaseAt
  <2>3. Fine(d)'
    BY <2>2 DEF Told
  <2> QED BY <1>2, <2>1, <2>3
<1>7. ASSUME NEW d \in Flows, DG!Issue(d) PROVE HeldInv'
  <2>1. \A e \in Flows \ {d} : Same(e)
    BY <1>7 DEF DG!Issue, PhaseAt
  <2>2. /\ PhaseAt(d) = "redeemed" /\ PhaseAt(d)' = "redeemed" /\ flow'[d].grant = flow[d].grant
        /\ approvals'[d] = approvals[d] /\ tokens'[d] = <<flow[d].grant>>
    BY <1>7 DEF DG!Issue, PhaseAt
  <2>3. Fine(d)'
    BY <2>2 DEF Told
  <2> QED BY <1>2, <2>1, <2>3
<1>8. ASSUME NEW ds \in SUBSET Flows, DG!Lapse(ds) PROVE HeldInv'
  <2>1. \A d \in Flows \ ds : Same(d)
    BY <1>8 DEF DG!Lapse, PhaseAt
  <2>2. \A d \in ds :
           /\ PhaseAt(d) \in {"open", "granted"} /\ PhaseAt(d)' = "lapsed"
           /\ flow'[d].grant = flow[d].grant
           /\ approvals'[d] = approvals[d] /\ tokens'[d] = tokens[d]
    BY <1>8 DEF DG!Lapse, DG!Undecided, PhaseAt
  <2>3. ASSUME NEW d \in ds PROVE Fine(d)'
    <3>1. d \in Flows /\ Fine(d)
      OBVIOUS
    <3>2. tokens'[d] = <<>> /\ Told(d)' = Told(d)
      BY <2>2, <3>1 DEF Told
    <3> QED BY <2>2, <3>1, <3>2
  <2> QED BY <1>1, <2>1, <2>3
<1> QED BY <1>3, <1>4, <1>5, <1>6, <1>7, <1>8 DEF DG!Next

LEMMA HeldKept == HeldInv /\ TypeInv /\ TypeInv' /\ [Next]_vars /\ [DG!Next]_(DG!vars) => HeldInv'
<1> SUFFICES ASSUME HeldInv, TypeInv, TypeInv', [Next]_vars, [DG!Next]_(DG!vars) PROVE HeldInv'
  OBVIOUS
<1>1. backend' = backend /\ TypeOK /\ TypeOK'
  BY BackendFixed DEF TypeInv
<1>2. CASE UNCHANGED DG!vars
  <2>1. \A d \in Flows : /\ PhaseAt(d)' = PhaseAt(d) /\ flow'[d].grant = flow[d].grant
                         /\ approvals'[d] = approvals[d] /\ tokens'[d] = tokens[d]
    BY <1>2 DEF DG!vars, PhaseAt
  <2> QED BY <1>1, <2>1 DEF HeldInv, Told
<1> QED BY <1>1, <1>2, HeldStep

LEMMA AlwaysHeld == Spec => [](HeldInv /\ TypeInv)
<1>1. Mapped => GrantInv' /\ [DG!Next]_(DG!vars)
  BY DEF Mapped
<1> QED BY TypeInit, TypeStep, RedeemInit, RedeemStep, GrantInit, SidesStep, GrantStep,
           HeldInit, HeldKept, <1>1, PTL DEF Spec

\* A token carries what an approver of its flow was told they granted, on either
\* store, but for the flows that Redis deletes after they were set back.
THEOREM GrantsAreCarried == Spec => []TokensCarryGrants
<1>1. HeldInv /\ TypeInv => TokensCarryGrants
  <2> SUFFICES ASSUME HeldInv, TypeInv, NEW d \in Flows, tokens[d] # <<>>
               PROVE  \/ \E i \in DOMAIN approvals[d] : tokens[d] = <<approvals[d][i]>>
                      \/ backend = "redis" /\ tokens[d] = <<NoGrant>>
    BY DEF TokensCarryGrants
  <2>1. tokens[d] = <<flow[d].grant>> /\ flow[d].grant \in Told(d) \cup {NoGrant}
    BY DEF HeldInv
  <2>2. CASE flow[d].grant \in Told(d)
    BY <2>1, <2>2 DEF Told
  <2>3. CASE backend = "sql"
    <3>1. approvals[d] = <<flow[d].grant>>
      BY <2>3 DEF HeldInv
    <3>2. 1 \in DOMAIN approvals[d] /\ approvals[d][1] = flow[d].grant
      BY <3>1
    <3> QED BY <2>1, <3>2
  <2>4. backend \in {"sql", "redis"}
    BY BackendsAssumption DEF TypeInv, TypeOK
  <2> QED BY <2>1, <2>2, <2>3, <2>4
<1> QED BY AlwaysHeld, <1>1, PTL

\* With the SQL store no approval of a flow succeeds after one that did.
THEOREM OneShotOnSQL == Spec => [](backend = "sql" => ApproveIsOneShot)
<1>1. HeldInv => (backend = "sql" => ApproveIsOneShot)
  BY DEF HeldInv, ApproveIsOneShot
<1> QED BY AlwaysHeld, <1>1, PTL

-----------------------------------------------------------------------------
(* How far the cap on outstanding flows is exceeded. *)

Live == {d \in Flows : Alive(d)}

\* Requests that have counted and not yet stored.
Waiting == {c \in Creators : create[c].pc \in {"mint", "store"}}

\* On Redis, requests that have stored and not yet put their flow in the backlog.
Tracking == {c \in Creators : create[c].pc = "track"}

Tracked == {create[c].flow : c \in Tracking}

\* Flows that are there, and that nobody counts or ever will.
Lost == Live \ (backlog \cup Tracked)

\* A flow that is there and those still to come were all counted for, but for the
\* requests that counted at the same time; a flow that is lost has cost a crash.
CapInv ==
    /\ IsFiniteSet(Live)
    /\ Cardinality(Live) + Cardinality(Waiting)
           <= MaxOutstanding + Cardinality(Creators) - 1 + crashes
    /\ backend = "redis" => Cardinality(Lost) <= crashes

LEMMA CreatorsAreCounted ==
    /\ Cardinality(Creators) \in Nat
    /\ \A S \in SUBSET Creators : IsFiniteSet(S) /\ Cardinality(S) \in Nat
BY CreatorsAssumption, FS_CardinalityType, FS_Subset

\* A part of a finite set is finite, and has no more elements.
LEMMA PartIsSmaller ==
    ASSUME NEW S, IsFiniteSet(S), NEW T, T \subseteq S
    PROVE  /\ IsFiniteSet(T) /\ Cardinality(T) \in Nat /\ Cardinality(S) \in Nat
           /\ Cardinality(T) <= Cardinality(S)
BY FS_Subset, FS_CardinalityType

\* One more element at most.
LEMMA OneMore ==
    ASSUME NEW S, IsFiniteSet(S), NEW x, NEW T, T \subseteq S \cup {x}
    PROVE  /\ IsFiniteSet(T) /\ Cardinality(T) \in Nat /\ Cardinality(S) \in Nat
           /\ Cardinality(T) <= Cardinality(S) + 1
<1>1. Cardinality(S) \in Nat
  BY FS_CardinalityType
<1>2. /\ IsFiniteSet(S \cup {x})
      /\ Cardinality(S \cup {x}) = IF x \in S THEN Cardinality(S) ELSE Cardinality(S) + 1
  BY FS_AddElement
<1> QED BY <1>1, <1>2, PartIsSmaller

\* Two sets together have no more elements than each for itself.
LEMMA TogetherIsSmaller ==
    ASSUME NEW S, IsFiniteSet(S), NEW T, IsFiniteSet(T)
    PROVE  /\ IsFiniteSet(S \cup T) /\ Cardinality(S \cup T) \in Nat
           /\ Cardinality(S \cup T) <= Cardinality(S) + Cardinality(T)
<1>1. /\ IsFiniteSet(S \cup T)
      /\ Cardinality(S \cup T) = Cardinality(S) + Cardinality(T) - Cardinality(S \cap T)
  BY FS_Union
<1>2. Cardinality(S \cap T) \in Nat /\ Cardinality(S) \in Nat
  BY PartIsSmaller
<1>3. Cardinality(T) \in Nat /\ Cardinality(S \cup T) \in Nat
  BY <1>1, FS_CardinalityType
<1> QED BY <1>1, <1>2, <1>3

LEMMA ApartAddsUp ==
    ASSUME NEW S, IsFiniteSet(S), NEW T, IsFiniteSet(T), S \cap T = {}
    PROVE  Cardinality(S \cup T) = Cardinality(S) + Cardinality(T)
<1>1. Cardinality(S \cup T) = Cardinality(S) + Cardinality(T) - Cardinality(S \cap T)
  BY FS_Union
<1>2. Cardinality(S \cap T) = 0
  BY FS_EmptySet
<1> QED BY <1>1, <1>2, FS_CardinalityType

\* Every flow that is being tracked has a request of its own.
LEMMA TrackedByRequests ==
    IsFiniteSet(Tracked) /\ Cardinality(Tracked) <= Cardinality(Tracking)
<1> DEFINE f == [c \in Tracking |-> create[c].flow]
<1>1. IsFiniteSet(Tracking)
  BY CreatorsAreCounted DEF Tracking
<1>2. f \in Surjection(Tracking, Tracked)
  BY DEF Surjection, Tracked
<1> HIDE DEF f
<1> QED BY <1>1, <1>2, FS_Surjection

\* A request that counts adds itself to those that will store, and has seen every
\* flow but the ones being tracked and the lost.
LEMMA CapCount ==
    ASSUME TypeInv, CapInv, NEW c \in Creators, CountFlows(c)
    PROVE  CapInv'
<1>1. /\ Live' = Live /\ Tracking' = Tracking /\ Tracked' = Tracked
      /\ Waiting' = Waiting \cup {c} /\ c \notin Waiting
      /\ crashes' = crashes /\ backend' = backend /\ Lost' = Lost
  <2>1. create \in [Creators -> Creates]
    BY DEF TypeInv, TypeOK
  <2>2. /\ create' = [create EXCEPT ![c] = [IdleCreate EXCEPT !.pc = "mint"]]
        /\ create[c].pc = "idle" /\ UNCHANGED <<flow, lapsed, crashes, backend>>
        /\ backlog' = {d \in backlog : Alive(d)}
    BY DEF CountFlows, CreateTo
  <2>3. /\ create'[c].pc = "mint"
        /\ \A b \in Creators \ {c} : create'[b] = create[b]
    BY <2>1, <2>2 DEF IdleCreate
  <2>4. Live' = Live
    BY <2>2 DEF Live, Alive, Exists
  <2>5. Tracking' = Tracking /\ Waiting' = Waiting \cup {c} /\ c \notin Waiting
    BY <2>2, <2>3 DEF Tracking, Waiting
  <2>6. \A b \in Tracking : create'[b] = create[b]
    BY <2>2, <2>3 DEF Tracking
  <2>7. Tracked' = Tracked
    BY <2>5, <2>6 DEF Tracked
  <2>8. Lost' = Lost
    BY <2>2, <2>4, <2>7 DEF Lost, Live
  <2> QED BY <2>2, <2>4, <2>5, <2>7, <2>8
<1>2. /\ IsFiniteSet(Outstanding) /\ Cardinality(Outstanding) <= MaxOutstanding - 1
      /\ Cardinality(Outstanding) \in Nat
  <2>1. Outstanding \subseteq Live
    BY DEF Outstanding, Live
  <2>2. Cardinality(Outstanding) < MaxOutstanding
    BY DEF CountFlows
  <2> QED BY <2>1, <2>2, PartIsSmaller, LimitsAssumption DEF CapInv
<1>3. Cardinality(Live) <= Cardinality(Outstanding) + Cardinality(Tracking) + crashes
  <2>1. crashes \in Nat /\ Cardinality(Tracking) \in Nat
    BY CreatorsAreCounted DEF TypeInv, TypeOK, Tracking
  <2>2. CASE backend = "sql"
    <3>1. Live \subseteq Outstanding
      BY <2>2 DEF Live, Outstanding
    <3> QED BY <1>2, <2>1, <3>1, PartIsSmaller
  <2>3. CASE backend = "redis"
    <3>1. Live \subseteq Outstanding \cup (Tracked \cup Lost)
      BY DEF Live, Outstanding, Lost
    <3>2. IsFiniteSet(Lost) /\ Cardinality(Lost) \in Nat
      BY PartIsSmaller DEF CapInv, Lost
    <3>3. /\ IsFiniteSet(Tracked \cup Lost)
          /\ Cardinality(Tracked \cup Lost) <= Cardinality(Tracked) + Cardinality(Lost)
          /\ Cardinality(Tracked \cup Lost) \in Nat /\ Cardinality(Tracked) \in Nat
      BY <3>2, TrackedByRequests, TogetherIsSmaller, FS_CardinalityType
    <3>4. /\ IsFiniteSet(Outstanding \cup (Tracked \cup Lost))
          /\ Cardinality(Outstanding \cup (Tracked \cup Lost))
                 <= Cardinality(Outstanding) + Cardinality(Tracked \cup Lost)
      BY <1>2, <3>3, TogetherIsSmaller
    <3>5. Cardinality(Live) <= Cardinality(Outstanding \cup (Tracked \cup Lost))
      BY <3>1, <3>4, PartIsSmaller
    <3> QED BY <1>2, <2>1, <2>3, <3>2, <3>3, <3>4, <3>5, TrackedByRequests,
               FS_CardinalityType, PartIsSmaller DEF CapInv
  <2> QED BY <2>2, <2>3, BackendsAssumption DEF TypeInv, TypeOK
<1>4. Cardinality(Waiting') + Cardinality(Tracking) <= Cardinality(Creators)
  <2>1. Waiting' \in SUBSET Creators /\ Tracking \in SUBSET Creators
    BY DEF Waiting, Tracking
  <2>2. Waiting' \cap Tracking = {}
    BY <1>1 DEF Waiting, Tracking, CountFlows
  <2>3. Cardinality(Waiting' \cup Tracking) = Cardinality(Waiting') + Cardinality(Tracking)
    <3>1. IsFiniteSet(Waiting') /\ IsFiniteSet(Tracking)
      BY <2>1, CreatorsAreCounted
    <3> QED BY <2>2, <3>1, ApartAddsUp
  <2>4. Cardinality(Waiting' \cup Tracking) <= Cardinality(Creators)
    BY <2>1, CreatorsAssumption, PartIsSmaller
  <2> QED BY <2>3, <2>4
<1>5. /\ Cardinality(Waiting') \in Nat /\ Cardinality(Tracking) \in Nat
      /\ Cardinality(Live) \in Nat /\ Cardinality(Creators) \in Nat
      /\ MaxOutstanding \in Nat /\ crashes \in Nat
  BY CreatorsAreCounted, FS_CardinalityType, LimitsAssumption
     DEF Waiting, Tracking, CapInv, TypeInv, TypeOK
<1>6. Cardinality(Live) + Cardinality(Waiting')
         <= MaxOutstanding + Cardinality(Creators) - 1 + crashes
  BY <1>2, <1>3, <1>4, <1>5
<1> QED BY <1>1, <1>6 DEF CapInv

\* A request that stores leaves the requests that wait as it adds a flow.
LEMMA CapStored ==
    ASSUME TypeInv, CapInv, NEW c \in Waiting, NEW d,
           Live' \subseteq Live \cup {d}, Waiting' \subseteq Waiting \ {c},
           backend = "redis" => Lost' \subseteq Lost,
           UNCHANGED <<backend, crashes>>
    PROVE  CapInv'
<1>1. /\ IsFiniteSet(Live') /\ Cardinality(Live') \in Nat /\ Cardinality(Live) \in Nat
      /\ Cardinality(Live') <= Cardinality(Live) + 1
  BY OneMore DEF CapInv
<1>2. IsFiniteSet(Waiting) /\ Cardinality(Waiting) \in Nat
  BY CreatorsAreCounted DEF Waiting
<1>3. IsFiniteSet(Waiting \ {c}) /\ Cardinality(Waiting \ {c}) = Cardinality(Waiting) - 1
  BY <1>2, FS_RemoveElement
<1>4. Cardinality(Waiting') \in Nat /\ Cardinality(Waiting') <= Cardinality(Waiting) - 1
  BY <1>3, PartIsSmaller
<1>5. backend = "redis" => Cardinality(Lost') <= Cardinality(Lost)
  <2>1. IsFiniteSet(Lost)
    BY PartIsSmaller DEF CapInv, Lost
  <2> QED BY <2>1, PartIsSmaller
<1>6. Cardinality(Lost) \in Nat /\ (backend = "redis" => Cardinality(Lost') \in Nat)
  <2>1. IsFiniteSet(Lost)
    BY PartIsSmaller DEF CapInv, Lost
  <2> QED BY <2>1, PartIsSmaller
<1>7. MaxOutstanding \in Nat /\ Cardinality(Creators) \in Nat /\ crashes \in Nat
  BY CreatorsAreCounted, LimitsAssumption DEF TypeInv, TypeOK
<1>8. Cardinality(Live') + Cardinality(Waiting')
         <= MaxOutstanding + Cardinality(Creators) - 1 + crashes
  BY <1>1, <1>2, <1>4, <1>7 DEF CapInv
<1>9. backend = "redis" => Cardinality(Lost') <= crashes
  BY <1>5, <1>6, <1>7 DEF CapInv
<1> QED BY <1>1, <1>8, <1>9 DEF CapInv

\* No other step adds a flow or a request that waits, and one loses a flow at most
\* when it is a crash.
LEMMA CapKept ==
    ASSUME TypeInv, TypeInv', CapInv,
           Live' \subseteq Live, Waiting' \subseteq Waiting, backend' = backend,
           crashes' >= crashes,
           backend = "redis" =>
               \/ Lost' \subseteq Lost
               \/ crashes' = crashes + 1 /\ \E d : Lost' \subseteq Lost \cup {d}
    PROVE  CapInv'
<1>1. /\ IsFiniteSet(Live') /\ Cardinality(Live') \in Nat /\ Cardinality(Live) \in Nat
      /\ Cardinality(Live') <= Cardinality(Live)
  BY PartIsSmaller DEF CapInv
<1>2. /\ IsFiniteSet(Waiting) /\ Cardinality(Waiting) \in Nat
      /\ Cardinality(Waiting') \in Nat /\ Cardinality(Waiting') <= Cardinality(Waiting)
  <2>1. IsFiniteSet(Waiting)
    BY CreatorsAreCounted DEF Waiting
  <2> QED BY <2>1, PartIsSmaller
<1>3. /\ MaxOutstanding \in Nat /\ Cardinality(Creators) \in Nat
      /\ crashes \in Nat /\ crashes' \in Nat
  BY CreatorsAreCounted, LimitsAssumption DEF TypeInv, TypeOK
<1>4. Cardinality(Live') + Cardinality(Waiting')
         <= MaxOutstanding + Cardinality(Creators) - 1 + crashes'
  BY <1>1, <1>2, <1>3 DEF CapInv
<1>5. ASSUME backend = "redis" PROVE Cardinality(Lost') <= crashes'
  <2>1. IsFiniteSet(Lost) /\ Cardinality(Lost) \in Nat /\ Cardinality(Lost) <= crashes
    BY <1>5, PartIsSmaller DEF CapInv, Lost
  <2>2. CASE Lost' \subseteq Lost
    <3>1. Cardinality(Lost') \in Nat /\ Cardinality(Lost') <= Cardinality(Lost)
      BY <2>1, <2>2, PartIsSmaller
    <3> QED BY <1>3, <2>1, <3>1
  <2>3. ASSUME NEW d, crashes' = crashes + 1, Lost' \subseteq Lost \cup {d}
        PROVE  Cardinality(Lost') <= crashes'
    <3>1. Cardinality(Lost') \in Nat /\ Cardinality(Lost') <= Cardinality(Lost) + 1
      BY <2>1, <2>3, OneMore
    <3> QED BY <1>3, <2>1, <2>3, <3>1
  <2> QED BY <1>5, <2>2, <2>3
<1> QED BY <1>1, <1>4, <1>5 DEF CapInv

LEMMA CapCreate ==
    ASSUME TypeInv, TypeInv', CapInv, NEW c \in Creators, CreateStep(c)
    PROVE  CapInv'
<1>1. create \in [Creators -> Creates] /\ flow \in [Flows -> Records] /\ crashes \in Nat
  BY DEF TypeInv, TypeOK
<1>2. ASSUME NEW r, CreateTo(c, r)
      PROVE  /\ create'[c] = r /\ \A b \in Creators \ {c} : create'[b] = create[b]
             /\ create[c].pc # "track" => Tracked \subseteq Tracked'
             /\ r.pc \notin {"mint", "store"} => Waiting' \subseteq Waiting \ {c}
             /\ c \in Waiting => Waiting' \subseteq Waiting
  <2>1. create'[c] = r /\ \A b \in Creators \ {c} : create'[b] = create[b]
    BY <1>1, <1>2 DEF CreateTo
  <2>2. ASSUME create[c].pc # "track" PROVE Tracked \subseteq Tracked'
    BY <2>1, <2>2 DEF Tracked, Tracking
  <2> QED BY <2>1, <2>2 DEF Waiting
<1>3. IdleCreate.pc = "idle"
  BY DEF IdleCreate
<1>4. ASSUME UNCHANGED <<flow, lapsed>> PROVE Live' = Live
  BY <1>4 DEF Live, Alive, Exists
<1>5. ASSUME NEW d \in Flows, NEW r, flow' = [flow EXCEPT ![d] = r], UNCHANGED lapsed
      PROVE  Live' \subseteq Live \cup {d}
  BY <1>1, <1>5 DEF Live, Alive, Exists
<1>6. CASE CountFlows(c)
  BY <1>6, CapCount
<1>7. CASE InsertFlow(c)
  <2>1. PICK d \in Flows, u \in UserCodes : flow' = [flow EXCEPT ![d] = Pending(u)]
    BY <1>7 DEF InsertFlow
  <2>2. c \in Waiting /\ CreateTo(c, IdleCreate) /\ backend = "sql"
        /\ UNCHANGED <<lapsed, backend, crashes>>
    BY <1>7 DEF InsertFlow, Waiting
  <2>3. Live' \subseteq Live \cup {d} /\ Waiting' \subseteq Waiting \ {c}
    BY <1>2, <1>3, <1>5, <2>1, <2>2
  <2> QED BY <2>2, <2>3, CapStored
<1>8. CASE RunOutOfCodes(c) \/ ReserveCode(c)
  <2>1. PICK r : CreateTo(c, r)
    BY <1>8 DEF RunOutOfCodes, ReserveCode
  <2>2. /\ c \in Waiting /\ create[c].pc # "track"
        /\ UNCHANGED <<flow, lapsed, backend, crashes, backlog>>
    BY <1>8 DEF RunOutOfCodes, ReserveCode, Waiting
  <2>3. Live' = Live /\ Waiting' \subseteq Waiting /\ Tracked \subseteq Tracked'
    BY <1>2, <1>4, <2>1, <2>2
  <2>4. Lost' \subseteq Lost
    BY <2>2, <2>3 DEF Lost
  <2> QED BY <1>1, <2>2, <2>3, <2>4, CapKept
<1>9. CASE StoreFlow(c)
  <2>1. /\ c \in Waiting /\ create[c].pc = "store" /\ create[c].flow \in Flows
        /\ UNCHANGED <<lapsed, backend, backlog>>
    BY <1>9 DEF StoreFlow, Waiting, TypeInv, HasFlow
  <2>2. CASE flow' = flow /\ Crash /\ CreateTo(c, IdleCreate)
    <3>1. Live' = Live /\ Waiting' \subseteq Waiting /\ Tracked \subseteq Tracked'
      BY <1>2, <1>4, <2>1, <2>2
    <3>2. Lost' \subseteq Lost /\ crashes' >= crashes
      BY <1>1, <2>1, <2>2, <3>1 DEF Lost, Crash
    <3> QED BY <2>1, <3>1, <3>2, CapKept
  <2>3. CASE /\ flow' = [flow EXCEPT ![create[c].flow] = Pending(create[c].code)]
             /\ CreateTo(c, [create[c] EXCEPT !.pc = "track"]) /\ crashes' = crashes
    <3>1. [create[c] EXCEPT !.pc = "track"].pc = "track"
          /\ [create[c] EXCEPT !.pc = "track"].flow = create[c].flow
      BY <1>1 DEF Creates
    <3>2. /\ create'[c].pc = "track" /\ create'[c].flow = create[c].flow
          /\ Waiting' \subseteq Waiting \ {c} /\ Tracked \subseteq Tracked'
      BY <1>2, <2>1, <2>3, <3>1
    <3>3. Live' \subseteq Live \cup {create[c].flow}
      BY <1>5, <2>1, <2>3
    <3>4. create[c].flow \in Tracked'
      BY <3>2 DEF Tracked, Tracking
    <3>5. Lost' \subseteq Lost
      BY <2>1, <3>2, <3>3, <3>4 DEF Lost
    <3> QED BY <2>1, <2>3, <3>2, <3>3, <3>5, CapStored
  <2> QED BY <1>9, <2>2, <2>3 DEF StoreFlow
<1>10. CASE TrackFlow(c)
  <2>1. /\ CreateTo(c, IdleCreate) /\ backlog' = backlog \cup {create[c].flow}
        /\ create[c].pc = "track" /\ UNCHANGED <<flow, lapsed, backend, crashes>>
    BY <1>10 DEF TrackFlow
  <2>2. Live' = Live /\ Waiting' \subseteq Waiting
    BY <1>2, <1>3, <1>4, <2>1
  <2>3. Tracked \subseteq Tracked' \cup {create[c].flow}
    BY <1>2, <2>1 DEF Tracked, Tracking
  <2>4. Lost' \subseteq Lost
    BY <2>1, <2>2, <2>3 DEF Lost
  <2> QED BY <1>1, <2>1, <2>2, <2>4, CapKept
<1>11. CASE CrashCreate(c)
  <2>1. /\ CreateTo(c, IdleCreate) /\ crashes' = crashes + 1
        /\ UNCHANGED <<flow, lapsed, backend, backlog>>
    BY <1>11 DEF CrashCreate, Crash
  <2>2. Live' = Live /\ Waiting' \subseteq Waiting
    BY <1>2, <1>3, <1>4, <2>1
  <2>3. Tracked \subseteq Tracked' \cup {create[c].flow}
    BY <1>2, <2>1 DEF Tracked, Tracking
  <2>4. Lost' \subseteq Lost \cup {create[c].flow}
    BY <2>1, <2>2, <2>3 DEF Lost
  <2> QED BY <1>1, <2>1, <2>2, <2>4, CapKept
<1> QED BY <1>6, <1>7, <1>8, <1>9, <1>10, <1>11 DEF CreateStep

\* Whoever approves, polls or purges adds no flow, and takes only what is gone from
\* the backlog.
LEMMA CapElse ==
    ASSUME TypeInv, TypeInv', CapInv, create' = create, backend' = backend,
           crashes' >= crashes, lapsed \subseteq lapsed',
           \A d \in Flows : Exists(d)' => Exists(d),
           \A d \in backlog : Exists(d)' => d \in backlog'
    PROVE  CapInv'
<1>1. Live' \subseteq Live
  BY DEF Live, Alive
<1>2. Waiting' = Waiting /\ Tracked' = Tracked
  BY DEF Waiting, Tracked, Tracking
<1>3. \A d \in Live' : Exists(d)'
  BY DEF Live, Alive
<1>4. Lost' \subseteq Lost
  BY <1>1, <1>2, <1>3 DEF Lost
<1> QED BY <1>1, <1>2, <1>4, CapKept

LEMMA SaveAddsNothing ==
    ASSUME flow \in [Flows -> Records], NEW d \in Flows, NEW r, flow' = Save(d, r)
    PROVE  \A e \in Flows : Exists(e)' => Exists(e)
BY DEF Save, Exists

LEMMA CapApprove ==
    ASSUME TypeInv, TypeInv', CapInv, NEW a \in Approvers, ApproveStep(a)
    PROVE  CapInv'
<1>1. flow \in [Flows -> Records] /\ crashes \in Nat
  BY DEF TypeInv, TypeOK
<1>2. UNCHANGED <<create, backend, lapsed, backlog>> /\ crashes' >= crashes
  <2>1. UNCHANGED <<create, backend, lapsed, backlog>>
    BY DEF ApproveStep, ReadChallenge, BurnChallenge, LookUpCode, ApproveSQL, ApproveRead,
           ApproveSave, CrashApprove
  <2>2. crashes' = crashes \/ crashes' = crashes + 1
    BY DEF ApproveStep, ReadChallenge, BurnChallenge, LookUpCode, ApproveSQL, ApproveRead,
           ApproveSave, CrashApprove, Crash
  <2> QED BY <1>1, <2>1, <2>2
<1>3. \A e \in Flows : Exists(e)' => Exists(e)
  <2>1. CASE flow' = flow
    BY <2>1 DEF Exists
  <2>2. ASSUME approve[a].flow \in Flows,
               \E g \in Grants : /\ Approvable(approve[a].flow)
                                 /\ flow' = [flow EXCEPT ![approve[a].flow] = Approved(@, g)]
        PROVE  \A e \in Flows : Exists(e)' => Exists(e)
    <3>1. PICK d \in Flows : Exists(d) /\ \E r : flow' = [flow EXCEPT ![d] = r]
      BY <2>2 DEF Approvable, Alive
    <3> QED BY <1>1, <3>1 DEF Exists
  <2>3. ASSUME approve[a].flow \in Flows, NEW r, flow' = Save(approve[a].flow, r)
        PROVE  \A e \in Flows : Exists(e)' => Exists(e)
    BY <1>1, <2>3, SaveAddsNothing
  <2>4. approve[a].pc \in {"approve", "save"} => approve[a].flow \in Flows
    BY DEF TypeInv, HasFlow
  <2>5. CASE ApproveSQL(a)
    BY <2>1, <2>2, <2>4, <2>5 DEF ApproveSQL
  <2>6. CASE ApproveSave(a)
    BY <2>1, <2>3, <2>4, <2>6 DEF ApproveSave
  <2>7. ~ ApproveSQL(a) /\ ~ ApproveSave(a) => flow' = flow
    BY DEF ApproveStep, ReadChallenge, BurnChallenge, LookUpCode, ApproveRead, CrashApprove
  <2> QED BY <2>1, <2>5, <2>6, <2>7
<1> QED BY <1>2, <1>3, CapElse

LEMMA CapPoll ==
    ASSUME TypeInv, TypeInv', CapInv, NEW p \in Pollers, PollAction(p)
    PROVE  CapInv'
<1>1. flow \in [Flows -> Records] /\ crashes \in Nat
  BY DEF TypeInv, TypeOK
<1>2. UNCHANGED <<create, backend, lapsed>> /\ crashes' >= crashes
  <2>1. UNCHANGED <<create, backend, lapsed>>
    BY DEF PollAction, PollStep, PollRead, CloseGateSQL, CloseGateRedis, PollSave, ConsumeRead,
           RedeemSQL, RedeemRedis, IssueToken, CrashPoll
  <2>2. crashes' = crashes \/ crashes' = crashes + 1
    BY DEF PollAction, PollStep, PollRead, CloseGateSQL, CloseGateRedis, PollSave, ConsumeRead,
           RedeemSQL, RedeemRedis, IssueToken, CrashPoll, Crash
  <2> QED BY <1>1, <2>1, <2>2
<1>3. poll[p].pc # "idle" => poll[p].flow \in Flows
  BY DEF TypeInv, HasFlow
<1>4. CASE RedeemSQL(p) \/ RedeemRedis(p)
  <2>1. PICK d \in Flows : d = poll[p].flow
    BY <1>3, <1>4 DEF RedeemSQL, RedeemRedis
  <2>2. \/ flow' = [flow EXCEPT ![d].status = "redeemed"]
        \/ flow' = flow /\ backlog' = backlog
    BY <1>4, <2>1 DEF RedeemSQL, RedeemRedis
  <2>3. backlog \ {d} \subseteq backlog'
    BY <1>4, <2>1 DEF RedeemSQL, RedeemRedis
  <2>4. CASE flow' = [flow EXCEPT ![d].status = "redeemed"]
    <3>1. ~ Exists(d)' /\ \A e \in Flows \ {d} : Exists(e)' <=> Exists(e)
      BY <1>1, <2>4 DEF Exists, Records
    <3> QED BY <1>2, <2>3, <3>1, CapElse
  <2>5. CASE flow' = flow /\ backlog' = backlog
    <3>1. \A e \in Flows : Exists(e)' => Exists(e)
      BY <2>5 DEF Exists
    <3> QED BY <1>2, <2>5, <3>1, CapElse
  <2> QED BY <2>2, <2>4, <2>5
<1>5. CASE PollSave(p)
  <2>1. backlog' = backlog /\ flow' = Save(poll[p].flow, poll[p].seen) /\ poll[p].flow \in Flows
    BY <1>3, <1>5 DEF PollSave
  <2>2. \A e \in Flows : Exists(e)' => Exists(e)
    BY <1>1, <2>1, SaveAddsNothing
  <2> QED BY <1>2, <2>1, <2>2, CapElse
<1>6. CASE ~ RedeemSQL(p) /\ ~ RedeemRedis(p) /\ ~ PollSave(p)
  <2>1. backlog' = backlog /\ flow' = flow
    BY <1>6 DEF PollAction, PollStep, PollRead, CloseGateSQL, CloseGateRedis,
                ConsumeRead, IssueToken, CrashPoll
  <2>2. \A e \in Flows : Exists(e)' => Exists(e)
    BY <2>1 DEF Exists
  <2> QED BY <1>2, <2>1, <2>2, CapElse
<1> QED BY <1>4, <1>5, <1>6

LEMMA CapTime == ASSUME TypeInv, TypeInv', CapInv, TimeStep PROVE CapInv'
<1>1. flow \in [Flows -> Records] /\ crashes \in Nat
  BY DEF TypeInv, TypeOK
<1>2. UNCHANGED <<create, backend, crashes, backlog>> /\ lapsed \subseteq lapsed'
  BY DEF TimeStep, Lapse, LapseCode, OpenGate, LapseChallenge, DevicePage, PurgeExpired
<1>3. \A e \in Flows : Exists(e)' => Exists(e)
  <2>1. CASE flow' = flow
    BY <2>1 DEF Exists
  <2>2. ASSUME NEW d \in Flows, flow' = [flow EXCEPT ![d].status = "gone"]
        PROVE  \A e \in Flows : Exists(e)' => Exists(e)
    BY <1>1, <2>2 DEF Exists, Records
  <2>3. CASE PurgeExpired
    <3>1. \A e \in Flows :
             flow'[e] = flow[e] \/ flow'[e] = [flow[e] EXCEPT !.status = "gone"]
      BY <2>3 DEF PurgeExpired
    <3>2. \A e \in Flows : [flow[e] EXCEPT !.status = "gone"].status = "gone"
      BY <1>1 DEF Records
    <3> QED BY <3>1, <3>2 DEF Exists
  <2>4. ASSUME NEW d \in Flows, Lapse(d) PROVE \A e \in Flows : Exists(e)' => Exists(e)
    BY <2>1, <2>2, <2>4 DEF Lapse
  <2> QED BY <2>1, <2>3, <2>4 DEF TimeStep, LapseCode, OpenGate, LapseChallenge, DevicePage
<1> QED BY <1>1, <1>2, <1>3, CapElse

LEMMA CapStep == TypeInv /\ TypeInv' /\ CapInv /\ [Next]_vars => CapInv'
<1> SUFFICES ASSUME TypeInv, TypeInv', CapInv, [Next]_vars PROVE CapInv'
  OBVIOUS
<1>1. CASE UNCHANGED vars
  BY <1>1 DEF vars, CapInv, Live, Alive, Exists, Waiting, Lost, Tracked, Tracking
<1> QED BY <1>1, NextCases, CapCreate, CapApprove, CapPoll, CapTime

LEMMA CapInit == Init => CapInv
<1> SUFFICES ASSUME Init PROVE CapInv
  OBVIOUS
<1>1. Live = {} /\ Waiting = {} /\ Lost = {} /\ crashes = 0
  BY DEF Init, Live, Alive, Exists, Waiting, Lost, IdleCreate, NewRecord
<1>2. IsFiniteSet({}) /\ Cardinality({}) = 0
  BY FS_EmptySet
<1>3. MaxOutstanding \in Nat \ {0} /\ Cardinality(Creators) \in Nat
  BY LimitsAssumption, CreatorsAreCounted
<1> QED BY <1>1, <1>2, <1>3 DEF CapInv

\* On either store, whatever races: the flows that are there exceed the cap by less
\* than the creations in flight at once, and one for each request that died.
THEOREM CapIsNearlyKept == Spec => []CapOvershootBounded
<1>1. TypeInv /\ CapInv => CapOvershootBounded
  <2> SUFFICES ASSUME TypeInv, CapInv PROVE CapOvershootBounded
    OBVIOUS
  <2>1. /\ Cardinality(Live) \in Nat /\ Cardinality(Waiting) \in Nat
        /\ Cardinality(Creators) \in Nat /\ crashes \in Nat /\ MaxOutstanding \in Nat
    BY FS_CardinalityType, CreatorsAreCounted, LimitsAssumption
       DEF CapInv, Waiting, TypeInv, TypeOK
  <2>2. Cardinality(Live) <= MaxOutstanding + Cardinality(Creators) - 1 + crashes
    BY <2>1 DEF CapInv
  <2> QED BY <2>2 DEF CapOvershootBounded, Live
<1> QED BY TypeInit, TypeStep, CapInit, CapStep, <1>1, PTL DEF Spec

=============================================================================
