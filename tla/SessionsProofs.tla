---------------------------- MODULE SessionsProofs ----------------------------
(***************************************************************************)
(* Proofs about Sessions: for any number of sessions, handlers and flows,  *)
(* any lifetimes and both stores.                                          *)
(***************************************************************************)
EXTENDS Sessions, TLAPS

-----------------------------------------------------------------------------
(* The inductive invariants *)

\* A handler that goes by a session read it once.
RequestsHold ==
    \A r \in Requests :
        request[r].pc \in {"drop", "renew", "ready", "exchange", "replace"} =>
            request[r].sid \in Sids /\ row[request[r].sid].state # "unborn"

\* What Get answered is what the row still says, the flow apart.
AnswersHold ==
    \A r \in Requests :
        /\ request[r].pc \in {"renew", "ready"} /\ request[r].op \in {"start", "callback"}
        /\ row[request[r].sid].state = "kept"
        => /\ request[r].account = row[request[r].sid].account
           /\ request[r].created = row[request[r].sid].created

\* No deadline, stored or about to be, is past the idle window of the last read.
DeadlinesHold ==
    /\ \A s \in Sids : row[s].state = "kept" =>
          /\ row[s].created = birth[s]
          /\ row[s].expires <= used[s] + IdleTTL
          /\ used[s] <= now
    /\ \A r \in Requests :
          request[r].pc = "renew" /\ row[request[r].sid].state = "kept"
              => request[r].until <= used[request[r].sid] + IdleTTL

\* A handler with a flow it minted and nobody has stored.
Minted(r) ==
    \/ request[r].pc = "pending"
    \/ request[r].pc \in {"drop", "renew", "ready"} /\ request[r].op = "start"

\* A flow is in one place: with who minted it, then on one session, where the
\* callbacks that hold it read it.
FlowsHold ==
    /\ spent \subseteq started
    /\ \A s \in Sids : row[s].flow \in started \cup {NoFlow}
    /\ SpentFlowsStaySpent
    /\ \A s, t \in Sids : row[s].flow = row[t].flow /\ row[s].flow # NoFlow => s = t
    /\ \A r \in Requests : request[r].flow \in started \cup {NoFlow}
    /\ \A r \in Requests, s \in Sids :
          row[s].flow = request[r].flow /\ row[s].flow # NoFlow => request[r].sid = s
    /\ \A r \in Requests : Minted(r) =>
          /\ request[r].state \in started \ spent
          /\ \A s \in Sids : row[s].flow # request[r].state
          /\ \A o \in Requests : request[o].flow # request[r].state
          /\ \A o \in Requests \ {r} : Minted(o) => request[o].state # request[r].state

-----------------------------------------------------------------------------
(* Types *)

LEMMA Constants ==
    /\ NoUser \notin Users /\ NoFlow \notin Flows /\ NoSid \notin Sids
    /\ IdleTTL \in Nat \ {0} /\ AbsoluteTTL \in Nat \ {0} /\ MaxTime \in Nat
BY NullsAssumption, DeadlinesAssumption

\* A deadline set now is one.
LEMMA DeadlineTyped ==
    ASSUME TypeOK
    PROVE  now \in Nat /\ now \in Times /\ now + IdleTTL \in Deadlines /\ 0 \in Deadlines /\ 0 \in Times
BY Constants DEF TypeOK, Times, Deadlines

LEMMA BlankTyped == Blank \in Rows /\ Gone \in Rows /\ Gone.state = "gone" /\ Gone.flow = NoFlow
<1>1. 0 \in Deadlines /\ 0 \in Times
  BY Constants DEF Times, Deadlines
<1> QED BY <1>1 DEF Blank, Gone, Rows

LEMMA IdleTyped ==
    /\ Idle \in RequestStates
    /\ Idle.pc = "idle" /\ Idle.flow = NoFlow
    /\ \A f \in Flows \cup {NoFlow} :
          [Idle EXCEPT !.pc = "pending", !.state = f] \in RequestStates
<1>1. 0 \in Deadlines /\ 0 \in Times
  BY Constants DEF Times, Deadlines
<1> QED BY <1>1 DEF Idle, RequestStates

\* What a handler may become.
LEMMA RequestTyped ==
    ASSUME TypeOK, NEW r \in Requests, NEW q \in RequestStates, To(r, q)
    PROVE  request' \in [Requests -> RequestStates]
BY DEF TypeOK, To

-----------------------------------------------------------------------------
(* Reading a session *)

\* What a read leaves its handler with.
Left(p, op, s, f) ==
    \/ p.pc = "idle" /\ p.flow = NoFlow
    \/ p.pc = "pending" /\ p.flow = NoFlow /\ op = "start" /\ p.state = f
    \/ p.pc = "drop" /\ p.flow = NoFlow /\ p.op = op /\ p.sid = s /\ p.state = f
    \/ /\ Usable(s) /\ used' = [used EXCEPT ![s] = now]
       /\ p.pc \in {"renew", "ready"}
       /\ p.op = op /\ p.sid = s /\ p.state = f
       /\ p.pc = "renew" => p.until = now + IdleTTL
       /\ IF op \in {"start", "callback"}
            THEN p.account = row[s].account /\ p.created = row[s].created /\ p.flow = row[s].flow
            ELSE p.flow = NoFlow

ReadOf(r, op, s, f) ==
    /\ row[s].state # "unborn" /\ Brought(op, f)
    /\ started' = (IF op = "start" THEN started \cup {f} ELSE started)
    /\ \A o \in Requests \ {r} : request'[o] = request[o]
    /\ used' = used \/ (Usable(s) /\ used' = [used EXCEPT ![s] = now])
    /\ Left(request'[r], op, s, f)
    /\ request' \in [Requests -> RequestStates]

LEMMA ReadIs ==
    ASSUME TypeOK, NEW r \in Requests, Read(r)
    PROVE  \E op \in {"serve", "logout", "start", "callback"}, s \in Sids, f \in Flows \cup {NoFlow} :
              ReadOf(r, op, s, f)
<1> DEFINE Q(op, s, f) == [Idle EXCEPT !.op = op, !.sid = s, !.state = f]
           A(op, s, f) == IF op \in {"serve", "logout"} THEN Q(op, s, f)
                          ELSE [Q(op, s, f) EXCEPT !.account = row[s].account,
                                  !.created = row[s].created, !.flow = row[s].flow]
<1>1. PICK op \in {"serve", "logout", "start", "callback"}, s \in Sids, f \in Flows \cup {NoFlow} :
        /\ row[s].state # "unborn" /\ Brought(op, f)
        /\ started' = IF op = "start" THEN started \cup {f} ELSE started
        /\ \/ ~ Present(s) /\ NotFound(r, Q(op, s, f)) /\ UNCHANGED used
           \/ Present(s) /\ Expired(s) /\ To(r, [Q(op, s, f) EXCEPT !.pc = "drop"]) /\ UNCHANGED used
           \/ /\ Usable(s)
              /\ IF RenewalDue(s)
                   THEN To(r, [A(op, s, f) EXCEPT !.pc = "renew", !.until = now + IdleTTL])
                   ELSE Answer(r, A(op, s, f))
              /\ used' = [used EXCEPT ![s] = now]
  <2>1. \E op \in {"serve", "logout", "start", "callback"}, s \in Sids, f \in Flows \cup {NoFlow} :
          /\ row[s].state # "unborn"
          /\ Brought(op, f)
          /\ started' = IF op = "start" THEN started \cup {f} ELSE started
          /\ \/ /\ ~ Present(s)
                /\ NotFound(r, Q(op, s, f))
                /\ UNCHANGED used
             \/ /\ Present(s) /\ Expired(s)
                /\ To(r, [Q(op, s, f) EXCEPT !.pc = "drop"])
                /\ UNCHANGED used
             \/ /\ Usable(s)
                /\ IF RenewalDue(s)
                     THEN To(r, [A(op, s, f) EXCEPT !.pc = "renew", !.until = now + IdleTTL])
                     ELSE Answer(r, A(op, s, f))
                /\ used' = [used EXCEPT ![s] = now]
    BY DEF Read
  <2> HIDE DEF Q, A
  <2> QED BY <2>1
<1>2. row[s].account \in Users \cup {NoUser} /\ row[s].created \in Times
        /\ row[s].flow \in Flows \cup {NoFlow}
  BY DEF TypeOK, Rows
<1> DEFINE q == Q(op, s, f)
           a == A(op, s, f)
<1>3. /\ q \in RequestStates /\ q.flow = NoFlow /\ q.op = op /\ q.sid = s /\ q.state = f
      /\ [q EXCEPT !.pc = "drop"] \in RequestStates
      /\ [q EXCEPT !.pc = "drop"].pc = "drop" /\ [q EXCEPT !.pc = "drop"].flow = NoFlow
      /\ [q EXCEPT !.pc = "drop"].op = op /\ [q EXCEPT !.pc = "drop"].sid = s
      /\ [q EXCEPT !.pc = "drop"].state = f
  BY IdleTyped DEF Idle, RequestStates
<1>4. /\ a \in RequestStates /\ a.op = op /\ a.sid = s /\ a.state = f
      /\ IF op \in {"start", "callback"}
           THEN a.account = row[s].account /\ a.created = row[s].created /\ a.flow = row[s].flow
           ELSE a.flow = NoFlow
  BY <1>2, <1>3 DEF RequestStates
<1> HIDE DEF a
<1>5. ASSUME NEW p \in RequestStates, To(r, p)
      PROVE  /\ request'[r] = p /\ request' \in [Requests -> RequestStates]
             /\ \A o \in Requests \ {r} : request'[o] = request[o]
  BY <1>5 DEF TypeOK, To
<1>6. CASE ~ Present(s) /\ NotFound(r, q) /\ UNCHANGED used
  <2>1. CASE op = "start" /\ To(r, [Idle EXCEPT !.pc = "pending", !.state = f])
    <3> DEFINE p == [Idle EXCEPT !.pc = "pending", !.state = f]
    <3>1. p \in RequestStates /\ p.pc = "pending" /\ p.flow = NoFlow /\ p.state = f
      BY IdleTyped DEF Idle
    <3>2. Left(request'[r], op, s, f)
      BY <1>5, <2>1, <3>1 DEF Left
    <3> QED BY <1>1, <1>5, <1>6, <2>1, <3>1, <3>2 DEF ReadOf
  <2>2. CASE To(r, Idle)
    <3>1. Left(request'[r], op, s, f)
      BY <1>5, <2>2, IdleTyped DEF Left
    <3> QED BY <1>1, <1>5, <1>6, <2>2, <3>1, IdleTyped DEF ReadOf
  <2> QED BY <1>3, <1>6, <2>1, <2>2 DEF NotFound
<1>7. CASE To(r, [q EXCEPT !.pc = "drop"]) /\ UNCHANGED used
  <2>1. Left(request'[r], op, s, f)
    BY <1>3, <1>5, <1>7 DEF Left
  <2> QED BY <1>1, <1>3, <1>5, <1>7, <2>1 DEF ReadOf
<1>8. CASE /\ Usable(s) /\ used' = [used EXCEPT ![s] = now]
           /\ IF RenewalDue(s) THEN To(r, [a EXCEPT !.pc = "renew", !.until = now + IdleTTL])
                               ELSE Answer(r, a)
  <2>1. CASE To(r, [a EXCEPT !.pc = "renew", !.until = now + IdleTTL])
    <3>p. PICK p : p = [a EXCEPT !.pc = "renew", !.until = now + IdleTTL]
      OBVIOUS
    <3>1. /\ p \in RequestStates /\ p.pc = "renew" /\ p.until = now + IdleTTL
          /\ p.op = a.op /\ p.sid = a.sid /\ p.state = a.state
          /\ p.account = a.account /\ p.created = a.created /\ p.flow = a.flow
      BY <1>4, <3>p, DeadlineTyped DEF RequestStates
    <3>2. Left(request'[r], op, s, f)
      BY <1>4, <1>5, <1>8, <2>1, <3>p, <3>1 DEF Left
    <3> QED BY <1>1, <1>5, <1>8, <2>1, <3>p, <3>1, <3>2 DEF ReadOf
  <2>2. CASE To(r, Idle)
    <3>1. Left(request'[r], op, s, f)
      BY <1>5, <2>2, IdleTyped DEF Left
    <3> QED BY <1>1, <1>5, <1>8, <2>2, <3>1, IdleTyped DEF ReadOf
  <2>3. CASE To(r, [a EXCEPT !.pc = "ready", !.until = 0])
    <3>p. PICK p : p = [a EXCEPT !.pc = "ready", !.until = 0]
      OBVIOUS
    <3>1. /\ p \in RequestStates /\ p.pc = "ready"
          /\ p.op = a.op /\ p.sid = a.sid /\ p.state = a.state
          /\ p.account = a.account /\ p.created = a.created /\ p.flow = a.flow
      BY <1>4, <3>p, DeadlineTyped DEF RequestStates
    <3>2. Left(request'[r], op, s, f)
      BY <1>4, <1>5, <1>8, <2>3, <3>p, <3>1 DEF Left
    <3> QED BY <1>1, <1>5, <1>8, <2>3, <3>p, <3>1, <3>2 DEF ReadOf
  <2> QED BY <1>8, <2>1, <2>2, <2>3 DEF Answer
<1> QED BY <1>1, <1>6, <1>7, <1>8 DEF a

-----------------------------------------------------------------------------
(* The other steps of a handler *)

\* What a handler takes along: its session, its flow and what Get answered.
Moved(q, p) ==
    /\ p.flow = NoFlow \/ (p.flow = q.flow /\ p.sid = q.sid)
    /\ p.pc \in {"idle", "pending", "open", "ready", "exchange", "replace"}
    /\ p.pc \in {"ready", "exchange", "replace"} =>
          p.sid = q.sid /\ q.pc \in {"renew", "ready", "exchange"}
    /\ p.pc = "ready" => /\ q.pc = "renew" /\ p.op = q.op /\ p.state = q.state
                         /\ p.account = q.account /\ p.created = q.created
    /\ p.pc = "pending" => q.pc = "drop" /\ q.op = "start" /\ p.state = q.state

Others(r) == \A o \in Requests \ {r} : request'[o] = request[o]

Continues(r) ==
    \/ DropExpired(r) \/ Renew(r) \/ AuthLogout(r) \/ StoreFlow(r) \/ OpenPending(r)
    \/ NoFlowInProgress(r) \/ ClearFlow(r) \/ Exchange(r) \/ ReplacePending(r) \/ OpenSession(r)

LEMMA ContinuesIs ==
    ASSUME TypeOK, NEW r \in Requests, Continues(r)
    PROVE  /\ Moved(request[r], request'[r]) /\ Others(r)
           /\ request' \in [Requests -> RequestStates]
<1> DEFINE Good == /\ Moved(request[r], request'[r]) /\ Others(r)
                   /\ request' \in [Requests -> RequestStates]
<1>q. request[r] \in RequestStates
  BY DEF TypeOK
<1>1. ASSUME NEW p \in RequestStates, To(r, p), Moved(request[r], p) PROVE Good
  BY <1>1 DEF TypeOK, To, Others
<1>2. ASSUME Done(r) PROVE Good
  <2>1. Moved(request[r], Idle)
    BY IdleTyped DEF Moved
  <2> QED BY <1>1, <1>2, <2>1, IdleTyped DEF Done
<1>3. CASE AuthLogout(r) \/ StoreFlow(r) \/ OpenPending(r) \/ NoFlowInProgress(r) \/ OpenSession(r)
  BY <1>2, <1>3 DEF AuthLogout, StoreFlow, OpenPending, NoFlowInProgress, OpenSession
<1>4. CASE DropExpired(r)
  <2>1. CASE To(r, Idle)
    BY <1>2, <2>1 DEF Done
  <2>2. CASE request[r].op = "start" /\ To(r, [Idle EXCEPT !.pc = "pending", !.state = request[r].state])
    <3>1. request[r].state \in Flows \cup {NoFlow}
      BY <1>q DEF RequestStates
    <3>2. PICK p : p = [Idle EXCEPT !.pc = "pending", !.state = request[r].state]
      OBVIOUS
    <3>3. p \in RequestStates
      BY <3>1, <3>2, IdleTyped
    <3>4. p.pc = "pending" /\ p.flow = NoFlow /\ p.state = request[r].state
      BY <3>2 DEF Idle
    <3>5. Moved(request[r], p)
      BY <1>4, <2>2, <3>4 DEF Moved, DropExpired
    <3> QED BY <1>1, <2>2, <3>2, <3>3, <3>5
  <2> QED BY <1>4, <2>1, <2>2 DEF DropExpired, NotFound
<1>5. CASE Renew(r)
  <2>1. CASE To(r, Idle)
    BY <1>2, <2>1 DEF Done
  <2>2. CASE To(r, [request[r] EXCEPT !.pc = "ready", !.until = 0])
    <3>1. PICK p : p = [request[r] EXCEPT !.pc = "ready", !.until = 0]
      OBVIOUS
    <3>2. /\ p \in RequestStates /\ p.pc = "ready"
          /\ p.op = request[r].op /\ p.sid = request[r].sid /\ p.state = request[r].state
          /\ p.account = request[r].account /\ p.created = request[r].created
          /\ p.flow = request[r].flow
      BY <1>q, <3>1, DeadlineTyped DEF RequestStates
    <3>3. Moved(request[r], p)
      BY <1>5, <3>2 DEF Moved, Renew
    <3> QED BY <1>1, <2>2, <3>1, <3>2, <3>3
  <2> QED BY <1>5, <2>1, <2>2 DEF Renew, Answer
<1>6. ASSUME NEW pc \in {"exchange", "open"}, Become(r, pc),
             pc = "exchange" => request[r].pc = "ready"
      PROVE  Good
  <2>1. PICK p : p = [request[r] EXCEPT !.pc = pc]
    OBVIOUS
  <2>2. p \in RequestStates /\ p.pc = pc /\ p.sid = request[r].sid /\ p.flow = request[r].flow
    BY <1>q, <2>1 DEF RequestStates
  <2>3. Moved(request[r], p)
    BY <1>6, <2>2 DEF Moved
  <2> QED BY <1>1, <1>6, <2>1, <2>2, <2>3 DEF Become
<1>7. CASE ClearFlow(r)
  BY <1>2, <1>6, <1>7 DEF ClearFlow
<1>8. CASE ReplacePending(r)
  BY <1>6, <1>8 DEF ReplacePending
<1>9. CASE Exchange(r)
  <2>1. ASSUME NEW u \in Users, To(r, [request[r] EXCEPT !.pc = "replace", !.account = u]) PROVE Good
    <3>1. PICK p : p = [request[r] EXCEPT !.pc = "replace", !.account = u]
      OBVIOUS
    <3>2. p \in RequestStates /\ p.pc = "replace" /\ p.sid = request[r].sid
            /\ p.flow = request[r].flow
      BY <1>q, <3>1 DEF RequestStates
    <3>3. Moved(request[r], p)
      BY <1>9, <3>2 DEF Moved, Exchange
    <3> QED BY <1>1, <2>1, <3>1, <3>2, <3>3
  <2> QED BY <1>2, <1>9, <2>1 DEF Exchange
<1> QED BY <1>3, <1>4, <1>5, <1>7, <1>8, <1>9 DEF Continues

\* A flow is minted by a visitor without a session.
LEMMA StartFreshIs ==
    ASSUME TypeOK, NEW r \in Requests, StartFresh(r)
    PROVE  \E f \in Flows \ started :
              /\ started' = started \cup {f}
              /\ request'[r].pc = "pending" /\ request'[r].state = f /\ request'[r].flow = NoFlow
              /\ Others(r) /\ request' \in [Requests -> RequestStates]
<1>1. PICK f \in Flows \ started :
        started' = started \cup {f} /\ To(r, [Idle EXCEPT !.pc = "pending", !.state = f])
  BY DEF StartFresh
<1>2. PICK p : p = [Idle EXCEPT !.pc = "pending", !.state = f]
  OBVIOUS
<1>3. p \in RequestStates /\ p.pc = "pending" /\ p.state = f /\ p.flow = NoFlow
  BY <1>2, IdleTyped DEF Idle
<1>4. request'[r] = p /\ Others(r) /\ request' \in [Requests -> RequestStates]
  BY <1>1, <1>2, <1>3 DEF TypeOK, To, Others
<1> QED BY <1>1, <1>3, <1>4

-----------------------------------------------------------------------------
(* The store keeps its types *)

StoreTyped == row \in [Sids -> Rows] /\ birth \in [Sids -> Times] /\ used \in [Sids -> Times]

LEMMA CreateTyped ==
    ASSUME TypeOK, NEW s \in Sids, NEW account \in Users \cup {NoUser},
           NEW flow \in Flows \cup {NoFlow}, Create(s, account, flow)
    PROVE  StoreTyped'
<1>1. [state |-> "kept", account |-> account, created |-> now, expires |-> now + IdleTTL,
       flow |-> flow] \in Rows
  BY DeadlineTyped DEF Rows
<1> QED BY <1>1, DeadlineTyped DEF Create, TypeOK, StoreTyped

LEMMA DeleteTyped ==
    ASSUME TypeOK, NEW s, Delete(s) \/ UNCHANGED <<row, birth, used>>
    PROVE  StoreTyped'
BY BlankTyped, DeadlineTyped DEF Delete, Forget, TypeOK, StoreTyped

LEMMA UpdateTyped ==
    ASSUME TypeOK, NEW r \in Requests, NEW flow \in Flows \cup {NoFlow}, Update(r, flow)
    PROVE  row' \in [Sids -> Rows]
<1>1. ASSUME request[r].sid \in Sids PROVE Written(r, flow) \in Rows
  <2>1. row[request[r].sid].expires \in Deadlines
    BY <1>1 DEF TypeOK, Rows
  <2>2. request[r].account \in Users \cup {NoUser} /\ request[r].created \in Times
    BY DEF TypeOK, RequestStates
  <2> QED BY <2>1, <2>2 DEF Written, Rows
<1> QED BY <1>1 DEF Update, TypeOK

LEMMA RenewedTyped ==
    ASSUME TypeOK, NEW r \in Requests
    PROVE  Renewed(r) \in [Sids -> Rows]
<1>1. request[r].until \in Deadlines /\ now + IdleTTL \in Deadlines
  BY DeadlineTyped DEF TypeOK, RequestStates
<1>2. \A s \in Sids, d \in Deadlines : [row[s] EXCEPT !.expires = d] \in Rows
  BY DEF TypeOK, Rows
<1>3. ASSUME NEW d \in Deadlines PROVE [row EXCEPT ![request[r].sid].expires = d] \in [Sids -> Rows]
  BY <1>2 DEF TypeOK
<1> QED BY <1>1, <1>3 DEF Renewed, TypeOK

\* Every step keeps the types.
LEMMA TypeStep ==
    ASSUME TypeOK, [Next]_vars
    PROVE  TypeOK'
<1> USE DEF TypeOK, StoreTyped
<1>1. CASE UNCHANGED vars
  BY <1>1 DEF vars
<1>2. ASSUME NEW r \in Requests, Handler(r) PROVE TypeOK'
  <2>q. request[r] \in RequestStates
    OBVIOUS
  <2>f. NoFlow \in Flows \cup {NoFlow} /\ NoUser \in Users \cup {NoUser}
          /\ request[r].state \in Flows \cup {NoFlow} /\ request[r].account \in Users \cup {NoUser}
          /\ request[r].flow \in Flows \cup {NoFlow}
    BY <2>q DEF RequestStates
  <2>1. CASE Read(r)
    <3>1. PICK op \in {"serve", "logout", "start", "callback"}, s \in Sids, f \in Flows \cup {NoFlow} :
            ReadOf(r, op, s, f)
      BY <2>1, ReadIs
    <3>2. started' \subseteq Flows
      BY <3>1 DEF ReadOf, Brought
    <3>3. used' \in [Sids -> Times]
      BY <3>1, DeadlineTyped DEF ReadOf
    <3> QED BY <2>1, <3>1, <3>2, <3>3 DEF Read, ReadOf
  <2>2. CASE StartFresh(r)
    BY <2>2, StartFreshIs DEF StartFresh
  <2>3. CASE Continues(r)
    <3>1. request' \in [Requests -> RequestStates]
      BY <2>3, ContinuesIs
    <3>2. CASE DropExpired(r) \/ AuthLogout(r) \/ ReplacePending(r)
      BY <3>1, <3>2, DeleteTyped DEF DropExpired, AuthLogout, ReplacePending
    <3>3. CASE Renew(r)
      <4>1. row' \in [Sids -> Rows]
        BY <3>3, RenewedTyped DEF Renew
      <4>2. used' \in [Sids -> Times]
        BY <3>3, DeadlineTyped DEF Renew
      <4> QED BY <3>1, <3>3, <4>1, <4>2 DEF Renew
    <3>4. CASE StoreFlow(r)
      <4>1. row' \in [Sids -> Rows]
        BY <2>f, <3>4, UpdateTyped DEF StoreFlow, FlowToStore
      <4> QED BY <3>1, <3>4, <4>1 DEF StoreFlow
    <3>5. CASE OpenPending(r)
      BY <2>f, <3>1, <3>5, CreateTyped DEF OpenPending
    <3>6. CASE OpenSession(r)
      BY <2>f, <3>1, <3>6, CreateTyped DEF OpenSession
    <3>7. CASE ClearFlow(r)
      <4>1. row' \in [Sids -> Rows]
        BY <2>f, <3>7, UpdateTyped DEF ClearFlow
      <4>2. spent' \subseteq Flows
        BY <2>f, <3>7 DEF ClearFlow
      <4> QED BY <3>1, <3>7, <4>1, <4>2 DEF ClearFlow
    <3>8. CASE NoFlowInProgress(r) \/ Exchange(r)
      BY <3>1, <3>8 DEF NoFlowInProgress, Exchange
    <3> QED BY <2>3, <3>2, <3>3, <3>4, <3>5, <3>6, <3>7, <3>8 DEF Continues
  <2> QED BY <1>2, <2>1, <2>2, <2>3 DEF Handler, Continues
<1>3. CASE AuthLogin
  BY <1>3, CreateTyped DEF AuthLogin
<1>4. CASE PurgeExpired
  <2>1. StoreTyped'
    BY <1>4, BlankTyped, DeadlineTyped DEF PurgeExpired
  <2> QED BY <1>4, <2>1 DEF PurgeExpired
<1>5. CASE Tick
  <2>1. now' \in Times
    BY <1>5, Constants DEF Tick, Times
  <2> QED BY <1>5, <2>1 DEF Tick
<1> QED BY <1>1, <1>2, <1>3, <1>4, <1>5 DEF Next

\* Types: every variable keeps to its domain, on either store.
THEOREM SessionsTyped == Spec => []TypeOK
<1>1. Init => TypeOK
  <2>1. 0 \in Times
    BY Constants DEF Times
  <2> QED BY <2>1, BlankTyped, IdleTyped DEF Init, TypeOK
<1>2. TypeOK /\ [Next]_vars => TypeOK'
  BY TypeStep
<1> QED BY <1>1, <1>2, PTL DEF Spec

-----------------------------------------------------------------------------
(* What one step does to one session *)

Unmoved(s) == row'[s] = row[s] /\ birth'[s] = birth[s] /\ used'[s] = used[s]

Opened(s) ==
    /\ row[s].state = "unborn" /\ row'[s].state = "kept"
    /\ row'[s].created = now /\ row'[s].expires = now + IdleTTL
    /\ birth'[s] = now /\ used'[s] = now

Ended(s) == row[s].state = "kept" /\ row'[s] = Gone

Served(s) ==
    Usable(s) /\ row'[s] = row[s] /\ birth'[s] = birth[s] /\ used'[s] = now

\* The flow is written, and what Get answered beside it.
Rewritten(s) ==
    /\ Writable(s)
    /\ row'[s].state = "kept" /\ row'[s].account = row[s].account
    /\ row'[s].created = row[s].created /\ row'[s].expires = row[s].expires
    /\ birth'[s] = birth[s] /\ used'[s] = used[s]

Extended(s) ==
    \E r \in Requests :
        /\ request[r].pc = "renew" /\ request[r].sid = s /\ Present(s)
        /\ row'[s].state = "kept" /\ row'[s].account = row[s].account
        /\ row'[s].created = row[s].created /\ birth'[s] = birth[s]
        /\ IF backend = "sql"
             THEN row'[s].expires = request[r].until /\ used'[s] = used[s]
             ELSE row'[s].expires = now + IdleTTL /\ used'[s] = now

Stepped(s) ==
    \/ Unmoved(s) \/ Opened(s) \/ Ended(s) \/ Served(s) \/ Rewritten(s) \/ Extended(s)

LEMMA CreateIs ==
    ASSUME TypeOK, NEW t \in Sids, NEW account, NEW flow, Create(t, account, flow), NEW s \in Sids
    PROVE  Unmoved(s) \/ Opened(s)
BY DEF Create, TypeOK, Unmoved, Opened

LEMMA DeleteIs ==
    ASSUME TypeOK, NEW t, Delete(t) \/ UNCHANGED <<row, birth, used>>, NEW s \in Sids
    PROVE  Unmoved(s) \/ Ended(s)
BY DEF Delete, Forget, TypeOK, Unmoved, Ended

LEMMA UpdateIs ==
    ASSUME TypeOK, AnswersHold, NEW r \in Requests, NEW flow, Update(r, flow),
           request[r].pc = "ready", request[r].op \in {"start", "callback"},
           UNCHANGED <<birth, used>>, NEW s \in Sids
    PROVE  /\ Unmoved(s) \/ Rewritten(s)
           /\ IF s = request[r].sid /\ Writable(s) THEN row'[s].flow = flow
                                                  ELSE row'[s].flow = row[s].flow
<1>1. CASE s = request[r].sid /\ Writable(s)
  <2>1. row'[s] = Written(r, flow)
    BY <1>1 DEF Update, TypeOK
  <2>2. row[s].state = "kept"
    BY <1>1 DEF Writable, Present
  <2>3. request[r].account = row[s].account /\ request[r].created = row[s].created
    BY <1>1, <2>2 DEF AnswersHold
  <2> QED BY <1>1, <2>1, <2>3 DEF Written, Rewritten
<1>2. CASE ~ (s = request[r].sid /\ Writable(s))
  BY <1>2 DEF Update, TypeOK, Unmoved
<1> QED BY <1>1, <1>2

LEMMA RenewIs ==
    ASSUME TypeOK, NEW r \in Requests, Renew(r), NEW s \in Sids
    PROVE  (Unmoved(s) \/ Extended(s)) /\ row'[s].flow = row[s].flow
<1>1. CASE UNCHANGED <<row, used>>
  BY <1>1 DEF Renew, Unmoved
<1>2. CASE /\ row' = Renewed(r)
           /\ used' = IF backend = "redis" /\ Present(request[r].sid)
                        THEN [used EXCEPT ![request[r].sid] = now] ELSE used
  <2>1. CASE s = request[r].sid /\ Present(s)
    <3>1. PICK d : d = IF backend = "sql" THEN request[r].until ELSE now + IdleTTL
      OBVIOUS
    <3>2. row'[s] = [row[s] EXCEPT !.expires = d]
      BY <1>2, <2>1, <3>1 DEF Renewed, TypeOK
    <3>3. row[s] \in Rows /\ row[s].state = "kept"
      BY <2>1 DEF TypeOK, Present
    <3>4. /\ row'[s].state = "kept" /\ row'[s].account = row[s].account
          /\ row'[s].created = row[s].created /\ row'[s].flow = row[s].flow
          /\ row'[s].expires = d
      BY <3>2, <3>3 DEF Rows
    <3>5. backend = "sql" \/ backend = "redis"
      BY BackendsAssumption DEF TypeOK
    <3>6. IF backend = "sql" THEN used'[s] = used[s] ELSE used'[s] = now
      BY <1>2, <2>1, <3>5 DEF TypeOK
    <3> QED BY <2>1, <3>1, <3>4, <3>6 DEF Renew, Extended
  <2>2. CASE ~ (s = request[r].sid /\ Present(s))
    BY <1>2, <2>2 DEF Renewed, TypeOK, Renew, Unmoved
  <2> QED BY <2>1, <2>2
<1> QED BY <1>1, <1>2 DEF Renew

\* One of six things happens to a session, and the clock stands meanwhile.
LEMMA StoreStep ==
    ASSUME TypeOK, AnswersHold, Next, NEW s \in Sids
    PROVE  /\ Stepped(s)
           /\ backend' = backend /\ now' \in {now, now + 1}
           /\ now' # now => Unmoved(s)
<1>1. ASSUME NEW r \in Requests, Handler(r) PROVE Stepped(s)
  <2>1. CASE Read(r)
    <3>1. PICK t \in Sids : used' = used \/ (Usable(t) /\ used' = [used EXCEPT ![t] = now])
      BY <2>1, ReadIs DEF ReadOf
    <3> QED BY <2>1, <3>1 DEF Read, TypeOK, Unmoved, Served, Stepped
  <2>2. CASE DropExpired(r) \/ AuthLogout(r) \/ ReplacePending(r)
    BY <2>2, DeleteIs DEF DropExpired, AuthLogout, ReplacePending, Stepped
  <2>3. CASE Renew(r)
    BY <2>3, RenewIs DEF Stepped
  <2>4. CASE StoreFlow(r)
    BY <2>4, UpdateIs DEF StoreFlow, Unmoved, Stepped
  <2>5. CASE ClearFlow(r)
    BY <2>5, UpdateIs DEF ClearFlow, Unmoved, Stepped
  <2>6. CASE OpenPending(r) \/ OpenSession(r)
    BY <2>6, CreateIs DEF OpenPending, OpenSession, Unmoved, Stepped
  <2>7. CASE StartFresh(r) \/ NoFlowInProgress(r) \/ Exchange(r)
    BY <2>7 DEF StartFresh, NoFlowInProgress, Exchange, Unmoved, Stepped
  <2> QED BY <1>1, <2>1, <2>2, <2>3, <2>4, <2>5, <2>6, <2>7 DEF Handler
<1>2. ASSUME NEW r \in Requests, Handler(r) PROVE UNCHANGED <<backend, now>>
  BY <1>2 DEF Handler, Read, DropExpired, Renew, AuthLogout, StartFresh, StoreFlow, OpenPending,
     NoFlowInProgress, ClearFlow, Exchange, ReplacePending, OpenSession
<1>3. CASE AuthLogin
  BY <1>3, CreateIs DEF AuthLogin, Stepped
<1>4. CASE PurgeExpired
  BY <1>4 DEF PurgeExpired, Unmoved, Ended, Stepped
<1>5. CASE Tick
  BY <1>5 DEF Tick, Unmoved, Stepped
<1> QED BY <1>1, <1>2, <1>3, <1>4, <1>5 DEF Next

-----------------------------------------------------------------------------
(* The deadlines *)

\* One of four things happens to a handler.
LEMMA RequestStep ==
    ASSUME TypeOK, Next, NEW o \in Requests
    PROVE  \/ request'[o] = request[o]
           \/ Moved(request[o], request'[o])
           \/ /\ \E op \in {"serve", "logout", "start", "callback"}, s \in Sids,
                    f \in Flows \cup {NoFlow} : ReadOf(o, op, s, f)
              /\ UNCHANGED <<row, now>>
           \/ request'[o].pc = "pending"
<1>1. ASSUME NEW r \in Requests, Handler(r), r # o PROVE request'[o] = request[o]
  <2>1. CASE Read(r)
    BY <1>1, <2>1, ReadIs DEF ReadOf
  <2>2. CASE StartFresh(r)
    BY <1>1, <2>2, StartFreshIs DEF Others
  <2>3. CASE Continues(r)
    BY <1>1, <2>3, ContinuesIs DEF Others
  <2> QED BY <1>1, <2>1, <2>2, <2>3 DEF Handler, Continues
<1>2. CASE Handler(o)
  <2>1. CASE Read(o)
    BY <2>1, ReadIs DEF Read
  <2>2. CASE StartFresh(o)
    BY <2>2, StartFreshIs
  <2>3. CASE Continues(o)
    BY <2>3, ContinuesIs
  <2> QED BY <1>2, <2>1, <2>2, <2>3 DEF Handler, Continues
<1>3. CASE AuthLogin \/ PurgeExpired \/ Tick
  BY <1>3 DEF AuthLogin, PurgeExpired, Tick
<1> QED BY <1>1, <1>2, <1>3 DEF Next

\* A session that has been opened has been.
LEMMA BornStays ==
    ASSUME TypeOK, AnswersHold, Next, NEW s \in Sids, row[s].state # "unborn"
    PROVE  row'[s].state # "unborn"
BY StoreStep, BlankTyped DEF Stepped, Unmoved, Opened, Ended, Served, Rewritten, Extended,
   Writable, Present

LEMMA RequestsHoldStep ==
    ASSUME TypeOK, RequestsHold, AnswersHold, Next
    PROVE  RequestsHold'
<1> SUFFICES ASSUME NEW o \in Requests,
                    request'[o].pc \in {"drop", "renew", "ready", "exchange", "replace"}
             PROVE  request'[o].sid \in Sids /\ row'[request'[o].sid].state # "unborn"
  BY DEF RequestsHold
<1>1. CASE request'[o] = request[o]
  BY <1>1, BornStays DEF RequestsHold
<1>2. CASE Moved(request[o], request'[o])
  BY <1>2, BornStays DEF RequestsHold, Moved
<1>3. ASSUME NEW op, NEW s \in Sids, NEW f, ReadOf(o, op, s, f), UNCHANGED row
      PROVE  request'[o].sid \in Sids /\ row'[request'[o].sid].state # "unborn"
  BY <1>3 DEF ReadOf, Left
<1> QED BY <1>1, <1>2, <1>3, RequestStep

\* What is kept was kept, and is the same account's.
LEMMA KeptWas ==
    ASSUME TypeOK, AnswersHold, Next, NEW s \in Sids,
           row[s].state # "unborn", row'[s].state = "kept"
    PROVE  row[s].state = "kept" /\ row'[s].account = row[s].account /\ row'[s].created = row[s].created
BY StoreStep, BlankTyped DEF Stepped, Unmoved, Opened, Ended, Served, Rewritten, Extended,
   Writable, Present

LEMMA AnswersHoldStep ==
    ASSUME TypeOK, RequestsHold, AnswersHold, Next
    PROVE  AnswersHold'
<1> SUFFICES ASSUME NEW o \in Requests, request'[o].pc \in {"renew", "ready"},
                    request'[o].op \in {"start", "callback"},
                    row'[request'[o].sid].state = "kept"
             PROVE  /\ request'[o].account = row'[request'[o].sid].account
                    /\ request'[o].created = row'[request'[o].sid].created
  BY DEF AnswersHold
<1>1. CASE request'[o] = request[o]
  BY <1>1, KeptWas DEF RequestsHold, AnswersHold
<1>2. CASE Moved(request[o], request'[o])
  BY <1>2, KeptWas DEF RequestsHold, AnswersHold, Moved
<1>3. ASSUME NEW op \in {"serve", "logout", "start", "callback"}, NEW s \in Sids, NEW f,
             ReadOf(o, op, s, f), UNCHANGED row
      PROVE  /\ request'[o].account = row'[request'[o].sid].account
             /\ request'[o].created = row'[request'[o].sid].created
  BY <1>3 DEF ReadOf, Left
<1> QED BY <1>1, <1>2, <1>3, RequestStep

\* Nothing but a read, or a renewal in Redis, is a use; and what is not used
\* keeps its deadline, unless a renewal it was read for pushes it out.
LEMMA DeadlinesHoldStep ==
    ASSUME TypeOK, RequestsHold, AnswersHold, DeadlinesHold, Next
    PROVE  DeadlinesHold'
<1>1. now \in Nat /\ IdleTTL \in Nat /\ now' \in Nat /\ now <= now'
  <2>1. now \in Nat /\ IdleTTL \in Nat
    BY DeadlineTyped, Constants
  <2>2. now' = now \/ now' = now + 1
    BY DEF Next, Handler, Read, DropExpired, Renew, AuthLogout, StartFresh, StoreFlow, OpenPending,
       NoFlowInProgress, ClearFlow, Exchange, ReplacePending, OpenSession, AuthLogin, PurgeExpired,
       Tick
  <2> QED BY <2>1, <2>2
<1>2. ASSUME NEW s \in Sids
      PROVE  /\ row[s].expires \in Nat /\ used[s] \in Nat /\ row[s].created \in Nat
             /\ birth[s] \in Nat
  BY Constants DEF TypeOK, Rows, Times, Deadlines
<1>3. ASSUME NEW s \in Sids, row[s].state # "unborn", row'[s].state = "kept"
      PROVE  row[s].state = "kept" /\ used[s] <= used'[s]
  <2>1. row[s].state = "kept" /\ Stepped(s) /\ ~ Ended(s)
    BY <1>3, StoreStep, KeptWas, BlankTyped DEF Ended
  <2>2. used[s] <= now
    BY <2>1 DEF DeadlinesHold
  <2> QED BY <1>1, <1>2, <2>1, <2>2 DEF Stepped, Unmoved, Opened, Served, Rewritten, Extended
<1>4. ASSUME NEW s \in Sids, row'[s].state = "kept"
      PROVE  /\ row'[s].created = birth'[s]
             /\ row'[s].expires <= used'[s] + IdleTTL
             /\ used'[s] <= now'
  <2>1. Stepped(s)
    BY StoreStep
  <2>2. CASE Opened(s)
    BY <1>1, <2>2 DEF Opened
  <2>3. ASSUME row[s].state = "kept"
        PROVE  /\ row[s].created = birth[s]
               /\ row[s].expires <= used[s] + IdleTTL
               /\ used[s] <= now
    BY <2>3 DEF DeadlinesHold
  <2>4. CASE Unmoved(s)
    BY <1>1, <1>2, <1>4, <2>3, <2>4 DEF Unmoved
  <2>5. CASE Served(s)
    BY <1>1, <1>2, <1>4, <2>3, <2>5 DEF Served
  <2>6. CASE Rewritten(s)
    BY <1>1, <1>2, <1>4, <2>3, <2>6 DEF Rewritten, Writable, Present
  <2>7. CASE Extended(s)
    <3>1. PICK r \in Requests :
            /\ request[r].pc = "renew" /\ request[r].sid = s /\ Present(s)
            /\ row'[s].created = row[s].created /\ birth'[s] = birth[s]
            /\ IF backend = "sql"
                 THEN row'[s].expires = request[r].until /\ used'[s] = used[s]
                 ELSE row'[s].expires = now + IdleTTL /\ used'[s] = now
      BY <2>7 DEF Extended
    <3>2. row[s].state = "kept"
      BY <3>1 DEF Present
    <3>3. request[r].until <= used[s] + IdleTTL
      BY <3>1, <3>2 DEF DeadlinesHold
    <3> QED BY <1>1, <1>2, <2>3, <3>1, <3>2, <3>3
  <2>8. CASE Ended(s)
    BY <1>4, <2>8, BlankTyped DEF Ended
  <2> QED BY <2>1, <2>2, <2>4, <2>5, <2>6, <2>7, <2>8 DEF Stepped
<1>5. ASSUME NEW o \in Requests, request'[o].pc = "renew", row'[request'[o].sid].state = "kept"
      PROVE  request'[o].until <= used'[request'[o].sid] + IdleTTL
  <2>1. CASE request'[o] = request[o]
    <3>1. PICK s : s = request[o].sid
      OBVIOUS
    <3>2. s \in Sids /\ row[s].state # "unborn"
      BY <1>5, <2>1, <3>1 DEF RequestsHold
    <3>3. row[s].state = "kept" /\ used[s] <= used'[s] /\ used[s] \in Nat /\ used'[s] \in Nat
      <4>1. used'[s] \in Nat
        BY <3>2, TypeStep, Constants DEF TypeOK, Times
      <4> QED BY <1>2, <1>3, <1>5, <2>1, <3>1, <3>2, <4>1
    <3>4. request[o].until <= used[s] + IdleTTL
      BY <1>5, <2>1, <3>1, <3>3 DEF DeadlinesHold
    <3>5. request[o].until \in Nat
      BY Constants DEF TypeOK, RequestStates, Deadlines
    <3> QED BY <1>1, <2>1, <3>1, <3>3, <3>4, <3>5
  <2>2. CASE Moved(request[o], request'[o])
    BY <1>5, <2>2 DEF Moved
  <2>3. ASSUME NEW op, NEW s \in Sids, NEW f, ReadOf(o, op, s, f)
        PROVE  request'[o].until <= used'[request'[o].sid] + IdleTTL
    <3>1. /\ Usable(s) /\ used' = [used EXCEPT ![s] = now]
          /\ request'[o].sid = s /\ request'[o].until = now + IdleTTL
      BY <1>5, <2>3 DEF ReadOf, Left
    <3>2. used'[s] = now
      BY <3>1 DEF TypeOK
    <3> QED BY <1>1, <3>1, <3>2
  <2> QED BY <1>5, <2>1, <2>2, <2>3, RequestStep
<1> QED BY <1>4, <1>5 DEF DeadlinesHold

\* The three hold together, whatever happens.
LEMMA HoldsInductive ==
    Spec => [](TypeOK /\ RequestsHold /\ AnswersHold /\ DeadlinesHold)
<1>1. Init => RequestsHold /\ AnswersHold /\ DeadlinesHold
  <2> SUFFICES ASSUME Init PROVE RequestsHold /\ AnswersHold /\ DeadlinesHold
    OBVIOUS
  <2>1. \A r \in Requests : request[r].pc = "idle"
    BY IdleTyped DEF Init
  <2>2. \A s \in Sids : row[s].state = "unborn"
    BY DEF Init, Blank
  <2> QED BY <2>1, <2>2 DEF RequestsHold, AnswersHold, DeadlinesHold
<1>2. TypeOK /\ RequestsHold /\ AnswersHold /\ DeadlinesHold /\ [Next]_vars
        => RequestsHold' /\ AnswersHold' /\ DeadlinesHold'
  <2>1. ASSUME RequestsHold, AnswersHold, DeadlinesHold, UNCHANGED vars
        PROVE  RequestsHold' /\ AnswersHold' /\ DeadlinesHold'
    BY <2>1 DEF vars, RequestsHold, AnswersHold, DeadlinesHold
  <2> QED BY <2>1, RequestsHoldStep, AnswersHoldStep, DeadlinesHoldStep
<1> QED BY <1>1, <1>2, SessionsTyped, PTL DEF Spec

\* A session is read with success only within the idle window of the read before
\* and within the absolute one of its birth, however late renewals and updates of
\* other handlers are written.
THEOREM ServedInTime == Spec => ServedWithinBothDeadlines
<1> DEFINE InTime == \A s \in Sids :
                        used'[s] # used[s] /\ row'[s] = row[s]
                          => now < used[s] + IdleTTL /\ now <= birth[s] + AbsoluteTTL
<1>1. ASSUME TypeOK, AnswersHold, DeadlinesHold, Next PROVE InTime
  <2> SUFFICES ASSUME NEW s \in Sids, used'[s] # used[s], row'[s] = row[s]
               PROVE  now < used[s] + IdleTTL /\ now <= birth[s] + AbsoluteTTL
    OBVIOUS
  <2>1. /\ now \in Nat /\ IdleTTL \in Nat /\ AbsoluteTTL \in Nat
        /\ row[s].expires \in Nat /\ row[s].created \in Nat /\ used[s] \in Nat
    BY <1>1, DeadlineTyped, Constants DEF TypeOK, Rows, Times, Deadlines
  <2>2. row[s].state = "kept" => /\ row[s].created = birth[s]
                                 /\ row[s].expires <= used[s] + IdleTTL
                                 /\ used[s] <= now
    BY <1>1 DEF DeadlinesHold
  <2>3. Stepped(s)
    BY <1>1, StoreStep
  <2>4. CASE Served(s)
    <3>1. row[s].state = "kept" /\ now < row[s].expires /\ now - row[s].created <= AbsoluteTTL
      BY <2>1, <2>4 DEF Served, Usable, Present, Expired
    <3> QED BY <2>1, <2>2, <3>1
  <2>5. CASE Extended(s)
    \* A renewal that leaves the deadline where it was is one at the time of the read.
    <3>1. row[s].state = "kept" /\ used'[s] = now /\ row'[s].expires = now + IdleTTL
      BY <2>5 DEF Extended, Present
    <3> QED BY <2>1, <2>2, <3>1
  <2>6. ~ Unmoved(s) /\ ~ Opened(s) /\ ~ Ended(s) /\ ~ Rewritten(s)
    BY BlankTyped DEF Unmoved, Opened, Ended, Rewritten
  <2> QED BY <2>3, <2>4, <2>5, <2>6 DEF Stepped
<1>2. ASSUME UNCHANGED vars PROVE InTime
  BY <1>2 DEF vars
<1>3. TypeOK /\ RequestsHold /\ AnswersHold /\ DeadlinesHold /\ [Next]_vars => [InTime]_vars
  BY <1>1, <1>2
<1> QED BY <1>3, HoldsInductive, PTL DEF Spec, ServedWithinBothDeadlines

\* A session that has ended stays ended, unless it is an expired row that a
\* renewal in flight finds; then it lasts no longer than the last read allowed.
THEOREM EndedStaysEnded == Spec => EndsForGood
<1> DEFINE Ends == \A s \in Sids :
                      /\ row[s].state # "unborn" /\ ~ Usable(s)
                      /\ Usable(s)'
                      => /\ backend = "sql" /\ row[s].state = "kept"
                         /\ \E r \in Requests : request[r].pc = "renew" /\ request[r].sid = s
                         /\ row'[s].expires <= used[s] + IdleTTL
<1>1. ASSUME TypeOK, AnswersHold, DeadlinesHold, Next PROVE Ends
  <2> SUFFICES ASSUME NEW s \in Sids, row[s].state # "unborn", ~ Usable(s), Usable(s)'
               PROVE  /\ backend = "sql" /\ row[s].state = "kept"
                      /\ \E r \in Requests : request[r].pc = "renew" /\ request[r].sid = s
                      /\ row'[s].expires <= used[s] + IdleTTL
    OBVIOUS
  <2>1. /\ now \in Nat /\ IdleTTL \in Nat /\ AbsoluteTTL \in Nat
        /\ row[s].expires \in Nat /\ row[s].created \in Nat
    BY <1>1, DeadlineTyped, Constants DEF TypeOK, Rows, Times, Deadlines
  <2>2. /\ Stepped(s) /\ backend' = backend /\ now' \in {now, now + 1}
        /\ now' # now => Unmoved(s)
    BY <1>1, StoreStep
  <2>3. row'[s].state = "kept" /\ row[s].state = "kept" /\ row'[s].created = row[s].created
    BY <1>1, KeptWas DEF Usable, Present
  <2>4. /\ now' < row'[s].expires /\ now' - row'[s].created <= AbsoluteTTL
    <3>1. row'[s].expires \in Nat /\ row'[s].created \in Nat /\ now' \in Nat
      BY <1>1, TypeStep, Constants DEF TypeOK, Rows, Times, Deadlines
    <3> QED BY <2>1, <3>1 DEF Usable, Expired
  <2>5. \/ now >= row[s].expires
        \/ now - row[s].created > AbsoluteTTL
    BY <2>1, <2>3 DEF Usable, Present, Expired
  <2>6. now' = now \/ now' = now + 1
    BY <2>2
  <2>7. row'[s].expires # row[s].expires
    <3>1. SUFFICES ASSUME row'[s].expires = row[s].expires PROVE FALSE
      OBVIOUS
    <3> QED BY <2>1, <2>3, <2>4, <2>5, <2>6, <3>1
  <2>8. Extended(s)
    BY <2>2, <2>3, <2>7, BlankTyped DEF Stepped, Unmoved, Opened, Ended, Served, Rewritten
  <2>9. PICK r \in Requests :
          /\ request[r].pc = "renew" /\ request[r].sid = s /\ Present(s)
          /\ IF backend = "sql"
               THEN row'[s].expires = request[r].until
               ELSE row'[s].expires = now + IdleTTL
    BY <2>8 DEF Extended
  <2>10. now' = now
    BY <2>2, <2>7 DEF Unmoved
  <2>11. now - row[s].created <= AbsoluteTTL
    BY <2>3, <2>4, <2>10
  <2>12. now >= row[s].expires
    BY <2>1, <2>5, <2>11
  <2>13. backend = "sql"
    <3>1. ~ (now < row[s].expires)
      BY <2>1, <2>12
    <3>2. backend # "redis"
      BY <2>9, <3>1 DEF Present
    <3> QED BY <1>1, <3>2, BackendsAssumption DEF TypeOK
  <2>14. request[r].until <= used[s] + IdleTTL
    BY <1>1, <2>3, <2>9 DEF DeadlinesHold
  <2> QED BY <2>3, <2>9, <2>13, <2>14
<1>2. ASSUME UNCHANGED vars PROVE Ends
  BY <1>2 DEF vars, Usable, Present, Expired
<1>3. TypeOK /\ RequestsHold /\ AnswersHold /\ DeadlinesHold /\ [Next]_vars => [Ends]_vars
  BY <1>1, <1>2
<1> QED BY <1>3, HoldsInductive, PTL DEF Spec, EndsForGood

\* A session is one account's from birth to end: what a handler writes back names
\* the account it read, and the store takes it only while the session is kept.
THEOREM OneAccountEach == Spec => AccountIsFixed
<1> DEFINE Fixed == \A s \in Sids : row[s].state = "kept" /\ row'[s].state = "kept"
                                       => row'[s].account = row[s].account
<1>1. ASSUME TypeOK, AnswersHold, Next PROVE Fixed
  BY <1>1, KeptWas
<1>2. ASSUME UNCHANGED vars PROVE Fixed
  BY <1>2 DEF vars
<1>3. TypeOK /\ RequestsHold /\ AnswersHold /\ DeadlinesHold /\ [Next]_vars => [Fixed]_vars
  BY <1>1, <1>2
<1> QED BY <1>3, HoldsInductive, PTL DEF Spec, AccountIsFixed

-----------------------------------------------------------------------------
(* The flows *)

\* Flows are dropped, and handlers go on or stop.
LEMMA FlowsShrink ==
    ASSUME FlowsHold, TypeOK, UNCHANGED <<started, spent>>,
           \A s \in Sids : row'[s].flow \in {row[s].flow, NoFlow},
           \A r \in Requests :
              \/ request'[r] = request[r]
              \/ /\ \/ request'[r].flow = NoFlow
                    \/ request'[r].flow = request[r].flow /\ request'[r].sid = request[r].sid
                 /\ Minted(r)' => Minted(r) /\ request'[r].state = request[r].state
    PROVE  FlowsHold'
<1> USE Constants
<1>1. NoFlow \notin started /\ NoFlow \notin spent
  BY DEF TypeOK
<1>2. \A r \in Requests :
        /\ request'[r].flow \in {request[r].flow, NoFlow}
        /\ request'[r].flow # NoFlow => request'[r].sid = request[r].sid
        /\ Minted(r)' => Minted(r) /\ request'[r].state = request[r].state
  BY DEF Minted
<1>3. \A s \in Sids : row'[s].flow # NoFlow => row'[s].flow = row[s].flow
  OBVIOUS
<1>4. spent' \subseteq started' /\ \A s \in Sids : row'[s].flow \in started' \cup {NoFlow}
  BY DEF FlowsHold
<1>5. SpentFlowsStaySpent'
  BY <1>1 DEF FlowsHold, SpentFlowsStaySpent
<1>6. \A s, t \in Sids : row'[s].flow = row'[t].flow /\ row'[s].flow # NoFlow => s = t
  BY <1>3 DEF FlowsHold
<1>7. \A r \in Requests : request'[r].flow \in started' \cup {NoFlow}
  BY <1>2 DEF FlowsHold
<1>8. \A r \in Requests, s \in Sids :
        row'[s].flow = request'[r].flow /\ row'[s].flow # NoFlow => request'[r].sid = s
  BY <1>2, <1>3 DEF FlowsHold
<1>9. ASSUME NEW r \in Requests, Minted(r)'
      PROVE  /\ request'[r].state \in started' \ spent'
             /\ \A s \in Sids : row'[s].flow # request'[r].state
             /\ \A o \in Requests : request'[o].flow # request'[r].state
             /\ \A o \in Requests \ {r} : Minted(o)' => request'[o].state # request'[r].state
  <2>1. Minted(r) /\ request'[r].state = request[r].state
    BY <1>2, <1>9
  <2>2. /\ request[r].state \in started \ spent /\ request[r].state # NoFlow
        /\ \A s \in Sids : row[s].flow # request[r].state
        /\ \A o \in Requests : request[o].flow # request[r].state
        /\ \A o \in Requests \ {r} : Minted(o) => request[o].state # request[r].state
    BY <1>1, <2>1 DEF FlowsHold
  <2> QED BY <1>2, <2>1, <2>2
<1> QED BY <1>4, <1>5, <1>6, <1>7, <1>8, <1>9 DEF FlowsHold

\* A flow nobody has seen is given to a handler.
LEMMA FlowMinted ==
    ASSUME FlowsHold, TypeOK, UNCHANGED <<row, spent>>, NEW r \in Requests, Others(r),
           NEW f \in Flows \ started, started' = started \cup {f},
           \/ request'[r].flow = NoFlow
           \/ request'[r].sid \in Sids /\ request'[r].flow = row[request'[r].sid].flow,
           Minted(r)' => request'[r].state = f
    PROVE  FlowsHold'
<1> USE Constants
<1>1. NoFlow \notin started /\ f # NoFlow
  BY DEF TypeOK
<1>2. /\ \A s \in Sids : row[s].flow # f
      /\ \A o \in Requests : request[o].flow # f
      /\ \A o \in Requests : Minted(o) => request[o].state # f
      /\ f \notin spent
  BY <1>1 DEF FlowsHold
<1>3. \A o \in Requests \ {r} : request'[o] = request[o] /\ (Minted(o)' <=> Minted(o))
  BY DEF Others, Minted
<1>4. request'[r].flow # f
  BY <1>1, <1>2
<1>5. /\ spent' \subseteq started' /\ SpentFlowsStaySpent'
      /\ \A s \in Sids : row'[s].flow \in started' \cup {NoFlow}
      /\ \A s, t \in Sids : row'[s].flow = row'[t].flow /\ row'[s].flow # NoFlow => s = t
  BY DEF FlowsHold, SpentFlowsStaySpent
<1>6. \A o \in Requests : request'[o].flow \in started' \cup {NoFlow}
  BY <1>3 DEF FlowsHold
<1>7. \A o \in Requests, s \in Sids :
        row'[s].flow = request'[o].flow /\ row'[s].flow # NoFlow => request'[o].sid = s
  BY <1>3 DEF FlowsHold
<1>8. ASSUME NEW o \in Requests, Minted(o)'
      PROVE  /\ request'[o].state \in started' \ spent'
             /\ \A s \in Sids : row'[s].flow # request'[o].state
             /\ \A p \in Requests : request'[p].flow # request'[o].state
             /\ \A p \in Requests \ {o} : Minted(p)' => request'[p].state # request'[o].state
  <2>1. CASE o = r
    BY <1>2, <1>3, <1>4, <1>8, <2>1
  <2>2. CASE o # r
    <3>1. Minted(o) /\ request'[o] = request[o] /\ request[o].state # f
      BY <1>2, <1>3, <1>8, <2>2
    <3>2. /\ request[o].state \in started \ spent /\ request[o].state # NoFlow
          /\ \A s \in Sids : row[s].flow # request[o].state
          /\ \A p \in Requests : request[p].flow # request[o].state
          /\ \A p \in Requests \ {o} : Minted(p) => request[p].state # request[o].state
      BY <1>1, <3>1 DEF FlowsHold
    <3> QED BY <1>3, <3>1, <3>2
  <2> QED BY <2>1, <2>2
<1> QED BY <1>5, <1>6, <1>7, <1>8 DEF FlowsHold

\* A callback reads a session.
LEMMA FlowRead ==
    ASSUME FlowsHold, TypeOK, UNCHANGED <<row, started, spent>>, NEW r \in Requests, Others(r),
           request'[r].sid \in Sids, request'[r].flow = row[request'[r].sid].flow,
           ~ Minted(r)'
    PROVE  FlowsHold'
<1>1. \A o \in Requests \ {r} : request'[o] = request[o] /\ (Minted(o)' <=> Minted(o))
  BY DEF Others, Minted
<1>2. /\ spent' \subseteq started' /\ SpentFlowsStaySpent'
      /\ \A s \in Sids : row'[s].flow \in started' \cup {NoFlow}
      /\ \A s, t \in Sids : row'[s].flow = row'[t].flow /\ row'[s].flow # NoFlow => s = t
  BY DEF FlowsHold, SpentFlowsStaySpent
<1>3. \A o \in Requests : request'[o].flow \in started' \cup {NoFlow}
  BY <1>1 DEF FlowsHold
<1>4. \A o \in Requests, s \in Sids :
        row'[s].flow = request'[o].flow /\ row'[s].flow # NoFlow => request'[o].sid = s
  BY <1>1 DEF FlowsHold
<1>5. ASSUME NEW o \in Requests, Minted(o)'
      PROVE  /\ request'[o].state \in started' \ spent'
             /\ \A s \in Sids : row'[s].flow # request'[o].state
             /\ \A p \in Requests : request'[p].flow # request'[o].state
             /\ \A p \in Requests \ {o} : Minted(p)' => request'[p].state # request'[o].state
  <2>1. o # r /\ Minted(o) /\ request'[o] = request[o]
    BY <1>1, <1>5
  <2>2. /\ request[o].state \in started \ spent
        /\ \A s \in Sids : row[s].flow # request[o].state
        /\ \A p \in Requests : request[p].flow # request[o].state
        /\ \A p \in Requests \ {o} : Minted(p) => request[p].state # request[o].state
    BY <2>1 DEF FlowsHold
  <2> QED BY <1>1, <2>1, <2>2
<1> QED BY <1>2, <1>3, <1>4, <1>5 DEF FlowsHold

\* Who minted a flow puts it on a session, and stops.
LEMMA FlowStored ==
    ASSUME FlowsHold, TypeOK, UNCHANGED <<started, spent>>, NEW r \in Requests, Others(r),
           Minted(r), request'[r] = Idle, NEW t \in Sids, row'[t].flow = request[r].state,
           \A s \in Sids \ {t} : row'[s].flow = row[s].flow
    PROVE  FlowsHold'
<1> USE Constants
<1>1. NoFlow \notin started /\ request'[r].flow = NoFlow /\ ~ Minted(r)'
  BY IdleTyped DEF TypeOK, Minted
<1>2. \A o \in Requests \ {r} : request'[o] = request[o] /\ (Minted(o)' <=> Minted(o))
  BY DEF Others, Minted
<1>3. /\ request[r].state \in started \ spent /\ request[r].state # NoFlow
      /\ \A s \in Sids : row[s].flow # request[r].state
      /\ \A o \in Requests : request[o].flow # request[r].state
      /\ \A o \in Requests \ {r} : Minted(o) => request[o].state # request[r].state
  BY <1>1 DEF FlowsHold
<1>4. /\ spent' \subseteq started'
      /\ \A s \in Sids : row'[s].flow \in started' \cup {NoFlow}
  BY <1>3 DEF FlowsHold
<1>5. SpentFlowsStaySpent'
  BY <1>3 DEF FlowsHold, SpentFlowsStaySpent
<1>6. \A s, u \in Sids : row'[s].flow = row'[u].flow /\ row'[s].flow # NoFlow => s = u
  BY <1>3 DEF FlowsHold
<1>7. \A o \in Requests : request'[o].flow \in started' \cup {NoFlow}
  BY <1>1, <1>2 DEF FlowsHold
<1>8. \A o \in Requests, s \in Sids :
        row'[s].flow = request'[o].flow /\ row'[s].flow # NoFlow => request'[o].sid = s
  BY <1>1, <1>2, <1>3 DEF FlowsHold
<1>9. ASSUME NEW o \in Requests, Minted(o)'
      PROVE  /\ request'[o].state \in started' \ spent'
             /\ \A s \in Sids : row'[s].flow # request'[o].state
             /\ \A p \in Requests : request'[p].flow # request'[o].state
             /\ \A p \in Requests \ {o} : Minted(p)' => request'[p].state # request'[o].state
  <2>1. o # r /\ Minted(o) /\ request'[o] = request[o]
    BY <1>1, <1>2, <1>9
  <2>2. /\ request[o].state \in started \ spent /\ request[o].state # NoFlow
        /\ \A s \in Sids : row[s].flow # request[o].state
        /\ \A p \in Requests : request[p].flow # request[o].state
        /\ \A p \in Requests \ {o} : Minted(p) => request[p].state # request[o].state
    BY <1>1, <2>1 DEF FlowsHold
  <2> QED BY <1>1, <1>2, <1>3, <2>1, <2>2
<1> QED BY <1>4, <1>5, <1>6, <1>7, <1>8, <1>9 DEF FlowsHold

\* A callback clears the flow it read: wherever it was, it is no longer.
LEMMA FlowCleared ==
    ASSUME FlowsHold, TypeOK, UNCHANGED started, NEW r \in Requests, Others(r),
           ~ Minted(r)', request[r].flow # NoFlow, spent' = spent \cup {request[r].flow},
           \/ request'[r].flow = NoFlow
           \/ request'[r].flow = request[r].flow /\ request'[r].sid = request[r].sid,
           \A s \in Sids : row'[s].flow = IF s = request[r].sid THEN NoFlow ELSE row[s].flow
    PROVE  FlowsHold'
<1> USE Constants
<1>1. NoFlow \notin started /\ NoFlow \notin spent
  BY DEF TypeOK
<1>2. \A o \in Requests \ {r} : request'[o] = request[o] /\ (Minted(o)' <=> Minted(o))
  BY DEF Others, Minted
<1>3. spent' \subseteq started' /\ \A s \in Sids : row'[s].flow \in started' \cup {NoFlow}
  BY DEF FlowsHold
<1>4. SpentFlowsStaySpent'
  BY <1>1 DEF FlowsHold, SpentFlowsStaySpent
<1>5. \A s, t \in Sids : row'[s].flow = row'[t].flow /\ row'[s].flow # NoFlow => s = t
  BY DEF FlowsHold
<1>6. \A o \in Requests : request'[o].flow \in started' \cup {NoFlow}
  BY <1>2 DEF FlowsHold
<1>7. \A o \in Requests, s \in Sids :
        row'[s].flow = request'[o].flow /\ row'[s].flow # NoFlow => request'[o].sid = s
  BY <1>2 DEF FlowsHold
<1>8. ASSUME NEW o \in Requests, Minted(o)'
      PROVE  /\ request'[o].state \in started' \ spent'
             /\ \A s \in Sids : row'[s].flow # request'[o].state
             /\ \A p \in Requests : request'[p].flow # request'[o].state
             /\ \A p \in Requests \ {o} : Minted(p)' => request'[p].state # request'[o].state
  <2>1. o # r /\ Minted(o) /\ request'[o] = request[o]
    BY <1>2, <1>8
  <2>2. /\ request[o].state \in started \ spent /\ request[o].state # NoFlow
        /\ \A s \in Sids : row[s].flow # request[o].state
        /\ \A p \in Requests : request[p].flow # request[o].state
        /\ \A p \in Requests \ {o} : Minted(p) => request[p].state # request[o].state
    BY <1>1, <2>1 DEF FlowsHold
  <2> QED BY <1>2, <2>1, <2>2
<1> QED BY <1>3, <1>4, <1>5, <1>6, <1>7, <1>8 DEF FlowsHold

\* What a handler that goes on or stops does with flows.
LEMMA MovedShrinks ==
    ASSUME TypeOK, NEW r \in Requests, Continues(r), NEW o \in Requests
    PROVE  \/ request'[o] = request[o]
           \/ /\ \/ request'[o].flow = NoFlow
                 \/ request'[o].flow = request[o].flow /\ request'[o].sid = request[o].sid
              /\ Minted(o)' => Minted(o) /\ request'[o].state = request[o].state
BY ContinuesIs DEF Moved, Others, Minted

LEMMA CreateFlow ==
    ASSUME TypeOK, NEW t \in Sids, NEW account, NEW flow, Create(t, account, flow)
    PROVE  row'[t].flow = flow /\ \A s \in Sids \ {t} : row'[s].flow = row[s].flow
BY DEF Create, TypeOK

LEMMA DeleteFlow ==
    ASSUME TypeOK, NEW t, Delete(t) \/ UNCHANGED <<row, birth, used>>, NEW s \in Sids
    PROVE  row'[s].flow \in {row[s].flow, NoFlow}
BY DeleteIs, BlankTyped DEF Unmoved, Ended

\* Reading mints, reads or lets go of a flow.
LEMMA FlowsReadStep ==
    ASSUME TypeOK, FlowsHold, NEW r \in Requests, Read(r)
    PROVE  FlowsHold'
<1>1. PICK op \in {"serve", "logout", "start", "callback"}, s \in Sids, f \in Flows \cup {NoFlow} :
        ReadOf(r, op, s, f)
  BY ReadIs
<1>2. UNCHANGED <<row, spent>> /\ Others(r)
  BY <1>1 DEF Read, ReadOf, Others
<1>3. Left(request'[r], op, s, f) /\ Brought(op, f)
        /\ started' = (IF op = "start" THEN started \cup {f} ELSE started)
  BY <1>1 DEF ReadOf
<1>4. CASE op = "start"
  <2>1. f \in Flows \ started /\ started' = started \cup {f}
    BY <1>3, <1>4 DEF Brought
  <2>2. \/ request'[r].flow = NoFlow
        \/ request'[r].sid \in Sids /\ request'[r].flow = row[request'[r].sid].flow
    BY <1>3, <1>4 DEF Left
  <2>3. Minted(r)' => request'[r].state = f
    BY <1>3 DEF Left, Minted
  <2> QED BY <1>2, <2>1, <2>2, <2>3, FlowMinted
<1>5. CASE op = "callback"
  <2>1. UNCHANGED started /\ ~ Minted(r)'
    BY <1>3, <1>5 DEF Left, Minted
  <2>2. CASE request'[r].flow = NoFlow
    BY <1>2, <2>1, <2>2, FlowsShrink DEF Others
  <2>3. CASE request'[r].sid \in Sids /\ request'[r].flow = row[request'[r].sid].flow
    BY <1>2, <2>1, <2>3, FlowRead
  <2> QED BY <1>3, <1>5, <2>2, <2>3 DEF Left
<1>6. CASE op \in {"serve", "logout"}
  <2>1. UNCHANGED started /\ ~ Minted(r)' /\ request'[r].flow = NoFlow
    BY <1>3, <1>6 DEF Left, Minted
  <2> QED BY <1>2, <2>1, FlowsShrink DEF Others
<1> QED BY <1>4, <1>5, <1>6

\* The other steps put a flow on one session, clear one, or let go.
LEMMA FlowsContinueStep ==
    ASSUME TypeOK, RequestsHold, AnswersHold, FlowsHold, NEW r \in Requests, Continues(r)
    PROVE  FlowsHold'
<1>1. ASSUME UNCHANGED <<started, spent>>,
             \A s \in Sids : row'[s].flow \in {row[s].flow, NoFlow}
      PROVE  FlowsHold'
  BY <1>1, MovedShrinks, FlowsShrink
<1>2. Others(r)
  BY ContinuesIs
<1>3. CASE DropExpired(r) \/ AuthLogout(r) \/ ReplacePending(r)
  BY <1>1, <1>3, DeleteFlow DEF DropExpired, AuthLogout, ReplacePending
<1>4. CASE Renew(r)
  BY <1>1, <1>4, RenewIs DEF Renew
<1>5. CASE NoFlowInProgress(r) \/ Exchange(r)
  BY <1>1, <1>5 DEF NoFlowInProgress, Exchange
<1>6. ASSUME Done(r) PROVE request'[r] = Idle
  BY <1>6 DEF Done, To, TypeOK
<1>7. CASE StoreFlow(r)
  <2>1. CASE UNCHANGED row
    BY <1>1, <1>7, <2>1 DEF StoreFlow
  <2>2. CASE Update(r, FlowToStore(r))
    <3>1. request[r].sid \in Sids /\ Minted(r) /\ request'[r] = Idle
      BY <1>6, <1>7 DEF RequestsHold, Minted, StoreFlow
    <3>2. \A s \in Sids : IF s = request[r].sid /\ Writable(s)
                            THEN row'[s].flow = request[r].state ELSE row'[s].flow = row[s].flow
      BY <1>7, <2>2, UpdateIs DEF StoreFlow, FlowToStore
    <3>3. CASE Writable(request[r].sid)
      BY <1>2, <1>7, <3>1, <3>2, <3>3, FlowStored DEF StoreFlow
    <3>4. CASE ~ Writable(request[r].sid)
      BY <1>1, <1>7, <3>2, <3>4 DEF StoreFlow
    <3> QED BY <3>3, <3>4
  <2> QED BY <1>7, <2>1, <2>2 DEF StoreFlow
<1>8. CASE OpenPending(r)
  <2>1. CASE UNCHANGED row
    BY <1>1, <1>8, <2>1 DEF OpenPending
  <2>2. ASSUME NEW t \in Sids, Create(t, NoUser, request[r].state) PROVE FlowsHold'
    BY <1>2, <1>6, <1>8, <2>2, CreateFlow, FlowStored DEF OpenPending, Minted
  <2> QED BY <1>8, <2>1, <2>2 DEF OpenPending
<1>9. CASE OpenSession(r)
  <2>1. CASE UNCHANGED row
    BY <1>1, <1>9, <2>1 DEF OpenSession
  <2>2. ASSUME NEW t \in Sids, Create(t, request[r].account, NoFlow) PROVE FlowsHold'
    BY <1>1, <1>9, <2>2, CreateFlow DEF OpenSession
  <2> QED BY <1>9, <2>1, <2>2 DEF OpenSession
<1>10. CASE ClearFlow(r)
  <2>1. CASE UNCHANGED <<row, spent>>
    BY <1>1, <1>10, <2>1 DEF ClearFlow
  <2>2. CASE /\ Update(r, NoFlow)
             /\ spent' = IF Writable(request[r].sid) THEN spent \cup {request[r].flow} ELSE spent
    <3>1. \A s \in Sids : IF s = request[r].sid /\ Writable(s)
                            THEN row'[s].flow = NoFlow ELSE row'[s].flow = row[s].flow
      BY <1>10, <2>2, UpdateIs DEF ClearFlow
    <3>2. CASE Writable(request[r].sid)
      <4>1. ~ Minted(r)'
        BY <1>10, ContinuesIs DEF ClearFlow, Moved, Minted
      <4>2. \/ request'[r].flow = NoFlow
            \/ request'[r].flow = request[r].flow /\ request'[r].sid = request[r].sid
        BY ContinuesIs DEF Moved
      <4>3. \A s \in Sids : row'[s].flow = IF s = request[r].sid THEN NoFlow ELSE row[s].flow
        BY <3>1, <3>2
      <4>4. spent' = spent \cup {request[r].flow} /\ request[r].flow # NoFlow /\ UNCHANGED started
        BY <1>10, <2>2, <3>2 DEF ClearFlow
      <4> QED BY <1>2, <4>1, <4>2, <4>3, <4>4, FlowCleared
    <3>3. CASE ~ Writable(request[r].sid)
      BY <1>1, <1>10, <2>2, <3>1, <3>3 DEF ClearFlow
    <3> QED BY <3>2, <3>3
  <2> QED BY <1>10, <2>1, <2>2 DEF ClearFlow
<1> QED BY <1>3, <1>4, <1>5, <1>7, <1>8, <1>9, <1>10 DEF Continues

LEMMA FlowsHoldStep ==
    ASSUME TypeOK, RequestsHold, AnswersHold, FlowsHold, Next
    PROVE  FlowsHold'
<1>1. ASSUME NEW r \in Requests, Handler(r) PROVE FlowsHold'
  <2>1. CASE StartFresh(r)
    <3>1. PICK f \in Flows \ started :
            /\ started' = started \cup {f}
            /\ request'[r].pc = "pending" /\ request'[r].state = f /\ request'[r].flow = NoFlow
            /\ Others(r)
      BY <2>1, StartFreshIs
    <3> QED BY <2>1, <3>1, FlowMinted DEF StartFresh
  <2> QED BY <1>1, <2>1, FlowsReadStep, FlowsContinueStep DEF Handler, Continues
<1>2. ASSUME UNCHANGED <<request, started, spent>>,
             \A s \in Sids : row'[s].flow \in {row[s].flow, NoFlow}
      PROVE  FlowsHold'
  BY <1>2, FlowsShrink
<1>3. CASE AuthLogin
  <2>1. PICK t \in Sids, u \in Users : Create(t, u, NoFlow)
    BY <1>3 DEF AuthLogin
  <2> QED BY <1>2, <1>3, <2>1, CreateFlow DEF AuthLogin
<1>4. CASE PurgeExpired
  BY <1>2, <1>4, BlankTyped DEF PurgeExpired
<1>5. CASE Tick
  BY <1>2, <1>5 DEF Tick
<1> QED BY <1>1, <1>3, <1>4, <1>5 DEF Next

\* A flow that has been cleared is on no session again: sign-ins that are started
\* and come back, in any number, while callbacks read and write whole records.
THEOREM SpentIsSpent == Spec => []SpentFlowsStaySpent
<1>1. Init => FlowsHold
  <2> SUFFICES ASSUME Init PROVE FlowsHold
    OBVIOUS
  <2>1. \A r \in Requests : request[r].pc = "idle" /\ request[r].flow = NoFlow /\ ~ Minted(r)
    BY IdleTyped DEF Init, Minted
  <2>2. \A s \in Sids : row[s].flow = NoFlow
    BY DEF Init, Blank
  <2>3. started = {} /\ spent = {}
    BY DEF Init
  <2> QED BY <2>1, <2>2, <2>3 DEF FlowsHold, SpentFlowsStaySpent
<1>2. TypeOK /\ RequestsHold /\ AnswersHold /\ DeadlinesHold /\ FlowsHold /\ [Next]_vars
        => FlowsHold'
  <2>1. ASSUME FlowsHold, UNCHANGED vars PROVE FlowsHold'
    BY <2>1 DEF vars, FlowsHold, SpentFlowsStaySpent, Minted
  <2> QED BY <2>1, FlowsHoldStep
<1>3. FlowsHold => SpentFlowsStaySpent
  BY DEF FlowsHold
<1> QED BY <1>1, <1>2, <1>3, HoldsInductive, PTL DEF Spec

=============================================================================
