------------------------------ MODULE Sessions ------------------------------
(***************************************************************************)
(* Login sessions and the OIDC flow that rides on them.  A session has two *)
(* deadlines, an idle one that reading pushes out and an absolute one from *)
(* its creation.  Rows live in the database or in Redis; the two stores    *)
(* promise the same.  A session without an account is pending: a visitor   *)
(* is away at a provider, and the flow that will sign him in is on it.     *)
(*                                                                         *)
(* A statement on the store is one action: handlers read, decide and write *)
(* in separate ones, and time passes in between.                           *)
(***************************************************************************)
EXTENDS Naturals, FiniteSets

CONSTANTS
    Sids,           \* session ids, each handed out once
    Users,
    Flows,          \* pending authorization requests, told apart by their state
    Requests,       \* handlers in flight at once
    Backends,       \* the stores a behaviour may run on
    IdleTTL, AbsoluteTTL,
    MaxTime,        \* bound: the clock stops here
    NoUser, NoFlow, NoSid

ASSUME BackendsAssumption == Backends \subseteq {"sql", "redis"}
ASSUME DeadlinesAssumption ==
    /\ IdleTTL \in Nat \ {0} /\ AbsoluteTTL \in Nat \ {0} /\ MaxTime \in Nat
ASSUME NullsAssumption == NoUser \notin Users /\ NoFlow \notin Flows /\ NoSid \notin Sids

VARIABLES
    backend,
    now,
    row,            \* the session table, or the session keys
    request,        \* the handlers
    started,        \* flows whose state and nonce have been minted
    spent,          \* flows a callback has cleared from their session
    birth,          \* when each session was opened
    used            \* when each session was last read with success or renewed

vars == <<backend, now, row, request, started, spent, birth, used>>

-----------------------------------------------------------------------------
Times == 0 .. MaxTime
Deadlines == 0 .. MaxTime + IdleTTL

Rows == [state : {"unborn", "kept", "gone"}, account : Users \cup {NoUser},
         created : Times, expires : Deadlines, flow : Flows \cup {NoFlow}]

Blank == [state |-> "unborn", account |-> NoUser, created |-> 0, expires |-> 0, flow |-> NoFlow]
Gone == [Blank EXCEPT !.state = "gone"]

(***************************************************************************)
(* pc        drop, renew       inside Get                                  *)
(*           ready             Get has answered with account and flow      *)
(*           exchange          the flow is cleared, the provider is asked  *)
(*           replace, open     completeOIDCLogin                           *)
(*           pending           a session for a new flow                    *)
(* account, created and flow are what Get answered a handler that will     *)
(* write them back; state is what the handler brings along, the flow it    *)
(* minted or the one the callback's query names.                           *)
(***************************************************************************)
RequestStates ==
    [pc : {"idle", "drop", "renew", "ready", "exchange", "replace", "open", "pending"},
     op : {"serve", "logout", "start", "callback"},
     sid : Sids \cup {NoSid},
     account : Users \cup {NoUser}, created : Times, flow : Flows \cup {NoFlow},
     state : Flows \cup {NoFlow},
     until : Deadlines]

Idle == [pc |-> "idle", op |-> "serve", sid |-> NoSid, account |-> NoUser, created |-> 0,
         flow |-> NoFlow, state |-> NoFlow, until |-> 0]

To(r, q) == request' = [request EXCEPT ![r] = q]
Done(r) == To(r, Idle)
Become(r, pc) == To(r, [request[r] EXCEPT !.pc = pc])

\* Redis drops a key at its deadline, the database keeps the row.
Present(s) == row[s].state = "kept" /\ (backend = "redis" => now < row[s].expires)

Expired(s) == now >= row[s].expires \/ now - row[s].created > AbsoluteTTL

Usable(s) == Present(s) /\ ~ Expired(s)

\* Threshold renewal: half the idle window is gone.
RenewalDue(s) == 2 * (row[s].expires - now) < IdleTTL

-----------------------------------------------------------------------------
(* The store *)

Create(s, account, flow) ==
    /\ row[s].state = "unborn"
    /\ row' = [row EXCEPT ![s] = [state |-> "kept", account |-> account, created |-> now,
                                  expires |-> now + IdleTTL, flow |-> flow]]
    /\ birth' = [birth EXCEPT ![s] = now]
    /\ used' = [used EXCEPT ![s] = now]

Forget(s) ==
    /\ row' = [row EXCEPT ![s] = Gone]
    /\ birth' = [birth EXCEPT ![s] = 0]
    /\ used' = [used EXCEPT ![s] = 0]

Delete(s) == IF row[s].state = "kept" THEN Forget(s) ELSE UNCHANGED <<row, birth, used>>

\* The predicate of the UPDATE, the XX of the SET: nothing is written to a
\* session that has ended.
Writable(s) == Present(s) /\ (backend = "sql" => now < row[s].expires)

\* Slip: the write restarts the idle window.
WrittenAfresh(r, flow) ==
    [state |-> "kept", account |-> request[r].account, created |-> request[r].created,
     expires |-> now + IdleTTL, flow |-> flow]

\* Slip: the flow a callback came for makes the session the visitor's.
WrittenPromoted(r, flow) ==
    [state |-> "kept", created |-> request[r].created, expires |-> row[request[r].sid].expires,
     account |-> IF flow = NoFlow /\ request[r].account = NoUser
                   THEN CHOOSE u \in Users : TRUE ELSE request[r].account,
     flow |-> flow]

\* Update writes what Get answered, the flow apart, and keeps the deadline.
Written(r, flow) ==
    [state |-> "kept", account |-> request[r].account, created |-> request[r].created,
     expires |-> row[request[r].sid].expires, flow |-> flow]

Update(r, flow) ==
    row' = [row EXCEPT ![request[r].sid] = IF Writable(request[r].sid) THEN Written(r, flow) ELSE @]

-----------------------------------------------------------------------------
(* Get, as the first step of every handler that has a cookie *)

NotFound(r, q) == To(r, IF q.op = "start" THEN [Idle EXCEPT !.pc = "pending", !.state = q.state]
                                          ELSE Idle)

\* Get answers.  authenticateSession and shareSession go on to the account
\* (module Credentials) and write nothing more.
Answer(r, q) == To(r, IF q.op = "serve" THEN Idle ELSE [q EXCEPT !.pc = "ready", !.until = 0])

\* What the handler brings: OIDCStart mints a flow, the callback names one.
Brought(op, f) ==
    CASE op = "start" -> f \in Flows \ started
      [] op = "callback" -> f \in started
      [] OTHER -> f = NoFlow

Read(r) ==
    /\ request[r].pc = "idle"
    /\ \E op \in {"serve", "logout", "start", "callback"}, s \in Sids, f \in Flows \cup {NoFlow} :
          /\ row[s].state # "unborn"
          /\ Brought(op, f)
          /\ started' = IF op = "start" THEN started \cup {f} ELSE started
          /\ LET q == [Idle EXCEPT !.op = op, !.sid = s, !.state = f]
                 answer == IF op \in {"serve", "logout"} THEN q
                           ELSE [q EXCEPT !.account = row[s].account, !.created = row[s].created,
                                          !.flow = row[s].flow]
             IN
             \/ /\ ~ Present(s)
                /\ NotFound(r, q)
                /\ UNCHANGED used
             \/ /\ Present(s) /\ Expired(s)
                /\ To(r, [q EXCEPT !.pc = "drop"])
                /\ UNCHANGED used
             \/ /\ Usable(s)
                /\ IF RenewalDue(s)
                     THEN To(r, [answer EXCEPT !.pc = "renew", !.until = now + IdleTTL])
                     ELSE Answer(r, answer)
                /\ used' = [used EXCEPT ![s] = now]
    /\ UNCHANGED <<backend, now, row, spent, birth>>

\* Get deletes what it found expired; a failure is ignored.
DropExpired(r) ==
    /\ request[r].pc = "drop"
    /\ Delete(request[r].sid) \/ UNCHANGED <<row, birth, used>>
    /\ NotFound(r, request[r])
    /\ UNCHANGED <<backend, now, started, spent>>

\* Slip: the renewal inserts the row it does not find.
RenewedFromNothing(r) ==
    [row EXCEPT ![request[r].sid].state = "kept", ![request[r].sid].expires = request[r].until]

\* The database is told the deadline computed at the read, by id alone; Redis
\* counts from the EXPIRE.  Neither makes a session out of nothing.
Renewed(r) ==
    LET s == request[r].sid IN
    IF Present(s)
      THEN [row EXCEPT ![s].expires =
              IF backend = "sql" THEN request[r].until ELSE now + IdleTTL]
      ELSE row

Renew(r) ==
    /\ request[r].pc = "renew"
    /\ \/ /\ row' = Renewed(r)
          /\ used' = IF backend = "redis" /\ Present(request[r].sid)
                       THEN [used EXCEPT ![request[r].sid] = now] ELSE used
       \/ UNCHANGED <<row, used>>
    /\ Answer(r, request[r])
    /\ UNCHANGED <<backend, now, started, spent, birth>>

-----------------------------------------------------------------------------
(* The handlers *)

AuthLogout(r) ==
    /\ request[r].pc = "ready" /\ request[r].op = "logout"
    /\ Delete(request[r].sid) \/ UNCHANGED <<row, birth, used>>
    /\ Done(r)
    /\ UNCHANGED <<backend, now, started, spent>>

\* startSession, for a password that was right.
AuthLogin ==
    /\ \E s \in Sids, u \in Users : Create(s, u, NoFlow)
    /\ UNCHANGED <<backend, now, request, started, spent>>

\* OIDCStart without a cookie.
StartFresh(r) ==
    /\ request[r].pc = "idle"
    /\ \E f \in Flows \ started :
          /\ started' = started \cup {f}
          /\ To(r, [Idle EXCEPT !.pc = "pending", !.state = f])
    /\ UNCHANGED <<backend, now, row, spent, birth, used>>

\* Slip: a flow the session already carries is kept, not replaced.
FlowKept(r) == IF request[r].flow = NoFlow THEN request[r].state ELSE request[r].flow

FlowToStore(r) == request[r].state

\* storeFlow on the session there is, pending or live.
StoreFlow(r) ==
    /\ request[r].pc = "ready" /\ request[r].op = "start"
    /\ Update(r, FlowToStore(r)) \/ UNCHANGED row
    /\ Done(r)
    /\ UNCHANGED <<backend, now, started, spent, birth, used>>

OpenPending(r) ==
    /\ request[r].pc = "pending"
    /\ \/ \E s \in Sids : Create(s, NoUser, request[r].state)
       \/ UNCHANGED <<row, birth, used>>
    /\ Done(r)
    /\ UNCHANGED <<backend, now, started, spent>>

NoFlowInProgress(r) ==
    /\ request[r].pc = "ready" /\ request[r].op = "callback"
    /\ request[r].flow = NoFlow
    /\ Done(r)
    /\ UNCHANGED <<backend, now, row, started, spent, birth, used>>

\* clearFlow, before the state is compared.  A session that has ended counts as
\* a consumed flow; a store that fails ends the handler.
ClearFlow(r) ==
    /\ request[r].pc = "ready" /\ request[r].op = "callback"
    /\ request[r].flow # NoFlow
    /\ \/ /\ Update(r, NoFlow)
          /\ spent' = IF Writable(request[r].sid) THEN spent \cup {request[r].flow} ELSE spent
          /\ IF request[r].flow = request[r].state THEN Become(r, "exchange") ELSE Done(r)
       \/ Done(r) /\ UNCHANGED <<row, spent>>
    /\ UNCHANGED <<backend, now, started, birth, used>>

\* The provider refuses, or vouches for a subject: of a session with an account
\* the identity is linked (module Accounts), a visitor's account is resolved.
Exchange(r) ==
    /\ request[r].pc = "exchange"
    /\ \/ Done(r)
       \/ /\ request[r].account = NoUser
          /\ \E u \in Users : To(r, [request[r] EXCEPT !.pc = "replace", !.account = u])
    /\ UNCHANGED <<backend, now, row, started, spent, birth, used>>

\* The pending session is dropped, if the store lets it.
ReplacePending(r) ==
    /\ request[r].pc = "replace"
    /\ Delete(request[r].sid) \/ UNCHANGED <<row, birth, used>>
    /\ Become(r, "open")
    /\ UNCHANGED <<backend, now, started, spent>>

OpenSession(r) ==
    /\ request[r].pc = "open"
    /\ \/ \E s \in Sids : Create(s, request[r].account, NoFlow)
       \/ UNCHANGED <<row, birth, used>>
    /\ Done(r)
    /\ UNCHANGED <<backend, now, started, spent>>

\* The cleanup cron sweeps the table: what no read will answer with again.
PurgeExpired ==
    /\ backend = "sql"
    /\ \E s \in Sids : row[s].state = "kept"
    /\ LET past == {s \in Sids : row[s].state = "kept" /\
                       (row[s].expires <= now \/ row[s].created + AbsoluteTTL <= now)} IN
       /\ row' = [s \in Sids |-> IF s \in past THEN Gone ELSE row[s]]
       /\ birth' = [s \in Sids |-> IF s \in past THEN 0 ELSE birth[s]]
       /\ used' = [s \in Sids |-> IF s \in past THEN 0 ELSE used[s]]
    /\ UNCHANGED <<backend, now, request, started, spent>>

Tick ==
    /\ now < MaxTime
    /\ now' = now + 1
    /\ UNCHANGED <<backend, row, request, started, spent, birth, used>>

-----------------------------------------------------------------------------
Init ==
    /\ backend \in Backends
    /\ now = 0
    /\ row = [s \in Sids |-> Blank]
    /\ request = [r \in Requests |-> Idle]
    /\ started = {} /\ spent = {}
    /\ birth = [s \in Sids |-> 0]
    /\ used = [s \in Sids |-> 0]

Handler(r) ==
    \/ Read(r) \/ DropExpired(r) \/ Renew(r)
    \/ AuthLogout(r)
    \/ StartFresh(r) \/ StoreFlow(r) \/ OpenPending(r)
    \/ NoFlowInProgress(r) \/ ClearFlow(r) \/ Exchange(r)
    \/ ReplacePending(r) \/ OpenSession(r)

Next ==
    \/ \E r \in Requests : Handler(r)
    \/ AuthLogin \/ PurgeExpired \/ Tick

Spec == Init /\ [][Next]_vars

-----------------------------------------------------------------------------
\* The type invariant: every variable keeps to its domain.
TypeOK ==
    /\ backend \in Backends
    /\ now \in Times
    /\ row \in [Sids -> Rows]
    /\ request \in [Requests -> RequestStates]
    /\ started \subseteq Flows /\ spent \subseteq Flows
    /\ birth \in [Sids -> Times] /\ used \in [Sids -> Times]

\* A flow that a callback has cleared never rides on a session again, whatever
\* sign-ins are started and come back while the callback reads and writes.
SpentFlowsStaySpent == \A s \in Sids : row[s].flow \notin spent

\* Get answers only with a session that was used within the idle window and
\* opened within the absolute one, however slow the renewals and updates of
\* other requests are.
ServedWithinBothDeadlines ==
    [][\A s \in Sids :
         used'[s] # used[s] /\ row'[s] = row[s]
         => now < used[s] + IdleTTL /\ now <= birth[s] + AbsoluteTTL]_vars

\* A session that has ended stays ended: logged out, dropped and swept ones for
\* good; only an expired row the database still has is revived, by a renewal in
\* flight, and no further than the idle window of the last read that was served.
EndsForGood ==
    [][\A s \in Sids :
         /\ row[s].state # "unborn" /\ ~ Usable(s)
         /\ Usable(s)'
         => /\ backend = "sql" /\ row[s].state = "kept"
            /\ \E r \in Requests : request[r].pc = "renew" /\ request[r].sid = s
            /\ row'[s].expires <= used[s] + IdleTTL]_vars

\* A session id is one account's from birth to end: the id a visitor held before
\* signing in never becomes that of a signed-in session.
AccountIsFixed ==
    [][\A s \in Sids : row[s].state = "kept" /\ row'[s].state = "kept"
                         => row'[s].account = row[s].account]_vars

=============================================================================
