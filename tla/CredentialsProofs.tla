--------------------------- MODULE CredentialsProofs ---------------------------
(***************************************************************************)
(* Proofs about Credentials: for any number of accounts, pages, tokens and *)
(* handlers under way, and any batch size.                                 *)
(***************************************************************************)
EXTENDS Credentials, FiniteSetTheorems, TLAPS

-----------------------------------------------------------------------------
(* The inductive invariants *)

\* A request acts for an account, and deletes another.
Acting ==
    \A r \in Requests :
      /\ request[r].pc # "idle" => request[r].actor \in Users
      /\ request[r].pc \in {"list", "delete", "remove"} =>
           request[r].target \in Users \ {request[r].actor}

\* What credentials are about, and a token that was ever issued has an owner.
CredentialsHeld ==
    /\ account \in [Users -> {"active", "disabled", "gone"}]
    /\ admin \in SUBSET Users
    /\ page \in [Pages -> PageRows]
    /\ token \in [Tokens -> TokenRows]
    /\ request \in [Requests -> RequestStates]
    /\ late \in SUBSET (Pages \cup Tokens)
    /\ Acting
    /\ \A t \in Tokens : token[t].state \notin {"none", "removed"} => token[t].owner \in Users

\* Once a deletion has looked for the last time, what the account has is late;
\* when it has removed the account too.
LastLooks ==
    /\ OrphansAreLate
    /\ \A r \in Requests, u \in Users :
         request[r].pc = "remove" /\ request[r].target = u => Owned(u) \subseteq late

\* A request that moves on, or is done.
LEMMA HandlerGoesOn ==
    ASSUME NEW h \in RequestStates
    PROVE  /\ Idle \in RequestStates
           /\ \A u \in Users : [Idle EXCEPT !.pc = "status", !.actor = u] \in RequestStates
           /\ \A pc \in {"act", "admin", "remove"} : [h EXCEPT !.pc = pc] \in RequestStates
           /\ \A u \in Users : [h EXCEPT !.pc = "list", !.target = u] \in RequestStates
           /\ \A batch \in SUBSET Pages :
                /\ [h EXCEPT !.pc = "delete", !.batch = batch] \in RequestStates
                /\ \A pc \in {"list", "delete"} :
                     [h EXCEPT !.batch = batch, !.pc = pc] \in RequestStates
  BY DEF RequestStates, Idle

\* How a request may go on: it is done, a credential names its actor, or it goes
\* on for the same actor, past the account's status only if that is active, and
\* to the removal of an account only if that has no pages.
GoesOn(old, new) ==
    \/ new = Idle
    \/ new.pc = "status" /\ new.actor \in Users
    \/ /\ old.pc # "idle" /\ new.actor = old.actor
       /\ old.pc = "status" => Active(old.actor)
       /\ \/ new.pc \in {"act", "admin"}
          \/ new.pc = "list" /\ new.target \in Users \ {new.actor}
          \/ /\ old.pc \in {"list", "delete"} /\ new.pc \in {"list", "delete", "remove"}
             /\ new.target = old.target
             /\ new.pc = "remove" => Owned(new.target) = {} /\ UNCHANGED page

LEMMA HandlersGoOn ==
    ASSUME CredentialsHeld, NEW r \in Requests, Handler(r)
    PROVE  \E new \in RequestStates :
             request' = [request EXCEPT ![r] = new] /\ GoesOn(request[r], new)
<1>. PICK old \in RequestStates : old = request[r]
  BY DEF CredentialsHeld
<1>. /\ old.pc # "idle" => old.actor \in Users
     /\ old.pc \in {"list", "delete", "remove"} => old.target \in Users \ {old.actor}
  BY DEF CredentialsHeld, Acting
<1>1. CASE Done(r)
  <2>1. Idle \in RequestStates /\ request' = [request EXCEPT ![r] = Idle]
    BY <1>1, HandlerGoesOn DEF Done, To
  <2>. QED  BY <2>1, Zenon DEF GoesOn
<1>2. ASSUME NEW u \in Users, To(r, [Idle EXCEPT !.pc = "status", !.actor = u])
      PROVE  \E new \in RequestStates :
               request' = [request EXCEPT ![r] = new] /\ GoesOn(request[r], new)
  <2>1. PICK new \in RequestStates : new = [Idle EXCEPT !.pc = "status", !.actor = u]
    BY HandlerGoesOn, Zenon
  <2>2. new.pc = "status" /\ new.actor = u
    BY <2>1 DEF Idle
  <2>3. request' = [request EXCEPT ![r] = new]
    BY <1>2, <2>1 DEF To
  <2>. QED  BY <2>2, <2>3, Zenon DEF GoesOn
<1>3. CASE PresentSession(r)
  BY <1>2, <1>3 DEF PresentSession
<1>4. CASE PresentToken(r)
  <2>1. PICK t \in Tokens : /\ token[t].state = "valid"
                           /\ To(r, [Idle EXCEPT !.pc = "status", !.actor = token[t].owner])
    BY <1>4 DEF PresentToken
  <2>2. token[t].owner \in Users
    BY <2>1 DEF CredentialsHeld
  <2>. QED  BY <1>2, <2>1, <2>2, Zenon
<1>5. ASSUME NEW pc \in {"act", "admin"}, Become(r, pc), old.pc # "idle",
             old.pc = "status" => Active(old.actor)
      PROVE  \E new \in RequestStates :
               request' = [request EXCEPT ![r] = new] /\ GoesOn(request[r], new)
  <2>1. PICK new \in RequestStates : new = [old EXCEPT !.pc = pc]
    BY HandlerGoesOn, Zenon
  <2>2. new.pc = pc /\ new.actor = old.actor
    BY <2>1 DEF RequestStates
  <2>3. request' = [request EXCEPT ![r] = new]
    BY <1>5, <2>1, Zenon DEF Become, To
  <2>. QED  BY <1>5, <2>2, <2>3 DEF GoesOn
<1>6. CASE CheckAccount(r)
  BY <1>1, <1>5, <1>6 DEF CheckAccount, MayAuthenticate
<1>7. CASE \/ Publish(r) \/ DeletePage(r) \/ CreateToken(r) \/ RevokeToken(r)
           \/ DeleteRevokedToken(r) \/ AdminPatchUser(r) \/ RemoveAccount(r)
           \/ DeletionFails(r)
  BY <1>1, <1>7 DEF Publish, DeletePage, CreateToken, RevokeToken, DeleteRevokedToken,
                    AdminPatchUser, RemoveAccount, DeletionFails
<1>8. CASE RequireAdmin(r)
  BY <1>1, <1>5, <1>8 DEF RequireAdmin
<1>9. CASE DeleteUser(r)
  <2>1. CASE Done(r)
    BY <1>1, <2>1
  <2>2. ASSUME NEW u \in Users \ {old.actor},
               To(r, [old EXCEPT !.pc = "list", !.target = u])
        PROVE  \E new \in RequestStates :
                 request' = [request EXCEPT ![r] = new] /\ GoesOn(request[r], new)
    <3>1. PICK new \in RequestStates : new = [old EXCEPT !.pc = "list", !.target = u]
      BY HandlerGoesOn, Zenon
    <3>2. new.pc = "list" /\ new.actor = old.actor /\ new.target = u
      BY <3>1 DEF RequestStates
    <3>3. request' = [request EXCEPT ![r] = new]
      BY <2>2, <3>1 DEF To
    <3>4. old.pc = "admin"
      BY <1>9 DEF DeleteUser
    <3>. QED  BY <2>2, <3>2, <3>3, <3>4 DEF GoesOn
  <2>. QED  BY <1>9, <2>1, <2>2 DEF DeleteUser
<1>10. CASE ListOwned(r)
  <2>1. old.pc = "list"
    BY <1>10 DEF ListOwned
  <2>2. CASE Owned(old.target) = {} /\ Become(r, "remove")
    <3>1. PICK new \in RequestStates : new = [old EXCEPT !.pc = "remove"]
      BY HandlerGoesOn, Zenon
    <3>2. new.pc = "remove" /\ new.actor = old.actor /\ new.target = old.target
      BY <3>1 DEF RequestStates
    <3>3. request' = [request EXCEPT ![r] = new]
      BY <2>2, <3>1, Zenon DEF Become, To
    <3>4. UNCHANGED page
      BY <1>10 DEF ListOwned
    <3>. QED  BY <2>1, <2>2, <3>2, <3>3, <3>4 DEF GoesOn
  <2>3. ASSUME NEW batch \in SUBSET Pages,
               To(r, [old EXCEPT !.pc = "delete", !.batch = batch])
        PROVE  \E new \in RequestStates :
                 request' = [request EXCEPT ![r] = new] /\ GoesOn(request[r], new)
    <3>1. PICK new \in RequestStates : new = [old EXCEPT !.pc = "delete", !.batch = batch]
      BY HandlerGoesOn, Zenon
    <3>2. new.pc = "delete" /\ new.actor = old.actor /\ new.target = old.target
      BY <3>1 DEF RequestStates
    <3>3. request' = [request EXCEPT ![r] = new]
      BY <2>3, <3>1 DEF To
    <3>. QED  BY <2>1, <3>2, <3>3 DEF GoesOn
  <2>4. Owned(old.target) \in SUBSET Pages
    BY DEF Owned
  <2>. QED  BY <1>10, <2>2, <2>3, <2>4 DEF ListOwned
<1>11. CASE DeleteOwned(r)
  <2>1. PICK q \in old.batch :
          To(r, [old EXCEPT !.batch = old.batch \ {q}, !.pc = NextRound(old.batch \ {q})])
    BY <1>11 DEF DeleteOwned
  <2>2. PICK batch \in SUBSET Pages, pc \in {"list", "delete"} :
          batch = old.batch \ {q} /\ pc = NextRound(batch)
    <3>1. old.batch \ {q} \in SUBSET Pages
      BY DEF RequestStates
    <3>. QED  BY <3>1 DEF NextRound
  <2>3. PICK new \in RequestStates : new = [old EXCEPT !.batch = batch, !.pc = pc]
    BY HandlerGoesOn, Zenon
  <2>4. new.pc = pc /\ new.actor = old.actor /\ new.target = old.target
    BY <2>3 DEF RequestStates
  <2>5. request' = [request EXCEPT ![r] = new]
    BY <2>1, <2>2, <2>3, Zenon DEF To
  <2>6. old.pc = "delete"
    BY <1>11 DEF DeleteOwned
  <2>. QED  BY <2>2, <2>4, <2>5, <2>6 DEF GoesOn
<1>. QED  BY <1>3, <1>4, <1>6, <1>7, <1>8, <1>9, <1>10, <1>11 DEF Handler

LEMMA ActingGoesOn ==
    ASSUME CredentialsHeld, NEW r \in Requests, Handler(r)
    PROVE  request' \in [Requests -> RequestStates] /\ Acting'
<1>1. PICK new \in RequestStates :
        request' = [request EXCEPT ![r] = new] /\ GoesOn(request[r], new)
  BY HandlersGoOn
<1>2. request \in [Requests -> RequestStates]
  BY DEF CredentialsHeld
<1>3. /\ new.pc # "idle" => new.actor \in Users
      /\ new.pc \in {"list", "delete", "remove"} => new.target \in Users \ {new.actor}
  BY <1>1 DEF CredentialsHeld, Acting, GoesOn, Idle
<1>. QED  BY <1>1, <1>2, <1>3 DEF CredentialsHeld, Acting

\* What a token may become.
LEMMA TokenTyped ==
    ASSUME NEW row \in TokenRows
    PROVE  /\ \A u \in Users : [owner |-> u, state |-> "valid"] \in TokenRows
           /\ \A state \in {"valid", "expired", "revoked", "deleted", "removed"} :
                /\ [row EXCEPT !.state = state] \in TokenRows
                /\ [row EXCEPT !.state = state].owner = row.owner
                /\ [row EXCEPT !.state = state].state = state
  BY DEF TokenRows

\* A token that changes was issued, to somebody who is gone only if it is late, or
\* had an owner before.
TokensGoOn ==
    /\ token' \in [Tokens -> TokenRows]
    /\ \A t \in Tokens :
         \/ token'[t] = token[t]
         \/ token'[t].state = "removed"
         \/ /\ token'[t].owner \in Users
            /\ ~ Exists(token'[t].owner) => t \in late'
         \/ token'[t].owner = token[t].owner /\ token[t].state \notin {"none", "removed"}

LEMMA TokensStep ==
    ASSUME CredentialsHeld, Next
    PROVE  TokensGoOn
<1>. token \in [Tokens -> TokenRows]
  BY DEF CredentialsHeld
<1>1. ASSUME NEW t \in Tokens, NEW u \in Users, IssueToken(t, u)
      PROVE  TokensGoOn
  <2>1. PICK row \in TokenRows : row = [owner |-> u, state |-> "valid"] /\ row.owner = u
    <3>1. [owner |-> u, state |-> "valid"] \in TokenRows
      BY DEF TokenRows
    <3>. QED  BY <3>1
  <2>2. token' = [token EXCEPT ![t] = row] /\ (~ Exists(u) => t \in late')
    BY <1>1, <2>1 DEF IssueToken
  <2>. QED  BY <2>1, <2>2 DEF TokensGoOn
<1>2. ASSUME NEW t \in Tokens, NEW state \in {"expired", "revoked", "deleted"},
             token[t].state \notin {"none", "removed"},
             token' = [token EXCEPT ![t].state = state]
      PROVE  TokensGoOn
  <2>1. PICK row \in TokenRows : /\ row = [token[t] EXCEPT !.state = state]
                                  /\ row.owner = token[t].owner
    BY TokenTyped, Zenon
  <2>2. token' = [token EXCEPT ![t] = row]
    BY <1>2, <2>1
  <2>. QED  BY <1>2, <2>1, <2>2 DEF TokensGoOn
<1>3. ASSUME NEW t \in Tokens, NEW u, Revoke(t, u)
      PROVE  TokensGoOn
  BY <1>2, <1>3 DEF Revoke
<1>4. ASSUME NEW t \in Tokens, NEW u, DeleteRevoked(t, u)
      PROVE  TokensGoOn
  <2>1. token[t].state = "revoked" /\ token' = [token EXCEPT ![t].state = "deleted"]
    BY <1>4 DEF DeleteRevoked
  <2>. QED  BY <1>2, <2>1
<1>5. ASSUME NEW u, DeleteByUser(u)
      PROVE  TokensGoOn
  <2>1. \A t \in Tokens : /\ [token[t] EXCEPT !.state = "removed"] \in TokenRows
                          /\ [token[t] EXCEPT !.state = "removed"].state = "removed"
    BY TokenTyped, Zenon
  <2>2. token' = [t \in Tokens |-> IF token[t].owner = u
                                    THEN [token[t] EXCEPT !.state = "removed"] ELSE token[t]]
    BY <1>5 DEF DeleteByUser
  <2>. QED  BY <2>1, <2>2 DEF TokensGoOn
<1>6. CASE UNCHANGED token
  BY <1>6 DEF TokensGoOn
<1>7. ASSUME NEW r \in Requests, Handler(r)
      PROVE  TokensGoOn
  <2>1. CASE CreateToken(r)
    <3>1. request[r].actor \in Users
      BY <2>1 DEF CreateToken, CredentialsHeld, Acting
    <3>. QED  BY <1>1, <2>1, <3>1 DEF CreateToken
  <2>2. CASE RevokeToken(r)
    BY <1>3, <2>2 DEF RevokeToken
  <2>3. CASE DeleteRevokedToken(r)
    BY <1>4, <2>3 DEF DeleteRevokedToken
  <2>4. CASE RemoveAccount(r)
    BY <1>5, <2>4 DEF RemoveAccount
  <2>5. CASE UNCHANGED token
    BY <1>6, <2>5
  <2>. QED  BY <1>7, <2>1, <2>2, <2>3, <2>4, <2>5
            DEF Handler, PresentSession, PresentToken, CheckAccount, Publish, DeletePage,
                RequireAdmin, AdminPatchUser, DeleteUser, ListOwned, DeleteOwned,
                DeletionFails
<1>8. CASE ExchangeDeviceCode
  BY <1>1, <1>8 DEF ExchangeDeviceCode
<1>9. CASE TokenExpires
  BY <1>2, <1>9 DEF TokenExpires
<1>10. CASE SetAdminByHand
  BY <1>6, <1>10 DEF SetAdminByHand
<1>. QED  BY <1>7, <1>8, <1>9, <1>10 DEF Next

\* A page is an account's own or nobody's; one that comes to an account whose
\* deletion looked for the last time is late.
PagesGoOn ==
    /\ page' \in [Pages -> PageRows]
    /\ late \subseteq late' /\ late' \in SUBSET (Pages \cup Tokens)
    /\ \A u \in Users : LastLookOver(u) => Owned(u)' \subseteq Owned(u) \cup late'

LEMMA PagesStep ==
    ASSUME CredentialsHeld, Next
    PROVE  PagesGoOn
<1>. page \in [Pages -> PageRows] /\ late \in SUBSET (Pages \cup Tokens)
  BY DEF CredentialsHeld
<1>1. ASSUME NEW q \in Pages, page' = [page EXCEPT ![q].state = "deleted"], UNCHANGED late
      PROVE  PagesGoOn
  <2>1. /\ [page[q] EXCEPT !.state = "deleted"] \in PageRows
        /\ [page[q] EXCEPT !.state = "deleted"].state = "deleted"
    BY DEF PageRows
  <2>2. PICK row \in PageRows : row = [page[q] EXCEPT !.state = "deleted"] /\ row.state = "deleted"
    BY <2>1
  <2>3. page' = [page EXCEPT ![q] = row]
    BY <1>1, <2>2
  <2>. QED  BY <1>1, <2>2, <2>3 DEF PagesGoOn, Owned
<1>2. CASE UNCHANGED page /\ late \subseteq late' /\ late' \in SUBSET (Pages \cup Tokens)
  BY <1>2 DEF PagesGoOn, Owned
<1>3. ASSUME NEW t \in Tokens, NEW u, IssueToken(t, u)
      PROVE  late \subseteq late' /\ late' \in SUBSET (Pages \cup Tokens)
  BY <1>3 DEF IssueToken
<1>4. ASSUME NEW r \in Requests, Handler(r)
      PROVE  PagesGoOn
  <2>1. CASE Publish(r)
    <3>1. PICK u \in Users : u = request[r].actor
      BY <2>1 DEF Publish, CredentialsHeld, Acting
    <3>2. PICK q \in Pages : /\ page' = [page EXCEPT ![q] = [owner |-> u, state |-> "live"]]
                            /\ late' = IF LastLookOver(u) THEN late \cup {q} ELSE late
      BY <2>1, <3>1, Zenon DEF Publish
    <3>3. [owner |-> u, state |-> "live"] \in PageRows
      BY DEF PageRows
    <3>4. page' \in [Pages -> PageRows]
      BY <3>2, <3>3
    <3>5. late \subseteq late' /\ late' \in SUBSET (Pages \cup Tokens)
      BY <3>2
    <3>6. ASSUME NEW v \in Users, LastLookOver(v), NEW x \in Pages,
                 page'[x].state = "live", page'[x].owner = v
          PROVE  (page[x].state = "live" /\ page[x].owner = v) \/ x \in late'
      <4>1. CASE x = q
        <5>1. v = u
          BY <3>2, <3>6, <4>1
        <5>2. LastLookOver(u)
          BY <3>6, <5>1
        <5>. QED  BY <3>2, <4>1, <5>2
      <4>2. CASE x # q
        BY <3>2, <3>6, <4>2
      <4>. QED  BY <4>1, <4>2
    <3>. QED  BY <3>4, <3>5, <3>6 DEF PagesGoOn, Owned
  <2>2. CASE DeletePage(r)
    <3>1. PICK q \in Owned(request[r].actor) : page' = [page EXCEPT ![q].state = "deleted"]
      BY <2>2 DEF DeletePage
    <3>2. q \in Pages
      BY DEF Owned
    <3>. QED  BY <1>1, <2>2, <3>1, <3>2 DEF DeletePage
  <2>3. CASE DeleteOwned(r)
    <3>1. PICK q \in request[r].batch : page' = [page EXCEPT ![q].state = "deleted"]
      BY <2>3 DEF DeleteOwned
    <3>2. q \in Pages
      BY DEF CredentialsHeld, RequestStates
    <3>. QED  BY <1>1, <2>3, <3>1, <3>2 DEF DeleteOwned
  <2>4. CASE CreateToken(r)
    BY <1>2, <1>3, <2>4 DEF CreateToken
  <2>5. CASE UNCHANGED <<page, late>>
    BY <1>2, <2>5
  <2>. QED  BY <1>4, <2>1, <2>2, <2>3, <2>4, <2>5
            DEF Handler, PresentSession, PresentToken, CheckAccount, RevokeToken,
                DeleteRevokedToken, RequireAdmin, AdminPatchUser, DeleteUser, ListOwned,
                RemoveAccount, DeletionFails
<1>5. CASE ExchangeDeviceCode
  BY <1>2, <1>3, <1>5 DEF ExchangeDeviceCode
<1>6. CASE TokenExpires \/ SetAdminByHand
  BY <1>2, <1>6 DEF TokenExpires, SetAdminByHand
<1>. QED  BY <1>4, <1>5, <1>6 DEF Next

\* An account that is gone stays so; one that goes takes its tokens along, after
\* a last look for its pages.
AccountsGoOn ==
    /\ account' \in [Users -> {"active", "disabled", "gone"}] /\ admin' \in SUBSET Users
    /\ \A u \in Users :
         ~ Exists(u)' =>
           \/ ~ Exists(u)
           \/ /\ \E r \in Requests : request[r].pc = "remove" /\ request[r].target = u
              /\ \A t \in Tokens : token'[t].owner = u => token'[t].state = "removed"

LEMMA AccountsStep ==
    ASSUME CredentialsHeld, Next
    PROVE  AccountsGoOn
<1>. account \in [Users -> {"active", "disabled", "gone"}] /\ admin \in SUBSET Users
  BY DEF CredentialsHeld
<1>1. CASE UNCHANGED <<account, admin>>
  BY <1>1 DEF AccountsGoOn, Exists
<1>2. ASSUME NEW r \in Requests, AdminPatchUser(r)
      PROVE  AccountsGoOn
  <2>1. CASE UNCHANGED <<account, admin>>
    BY <1>1, <2>1
  <2>2. ASSUME NEW u \in Users, NEW isAdmin \in BOOLEAN, NEW disabled \in BOOLEAN, Exists(u),
               account' = [account EXCEPT ![u] = IF disabled THEN "disabled" ELSE "active"],
               admin' = IF isAdmin THEN admin \cup {u} ELSE admin \ {u}
        PROVE  AccountsGoOn
    BY <2>2 DEF AccountsGoOn, Exists
  <2>. QED  BY <1>2, <2>1, <2>2 DEF AdminPatchUser
<1>3. ASSUME NEW r \in Requests, RemoveAccount(r)
      PROVE  AccountsGoOn
  <2>1. PICK u : /\ u = request[r].target /\ request[r].pc = "remove"
                 /\ account' = [account EXCEPT ![u] = "gone"] /\ admin' = admin \ {u}
                 /\ DeleteByUser(u)
    BY <1>3 DEF RemoveAccount
  <2>2. ASSUME NEW t \in Tokens, token'[t].owner = u
        PROVE  token'[t].state = "removed"
    <3>1. token'[t] = IF token[t].owner = u THEN [token[t] EXCEPT !.state = "removed"] ELSE token[t]
      BY <2>1 DEF DeleteByUser
    <3>2. token[t] \in TokenRows
      BY DEF CredentialsHeld
    <3>3. token[t].owner = u
      BY <2>2, <3>1
    <3>. QED  BY <3>1, <3>2, <3>3, TokenTyped
  <2>. QED  BY <2>1, <2>2 DEF AccountsGoOn, Exists
<1>4. CASE SetAdminByHand
  BY <1>4 DEF SetAdminByHand, AccountsGoOn, Exists
<1>5. CASE ExchangeDeviceCode \/ TokenExpires
  BY <1>1, <1>5 DEF ExchangeDeviceCode, TokenExpires
<1>6. ASSUME NEW r \in Requests, Handler(r), ~ AdminPatchUser(r), ~ RemoveAccount(r)
      PROVE  UNCHANGED <<account, admin>>
  BY <1>6 DEF Handler, PresentSession, PresentToken, CheckAccount, Publish, DeletePage,
              CreateToken, RevokeToken, DeleteRevokedToken, RequireAdmin, DeleteUser,
              ListOwned, DeleteOwned, DeletionFails
<1>. QED  BY <1>1, <1>2, <1>3, <1>4, <1>5, <1>6 DEF Next

\* The handlers of the others stay as they are.
LEMMA HandlersStep ==
    ASSUME CredentialsHeld, Next
    PROVE  /\ request' \in [Requests -> RequestStates] /\ Acting'
           /\ \A r \in Requests : request'[r] = request[r] \/ GoesOn(request[r], request'[r])
<1>1. ASSUME NEW r \in Requests, Handler(r)
      PROVE  /\ request' \in [Requests -> RequestStates] /\ Acting'
             /\ \A o \in Requests : request'[o] = request[o] \/ GoesOn(request[o], request'[o])
  <2>1. PICK new \in RequestStates :
          request' = [request EXCEPT ![r] = new] /\ GoesOn(request[r], new)
    BY <1>1, HandlersGoOn
  <2>2. request \in [Requests -> RequestStates]
    BY DEF CredentialsHeld
  <2>3. \A o \in Requests : o # r => request'[o] = request[o]
    BY <2>1, <2>2
  <2>4. request'[r] = new
    BY <2>1, <2>2
  <2>5. GoesOn(request[r], request'[r])
    BY <2>1, <2>4, Zenon
  <2>. QED  BY <1>1, <2>3, <2>5, ActingGoesOn, Zenon
<1>2. CASE UNCHANGED request
  BY <1>2 DEF CredentialsHeld, Acting
<1>. QED  BY <1>1, <1>2 DEF Next, ExchangeDeviceCode, TokenExpires, SetAdminByHand

LEMMA CredentialsInit ==
    Init => CredentialsHeld /\ LastLooks
<1>. SUFFICES ASSUME Init PROVE CredentialsHeld /\ LastLooks
  OBVIOUS
<1>1. NoRow \in PageRows /\ NoRow \in TokenRows /\ NoRow.state = "none"
  BY DEF NoRow, PageRows, TokenRows
<1>2. Idle \in RequestStates /\ Idle.pc = "idle"
  BY DEF Idle, RequestStates
<1>3. CredentialsHeld
  BY <1>1, <1>2 DEF Init, CredentialsHeld, Acting
<1>4. LastLooks
  BY <1>1, <1>2 DEF Init, LastLooks, OrphansAreLate, Exists
<1>. QED  BY <1>3, <1>4

LEMMA CredentialsKept ==
    ASSUME CredentialsHeld, [Next]_vars
    PROVE  CredentialsHeld'
<1>1. CASE Next
  <2>1. TokensGoOn /\ PagesGoOn /\ AccountsGoOn
    BY <1>1, TokensStep, PagesStep, AccountsStep
  <2>2. \A t \in Tokens : token'[t].state \notin {"none", "removed"} => token'[t].owner \in Users
    BY <2>1 DEF CredentialsHeld, TokensGoOn
  <2>3. request' \in [Requests -> RequestStates] /\ Acting'
    BY <1>1, HandlersStep
  <2>. QED  BY <2>1, <2>2, <2>3 DEF CredentialsHeld, TokensGoOn, PagesGoOn, AccountsGoOn
<1>2. CASE UNCHANGED vars
  BY <1>2 DEF vars, CredentialsHeld, Acting
<1>. QED  BY <1>1, <1>2

LEMMA CredentialsAlwaysHeld ==
    Spec => []CredentialsHeld
<1>1. Init => CredentialsHeld
  BY CredentialsInit
<1>2. CredentialsHeld /\ [Next]_vars => CredentialsHeld'
  BY CredentialsKept
<1>. QED  BY <1>1, <1>2, PTL DEF Spec

LEMMA LastLooksKept ==
    ASSUME CredentialsHeld, LastLooks, [Next]_vars
    PROVE  LastLooks'
<1>1. CASE Next
  <2>. TokensGoOn /\ PagesGoOn /\ AccountsGoOn
    BY <1>1, TokensStep, PagesStep, AccountsStep
  <2>1. ASSUME NEW u \in Users, LastLookOver(u)
        PROVE  Owned(u)' \subseteq late'
    <3>1. Owned(u) \subseteq late
      BY <2>1 DEF LastLookOver, LastLooks, OrphansAreLate
    <3>2. late \subseteq late' /\ Owned(u)' \subseteq Owned(u) \cup late'
      BY <2>1 DEF PagesGoOn
    <3>. QED  BY <3>1, <3>2
  <2>2. ASSUME NEW u \in Users, ~ Exists(u)'
        PROVE  Owned(u)' \subseteq late'
    <3>1. LastLookOver(u)
      BY <2>2 DEF AccountsGoOn, LastLookOver
    <3>. QED  BY <2>1, <3>1
  <2>3. ASSUME NEW t \in Tokens, token'[t].state \notin {"none", "removed"},
               NEW u, u = token'[t].owner, ~ Exists(u)'
        PROVE  t \in late'
    <3>1. u \in Users
      BY <2>3 DEF TokensGoOn, CredentialsHeld
    <3>2. ~ Exists(u)
      BY <2>3, <3>1 DEF AccountsGoOn
    <3>3. late \subseteq late'
      BY DEF PagesGoOn
    <3>4. CASE token[t].owner = u /\ token[t].state \notin {"none", "removed"}
      BY <3>2, <3>3, <3>4 DEF LastLooks, OrphansAreLate
    <3>5. CASE t \in late'
      BY <3>5
    <3>. QED  BY <2>3, <3>2, <3>4, <3>5 DEF TokensGoOn
  <2>4. ASSUME NEW r \in Requests, NEW u \in Users,
               request'[r].pc = "remove", request'[r].target = u
        PROVE  Owned(u)' \subseteq late'
    <3>1. CASE request'[r] = request[r]
      <4>1. LastLookOver(u)
        BY <2>4, <3>1 DEF LastLookOver
      <4>. QED  BY <2>1, <4>1
    <3>2. CASE GoesOn(request[r], request'[r])
      <4>1. Owned(u) = {} /\ UNCHANGED page
        BY <2>4, <3>2 DEF GoesOn, Idle
      <4>. QED  BY <4>1 DEF Owned
    <3>. QED  BY <1>1, <3>1, <3>2, HandlersStep
  <2>5. OrphansAreLate'
    BY <2>2, <2>3 DEF OrphansAreLate
  <2>. QED  BY <2>4, <2>5 DEF LastLooks
<1>2. CASE UNCHANGED vars
  BY <1>2 DEF vars, LastLooks, OrphansAreLate, Exists, Owned
<1>. QED  BY <1>1, <1>2

\* Deleting an account leaves nothing behind but what came after its last look:
\* between the listing that found no page and the removal a page may be published,
\* and tokens are removed with the row.
THEOREM NothingIsOrphaned == Spec => []OrphansAreLate
<1>1. Init => LastLooks
  BY CredentialsInit
<1>2. CredentialsHeld /\ LastLooks /\ [Next]_vars => LastLooks'
  BY LastLooksKept
<1>3. LastLooks => OrphansAreLate
  BY DEF LastLooks
<1>. QED  BY <1>1, <1>2, <1>3, CredentialsAlwaysHeld, PTL DEF Spec

\* A request that leaves its own account an active administrator leaves one.
LEMMA AdministratorsStep ==
    ASSUME CredentialsHeld, NEW r \in Requests, AdminPatchUser(r) \/ RemoveAccount(r)
    PROVE  /\ request'[r] # request[r]
           /\ request[r].actor \in ActiveAdmins => request[r].actor \in ActiveAdmins'
<1>. /\ account \in [Users -> {"active", "disabled", "gone"}] /\ admin \in SUBSET Users
     /\ request \in [Requests -> RequestStates]
  BY DEF CredentialsHeld
<1>1. request'[r] # request[r]
  <2>1. request[r].pc # "idle" /\ request' = [request EXCEPT ![r] = Idle]
    BY DEF AdminPatchUser, RemoveAccount, Done, To
  <2>2. Idle.pc = "idle"
    BY DEF Idle
  <2>. QED  BY <2>1, <2>2
<1>2. PICK actor : actor = request[r].actor
  OBVIOUS
<1>3. ASSUME actor \in ActiveAdmins
      PROVE  actor \in ActiveAdmins'
  <2>. actor \in admin /\ account[actor] = "active"
    BY <1>3 DEF ActiveAdmins, Active
  <2>1. CASE UNCHANGED <<account, admin>>
    BY <2>1 DEF ActiveAdmins, Active
  <2>2. ASSUME NEW u \in Users, NEW isAdmin \in BOOLEAN, NEW disabled \in BOOLEAN,
               u = actor => isAdmin /\ ~ disabled,
               account' = [account EXCEPT ![u] = IF disabled THEN "disabled" ELSE "active"],
               admin' = IF isAdmin THEN admin \cup {u} ELSE admin \ {u}
        PROVE  actor \in ActiveAdmins'
    <3>1. CASE u = actor
      BY <2>2, <3>1 DEF ActiveAdmins, Active
    <3>2. CASE u # actor
      BY <2>2, <3>2 DEF ActiveAdmins, Active
    <3>. QED  BY <3>1, <3>2
  <2>3. CASE AdminPatchUser(r)
    BY <1>2, <2>1, <2>2, <2>3 DEF AdminPatchUser, MayFlag
  <2>4. CASE RemoveAccount(r)
    <3>1. PICK u \in Users \ {actor} :
            account' = [account EXCEPT ![u] = "gone"] /\ admin' = admin \ {u}
      BY <1>2, <2>4 DEF RemoveAccount, CredentialsHeld, Acting
    <3>. QED  BY <3>1 DEF ActiveAdmins, Active
  <2>. QED  BY <2>3, <2>4
<1>. QED  BY <1>1, <1>2, <1>3

\* While an administrator is active no other administrator's request takes the
\* last one away, unless the flag of the one who asked was lost since it was read.
THEOREM OneAdministratorIsLeft == Spec => LastAdminFallsToARace
<1>1. ASSUME CredentialsHeld, Next,
             ActiveAdmins # {}, ActiveAdmins' = {}, request' # request
      PROVE  \E r \in Requests : /\ request'[r] # request[r]
                                 /\ request[r].actor \notin ActiveAdmins
  <2>1. PICK r \in Requests : Handler(r)
    BY <1>1 DEF Next, ExchangeDeviceCode, TokenExpires, SetAdminByHand
  <2>2. AdminPatchUser(r) \/ RemoveAccount(r)
    <3>1. ASSUME ~ AdminPatchUser(r), ~ RemoveAccount(r)
          PROVE  UNCHANGED <<account, admin>>
      BY <2>1, <3>1
         DEF Handler, PresentSession, PresentToken, CheckAccount, Publish, DeletePage,
             CreateToken, RevokeToken, DeleteRevokedToken, RequireAdmin, DeleteUser,
             ListOwned, DeleteOwned, DeletionFails
    <3>2. UNCHANGED <<account, admin>> => ActiveAdmins' = ActiveAdmins
      BY DEF ActiveAdmins, Active
    <3>. QED  BY <1>1, <3>1, <3>2
  <2>3. /\ request'[r] # request[r]
        /\ request[r].actor \in ActiveAdmins => request[r].actor \in ActiveAdmins'
    BY <1>1, <2>2, AdministratorsStep
  <2>. QED  BY <1>1, <2>3
<1>2. CredentialsHeld /\ [Next]_vars =>
        [/\ ActiveAdmins # {} /\ ActiveAdmins' = {}
         /\ request' # request
         => \E r \in Requests : /\ request'[r] # request[r]
                                /\ request[r].actor \notin ActiveAdmins]_vars
  BY <1>1
<1>. QED  BY <1>2, CredentialsAlwaysHeld, PTL DEF Spec, LastAdminFallsToARace

\* An account that is not active and has nothing under way gets nothing done,
\* whatever sessions and tokens still name it.
THEOREM NothingNewUnderWay == Spec => OutOfActionAtOnce
<1>1. ASSUME CredentialsHeld, Next, NEW u \in Users, ~ Active(u),
             \A r \in Requests : request[r].actor = u => request[r].pc \in {"idle", "status"},
             NEW r \in Requests, request'[r].actor = u
      PROVE  request'[r].pc \in {"idle", "status"}
  <2>1. CASE request'[r] = request[r]
    BY <1>1, <2>1
  <2>2. CASE GoesOn(request[r], request'[r])
    <3>1. Idle.pc = "idle"
      BY DEF Idle
    <3>. QED  BY <1>1, <2>2, <3>1 DEF GoesOn
  <2>. QED  BY <1>1, <2>1, <2>2, HandlersStep
<1>2. CredentialsHeld /\ [Next]_vars =>
        [\A u \in Users :
           /\ ~ Active(u)
           /\ \A r \in Requests : request[r].actor = u => request[r].pc \in {"idle", "status"}
           => \A r \in Requests : request'[r].actor = u => request'[r].pc \in {"idle", "status"}]_vars
  BY <1>1
<1>. QED  BY <1>2, CredentialsAlwaysHeld, PTL DEF Spec, OutOfActionAtOnce

\* A listing is what a deletion goes through, and ends with it.
Listing(h) == h.pc = "delete" <=> h.batch # {}

Listings == \A r \in Requests : Listing(request[r])

LEMMA ListingsStep ==
    ASSUME CredentialsHeld, Listings, NEW r \in Requests, Handler(r)
    PROVE  \E new : request' = [request EXCEPT ![r] = new] /\ Listing(new)
<1>. PICK old \in RequestStates : old = request[r]
  BY DEF CredentialsHeld
<1>. Listing(old)
  BY DEF Listings
<1>1. CASE Done(r)
  <2>1. Listing(Idle)
    BY DEF Listing, Idle
  <2>. QED  BY <1>1, <2>1, Zenon DEF Done, To
<1>2. ASSUME NEW u, To(r, [Idle EXCEPT !.pc = "status", !.actor = u])
      PROVE  \E new : request' = [request EXCEPT ![r] = new] /\ Listing(new)
  <2>1. Listing([Idle EXCEPT !.pc = "status", !.actor = u])
    BY DEF Listing, Idle
  <2>. QED  BY <1>2, <2>1, Zenon DEF To
<1>3. ASSUME NEW pc \in {"act", "admin", "remove"}, old.pc # "delete", Become(r, pc)
      PROVE  \E new : request' = [request EXCEPT ![r] = new] /\ Listing(new)
  <2>1. Listing([old EXCEPT !.pc = pc])
    BY <1>3 DEF Listing, RequestStates
  <2>. QED  BY <1>3, <2>1, Zenon DEF Become, To
<1>4. CASE PresentSession(r) \/ PresentToken(r)
  BY <1>2, <1>4, Zenon DEF PresentSession, PresentToken
<1>5. CASE CheckAccount(r) \/ RequireAdmin(r)
  BY <1>1, <1>3, <1>5 DEF CheckAccount, RequireAdmin
<1>6. CASE \/ Publish(r) \/ DeletePage(r) \/ CreateToken(r) \/ RevokeToken(r)
           \/ DeleteRevokedToken(r) \/ AdminPatchUser(r) \/ RemoveAccount(r)
           \/ DeletionFails(r)
  BY <1>1, <1>6 DEF Publish, DeletePage, CreateToken, RevokeToken, DeleteRevokedToken,
                    AdminPatchUser, RemoveAccount, DeletionFails
<1>7. CASE DeleteUser(r)
  <2>1. ASSUME NEW u, To(r, [old EXCEPT !.pc = "list", !.target = u])
        PROVE  \E new : request' = [request EXCEPT ![r] = new] /\ Listing(new)
    <3>1. old.pc = "admin"
      BY <1>7 DEF DeleteUser
    <3>2. Listing([old EXCEPT !.pc = "list", !.target = u])
      BY <3>1 DEF Listing, RequestStates
    <3>. QED  BY <2>1, <3>2, Zenon DEF To
  <2>. QED  BY <1>1, <1>7, <2>1 DEF DeleteUser
<1>8. CASE ListOwned(r)
  <2>1. old.pc = "list"
    BY <1>8 DEF ListOwned
  <2>2. ASSUME NEW owned, owned # {}, NEW batch \in SUBSET owned,
               Cardinality(batch) < BatchSize => batch = owned,
               To(r, [old EXCEPT !.pc = "delete", !.batch = batch])
        PROVE  \E new : request' = [request EXCEPT ![r] = new] /\ Listing(new)
    <3>1. batch # {}
      BY <2>2, BatchAssumption, FS_EmptySet
    <3>2. Listing([old EXCEPT !.pc = "delete", !.batch = batch])
      BY <3>1 DEF Listing, RequestStates
    <3>. QED  BY <2>2, <3>2, Zenon DEF To
  <2>3. CASE Become(r, "remove")
    BY <1>3, <2>1, <2>3
  <2>4. CASE ~ Become(r, "remove")
    <3>. DEFINE owned == Owned(request[r].target)
    <3>1. owned # {}
      BY <1>8, <2>4, Zenon DEF ListOwned
    <3>2. PICK batch \in SUBSET owned :
            /\ Cardinality(batch) < BatchSize => batch = owned
            /\ To(r, [request[r] EXCEPT !.pc = "delete", !.batch = batch])
      BY <1>8, <2>4, <3>1, Zenon DEF ListOwned
    <3>. HIDE DEF owned
    <3>. QED  BY <2>2, <3>1, <3>2, Zenon
  <2>. QED  BY <2>3, <2>4
<1>9. CASE DeleteOwned(r)
  <2>1. PICK rest, pc : /\ pc = NextRound(rest)
                       /\ To(r, [old EXCEPT !.batch = rest, !.pc = pc])
    BY <1>9 DEF DeleteOwned
  <2>2. Listing([old EXCEPT !.batch = rest, !.pc = pc])
    BY <2>1 DEF Listing, RequestStates, NextRound
  <2>. QED  BY <2>1, <2>2, Zenon DEF To
<1>. QED  BY <1>4, <1>5, <1>6, <1>7, <1>8, <1>9 DEF Handler

\* Every variable keeps to its domain, and no request holds a listing it does not
\* go through: an empty one would be taken for a round that is not over.
THEOREM CredentialsTyped == Spec => []TypeOK
<1>1. Init => Listings
  BY DEF Init, Idle, Listings, Listing
<1>2. ASSUME CredentialsHeld, Listings, [Next]_vars
      PROVE  Listings'
  <2>1. ASSUME NEW r \in Requests, Handler(r)
        PROVE  Listings'
    <3>1. PICK new : request' = [request EXCEPT ![r] = new] /\ Listing(new)
      BY <1>2, <2>1, ListingsStep
    <3>2. request \in [Requests -> RequestStates]
      BY <1>2 DEF CredentialsHeld
    <3>. QED  BY <1>2, <3>1, <3>2 DEF Listings, Listing
  <2>2. CASE UNCHANGED request
    BY <1>2, <2>2 DEF Listings, Listing
  <2>. QED  BY <1>2, <2>1, <2>2
            DEF Next, ExchangeDeviceCode, TokenExpires, SetAdminByHand, vars
<1>3. CredentialsHeld /\ Listings => TypeOK
  BY DEF CredentialsHeld, Listings, Listing, TypeOK
<1>. QED  BY <1>1, <1>2, <1>3, CredentialsAlwaysHeld, PTL DEF Spec

=============================================================================
