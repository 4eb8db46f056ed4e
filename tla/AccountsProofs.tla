---------------------------- MODULE AccountsProofs ----------------------------
(***************************************************************************)
(* Proofs about Accounts: for any number of accounts, addresses, providers *)
(* and handlers, on SQLite and on Postgres.                                *)
(***************************************************************************)
EXTENDS Accounts, TLAPS

-----------------------------------------------------------------------------
(* The inductive invariants *)

\* Who is about to create an account brings a credential for it.
Equipped ==
    \A r \in Requests :
        request[r].pc \in {"match", "provision", "create", "takeover"} =>
            request[r].password \/ request[r].sso # NoIdentity

\* A password that was read is still there, unless its account is not.
PasswordsLast ==
    \A r \in Requests :
        request[r].pc = "unlink" =>
            /\ request[r].target \in Users
            /\ request[r].password /\ Exists(request[r].target)
                  => user[request[r].target].password

\* No account holds two subjects of one provider.
OneSubjectEach ==
    \A u \in Users : \A i, j \in Held(u) : i[1] = j[1] => i = j

\* The marker is written by the first account, and outlives it.
MarkerInv ==
    /\ first \subseteq Accounts
    /\ ~ marker => first = {}
    /\ marker /\ Accounts = {} => emptied
    /\ \A r \in Requests : request[r].pc = "takeover" => marker /\ database = "postgres" /\ emptied
    /\ OneFirstAdmin

-----------------------------------------------------------------------------
(* Types *)

\* Only NoIdentity is no identity.
LEMMA Nulls == NoIdentity \notin Identities /\ NoUser \notin Users /\ NoEmail \notin Emails
BY NullsAssumption DEF Identities

\* What a handler may become.
LEMMA RequestTyped ==
    ASSUME TypeOK, NEW r \in Requests, NEW q \in RequestStates, To(r, q)
    PROVE  request' \in [Requests -> RequestStates]
BY DEF TypeOK, To

LEMMA IdleTyped ==
    /\ Idle \in RequestStates
    /\ \A n \in Names, e \in Emails \cup {NoEmail}, b \in BOOLEAN :
          [Idle EXCEPT !.pc = "create", !.name = n, !.email = e, !.empty = b, !.password = TRUE]
             \in RequestStates
    /\ \A pc \in {"match", "provision"}, i \in Identities, e \in Emails \cup {NoEmail} :
          [Idle EXCEPT !.pc = pc, !.sso = i, !.email = e] \in RequestStates
    /\ \A u \in Users, i \in Identities :
          [Idle EXCEPT !.pc = "link", !.target = u, !.sso = i] \in RequestStates
    /\ \A u \in Users, i \in Identities, b \in BOOLEAN :
          [Idle EXCEPT !.pc = "unlink", !.target = u, !.sso = i, !.password = b] \in RequestStates
<1>1. 0 \in Names
  BY TriesAssumption DEF Names
<1> QED BY <1>1 DEF Idle, RequestStates

LEMMA MovesTyped ==
    ASSUME NEW q \in RequestStates
    PROVE  /\ \A pc \in {"takeover", "provision", "bind"} : [q EXCEPT !.pc = pc] \in RequestStates
           /\ [q EXCEPT !.empty = FALSE] \in RequestStates
           /\ q.name # SuffixTries => [q EXCEPT !.name = @ + 1, !.email = NoEmail] \in RequestStates
           /\ \A u \in Users : [q EXCEPT !.pc = "bind", !.target = u] \in RequestStates
           /\ \A b \in BOOLEAN, e \in Emails \cup {NoEmail} :
                [q EXCEPT !.pc = "create", !.empty = b, !.email = e] \in RequestStates
<1>1. q.name # SuffixTries => q.name + 1 \in Names
  BY TriesAssumption DEF Names, RequestStates
<1>2. q.name # SuffixTries => [q EXCEPT !.name = @ + 1, !.email = NoEmail] \in RequestStates
  BY <1>1 DEF RequestStates
<1> QED BY <1>2 DEF RequestStates


LEMMA IdleIs == Idle.pc = "idle" /\ Idle.target = NoUser
BY DEF Idle

\* What creating an account leaves.
LEMMA InsertTyped ==
    ASSUME TypeOK, NEW r \in Requests, NEW u \in Users, Insert(r, u)
    PROVE  /\ user' \in [Users -> Rows]
           /\ identity' \in [Identities -> Users \cup {NoUser}]
           /\ request' \in [Requests -> RequestStates]
<1> DEFINE q == request[r]
           row == [state |-> "active", password |-> q.password, name |-> q.name,
                   email |-> q.email]
<1>1. q \in RequestStates
  BY DEF TypeOK
<1>2. row \in Rows
  BY <1>1 DEF RequestStates, Rows
<1>3. user' = [user EXCEPT ![u] = row]
  BY DEF Insert
<1>4. user' \in [Users -> Rows]
  BY <1>2, <1>3 DEF TypeOK
<1>5. identity' \in [Identities -> Users \cup {NoUser}]
  BY <1>1 DEF Insert, TypeOK, RequestStates
<1>6. request' \in [Requests -> RequestStates]
  BY RequestTyped, IdleTyped DEF Insert, Done
<1> QED BY <1>4, <1>5, <1>6

\* Every step keeps the types.
LEMMA TypeStep ==
    ASSUME TypeOK, [Next]_vars
    PROVE  TypeOK'
<1> USE DEF TypeOK
<1>1. CASE UNCHANGED vars
  BY <1>1 DEF vars
<1>2. ASSUME NEW r \in Requests, Creating(r) PROVE TypeOK'
  <2>q. request[r] \in RequestStates
    OBVIOUS
  <2>1. CASE Register(r)
    <3>1. (Accounts = {}) \in BOOLEAN
      OBVIOUS
    <3>2. PICK n \in Names, e \in Emails \cup {NoEmail} :
            To(r, [Idle EXCEPT !.pc = "create", !.name = n, !.email = e,
                               !.empty = (Accounts = {}), !.password = TRUE])
      BY <2>1 DEF Register
    <3>3. request' \in [Requests -> RequestStates]
      BY <3>1, <3>2, IdleTyped, RequestTyped
    <3> QED BY <2>1, <3>3 DEF Register
  <2>2. CASE CreateOrdinary(r)
    BY <2>2, InsertTyped DEF CreateOrdinary
  <2>3. CASE ClaimBootstrap(r)
    <3>1. PICK u \in Users : Insert(r, u) /\ first' = first \cup {u}
      BY <2>3 DEF ClaimBootstrap
    <3> QED BY <2>3, <3>1, InsertTyped DEF ClaimBootstrap
  <2>4. CASE CountAccounts(r)
    BY <2>4, <2>q, MovesTyped, RequestTyped DEF CountAccounts, Become
  <2>5. CASE TakeOverMarker(r)
    <3>1. PICK u \in Users : Insert(r, u) /\ first' = first \cup {u}
      BY <2>5 DEF TakeOverMarker
    <3> QED BY <2>5, <3>1, InsertTyped DEF TakeOverMarker
  <2>6. CASE LoseBootstrap(r)
    <3>1. request' \in [Requests -> RequestStates]
      BY <2>6, <2>q, MovesTyped, IdleTyped, RequestTyped DEF LoseBootstrap, Done
    <3> QED BY <2>6, <3>1 DEF LoseBootstrap
  <2>7. CASE NameTaken(r)
    <3>1. request' \in [Requests -> RequestStates]
      BY <2>7, <2>q, MovesTyped, IdleTyped, RequestTyped DEF NameTaken, Done, LastTry
    <3> QED BY <2>7, <3>1 DEF NameTaken
  <2>8. CASE IdentityTaken(r) \/ CreateFails(r)
    <3>1. request' \in [Requests -> RequestStates]
      BY <2>8, IdleTyped, RequestTyped DEF IdentityTaken, CreateFails, Done
    <3> QED BY <2>8, <3>1 DEF IdentityTaken, CreateFails
  <2> QED BY <1>2, <2>1, <2>2, <2>3, <2>4, <2>5, <2>6, <2>7, <2>8 DEF Creating
<1>3. ASSUME NEW r \in Requests, SigningIn(r) PROVE TypeOK'
  <2>q. request[r] \in RequestStates
    OBVIOUS
  <2>1. CASE ResolveOIDC(r)
    <3>1. PICK i \in Identities, e \in Emails \cup {NoEmail} :
            To(r, [Idle EXCEPT !.pc = IF e = NoEmail THEN "provision" ELSE "match",
                               !.sso = i, !.email = e])
      BY <2>1 DEF ResolveOIDC
    <3>2. request' \in [Requests -> RequestStates]
      BY <3>1, IdleTyped, RequestTyped
    <3> QED BY <2>1, <3>2 DEF ResolveOIDC
  <2>2. CASE MatchEmail(r)
    <3>1. request' \in [Requests -> RequestStates]
      BY <2>2, <2>q, MovesTyped, IdleTyped, RequestTyped
         DEF MatchEmail, Become, Done, ByEmail, Accounts
    <3> QED BY <2>2, <3>1 DEF MatchEmail
  <2>3. CASE Provision(r)
    <3>1. /\ (Accounts = {}) \in BOOLEAN
          /\ ProvisionableEmail(request[r].email) \in Emails \cup {NoEmail}
      BY <2>q DEF ProvisionableEmail, RequestStates
    <3>2. [request[r] EXCEPT !.pc = "create", !.empty = (Accounts = {}),
                             !.email = ProvisionableEmail(@)] \in RequestStates
      BY <2>q, <3>1, MovesTyped
    <3>3. request' \in [Requests -> RequestStates]
      BY <2>3, <3>2, IdleTyped, RequestTyped DEF Provision, Done
    <3> QED BY <2>3, <3>3 DEF Provision
  <2>4. CASE CheckLink(r)
    <3>1. PICK u \in Users, i \in Identities :
            To(r, [Idle EXCEPT !.pc = "link", !.target = u, !.sso = i])
      BY <2>4 DEF CheckLink
    <3>2. request' \in [Requests -> RequestStates]
      BY <3>1, IdleTyped, RequestTyped
    <3> QED BY <2>4, <3>2 DEF CheckLink
  <2>5. CASE ReadLink(r)
    <3>1. request' \in [Requests -> RequestStates]
      BY <2>5, <2>q, MovesTyped, IdleTyped, RequestTyped DEF ReadLink, Become, Done
    <3> QED BY <2>5, <3>1 DEF ReadLink
  <2>6. CASE BindIdentity(r)
    <3>1. request' \in [Requests -> RequestStates]
      BY <2>6, IdleTyped, RequestTyped DEF BindIdentity, Done
    <3>2. identity' \in [Identities -> Users \cup {NoUser}]
      BY <2>6, <2>q DEF BindIdentity, RequestStates
    <3> QED BY <2>6, <3>1, <3>2 DEF BindIdentity
  <2>7. CASE ReadPassword(r)
    <3>1. PICK u \in Users, p \in Providers, s \in Subjects :
            To(r, [Idle EXCEPT !.pc = "unlink", !.target = u, !.sso = <<p, s>>,
                               !.password = user[u].password])
      BY <2>7 DEF ReadPassword
    <3>2. user[u].password \in BOOLEAN
      BY DEF Rows
    <3>3. <<p, s>> \in Identities
      BY DEF Identities
    <3>4. request' \in [Requests -> RequestStates]
      BY <3>1, <3>2, <3>3, IdleTyped, RequestTyped
    <3> QED BY <2>7, <3>4 DEF ReadPassword
  <2>8. CASE Unlink(r)
    <3>1. request' \in [Requests -> RequestStates]
      BY <2>8, IdleTyped, RequestTyped DEF Unlink, Done
    <3>2. identity' \in [Identities -> Users \cup {NoUser}]
      BY <2>8 DEF Unlink
    <3> QED BY <2>8, <3>1, <3>2 DEF Unlink
  <2> QED BY <1>3, <2>1, <2>2, <2>3, <2>4, <2>5, <2>6, <2>7, <2>8 DEF SigningIn
<1>4. CASE SetDisabled
  <2>1. PICK u \in Accounts, state \in {"active", "disabled"} :
          user' = [user EXCEPT ![u].state = state]
    BY <1>4 DEF SetDisabled
  <2>2. user' \in [Users -> Rows]
    BY <2>1 DEF Accounts, Rows
  <2> QED BY <1>4, <2>2 DEF SetDisabled
<1>5. CASE ResetPassword \/ ResetByHand
  <2>1. PICK u \in Accounts : user' = [user EXCEPT ![u].password = TRUE]
    BY <1>5 DEF ResetPassword, ResetByHand, SetPassword
  <2>2. user' \in [Users -> Rows]
    BY <2>1 DEF Accounts, Rows
  <2> QED BY <1>5, <2>2 DEF ResetPassword, ResetByHand
<1>6. CASE DeleteUser
  <2>1. PICK u \in Accounts :
          /\ user' = [user EXCEPT ![u] = NoRow]
          /\ identity' = [i \in Identities |-> IF i \in Held(u) THEN NoUser ELSE identity[i]]
          /\ first' = first \ {u}
          /\ emptied' = (emptied \/ Accounts = {u})
    BY <1>6 DEF DeleteUser
  <2>2. NoRow \in Rows
    BY TriesAssumption DEF NoRow, Rows, Names
  <2>3. user' \in [Users -> Rows] /\ first' \subseteq Users
    BY <2>1, <2>2
  <2>4. identity' \in [Identities -> Users \cup {NoUser}]
    BY <2>1
  <2>5. emptied' \in BOOLEAN
    BY ONLY <2>1
  <2> QED BY <1>6, <2>3, <2>4, <2>5 DEF DeleteUser
<1>7. CASE CreateByHand
  <2>1. PICK u \in Fresh, n \in Names, e \in Emails \cup {NoEmail} :
          user' = [user EXCEPT ![u] = [state |-> "active", password |-> TRUE,
                                       name |-> n, email |-> e]]
    BY <1>7 DEF CreateByHand
  <2>2. [state |-> "active", password |-> TRUE, name |-> n, email |-> e] \in Rows
    BY DEF Rows
  <2>3. user' \in [Users -> Rows]
    BY <2>1, <2>2
  <2> QED BY <1>7, <2>3 DEF CreateByHand
<1> QED BY <1>1, <1>2, <1>3, <1>4, <1>5, <1>6, <1>7 DEF Next

\* Types: every variable keeps to its domain, whatever overlaps.
THEOREM AccountsTyped == Spec => []TypeOK
<1>1. Init => TypeOK
  <2>1. NoRow \in Rows
    BY TriesAssumption DEF NoRow, Rows, Names
  <2> QED BY <2>1, IdleTyped DEF Init, TypeOK
<1>2. TypeOK /\ [Next]_vars => TypeOK'
  BY TypeStep
<1> QED BY <1>1, <1>2, PTL DEF Spec

-----------------------------------------------------------------------------
(* Nobody's credential is handed over *)

\* One step leaves an identity with its account, or with nobody.
LEMMA CredentialStep ==
    ASSUME TypeOK, [Next]_vars, NEW i \in Identities, identity[i] # NoUser
    PROVE  identity'[i] \in {identity[i], NoUser}
<1> USE DEF TypeOK
<1>1. CASE UNCHANGED identity
  BY <1>1
<1>2. ASSUME NEW r \in Requests, NEW u \in Users, IdentityFree(r), Insert(r, u)
      PROVE  identity'[i] = identity[i]
  <2>1. request[r].sso # i
    BY <1>2 DEF IdentityFree
  <2> QED BY <1>2, <2>1 DEF Insert
<1>3. ASSUME NEW r \in Requests, Creating(r) PROVE identity'[i] \in {identity[i], NoUser}
  BY <1>2, <1>3 DEF Creating, Register, CreateOrdinary, ClaimBootstrap, CountAccounts,
     TakeOverMarker, LoseBootstrap, NameTaken, IdentityTaken, CreateFails
<1>4. ASSUME NEW r \in Requests, SigningIn(r) PROVE identity'[i] \in {identity[i], NoUser}
  <2>1. CASE BindIdentity(r)
    BY <2>1 DEF BindIdentity, Unbound
  <2>2. CASE Unlink(r)
    BY <2>2 DEF Unlink
  <2>3. CASE UNCHANGED identity
    BY <2>3
  <2> QED BY <1>4, <2>1, <2>2, <2>3 DEF SigningIn, ResolveOIDC, MatchEmail, Provision,
          CheckLink, ReadLink, ReadPassword
<1>5. CASE DeleteUser
  BY <1>5 DEF DeleteUser
<1> QED BY <1>1, <1>3, <1>4, <1>5 DEF Next, vars, SetDisabled, ResetPassword, ResetByHand,
        CreateByHand

\* A subject is never handed over from one account to another: two sign-ins, links
\* and provisionings that overlap leave it with the first, on either engine.
THEOREM NothingIsHandedOver == Spec => CredentialsStay
<1>1. TypeOK /\ [Next]_vars =>
        [\A i \in Identities :
           identity[i] # NoUser => identity'[i] \in {identity[i], NoUser}]_vars
  BY CredentialStep
<1> QED BY <1>1, AccountsTyped, PTL DEF Spec, CredentialsStay

-----------------------------------------------------------------------------
(* Being first *)

\* A created account is one more.
LEMMA InsertAdds ==
    ASSUME TypeOK, NEW r \in Requests, NEW u \in Users, Insert(r, u)
    PROVE  u \notin Accounts /\ Accounts' = Accounts \cup {u}
<1>1. u \notin Accounts
  BY DEF Insert, Fresh, Accounts
<1>2. /\ Exists(u)'
      /\ \A v \in Users \ {u} : Exists(v)' <=> Exists(v)
  BY DEF Insert, Exists, TypeOK
<1> QED BY <1>1, <1>2 DEF Accounts

\* The takeover of the marker is only open to who counted on Postgres.
LEMMA TakeoverStep ==
    ASSUME TypeOK, MarkerInv, NEW r \in Requests, NEW q, To(r, q),
           q.pc = "takeover" => marker /\ database = "postgres" /\ emptied
    PROVE  \A o \in Requests : request'[o].pc = "takeover" => marker /\ database = "postgres" /\ emptied
BY DEF TypeOK, MarkerInv, To

\* Every step keeps the marker with the accounts it speaks of.
LEMMA MarkerStep ==
    ASSUME TypeOK, MarkerInv, [Next]_vars
    PROVE  MarkerInv'
<1> USE DEF TypeOK
<1>1. \A o \in Requests : request'[o].pc = "takeover" => marker /\ database = "postgres" /\ emptied
  <2>1. CASE UNCHANGED request
    BY <2>1 DEF MarkerInv
  <2>2. ASSUME NEW r \in Requests, Done(r)
        PROVE  \A o \in Requests : request'[o].pc = "takeover" => marker /\ database = "postgres" /\ emptied
    BY <2>2, TakeoverStep, IdleIs DEF Done
  <2>3. ASSUME NEW r \in Requests, NEW pc \in {"provision", "bind", "takeover"}, Become(r, pc),
               pc = "takeover" => marker /\ database = "postgres" /\ emptied
        PROVE  \A o \in Requests : request'[o].pc = "takeover" => marker /\ database = "postgres" /\ emptied
    <3>1. [request[r] EXCEPT !.pc = pc].pc = pc
      BY DEF RequestStates
    <3> QED BY ONLY <2>3, <3>1, TakeoverStep, TypeOK, MarkerInv DEF Become
  <2>4. ASSUME NEW r \in Requests, Creating(r)
        PROVE  \A o \in Requests : request'[o].pc = "takeover" => marker /\ database = "postgres" /\ emptied
    <3>1. CASE Register(r)
      <4>1. PICK n \in Names, e \in Emails \cup {NoEmail} :
              To(r, [Idle EXCEPT !.pc = "create", !.name = n, !.email = e,
                                 !.empty = (Accounts = {}), !.password = TRUE])
        BY <3>1 DEF Register
      <4>2. [Idle EXCEPT !.pc = "create", !.name = n, !.email = e,
                         !.empty = (Accounts = {}), !.password = TRUE].pc = "create"
        BY DEF Idle
      <4> QED BY <4>1, <4>2, TakeoverStep
    <3>2. CASE CountAccounts(r)
      BY <3>2, <2>3 DEF CountAccounts, MarkerIsStale, MarkerInv
    <3>3. CASE LoseBootstrap(r)
      <4>1. [request[r] EXCEPT !.empty = FALSE].pc = request[r].pc /\ request[r].pc = "create"
        BY <3>3 DEF LoseBootstrap, Insertable, RequestStates
      <4> QED BY <3>3, <4>1, <2>2, TakeoverStep DEF LoseBootstrap
    <3>4. CASE NameTaken(r)
      <4>1. [request[r] EXCEPT !.name = @ + 1, !.email = NoEmail].pc = request[r].pc
              /\ request[r].pc = "create"
        BY <3>4 DEF NameTaken, RequestStates
      <4> QED BY <3>4, <4>1, <2>2, TakeoverStep DEF NameTaken
    <3>5. CASE \/ CreateOrdinary(r) \/ ClaimBootstrap(r) \/ TakeOverMarker(r)
               \/ IdentityTaken(r) \/ CreateFails(r)
      BY <3>5, <2>2 DEF CreateOrdinary, ClaimBootstrap, TakeOverMarker, IdentityTaken,
         CreateFails, Insert
    <3> QED BY <2>4, <3>1, <3>2, <3>3, <3>4, <3>5 DEF Creating
  <2>5. ASSUME NEW r \in Requests, SigningIn(r)
        PROVE  \A o \in Requests : request'[o].pc = "takeover" => marker /\ database = "postgres" /\ emptied
    <3>1. CASE ResolveOIDC(r)
      <4>1. PICK i \in Identities, e \in Emails \cup {NoEmail} :
              To(r, [Idle EXCEPT !.pc = IF e = NoEmail THEN "provision" ELSE "match",
                                 !.sso = i, !.email = e])
        BY <3>1 DEF ResolveOIDC
      <4>2. [Idle EXCEPT !.pc = IF e = NoEmail THEN "provision" ELSE "match",
                         !.sso = i, !.email = e].pc # "takeover"
        BY DEF Idle
      <4> QED BY <4>1, <4>2, TakeoverStep
    <3>2. CASE MatchEmail(r)
      <4>1. \A u \in Users : [request[r] EXCEPT !.pc = "bind", !.target = u].pc # "takeover"
        BY DEF RequestStates
      <4> QED BY <3>2, <4>1, <2>2, <2>3, TakeoverStep DEF MatchEmail, ByEmail, Accounts
    <3>3. CASE Provision(r)
      <4>1. [request[r] EXCEPT !.pc = "create", !.empty = (Accounts = {}),
                               !.email = ProvisionableEmail(@)].pc # "takeover"
        BY DEF RequestStates
      <4> QED BY <3>3, <4>1, <2>2, TakeoverStep DEF Provision
    <3>4. CASE CheckLink(r)
      <4>1. PICK u \in Users, i \in Identities :
              To(r, [Idle EXCEPT !.pc = "link", !.target = u, !.sso = i])
        BY <3>4 DEF CheckLink
      <4>2. [Idle EXCEPT !.pc = "link", !.target = u, !.sso = i].pc # "takeover"
        BY DEF Idle
      <4> QED BY <4>1, <4>2, TakeoverStep
    <3>5. CASE ReadPassword(r)
      <4>1. PICK u \in Users, p \in Providers, s \in Subjects :
              To(r, [Idle EXCEPT !.pc = "unlink", !.target = u, !.sso = <<p, s>>,
                                 !.password = user[u].password])
        BY <3>5 DEF ReadPassword
      <4>2. [Idle EXCEPT !.pc = "unlink", !.target = u, !.sso = <<p, s>>,
                         !.password = user[u].password].pc # "takeover"
        BY DEF Idle
      <4> QED BY <4>1, <4>2, TakeoverStep
    <3>6. CASE ReadLink(r)
      BY <3>6, <2>2, <2>3 DEF ReadLink
    <3>7. CASE BindIdentity(r) \/ Unlink(r)
      BY <3>7, <2>2 DEF BindIdentity, Unlink
    <3> QED BY <2>5, <3>1, <3>2, <3>3, <3>4, <3>5, <3>6, <3>7 DEF SigningIn
  <2> QED BY <2>1, <2>4, <2>5 DEF Next, vars, SetDisabled, ResetPassword, ResetByHand,
          DeleteUser, CreateByHand
<1>2. CASE Accounts' = Accounts /\ UNCHANGED <<database, marker, first, emptied>>
  BY <1>1, <1>2 DEF MarkerInv, OneFirstAdmin
<1>3. ASSUME NEW u, Accounts' = Accounts \cup {u}, UNCHANGED <<database, marker, first, emptied>>
      PROVE  MarkerInv'
  BY <1>1, <1>3 DEF MarkerInv, OneFirstAdmin
<1>4. ASSUME UNCHANGED user PROVE Accounts' = Accounts
  BY <1>4 DEF Accounts, Exists
<1>5. ASSUME NEW r \in Requests, Creating(r) PROVE MarkerInv'
  <2>1. CASE CreateOrdinary(r)
    BY <2>1, <1>3, InsertAdds DEF CreateOrdinary
  <2>2. CASE ClaimBootstrap(r)
    <3>1. PICK u \in Users : Insert(r, u) /\ first' = first \cup {u}
      BY <2>2 DEF ClaimBootstrap
    <3>2. first = {} /\ first' = {u} /\ Accounts' = Accounts \cup {u}
      BY <2>2, <3>1, InsertAdds DEF ClaimBootstrap, MarkerInv
    <3> QED BY <1>1, <2>2, <3>2 DEF ClaimBootstrap, MarkerInv, OneFirstAdmin
  <2>3. CASE TakeOverMarker(r)
    <3>1. PICK u \in Users : Insert(r, u) /\ first' = first \cup {u}
      BY <2>3 DEF TakeOverMarker
    <3>2. Accounts' = Accounts \cup {u}
      BY <3>1, InsertAdds
    <3>3. (emptied /\ database = "postgres") \/ first = {}
      BY <2>3 DEF TakeOverMarker, MarkerInv, MarkerIsStale
    <3>4. marker'
      BY <2>3 DEF TakeOverMarker, MarkerInv
    <3> QED BY <1>1, <2>3, <3>1, <3>2, <3>3, <3>4 DEF TakeOverMarker, MarkerInv, OneFirstAdmin
  <2>4. CASE UNCHANGED <<database, user, marker, first, emptied>>
    BY <2>4, <1>2, <1>4
  <2> QED BY <1>5, <2>1, <2>2, <2>3, <2>4 DEF Creating, Register, CountAccounts, LoseBootstrap,
          NameTaken, IdentityTaken, CreateFails
<1>6. CASE DeleteUser
  <2>1. PICK u \in Accounts :
          /\ user' = [user EXCEPT ![u] = NoRow]
          /\ first' = first \ {u}
          /\ emptied' = (emptied \/ Accounts = {u})
    BY <1>6 DEF DeleteUser
  <2>2. Accounts' = Accounts \ {u}
    BY <2>1 DEF Accounts, Exists, NoRow
  <2>3. emptied => emptied'
    BY <2>1
  <2>4. Accounts' = {} => emptied'
    BY <2>1, <2>2
  <2> QED BY <1>1, <1>6, <2>1, <2>2, <2>3, <2>4 DEF DeleteUser, MarkerInv, OneFirstAdmin
<1>7. CASE CreateByHand
  <2>1. PICK u \in Fresh, n \in Names, e \in Emails \cup {NoEmail} :
          user' = [user EXCEPT ![u] = [state |-> "active", password |-> TRUE,
                                       name |-> n, email |-> e]]
    BY <1>7 DEF CreateByHand
  <2>2. Accounts' = Accounts \cup {u}
    BY <2>1 DEF Accounts, Exists, Fresh
  <2> QED BY <1>3, <1>7, <2>2 DEF CreateByHand
<1>8. CASE SetDisabled \/ ResetPassword \/ ResetByHand
  <2>1. Accounts' = Accounts
    BY <1>8 DEF SetDisabled, ResetPassword, ResetByHand, SetPassword, Accounts, Exists, Rows
  <2> QED BY <1>2, <1>8, <2>1 DEF SetDisabled, ResetPassword, ResetByHand
<1>9. CASE UNCHANGED <<database, user, marker, first, emptied>>
  BY <1>9, <1>2, <1>4
<1> QED BY <1>5, <1>6, <1>7, <1>8, <1>9 DEF Next, vars, SigningIn, ResolveOIDC, MatchEmail,
        Provision, CheckLink, ReadLink, BindIdentity, ReadPassword, Unlink

\* One first administrator at most: registrations, provisionings, lost claims,
\* takeovers of a stale marker and deletions, in any order; on Postgres until the
\* instance has been emptied once.
THEOREM OneIsFirst == Spec => []OneFirstAdmin
<1>1. Init => MarkerInv
  BY IdleIs DEF Init, MarkerInv, OneFirstAdmin
<1>2. TypeOK /\ MarkerInv /\ [Next]_vars => MarkerInv'
  BY MarkerStep
<1>3. MarkerInv => OneFirstAdmin
  BY DEF MarkerInv
<1> QED BY <1>1, <1>2, <1>3, AccountsTyped, PTL DEF Spec

-----------------------------------------------------------------------------
(* A way in to every account *)

\* What a handler becomes keeps what it knew, or starts over.
LEMMA MoveEquips ==
    ASSUME TypeOK, Equipped, PasswordsLast, NEW r \in Requests, NEW q, To(r, q),
           q.pc \in {"match", "provision", "create", "takeover"}
               => q.password \/ q.sso # NoIdentity,
           q.pc # "unlink"
    PROVE  /\ Equipped'
           /\ \A o \in Requests :
                 request'[o].pc = "unlink" => o # r /\ request'[o] = request[o]
BY DEF TypeOK, To, Equipped

\* Every step of a handler but the reading of a password.
LEMMA HandlerEquips ==
    ASSUME TypeOK, Equipped, PasswordsLast, NEW r \in Requests, Creating(r) \/ SigningIn(r),
           ~ ReadPassword(r)
    PROVE  /\ Equipped'
           /\ \A o \in Requests :
                 request'[o].pc = "unlink" => o # r /\ request'[o] = request[o]
<1> DEFINE Kept == /\ Equipped'
                   /\ \A o \in Requests :
                         request'[o].pc = "unlink" => o # r /\ request'[o] = request[o]
<1>q. request[r] \in RequestStates
  BY DEF TypeOK
<1>1. ASSUME Done(r) PROVE Kept
  BY <1>1, MoveEquips, IdleIs DEF Done
<1>2. ASSUME NEW pc \in {"takeover", "provision", "bind"}, Become(r, pc),
             request[r].pc \in {"create", "match", "link"},
             pc # "bind" => request[r].pc # "link"
      PROVE  Kept
  <2>1. /\ [request[r] EXCEPT !.pc = pc].pc = pc
        /\ [request[r] EXCEPT !.pc = pc].sso = request[r].sso
        /\ [request[r] EXCEPT !.pc = pc].password = request[r].password
    BY <1>q DEF RequestStates
  <2>2. pc # "bind" => request[r].password \/ request[r].sso # NoIdentity
    BY <1>2 DEF Equipped
  <2> QED BY ONLY TypeOK, Equipped, PasswordsLast, r \in Requests, <1>2, <2>1, <2>2, MoveEquips DEF Become
<1>3. ASSUME Creating(r) PROVE Kept
  <2>1. CASE Register(r)
    <3>1. PICK n \in Names, e \in Emails \cup {NoEmail} :
            To(r, [Idle EXCEPT !.pc = "create", !.name = n, !.email = e,
                               !.empty = (Accounts = {}), !.password = TRUE])
      BY <2>1 DEF Register
    <3> DEFINE p == [Idle EXCEPT !.pc = "create", !.name = n, !.email = e,
                                 !.empty = (Accounts = {}), !.password = TRUE]
    <3>2. p.pc = "create" /\ p.password
      BY DEF Idle
    <3> QED BY <3>1, <3>2, MoveEquips
  <2>2. CASE CountAccounts(r)
    BY <2>2, <1>2 DEF CountAccounts, Insertable
  <2>3. CASE LoseBootstrap(r)
    <3> DEFINE p == [request[r] EXCEPT !.empty = FALSE]
    <3>1. p.pc = "create" /\ p.password = request[r].password /\ p.sso = request[r].sso
      BY <2>3, <1>q DEF LoseBootstrap, Insertable, RequestStates
    <3>2. CASE To(r, p) /\ request[r].sso # NoIdentity
      BY <3>1, <3>2, MoveEquips
    <3> QED BY <2>3, <3>2, <1>1 DEF LoseBootstrap
  <2>4. CASE NameTaken(r)
    <3> DEFINE p == [request[r] EXCEPT !.name = @ + 1, !.email = NoEmail]
    <3>1. p.pc = "create" /\ p.password = request[r].password /\ p.sso = request[r].sso
      BY <2>4, <1>q DEF NameTaken, RequestStates
    <3>2. CASE To(r, p) /\ request[r].sso # NoIdentity
      BY <3>1, <3>2, MoveEquips
    <3> QED BY <2>4, <3>2, <1>1 DEF NameTaken
  <2>5. CASE \/ CreateOrdinary(r) \/ ClaimBootstrap(r) \/ TakeOverMarker(r)
             \/ IdentityTaken(r) \/ CreateFails(r)
    BY <2>5, <1>1 DEF CreateOrdinary, ClaimBootstrap, TakeOverMarker, IdentityTaken,
       CreateFails, Insert
  <2> QED BY <1>3, <2>1, <2>2, <2>3, <2>4, <2>5 DEF Creating
<1>4. ASSUME SigningIn(r) PROVE Kept
  <2>1. CASE ResolveOIDC(r)
    <3>1. PICK i \in Identities, e \in Emails \cup {NoEmail} :
            To(r, [Idle EXCEPT !.pc = IF e = NoEmail THEN "provision" ELSE "match",
                               !.sso = i, !.email = e])
      BY <2>1 DEF ResolveOIDC
    <3> DEFINE p == [Idle EXCEPT !.pc = IF e = NoEmail THEN "provision" ELSE "match",
                                 !.sso = i, !.email = e]
    <3>2. p.pc # "unlink" /\ p.sso = i
      BY DEF Idle
    <3> QED BY <3>1, <3>2, MoveEquips, Nulls
  <2>2. CASE MatchEmail(r)
    <3>1. ASSUME NEW u \in Users, To(r, [request[r] EXCEPT !.pc = "bind", !.target = u])
          PROVE  Kept
      <4>1. [request[r] EXCEPT !.pc = "bind", !.target = u].pc = "bind"
        BY <1>q DEF RequestStates
      <4> QED BY <3>1, <4>1, MoveEquips
    <3> QED BY <2>2, <3>1, <1>1, <1>2 DEF MatchEmail, ByEmail, Accounts
  <2>3. CASE Provision(r)
    <3> DEFINE p == [request[r] EXCEPT !.pc = "create", !.empty = (Accounts = {}),
                                       !.email = ProvisionableEmail(@)]
    <3>1. p.pc = "create" /\ p.password = request[r].password /\ p.sso = request[r].sso
      BY <1>q DEF RequestStates
    <3>2. request[r].password \/ request[r].sso # NoIdentity
      BY <2>3 DEF Provision, Equipped
    <3>3. CASE To(r, p)
      BY <3>1, <3>2, <3>3, MoveEquips
    <3> QED BY <2>3, <3>3, <1>1 DEF Provision
  <2>4. CASE CheckLink(r)
    <3>1. PICK u \in Users, i \in Identities :
            To(r, [Idle EXCEPT !.pc = "link", !.target = u, !.sso = i])
      BY <2>4 DEF CheckLink
    <3>2. [Idle EXCEPT !.pc = "link", !.target = u, !.sso = i].pc = "link"
      BY DEF Idle
    <3> QED BY <3>1, <3>2, MoveEquips
  <2>5. CASE ReadLink(r)
    BY <2>5, <1>1, <1>2 DEF ReadLink
  <2>6. CASE BindIdentity(r) \/ Unlink(r)
    BY <2>6, <1>1 DEF BindIdentity, Unlink
  <2> QED BY <1>4, <2>1, <2>2, <2>3, <2>4, <2>5, <2>6 DEF SigningIn
<1> QED BY <1>3, <1>4

\* Nothing happens to rows and identities.
LEMMA RowsKept ==
    ASSUME EveryAccountReachable, UNCHANGED <<user, identity>>
    PROVE  EveryAccountReachable'
BY DEF EveryAccountReachable, Accounts, Exists, Held

\* An account is created, with a credential.
LEMMA InsertReaches ==
    ASSUME TypeOK, EveryAccountReachable, Equipped, PasswordsLast,
           NEW r \in Requests, NEW u \in Users, request[r].pc \in {"create", "takeover"},
           IdentityFree(r), Insert(r, u), Equipped',
           \A o \in Requests : request'[o].pc = "unlink" => o # r /\ request'[o] = request[o]
    PROVE  EveryAccountReachable' /\ PasswordsLast'
<1> USE DEF TypeOK
<1>1. \A o \in Requests : request[o].target # u
  BY DEF Insert, Fresh
<1>2. \A v \in Users \ {u} : user'[v] = user[v]
  BY DEF Insert
<1>3. PasswordsLast'
  BY <1>1, <1>2 DEF PasswordsLast, Exists
<1>4. ASSUME NEW v \in Accounts' PROVE user'[v].password \/ Held(v)' # {}
  <2>1. CASE v = u
    <3>1. request[r].password \/ request[r].sso # NoIdentity
      BY DEF Equipped
    <3>2. user'[u].password = request[r].password
      BY DEF Insert
    <3>3. ASSUME request[r].sso # NoIdentity PROVE request[r].sso \in Held(u)'
      <4>1. request[r].sso \in Identities
        BY <3>3 DEF RequestStates
      <4> QED BY <3>3, <4>1 DEF Insert, Held
    <3> QED BY <2>1, <3>1, <3>2, <3>3
  <2>2. CASE v # u
    <3>1. v \in Users /\ v \in Accounts /\ user'[v] = user[v]
      BY <1>2, <1>4, <2>2 DEF Accounts, Exists
    <3>2. ASSUME NEW i \in Held(v) PROVE i \in Held(v)'
      <4>1. i \in Identities /\ identity[i] = v /\ v # NoUser
        BY <3>1, <3>2, Nulls DEF Held
      <4>2. request[r].sso # i
        BY <4>1 DEF IdentityFree
      <4>3. identity'[i] = identity[i]
        BY <4>1, <4>2 DEF Insert
      <4> QED BY <4>1, <4>3 DEF Held
    <3> QED BY <3>1, <3>2 DEF EveryAccountReachable
  <2> QED BY <2>1, <2>2
<1> QED BY <1>3, <1>4 DEF EveryAccountReachable

\* The last credential is not unlinked: the password that was read is still
\* there, or another identity is, at another provider.
LEMMA UnlinkReaches ==
    ASSUME TypeOK, EveryAccountReachable, PasswordsLast, OneSubjectEach,
           NEW r \in Requests, Unlink(r)
    PROVE  EveryAccountReachable'
<1> USE DEF TypeOK
<1>t. PICK t \in Users : t = request[r].target
  BY DEF PasswordsLast, Unlink
<1>1. CASE LastMethod(r)
  BY <1>1, RowsKept DEF Unlink
<1>2. CASE ~ LastMethod(r)
  <2>1. identity' = [i \in Identities |->
                       IF i \in Held(t) /\ i \in OfProvider(request[r].sso)
                         THEN NoUser ELSE identity[i]]
    BY <1>2, <1>t DEF Unlink
  <2>2. Accounts' = Accounts /\ user' = user /\ request[r].pc = "unlink"
    BY DEF Unlink, Accounts, Exists
  <2>3. ASSUME NEW v \in Accounts, v # t PROVE Held(v)' = Held(v)
    <3>1. \A i \in Identities : identity'[i] = v <=> identity[i] = v
      BY <2>1, <2>3, Nulls DEF Held, Accounts
    <3> QED BY <3>1 DEF Held
  <2>4. ASSUME t \in Accounts PROVE user[t].password \/ Held(t)' # {}
    <3>1. CASE request[r].password
      BY <1>t, <2>2, <2>4, <3>1 DEF PasswordsLast, Accounts
    <3>2. CASE ~ request[r].password
      <4>1. PICK i, j \in Held(t) : i # j
        BY <1>2, <1>t, <3>2 DEF LastMethod
      <4>2. i[1] # j[1]
        BY <4>1 DEF OneSubjectEach
      <4>3. i \in Identities /\ j \in Identities
        BY DEF Held
      <4>4. i \notin OfProvider(request[r].sso) \/ j \notin OfProvider(request[r].sso)
        BY <4>2 DEF OfProvider
      <4>5. i \in Held(t)' \/ j \in Held(t)'
        <5>1. identity[i] = t /\ identity[j] = t
          BY <4>1 DEF Held
        <5>2. \/ identity'[i] = identity[i]
              \/ identity'[j] = identity[j]
          BY <2>1, <4>3, <4>4
        <5> QED BY <4>3, <5>1, <5>2 DEF Held
      <4> QED BY <4>5
    <3> QED BY <3>1, <3>2
  <2> QED BY <2>2, <2>3, <2>4 DEF EveryAccountReachable
<1> QED BY <1>1, <1>2

\* Every step leaves a way in to every account, as long as no account holds two
\* subjects of one provider.
LEMMA ReachStep ==
    ASSUME TypeOK, EveryAccountReachable, Equipped, PasswordsLast, OneSubjectEach, [Next]_vars
    PROVE  EveryAccountReachable' /\ Equipped' /\ PasswordsLast'
<1> USE DEF TypeOK
<1>1. CASE UNCHANGED vars
  BY <1>1, RowsKept DEF vars, Equipped, PasswordsLast, Exists
<1>2. ASSUME NEW r \in Requests, Creating(r) \/ SigningIn(r)
      PROVE  EveryAccountReachable' /\ Equipped' /\ PasswordsLast'
  <2>1. CASE ReadPassword(r)
    <3>1. PICK u \in Users, p \in Providers, s \in Subjects :
            To(r, [Idle EXCEPT !.pc = "unlink", !.target = u, !.sso = <<p, s>>,
                               !.password = user[u].password])
      BY <2>1 DEF ReadPassword
    <3>2. request'[r].pc = "unlink" /\ request'[r].target = u
            /\ request'[r].password = user[u].password
      BY <3>1 DEF To, Idle
    <3>3. \A o \in Requests \ {r} : request'[o] = request[o]
      BY <3>1 DEF To
    <3>4. UNCHANGED <<user, identity>>
      BY <2>1 DEF ReadPassword
    <3>5. Equipped'
      BY <3>2, <3>3 DEF Equipped
    <3>6. PasswordsLast'
      BY <3>2, <3>3, <3>4 DEF PasswordsLast, Exists
    <3> QED BY <3>4, <3>5, <3>6, RowsKept
  <2>2. CASE ~ ReadPassword(r)
    <3>1. /\ Equipped'
          /\ \A o \in Requests :
                request'[o].pc = "unlink" => o # r /\ request'[o] = request[o]
      BY <1>2, <2>2, HandlerEquips
    <3>2. ASSUME UNCHANGED user PROVE PasswordsLast'
      BY <3>1, <3>2 DEF PasswordsLast, Exists
    <3>3. CASE UNCHANGED <<user, identity>>
      BY <3>1, <3>2, <3>3, RowsKept
    <3>4. CASE BindIdentity(r)
      <4>1. \A v \in Users : Held(v) \subseteq Held(v)'
        BY <3>4, Nulls DEF BindIdentity, Unbound, Held
      <4>2. user' = user /\ Accounts' = Accounts
        BY <3>4 DEF BindIdentity, Accounts, Exists
      <4> QED BY <3>1, <3>2, <4>1, <4>2 DEF EveryAccountReachable, Accounts
    <3>5. CASE Unlink(r)
      BY <3>1, <3>2, <3>5, UnlinkReaches DEF Unlink
    <3>6. CASE CreateOrdinary(r) \/ ClaimBootstrap(r) \/ TakeOverMarker(r)
      <4>1. PICK u \in Users : Insert(r, u)
        BY <3>6 DEF CreateOrdinary, ClaimBootstrap, TakeOverMarker
      <4>2. IdentityFree(r) /\ request[r].pc \in {"create", "takeover"}
        BY <3>6 DEF CreateOrdinary, ClaimBootstrap, TakeOverMarker, Insertable
      <4> QED BY <3>1, <4>1, <4>2, InsertReaches
    <3> QED BY <1>2, <2>2, <3>3, <3>4, <3>5, <3>6 DEF Creating, SigningIn, Register,
            CountAccounts, LoseBootstrap, NameTaken, IdentityTaken, CreateFails, ResolveOIDC,
            MatchEmail, Provision, CheckLink, ReadLink
  <2> QED BY <2>1, <2>2
<1>3. ASSUME UNCHANGED request PROVE Equipped'
  BY <1>3 DEF Equipped
<1>4. CASE SetDisabled
  <2>1. PICK u \in Accounts, state \in {"active", "disabled"} :
          user' = [user EXCEPT ![u].state = state]
    BY <1>4 DEF SetDisabled
  <2>2. /\ Accounts' = Accounts
        /\ \A v \in Users : user'[v].password = user[v].password
        /\ \A v \in Users : Exists(v)' <=> Exists(v)
    BY <2>1 DEF Accounts, Exists, Rows
  <2> QED BY <1>3, <1>4, <2>2 DEF SetDisabled, EveryAccountReachable, PasswordsLast, Held, Accounts
<1>5. CASE ResetPassword \/ ResetByHand
  <2>1. PICK u \in Accounts : user' = [user EXCEPT ![u].password = TRUE]
    BY <1>5 DEF ResetPassword, ResetByHand, SetPassword
  <2>2. /\ Accounts' = Accounts
        /\ \A v \in Users : user[v].password => user'[v].password
        /\ \A v \in Users : Exists(v)' <=> Exists(v)
    BY <2>1 DEF Accounts, Exists, Rows
  <2>3. UNCHANGED <<identity, request>>
    BY <1>5 DEF ResetPassword, ResetByHand
  <2> QED BY <1>3, <2>2, <2>3 DEF EveryAccountReachable, PasswordsLast, Held, Accounts
<1>6. CASE DeleteUser
  <2>1. PICK u \in Accounts :
          /\ user' = [user EXCEPT ![u] = NoRow]
          /\ identity' = [i \in Identities |-> IF i \in Held(u) THEN NoUser ELSE identity[i]]
    BY <1>6 DEF DeleteUser
  <2>2. /\ u \in Users /\ ~ Exists(u)'
        /\ \A v \in Users \ {u} : user'[v] = user[v]
    BY <2>1 DEF Accounts, Exists, NoRow
  <2>3. ASSUME NEW v \in Users \ {u} PROVE Held(v) \subseteq Held(v)'
    BY <2>1 DEF Held
  <2>4. EveryAccountReachable'
    BY <2>2, <2>3 DEF EveryAccountReachable, Accounts, Exists
  <2>5. PasswordsLast'
    BY <1>6, <2>2 DEF DeleteUser, PasswordsLast, Exists
  <2> QED BY <1>3, <1>6, <2>4, <2>5 DEF DeleteUser
<1>7. CASE CreateByHand
  <2>1. PICK u \in Fresh, n \in Names, e \in Emails \cup {NoEmail} :
          user' = [user EXCEPT ![u] = [state |-> "active", password |-> TRUE,
                                       name |-> n, email |-> e]]
    BY <1>7 DEF CreateByHand
  <2>2. /\ u \in Users /\ user'[u].password
        /\ \A v \in Users \ {u} : user'[v] = user[v]
        /\ \A r \in Requests : request[r].target # u
    BY <2>1 DEF Fresh
  <2>3. UNCHANGED <<identity, request>>
    BY <1>7 DEF CreateByHand
  <2>4. EveryAccountReachable'
    BY <2>2, <2>3 DEF EveryAccountReachable, Accounts, Exists, Held
  <2>5. PasswordsLast'
    BY <2>2, <2>3 DEF PasswordsLast, Exists
  <2> QED BY <1>3, <2>3, <2>4, <2>5
<1> QED BY <1>1, <1>2, <1>4, <1>5, <1>6, <1>7 DEF Next

\* As long as no account holds two subjects of one provider, every account keeps
\* a password or an identity, whatever overlaps.  The condition is not to be had
\* from the code: two links at one provider break it, and then the unlinking of
\* that provider takes both (run unlink).
THEOREM NobodyIsLockedOut == Spec => ([]OneSubjectEach => []EveryAccountReachable)
<1>1. Init => EveryAccountReachable /\ Equipped /\ PasswordsLast
  BY IdleIs DEF Init, EveryAccountReachable, Equipped, PasswordsLast, Accounts, Exists, NoRow
<1>2. TypeOK /\ EveryAccountReachable /\ Equipped /\ PasswordsLast /\ OneSubjectEach
        /\ [Next]_vars
        => EveryAccountReachable' /\ Equipped' /\ PasswordsLast'
  BY ReachStep
<1> QED BY <1>1, <1>2, AccountsTyped, PTL DEF Spec

\* With one subject at each provider the condition holds by itself.
COROLLARY OneSubjectSuffices ==
    ASSUME \A s, t \in Subjects : s = t
    PROVE  Spec => []EveryAccountReachable
<1>1. OneSubjectEach
  BY DEF OneSubjectEach, Held, Identities
<1>2. []OneSubjectEach
  BY <1>1, PTL
<1> QED BY <1>2, NobodyIsLockedOut, PTL

=============================================================================
