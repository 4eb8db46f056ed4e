------------------------------ MODULE Accounts ------------------------------
(***************************************************************************)
(* Accounts and the credentials that sign in to them.  An account comes    *)
(* from registration, from a first sign-in through an OIDC provider or     *)
(* from the command line of the server; the first one of an instance is    *)
(* its administrator.  A credential is a password or an identity, that is, *)
(* a subject at a provider; identities are linked, found by verified       *)
(* address, and unlinked.  Administrators change, reset and delete         *)
(* accounts.                                                              *)
(*                                                                         *)
(* A transaction is one action, except the one that takes over a stale     *)
(* bootstrap marker on Postgres, whose count and write are two snapshots.  *)
(* What a handler reads before its transaction is an action of its own.    *)
(***************************************************************************)
EXTENDS Naturals, FiniteSets

CONSTANTS
    Users,          \* account ids
    Emails,         \* normalised addresses
    Providers,      \* configured OIDC providers
    Subjects,       \* subjects at a provider
    Requests,       \* handlers in flight at once
    Databases,      \* the engines a behaviour may run on
    SuffixTries,    \* usernameSuffixTries
    NoUser, NoEmail, NoIdentity

ASSUME DatabasesAssumption == Databases \subseteq {"sqlite", "postgres"}
ASSUME TriesAssumption == SuffixTries \in Nat
ASSUME NullsAssumption ==
    NoUser \notin Users /\ NoEmail \notin Emails /\ NoIdentity \notin Providers \X Subjects

VARIABLES
    database,
    user,           \* the user table
    identity,       \* who holds a (provider, subject), unique in user_identity
    marker,         \* auth.bootstrapped_at is in the setting table
    request,        \* the handlers
    first,          \* accounts that became administrator by being first
    emptied         \* the last account was deleted once

vars == <<database, user, identity, marker, request, first, emptied>>

-----------------------------------------------------------------------------
Identities == Providers \X Subjects

\* Attempts at a name: the one asked for, then the same with a suffix.
Names == 0 .. SuffixTries

Rows == [state : {"none", "active", "disabled"}, password : BOOLEAN,
         name : Names, email : Emails \cup {NoEmail}]

NoRow == [state |-> "none", password |-> FALSE, name |-> 0,
           email |-> NoEmail]

(***************************************************************************)
(* pc        create, takeover      createAccount                           *)
(*           match, provision      resolveOIDCUser                         *)
(*           bind                  an identity to be inserted for target   *)
(*           link                  completeOIDCLink, account checked       *)
(*           unlink                OIDCUnlink, password read               *)
(***************************************************************************)
RequestStates ==
    [pc : {"idle", "create", "takeover", "match", "provision", "bind", "link",
           "unlink"},
     target : Users \cup {NoUser},
     name : Names,
     email : Emails \cup {NoEmail},
     sso : Identities \cup {NoIdentity},    \* what the provider vouched for
     empty : BOOLEAN,                       \* no account existed when read
     password : BOOLEAN]                    \* the account had one when read

Idle == [pc |-> "idle", target |-> NoUser, name |-> 0,
         email |-> NoEmail, sso |-> NoIdentity, empty |-> FALSE, password |-> FALSE]

To(r, q) == request' = [request EXCEPT ![r] = q]
Done(r) == To(r, Idle)
Become(r, pc) == To(r, [request[r] EXCEPT !.pc = pc])

Exists(u) == user[u].state \in {"active", "disabled"}
Active(u) == user[u].state = "active"
Accounts == {u \in Users : Exists(u)}

\* An id is random and never repeats; here it may name another account once no
\* row and no request refers to the one it named.
Fresh == {u \in Users : /\ ~ Exists(u)
                        /\ \A i \in Identities : identity[i] # u
                        /\ \A r \in Requests : request[r].target # u}

\* The unique columns of the user table.
Taken(n, e) ==
    \E u \in Accounts : user[u].name = n \/ (e # NoEmail /\ user[u].email = e)

ByEmail(e) == {u \in Accounts : user[u].email = e}

Held(u) == {i \in Identities : identity[i] = u}

-----------------------------------------------------------------------------
(* Creating an account *)

\* AuthRegister: with the switch off only the first account is admitted.
Register(r) ==
    /\ request[r].pc = "idle"
    /\ \E n \in Names, e \in Emails \cup {NoEmail} :
          To(r, [Idle EXCEPT !.pc = "create", !.name = n, !.email = e,
                             !.empty = (Accounts = {}), !.password = TRUE])
    /\ UNCHANGED <<database, user, identity, marker, first, emptied>>

\* The rows createAccount writes, whole or not at all.
Insert(r, u) ==
    LET q == request[r] IN
    /\ u \in Fresh
    /\ user' = [user EXCEPT ![u] = [state |-> "active",
                   password |-> q.password, name |-> q.name, email |-> q.email]]
    /\ identity' = IF q.sso = NoIdentity THEN identity
                                         ELSE [identity EXCEPT ![q.sso] = u]
    /\ Done(r)

\* A transaction still open holds the keys it has inserted: others wait.
Waits(r) ==
    \E o \in Requests \ {r} :
       /\ request[o].pc = "takeover"
       /\ \/ request[o].name = request[r].name
          \/ request[o].email = request[r].email /\ request[r].email # NoEmail
          \/ request[o].sso = request[r].sso /\ request[r].sso # NoIdentity

Insertable(r) ==
    /\ request[r].pc = "create"
    /\ ~ Waits(r)
    /\ ~ Taken(request[r].name, request[r].email)

IdentityFree(r) ==
    \A i \in Identities : i = request[r].sso => identity[i] = NoUser

CreateOrdinary(r) ==
    /\ Insertable(r) /\ ~ request[r].empty /\ IdentityFree(r)
    /\ \E u \in Users : Insert(r, u)
    /\ UNCHANGED <<database, marker, first, emptied>>

\* claimBootstrap, nobody having claimed before: the key waits for no one else.
ClaimBootstrap(r) ==
    /\ Insertable(r) /\ request[r].empty /\ IdentityFree(r)
    /\ ~ marker
    /\ marker' = TRUE
    /\ \E u \in Users : Insert(r, u) /\ first' = first \cup {u}
    /\ UNCHANGED <<database, emptied>>

\* Slip: a key that is already there counts as claimed.
AlwaysOurs == TRUE

\* The marker is there, and the only row is ours: it is stale.
MarkerIsStale == Accounts = {}

\* Postgres: the count is over, the marker not yet written.
CountAccounts(r) ==
    /\ Insertable(r) /\ request[r].empty
    /\ marker /\ MarkerIsStale /\ database = "postgres"
    /\ Fresh # {}
    /\ Become(r, "takeover")
    /\ UNCHANGED <<database, user, identity, marker, first, emptied>>

\* SQLite has one writer: the count still holds at the write.
TakeOverMarker(r) ==
    /\ \/ request[r].pc = "takeover"
       \/ Insertable(r) /\ request[r].empty /\ marker /\ MarkerIsStale /\ database = "sqlite"
    /\ IdentityFree(r)
    /\ \E u \in Users : Insert(r, u) /\ first' = first \cup {u}
    /\ UNCHANGED <<database, marker, emptied>>

\* errBootstrapLost: a registration is refused, a provisioning goes on as an
\* ordinary account under the same name.
LoseBootstrap(r) ==
    /\ Insertable(r) /\ request[r].empty
    /\ marker /\ ~ MarkerIsStale
    /\ IF request[r].sso = NoIdentity
         THEN Done(r)
         ELSE To(r, [request[r] EXCEPT !.empty = FALSE])
    /\ UNCHANGED <<database, user, identity, marker, first, emptied>>

LastTry(r) == request[r].name = SuffixTries

\* errAccountTaken: a provisioning tries the next name, without the address,
\* until the candidates are used up.
NameTaken(r) ==
    /\ request[r].pc = "create" /\ ~ Waits(r)
    /\ Taken(request[r].name, request[r].email)
    /\ IF request[r].sso = NoIdentity \/ LastTry(r)
         THEN Done(r)
         ELSE To(r, [request[r] EXCEPT !.name = @ + 1, !.email = NoEmail])
    /\ UNCHANGED <<database, user, identity, marker, first, emptied>>

\* errIdentityTaken: somebody else provisioned this subject; sign in as theirs.
IdentityTaken(r) ==
    /\ \/ request[r].pc = "takeover"
       \/ Insertable(r) /\ (request[r].empty => ~ marker \/ MarkerIsStale)
    /\ ~ IdentityFree(r)
    /\ Done(r)
    /\ UNCHANGED <<database, user, identity, marker, first, emptied>>

\* Any other failure of the transaction rolls it back and is answered.
CreateFails(r) ==
    /\ request[r].pc \in {"create", "takeover"}
    /\ Done(r)
    /\ UNCHANGED <<database, user, identity, marker, first, emptied>>
-----------------------------------------------------------------------------
(* Signing in through a provider *)

\* A subject nobody holds; one that is held signs in and changes nothing here.
\* The address counts when the provider has verified it.
ResolveOIDC(r) ==
    /\ request[r].pc = "idle"
    /\ \E i \in Identities, e \in Emails \cup {NoEmail} :
          /\ identity[i] = NoUser
          /\ To(r, [Idle EXCEPT !.pc = IF e = NoEmail THEN "provision" ELSE "match",
                                !.sso = i, !.email = e])
    /\ UNCHANGED <<database, user, identity, marker, first, emptied>>

\* The account with the same address, unless it is disabled.
MatchEmail(r) ==
    /\ request[r].pc = "match"
    /\ LET found == ByEmail(request[r].email) IN
       \/ found = {} /\ Become(r, "provision")
       \/ \E u \in found :
            IF Active(u) THEN To(r, [request[r] EXCEPT !.pc = "bind", !.target = u])
                         ELSE Done(r)
    /\ UNCHANGED <<database, user, identity, marker, first, emptied>>

\* A verified address is kept when no account has it.
ProvisionableEmail(e) == IF ByEmail(e) = {} THEN e ELSE NoEmail

\* provisionOIDCUser up to its loop.
Provision(r) ==
    /\ request[r].pc = "provision"
    /\ \/ To(r, [request[r] EXCEPT
                  !.pc = "create", !.empty = (Accounts = {}),
                  !.email = ProvisionableEmail(@)])
       \/ Done(r)
    /\ UNCHANGED <<database, user, identity, marker, first, emptied>>

\* completeOIDCLink, for the account of the session that started the flow.
CheckLink(r) ==
    /\ request[r].pc = "idle"
    /\ \E u \in Users, i \in Identities :
          /\ Active(u)
          /\ To(r, [Idle EXCEPT !.pc = "link", !.target = u, !.sso = i])
    /\ UNCHANGED <<database, user, identity, marker, first, emptied>>

\* A subject that is held, by this account or by another, stays where it is.
ReadLink(r) ==
    /\ request[r].pc = "link"
    /\ IF identity[request[r].sso] = NoUser THEN Become(r, "bind") ELSE Done(r)
    /\ UNCHANGED <<database, user, identity, marker, first, emptied>>

\* Slip: the row is written over.
BindAlways(r) == TRUE

\* The unique index decides.
Unbound(r) == identity[request[r].sso] = NoUser

\* Identities.Create, for a link and for a match by address.
BindIdentity(r) ==
    /\ request[r].pc = "bind"
    /\ identity' = IF Unbound(r)
                     THEN [identity EXCEPT ![request[r].sso] = request[r].target]
                     ELSE identity
    /\ Done(r)
    /\ UNCHANGED <<database, user, marker, first, emptied>>
-----------------------------------------------------------------------------
(* Unlinking *)

\* OIDCUnlink reads whether there is a password before the transaction.
ReadPassword(r) ==
    /\ request[r].pc = "idle"
    /\ \E u \in Users, p \in Providers :
          /\ Active(u)
          /\ \E s \in Subjects :
               To(r, [Idle EXCEPT !.pc = "unlink", !.target = u,
                                  !.sso = <<p, s>>, !.password = user[u].password])
    /\ UNCHANGED <<database, user, identity, marker, first, emptied>>

OfProvider(i) == {j \in Identities : j[1] = i[1]}

\* Slip: another identity is enough, whichever provider is unlinked.
NeverLast(r) == FALSE

\* The only method: no password, and one identity.
LastMethod(r) ==
    /\ ~ request[r].password
    /\ \A i, j \in Held(request[r].target) : i = j

\* DeleteUnlessLast counts identities, and removes all those of the provider.
Unlink(r) ==
    /\ request[r].pc = "unlink"
    /\ identity' = IF LastMethod(r) THEN identity
                   ELSE [i \in Identities |->
                           IF /\ i \in Held(request[r].target)
                              /\ i \in OfProvider(request[r].sso)
                             THEN NoUser ELSE identity[i]]
    /\ Done(r)
    /\ UNCHANGED <<database, user, marker, first, emptied>>
-----------------------------------------------------------------------------
(* Administrators and the command line of the server *)

\* SetFlags on another's account: one statement.
SetDisabled ==
    /\ \E u \in Accounts, state \in {"active", "disabled"} :
          user' = [user EXCEPT ![u].state = state]
    /\ UNCHANGED <<database, identity, marker, request, first, emptied>>

\* The local row that EnsureLocal adds is no identity here: none is ever without
\* a password, and what counts methods passes over it.
SetPassword(u) == user' = [user EXCEPT ![u].password = TRUE]

\* AdminResetPassword.
ResetPassword ==
    /\ \E u \in Accounts : SetPassword(u)
    /\ UNCHANGED <<database, identity, marker, request, first, emptied>>

\* reset-password, on the server's command line, finds its account by name or address.
ResetByHand ==
    /\ \E name \in Names, u \in Accounts : user[u].name = name /\ SetPassword(u)
    /\ UNCHANGED <<database, identity, marker, request, first, emptied>>

\* The account row and its identities, in one transaction.  Nobody deletes
\* themselves, but two administrators can delete each other (module Credentials).
DeleteUser ==
    /\ \E u \in Accounts :
          /\ user' = [user EXCEPT ![u] = NoRow]
          /\ identity' = [i \in Identities |-> IF i \in Held(u) THEN NoUser ELSE identity[i]]
          /\ first' = first \ {u}
          /\ emptied' = (emptied \/ Accounts = {u})
    /\ UNCHANGED <<database, marker, request>>

\* The command line creates accounts without a look at the marker.
CreateByHand ==
    /\ \E u \in Fresh, n \in Names, e \in Emails \cup {NoEmail} :
          /\ ~ Taken(n, e)
          /\ user' = [user EXCEPT ![u] = [state |-> "active", password |-> TRUE,
                                          name |-> n, email |-> e]]
    /\ UNCHANGED <<database, identity, marker, request, first, emptied>>
-----------------------------------------------------------------------------
Init ==
    /\ database \in Databases
    /\ user = [u \in Users |-> NoRow]
    /\ identity = [i \in Identities |-> NoUser]
    /\ marker = FALSE
    /\ request = [r \in Requests |-> Idle]
    /\ first = {} /\ emptied = FALSE

Creating(r) ==
    \/ Register(r) \/ CreateOrdinary(r) \/ ClaimBootstrap(r) \/ CountAccounts(r)
    \/ TakeOverMarker(r) \/ LoseBootstrap(r) \/ NameTaken(r) \/ IdentityTaken(r)
    \/ CreateFails(r)

SigningIn(r) ==
    \/ ResolveOIDC(r) \/ MatchEmail(r) \/ Provision(r)
    \/ CheckLink(r) \/ ReadLink(r) \/ BindIdentity(r)
    \/ ReadPassword(r) \/ Unlink(r)

Next ==
    \/ \E r \in Requests : Creating(r) \/ SigningIn(r)
    \/ SetDisabled \/ ResetPassword \/ ResetByHand \/ DeleteUser \/ CreateByHand

Spec == Init /\ [][Next]_vars
-----------------------------------------------------------------------------
\* The type invariant: every variable keeps to its domain.
TypeOK ==
    /\ database \in Databases
    /\ user \in [Users -> Rows]
    /\ identity \in [Identities -> Users \cup {NoUser}]
    /\ marker \in BOOLEAN
    /\ request \in [Requests -> RequestStates]
    /\ first \subseteq Users /\ emptied \in BOOLEAN

\* Every account can be signed in to: it has a password or an identity,
\* whatever registrations, provisionings, links and unlinks overlap.
EveryAccountReachable ==
    \A u \in Accounts : user[u].password \/ Held(u) # {}

\* Of the accounts there are, one at most became administrator for being the
\* first.  On Postgres this ends when administrators who delete each other empty
\* the instance: two registrations can both find the marker stale.
OneFirstAdmin ==
    (emptied /\ database = "postgres") \/ \A u, v \in first : u = v

\* A subject is never handed over: it leaves the account that holds it before
\* another account takes it.
CredentialsStay ==
    [][\A i \in Identities :
         identity[i] # NoUser => identity'[i] \in {identity[i], NoUser}]_vars

=============================================================================
