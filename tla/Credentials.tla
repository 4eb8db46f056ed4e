----------------------------- MODULE Credentials -----------------------------
(***************************************************************************)
(* What a credential lets a request do, and what an administrator's        *)
(* decision does to the requests under way.  A session or a token names an *)
(* account; the account's status is read on every request, then the        *)
(* handler runs.  Administrators change each other's flags and delete      *)
(* accounts, pages first and the account last, while the account's owner   *)
(* still publishes and creates tokens.                                     *)
(*                                                                         *)
(* Sessions outlive every change of the account (module Sessions), so any  *)
(* account may present one at any time.  A transaction is one action.      *)
(***************************************************************************)
EXTENDS Naturals, FiniteSets

CONSTANTS
    Users, Pages, Tokens,
    Requests,       \* handlers in flight at once
    BatchSize,      \* adminDeleteFileBatch
    NoUser

ASSUME BatchAssumption == BatchSize \in Nat \ {0}
ASSUME NoUserAssumption == NoUser \notin Users

VARIABLES
    account,        \* the user table: active, disabled, or gone
    admin,          \* accounts with is_admin
    page,           \* the file table
    token,          \* the token table
    request,        \* the handlers
    late            \* pages and tokens added when a deletion no longer looked

vars == <<account, admin, page, token, request, late>>

-----------------------------------------------------------------------------
NoRow == [owner |-> NoUser, state |-> "none"]

PageRows == [owner : Users \cup {NoUser}, state : {"none", "live", "deleted"}]
TokenRows == [owner : Users \cup {NoUser},
              state : {"none", "valid", "expired", "revoked", "deleted", "removed"}]

(***************************************************************************)
(* pc        status            a credential has named the actor            *)
(*           act               the account was active                      *)
(*           admin             requireAdmin has passed                     *)
(*           list, delete      deleteOwnedFiles, batch being the listing   *)
(*           remove            the listing was empty                       *)
(***************************************************************************)
RequestStates == [pc : {"idle", "status", "act", "admin", "list", "delete", "remove"},
                  actor : Users \cup {NoUser}, target : Users \cup {NoUser},
                  batch : SUBSET Pages]

Idle == [pc |-> "idle", actor |-> NoUser, target |-> NoUser, batch |-> {}]

To(r, q) == request' = [request EXCEPT ![r] = q]
Done(r) == To(r, Idle)
Become(r, pc) == To(r, [request[r] EXCEPT !.pc = pc])

Active(u) == account[u] = "active"
Exists(u) == account[u] # "gone"
ActiveAdmins == {u \in admin : Active(u)}

Owned(u) == {p \in Pages : page[p].state = "live" /\ page[p].owner = u}

\* The deletion of u has looked for pages for the last time.
LastLookOver(u) ==
    \/ ~ Exists(u)
    \/ \E r \in Requests : request[r].pc = "remove" /\ request[r].target = u

-----------------------------------------------------------------------------
(* Authentication *)

PresentSession(r) ==
    /\ request[r].pc = "idle"
    /\ \E u \in Users : To(r, [Idle EXCEPT !.pc = "status", !.actor = u])
    /\ UNCHANGED <<account, admin, page, token, late>>

\* TokenValidator: neither deleted, revoked nor expired.
PresentToken(r) ==
    /\ request[r].pc = "idle"
    /\ \E t \in Tokens :
          /\ token[t].state = "valid"
          /\ To(r, [Idle EXCEPT !.pc = "status", !.actor = token[t].owner])
    /\ UNCHANGED <<account, admin, page, token, late>>

\* Slip: only a missing row is refused.
AnyAccount(u) == Exists(u)

MayAuthenticate(u) == Active(u)

\* accountActive: 401 for an account that may not, 503 when it cannot be read.
CheckAccount(r) ==
    /\ request[r].pc = "status"
    /\ \/ MayAuthenticate(request[r].actor) /\ Become(r, "act")
       \/ Done(r)
    /\ UNCHANGED <<account, admin, page, token, late>>

-----------------------------------------------------------------------------
(* What an account does for itself *)

Publish(r) ==
    /\ request[r].pc = "act"
    /\ \E p \in Pages :
          /\ page[p].state = "none"
          /\ page' = [page EXCEPT ![p] = [owner |-> request[r].actor, state |-> "live"]]
          /\ late' = IF LastLookOver(request[r].actor) THEN late \cup {p} ELSE late
    /\ Done(r)
    /\ UNCHANGED <<account, admin, token>>

\* DeleteFile, of a page of one's own.
DeletePage(r) ==
    /\ request[r].pc = "act"
    /\ \E p \in Owned(request[r].actor) : page' = [page EXCEPT ![p].state = "deleted"]
    /\ Done(r)
    /\ UNCHANGED <<account, admin, token, late>>

\* issueToken looks at no account: a token outlives one it is added to late.
IssueToken(t, u) ==
    /\ token[t].state = "none"
    /\ token' = [token EXCEPT ![t] = [owner |-> u, state |-> "valid"]]
    /\ late' = IF Exists(u) THEN late ELSE late \cup {t}

CreateToken(r) ==
    /\ request[r].pc = "act"
    /\ \E t \in Tokens : IssueToken(t, request[r].actor)
    /\ Done(r)
    /\ UNCHANGED <<account, admin, page>>

\* The exchange of the device flow: nobody is authenticated, the account is the
\* one that approved (module DeviceFlow).
ExchangeDeviceCode ==
    /\ \E t \in Tokens, u \in Users : IssueToken(t, u)
    /\ UNCHANGED <<account, admin, page, request>>

\* The rows a statement matches are not deleted and have this owner.
Revoke(t, u) ==
    /\ token[t].owner = u
    /\ token[t].state \in {"valid", "expired", "revoked"}
    /\ token' = [token EXCEPT ![t].state = "revoked"]

DeleteRevoked(t, u) ==
    /\ token[t] = [owner |-> u, state |-> "revoked"]
    /\ token' = [token EXCEPT ![t].state = "deleted"]

RevokeToken(r) ==
    /\ request[r].pc = "act"
    /\ \E t \in Tokens : Revoke(t, request[r].actor)
    /\ Done(r)
    /\ UNCHANGED <<account, admin, page, late>>

DeleteRevokedToken(r) ==
    /\ request[r].pc = "act"
    /\ \E t \in Tokens : DeleteRevoked(t, request[r].actor)
    /\ Done(r)
    /\ UNCHANGED <<account, admin, page, late>>

\* tokenUnexpired, once false, stays so.
TokenExpires ==
    /\ \E t \in Tokens :
          /\ token[t].state = "valid"
          /\ token' = [token EXCEPT ![t].state = "expired"]
    /\ UNCHANGED <<account, admin, page, request, late>>

-----------------------------------------------------------------------------
(* What an administrator does *)

\* The flag is read from the row, not from the session; whether the account is
\* still active is not asked again.
RequireAdmin(r) ==
    /\ request[r].pc = "act"
    /\ IF request[r].actor \in admin THEN Become(r, "admin") ELSE Done(r)
    /\ UNCHANGED <<account, admin, page, token, late>>

\* Slip: administrators may do anything to anybody.
MayFlagAnyone(r, u, isAdmin, disabled) == TRUE

\* Nobody disables or demotes themselves.
MayFlag(r, u, isAdmin, disabled) == u = request[r].actor => isAdmin /\ ~ disabled

\* SetFlags moves both in one statement; one left alone has its own value.
AdminPatchUser(r) ==
    /\ request[r].pc = "admin"
    /\ \E u \in Users, isAdmin, disabled \in BOOLEAN :
          IF Exists(u) /\ MayFlag(r, u, isAdmin, disabled)
            THEN /\ account' = [account EXCEPT ![u] = IF disabled THEN "disabled" ELSE "active"]
                 /\ admin' = IF isAdmin THEN admin \cup {u} ELSE admin \ {u}
            ELSE UNCHANGED <<account, admin>>
    /\ Done(r)
    /\ UNCHANGED <<page, token, late>>

\* AdminDeleteUser, of another's account that is there.
DeleteUser(r) ==
    /\ request[r].pc = "admin"
    /\ \E u \in Users \ {request[r].actor} :
          IF Exists(u) THEN To(r, [request[r] EXCEPT !.pc = "list", !.target = u])
                       ELSE Done(r)
    /\ UNCHANGED <<account, admin, page, token, late>>

\* deleteOwnedFiles lists from the start every time.
ListOwned(r) ==
    /\ request[r].pc = "list"
    /\ LET owned == Owned(request[r].target) IN
       IF owned = {} THEN Become(r, "remove")
       ELSE \E batch \in SUBSET owned :
              /\ Cardinality(batch) <= BatchSize
              /\ Cardinality(batch) < BatchSize => batch = owned
              /\ To(r, [request[r] EXCEPT !.pc = "delete", !.batch = batch])
    /\ UNCHANGED <<account, admin, page, token, late>>

\* Slip: one listing is taken for all there is.
OneRound(rest) == IF rest = {} THEN "remove" ELSE "delete"

NextRound(rest) == IF rest = {} THEN "list" ELSE "delete"

\* One page, one transaction; its owner may have deleted it since the listing.
DeleteOwned(r) ==
    /\ request[r].pc = "delete"
    /\ \E p \in request[r].batch :
          LET rest == request[r].batch \ {p} IN
          /\ page' = [page EXCEPT ![p].state = "deleted"]
          /\ To(r, [request[r] EXCEPT !.batch = rest, !.pc = NextRound(rest)])
    /\ UNCHANGED <<account, admin, token, late>>

\* A hard delete, whatever became of the token.
DeleteByUser(u) ==
    token' = [t \in Tokens |-> IF token[t].owner = u
                                 THEN [token[t] EXCEPT !.state = "removed"] ELSE token[t]]

\* Tokens, identities and the account row, in one transaction.
RemoveAccount(r) ==
    /\ request[r].pc = "remove"
    /\ LET u == request[r].target IN
       /\ account' = [account EXCEPT ![u] = "gone"]
       /\ admin' = admin \ {u}
       /\ DeleteByUser(u)
    /\ Done(r)
    /\ UNCHANGED <<page, late>>

\* A statement of the deletion fails: what is deleted stays deleted.
DeletionFails(r) ==
    /\ request[r].pc \in {"list", "delete", "remove"}
    /\ Done(r)
    /\ UNCHANGED <<account, admin, page, token, late>>

\* set-admin, on the server's command line.
SetAdminByHand ==
    /\ \E u \in Users :
          /\ Exists(u)
          /\ \/ admin' = admin \cup {u}
             \/ admin' = admin \ {u}
    /\ UNCHANGED <<account, page, token, request, late>>

-----------------------------------------------------------------------------
Init ==
    /\ account = [u \in Users |-> "active"]
    /\ admin \in SUBSET Users
    /\ page = [p \in Pages |-> NoRow]
    /\ token = [t \in Tokens |-> NoRow]
    /\ request = [r \in Requests |-> Idle]
    /\ late = {}

Handler(r) ==
    \/ PresentSession(r) \/ PresentToken(r) \/ CheckAccount(r)
    \/ Publish(r) \/ DeletePage(r)
    \/ CreateToken(r) \/ RevokeToken(r) \/ DeleteRevokedToken(r)
    \/ RequireAdmin(r) \/ AdminPatchUser(r) \/ DeleteUser(r)
    \/ ListOwned(r) \/ DeleteOwned(r) \/ RemoveAccount(r) \/ DeletionFails(r)

Next ==
    \/ \E r \in Requests : Handler(r)
    \/ ExchangeDeviceCode \/ TokenExpires \/ SetAdminByHand

Spec == Init /\ [][Next]_vars

-----------------------------------------------------------------------------
\* The type invariant: every variable keeps to its domain, and no handler to
\* what it does not hold.
TypeOK ==
    /\ account \in [Users -> {"active", "disabled", "gone"}]
    /\ admin \subseteq Users
    /\ page \in [Pages -> PageRows]
    /\ token \in [Tokens -> TokenRows]
    /\ request \in [Requests -> RequestStates]
    /\ \A r \in Requests : request[r].pc = "delete" <=> request[r].batch # {}
    /\ late \subseteq Pages \cup Tokens

\* Deleting an account leaves nothing of it, whatever its owner does meanwhile:
\* a page or token of a deleted account was added after the deletion's last look.
OrphansAreLate ==
    /\ \A u \in Users : ~ Exists(u) => Owned(u) \subseteq late
    /\ \A t \in Tokens :
          /\ token[t].state \notin {"none", "removed"} /\ ~ Exists(token[t].owner)
          => t \in late

\* The last active administrator falls only to a request of an administrator who
\* is none any more, or to the command line: without a race between two
\* administrators there is always one left.
LastAdminFallsToARace ==
    [][/\ ActiveAdmins # {} /\ ActiveAdmins' = {}
       /\ request' # request
       => \E r \in Requests : /\ request'[r] # request[r]
                              /\ request[r].actor \notin ActiveAdmins]_vars

\* An account that is disabled or deleted does nothing more than what was under
\* way: once no request acts for it, none does until it is enabled again.
OutOfActionAtOnce ==
    [][\A u \in Users :
         /\ ~ Active(u)
         /\ \A r \in Requests : request[r].actor = u => request[r].pc \in {"idle", "status"}
         => \A r \in Requests : request'[r].actor = u => request'[r].pc \in {"idle", "status"}]_vars

=============================================================================
