----------------------------- MODULE PageAccess -----------------------------
(***************************************************************************)
(* Who may read a page.  A page is private or open to its link, and a link *)
(* may be guarded by a share code.  A visitor who types the code gets a    *)
(* ticket, a MAC over the page, the version of the code and an expiry;     *)
(* generating or clearing a code moves the version on.  Wrong codes spend  *)
(* a budget per page and address.                                          *)
(*                                                                         *)
(* One page, one address that many visitors share, its owner's requests.   *)
(* A statement on the database or on a counter is one action.              *)
(***************************************************************************)
EXTENDS RateLimit, FiniteSets

CONSTANTS
    Codes, NoCode,
    Requests,               \* unlock handlers in flight at once
    Secrets,                \* values server.secret_key takes, in turn
    TicketTTL,              \* shareTicketTTL
    Lifetimes,              \* expiries a page may be published with
    MaxVersion,             \* bound: the owner stops changing the code
    GuessCap,               \* bound: wrong codes are told apart up to here
    ShareCodeFailPerMinute

ASSUME CodesAssumption == NoCode \notin Codes
ASSUME SecretsAssumption == Secrets \in Nat \ {0}
ASSUME TicketAssumption == TicketTTL \in Nat \ {0} /\ Lifetimes \subseteq Nat /\ MaxVersion \in Nat \ {0}
ASSUME LimitAssumption ==
    ShareCodeFailPerMinute \in Nat /\ GuessCap \in Nat /\ CountCap > ShareCodeFailPerMinute
ASSUME ProcessesAssumption == IsFiniteSet(Replicas) /\ IsFiniteSet(Requests)

VARIABLES
    page,           \* the row of the file table
    secret,         \* which secret key the instance runs with
    tickets,        \* unlock cookies handed out
    request,        \* the unlock handlers
    guesses,        \* codes that were compared and wrong in this window
    unseen          \* those let through by the local count, then counted by the shared

guessVars == <<guesses, unseen>>

vars == <<page, secret, tickets, request, guessVars, rateVars>>

-----------------------------------------------------------------------------
Versions == 0 .. MaxVersion

\* No ticket outlives the page.
Expiries == {t \in 0 .. MaxTime + TicketTTL : \E e \in Lifetimes : t <= e}

\* code is what the owner was shown; sealedBy the key it is encrypted under.
Pages == [state : {"none", "live", "deleted"}, visibility : {"link", "private"},
          code : Codes \cup {NoCode}, version : Versions, sealedBy : 1 .. Secrets,
          expires : Lifetimes \cup {0}]

NoPage == [state |-> "none", visibility |-> "link", code |-> NoCode, version |-> 0,
           sealedBy |-> 1, expires |-> 0]

\* typed is no part of the cookie: the code its holder typed.
Tickets == [version : Versions, expires : Expiries, key : 1 .. Secrets, typed : Codes]

(***************************************************************************)
(* pc        budget     the row is loaded                                  *)
(*           ask        the process's own count leaves room                *)
(*           guess      the budget leaves room                             *)
(*           hit        a wrong code, to be counted                        *)
(*           hitLocal   the shared counter did not answer                  *)
(* blind     the local count alone let it through                          *)
(***************************************************************************)
RequestStates ==
    [pc : {"idle", "budget", "ask", "guess", "hit", "hitLocal"}, replica : Replicas,
     code : Codes \cup {NoCode}, version : Versions, expires : Lifetimes \cup {0},
     bucket : Buckets, blind : BOOLEAN]

IdleAt(p) == [pc |-> "idle", replica |-> p, code |-> NoCode, version |-> 0,
              expires |-> 0, bucket |-> 0, blind |-> FALSE]

To(r, q) == request' = [request EXCEPT ![r] = q]
Done(r) == To(r, IdleAt(request[r].replica))
Become(r, pc) == To(r, [request[r] EXCEPT !.pc = pc])

\* Bookkeeping: nothing is claimed of a window whose counts were dropped.
Tally(g, u) ==
    IF forgotten' THEN guesses' = 0 /\ unseen' = 0 ELSE guesses' = g /\ unseen' = u

-----------------------------------------------------------------------------
(* The gates *)

\* GetActiveByNanoID.
Served == page.state = "live" /\ page.expires >= now

\* authz.View of somebody who is not the owner.
MayView == page.visibility = "link"

\* Only the key a code was sealed under opens it (Seal, Open).
Seal(row, code) == [row EXCEPT !.code = code, !.sealedBy = secret]

Decrypts == page.sealedBy = secret

\* activeShareCode: a code that does not decrypt reads as none.
Code == IF Decrypts THEN page.code ELSE NoCode

ValidTicket(t) == t.key = secret /\ t.version = page.version /\ now < t.expires

\* shareCodeLocked, for a visitor whose cookie holds the tickets of held.
Locked(held) == Code # NoCode /\ \A t \in held : ~ ValidTicket(t)

\* What a visitor is answered: the shell of a page, and its metadata or content.
Answered(held, open, locked) ==
    IF ~ (Served /\ MayView) THEN "missing" ELSE IF Locked(held) THEN locked ELSE open

ViewShell(held) == Answered(held, "viewer", "prompt")

Meta(held) == Answered(held, "content", "share_code_required")

-----------------------------------------------------------------------------
(* The owner *)

\* mintShareCode: a page and its first code are one row.
Publish ==
    /\ page.state = "none"
    /\ \E code \in Codes \cup {NoCode}, v \in {"link", "private"}, e \in Lifetimes :
          page' = Seal([NoPage EXCEPT !.state = "live", !.visibility = v, !.expires = e,
                                      !.version = IF code = NoCode THEN 0 ELSE 1], code)
    /\ UNCHANGED <<secret, tickets, request, guessVars, rateVars>>

\* Slip: a page without a code starts over.
VersionAfterReset(code) == IF code = NoCode THEN 0 ELSE page.version + 1

VersionAfter(code) == page.version + 1

SetShareCode(code) ==
    /\ page.state = "live"
    /\ page.version < MaxVersion
    /\ page' = Seal([page EXCEPT !.version = VersionAfter(code)], code)

\* Generating draws any code, the one there was included.
GenerateShareCode ==
    /\ \E code \in Codes : SetShareCode(code)
    /\ UNCHANGED <<secret, tickets, request, guessVars, rateVars>>

ClearShareCode ==
    /\ SetShareCode(NoCode)
    /\ UNCHANGED <<secret, tickets, request, guessVars, rateVars>>

\* PatchFile; the version pin is in module PageStore.
SetVisibility ==
    /\ page.state = "live"
    /\ \E v \in {"link", "private"} : page' = [page EXCEPT !.visibility = v]
    /\ UNCHANGED <<secret, tickets, request, guessVars, rateVars>>

DeletePage ==
    /\ page.state = "live"
    /\ page' = [page EXCEPT !.state = "deleted"]
    /\ UNCHANGED <<secret, tickets, request, guessVars, rateVars>>

\* The operator restarts the instance with another key: handlers end with it.
RotateSecret ==
    /\ secret < Secrets
    /\ secret' = secret + 1
    /\ request' = [r \in Requests |-> IdleAt(request[r].replica)]
    /\ CountersRestart
    /\ Tally(guesses, unseen)
    /\ UNCHANGED <<page, tickets>>

-----------------------------------------------------------------------------
(* Unlock *)

\* A page that cannot be viewed, or has no code, is 404.
Load(r) ==
    /\ request[r].pc = "idle"
    /\ Served /\ MayView /\ Code # NoCode
    /\ \E p \in Replicas :
          To(r, [pc |-> "budget", replica |-> p, code |-> Code, version |-> page.version,
                 expires |-> page.expires, bucket |-> 0, blind |-> FALSE])
    /\ UNCHANGED <<page, secret, tickets, guessVars, rateVars>>

Over(count) == count > ShareCodeFailPerMinute

\* Slip: the local count has a say when the shared one does not answer.
PeekLocalInOutage(r) ==
    /\ request[r].pc = "budget"
    /\ Become(r, "ask")
    /\ UNCHANGED <<page, secret, tickets, guessVars, rateVars>>

\* Exceeded: both counts have a say, the local one first.
PeekLocal(r) ==
    /\ request[r].pc = "budget"
    /\ IF Over(LocalPeek(request[r].replica)) THEN Done(r) ELSE Become(r, "ask")
    /\ UNCHANGED <<page, secret, tickets, guessVars, rateVars>>

AskShared(r) ==
    /\ request[r].pc = "ask"
    /\ \/ IF Over(shared) THEN Done(r) ELSE Become(r, "guess")
       \/ To(r, [request[r] EXCEPT !.pc = "guess", !.blind = TRUE])
    /\ UNCHANGED <<page, secret, tickets, guessVars, rateVars>>

\* Wrong, or malformed.
GuessWrong(r) ==
    /\ request[r].pc = "guess"
    /\ Become(r, "hit")
    /\ UNCHANGED <<page, secret, tickets, rateVars>>
    /\ Tally(Plus(guesses, GuessCap), unseen)

\* ticketExpiry.
Earliest(a, b) == IF a < b THEN a ELSE b

\* Slip: the ticket is for the code the page has by now.
CurrentVersion(r) == page.version

TicketVersion(r) == request[r].version

GuessRight(r) ==
    /\ request[r].pc = "guess"
    /\ tickets' = tickets \cup
         {[version |-> TicketVersion(r), key |-> secret, typed |-> request[r].code,
           expires |-> Earliest(now + TicketTTL, request[r].expires)]}
    /\ Done(r)
    /\ UNCHANGED <<page, secret, guessVars, rateVars>>

\* The window is read once, for both counters.
Hit(r) ==
    /\ request[r].pc = "hit"
    /\ \/ /\ SharedIncr /\ Done(r)
          /\ Tally(guesses, IF request[r].blind THEN Plus(unseen, GuessCap) ELSE unseen)
       \/ /\ SharedLost
          /\ To(r, [request[r] EXCEPT !.pc = "hitLocal", !.bucket = Bucket])
          /\ Tally(guesses, unseen)
    /\ UNCHANGED <<page, secret, tickets>>

HitLocally(r) ==
    /\ request[r].pc = "hitLocal"
    /\ LocalIncr(request[r].replica, request[r].bucket)
    /\ Tally(guesses, unseen)
    /\ Done(r)
    /\ UNCHANGED <<page, secret, tickets>>

-----------------------------------------------------------------------------
Tick ==
    /\ RateTick
    /\ IF NewWindow THEN guesses' = 0 /\ unseen' = 0 ELSE UNCHANGED guessVars
    /\ UNCHANGED <<page, secret, tickets, request>>

Crowd ==
    /\ MapOverflows
    /\ Tally(guesses, unseen)
    /\ UNCHANGED <<page, secret, tickets, request>>

Init ==
    /\ page = NoPage
    /\ secret = 1
    /\ tickets = {}
    /\ request \in [Requests -> {IdleAt(p) : p \in Replicas}]
    /\ guesses = 0 /\ unseen = 0
    /\ RateInit

Unlock(r) ==
    \/ Load(r) \/ PeekLocal(r) \/ AskShared(r) \/ GuessWrong(r) \/ GuessRight(r)
    \/ Hit(r) \/ HitLocally(r)

Owner ==
    \/ Publish \/ GenerateShareCode \/ ClearShareCode \/ SetVisibility \/ DeletePage

Next == Owner \/ RotateSecret \/ Tick \/ Crowd \/ \E r \in Requests : Unlock(r)

Spec == Init /\ [][Next]_vars

-----------------------------------------------------------------------------
\* The type invariant: every variable keeps to its domain.
TypeOK ==
    /\ page \in Pages
    /\ secret \in 1 .. Secrets
    /\ tickets \subseteq Tickets
    /\ request \in [Requests -> RequestStates]
    /\ guesses \in 0 .. GuessCap /\ unseen \in 0 .. GuessCap
    /\ RateTypeOK

\* A guarded page shows its viewer and gives its content only to who typed the
\* code it has now, however changes of the code, of the key and unlocks under way
\* overlap; whoever came without a ticket is prompted, and the shell never shows
\* the viewer where the content is then refused (ViewShell, Meta, Render).
OnlyTheCodeOpens ==
    Code # NoCode =>
      \A held \in {{}} \cup {{t} : t \in tickets} :
         /\ ViewShell(held) = "viewer" <=> Meta(held) = "content"
         /\ Meta(held) = "content" => \E t \in held : t.typed = page.code

\* A ticket that was revoked, by another code or by none, never opens the page
\* again, whatever codes it has later (SetShareCode).
RevokedForGood ==
    [][\A t \in tickets : ~ ValidTicket(t) => ~ ValidTicket(t)']_vars

\* The wrong codes that are compared in a window go over the budget by no more
\* than the attempts under way, for every counter there is to count them: the
\* shared one, and each process's own once an increment goes unanswered, however
\* often the shared counter comes and goes.  Beyond that go only those the local
\* count let through and the shared counter then took (IPLimiter.Exceeded).
GuessesBounded ==
    LET counters == IF outage THEN 1 + Cardinality(Replicas) ELSE 1
        blind == {r \in Requests : request[r].blind} IN
    \/ forgotten
    \/ guesses <= counters * (ShareCodeFailPerMinute + Cardinality(Requests))
                   + unseen + Cardinality(blind)

=============================================================================
