--------------------------- MODULE PageAccessProofs ---------------------------
(***************************************************************************)
(* Proofs about PageAccess: for any number of codes, handlers, processes,  *)
(* secret keys and lifetimes, any budget and any length of its window.     *)
(***************************************************************************)
EXTENDS PageAccess, FiniteSetTheorems, Integers, TLAPS

-----------------------------------------------------------------------------
(* The clock and its windows *)

\* The window of a time is a time; it moves on exactly when NewWindow says.
LEMMA Windows ==
    ASSUME NEW n \in Nat
    PROVE  /\ n \div Window \in 0 .. n
           /\ (n + 1) % Window # 0 => (n + 1) \div Window = n \div Window
           /\ (n + 1) % Window = 0 => (n + 1) \div Window > n \div Window
<1>1. Window \in Nat \ {0}
  BY WindowAssumption
<1>2. n \div Window \in 0 .. n
  BY <1>1
<1>3. (n + 1) % Window # 0 => (n + 1) \div Window = n \div Window
  BY <1>1
<1>4. (n + 1) % Window = 0 => (n + 1) \div Window > n \div Window
  BY <1>1
<1> QED BY <1>2, <1>3, <1>4

\* A count is raised within its cap.
LEMMA PlusBounded ==
    ASSUME NEW cap \in Nat, NEW n \in 0 .. cap
    PROVE  Plus(n, cap) \in 0 .. cap
BY DEF Plus

-----------------------------------------------------------------------------
(* The inductive invariant of codes and tickets *)

\* A code is one version's: a handler or a ticket with the page's version has
\* the page's code.
SameCode(version, code) ==
    /\ page.state # "none"
    /\ version <= page.version
    /\ version = page.version => code = page.code

\* A page has an expiry once it is published.
PageDated == page.state # "none" => page.expires \in Lifetimes

RequestsHold ==
    \A r \in Requests : request[r].pc # "idle" =>
        /\ request[r].code \in Codes /\ request[r].expires \in Lifetimes
        /\ SameCode(request[r].version, request[r].code)

TicketsHold ==
    \A t \in tickets : t.key <= secret /\ SameCode(t.version, t.typed)

CodeInv == TypeOK /\ PageDated /\ RequestsHold /\ TicketsHold

-----------------------------------------------------------------------------
(* What the actions do to the counters *)

\* The counters and the clock keep to their domains.
LEMMA CountersTyped ==
    ASSUME RateTypeOK, RateTick \/ MapOverflows \/ CountersRestart \/ SharedIncr \/ SharedLost
                       \/ UNCHANGED rateVars
    PROVE  RateTypeOK'
<1> USE WindowAssumption DEF RateTypeOK, Counts, Buckets
<1>1. CASE RateTick
  <2>1. now' \in 0 .. MaxTime /\ local' = local
    BY <1>1 DEF RateTick
  <2>2. CASE NewWindow
    <3>1. shared' = 0 /\ outage' = FALSE /\ forgotten' = FALSE
      BY <1>1, <2>2 DEF RateTick
    <3>2. outage' \in BOOLEAN /\ forgotten' \in BOOLEAN
      BY <3>1, Zenon
    <3> QED BY <2>1, <3>1, <3>2
  <2>3. CASE ~ NewWindow
    BY <1>1, <2>1, <2>3 DEF RateTick
  <2> QED BY <2>2, <2>3
<1>2. CASE MapOverflows
  <2>1. CASE UNCHANGED shared
    BY <1>2, <2>1 DEF MapOverflows
  <2> QED BY <1>2, <2>1 DEF MapOverflows
<1>3. CASE CountersRestart
  BY <1>3 DEF CountersRestart
<1>4. CASE SharedIncr
  BY <1>4, PlusBounded DEF SharedIncr
<1>5. CASE SharedLost
  BY <1>5, PlusBounded DEF SharedLost
<1> QED BY <1>1, <1>2, <1>3, <1>4, <1>5 DEF rateVars

\* So does a local count.
LEMMA LocalTyped ==
    ASSUME RateTypeOK, NEW p \in Replicas, NEW b \in Buckets, LocalIncr(p, b),
           CountCap > 0
    PROVE  RateTypeOK'
<1> USE WindowAssumption DEF RateTypeOK, Counts, Buckets
<1>1. (IF local[p].bucket = b THEN Plus(local[p].count, CountCap) ELSE 1) \in Counts
  BY PlusBounded
<1>2. local' \in [Replicas -> [bucket : Buckets, count : Counts]]
  BY <1>1 DEF LocalIncr
<1> QED BY <1>2 DEF LocalIncr

\* What the bookkeeping of guesses keeps to.
LEMMA TallyTyped ==
    ASSUME NEW g \in 0 .. GuessCap, NEW u \in 0 .. GuessCap, Tally(g, u)
    PROVE  guesses' \in 0 .. GuessCap /\ unseen' \in 0 .. GuessCap
BY LimitAssumption DEF Tally

-----------------------------------------------------------------------------
(* Types *)

\* A handler that moves on, or ends, keeps to its states.
LEMMA RequestTyped ==
    ASSUME TypeOK, NEW r \in Requests, NEW q \in RequestStates, To(r, q)
    PROVE  request' \in [Requests -> RequestStates]
BY DEF TypeOK, To

LEMMA MovesTyped ==
    ASSUME TypeOK, NEW r \in Requests
    PROVE  /\ IdleAt(request[r].replica) \in RequestStates
           /\ \A pc \in {"ask", "guess", "hit", "hitLocal"} :
                [request[r] EXCEPT !.pc = pc] \in RequestStates
           /\ [request[r] EXCEPT !.pc = "guess", !.blind = TRUE] \in RequestStates
           /\ [request[r] EXCEPT !.pc = "hitLocal", !.bucket = Bucket] \in RequestStates
<1>1. request[r] \in RequestStates /\ Bucket \in Buckets
  <2>1. now \in 0 .. MaxTime /\ now \in Nat
    BY WindowAssumption DEF TypeOK, RateTypeOK
  <2>2. now \div Window \in 0 .. now
    BY <2>1, Windows
  <2> QED BY <2>1, <2>2, WindowAssumption DEF TypeOK, Bucket, Buckets
<1>2. 0 \in Buckets /\ 0 \in Versions
  BY WindowAssumption, TicketAssumption DEF Buckets, Versions
<1> QED BY <1>1, <1>2 DEF RequestStates, IdleAt

\* The owner's requests keep the page a row of the table.
LEMMA PageTyped ==
    ASSUME TypeOK, Owner
    PROVE  page' \in Pages
<1> USE SecretsAssumption, TicketAssumption DEF TypeOK, Pages, Versions
<1>0. ASSUME NEW row \in Pages, NEW code \in Codes \cup {NoCode} PROVE Seal(row, code) \in Pages
  BY DEF Seal
<1>1. CASE Publish
  <2>1. PICK code \in Codes \cup {NoCode}, v \in {"link", "private"}, e \in Lifetimes :
            page' = Seal([NoPage EXCEPT !.state = "live", !.visibility = v, !.expires = e,
                                        !.version = IF code = NoCode THEN 0 ELSE 1], code)
    BY <1>1 DEF Publish
  <2>2. (IF code = NoCode THEN 0 ELSE 1) \in 0 .. MaxVersion /\ 1 \in 1 .. Secrets
    OBVIOUS
  <2>3. [NoPage EXCEPT !.state = "live", !.visibility = v, !.expires = e,
                       !.version = IF code = NoCode THEN 0 ELSE 1] \in Pages
    BY <2>2 DEF NoPage
  <2> QED BY <2>1, <2>3, <1>0
<1>2. ASSUME NEW code \in Codes \cup {NoCode}, SetShareCode(code) PROVE page' \in Pages
  <2>1. [page EXCEPT !.version = VersionAfter(code)] \in Pages
    BY <1>2 DEF SetShareCode, VersionAfter
  <2> QED BY <1>2, <2>1, <1>0 DEF SetShareCode
<1>3. CASE GenerateShareCode
  BY <1>2, <1>3 DEF GenerateShareCode
<1>4. CASE ClearShareCode
  BY <1>2, <1>4 DEF ClearShareCode
<1>5. CASE SetVisibility
  BY <1>5 DEF SetVisibility
<1>6. CASE DeletePage
  BY <1>6 DEF DeletePage
<1> QED BY <1>1, <1>3, <1>4, <1>5, <1>6 DEF Owner

\* Every step keeps the types; a ticket expires no later than the page did when
\* its handler read it.
LEMMA TypeStep == CodeInv /\ [Next]_vars => TypeOK'
<1> SUFFICES ASSUME CodeInv, [Next]_vars PROVE TypeOK'
  OBVIOUS
<1>0. TypeOK /\ RateTypeOK
  BY DEF CodeInv, TypeOK
<1> DEFINE RequestTypeOK == request \in [Requests -> RequestStates]
           GuessTypeOK == guesses \in 0 .. GuessCap /\ unseen \in 0 .. GuessCap
           TicketTypeOK == tickets \subseteq Tickets
           PageTypeOK == page \in Pages /\ secret \in 1 .. Secrets
<1>q. PageTypeOK' /\ TicketTypeOK' /\ RequestTypeOK' /\ GuessTypeOK' /\ RateTypeOK' => TypeOK'
  BY DEF TypeOK
<1>k. PageTypeOK /\ TicketTypeOK /\ RequestTypeOK /\ GuessTypeOK
  BY <1>0 DEF TypeOK
<1>r. UNCHANGED rateVars => RateTypeOK'
  BY <1>0, CountersTyped
<1>g. UNCHANGED guessVars => GuessTypeOK'
  BY <1>k DEF guessVars
<1> HIDE DEF RequestTypeOK, GuessTypeOK, TicketTypeOK, PageTypeOK
<1>u. UNCHANGED page /\ UNCHANGED secret => PageTypeOK'
  BY <1>k DEF PageTypeOK
<1>v. UNCHANGED tickets => TicketTypeOK'
  BY <1>k DEF TicketTypeOK
<1>w. UNCHANGED request => RequestTypeOK'
  BY <1>k DEF RequestTypeOK
<1>t. ASSUME NEW r \in Requests, NEW q \in RequestStates, To(r, q) PROVE RequestTypeOK'
  BY <1>0, <1>t, RequestTyped DEF RequestTypeOK
<1>1. CASE Owner
  <2>1. page' \in Pages /\ UNCHANGED <<secret, tickets, request, guessVars, rateVars>>
    BY <1>0, <1>1, PageTyped DEF Owner, Publish, GenerateShareCode, ClearShareCode, SetVisibility, DeletePage
  <2>2. PageTypeOK'
    BY <2>1, <1>k DEF PageTypeOK
  <2> QED BY <2>1, <2>2, <1>v, <1>w, <1>g, <1>r, <1>q
<1>2. CASE RotateSecret
  <2>1. PageTypeOK'
    BY <1>2, <1>k, SecretsAssumption DEF RotateSecret, PageTypeOK
  <2>2. \A r \in Requests : IdleAt(request[r].replica) \in RequestStates
    BY <1>0, MovesTyped
  <2>3. RequestTypeOK'
    BY <1>2, <2>2 DEF RotateSecret, RequestTypeOK
  <2>4. GuessTypeOK'
    BY <1>2, <1>k, TallyTyped DEF RotateSecret, GuessTypeOK
  <2>5. RateTypeOK' /\ UNCHANGED tickets
    BY <1>0, <1>2, CountersTyped DEF RotateSecret
  <2> QED BY <2>1, <2>3, <2>4, <2>5, <1>v, <1>q
<1>3. CASE Tick
  <2>1. GuessTypeOK'
    BY <1>3, <1>k, LimitAssumption DEF Tick, GuessTypeOK, guessVars
  <2>2. RateTypeOK' /\ UNCHANGED <<page, secret, tickets, request>>
    BY <1>0, <1>3, CountersTyped DEF Tick
  <2> QED BY <2>1, <2>2, <1>u, <1>v, <1>w, <1>q
<1>4. CASE Crowd
  <2>1. GuessTypeOK'
    BY <1>4, <1>k, TallyTyped DEF Crowd, GuessTypeOK
  <2>2. RateTypeOK' /\ UNCHANGED <<page, secret, tickets, request>>
    BY <1>0, <1>4, CountersTyped DEF Crowd
  <2> QED BY <2>1, <2>2, <1>u, <1>v, <1>w, <1>q
<1>5. ASSUME NEW r \in Requests, Load(r) PROVE TypeOK'
  <2>1. PICK p \in Replicas :
          To(r, [pc |-> "budget", replica |-> p, code |-> Code, version |-> page.version,
                 expires |-> page.expires, bucket |-> 0, blind |-> FALSE])
    BY <1>5 DEF Load
  <2>2. [pc |-> "budget", replica |-> p, code |-> Code, version |-> page.version,
         expires |-> page.expires, bucket |-> 0, blind |-> FALSE] \in RequestStates
    <3>1. Code \in Codes \cup {NoCode} /\ page.version \in Versions
             /\ page.expires \in Lifetimes \cup {0} /\ 0 \in Buckets
      BY <1>0, WindowAssumption DEF TypeOK, Pages, Code, Buckets
    <3> QED BY <3>1 DEF RequestStates
  <2>3. RequestTypeOK'
    BY <2>1, <2>2, <1>t
  <2> QED BY <1>5, <2>3, <1>u, <1>v, <1>g, <1>r, <1>q DEF Load
<1>6. ASSUME NEW r \in Requests, PeekLocal(r) PROVE TypeOK'
  <2>1. RequestTypeOK'
    BY <1>6, <1>0, <1>t, MovesTyped DEF PeekLocal, Done, Become
  <2> QED BY <1>6, <2>1, <1>u, <1>v, <1>g, <1>r, <1>q DEF PeekLocal
<1>7. ASSUME NEW r \in Requests, AskShared(r) PROVE TypeOK'
  <2>1. RequestTypeOK'
    BY <1>7, <1>0, <1>t, MovesTyped DEF AskShared, Done, Become
  <2> QED BY <1>7, <2>1, <1>u, <1>v, <1>g, <1>r, <1>q DEF AskShared
<1>8. ASSUME NEW r \in Requests, GuessWrong(r) PROVE TypeOK'
  <2>1. RequestTypeOK'
    BY <1>8, <1>0, <1>t, MovesTyped DEF GuessWrong, Become
  <2>2. GuessTypeOK'
    BY <1>8, <1>k, TallyTyped, PlusBounded, LimitAssumption DEF GuessWrong, GuessTypeOK
  <2> QED BY <1>8, <2>1, <2>2, <1>u, <1>v, <1>r, <1>q DEF GuessWrong
<1>9. ASSUME NEW r \in Requests, GuessRight(r) PROVE TypeOK'
  <2>1. RequestTypeOK'
    BY <1>9, <1>0, <1>t, MovesTyped DEF GuessRight, Done
  <2>2. [version |-> TicketVersion(r), key |-> secret, typed |-> request[r].code,
         expires |-> Earliest(now + TicketTTL, request[r].expires)] \in Tickets
    <3>1. request[r].code \in Codes /\ request[r].expires \in Lifetimes
      BY <1>9 DEF CodeInv, RequestsHold, GuessRight
    <3>2. now + TicketTTL \in 0 .. MaxTime + TicketTTL /\ request[r].expires \in Nat
      <4>1. now \in 0 .. MaxTime /\ MaxTime \in Nat /\ TicketTTL \in Nat
        BY <1>0, WindowAssumption, TicketAssumption DEF RateTypeOK
      <4>2. now + TicketTTL \in 0 .. MaxTime + TicketTTL
        BY <4>1
      <4>3. request[r].expires \in Nat
        BY <3>1, TicketAssumption
      <4> QED BY <4>2, <4>3
    <3>3. Earliest(now + TicketTTL, request[r].expires) \in Expiries
      BY <3>1, <3>2, WindowAssumption, TicketAssumption DEF Earliest, Expiries
    <3>4. TicketVersion(r) \in Versions /\ secret \in 1 .. Secrets
      BY <1>0 DEF TypeOK, RequestStates, TicketVersion
    <3> QED BY <3>1, <3>3, <3>4 DEF Tickets
  <2>3. TicketTypeOK'
    BY <1>9, <2>2, <1>k DEF GuessRight, TicketTypeOK
  <2> QED BY <1>9, <2>1, <2>3, <1>u, <1>g, <1>r, <1>q DEF GuessRight
<1>10. ASSUME NEW r \in Requests, Hit(r) PROVE TypeOK'
  <2>1. RequestTypeOK' /\ RateTypeOK'
    BY <1>10, <1>0, <1>t, MovesTyped, CountersTyped DEF Hit, Done
  <2>2. (IF request[r].blind THEN Plus(unseen, GuessCap) ELSE unseen) \in 0 .. GuessCap
    BY <1>k, PlusBounded, LimitAssumption DEF GuessTypeOK
  <2>3. GuessTypeOK'
    BY <1>10, <2>2, <1>k, TallyTyped DEF Hit, GuessTypeOK
  <2> QED BY <1>10, <2>1, <2>3, <1>u, <1>v, <1>q DEF Hit
<1>11. ASSUME NEW r \in Requests, HitLocally(r) PROVE TypeOK'
  <2>1. request[r].replica \in Replicas /\ request[r].bucket \in Buckets
    BY <1>0 DEF TypeOK, RequestStates
  <2>2. RequestTypeOK'
    BY <1>11, <1>0, <1>t, MovesTyped DEF HitLocally, Done
  <2>4. CountCap > 0
    BY LimitAssumption, WindowAssumption
  <2>5. RateTypeOK'
    BY <1>11, <1>0, <2>1, <2>4, LocalTyped DEF HitLocally
  <2>3. GuessTypeOK'
    BY <1>11, <1>k, TallyTyped DEF HitLocally, GuessTypeOK
  <2> QED BY <1>11, <2>2, <2>3, <2>5, <1>u, <1>v, <1>q DEF HitLocally
<1>12. CASE UNCHANGED vars
  BY <1>12, <1>u, <1>v, <1>w, <1>g, <1>r, <1>q DEF vars
<1> QED BY <1>1, <1>2, <1>3, <1>4, <1>5, <1>6, <1>7, <1>8, <1>9, <1>10, <1>11, <1>12 DEF Next, Unlock

-----------------------------------------------------------------------------
(* Codes and tickets *)

\* Keys, versions and the clock only move forward, and a version keeps its code.
Forward ==
    /\ secret' >= secret /\ now' >= now
    /\ page.state # "none" =>
         /\ page'.state # "none" /\ page'.expires = page.expires
         /\ page'.version >= page.version
         /\ page'.version = page.version => page'.code = page.code

LEMMA StepsForward == CodeInv /\ [Next]_vars => Forward
<1> SUFFICES ASSUME CodeInv, [Next]_vars PROVE Forward
  OBVIOUS
<1>0. /\ page \in Pages /\ secret \in Nat /\ now \in Nat
      /\ page.version \in Nat
  BY SecretsAssumption, TicketAssumption, WindowAssumption
     DEF CodeInv, TypeOK, Pages, Versions, RateTypeOK
<1> USE DEF Forward
<1>1. CASE Owner
  <2>1. secret' = secret /\ now' = now
    BY <1>1 DEF Owner, Publish, GenerateShareCode, ClearShareCode, SetVisibility, DeletePage,
                rateVars
  <2>2. CASE Publish
    BY <1>0, <2>1, <2>2 DEF Publish
  <2>3. ASSUME NEW code \in Codes \cup {NoCode}, SetShareCode(code) PROVE Forward
    <3>1. page' = [page EXCEPT !.version = page.version + 1, !.code = code, !.sealedBy = secret]
      BY <2>3, <1>0 DEF SetShareCode, Seal, VersionAfter, Pages
    <3>2. page'.version = page.version + 1 /\ page'.state = page.state
             /\ page'.expires = page.expires
      BY <1>0, <3>1 DEF Pages
    <3> QED BY <1>0, <2>1, <3>2
  <2>4. CASE GenerateShareCode \/ ClearShareCode
    BY <2>3, <2>4 DEF GenerateShareCode, ClearShareCode
  <2>5. CASE SetVisibility
    BY <1>0, <2>1, <2>5 DEF SetVisibility, Pages
  <2>6. CASE DeletePage
    BY <1>0, <2>1, <2>6 DEF DeletePage, Pages
  <2> QED BY <1>1, <2>2, <2>4, <2>5, <2>6 DEF Owner
<1>2. CASE RotateSecret
  BY <1>0, <1>2 DEF RotateSecret, CountersRestart
<1>3. CASE Tick
  BY <1>0, <1>3 DEF Tick, RateTick
<1>4. CASE Crowd
  BY <1>0, <1>4 DEF Crowd, MapOverflows
<1>5. ASSUME NEW r \in Requests, Unlock(r) PROVE Forward
  <2>1. page' = page /\ secret' = secret
    BY <1>5 DEF Unlock, Load, PeekLocal, AskShared, GuessWrong, GuessRight, Hit, HitLocally
  <2>2. now' = now
    BY <1>5 DEF Unlock, Load, PeekLocal, AskShared, GuessWrong, GuessRight, Hit, HitLocally,
                SharedIncr, SharedLost, LocalIncr, rateVars
  <2> QED BY <1>0, <2>1, <2>2
<1>6. CASE UNCHANGED vars
  BY <1>0, <1>6 DEF vars, rateVars
<1> QED BY <1>1, <1>2, <1>3, <1>4, <1>5, <1>6 DEF Next

\* So what a handler or a ticket holds stays true of it.
LEMMA SameCodeStays ==
    ASSUME CodeInv, [Next]_vars, NEW n \in Nat, NEW code, SameCode(n, code)
    PROVE  SameCode(n, code)'
<1>1. page.version \in Nat /\ page'.version \in Nat
  BY TypeStep, TicketAssumption DEF CodeInv, TypeOK, Pages, Versions
<1> QED BY <1>1, StepsForward DEF Forward, SameCode

\* A handler that moves on has what it had.
LEMMA FieldsKept ==
    ASSUME NEW q \in RequestStates, NEW s,
           \/ \E pc \in {"ask", "guess", "hit", "hitLocal"} : s = [q EXCEPT !.pc = pc]
           \/ s = [q EXCEPT !.pc = "guess", !.blind = TRUE]
           \/ s = [q EXCEPT !.pc = "hitLocal", !.bucket = Bucket]
    PROVE  /\ s.code = q.code /\ s.version = q.version /\ s.expires = q.expires
           /\ s.replica = q.replica
BY DEF RequestStates

\* A handler only ever has what it read of the page; one that ends has nothing.
LEMMA RequestStep ==
    CodeInv /\ [Next]_vars =>
      \A r \in Requests :
         \/ request'[r].pc = "idle"
         \/ /\ request[r].pc # "idle"
            /\ request'[r].code = request[r].code /\ request'[r].version = request[r].version
            /\ request'[r].expires = request[r].expires
         \/ /\ request'[r].code = Code /\ Code # NoCode /\ page.state # "none"
            /\ request'[r].version = page.version /\ request'[r].expires = page.expires
<1> SUFFICES ASSUME CodeInv, [Next]_vars, NEW r \in Requests
             PROVE  \/ request'[r].pc = "idle"
                    \/ /\ request[r].pc # "idle"
                       /\ request'[r].code = request[r].code
                       /\ request'[r].version = request[r].version
                       /\ request'[r].expires = request[r].expires
                    \/ /\ request'[r].code = Code /\ Code # NoCode /\ page.state # "none"
                       /\ request'[r].version = page.version /\ request'[r].expires = page.expires
  OBVIOUS
<1>0. request \in [Requests -> RequestStates]
  BY DEF CodeInv, TypeOK
<1>1. CASE request' = request
  BY <1>1
<1>2. CASE RotateSecret
  BY <1>0, <1>2 DEF RotateSecret, IdleAt
<1>3. ASSUME NEW q \in Requests, Unlock(q), request' # request
      PROVE  \/ request'[r].pc = "idle"
             \/ /\ request[r].pc # "idle"
                /\ request'[r].code = request[r].code
                /\ request'[r].version = request[r].version
                /\ request'[r].expires = request[r].expires
             \/ /\ request'[r].code = Code /\ Code # NoCode /\ page.state # "none"
                /\ request'[r].version = page.version /\ request'[r].expires = page.expires
  <2> USE <1>0, <1>3 DEF RequestStates, To
  <2>1. CASE r # q
    <3>1. request'[r] = request[r]
      BY <2>1 DEF Unlock, Load, PeekLocal, AskShared, GuessWrong, GuessRight, Hit, HitLocally,
                  Done, Become
    <3> QED BY <3>1
  <2>2. CASE r = q /\ Load(q)
    BY <2>2 DEF Load, Served
  <2>3. CASE r = q /\ PeekLocal(q)
    BY <2>3 DEF PeekLocal, Done, Become, IdleAt
  <2>4. CASE r = q /\ AskShared(q)
    <3>1. CASE request'[r] = IdleAt(request[r].replica)
      BY ONLY <3>1 DEF IdleAt
    <3>2. CASE \/ \E pc \in {"ask", "guess", "hit", "hitLocal"} : request'[r] = [request[r] EXCEPT !.pc = pc]
               \/ request'[r] = [request[r] EXCEPT !.pc = "guess", !.blind = TRUE]
      <4>1. request[r].pc # "idle" /\ request[r] \in RequestStates
        BY <2>4 DEF AskShared
      <4> QED BY ONLY <3>2, <4>1, FieldsKept
    <3> QED BY <2>4, <3>1, <3>2 DEF AskShared, Done, Become
  <2>5. CASE r = q /\ GuessWrong(q)
    BY <2>5 DEF GuessWrong, Become
  <2>6. CASE r = q /\ (GuessRight(q) \/ HitLocally(q))
    BY <2>6 DEF GuessRight, HitLocally, Done, IdleAt
  <2>7. CASE r = q /\ Hit(q)
    <3>1. CASE request'[r] = IdleAt(request[r].replica)
      BY ONLY <3>1 DEF IdleAt
    <3>2. CASE request'[r] = [request[r] EXCEPT !.pc = "hitLocal", !.bucket = Bucket]
      <4>1. request[r].pc # "idle" /\ request[r] \in RequestStates
        BY <2>7 DEF Hit
      <4> QED BY ONLY <3>2, <4>1, FieldsKept
    <3> QED BY <2>7, <3>1, <3>2 DEF Hit, Done
  <2> QED BY <2>1, <2>2, <2>3, <2>4, <2>5, <2>6, <2>7 DEF Unlock
<1> QED
  BY <1>1, <1>2, <1>3
     DEF Next, vars, Owner, Publish, GenerateShareCode, ClearShareCode, SetVisibility, DeletePage,
         Tick, Crowd

\* The invariant of codes and tickets is inductive.
LEMMA CodeStep == CodeInv /\ [Next]_vars => CodeInv'
<1> SUFFICES ASSUME CodeInv, [Next]_vars PROVE CodeInv'
  OBVIOUS
<1>1. TypeOK /\ TypeOK' /\ Forward
  BY TypeStep, StepsForward DEF CodeInv
<1>2. /\ page \in Pages /\ page.version \in Nat /\ secret \in Nat /\ secret' \in Nat
      /\ request \in [Requests -> RequestStates] /\ request' \in [Requests -> RequestStates]
      /\ tickets \subseteq Tickets
  BY <1>1, TicketAssumption, SecretsAssumption DEF TypeOK, Pages, Versions
<1>3. PageDated'
  <2>1. CASE Publish
    <3>1. PICK code \in Codes \cup {NoCode}, v \in {"link", "private"}, e \in Lifetimes :
            page' = Seal([NoPage EXCEPT !.state = "live", !.visibility = v, !.expires = e,
                                        !.version = IF code = NoCode THEN 0 ELSE 1], code)
      BY <2>1 DEF Publish
    <3>2. page'.expires = e
      BY <3>1 DEF Seal, NoPage
    <3> QED BY <3>2 DEF PageDated
  <2>2. CASE page.state = "none" /\ ~ Publish
    <3>1. page' = page
      BY <2>2 DEF Next, vars, Owner, GenerateShareCode, ClearShareCode, SetShareCode, SetVisibility,
                  DeletePage, RotateSecret, Tick, Crowd, Unlock, Load, PeekLocal, AskShared,
                  GuessWrong, GuessRight, Hit, HitLocally
    <3> QED BY <2>2, <3>1 DEF PageDated
  <2>3. CASE page.state # "none"
    BY <1>1, <2>3 DEF Forward, PageDated, CodeInv
  <2> QED BY <2>1, <2>2, <2>3
<1>4. RequestsHold'
  <2> SUFFICES ASSUME NEW r \in Requests, request'[r].pc # "idle"
               PROVE  /\ request'[r].code \in Codes /\ request'[r].expires \in Lifetimes
                      /\ SameCode(request[r].version, request[r].code)'
    BY DEF RequestsHold
  <2>1. CASE /\ request[r].pc # "idle"
             /\ request'[r].code = request[r].code /\ request'[r].version = request[r].version
             /\ request'[r].expires = request[r].expires
    <3>1. SameCode(request[r].version, request[r].code) /\ request[r].version \in Nat
      BY <1>2, <2>1 DEF CodeInv, RequestsHold, RequestStates, Versions
    <3>2. request'[r].code \in Codes /\ request'[r].expires \in Lifetimes
      BY <2>1 DEF CodeInv, RequestsHold
    <3>3. page'.state # "none" /\ page'.version \in Nat /\ page'.version >= page.version
             /\ (page'.version = page.version => page'.code = page.code)
      BY <1>1, <3>1, TicketAssumption DEF Forward, SameCode, TypeOK, Pages, Versions
    <3> QED BY <1>2, <2>1, <3>1, <3>2, <3>3 DEF SameCode
  <2>2. CASE /\ request'[r].code = Code /\ Code # NoCode /\ page.state # "none"
             /\ request'[r].version = page.version /\ request'[r].expires = page.expires
    <3>1. Code = page.code /\ Code \in Codes
      BY <1>2, <2>2 DEF Code, Pages
    <3>2. page'.state # "none" /\ page'.version \in Nat /\ page'.version >= page.version
             /\ (page'.version = page.version => page'.code = page.code)
      BY <1>1, <2>2, TicketAssumption DEF Forward, TypeOK, Pages, Versions
    <3> QED BY <1>2, <2>2, <3>1, <3>2 DEF SameCode, CodeInv, PageDated
  <2> QED BY <2>1, <2>2, RequestStep
<1>5. TicketsHold'
  <2> SUFFICES ASSUME NEW t \in tickets'
               PROVE  t.key <= secret' /\ SameCode(t.version, t.typed)'
    BY DEF TicketsHold
  <2>1. CASE t \in tickets
    <3>1. t.key \in Nat /\ t.version \in Nat /\ t.key <= secret /\ SameCode(t.version, t.typed)
      BY <1>2, <2>1 DEF CodeInv, TicketsHold, Tickets, Versions
    <3>2. page'.version \in Nat
      BY <1>1, TicketAssumption DEF TypeOK, Pages, Versions
    <3> QED BY <1>1, <1>2, <3>1, <3>2 DEF Forward, SameCode
  <2>2. CASE t \notin tickets
    <3>1. PICK r \in Requests : GuessRight(r)
      BY <2>2 DEF Next, vars, Owner, Publish, GenerateShareCode, ClearShareCode, SetVisibility,
                  DeletePage, RotateSecret, Tick, Crowd, Unlock, Load, PeekLocal, AskShared,
                  GuessWrong, Hit, HitLocally
    <3>2. t = [version |-> request[r].version, key |-> secret, typed |-> request[r].code,
               expires |-> Earliest(now + TicketTTL, request[r].expires)]
      BY <2>2, <3>1 DEF GuessRight, TicketVersion
    <3>3. SameCode(t.version, t.typed) /\ t.key = secret
      BY <3>1, <3>2 DEF GuessRight, CodeInv, RequestsHold
    <3>4. page' = page /\ secret' = secret
      BY <3>1 DEF GuessRight
    <3> QED BY <1>2, <3>3, <3>4 DEF SameCode
  <2> QED BY <2>1, <2>2
<1> QED BY <1>1, <1>3, <1>4, <1>5 DEF CodeInv

LEMMA CodeInit == Init => CodeInv
<1> SUFFICES ASSUME Init PROVE CodeInv
  OBVIOUS
<1> USE WindowAssumption, TicketAssumption, SecretsAssumption, LimitAssumption DEF Init
<1>1. page \in Pages /\ secret \in 1 .. Secrets /\ tickets \subseteq Tickets
  BY DEF NoPage, Pages, Versions
<1>2. request \in [Requests -> RequestStates]
  <2>1. \A p \in Replicas : IdleAt(p) \in RequestStates
    BY DEF IdleAt, RequestStates, Versions, Buckets
  <2> QED BY <2>1
<1>3. RateTypeOK
  <2>1. outage \in BOOLEAN /\ forgotten \in BOOLEAN
    BY Zenon DEF RateInit
  <2>2. local \in [Replicas -> [bucket : Buckets, count : Counts]]
    BY DEF RateInit, Buckets, Counts
  <2> QED BY <2>1, <2>2 DEF RateInit, RateTypeOK, Counts
<1>4. guesses \in 0 .. GuessCap /\ unseen \in 0 .. GuessCap
  OBVIOUS
<1>5. PageDated /\ RequestsHold /\ TicketsHold
  <2>1. \A r \in Requests : request[r].pc = "idle"
    BY DEF IdleAt
  <2> QED BY <2>1 DEF PageDated, RequestsHold, TicketsHold, NoPage
<1> QED BY <1>1, <1>2, <1>3, <1>4, <1>5 DEF CodeInv, TypeOK

LEMMA CodeInvariant == Spec => []CodeInv
BY CodeInit, CodeStep, PTL DEF Spec

-----------------------------------------------------------------------------
\* Every variable keeps to its domain, whatever handlers, owner and clock do:
\* in particular a ticket never has an expiry past the page's (ticketExpiry).
THEOREM AccessTyped == Spec => []TypeOK
<1>1. CodeInv => TypeOK
  BY DEF CodeInv
<1> QED BY <1>1, CodeInvariant, PTL

\* Whoever reads a guarded page has typed the code it has now (OnlyTheCodeOpens):
\* a ticket that is valid names the page's version, and a version is one code's.
THEOREM CodeOpens == Spec => []OnlyTheCodeOpens
<1>1. CodeInv => OnlyTheCodeOpens
  <2> SUFFICES ASSUME CodeInv, Code # NoCode, NEW held \in {{}} \cup {{t} : t \in tickets}
               PROVE  /\ ViewShell(held) = "viewer" <=> Meta(held) = "content"
                      /\ Meta(held) = "content" => \E t \in held : t.typed = page.code
    BY DEF OnlyTheCodeOpens
  <2>1. ViewShell(held) = "viewer" <=> Meta(held) = "content"
    BY DEF ViewShell, Meta, Answered
  <2>2. ASSUME Meta(held) = "content" PROVE \E t \in held : t.typed = page.code
    <3>1. ~ Locked(held)
      BY <2>2 DEF Meta, Answered
    <3>2. PICK t \in held : ValidTicket(t)
      BY <3>1 DEF Locked
    <3>3. t \in tickets /\ t.version = page.version
      BY <3>2 DEF ValidTicket
    <3> QED BY <3>2, <3>3 DEF CodeInv, TicketsHold, SameCode
  <2> QED BY <2>1, <2>2
<1> QED BY <1>1, CodeInvariant, PTL

\* A ticket that does not open the page now never will (RevokedForGood): keys and
\* versions are never gone back to, and the clock does not turn.
THEOREM RevokedStaysRevoked == Spec => RevokedForGood
<1> DEFINE Revoked == \A t \in tickets : ~ ValidTicket(t) => ~ ValidTicket(t)'
<1>1. CodeInv /\ [Next]_vars => Revoked
  <2> SUFFICES ASSUME CodeInv, [Next]_vars, NEW t \in tickets, ValidTicket(t)'
               PROVE  ValidTicket(t)
    OBVIOUS
  <2>1. /\ t.key \in Nat /\ t.version \in Nat /\ t.expires \in Int
        /\ t.key <= secret /\ SameCode(t.version, t.typed)
    BY DEF CodeInv, TypeOK, TicketsHold, Tickets, Versions, Expiries
  <2>2. t.key = secret' /\ t.version = page'.version /\ now' < t.expires
    BY DEF ValidTicket
  <2>3. secret \in Nat /\ page.version \in Nat /\ now \in Nat /\ now' \in Nat
    BY TypeStep, SecretsAssumption, TicketAssumption, WindowAssumption
       DEF CodeInv, TypeOK, Pages, Versions, RateTypeOK
  <2> QED BY <2>1, <2>2, <2>3, StepsForward DEF Forward, SameCode, ValidTicket
<1>2. CodeInv /\ [Next]_vars => [Revoked]_vars
  BY <1>1
<1> HIDE DEF Revoked
<1>3. Spec => [][Revoked]_vars
  BY <1>2, CodeInvariant, PTL DEF Spec
<1> QED BY <1>3 DEF Revoked, RevokedForGood

-----------------------------------------------------------------------------
(* The inductive invariant of the budget *)

\* What one counter lets through: its limit, and the attempts under way.
Limit == ShareCodeFailPerMinute + Cardinality(Requests)

Hitting == {r \in Requests : request[r].pc = "hit"}

Blind == {r \in Requests : request[r].blind}

\* Let through by the shared count, and not yet counted.
PastShared == {r \in Requests : request[r].pc \in {"guess", "hit"} /\ ~ request[r].blind}

\* Let through by the count of process p, and not yet counted.
PastLocal(p) ==
    {r \in Requests : request[r].replica = p /\ request[r].pc \in {"ask", "guess", "hit"}}

\* About to be counted by process p in this window.
Counting(p) ==
    {r \in Requests : /\ request[r].replica = p /\ request[r].pc = "hitLocal"
                      /\ request[r].bucket = Bucket}

\* gl[p] of the wrong codes went to the count of process p, one pair for each.
Charges(gl) == {x \in Replicas \X (1 .. Limit) : x[2] <= gl[x[1]]}

\* The wrong codes of this window, by where they are counted: gs by the shared
\* counter (those it took from blind handlers apart), gl[p] by process p.  A
\* count that is within the limit is true, and admits as many as are under way.
Budget(gs, gl) ==
    /\ guesses <= gs + Cardinality(Charges(gl)) + unseen + Cardinality(Hitting)
    /\ gs + Cardinality(PastShared) <= Limit
    /\ ~ Over(shared) => gs <= shared
    /\ \A p \in Replicas :
         /\ gl[p] + Cardinality(PastLocal(p)) <= Limit
         /\ ~ Over(LocalPeek(p)) => gl[p] <= LocalPeek(p) + Cardinality(Counting(p))
         /\ ~ outage => gl[p] = 0

BucketsPast == \A r \in Requests : request[r].pc = "hitLocal" => request[r].bucket <= Bucket

Budgeted == forgotten \/ \E gs \in Nat, gl \in [Replicas -> Nat] : Budget(gs, gl)

GuessInv == BucketsPast /\ Budgeted

-----------------------------------------------------------------------------
(* Counting sets of handlers *)

LEMMA HandlersFinite ==
    ASSUME NEW S \in SUBSET Requests
    PROVE  IsFiniteSet(S) /\ Cardinality(S) \in Nat /\ Cardinality(S) <= Cardinality(Requests)
             /\ Cardinality(Requests) \in Nat
BY ProcessesAssumption, FS_Subset, FS_CardinalityType

\* A larger set has no fewer handlers, and with one to spare it has one more.
LEMMA FewerHandlers ==
    ASSUME NEW S \in SUBSET Requests, NEW T \in SUBSET Requests, S \subseteq T
    PROVE  Cardinality(S) <= Cardinality(T)
BY HandlersFinite, FS_Subset

LEMMA OneHandlerFewer ==
    ASSUME NEW S \in SUBSET Requests, NEW T \in SUBSET Requests, NEW r \in T,
           S \subseteq T \ {r}
    PROVE  Cardinality(S) + 1 <= Cardinality(T)
<1>1. IsFiniteSet(T) /\ Cardinality(T \ {r}) = Cardinality(T) - 1
  BY HandlersFinite, FS_RemoveElement
<1>2. Cardinality(S) <= Cardinality(T \ {r})
  BY FewerHandlers
<1>3. Cardinality(S) \in Nat /\ Cardinality(T) \in Nat
  BY HandlersFinite
<1> QED BY <1>1, <1>2, <1>3

LEMMA OneHandlerMore ==
    ASSUME NEW S \in SUBSET Requests, NEW T \in SUBSET Requests, NEW r \in Requests,
           S \subseteq T \cup {r}
    PROVE  Cardinality(S) <= Cardinality(T) + 1
<1>1. IsFiniteSet(T) /\ Cardinality(T) \in Nat
  BY HandlersFinite
<1>2. Cardinality(T \cup {r}) <= Cardinality(T) + 1
  <2>1. IsFiniteSet(T \cup {r})
           /\ Cardinality(T \cup {r}) = IF r \in T THEN Cardinality(T) ELSE Cardinality(T) + 1
    BY <1>1, FS_AddElement, Zenon
  <2> QED BY <1>1, <2>1
<1>3. Cardinality(S) <= Cardinality(T \cup {r}) /\ Cardinality(S) \in Nat
         /\ Cardinality(T \cup {r}) \in Nat
  BY FewerHandlers, HandlersFinite
<1> QED BY <1>1, <1>2, <1>3

\* The processes count no more than each its limit.
LEMMA ChargesBounded ==
    ASSUME NEW gl \in [Replicas -> Nat]
    PROVE  /\ IsFiniteSet(Charges(gl)) /\ Cardinality(Charges(gl)) \in Nat
           /\ Cardinality(Charges(gl)) <= Cardinality(Replicas) * Limit
           /\ Cardinality(Replicas) \in Nat /\ Limit \in Nat
<1>1. Limit \in Nat /\ Cardinality(Replicas) \in Nat
  BY HandlersFinite, ProcessesAssumption, LimitAssumption, FS_CardinalityType DEF Limit
<1>2. IsFiniteSet(1 .. Limit) /\ Cardinality(1 .. Limit) = Limit
  BY <1>1, FS_Interval
<1>3. /\ IsFiniteSet(Replicas \X (1 .. Limit))
      /\ Cardinality(Replicas \X (1 .. Limit)) = Cardinality(Replicas) * Limit
  BY <1>2, ProcessesAssumption, FS_Product
<1> QED BY <1>1, <1>3, FS_Subset, FS_CardinalityType DEF Charges

\* One more counted by process p is one pair more.
LEMMA OneCharge ==
    ASSUME NEW gl \in [Replicas -> Nat], NEW p \in Replicas, gl[p] < Limit
    PROVE  /\ [gl EXCEPT ![p] = @ + 1] \in [Replicas -> Nat]
           /\ Cardinality(Charges([gl EXCEPT ![p] = @ + 1])) = Cardinality(Charges(gl)) + 1
<1> DEFINE gm == [gl EXCEPT ![p] = @ + 1]
           x == <<p, gl[p] + 1>>
<1>1. gm \in [Replicas -> Nat] /\ Limit \in Nat
  BY ChargesBounded
<1>2. x \in Replicas \X (1 .. Limit) /\ x \notin Charges(gl)
  BY <1>1 DEF Charges
<1>3. Charges(gm) = Charges(gl) \cup {x}
  <2>1. ASSUME NEW y \in Replicas \X (1 .. Limit) PROVE y \in Charges(gm) <=> y \in Charges(gl) \cup {x}
    <3>1. y = <<y[1], y[2]>> /\ y[1] \in Replicas /\ y[2] \in 1 .. Limit
      OBVIOUS
    <3>2. CASE y[1] = p
      BY <1>1, <3>1, <3>2 DEF Charges
    <3>3. CASE y[1] # p
      BY <1>1, <3>1, <3>3 DEF Charges
    <3> QED BY <3>2, <3>3
  <2> QED BY <2>1, <1>2 DEF Charges
<1> QED BY <1>1, <1>2, <1>3, ChargesBounded, FS_AddElement

-----------------------------------------------------------------------------
(* The budget, step by step *)

\* What the steps need of the types.
LEMMA GuessTypes ==
    ASSUME TypeOK
    PROVE  /\ request \in [Requests -> RequestStates]
           /\ guesses \in Nat /\ unseen \in Nat /\ guesses <= GuessCap /\ unseen <= GuessCap
           /\ shared \in Nat /\ now \in Nat /\ Bucket \in Nat
           /\ local \in [Replicas -> [bucket : Buckets, count : Counts]]
           /\ \A p \in Replicas : LocalPeek(p) \in Nat
           /\ ShareCodeFailPerMinute \in Nat /\ GuessCap \in Nat /\ CountCap \in Nat
           /\ CountCap > ShareCodeFailPerMinute
           /\ Counts \subseteq Nat
<1> USE WindowAssumption, LimitAssumption
<1>1. Counts \subseteq Nat /\ shared \in Nat /\ now \in Nat
  BY DEF TypeOK, RateTypeOK, Counts
<1>2. Bucket \in Nat
  BY <1>1, Windows DEF Bucket
<1>3. \A p \in Replicas : LocalPeek(p) \in Nat
  BY <1>1 DEF TypeOK, RateTypeOK, LocalPeek
<1> QED BY <1>1, <1>2, <1>3 DEF TypeOK, RateTypeOK

\* The counts of handlers are numbers.
LEMMA HandlerCounts ==
    /\ Hitting \in SUBSET Requests /\ PastShared \in SUBSET Requests
    /\ Cardinality(Hitting) \in Nat
    /\ Cardinality(PastShared) \in Nat /\ Cardinality(PastShared) <= Cardinality(Requests)
    /\ Cardinality(Requests) \in Nat
    /\ \A p \in Replicas :
         /\ PastLocal(p) \in SUBSET Requests /\ Counting(p) \in SUBSET Requests
         /\ Cardinality(PastLocal(p)) \in Nat /\ Cardinality(PastLocal(p)) <= Cardinality(Requests)
         /\ Cardinality(Counting(p)) \in Nat
<1>1. /\ Hitting \in SUBSET Requests /\ PastShared \in SUBSET Requests
      /\ \A p \in Replicas : PastLocal(p) \in SUBSET Requests /\ Counting(p) \in SUBSET Requests
  BY DEF Hitting, PastShared, PastLocal, Counting
<1> QED BY <1>1, HandlersFinite

\* While the counters and the window stand still and no guess is added, the
\* budget is kept by whoever leaves no guess uncounted and passes no counter.
LEMMA Quiet ==
    ASSUME TypeOK, TypeOK', GuessInv, UNCHANGED guessVars,
           UNCHANGED <<shared, local, outage, forgotten>>, Bucket' = Bucket,
           Hitting \subseteq Hitting', PastShared' \subseteq PastShared,
           \A p \in Replicas :
              PastLocal(p)' \subseteq PastLocal(p) /\ Counting(p) \subseteq Counting(p)'
    PROVE  Budgeted'
<1>1. CASE forgotten
  BY <1>1 DEF Budgeted
<1>2. CASE ~ forgotten
  <2>1. PICK gs \in Nat, gl \in [Replicas -> Nat] : Budget(gs, gl)
    BY <1>2 DEF GuessInv, Budgeted
  <2>2. Cardinality(Hitting) <= Cardinality(Hitting)' /\ Cardinality(Hitting)' \in Nat
    BY HandlerCounts, HandlersFinite, FewerHandlers DEF Hitting
  <2>3. Cardinality(PastShared)' <= Cardinality(PastShared) /\ Cardinality(PastShared)' \in Nat
    BY HandlerCounts, HandlersFinite, FewerHandlers DEF PastShared
  <2>4. \A p \in Replicas :
           /\ Cardinality(PastLocal(p))' <= Cardinality(PastLocal(p))
           /\ Cardinality(Counting(p)) <= Cardinality(Counting(p))'
           /\ Cardinality(PastLocal(p))' \in Nat /\ Cardinality(Counting(p))' \in Nat
    BY HandlerCounts, HandlersFinite, FewerHandlers DEF PastLocal, Counting
  <2>5. \A p \in Replicas : LocalPeek(p)' = LocalPeek(p)
    BY DEF LocalPeek
  <2>6. Budget(gs, gl)'
    <3>1. guesses' <= gs + Cardinality(Charges(gl))' + unseen' + Cardinality(Hitting)'
      <4>1. Cardinality(Charges(gl))' = Cardinality(Charges(gl))
        BY DEF Charges, Limit
      <4> QED BY <2>1, <2>2, <4>1, HandlerCounts, GuessTypes, ChargesBounded DEF Budget, guessVars
    <3>2. gs + Cardinality(PastShared)' <= Limit'
      BY <2>1, <2>3, HandlerCounts, ChargesBounded DEF Budget, Limit
    <3>3. ~ Over(shared') => gs <= shared'
      BY <2>1 DEF Budget, Over
    <3>4. ASSUME NEW p \in Replicas
          PROVE  /\ gl[p] + Cardinality(PastLocal(p))' <= Limit'
                 /\ ~ Over(LocalPeek(p)') => gl[p] <= LocalPeek(p)' + Cardinality(Counting(p))'
                 /\ ~ outage' => gl[p] = 0
      BY <2>1, <2>4, <2>5, HandlerCounts, ChargesBounded, GuessTypes
         DEF Budget, Limit, Over
    <3> QED BY <3>1, <3>2, <3>3, <3>4 DEF Budget, Over
  <2> QED BY <2>6 DEF Budgeted
<1> QED BY <1>1, <1>2

\* A handler that the count of its process lets through.
LEMMA PassLocal ==
    ASSUME TypeOK, TypeOK', GuessInv, NEW r \in Requests, PeekLocal(r),
           ~ Over(LocalPeek(request[r].replica))
    PROVE  Budgeted'
<1>h. PICK here \in Replicas : here = request[r].replica
  BY DEF TypeOK, RequestStates
<1>0. /\ request[r].pc = "budget" /\ To(r, [request[r] EXCEPT !.pc = "ask"])
      /\ UNCHANGED rateVars /\ UNCHANGED guessVars /\ ~ Over(LocalPeek(here))
  BY <1>h DEF PeekLocal, Become, TypeOK, RequestStates
<1>1. /\ \A s \in Requests \ {r} : request'[s] = request[s]
      /\ request'[r].pc = "ask" /\ request'[r].replica = here /\ request[r].replica = here
  BY <1>h, <1>0 DEF To, TypeOK, RequestStates
<1>2. Hitting' = Hitting /\ PastShared' = PastShared
  BY <1>0, <1>1 DEF Hitting, PastShared
<1>3. \A p \in Replicas : Counting(p)' = Counting(p)
  BY <1>0, <1>1 DEF Counting, rateVars, Bucket
<1>4. \A p \in Replicas \ {here} : PastLocal(p)' = PastLocal(p)
  BY <1>0, <1>1 DEF PastLocal
<1>5. Cardinality(PastLocal(here))' + Cardinality(Counting(here)) <= Cardinality(Requests)
         /\ Cardinality(PastLocal(here))' \in Nat
  <2> DEFINE A == PastLocal(here)'
             B == Counting(here)
  <2>1. A \cap B = {}
    BY <1>0, <1>1 DEF PastLocal, Counting
  <2>2. A \in SUBSET Requests /\ B \in SUBSET Requests /\ (A \cup B) \in SUBSET Requests
    BY <1>0 DEF PastLocal, Counting
  <2> HIDE DEF A, B
  <2>3. /\ IsFiniteSet(A) /\ IsFiniteSet(B) /\ Cardinality(A) \in Nat /\ Cardinality(B) \in Nat
        /\ Cardinality(A \cup B) <= Cardinality(Requests)
    BY <2>2, HandlersFinite
  <2>4. Cardinality(A \cup B) = Cardinality(A) + Cardinality(B) - Cardinality(A \cap B)
    BY <2>3, FS_Union, Zenon
  <2>5. Cardinality(A \cap B) = 0
    BY <2>1, FS_EmptySet, Zenon
  <2>6. Cardinality(A) + Cardinality(B) <= Cardinality(Requests) /\ Cardinality(A) \in Nat
    BY <2>3, <2>4, <2>5, HandlerCounts
  <2> QED BY <2>6 DEF A, B
<1>6. CASE forgotten
  BY <1>0, <1>6 DEF Budgeted, rateVars
<1>7. CASE ~ forgotten
  <2>1. PICK gs \in Nat, gl \in [Replicas -> Nat] : Budget(gs, gl)
    BY <1>7 DEF GuessInv, Budgeted
  <2>2. \A p \in Replicas : LocalPeek(p)' = LocalPeek(p)
    BY <1>0 DEF LocalPeek, Bucket, rateVars
  <2>3. guesses' <= gs + Cardinality(Charges(gl))' + unseen' + Cardinality(Hitting)'
    <3>1. Cardinality(Charges(gl))' = Cardinality(Charges(gl)) /\ Cardinality(Hitting)' = Cardinality(Hitting)
      BY <1>2 DEF Charges, Limit
    <3> QED BY <2>1, <3>1, <1>0, HandlerCounts, GuessTypes, ChargesBounded DEF Budget, guessVars
  <2>4. gs + Cardinality(PastShared)' <= Limit' /\ (~ Over(shared') => gs <= shared')
    BY <2>1, <1>0, <1>2 DEF Budget, Limit, Over, rateVars
  <2>5. gl[here] + Cardinality(PastLocal(here))' <= Limit
    <3>1. gl[here] <= LocalPeek(here) + Cardinality(Counting(here)) /\ gl[here] \in Nat
      BY <2>1, <1>0 DEF Budget
    <3>2. LocalPeek(here) <= ShareCodeFailPerMinute /\ LocalPeek(here) \in Nat
      BY <1>0, GuessTypes DEF Over
    <3> QED BY <1>5, <1>0, <3>1, <3>2, HandlerCounts, GuessTypes DEF Limit
  <2>6. ASSUME NEW p \in Replicas
        PROVE  /\ gl[p] + Cardinality(PastLocal(p))' <= Limit'
               /\ ~ Over(LocalPeek(p)') => gl[p] <= LocalPeek(p)' + Cardinality(Counting(p))'
               /\ ~ outage' => gl[p] = 0
    <3>1. /\ ~ Over(LocalPeek(p)') => gl[p] <= LocalPeek(p)' + Cardinality(Counting(p))'
          /\ ~ outage' => gl[p] = 0
      BY <2>1, <2>2, <1>3, <1>0 DEF Budget, Over, rateVars
    <3>2. CASE p = here
      BY <2>5, <3>1, <3>2 DEF Limit
    <3>3. CASE p # here
      BY <2>1, <1>4, <3>1, <3>3 DEF Limit, Budget
    <3> QED BY <3>2, <3>3
  <2>7. Budget(gs, gl)'
    BY <2>3, <2>4, <2>6 DEF Budget, Over
  <2> QED BY <2>7 DEF Budgeted
<1> QED BY <1>6, <1>7

\* A handler that the shared count lets through, or that it does not answer.
LEMMA PassShared ==
    ASSUME TypeOK, TypeOK', GuessInv, NEW r \in Requests, AskShared(r)
    PROVE  Budgeted'
<1>0. /\ request[r].pc = "ask" /\ UNCHANGED rateVars /\ UNCHANGED guessVars
      /\ UNCHANGED <<shared, local, outage, forgotten>> /\ Bucket' = Bucket
      /\ request[r] \in RequestStates
  BY DEF AskShared, TypeOK, rateVars, Bucket
<1>1. CASE Done(r) \/ To(r, [request[r] EXCEPT !.pc = "guess", !.blind = TRUE])
  <2>1. \A s \in Requests \ {r} : request'[s] = request[s]
    BY <1>1 DEF Done, To, TypeOK
  <2>2. \/ request'[r] = IdleAt(request[r].replica)
        \/ request'[r] = [request[r] EXCEPT !.pc = "guess", !.blind = TRUE]
    BY <1>1 DEF Done, To, TypeOK
  <2>3. CASE request'[r] = IdleAt(request[r].replica)
    <3>1. request'[r].pc = "idle"
      BY <2>3 DEF IdleAt
    <3>2. Hitting' = Hitting /\ PastShared' \subseteq PastShared
      BY <2>1, <3>1, <1>0 DEF Hitting, PastShared
    <3>3. \A p \in Replicas :
             PastLocal(p)' \subseteq PastLocal(p) /\ Counting(p) \subseteq Counting(p)'
      BY <2>1, <3>1, <1>0 DEF PastLocal, Counting, Bucket, rateVars
    <3> QED BY <1>0, <3>2, <3>3, Quiet
  <2>4. CASE request'[r] = [request[r] EXCEPT !.pc = "guess", !.blind = TRUE]
    <3>1. request'[r].pc = "guess" /\ request'[r].blind /\ request'[r].replica = request[r].replica
      BY <2>4, <1>0 DEF RequestStates
    <3>2. Hitting' = Hitting /\ PastShared' \subseteq PastShared
      BY <2>1, <3>1, <1>0 DEF Hitting, PastShared
    <3>3. \A p \in Replicas :
             PastLocal(p)' \subseteq PastLocal(p) /\ Counting(p) \subseteq Counting(p)'
      BY <2>1, <3>1, <1>0 DEF PastLocal, Counting, Bucket, rateVars
    <3> QED BY <1>0, <3>2, <3>3, Quiet
  <2> QED BY <2>2, <2>3, <2>4
<1>2. CASE ~ Over(shared) /\ To(r, [request[r] EXCEPT !.pc = "guess"])
  <2>1. /\ \A s \in Requests \ {r} : request'[s] = request[s]
        /\ request'[r].pc = "guess" /\ request'[r].replica = request[r].replica
    BY <1>0, <1>2 DEF To, TypeOK, RequestStates
  <2>2. Hitting' = Hitting
    BY <1>0, <2>1 DEF Hitting
  <2>3. \A p \in Replicas : PastLocal(p)' = PastLocal(p) /\ Counting(p)' = Counting(p)
    BY <1>0, <2>1 DEF PastLocal, Counting, Bucket, rateVars
  <2>4. Cardinality(PastShared)' <= Cardinality(Requests) /\ Cardinality(PastShared)' \in Nat
    BY HandlersFinite DEF PastShared
  <2>5. CASE forgotten
    BY <1>0, <2>5 DEF Budgeted, rateVars
  <2>6. CASE ~ forgotten
    <3>1. PICK gs \in Nat, gl \in [Replicas -> Nat] : Budget(gs, gl)
      BY <2>6 DEF GuessInv, Budgeted
    <3>2. \A p \in Replicas : LocalPeek(p)' = LocalPeek(p)
      BY <1>0 DEF LocalPeek, Bucket, rateVars
    <3>3. guesses' <= gs + Cardinality(Charges(gl))' + unseen' + Cardinality(Hitting)'
      <4>1. Cardinality(Charges(gl))' = Cardinality(Charges(gl))
               /\ Cardinality(Hitting)' = Cardinality(Hitting)
        BY <2>2 DEF Charges, Limit
      <4> QED BY <3>1, <4>1, <1>0 DEF Budget, guessVars
    <3>4. gs + Cardinality(PastShared)' <= Limit'
      BY <3>1, <1>2, <2>4, GuessTypes, HandlerCounts DEF Budget, Over, Limit
    <3>5. ~ Over(shared') => gs <= shared'
      BY <3>1, <1>0 DEF Budget, Over, rateVars
    <3>6. ASSUME NEW p \in Replicas
          PROVE  /\ gl[p] + Cardinality(PastLocal(p))' <= Limit'
                 /\ ~ Over(LocalPeek(p)') => gl[p] <= LocalPeek(p)' + Cardinality(Counting(p))'
                 /\ ~ outage' => gl[p] = 0
      BY <3>1, <2>3, <3>2, <1>0 DEF Budget, Limit, Over, rateVars
    <3>7. Budget(gs, gl)'
      BY <3>3, <3>4, <3>5, <3>6 DEF Budget, Over
    <3> QED BY <3>7 DEF Budgeted
  <2> QED BY <2>5, <2>6
<1> QED BY <1>1, <1>2 DEF AskShared, Become

\* A wrong code is one more guess, and one more to be counted.
LEMMA GuessCounted ==
    ASSUME TypeOK, TypeOK', GuessInv, NEW r \in Requests, GuessWrong(r)
    PROVE  Budgeted'
<1>0. request[r].pc = "guess" /\ UNCHANGED rateVars /\ request[r] \in RequestStates
         /\ To(r, [request[r] EXCEPT !.pc = "hit"]) /\ Tally(Plus(guesses, GuessCap), unseen)
  BY DEF GuessWrong, Become, TypeOK
<1>1. /\ \A s \in Requests \ {r} : request'[s] = request[s]
      /\ request'[r].pc = "hit" /\ request'[r].replica = request[r].replica
      /\ request'[r].blind = request[r].blind
  BY <1>0 DEF To, TypeOK, RequestStates
<1>2. CASE forgotten
  BY <1>0, <1>2 DEF Budgeted, rateVars
<1>3. CASE ~ forgotten
  <2>1. PICK gs \in Nat, gl \in [Replicas -> Nat] : Budget(gs, gl)
    BY <1>3 DEF GuessInv, Budgeted
  <2>2. guesses' <= guesses + 1 /\ guesses' \in Nat /\ unseen' = unseen
    BY <1>0, <1>3, GuessTypes DEF Tally, rateVars, Plus
  <2>3. Cardinality(Hitting) + 1 <= Cardinality(Hitting)' /\ Cardinality(Hitting)' \in Nat
    <3>1. Hitting \subseteq Hitting' \ {r} /\ r \in Hitting' /\ Hitting' \in SUBSET Requests
      BY <1>0, <1>1 DEF Hitting
    <3> QED BY <3>1, HandlerCounts, HandlersFinite, OneHandlerFewer
  <2>4. PastShared' = PastShared
    BY <1>0, <1>1 DEF PastShared
  <2>5. \A p \in Replicas : /\ PastLocal(p)' = PastLocal(p) /\ Counting(p)' = Counting(p)
                            /\ LocalPeek(p)' = LocalPeek(p)
    BY <1>0, <1>1 DEF PastLocal, Counting, LocalPeek, Bucket, rateVars
  <2>6. guesses' <= gs + Cardinality(Charges(gl))' + unseen' + Cardinality(Hitting)'
    <3>1. Cardinality(Charges(gl))' = Cardinality(Charges(gl)) /\ Cardinality(Charges(gl)) \in Nat
      BY ChargesBounded DEF Charges, Limit
    <3> QED BY <2>1, <2>2, <2>3, <3>1, HandlerCounts, GuessTypes DEF Budget
  <2>7. gs + Cardinality(PastShared)' <= Limit' /\ (~ Over(shared') => gs <= shared')
    BY <2>1, <2>4, <1>0 DEF Budget, Limit, Over, rateVars
  <2>8. ASSUME NEW p \in Replicas
        PROVE  /\ gl[p] + Cardinality(PastLocal(p))' <= Limit'
               /\ ~ Over(LocalPeek(p)') => gl[p] <= LocalPeek(p)' + Cardinality(Counting(p))'
               /\ ~ outage' => gl[p] = 0
    BY <2>1, <2>5, <1>0 DEF Budget, Limit, Over, rateVars
  <2>9. Budget(gs, gl)'
    BY <2>6, <2>7, <2>8 DEF Budget, Over
  <2> QED BY <2>9 DEF Budgeted
<1> QED BY <1>2, <1>3

\* The shared counter takes a guess, of a handler it let through or of a blind one.
LEMMA SharedCounts ==
    ASSUME TypeOK, TypeOK', GuessInv, NEW r \in Requests, request[r].pc = "hit",
           SharedIncr, Done(r),
           Tally(guesses, IF request[r].blind THEN Plus(unseen, GuessCap) ELSE unseen)
    PROVE  Budgeted'
<1>0. request[r] \in RequestStates /\ UNCHANGED <<now, local, outage, forgotten>>
  BY DEF SharedIncr, TypeOK
<1>1. (\A s \in Requests \ {r} : request'[s] = request[s]) /\ request'[r].pc = "idle"
  BY DEF Done, To, TypeOK, IdleAt
<1>2. CASE forgotten
  BY <1>0, <1>2 DEF Budgeted
<1>3. CASE ~ forgotten
  <2>1. PICK gs \in Nat, gl \in [Replicas -> Nat] : Budget(gs, gl)
    BY <1>3 DEF GuessInv, Budgeted
  <2>2. Cardinality(Hitting) <= Cardinality(Hitting)' + 1 /\ Cardinality(Hitting)' \in Nat
    <3>1. Hitting \subseteq Hitting' \cup {r} /\ Hitting' \in SUBSET Requests
      BY <1>1 DEF Hitting
    <3> QED BY <3>1, HandlerCounts, HandlersFinite, OneHandlerMore
  <2>3. \A p \in Replicas :
           /\ PastLocal(p)' \subseteq PastLocal(p) /\ PastLocal(p)' \in SUBSET Requests
           /\ Counting(p)' = Counting(p)
           /\ LocalPeek(p)' = LocalPeek(p)
    BY <1>0, <1>1 DEF PastLocal, Counting, LocalPeek, Bucket
  <2>4. \A p \in Replicas : /\ Cardinality(PastLocal(p))' <= Cardinality(PastLocal(p))
                            /\ Cardinality(PastLocal(p))' \in Nat
    BY <2>3, HandlerCounts, HandlersFinite, FewerHandlers
  <2>5. ASSUME NEW g \in Nat, ~ Over(shared') => g <= shared', g + Cardinality(PastShared)' <= Limit,
               guesses' <= g + Cardinality(Charges(gl)) + unseen' + Cardinality(Hitting)'
        PROVE  Budgeted'
    <3>1. Cardinality(Charges(gl))' = Cardinality(Charges(gl)) /\ Limit' = Limit
      BY DEF Charges, Limit
    <3>2. ASSUME NEW p \in Replicas
          PROVE  /\ gl[p] + Cardinality(PastLocal(p))' <= Limit'
                 /\ ~ Over(LocalPeek(p)') => gl[p] <= LocalPeek(p)' + Cardinality(Counting(p))'
                 /\ ~ outage' => gl[p] = 0
      BY <2>1, <2>3, <2>4, <3>1, <1>0, HandlerCounts, ChargesBounded DEF Budget, Over
    <3>3. Budget(g, gl)'
      BY <2>5, <3>1, <3>2 DEF Budget, Over
    <3> QED BY <3>3 DEF Budgeted
  <2>6. ~ Over(shared') => shared' = shared + 1 /\ ~ Over(shared)
    BY GuessTypes DEF SharedIncr, Plus, Over
  <2>7. Cardinality(PastShared)' \in Nat /\ PastShared' \in SUBSET Requests
    BY HandlersFinite DEF PastShared
  <2>8. CASE request[r].blind
    <3>1. unseen' = Plus(unseen, GuessCap) /\ guesses' = guesses
      BY <1>0, <1>3, <2>8 DEF Tally
    <3>2. guesses <= GuessCap /\ (unseen' = unseen + 1 \/ unseen' = GuessCap)
      BY <3>1, GuessTypes DEF Plus
    <3>3. guesses' <= gs + Cardinality(Charges(gl)) + unseen' + Cardinality(Hitting)'
      BY <2>1, <2>2, <3>1, <3>2, HandlerCounts, GuessTypes, ChargesBounded DEF Budget
    <3>4. PastShared' \subseteq PastShared
      BY <1>1 DEF PastShared
    <3>5. gs + Cardinality(PastShared)' <= Limit
      BY <2>1, <2>7, <3>4, HandlerCounts, FewerHandlers, ChargesBounded DEF Budget
    <3>6. ~ Over(shared') => gs <= shared'
      BY <2>1, <2>6, GuessTypes DEF Budget
    <3> QED BY <2>5, <3>3, <3>5, <3>6
  <2>9. CASE ~ request[r].blind
    <3>1. unseen' = unseen /\ guesses' = guesses
      BY <1>0, <1>3, <2>9 DEF Tally
    <3>2. guesses' <= gs + 1 + Cardinality(Charges(gl)) + unseen' + Cardinality(Hitting)'
      BY <2>1, <2>2, <3>1, HandlerCounts, GuessTypes, ChargesBounded DEF Budget
    <3>3. PastShared' \subseteq PastShared \ {r} /\ r \in PastShared
      BY <1>1, <2>9 DEF PastShared
    <3>4. Cardinality(PastShared)' + 1 <= Cardinality(PastShared)
      BY <2>7, <3>3, HandlerCounts, OneHandlerFewer
    <3>5. gs + 1 + Cardinality(PastShared)' <= Limit
      BY <2>1, <2>7, <3>4, HandlerCounts, ChargesBounded DEF Budget
    <3>6. ~ Over(shared') => gs + 1 <= shared'
      BY <2>1, <2>6, GuessTypes DEF Budget
    <3> QED BY <2>5, <3>2, <3>5, <3>6
  <2> QED BY <2>8, <2>9
<1> QED BY <1>2, <1>3

\* The shared counter does not answer, and the process is to count.
LEMMA SharedSilent ==
    ASSUME TypeOK, TypeOK', GuessInv, NEW r \in Requests, request[r].pc = "hit",
           SharedLost, To(r, [request[r] EXCEPT !.pc = "hitLocal", !.bucket = Bucket]),
           Tally(guesses, unseen)
    PROVE  Budgeted'
<1>h. PICK here \in Replicas : here = request[r].replica
  BY DEF TypeOK, RequestStates
<1>0. request[r] \in RequestStates /\ UNCHANGED <<now, local, forgotten>> /\ outage'
  BY DEF SharedLost, TypeOK
<1>1. /\ \A s \in Requests \ {r} : request'[s] = request[s]
      /\ request'[r].pc = "hitLocal" /\ request'[r].replica = here /\ request'[r].bucket = Bucket
  BY <1>0, <1>h DEF To, TypeOK, RequestStates
<1>2. CASE forgotten
  BY <1>0, <1>2 DEF Budgeted
<1>3. CASE ~ forgotten
  <2>1. PICK gs \in Nat, gl \in [Replicas -> Nat] : Budget(gs, gl)
    BY <1>3 DEF GuessInv, Budgeted
  <2>2. guesses' = guesses /\ unseen' = unseen
    BY <1>0, <1>3 DEF Tally
  <2>3. Cardinality(Hitting) <= Cardinality(Hitting)' + 1 /\ Cardinality(Hitting)' \in Nat
    <3>1. Hitting \subseteq Hitting' \cup {r} /\ Hitting' \in SUBSET Requests
      BY <1>1 DEF Hitting
    <3> QED BY <3>1, HandlerCounts, HandlersFinite, OneHandlerMore
  <2>4. Cardinality(PastShared)' <= Cardinality(PastShared) /\ Cardinality(PastShared)' \in Nat
    <3>1. PastShared' \subseteq PastShared /\ PastShared' \in SUBSET Requests
      BY <1>1 DEF PastShared
    <3> QED BY <3>1, HandlerCounts, HandlersFinite, FewerHandlers
  <2>5. \A p \in Replicas : LocalPeek(p)' = LocalPeek(p) /\ Cardinality(PastLocal(p))' \in Nat
                               /\ Cardinality(Counting(p))' \in Nat
    BY <1>0, HandlersFinite DEF LocalPeek, Bucket, PastLocal, Counting
  <2>6. \A p \in Replicas \ {here} :
           PastLocal(p)' = PastLocal(p) /\ Counting(p)' = Counting(p)
    BY <1>0, <1>1, <1>h DEF PastLocal, Counting, Bucket
  <2>7. Cardinality(PastLocal(here))' + 1 <= Cardinality(PastLocal(here))
    <3>1. r \in PastLocal(here) /\ PastLocal(here)' \subseteq PastLocal(here) \ {r}
             /\ PastLocal(here)' \in SUBSET Requests
      BY <1>1, <1>h DEF PastLocal
    <3> QED BY <3>1, HandlerCounts, OneHandlerFewer
  <2>8. Cardinality(Counting(here)) + 1 <= Cardinality(Counting(here))'
    <3>1. r \in Counting(here)' /\ Counting(here) \subseteq Counting(here)' \ {r}
             /\ Counting(here)' \in SUBSET Requests
      BY <1>0, <1>1 DEF Counting, Bucket
    <3> QED BY <3>1, HandlerCounts, OneHandlerFewer
  <2>9. gl[here] < Limit
    BY <2>1, <2>5, <2>7, HandlerCounts, ChargesBounded DEF Budget
  <2> DEFINE gm == [gl EXCEPT ![here] = @ + 1]
  <2>10. gm \in [Replicas -> Nat] /\ Cardinality(Charges(gm)) = Cardinality(Charges(gl)) + 1
    BY <2>9, OneCharge
  <2>11. guesses' <= gs + Cardinality(Charges(gm))' + unseen' + Cardinality(Hitting)'
    <3>1. Cardinality(Charges(gm))' = Cardinality(Charges(gm))
      BY DEF Charges, Limit
    <3> HIDE DEF gm
    <3> QED BY <2>1, <2>2, <2>3, <2>10, <3>1, HandlerCounts, GuessTypes, ChargesBounded DEF Budget
  <2>12. gs + Cardinality(PastShared)' <= Limit' /\ (~ Over(shared') => gs <= shared')
    <3>1. ~ Over(shared') => ~ Over(shared) /\ shared' >= shared /\ shared' \in Nat
      BY GuessTypes DEF SharedLost, Plus, Over
    <3> QED BY <2>1, <2>4, <3>1, HandlerCounts, GuessTypes, ChargesBounded DEF Budget, Limit
  <2>13. ASSUME NEW p \in Replicas
         PROVE  /\ gm[p] + Cardinality(PastLocal(p))' <= Limit'
                /\ ~ Over(LocalPeek(p)') => gm[p] <= LocalPeek(p)' + Cardinality(Counting(p))'
                /\ ~ outage' => gm[p] = 0
    <3>1. Limit' = Limit /\ (~ Over(LocalPeek(p)') => ~ Over(LocalPeek(p)))
      BY <2>5 DEF Limit, Over
    <3>2. CASE p = here
      <4>1. gm[p] = gl[p] + 1 /\ gl[p] \in Nat
        BY <3>2
      <4> HIDE DEF gm
      <4>2. gm[p] + Cardinality(PastLocal(p))' <= Limit'
        BY <2>1, <2>5, <2>7, <3>1, <3>2, <4>1, HandlerCounts, ChargesBounded DEF Budget
      <4>3. ~ Over(LocalPeek(p)') => gm[p] <= LocalPeek(p)' + Cardinality(Counting(p))'
        BY <2>1, <2>5, <2>8, <3>1, <3>2, <4>1, HandlerCounts, GuessTypes DEF Budget
      <4> QED BY <4>2, <4>3, <1>0
    <3>3. CASE p # here
      <4>1. gm[p] = gl[p]
        BY <3>3
      <4> HIDE DEF gm
      <4> QED BY <2>1, <2>5, <2>6, <3>1, <3>3, <4>1, <1>0 DEF Budget
    <3> QED BY <3>2, <3>3
  <2>14. Budget(gs, gm)'
    <3> HIDE DEF gm
    <3> QED BY <2>11, <2>12, <2>13 DEF Budget, Over
  <2> QED BY <2>10, <2>14 DEF Budgeted
<1> QED BY <1>2, <1>3

\* A process counts a guess itself.
LEMMA ProcessCounts ==
    ASSUME TypeOK, TypeOK', GuessInv, NEW r \in Requests, HitLocally(r)
    PROVE  Budgeted'
<1>h. PICK here \in Replicas : here = request[r].replica
  BY DEF TypeOK, RequestStates
<1>p. PICK b \in Buckets : b = request[r].bucket
  BY DEF TypeOK, RequestStates
<1>0. /\ request[r].pc = "hitLocal" /\ request[r] \in RequestStates
      /\ UNCHANGED <<now, shared, outage>> /\ Bucket' = Bucket
      /\ LocalIncr(here, b) /\ Tally(guesses, unseen)
  BY <1>h, <1>p DEF HitLocally, LocalIncr, TypeOK, Bucket
<1>1. (\A s \in Requests \ {r} : request'[s] = request[s]) /\ request'[r].pc = "idle"
  BY DEF HitLocally, Done, To, TypeOK, IdleAt
<1>2. CASE forgotten'
  BY <1>2 DEF Budgeted
<1>3. CASE ~ forgotten'
  <2>0. ~ forgotten /\ (local[here].bucket = Bucket => b = Bucket)
    BY <1>0, <1>3 DEF LocalIncr
  <2>1. PICK gs \in Nat, gl \in [Replicas -> Nat] : Budget(gs, gl)
    BY <2>0 DEF GuessInv, Budgeted
  <2>2. guesses' = guesses /\ unseen' = unseen
    BY <1>0, <1>3 DEF Tally
  <2>3. Hitting' = Hitting /\ PastShared' = PastShared
    BY <1>0, <1>1 DEF Hitting, PastShared
  <2>4. \A p \in Replicas : PastLocal(p)' = PastLocal(p) /\ Counting(p)' \in SUBSET Requests
    BY <1>0, <1>1 DEF PastLocal, Counting
  <2>5. \A p \in Replicas \ {here} : LocalPeek(p)' = LocalPeek(p) /\ Counting(p)' = Counting(p)
    BY <1>0, <1>1, <1>h, GuessTypes DEF LocalPeek, LocalIncr, Counting
  <2>6. ~ Over(LocalPeek(here)') =>
          ~ Over(LocalPeek(here)) /\ gl[here] <= LocalPeek(here)' + Cardinality(Counting(here))'
    <3>1. local[here].count \in Nat
      BY GuessTypes
    <3>2. LocalPeek(here)' = IF b # Bucket THEN 0
                             ELSE IF local[here].bucket = b THEN Plus(local[here].count, CountCap) ELSE 1
      BY <1>0, GuessTypes DEF LocalPeek, LocalIncr
    <3>3. CASE b = Bucket
      <4>1. LocalPeek(here)' = Plus(LocalPeek(here), CountCap)
        BY <3>2, <3>3, GuessTypes DEF LocalPeek, Plus
      <4>2. ~ Over(LocalPeek(here)') => ~ Over(LocalPeek(here)) /\ LocalPeek(here)' = LocalPeek(here) + 1
        BY <4>1, GuessTypes DEF Over, Plus
      <4>3. Counting(here) \subseteq Counting(here)' \cup {r}
        BY <1>0, <1>1 DEF Counting
      <4>4. Cardinality(Counting(here)) <= Cardinality(Counting(here))' + 1
               /\ Cardinality(Counting(here))' \in Nat
        BY <2>4, <4>3, HandlerCounts, HandlersFinite, OneHandlerMore
      <4> QED BY <2>1, <4>2, <4>4, HandlerCounts, GuessTypes DEF Budget
    <3>4. CASE b # Bucket
      <4>1. LocalPeek(here)' = 0 /\ LocalPeek(here) = 0
        BY <2>0, <3>2, <3>4 DEF LocalPeek
      <4>2. Counting(here)' = Counting(here)
        BY <1>0, <1>1, <1>p, <3>4 DEF Counting
      <4> QED BY <2>1, <4>1, <4>2 DEF Budget, Over
    <3> QED BY <3>3, <3>4
  <2>7. guesses' <= gs + Cardinality(Charges(gl))' + unseen' + Cardinality(Hitting)'
    <3>1. Cardinality(Charges(gl))' = Cardinality(Charges(gl))
      BY DEF Charges, Limit
    <3> QED BY <2>1, <2>2, <2>3, <3>1 DEF Budget
  <2>8. gs + Cardinality(PastShared)' <= Limit' /\ (~ Over(shared') => gs <= shared')
    BY <2>1, <2>3, <1>0 DEF Budget, Limit, Over
  <2>9. ASSUME NEW p \in Replicas
        PROVE  /\ gl[p] + Cardinality(PastLocal(p))' <= Limit'
               /\ ~ Over(LocalPeek(p)') => gl[p] <= LocalPeek(p)' + Cardinality(Counting(p))'
               /\ ~ outage' => gl[p] = 0
    <3>1. gl[p] + Cardinality(PastLocal(p))' <= Limit' /\ (~ outage' => gl[p] = 0)
      BY <2>1, <2>4, <1>0 DEF Budget, Limit
    <3>2. CASE p = here
      BY <2>6, <3>1, <3>2
    <3>3. CASE p # here
      BY <2>1, <2>5, <3>1, <3>3 DEF Budget, Over
    <3> QED BY <3>2, <3>3
  <2>10. Budget(gs, gl)'
    BY <2>7, <2>8, <2>9 DEF Budget, Over
  <2> QED BY <2>10 DEF Budgeted
<1> QED BY <1>2, <1>3

\* A new window starts with all of the budget; within one, time changes nothing.
LEMMA TimePasses ==
    ASSUME TypeOK, TypeOK', GuessInv, Tick
    PROVE  GuessInv'
<1>0. now \in Nat /\ now' = now + 1 /\ request' = request /\ local' = local
         /\ request \in [Requests -> RequestStates]
  BY GuessTypes DEF Tick, RateTick
<1>b. \A r \in Requests : request[r].bucket \in Nat
  BY <1>0, WindowAssumption DEF RequestStates, Buckets
<1>1. CASE NewWindow
  <2>1. Bucket' > Bucket /\ Bucket \in Nat /\ Bucket' \in Nat
    BY <1>0, <1>1, Windows, GuessTypes DEF NewWindow, Bucket
  <2>2. BucketsPast'
    BY <1>0, <1>b, <2>1 DEF BucketsPast, GuessInv
  <2>3. guesses' = 0 /\ unseen' = 0 /\ shared' = 0 /\ ~ outage'
    BY <1>1 DEF Tick, RateTick
  <2> DEFINE none == [p \in Replicas |-> 0]
  <2>4. Budget(0, none)'
    <3>1. Cardinality(Charges(none))' \in Nat /\ Limit' = Limit /\ Limit \in Nat
             /\ Cardinality(Requests) <= Limit
      <4>1. Charges(none)' = Charges(none)
        BY DEF Charges, Limit
      <4> QED BY <4>1, ChargesBounded, HandlerCounts, LimitAssumption DEF Limit
    <3>2. /\ Cardinality(Hitting)' \in Nat /\ Cardinality(PastShared)' \in Nat
          /\ Cardinality(PastShared)' <= Cardinality(Requests)
          /\ \A p \in Replicas : /\ Cardinality(PastLocal(p))' \in Nat
                                 /\ Cardinality(PastLocal(p))' <= Cardinality(Requests)
                                 /\ Cardinality(Counting(p))' \in Nat
      BY HandlersFinite DEF Hitting, PastShared, PastLocal, Counting
    <3>3. \A p \in Replicas : LocalPeek(p)' \in Nat /\ none[p] = 0
      <4>1. \A p \in Replicas : local[p].count \in Nat
        BY GuessTypes
      <4> QED BY <4>1, <1>0 DEF LocalPeek
    <3> HIDE DEF none
    <3> QED BY <2>3, <3>1, <3>2, <3>3, HandlerCounts DEF Budget
  <2>5. none \in [Replicas -> Nat]
    OBVIOUS
  <2> HIDE DEF none
  <2> QED BY <2>2, <2>4, <2>5 DEF GuessInv, Budgeted
<1>2. CASE ~ NewWindow
  <2>1. Bucket' = Bucket
    BY <1>0, <1>2, Windows DEF NewWindow, Bucket
  <2>2. UNCHANGED guessVars /\ UNCHANGED <<shared, local, outage, forgotten>>
    BY <1>2 DEF Tick, RateTick
  <2>3. Hitting' = Hitting /\ PastShared' = PastShared
    BY <1>0 DEF Hitting, PastShared
  <2>4. \A p \in Replicas : PastLocal(p)' = PastLocal(p) /\ Counting(p)' = Counting(p)
    BY <1>0, <2>1 DEF PastLocal, Counting
  <2>5. Budgeted'
    BY <2>1, <2>2, <2>3, <2>4, Quiet
  <2> QED BY <1>0, <2>1, <2>5 DEF GuessInv, BucketsPast
<1> QED BY <1>1, <1>2

\* The invariant of the budget is inductive.
LEMMA GuessStep == CodeInv /\ CodeInv' /\ GuessInv /\ [Next]_vars => GuessInv'
<1> SUFFICES ASSUME CodeInv, CodeInv', GuessInv, [Next]_vars PROVE GuessInv'
  OBVIOUS
<1>0. TypeOK /\ TypeOK' /\ request \in [Requests -> RequestStates]
  BY DEF CodeInv, TypeOK
<1>1. CASE UNCHANGED <<request, guessVars, rateVars>>
  <2>1. UNCHANGED guessVars /\ UNCHANGED <<shared, local, outage, forgotten>> /\ Bucket' = Bucket
           /\ request' = request
    BY <1>1 DEF Bucket, rateVars
  <2>2. Hitting' = Hitting /\ PastShared' = PastShared
    BY <2>1 DEF Hitting, PastShared
  <2>3. \A p \in Replicas : PastLocal(p)' = PastLocal(p) /\ Counting(p)' = Counting(p)
    BY <2>1 DEF PastLocal, Counting
  <2>4. Budgeted'
    BY <1>0, <2>1, <2>2, <2>3, Quiet
  <2> QED BY <2>1, <2>4 DEF GuessInv, BucketsPast
<1>2. CASE RotateSecret
  <2>1. forgotten'
    BY <1>2 DEF RotateSecret, CountersRestart
  <2>2. BucketsPast'
    BY <1>2 DEF RotateSecret, IdleAt, BucketsPast
  <2> QED BY <2>1, <2>2 DEF GuessInv, Budgeted
<1>3. CASE Crowd
  BY <1>3 DEF Crowd, MapOverflows, GuessInv, Budgeted, BucketsPast, Bucket
<1>4. CASE Tick
  BY <1>0, <1>4, TimePasses
<1>5. ASSUME NEW r \in Requests, Unlock(r) PROVE GuessInv'
  <2>1. Bucket' = Bucket /\ now' = now
    BY <1>5 DEF Unlock, Load, PeekLocal, AskShared, GuessWrong, GuessRight, Hit, HitLocally,
                SharedIncr, SharedLost, LocalIncr, rateVars, Bucket
  <2>2. \A s \in Requests \ {r} : request'[s] = request[s]
    BY <1>0, <1>5 DEF Unlock, Load, PeekLocal, AskShared, GuessWrong, GuessRight, Hit, HitLocally,
                Become, Done, To
  <2>3. request'[r].pc # "hitLocal" \/ request'[r].bucket = Bucket
    <3>1. CASE Hit(r)
      <4>1. \/ request'[r] = IdleAt(request[r].replica)
            \/ request'[r] = [request[r] EXCEPT !.pc = "hitLocal", !.bucket = Bucket]
        BY <1>0, <3>1 DEF Hit, Done, To
      <4>2. CASE request'[r] = IdleAt(request[r].replica)
        BY ONLY <4>2 DEF IdleAt
      <4>3. CASE request'[r] = [request[r] EXCEPT !.pc = "hitLocal", !.bucket = Bucket]
        <5>1. request[r] \in RequestStates
          BY <1>0
        <5> QED BY ONLY <4>3, <5>1 DEF RequestStates
      <4> QED BY <4>1, <4>2, <4>3
    <3>2. CASE ~ Hit(r)
      <4>1. \/ request'[r].pc \in {"budget", "idle"}
            \/ \E pc \in {"ask", "guess", "hit"} : request'[r] = [request[r] EXCEPT !.pc = pc]
            \/ request'[r] = [request[r] EXCEPT !.pc = "guess", !.blind = TRUE]
        <5>1. CASE Load(r)
          BY <1>0, <5>1 DEF Load, To
        <5>2. CASE PeekLocal(r) \/ GuessWrong(r) \/ GuessRight(r) \/ HitLocally(r)
          BY <1>0, <5>2 DEF PeekLocal, GuessWrong, GuessRight, HitLocally, Become, Done, To, IdleAt
        <5>3. CASE AskShared(r)
          BY <1>0, <5>3 DEF AskShared, Become, Done, To, IdleAt
        <5> QED BY <1>5, <3>2, <5>1, <5>2, <5>3 DEF Unlock
      <4>2. request[r] \in RequestStates
        BY <1>0
      <4>3. request'[r].pc # "hitLocal"
        BY ONLY <4>1, <4>2 DEF RequestStates
      <4> QED BY <4>3
    <3> QED BY <3>1, <3>2
  <2>4. BucketsPast'
    BY <2>1, <2>2, <2>3, <1>0, GuessTypes DEF GuessInv, BucketsPast
  <2>5. CASE \/ Load(r) \/ GuessRight(r)
             \/ PeekLocal(r) /\ Over(LocalPeek(request[r].replica))
    <3>1. /\ request'[r].pc \in {"budget", "idle"} /\ request[r].pc \in {"idle", "budget", "guess"}
          /\ UNCHANGED guessVars /\ UNCHANGED rateVars
      BY <1>0, <2>5 DEF Load, GuessRight, PeekLocal, Done, To, IdleAt
    <3>2. Hitting' = Hitting /\ PastShared' \subseteq PastShared
      BY <2>2, <3>1 DEF Hitting, PastShared
    <3>3. \A p \in Replicas :
             PastLocal(p)' \subseteq PastLocal(p) /\ Counting(p) \subseteq Counting(p)'
      BY <2>1, <2>2, <3>1 DEF PastLocal, Counting
    <3>4. UNCHANGED <<shared, local, outage, forgotten>>
      BY <3>1 DEF rateVars
    <3>5. Budgeted'
      BY <1>0, <2>1, <3>1, <3>2, <3>3, <3>4, Quiet
    <3> QED BY <2>4, <3>5 DEF GuessInv
  <2>6. CASE PeekLocal(r) /\ ~ Over(LocalPeek(request[r].replica))
    BY <1>0, <2>4, <2>6, PassLocal DEF GuessInv
  <2>7. CASE AskShared(r)
    BY <1>0, <2>4, <2>7, PassShared DEF GuessInv
  <2>8. CASE GuessWrong(r)
    BY <1>0, <2>4, <2>8, GuessCounted DEF GuessInv
  <2>9. CASE Hit(r)
    BY <1>0, <2>4, <2>9, SharedCounts, SharedSilent DEF GuessInv, Hit
  <2>10. CASE HitLocally(r)
    BY <1>0, <2>4, <2>10, ProcessCounts DEF GuessInv
  <2> QED BY <1>5, <2>5, <2>6, <2>7, <2>8, <2>9, <2>10 DEF Unlock
<1>6. CASE Owner \/ UNCHANGED vars
  <2>1. UNCHANGED <<request, guessVars, rateVars>>
    BY <1>6 DEF Owner, Publish, GenerateShareCode, ClearShareCode, SetVisibility, DeletePage, vars
  <2> QED BY <2>1, <1>1
<1> QED BY <1>2, <1>3, <1>4, <1>5, <1>6 DEF Next

LEMMA GuessInit == Init => GuessInv
<1> SUFFICES ASSUME Init PROVE GuessInv
  OBVIOUS
<1>1. \A r \in Requests : request[r].pc = "idle"
  BY DEF Init, IdleAt
<1>2. guesses = 0 /\ unseen = 0 /\ shared = 0
  BY DEF Init, RateInit
<1> DEFINE none == [p \in Replicas |-> 0]
<1>3. none \in [Replicas -> Nat] /\ \A p \in Replicas : none[p] = 0
  OBVIOUS
<1>4. Cardinality(Charges(none)) \in Nat /\ Limit \in Nat /\ Cardinality(Requests) <= Limit
  BY ChargesBounded, HandlerCounts, LimitAssumption DEF Limit
<1>5. \A p \in Replicas : LocalPeek(p) = 0
  BY DEF Init, RateInit, LocalPeek
<1>6. Budget(0, none)
  <2> HIDE DEF none
  <2> QED BY <1>2, <1>3, <1>4, <1>5, HandlerCounts DEF Budget
<1> HIDE DEF none
<1> QED BY <1>1, <1>3, <1>6 DEF GuessInv, BucketsPast, Budgeted

\* Wrong codes are compared within the budget of the counters there are, and the
\* attempts under way (GuessesBounded), however the shared counter comes and
\* goes: a count that has not reached its limit has missed none.
THEOREM GuessesStayBounded == Spec => []GuessesBounded
<1>1. CodeInv /\ GuessInv => GuessesBounded
  <2> SUFFICES ASSUME TypeOK, GuessInv, ~ forgotten
               PROVE  guesses <= (IF outage THEN 1 + Cardinality(Replicas) ELSE 1) * Limit
                                   + unseen + Cardinality(Blind)
    BY DEF GuessesBounded, CodeInv, Limit, Blind
  <2>1. PICK gs \in Nat, gl \in [Replicas -> Nat] : Budget(gs, gl)
    BY DEF GuessInv, Budgeted
  <2>2. Cardinality(Hitting) <= Cardinality(PastShared) + Cardinality(Blind)
           /\ Cardinality(Blind) \in Nat
    <3>1. Hitting \subseteq PastShared \cup Blind /\ Blind \in SUBSET Requests
             /\ (PastShared \cup Blind) \in SUBSET Requests
      BY DEF Hitting, PastShared, Blind
    <3>2. Cardinality(Hitting) <= Cardinality(PastShared \cup Blind)
      BY <3>1, HandlerCounts, FewerHandlers
    <3>3. /\ IsFiniteSet(PastShared) /\ IsFiniteSet(Blind) /\ Cardinality(PastShared) \in Nat
          /\ Cardinality(Blind) \in Nat
          /\ IsFiniteSet(PastShared \cap Blind)
      BY <3>1, HandlerCounts, HandlersFinite, FS_Intersection
    <3>4. Cardinality(PastShared \cup Blind)
            = Cardinality(PastShared) + Cardinality(Blind) - Cardinality(PastShared \cap Blind)
      BY <3>3, FS_Union, Zenon
    <3>5. Cardinality(PastShared \cap Blind) \in Nat
      BY <3>3, FS_CardinalityType
    <3> QED BY <3>2, <3>3, <3>4, <3>5, HandlerCounts
  <2>3. gs + Cardinality(Hitting) <= Limit + Cardinality(Blind)
    BY <2>1, <2>2, HandlerCounts, ChargesBounded DEF Budget
  <2>4. CASE ~ outage
    <3>1. Charges(gl) = {}
      BY <2>1, <2>4 DEF Budget, Charges
    <3>2. Cardinality(Charges(gl)) = 0
      BY <3>1, FS_EmptySet, Zenon
    <3> QED BY <2>1, <2>2, <2>3, <2>4, <3>2, HandlerCounts, GuessTypes, ChargesBounded DEF Budget
  <2>5. CASE outage
    <3> DEFINE n == Cardinality(Replicas) * Limit
    <3>1. n \in Nat /\ Cardinality(Charges(gl)) <= n /\ (1 + Cardinality(Replicas)) * Limit = n + Limit
      BY ChargesBounded
    <3> HIDE DEF n
    <3>2. guesses <= (n + Limit) + unseen + Cardinality(Blind)
      BY <2>1, <2>2, <2>3, <3>1, HandlerCounts, GuessTypes, ChargesBounded DEF Budget
    <3> QED BY <2>5, <3>1, <3>2
  <2> QED BY <2>4, <2>5
<1>2. Spec => []GuessInv
  BY GuessInit, GuessStep, CodeInvariant, PTL DEF Spec
<1> QED BY <1>1, <1>2, CodeInvariant, PTL

=============================================================================
