----------------------------- MODULE PageHistory -----------------------------
(***************************************************************************)
(* What a reader of the API is promised about pages, with no keys, queues, *)
(* retries or object store: a page is created with a first version, grows  *)
(* by whole versions, each one different from the one before it, serves    *)
(* the version it shares, and is removed once and for all.                 *)
(***************************************************************************)
EXTENDS Naturals, Sequences

CONSTANTS Pages, Bodies

VARIABLES
    status,     \* none, live or deleted
    history,    \* the bodies of a page's versions, oldest first
    shared,     \* 0 to follow the latest version, or the version pinned
    serves      \* the body a visitor of the page is given

vars == <<status, history, shared, serves>>

\* No body is served by a page that was never created.
CONSTANT NoBody

Shown(h, s) == h[IF s = 0 THEN Len(h) ELSE s]

Init ==
    /\ status = [p \in Pages |-> "none"]
    /\ history = [p \in Pages |-> <<>>]
    /\ shared = [p \in Pages |-> 0]
    /\ serves = [p \in Pages |-> NoBody]

Change(p, h, s) ==
    /\ history' = [history EXCEPT ![p] = h]
    /\ shared' = [shared EXCEPT ![p] = s]
    /\ serves' = [serves EXCEPT ![p] = Shown(h, s)]

Create(p, b) ==
    /\ status[p] = "none"
    /\ status' = [status EXCEPT ![p] = "live"]
    /\ Change(p, <<b>>, 0)

Append_(p, b) ==
    /\ status[p] = "live"
    /\ b # history[p][Len(history[p])]
    /\ Change(p, Append(history[p], b), shared[p])
    /\ status' = status

Share(p, s) ==
    /\ status[p] = "live"
    /\ s \in 0..Len(history[p])
    /\ Change(p, history[p], s)
    /\ status' = status

Remove(p) ==
    /\ status[p] = "live"
    /\ status' = [status EXCEPT ![p] = "deleted"]
    /\ UNCHANGED <<history, shared, serves>>

Next ==
    \E p \in Pages :
        \/ \E b \in Bodies : Create(p, b) \/ Append_(p, b)
        \/ \E s \in 0..Len(history[p]) : Share(p, s)
        \/ Remove(p)

Spec == Init /\ [][Next]_vars
=============================================================================
