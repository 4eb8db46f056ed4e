------------------------------ MODULE RateLimit ------------------------------
(***************************************************************************)
(* The fixed-window counters of IPLimiter, for one subject: here, the      *)
(* wrong share codes one address sends to one page.  A count lives in the  *)
(* shared counter (Redis, or the process's own map in a deployment of one  *)
(* process); when that does not answer, in a counter of the process that   *)
(* follows one window only.  Keys name their window: a count is never read *)
(* in a later one, whether or not its key expires.                         *)
(*                                                                         *)
(* Its operations are parts of the actions of the module that extends it.  *)
(***************************************************************************)
EXTENDS Naturals

CONSTANTS
    Replicas,       \* processes of the server
    Window,         \* ticks in a window
    MaxTime,        \* bound: the clock stops here
    CountCap        \* bound: a count stays here, above the limit

ASSUME WindowAssumption == Window \in Nat \ {0} /\ MaxTime \in Nat /\ CountCap \in Nat

VARIABLES
    now,
    shared,         \* the shared count of the current window
    local,          \* the window each process follows, and its count
    outage,         \* an increment has gone unanswered in this window
    forgotten       \* counts of this window have been dropped

rateVars == <<now, shared, local, outage, forgotten>>

-----------------------------------------------------------------------------
Counts == 0 .. CountCap
Buckets == 0 .. MaxTime

Bucket == now \div Window

Plus(n, cap) == IF n < cap THEN n + 1 ELSE n

\* INCR and its answer.
SharedIncr ==
    /\ shared' = Plus(shared, CountCap)
    /\ UNCHANGED <<now, local, outage, forgotten>>

\* No answer; the increment may have happened all the same.
SharedLost ==
    /\ shared' \in {shared, Plus(shared, CountCap)}
    /\ outage' = TRUE
    /\ UNCHANGED <<now, local, forgotten>>

LocalPeek(p) == IF local[p].bucket = Bucket THEN local[p].count ELSE 0

\* localCounter.incr, with the window b the caller computed before it asked the
\* shared counter: any other window than the one followed drops the count, the
\* window that has begun meanwhile too.
LocalIncr(p, b) ==
    /\ local' = [local EXCEPT ![p] =
                   [bucket |-> b, count |-> IF @.bucket = b THEN Plus(@.count, CountCap) ELSE 1]]
    /\ forgotten' = (forgotten \/ (local[p].bucket = Bucket /\ b # Bucket))
    /\ UNCHANGED <<now, shared, outage>>

\* Other subjects fill a map (memoryCounterMaxKeys, localCounterMaxKeys), and it
\* starts over.
MapOverflows ==
    /\ \/ shared > 0 /\ shared' = 0 /\ UNCHANGED local
       \/ /\ \E p \in Replicas :
                LocalPeek(p) > 0 /\ local' = [local EXCEPT ![p].count = 0]
          /\ UNCHANGED shared
    /\ forgotten' = TRUE
    /\ UNCHANGED <<now, outage>>

\* Processes restart: their counters are gone.
CountersRestart ==
    /\ shared' \in {0, shared}
    /\ local' = [p \in Replicas |-> [bucket |-> 0, count |-> 0]]
    /\ forgotten' = TRUE
    /\ UNCHANGED <<now, outage>>

NewWindow == (now + 1) % Window = 0

\* The clock; a new window starts from nothing.
RateTick ==
    /\ now < MaxTime
    /\ now' = now + 1
    /\ IF NewWindow THEN shared' = 0 /\ outage' = FALSE /\ forgotten' = FALSE
                    ELSE UNCHANGED <<shared, outage, forgotten>>
    /\ UNCHANGED local

RateInit ==
    /\ now = 0
    /\ shared = 0
    /\ local = [p \in Replicas |-> [bucket |-> 0, count |-> 0]]
    /\ outage = FALSE /\ forgotten = FALSE

RateTypeOK ==
    /\ now \in 0 .. MaxTime
    /\ shared \in Counts
    /\ local \in [Replicas -> [bucket : Buckets, count : Counts]]
    /\ outage \in BOOLEAN /\ forgotten \in BOOLEAN

=============================================================================
