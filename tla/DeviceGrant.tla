----------------------------- MODULE DeviceGrant -----------------------------
(***************************************************************************)
(* What a device login promises: a flow is opened, granted, redeemed once, *)
(* and yields at most one token, which carries what the flow held when it  *)
(* was redeemed.  Flows may lapse, several at a time, before they are      *)
(* redeemed.                                                               *)
(*                                                                         *)
(* A store is one-shot, or it is not.  One that is grants a flow once, and *)
(* redeems what was granted.  One that is not may grant a flow again, and  *)
(* may set it back to what it held before, so that it can be redeemed with *)
(* an older grant or with none; but with nothing that nobody granted.      *)
(***************************************************************************)
EXTENDS Sequences

CONSTANTS Flows, Grants, NoGrant

VARIABLES
    oneShot,    \* the promise of the store
    phase,      \* [Flows -> "unused", "open", "granted", "redeemed", "lapsed"]
    held,       \* [Flows -> the grant a flow holds, or NoGrant]
    granted,    \* [Flows -> the grants that were reported, in order]
    token       \* [Flows -> the tokens issued]

vars == <<oneShot, phase, held, granted, token>>

Init ==
    /\ oneShot \in BOOLEAN
    /\ phase = [d \in Flows |-> "unused"]
    /\ held = [d \in Flows |-> NoGrant]
    /\ granted = [d \in Flows |-> <<>>]
    /\ token = [d \in Flows |-> <<>>]

\* A flow that may be granted, redeemed, or lapse.
Undecided(d) == phase[d] \in {"open", "granted"}

Open(d) ==
    /\ phase[d] = "unused"
    /\ phase' = [phase EXCEPT ![d] = "open"]
    /\ UNCHANGED <<oneShot, held, granted, token>>

Grant(d, g) ==
    /\ Undecided(d)
    /\ oneShot => phase[d] = "open"
    /\ phase' = [phase EXCEPT ![d] = "granted"]
    /\ held' = [held EXCEPT ![d] = g]
    /\ granted' = [granted EXCEPT ![d] = Append(@, g)]
    /\ UNCHANGED <<oneShot, token>>

SetBack(d) ==
    /\ ~ oneShot /\ Undecided(d)
    /\ \/ /\ phase' = [phase EXCEPT ![d] = "open"]
          /\ held' = [held EXCEPT ![d] = NoGrant]
       \/ \E i \in DOMAIN granted[d] :
             /\ phase' = [phase EXCEPT ![d] = "granted"]
             /\ held' = [held EXCEPT ![d] = granted[d][i]]
    /\ UNCHANGED <<oneShot, granted, token>>

Redeem(d) ==
    /\ Undecided(d)
    /\ oneShot => phase[d] = "granted"
    /\ phase' = [phase EXCEPT ![d] = "redeemed"]
    /\ UNCHANGED <<oneShot, held, granted, token>>

Issue(d) ==
    /\ phase[d] = "redeemed" /\ token[d] = <<>>
    /\ token' = [token EXCEPT ![d] = <<held[d]>>]
    /\ UNCHANGED <<oneShot, phase, held, granted>>

Lapse(ds) ==
    /\ \A d \in ds : Undecided(d)
    /\ phase' = [d \in Flows |-> IF d \in ds THEN "lapsed" ELSE phase[d]]
    /\ UNCHANGED <<oneShot, held, granted, token>>

Next ==
    \/ \E d \in Flows :
          \/ Open(d) \/ SetBack(d) \/ Redeem(d) \/ Issue(d)
          \/ \E g \in Grants : Grant(d, g)
    \/ \E ds \in SUBSET Flows : Lapse(ds)

Spec == Init /\ [][Next]_vars
=============================================================================
