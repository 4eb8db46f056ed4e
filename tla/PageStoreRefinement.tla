------------------------- MODULE PageStoreRefinement -------------------------
(***************************************************************************)
(* PageStore's rows, read as PageHistory: the bodies of a page are those   *)
(* its version rows name, in order, and the body it serves is that of the  *)
(* version row its serving-cache key belongs to.                           *)
(***************************************************************************)
EXTENDS PageStore, Sequences

CONSTANT NoBody

BodyOf(p, v) == CHOOSE b \in Bodies : \E r \in RowsOf(p, v) : r.body = b

History == [p \in Pages |-> [v \in 1..file[p].latest |-> BodyOf(p, v)]]

Serves ==
    [p \in Pages |->
        IF file[p].status = "none" THEN NoBody
        ELSE CHOOSE b \in Bodies :
                 \E r \in fileVersion : r.page = p /\ r.key = file[p].serving /\ r.body = b]

Abstract == INSTANCE PageHistory WITH
    status  <- [p \in Pages |-> file[p].status],
    history <- History,
    shared  <- [p \in Pages |-> file[p].shared],
    serves  <- Serves

\* Every interleaving of publishes, restores, pins, deletions and the cron,
\* under every fault, looks to a reader like PageHistory: versions are taken one
\* at a time and none is lost, a version never repeats the one before it, and
\* the page serves the version it shares.
ImplementsPageHistory == Abstract!Spec
=============================================================================
