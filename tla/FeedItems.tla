------------------------------ MODULE FeedItems ------------------------------
(***************************************************************************)
(* What a feed hands its consumer (core.py).  A payload is a table name    *)
(* and Payload the set of tables that can change.  A Batch is abstracted   *)
(* to the set of its names: the arrival order and the counts of its Events *)
(* never change what the consumer has to refetch.                          *)
(***************************************************************************)
EXTENDS Integers, Sequences, Functions

CONSTANT Payload

Reasons == {"connected", "reconnected", "overflow", "failsafe"}

Batch(S) == [kind |-> "batch", names |-> S]

Resync(r) == [kind |-> "resync", reason |-> r]

FeedItem == [kind : {"batch"}, names : SUBSET Payload]
              \cup [kind : {"resync"}, reason : Reasons]

\* The tables a consumer refetches when it is handed item.
Covers(item) == IF item.kind = "resync" THEN Payload ELSE item.names

\* The tables that will be refetched once all of the items in out are consumed.
Announced(out) == UNION {Covers(item) : item \in Range(out)}
==============================================================================
