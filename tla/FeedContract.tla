---------------------------- MODULE FeedContract -----------------------------
(***************************************************************************)
(* What every feed promises (core.py, README "at-least-once, every gap     *)
(* bracketed by a Resync"), with no word on how: whatever is stale at the  *)
(* consumer is either announced by an item it has yet to read, or owed,    *)
(* that is, held by the feed in some form that must still become an item.  *)
(***************************************************************************)
EXTENDS FeedItems

VARIABLES
  stale,  \* tables that changed after the consumer last refetched them
  owed,   \* tables the feed has still to announce
  out     \* the items waiting for the consumer, oldest first

vars == <<stale, owed, out>>

Init ==
  /\ stale \in SUBSET Payload
  /\ owed \in SUBSET Payload
  /\ stale \subseteq owed
  /\ out = <<>>

\* Tables change.  The feed may owe more than what changed: a feed that lost
\* track of what it saw, or lost its connection, owes everything.
Change(P) ==
  /\ stale' = stale \cup P
  /\ owed' \in SUBSET Payload
  /\ owed \cup P \subseteq owed'
  /\ UNCHANGED out

\* A Batch is emitted; only what it names stops being owed.
Nudge(S) ==
  /\ S # {}
  /\ S \subseteq owed
  /\ owed \ S \subseteq owed'
  /\ owed' \subseteq owed
  /\ out' = Append(out, Batch(S))
  /\ UNCHANGED stale

\* A Resync is emitted; anything may stop being owed.
Reload(r) ==
  /\ owed' \in SUBSET owed
  /\ out' = Append(out, Resync(r))
  /\ UNCHANGED stale

\* The consumer reads one item and refetches what it covers.
Consume ==
  /\ out # <<>>
  /\ out' = Tail(out)
  /\ stale' = stale \ Covers(Head(out))
  /\ UNCHANGED owed

Next ==
  \/ \E P \in SUBSET Payload : Change(P)
  \/ \E S \in SUBSET Payload : Nudge(S)
  \/ \E r \in Reasons : Reload(r)
  \/ Consume

Spec == Init /\ [][Next]_vars

TypeOK ==
  /\ stale \in SUBSET Payload
  /\ owed \in SUBSET Payload
  /\ out \in Seq(FeedItem)

\* No change is ever lost in silence: a table the consumer shows out of date is
\* named by an item in its queue, or the feed still owes it one (the contract
\* in the docstring of core.py).
NoSilentLoss == stale \subseteq owed \cup Announced(out)
==============================================================================
