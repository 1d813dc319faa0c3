-------------------------------- MODULE Health --------------------------------
(***************************************************************************)
(* The counters of a feed's supervisor (engine.py, wal.py, raw.py): the    *)
(* attempt its backoff is computed from, and the streak of failed connects *)
(* that is escalated once.  A round is one pass of the supervisor's loop;  *)
(* it is live from the moment its stream is.                               *)
(***************************************************************************)
EXTENDS Integers

CONSTANTS
  Threshold,    \* CONNECT_ERROR_THRESHOLD
  AttemptBound  \* bound of the model: rounds without a live stream

ASSUME HealthAssumption == {Threshold, AttemptBound} \subseteq Nat \ {0}

VARIABLES
  attempt,   \* the supervisor's backoff counter
  failures,  \* _connect_failures
  errors     \* history: ERRORs logged in the current streak of failures

healthVars == <<attempt, failures, errors>>

HealthInit == attempt = 0 /\ failures = 0 /\ errors = 0

\* Seeded faults.

\* The escalation is logged from the threshold on, not at it.
EscalatesBeyond == failures + 1 >= Threshold

------------------------------------------------------------------------------
\* _record_connect_failure logs an ERROR on exactly one failure of a streak.
Escalates == failures + 1 = Threshold

RecordConnectFailure ==
  /\ failures' = failures + 1
  /\ errors' = IF Escalates THEN errors + 1 ELSE errors

\* A round is over and the supervisor backs off; one that never went live counts as a
\* connect failure.
RoundFails(live) ==
  /\ attempt < AttemptBound
  /\ attempt' = attempt + 1
  /\ IF live THEN UNCHANGED <<failures, errors>> ELSE RecordConnectFailure

\* The stream is live: attempt is reset and _record_connect_success called.
GoesLive == attempt' = 0 /\ failures' = 0 /\ errors' = 0

------------------------------------------------------------------------------
HealthTypeOK ==
  /\ attempt \in 0..AttemptBound
  /\ failures \in Nat
  /\ errors \in Nat

\* What the counters say of a feed whose stream is live or not: backoff grows over
\* every round that did not stay live, setup deaths included, and a streak logs its
\* ERROR once, at the threshold.
Accurate(live) ==
  /\ failures <= attempt /\ attempt <= failures + 1
  /\ live => attempt = 0
  /\ errors = IF failures >= Threshold THEN 1 ELSE 0
==============================================================================
