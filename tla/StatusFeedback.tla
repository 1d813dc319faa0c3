---------------------------- MODULE StatusFeedback -----------------------------
(***************************************************************************)
(* The liveness probe of a stream (proto.py StatusFeedback.run, with       *)
(* BaseFeed._feedback_loop's idle clock): every Interval a status that     *)
(* asks the server for a keepalive, and an abort once the stream has been  *)
(* silent for longer than Liveness.                                        *)
(*                                                                         *)
(* Time is discrete and urgent: the loop wakes at most Jitter ticks late   *)
(* and the answer of a live server arrives within Delay ticks.  The        *)
(* supervisor reads it at once, unless it is in the middle of another      *)
(* await: RawFeed asks the catalog for names between two frames, and the   *)
(* idle clock stands for what the supervisor has read, not for what has    *)
(* arrived.  liveness_timeout=None, which turns the probe off, is not      *)
(* modelled.                                                               *)
(***************************************************************************)
EXTENDS Integers

CONSTANTS
  Interval,  \* status_interval
  Liveness,  \* liveness_timeout
  Delay,     \* longest time a live server takes to answer a status
  Jitter     \* longest time the event loop is late

\* What validate_feed_params accepts.
ValidParams ==
  /\ Interval > 0
  /\ Interval < Liveness

\* What the probe needs of its surroundings comes on top.
ASSUME FeedbackAssumption ==
  /\ {Interval, Liveness} \subseteq Int
  /\ {Delay, Jitter} \subseteq Nat
  /\ ValidParams
  /\ Delay < Interval
  /\ Interval + Jitter <= Liveness

NoReply == -1

VARIABLES
  sleep,    \* ticks since the loop last went to sleep
  idle,     \* ticks since the last inbound frame (now - last_inbound)
  asked,    \* age of the status the server has yet to answer, or NoReply
  reader,   \* the supervisor: "reads", "busy" with a lookup, or "behind": busy, and
            \* frames have arrived meanwhile
  link,     \* "up", or "dead": nothing arrives and nobody is told
  conn,     \* "open", "lost" (asyncio reported it), or "aborted" by the probe
  running   \* the feedback task has not returned

feedbackVars == <<sleep, idle, asked, reader, link, conn, running>>

FeedbackInit ==
  /\ sleep = 0
  /\ idle = 0
  /\ asked = NoReply
  /\ reader = "reads"
  /\ link = "up"
  /\ conn = "open"
  /\ running = TRUE

------------------------------------------------------------------------------
\* Seeded faults.

\* A silence of one interval is taken for a dead link.
TooIdleAtInterval == idle >= Interval

\* The loop sends and never looks at the clock.
TooIdleNever == FALSE

\* A status that was sent counts as traffic.
SendCountsAsTraffic == 0

------------------------------------------------------------------------------
Flowing == link = "up" /\ conn = "open"

\* idle > liveness
TooIdle == idle > Liveness

\* send_standby_status(reply=True): an answer is now due, if the link is up.
StatusSent == IF link = "up" THEN 0 ELSE NoReply

IdleAfterSend == idle

\* The loop wakes and finds the stream silent for too long: abort and return.  An
\* abort of a transport that is already gone does nothing.
ProbeAborts ==
  /\ running
  /\ sleep >= Interval
  /\ TooIdle
  /\ conn' = IF conn = "open" THEN "aborted" ELSE conn
  /\ running' = FALSE
  /\ UNCHANGED <<sleep, idle, asked, reader, link>>

\* The loop wakes, sends a status and goes back to sleep.  The send does not wait
\* on a dead link: a status is far smaller than the transport's buffer.
ProbeSends ==
  /\ running
  /\ sleep >= Interval
  /\ ~TooIdle
  /\ conn = "open"
  /\ sleep' = 0
  /\ idle' = IdleAfterSend
  /\ asked' = StatusSent
  /\ UNCHANGED <<reader, link, conn, running>>

\* The send raises because the transport is gone; the reader sees that too.
ProbeSendFails ==
  /\ running
  /\ sleep >= Interval
  /\ ~TooIdle
  /\ conn = "lost"
  /\ running' = FALSE
  /\ UNCHANGED <<sleep, idle, asked, reader, link, conn>>

\* A frame arrives: read_stream returns it and last_inbound is set, or it waits.
Frame ==
  IF reader = "reads"
    THEN idle' = 0 /\ UNCHANGED reader
    ELSE reader' = "behind" /\ UNCHANGED idle

\* The answer to the last status arrives.
Reply ==
  /\ running
  /\ Flowing
  /\ asked # NoReply
  /\ asked' = NoReply
  /\ Frame
  /\ UNCHANGED <<sleep, link, conn, running>>

\* Any other frame arrives.
Inbound ==
  /\ running
  /\ Flowing
  /\ Frame
  /\ UNCHANGED <<sleep, asked, link, conn, running>>

\* The frame is a commit whose names are not cached: push_committed asks the catalog.
LookupBegins ==
  /\ running
  /\ Flowing
  /\ reader = "reads"
  /\ idle' = 0
  /\ reader' = "busy"
  /\ UNCHANGED <<sleep, asked, link, conn, running>>

\* The catalog answers.  The frames that waited are read without a pause; the last may
\* be a commit that needs a lookup in its turn.
LookupEnds ==
  /\ running
  /\ reader # "reads"
  /\ IF reader = "behind"
       THEN idle' = 0 /\ reader' \in {"reads", "busy"}
       ELSE reader' = "reads" /\ UNCHANGED idle
  /\ UNCHANGED <<sleep, asked, link, conn, running>>

\* The peer goes silent: a partition, a frozen walsender.
LinkDies ==
  /\ running
  /\ link = "up"
  /\ link' = "dead"
  /\ asked' = NoReply
  /\ UNCHANGED <<sleep, idle, reader, conn, running>>

\* The transport is closed under the feed, which asyncio reports.
ConnectionLost ==
  /\ running
  /\ conn = "open"
  /\ conn' = "lost"
  /\ asked' = NoReply
  /\ UNCHANGED <<sleep, idle, reader, link, running>>

\* The reader raises on a lost connection and _feedback_running cancels the loop.
StreamEnds ==
  /\ running
  /\ conn = "lost"
  /\ reader = "reads"
  /\ running' = FALSE
  /\ UNCHANGED <<sleep, idle, asked, reader, link, conn>>

Tick ==
  /\ running
  /\ sleep < Interval + Jitter
  /\ asked # NoReply => asked < Delay
  /\ sleep' = sleep + 1
  /\ idle' = idle + 1
  /\ asked' = IF asked = NoReply THEN NoReply ELSE asked + 1
  /\ UNCHANGED <<reader, link, conn, running>>

Wake == ProbeAborts \/ ProbeSends \/ ProbeSendFails

FeedbackNext ==
  \/ Wake
  \/ Reply \/ Inbound
  \/ LookupBegins \/ LookupEnds
  \/ LinkDies \/ ConnectionLost \/ StreamEnds
  \/ Tick

FeedbackSpec == FeedbackInit /\ [][FeedbackNext]_feedbackVars

\* Time passes and the loop runs; the network and the catalog owe nothing.
FeedbackFairSpec == FeedbackSpec /\ WF_feedbackVars(Tick) /\ WF_feedbackVars(Wake) /\ WF_feedbackVars(Reply)

------------------------------------------------------------------------------
FeedbackTypeOK ==
  /\ sleep \in 0..Interval + Jitter
  /\ idle \in Nat
  /\ asked \in 0..Delay \cup {NoReply}
  /\ reader \in {"reads", "busy", "behind"}
  /\ link \in {"up", "dead"}
  /\ conn \in {"open", "lost", "aborted"}
  /\ running \in BOOLEAN

\* A stream is never aborted for the quiet of its tables, at whatever moment lookups
\* begin and end: the probe cuts a link that is dead, or frames are waiting to be read.
NoFalseAbort == conn = "aborted" => link = "dead" \/ reader = "behind"

\* What the docstring has: "a healthy connection has inbound traffic every interval and
\* silence beyond liveness means the link or walsender is dead" (StatusFeedback).
AbortMeansDead == conn = "aborted" => link = "dead"

\* A dead link is cut in bounded time: while the probe runs, no silence lasts
\* longer than Liveness plus one interval and the loop's lateness.
SilenceIsBounded == running => idle <= Liveness + Interval + Jitter

\* The inductive invariant.  Since the last status left, either its answer arrived, and
\* the stream has been idle for no longer than that, or it is still due and the silence
\* before the status was at most one interval; unless frames wait to be read.
ProbeIsAnswered ==
  running /\ Flowing =>
    IF asked = NoReply
      THEN reader = "behind" \/ idle <= sleep
      ELSE asked = sleep /\ (reader = "behind" \/ idle <= Interval + Jitter + sleep)

SilenceSinceWake == running => idle <= Liveness + sleep

AbortedIsOver == conn = "aborted" => ~running

FeedbackIInv == FeedbackTypeOK /\ ProbeIsAnswered /\ SilenceSinceWake /\ AbortedIsOver /\ NoFalseAbort

\* A dead link does not hold the feed for ever: the probe ends (README,
\* liveness_timeout: "aborts and reconnects instead of blocking forever").
DeadLinkIsCut == link = "dead" ~> ~running
==============================================================================
