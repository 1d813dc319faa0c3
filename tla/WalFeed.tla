------------------------------- MODULE WalFeed --------------------------------
(***************************************************************************)
(* WalFeed (wal.py): one logical replication connection with a TEMPORARY   *)
(* slot per session, feeding the Engine.  The supervisor connects, creates *)
(* the slot, starts the stream, announces the session with a Resync, and   *)
(* reads until an error; then it backs off and starts over.                *)
(*                                                                         *)
(* The engine's variables are taken over as they are, its actions with     *)
(* them; stale now grows when a table changes in the database, not when    *)
(* its name arrives.  The cancellation of the supervisor is FeedService's, *)
(* the timing of the liveness probe StatusFeedback's.                      *)
(***************************************************************************)
EXTENDS Engine, Health

CONSTANT WireBound  \* bound of the model: changes a slot holds

ASSUME WalAssumption == WireBound \in Nat \ {0}

VARIABLES
  sup,       \* the supervisor's await: "connect", "create" the slot, "start" the
             \* stream, "stream" (read_stream), "pause"
  slot,      \* the slot of this session has reached its consistent point
  wire,      \* changes the slot has decoded and the supervisor has not read
  link,      \* "up", or "silent": nothing arrives and nobody is told
  first      \* no session has gone live yet

sessionVars == <<sup, slot, wire, link>>
engineVars == <<queue, overflowed, pump, pending, hard, quiet, out>>
walVars == <<engineVars, stale, sessionVars, first, healthVars>>

WalInit ==
  /\ EngineInit
  /\ stale = Payload  \* a consumer that has read nothing
  /\ sup = "connect"
  /\ slot = FALSE
  /\ wire = <<>>
  /\ link = "up"
  /\ first = TRUE
  /\ HealthInit

------------------------------------------------------------------------------
\* Seeded faults.

\* The session is announced as soon as the connection is up, before its slot.
AnnouncedWhenConnected == sup = "create" /\ ~slot

\* The backoff counter is reset as soon as a connection is up.
AttemptAfterConnect == 0

\* A connect counts as an attempt of its own.
AttemptCountsConnects == attempt + 1

\* Frames are read and their tables not pushed.
ReadsWithoutPushing(p) == LoopIsFree /\ UNCHANGED engineVars

\* A reconnected session is taken to continue the one before.
NoResyncOnReconnect == first

\* The probe does not run.
NoProbe == FALSE

\* The session is announced with its first frame.
AnnouncedWithFirstFrame == sup = "start" /\ wire # <<>>

------------------------------------------------------------------------------
\* The database.

\* A transaction that changes table p commits.  A slot past its consistent point
\* decodes it.
Commit(p) ==
  /\ stale' = stale \cup {p}
  /\ IF slot
       THEN Len(wire) < WireBound /\ wire' = Append(wire, p)
       ELSE UNCHANGED wire
  /\ UNCHANGED <<engineVars, sup, slot, link, first, healthVars>>

\* The server builds the slot's starting point while CREATE_REPLICATION_SLOT is
\* under way.
SlotReady ==
  /\ sup = "create"
  /\ ~slot
  /\ slot' = TRUE
  /\ UNCHANGED <<engineVars, stale, sup, wire, link, first, healthVars>>

\* The peer goes silent, during the setup or on the stream.
LinkDies ==
  /\ sup \in {"create", "start", "stream"}
  /\ link = "up"
  /\ link' = "silent"
  /\ UNCHANGED <<engineVars, stale, sup, slot, wire, first, healthVars>>

------------------------------------------------------------------------------
\* The supervisor.

\* attempt survives a connect: only a live stream resets it.
AttemptOnConnect == attempt

\* WalsenderConnection.connect returns.
ConnectDone ==
  /\ LoopIsFree
  /\ sup = "connect"
  /\ sup' = "create"
  /\ link' = "up"
  /\ attempt' = AttemptOnConnect
  /\ UNCHANGED <<engineVars, stale, slot, wire, first, failures, errors>>

\* One round is over: the connection and with it the slot are gone; back off.
RoundEnds ==
  /\ RoundFails(sup = "stream")
  /\ sup' = "pause"
  /\ slot' = FALSE
  /\ wire' = <<>>
  /\ link' = "up"
  /\ UNCHANGED <<engineVars, stale, first>>

\* connect() raises, its timeout included.
ConnectFails == LoopIsFree /\ sup = "connect" /\ RoundEnds

\* A command or the stream raises: a reset, a server error, the end of the stream.
ConnectionLost == LoopIsFree /\ sup \in {"create", "start", "stream"} /\ RoundEnds

\* StatusFeedback aborts a silent stream; it runs only while the stream is live.
ProbeRuns == sup = "stream"

ProbeAborts == LoopIsFree /\ ProbeRuns /\ link = "silent" /\ RoundEnds

PauseDone ==
  /\ LoopIsFree
  /\ sup = "pause"
  /\ sup' = "connect"
  /\ UNCHANGED <<engineVars, stale, slot, wire, link, first, healthVars>>

\* CREATE_REPLICATION_SLOT answers.
CreateDone ==
  /\ LoopIsFree
  /\ sup = "create"
  /\ slot
  /\ link = "up"
  /\ sup' = "start"
  /\ UNCHANGED <<engineVars, stale, slot, wire, link, first, healthVars>>

\* When the session is announced: START_REPLICATION has answered.
ReadyToAnnounce == sup = "start"

\* Every session is announced, the first and the later ones.
Announces == TRUE

\* The stream goes live: the counters are reset and the session announced, before
\* the first frame is read.
StartDone ==
  /\ LoopIsFree
  /\ ReadyToAnnounce
  /\ link = "up"
  /\ sup' = "stream"
  /\ GoesLive
  /\ first' = FALSE
  /\ IF Announces
       THEN /\ Len(out) + 1 < OutBound
            /\ out' = Append(out, Resync(IF first THEN "connected" ELSE "reconnected"))
       ELSE UNCHANGED out
  /\ UNCHANGED <<intakeVars, windowVars, stale, slot, wire, link>>

\* One frame is parsed and its table pushed.
PushRaw(p) == Receive(p)

ReadFrame ==
  /\ sup = "stream"
  /\ link = "up"
  /\ wire # <<>>
  /\ wire' = Tail(wire)
  /\ PushRaw(Head(wire))
  /\ UNCHANGED <<stale, sup, slot, link, first, healthVars>>

Supervise ==
  \/ ConnectDone \/ ConnectFails \/ PauseDone
  \/ CreateDone \/ StartDone
  \/ ReadFrame
  \/ ConnectionLost \/ ProbeAborts

\* The steps of the engine that the supervisor has no part in.
Apart(step) == step /\ UNCHANGED <<sessionVars, first, healthVars>>

EngineStep == Apart(PumpStep \/ Tick \/ Consume \/ FailsafeFires)

WalNext ==
  \/ \E p \in Payload : Commit(p)
  \/ SlotReady
  \/ LinkDies
  \/ Supervise
  \/ EngineStep

WalSpec == WalInit /\ [][WalNext]_walVars

\* The engine's fairness; the supervisor's waits end (a connect by its timeout), the
\* probe cuts a silent stream (StatusFeedback), and the database is reached at the
\* latest after AttemptBound rounds.  A stream that is live may break at any time.
WalFairSpec ==
  /\ WalSpec
  /\ WF_walVars(Apart(PumpStep))
  /\ WF_walVars(Apart(Tick))
  /\ SF_walVars(Apart(Consume))
  /\ WF_walVars(SlotReady)
  /\ WF_walVars(ConnectDone \/ PauseDone \/ CreateDone)
  /\ SF_walVars(StartDone)
  /\ WF_walVars(ReadFrame)
  /\ WF_walVars(ProbeAborts)

------------------------------------------------------------------------------
WalTypeOK ==
  /\ TypeOK
  /\ sup \in {"connect", "create", "start", "stream", "pause"}
  /\ slot \in BOOLEAN
  /\ wire \in Seq(Payload)
  /\ link \in {"up", "silent"}
  /\ first \in BOOLEAN
  /\ HealthTypeOK

\* What the feed has still to announce: without a live stream everything, because
\* the next session begins with a Resync.
WalOwed == IF sup = "stream" THEN Range(wire) \cup Owed ELSE Payload

\* There is no silent gap between sessions: whatever the order of commits, slot
\* creation, frames, overflows and lost connections, a table the consumer shows out
\* of date is still on the wire, in the engine, announced, or covered by the Resync
\* to come ("every gap bracketed by a Resync", core.py).
NoSilentGap == stale \subseteq WalOwed \cup Announced(out)

\* The counters tell the truth about the current streak of failed rounds
\* (BaseFeed._record_connect_failure: "a successful connect resets the streak").
HealthIsAccurate == Accurate(sup = "stream")

\* The inductive invariant: a stream is read only from a slot past its consistent point,
\* so that no commit falls between the Resync and the first frame.
SlotBehindStream == sup \in {"start", "stream"} => slot

WalIInv ==
  /\ WalTypeOK
  /\ WindowHoldsItsNames
  /\ OverflowIsServed
  /\ SlotBehindStream
  /\ HealthIsAccurate

WalContract == INSTANCE FeedContract WITH owed <- WalOwed

\* The whole feed implements the abstract contract.
WalContractSpec == WalContract!Spec

\* The one wait of the supervisor that nothing bounds: a setup command on a link that
\* has gone silent.
SetupHangs == sup \in {"create", "start"} /\ link = "silent"

\* Unless a setup hangs for good, every change reaches the consumer, across lost
\* connections, silent links and overflows.
EveryCommitArrives == (\A p \in Payload : p \in stale ~> p \notin stale) \/ <>[]SetupHangs

\* Unless a setup hangs for good, the feed streams again and again, whatever breaks or
\* falls silent in whichever phase of a session, and however quiet the database: there
\* is no other state in which the supervisor is stuck (BaseFeed._reconnect_pause and
\* WalFeed._supervisor: "stream until error, back off, repeat").
StreamsAgain == []<>(sup = "stream" /\ link = "up") \/ <>[]SetupHangs

\* A silent link does not block the feed for ever ("inbound silence past it means a
\* dead link, so the feed aborts and reconnects instead of blocking forever", README).
\* A setup that hangs violates it.
SilentLinkIsLeft == link = "silent" ~> link = "up"
==============================================================================
