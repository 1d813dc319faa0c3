----------------------------- MODULE ServiceProofs -----------------------------
(***************************************************************************)
(* What a feed does for whoever iterates it, whatever it is fed.           *)
(*                                                                         *)
(* Its lifecycle, in whatever order its tasks die, aclose() is called and  *)
(* cancelled, and its consumers iterate: a feed that was closed is quiet,  *)
(* an exception surfaces once, and a consumer that has the feed to itself  *)
(* never waits in vain.                                                    *)
(*                                                                         *)
(* Its liveness probe, for every interval, timeout, server delay and       *)
(* lateness that satisfy FeedbackAssumption: a healthy stream whose frames *)
(* are read is never cut, and no silence goes unnoticed for longer than    *)
(* its bound.                                                              *)
(***************************************************************************)
EXTENDS FeedService, StatusFeedback, TLAPS

------------------------------------------------------------------------------
\* The lifecycle.


\* What an item does to the queue.
LEMMA Queued ==
  ASSUME TypeOK, NEW item \in {"item", "none"}
  PROVE  /\ Append(out, item) \in Seq({"item", "none"})
         /\ Append(out, item) # <<>>
         /\ Append(out, item)[Len(Append(out, item))] = item
BY DEF TypeOK

\* Taking one leaves the last where it is.
LEMMA Taken ==
  ASSUME TypeOK, out # <<>>
  PROVE  /\ Tail(out) \in Seq({"item", "none"})
         /\ Tail(out) # <<>> => Tail(out)[Len(Tail(out))] = out[Len(out)]
BY DEF TypeOK

\* Where the supervisor can be, and how its moves leave the task.
LEMMA SupervisorTypes ==
  ASSUME TypeOK, Supervise \/ CancelSupervisor
  PROVE  /\ task' \in [Tasks -> {"new", "running", "cancelling", "died", "ended"}]
         /\ sup' \in {"connect", "setup", "stream", "teardown", "unwind", "pause"}
         /\ out' \in Seq({"item", "none"})
         /\ swallowed' \in BOOLEAN
         /\ UNCHANGED <<started, closing, error, delivered, consumer, closer, late, raises>>
<1> USE DEF flags, history
<1>1. CASE \E from, to \in {"connect", "setup", "stream", "teardown", "pause"} : SupMoves(from, to)
  BY <1>1 DEF SupMoves, TypeOK
<1>2. CASE SetupDone
  BY <1>2, Queued DEF SetupDone, TypeOK
<1>3. CASE \E cancelled \in BOOLEAN : RoundEnds(cancelled)
  BY <1>3 DEF RoundEnds, TypeOK
<1>4. CASE PauseDone
  BY <1>4 DEF PauseDone, TypeOK
<1>5. CASE SupCancelled \/ SupUnwinds
  BY <1>5 DEF SupCancelled, SupUnwinds, TypeOK
<1>6. CASE ConnectSwallows
  BY <1>6 DEF ConnectSwallows, TypeOK
<1> QED
  BY <1>1, <1>2, <1>3, <1>4, <1>5, <1>6
  DEF Supervise, CancelSupervisor, ConnectFails, ConnectDone, SetupFails, StreamFails,
      TeardownDone, TeardownSwallows

\* It moves only while its task is alive, and only adds to the queue.
LEMMA SupervisorRuns ==
  ASSUME Supervise \/ CancelSupervisor
  PROVE  task["supervisor"] \in {"running", "cancelling"}
BY DEF Supervise, CancelSupervisor, ConnectFails, ConnectDone, SetupDone, SetupFails, StreamFails,
       TeardownDone, PauseDone, SupMoves, RoundEnds, SupCancelled, SupUnwinds, TeardownSwallows,
       ConnectSwallows

LEMMA SupervisorQueues ==
  ASSUME TypeOK, Supervise \/ CancelSupervisor
  PROVE  out' # <<>> \/ UNCHANGED out
<1>1. SetupDone => out' # <<>>
  BY Queued DEF SetupDone
<1> QED
  BY <1>1 DEF Supervise, CancelSupervisor, ConnectFails, ConnectDone, SetupFails, StreamFails,
       TeardownDone, PauseDone, SupMoves, RoundEnds, SupCancelled, SupUnwinds, TeardownSwallows,
       ConnectSwallows

\* What the end of the feed does to a consumer (__anext__).
LEMMA EndTypes ==
  ASSUME TypeOK, NEW c \in Consumers, EndOfFeed(c)
  PROVE  /\ consumer' \in [Consumers -> {"idle", "blocked", "stopped", "raised"}]
         /\ consumer'[c] \in {"stopped", "raised"}
         /\ \A d \in Consumers : d # c => consumer'[d] = consumer[d]
         /\ delivered' \in BOOLEAN /\ raises' \in Nat
         /\ raises' # raises => error /\ ~closing /\ ~delivered /\ raises' = raises + 1
         /\ raises' # raises => delivered'
         /\ delivered => delivered'
<1>1. CASE Raises
  BY <1>1 DEF EndOfFeed, Raises, TypeOK
<1>2. CASE ~Raises
  BY <1>2 DEF EndOfFeed, TypeOK
<1> QED
  BY <1>1, <1>2

LEMMA InitType == Init => TypeOK
<1> SUFFICES ASSUME Init
             PROVE  TypeOK
  OBVIOUS
<1>1. out \in Seq({"item", "none"})
  <2>1. <<>> \in Seq({"item", "none"})
    OBVIOUS
  <2> QED
    BY <2>1 DEF Init
<1>2. /\ task \in [Tasks -> {"new", "running", "cancelling", "died", "ended"}]
      /\ consumer \in [Consumers -> {"idle", "blocked", "stopped", "raised"}]
  BY DEF Init
<1> QED
  BY <1>1, <1>2 DEF Init, TypeOK

LEMMA StepType == TypeOK /\ [Next]_vars => TypeOK'
<1> SUFFICES ASSUME TypeOK, [Next]_vars
             PROVE  TypeOK'
  OBVIOUS
<1> USE DEF flags, history
<1>1. CASE Start
  BY <1>1 DEF Start, TypeOK
<1>2. ASSUME NEW t \in Tasks
      PROVE  /\ Emit(t) => TypeOK'
             /\ TaskCancelled(t) \/ Dies(t) => TypeOK'
             /\ OnTaskDone(t) => TypeOK'
  <2>1. Emit(t) => TypeOK'
    BY Queued DEF Emit, TypeOK
  <2>2. TaskCancelled(t) \/ Dies(t) => TypeOK'
    BY DEF TaskCancelled, Dies, TypeOK
  <2>3. ASSUME OnTaskDone(t)
        PROVE  TypeOK'
    <3>1. out' \in Seq({"item", "none"}) /\ error' \in BOOLEAN
      BY <2>3, Queued DEF OnTaskDone, DeathSentinel, TypeOK
    <3> QED
      BY <2>3, <3>1 DEF OnTaskDone, TypeOK
  <2> QED
    BY <2>1, <2>2, <2>3
<1>3. CASE Supervise \/ CancelSupervisor
  BY <1>3, SupervisorTypes DEF TypeOK
<1>4. CASE Close \/ CloseCancelled \/ CloseAbandoned
  BY <1>4 DEF Close, CloseCancelled, CloseAbandoned, TypeOK
<1>5. CASE CloseReturns
  BY <1>5, Queued DEF CloseReturns, TypeOK
<1>6. ASSUME NEW c \in Consumers, NextItem(c) \/ Take(c) \/ IterateAgain(c)
      PROVE  TypeOK'
  BY <1>6, EndTypes, Taken DEF NextItem, Take, IterateAgain, TypeOK
<1>7. CASE UNCHANGED vars
  BY <1>7 DEF vars, TypeOK
<1> QED
  BY <1>1, <1>2, <1>3, <1>4, <1>5, <1>6, <1>7 DEF Next

LEMMA StepIInv == IInv /\ [Next]_vars => IInv'
<1> SUFFICES ASSUME IInv, [Next]_vars
             PROVE  IInv'
  OBVIOUS
<1> USE DEF flags, history
<1>0. TypeOK /\ TypeOK'
  BY StepType DEF IInv
<1>1. CASE Start
  BY <1>0, <1>1 DEF Start, IInv, TypeOK, ClosedByClose, NoTasksBeforeStart, RaisedIsDelivered
<1>2. ASSUME NEW t \in Tasks, Emit(t) \/ TaskCancelled(t) \/ Dies(t) \/ OnTaskDone(t)
      PROVE  IInv'
  <2>1. started /\ UNCHANGED <<started, closing, closer, late, delivered, raises>>
    BY <1>2 DEF Emit, TaskCancelled, Dies, OnTaskDone, Alive, IInv, NoTasksBeforeStart
  <2> QED
    BY <1>0, <2>1 DEF IInv, ClosedByClose, NoTasksBeforeStart, RaisedIsDelivered
<1>3. CASE Supervise \/ CancelSupervisor
  <2>1. UNCHANGED <<started, closing, error, delivered, consumer, closer, late, raises>>
    BY <1>0, <1>3, SupervisorTypes
  <2>2. started
    BY <1>3, SupervisorRuns DEF IInv, NoTasksBeforeStart, Tasks
  <2> QED
    BY <1>0, <2>1, <2>2 DEF IInv, ClosedByClose, NoTasksBeforeStart, RaisedIsDelivered
<1>4. CASE Close \/ CloseCancelled
  BY <1>0, <1>4 DEF Close, CloseCancelled, IInv, ClosedByClose, NoTasksBeforeStart,
                    RaisedIsDelivered
<1>5. CASE CloseReturns \/ CloseAbandoned
  BY <1>0, <1>5 DEF CloseReturns, CloseAbandoned, IInv, ClosedByClose, NoTasksBeforeStart,
                    RaisedIsDelivered
<1>6. ASSUME NEW c \in Consumers, NextItem(c) \/ Take(c) \/ IterateAgain(c)
      PROVE  IInv'
  <2>1. UNCHANGED <<started, closing, task, closer, late>>
    BY <1>6 DEF NextItem, Take, IterateAgain
  <2>2. raises' # 0 => delivered'
    BY <1>0, <1>6, EndTypes DEF NextItem, Take, IterateAgain, IInv, RaisedIsDelivered
  <2> QED
    BY <1>0, <2>1, <2>2 DEF IInv, ClosedByClose, NoTasksBeforeStart, RaisedIsDelivered
<1>7. CASE UNCHANGED vars
  BY <1>0, <1>7 DEF vars, IInv, ClosedByClose, NoTasksBeforeStart, RaisedIsDelivered
<1> QED
  BY <1>1, <1>2, <1>3, <1>4, <1>5, <1>6, <1>7 DEF Next

\* IInv holds always: the base of every theorem below.
LEMMA Inductive == Spec => []IInv
<1>1. Init => IInv
  BY InitType DEF Init, IInv, ClosedByClose, NoTasksBeforeStart, RaisedIsDelivered
<1> QED
  BY <1>1, StepIInv, PTL DEF Spec

------------------------------------------------------------------------------
\* A task's exception surfaces at most once, and never after aclose() (__anext__ looks
\* at error_delivered and at closing before it raises).
THEOREM ServiceRaisesOnce == Spec => RaisesOnce
<1>1. IInv /\ [Next]_vars => [raises' # raises => raises = 0 /\ ~closing]_vars
  <2> SUFFICES ASSUME IInv, [Next]_vars, raises' # raises
               PROVE  raises = 0 /\ ~closing
    OBVIOUS
  <2> USE DEF flags, history
  <2>1. CASE \E c \in Consumers : NextItem(c) \/ Take(c)
    BY <2>1, EndTypes DEF NextItem, Take, IInv, RaisedIsDelivered
  <2>2. CASE Supervise \/ CancelSupervisor
    BY <2>2, SupervisorTypes DEF IInv
  <2> QED
    BY <2>1, <2>2 DEF Next, Start, Emit, TaskCancelled, Dies, OnTaskDone, Close, CloseReturns,
                      CloseCancelled, CloseAbandoned, IterateAgain, vars
<1> QED
  BY <1>1, Inductive, PTL DEF Spec, RaisesOnce

------------------------------------------------------------------------------
\* Every step that leaves the closer alone once it is done: no task of its time moves.
LEMMA StepQuiet == IInv /\ ClosedIsQuiet /\ [Next]_vars => ClosedIsQuiet'
<1> SUFFICES ASSUME IInv, ClosedIsQuiet, [Next]_vars, CloserIsDone', ~late'
             PROVE  /\ \A t \in Tasks : task'[t] \in {"new", "ended"}
                    /\ closer' = "returned" /\ out' # <<>> => out'[Len(out')] = "none"
  BY DEF ClosedIsQuiet, CloserIsDone
<1> USE DEF flags, history
<1>0. TypeOK /\ TypeOK'
  BY StepType DEF IInv
<1>1. CASE CloseReturns
  BY <1>0, <1>1, Queued DEF CloseReturns, TasksGathered
<1>2. CASE CloseAbandoned
  BY <1>2 DEF CloseAbandoned, TasksGathered
<1>3. CASE Start \/ Close \/ CloseCancelled
  BY <1>3 DEF Start, Close, CloseCancelled, CloserIsDone, IInv, ClosedByClose
<1>4. ASSUME CloserIsDone, ~late, UNCHANGED <<closer, task>>,
             UNCHANGED out \/ (out # <<>> /\ out' = Tail(out))
      PROVE  /\ \A t \in Tasks : task'[t] \in {"new", "ended"}
             /\ closer' = "returned" /\ out' # <<>> => out'[Len(out')] = "none"
  BY <1>0, <1>4, Taken DEF ClosedIsQuiet
<1>5. ASSUME NEW t \in Tasks, Emit(t) \/ TaskCancelled(t) \/ Dies(t) \/ OnTaskDone(t)
      PROVE  FALSE
  <2>1. task[t] \notin {"new", "ended"} /\ UNCHANGED <<closer, late>>
    BY <1>5 DEF Emit, TaskCancelled, Dies, OnTaskDone, Alive
  <2> QED
    BY <2>1 DEF ClosedIsQuiet, CloserIsDone
<1>6. CASE Supervise \/ CancelSupervisor
  <2>1. task["supervisor"] \notin {"new", "ended"} /\ UNCHANGED <<closer, late>>
    BY <1>0, <1>6, SupervisorTypes, SupervisorRuns
  <2> QED
    BY <2>1 DEF ClosedIsQuiet, CloserIsDone, Tasks
<1>7. ASSUME NEW c \in Consumers, NextItem(c) \/ Take(c) \/ IterateAgain(c)
      PROVE  /\ CloserIsDone /\ ~late /\ UNCHANGED <<closer, task>>
             /\ UNCHANGED out \/ (out # <<>> /\ out' = Tail(out))
  BY <1>7 DEF NextItem, Take, IterateAgain, CloserIsDone
<1>8. CASE UNCHANGED vars
  BY <1>8, <1>4 DEF vars, CloserIsDone
<1> QED
  BY <1>1, <1>2, <1>3, <1>4, <1>5, <1>6, <1>7, <1>8 DEF Next

\* When aclose() is over, the tasks it knew of are over, and nothing has been queued
\* behind the sentinel, if it queued one (gather, then out.put_nowait(None)).
THEOREM ServiceClosedIsQuiet == Spec => []ClosedIsQuiet
<1>1. Init => ClosedIsQuiet
  BY DEF Init, ClosedIsQuiet, CloserIsDone
<1> QED
  BY <1>1, StepQuiet, Inductive, PTL DEF Spec

------------------------------------------------------------------------------
\* A feed with one consumer: a sentinel is its own.
OneConsumer == \A c, d \in Consumers : c = d

LEMMA StepSentinel ==
  ASSUME OneConsumer, IInv, SentinelAwaits, [Next]_vars
  PROVE  SentinelAwaits'
<1> USE DEF flags, history
<1>0. TypeOK /\ TypeOK'
  BY StepType DEF IInv
<1>1. ASSUME out' # <<>>
      PROVE  SentinelAwaits'
  BY <1>1 DEF SentinelAwaits
<1>2. ASSUME UNCHANGED <<error, closer, consumer, out>>
      PROVE  SentinelAwaits'
  BY <1>2 DEF SentinelAwaits
<1>3. CASE Start
  BY <1>2, <1>3 DEF Start
<1>4. ASSUME NEW t \in Tasks, Emit(t) \/ TaskCancelled(t) \/ Dies(t) \/ OnTaskDone(t)
      PROVE  SentinelAwaits'
  BY <1>0, <1>1, <1>2, <1>4, Queued DEF Emit, TaskCancelled, Dies, OnTaskDone, DeathSentinel
<1>5. CASE Supervise \/ CancelSupervisor
  BY <1>0, <1>1, <1>2, <1>5, SupervisorTypes, SupervisorQueues
<1>6. CASE Close \/ CloseCancelled \/ CloseAbandoned
  BY <1>6 DEF Close, CloseCancelled, CloseAbandoned, SentinelAwaits
<1>7. CASE CloseReturns
  BY <1>0, <1>1, <1>7, Queued DEF CloseReturns
<1>8. ASSUME NEW c \in Consumers, NextItem(c)
      PROVE  SentinelAwaits'
  <2>1. UNCHANGED <<error, closer, out>>
    BY <1>8 DEF NextItem
  <2>2. CASE Terminal /\ out = <<>>
    <3>1. consumer'[c] # "blocked"
      BY <1>0, <1>8, <2>2, EndTypes DEF NextItem
    <3> QED
      BY <3>1 DEF OneConsumer, SentinelAwaits
  <2>3. CASE ~Terminal
    BY <2>1, <2>3 DEF Terminal, SentinelAwaits, IInv, ClosedByClose
  <2> QED
    BY <1>1, <2>1, <2>2, <2>3
<1>9. ASSUME NEW c \in Consumers, Take(c) \/ IterateAgain(c)
      PROVE  SentinelAwaits'
  <2>1. consumer'[c] # "blocked"
    BY <1>0, <1>9, EndTypes DEF Take, IterateAgain, TypeOK
  <2> QED
    BY <2>1 DEF OneConsumer, SentinelAwaits
<1>10. CASE UNCHANGED vars
  BY <1>2, <1>10 DEF vars
<1> QED
  BY <1>3, <1>4, <1>5, <1>6, <1>7, <1>8, <1>9, <1>10 DEF Next

\* The consumer of a feed that has it to itself never waits on a queue that will not be
\* filled: it is blocked on an empty queue only while the feed has lost no task and
\* aclose() has not returned.
THEOREM NobodyIsLeftBlocked ==
  ASSUME OneConsumer
  PROVE  Spec => []NobodyBlockedForGood
<1>1. Init => SentinelAwaits
  BY DEF Init, SentinelAwaits
<1>2. IInv /\ SentinelAwaits /\ [Next]_vars => SentinelAwaits'
  BY StepSentinel
<1>3. SentinelAwaits => NobodyBlockedForGood
  BY DEF SentinelAwaits, NobodyBlockedForGood, Blocked
<1> QED
  BY <1>1, <1>2, <1>3, Inductive, PTL DEF Spec

------------------------------------------------------------------------------
\* The liveness probe.


\* The timeouts, as the proofs use them (validate_feed_params).
LEMMA Timing ==
  /\ Interval \in Nat \ {0} /\ Liveness \in Nat /\ Delay \in Nat /\ Jitter \in Nat
  /\ Interval < Liveness
  /\ Delay < Interval
  /\ Interval + Jitter <= Liveness
BY FeedbackAssumption DEF ValidParams

\* The invariant holds when a stream starts: last_inbound was set just before.
LEMMA InitIInv == FeedbackInit => FeedbackIInv
BY Timing
DEF FeedbackInit, FeedbackIInv, FeedbackTypeOK, ProbeIsAnswered, SilenceSinceWake, AbortedIsOver, NoFalseAbort,
    NoReply

\* The step that matters: at a wake of a healthy stream the answer to the last
\* status is in, because Delay < Interval; if it has been read, the stream is not too
\* idle.
LEMMA HealthyIsNotIdle ==
  ASSUME FeedbackIInv, running, Flowing, reader # "behind", sleep >= Interval
  PROVE  idle <= Liveness /\ idle <= Interval + Jitter
<1>1. asked = NoReply
  BY Timing DEF FeedbackIInv, FeedbackTypeOK, ProbeIsAnswered, NoReply
<1>2. idle <= sleep /\ sleep <= Interval + Jitter
  BY <1>1, Timing DEF FeedbackIInv, FeedbackTypeOK, ProbeIsAnswered
<1> QED
  BY <1>2, Timing DEF FeedbackIInv, FeedbackTypeOK

\* An abort cuts a link that is dead, or one whose frames wait.
LEMMA AbortsIInv ==
  ASSUME FeedbackIInv, ProbeAborts
  PROVE  FeedbackIInv'
<1>1. conn = "open" => link = "dead" \/ reader = "behind"
  <2> SUFFICES ASSUME conn = "open", link # "dead", reader # "behind"
               PROVE  FALSE
    OBVIOUS
  <2>1. Flowing
    BY DEF Flowing, FeedbackIInv, FeedbackTypeOK
  <2>2. idle <= Liveness
    BY <2>1, HealthyIsNotIdle DEF ProbeAborts
  <2> QED
    BY <2>2, Timing DEF ProbeAborts, TooIdle, FeedbackIInv, FeedbackTypeOK
<1>2. conn # "aborted"
  BY DEF ProbeAborts, FeedbackIInv, AbortedIsOver
<1>3. FeedbackTypeOK'
  BY DEF ProbeAborts, FeedbackIInv, FeedbackTypeOK
<1>4. NoFalseAbort' /\ AbortedIsOver'
  BY <1>1, <1>2 DEF ProbeAborts, NoFalseAbort, AbortedIsOver
<1>5. ProbeIsAnswered' /\ SilenceSinceWake'
  BY DEF ProbeAborts, ProbeIsAnswered, SilenceSinceWake
<1> QED
  BY <1>3, <1>4, <1>5 DEF FeedbackIInv

\* A status resets the loop's sleep; the silence before it was short.
LEMMA SendsIInv ==
  ASSUME FeedbackIInv, ProbeSends
  PROVE  FeedbackIInv'
<1>1. FeedbackTypeOK'
  BY Timing
  DEF ProbeSends, FeedbackIInv, FeedbackTypeOK, StatusSent, IdleAfterSend, NoReply
<1>2. ProbeIsAnswered'
  <2> SUFFICES ASSUME Flowing'
               PROVE  /\ asked' = 0 /\ sleep' = 0
                      /\ reader' = "behind" \/ idle' <= Interval + Jitter
    BY Timing DEF ProbeIsAnswered, NoReply
  <2>1. Flowing
    BY DEF ProbeSends, Flowing
  <2>2. reader = "behind" \/ idle <= Interval + Jitter
    BY <2>1, HealthyIsNotIdle DEF ProbeSends
  <2> QED
    BY <2>1, <2>2 DEF ProbeSends, StatusSent, IdleAfterSend, Flowing
<1>3. SilenceSinceWake'
  BY Timing
  DEF ProbeSends, SilenceSinceWake, TooIdle, IdleAfterSend, FeedbackIInv, FeedbackTypeOK
<1>4. NoFalseAbort' /\ AbortedIsOver'
  BY DEF ProbeSends, FeedbackIInv, NoFalseAbort, AbortedIsOver
<1> QED
  BY <1>1, <1>2, <1>3, <1>4 DEF FeedbackIInv

\* A frame that arrives, and a lookup that begins or ends, keep the invariant: what is
\* read sets the clock back, what waits is behind.
LEMMA TrafficIInv ==
  ASSUME FeedbackIInv, Reply \/ Inbound \/ LookupBegins \/ LookupEnds
  PROVE  FeedbackIInv'
<1>1. FeedbackTypeOK'
  BY Timing DEF Reply, Inbound, Frame, LookupBegins, LookupEnds, FeedbackIInv, FeedbackTypeOK, NoReply
<1>2. /\ sleep \in Nat /\ idle \in Nat
      /\ asked # NoReply => asked \in Nat
      /\ sleep' = sleep /\ asked' \in {asked, NoReply} /\ idle' \in {idle, 0}
      /\ running /\ running' /\ (Flowing' <=> Flowing)
  BY Timing DEF FeedbackIInv, FeedbackTypeOK, Reply, Inbound, Frame, LookupBegins, LookupEnds, Flowing
<1>3. \/ idle' = 0
      \/ reader' = "behind"
      \/ asked' = asked /\ idle' = idle /\ reader # "behind"
  BY DEF Reply, Inbound, Frame, LookupBegins, LookupEnds, FeedbackIInv, FeedbackTypeOK
<1>4. ProbeIsAnswered'
  BY <1>2, <1>3, Timing DEF FeedbackIInv, ProbeIsAnswered
<1>5. SilenceSinceWake'
  BY <1>2, Timing DEF FeedbackIInv, SilenceSinceWake
<1>6. conn' = conn /\ link' = link /\ conn # "aborted"
  BY DEF Reply, Inbound, LookupBegins, LookupEnds, FeedbackIInv, AbortedIsOver
<1>7. NoFalseAbort' /\ AbortedIsOver'
  BY <1>6 DEF NoFalseAbort, AbortedIsOver
<1> QED
  BY <1>1, <1>4, <1>5, <1>7 DEF FeedbackIInv

\* Time passing ages the silence and what is due alike.
LEMMA TickIInv ==
  ASSUME FeedbackIInv, Tick
  PROVE  FeedbackIInv'
<1>1. FeedbackTypeOK'
  BY Timing DEF Tick, FeedbackIInv, FeedbackTypeOK, NoReply
<1>2. /\ sleep \in Nat /\ idle \in Nat
      /\ asked # NoReply => asked \in Nat
      /\ idle' = idle + 1 /\ sleep' = sleep + 1 /\ reader' = reader
      /\ running /\ running' /\ (Flowing' <=> Flowing)
  BY Timing DEF FeedbackIInv, FeedbackTypeOK, Tick, Flowing
<1>3. SilenceSinceWake'
  BY <1>2, Timing DEF FeedbackIInv, SilenceSinceWake
<1>4. ASSUME Flowing, asked = NoReply
      PROVE  asked' = NoReply /\ (reader' = "behind" \/ idle' <= sleep')
  <2>1. reader = "behind" \/ idle <= sleep
    BY <1>2, <1>4 DEF FeedbackIInv, ProbeIsAnswered
  <2> QED
    BY <1>2, <1>4, <2>1 DEF Tick
<1>5. ASSUME Flowing, asked # NoReply
      PROVE  /\ asked' = sleep' /\ asked' # NoReply
             /\ reader' = "behind" \/ idle' <= Interval + Jitter + sleep'
  <2>1. asked = sleep /\ (reader = "behind" \/ idle <= Interval + Jitter + sleep)
    BY <1>2, <1>5 DEF FeedbackIInv, ProbeIsAnswered
  <2> QED
    BY <1>2, <1>5, <2>1, Timing DEF Tick, NoReply
<1>6. ProbeIsAnswered'
  BY <1>2, <1>4, <1>5 DEF ProbeIsAnswered
<1>7. NoFalseAbort' /\ AbortedIsOver'
  BY DEF Tick, FeedbackIInv, NoFalseAbort, AbortedIsOver
<1> QED
  BY <1>1, <1>3, <1>6, <1>7 DEF FeedbackIInv

\* So do the failures of the link and of the connection.
LEMMA FailureIInv ==
  ASSUME FeedbackIInv, ProbeSendFails \/ LinkDies \/ ConnectionLost \/ StreamEnds
  PROVE  FeedbackIInv'
<1>1. FeedbackTypeOK'
  BY DEF ProbeSendFails, LinkDies, ConnectionLost, StreamEnds, FeedbackIInv, FeedbackTypeOK
<1>2. ProbeIsAnswered' /\ SilenceSinceWake'
  BY DEF ProbeSendFails, LinkDies, ConnectionLost, StreamEnds, FeedbackIInv,
         ProbeIsAnswered, SilenceSinceWake, Flowing
<1>3. NoFalseAbort' /\ AbortedIsOver'
  BY DEF ProbeSendFails, LinkDies, ConnectionLost, StreamEnds, FeedbackIInv,
         NoFalseAbort, AbortedIsOver
<1> QED
  BY <1>1, <1>2, <1>3 DEF FeedbackIInv

\* Every step of the probe keeps the invariant.
LEMMA NextIInv == FeedbackIInv /\ [FeedbackNext]_feedbackVars => FeedbackIInv'
<1> SUFFICES ASSUME FeedbackIInv, [FeedbackNext]_feedbackVars
             PROVE  FeedbackIInv'
  OBVIOUS
<1>1. CASE ProbeAborts
  BY <1>1, AbortsIInv
<1>2. CASE ProbeSends
  BY <1>2, SendsIInv
<1>3. CASE Reply \/ Inbound \/ LookupBegins \/ LookupEnds
  BY <1>3, TrafficIInv
<1>4. CASE Tick
  BY <1>4, TickIInv
<1>5. CASE ProbeSendFails \/ LinkDies \/ ConnectionLost \/ StreamEnds
  BY <1>5, FailureIInv
<1>6. CASE UNCHANGED feedbackVars
  BY <1>6 DEF feedbackVars, FeedbackIInv, FeedbackTypeOK, ProbeIsAnswered, SilenceSinceWake, AbortedIsOver,
              NoFalseAbort, Flowing
<1> QED
  BY <1>1, <1>2, <1>3, <1>4, <1>5, <1>6 DEF FeedbackNext, Wake

\* The probe never cuts a healthy stream whose frames are read.
THEOREM FeedbackNoFalseAbort == FeedbackSpec => []NoFalseAbort
<1>1. FeedbackIInv => NoFalseAbort
  BY DEF FeedbackIInv
<1> QED
  BY <1>1, InitIInv, NextIInv, PTL DEF FeedbackSpec

\* No silence lasts longer than its bound while the probe runs.
THEOREM FeedbackSilenceIsBounded == FeedbackSpec => []SilenceIsBounded
<1>1. FeedbackIInv => SilenceIsBounded
  BY Timing DEF FeedbackIInv, FeedbackTypeOK, SilenceSinceWake, SilenceIsBounded
<1> QED
  BY <1>1, InitIInv, NextIInv, PTL DEF FeedbackSpec
==============================================================================
