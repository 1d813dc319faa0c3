----------------------------- MODULE FeedService ------------------------------
(***************************************************************************)
(* The lifecycle of a feed: FeedService's tasks, their failure and their   *)
(* shutdown, the sentinel that ends the consumer, and the supervisor as a  *)
(* task that a cancellation meets at whatever await it is in (engine.py;   *)
(* the supervisor's shape is that of wal.py, which raw.py repeats).        *)
(*                                                                         *)
(* A step is what runs between two awaits.  Items are all alike here: what *)
(* they say is Engine's business.                                          *)
(***************************************************************************)
EXTENDS Integers, Sequences

CONSTANTS
  Consumers,  \* the tasks that iterate the feed: one, as its examples have it
  OutBound    \* bound of the model: the real output queue is unbounded

ASSUME ServiceAssumption == OutBound \in Nat \ {0}

Tasks == {"supervisor", "pump", "failsafe"}

VARIABLES
  started,   \* FeedService.started
  closing,   \* FeedService.closing
  error,     \* FeedService.error is set
  delivered, \* FeedService.error_delivered
  task,      \* each task: "new", "running", "cancelling" (cancel() was called and
             \* CancelledError has yet to be raised in it), "died" (its exception
             \* has yet to reach _on_task_done), "ended"
  sup,       \* where the supervisor is
  out,       \* FeedService.out: a sequence of "item" and "none"
  consumer,  \* each consumer: "idle", "blocked" in out.get(), "stopped", "raised"
  closer,    \* aclose(): "idle", "gather", "cancelled" in its gather, "abandoned" (its
             \* CancelledError has left it), "returned"
  late,      \* history: the tasks were started after aclose() was called
  swallowed, \* history: a wait_for has swallowed the supervisor's cancellation
  raises     \* history: how often the iterator raised a task's exception

flags == <<started, closing, error, delivered>>
vars == <<started, closing, error, delivered, task, sup, out, consumer, closer,
          late, swallowed, raises>>

history == <<late, swallowed, raises>>

Init ==
  /\ started = FALSE
  /\ closing = FALSE
  /\ error = FALSE
  /\ delivered = FALSE
  /\ task = [t \in Tasks |-> "new"]
  /\ sup = "connect"
  /\ out = <<>>
  /\ consumer = [c \in Consumers |-> "idle"]
  /\ closer = "idle"
  /\ late = FALSE
  /\ swallowed = FALSE
  /\ raises = 0

Alive(t) == task[t] \in {"running", "cancelling"}

Room == Len(out) < OutBound

------------------------------------------------------------------------------
\* Seeded faults.

\* The supervisor's loop does not look at _closing after a stream has ended.
ContinuesRegardless == TRUE

\* aclose() queues the sentinel without waiting for the tasks.
TasksNotAwaited == TRUE

\* The exception itself is queued in place of the sentinel.
DeathQueuesException == Append(out, "error")

\* A dead task is captured and logged, and the consumer is not woken.
DeathWakesNobody == out

\* __anext__ skips a None that is not an error, and asks for the next item.
EndOfFeedSkipsNone(c) ==
  IF error /\ ~closing /\ ~delivered
    THEN /\ consumer' = [consumer EXCEPT ![c] = "raised"]
         /\ delivered' = TRUE
         /\ raises' = raises + 1
    ELSE /\ consumer' = [consumer EXCEPT ![c] = "idle"]
         /\ UNCHANGED <<delivered, raises>>

\* next_item goes by closing alone.
TerminalIfClosing == closing

\* The captured exception is raised whenever a None is taken.
RaisesEveryTime == error

------------------------------------------------------------------------------
\* FeedService.start, from __aiter__ or __aenter__.  It asks only whether the
\* tasks exist, not whether the feed was closed before.
Start ==
  /\ ~started
  /\ started' = TRUE
  /\ task' = [t \in Tasks |-> IF closing /\ t = "supervisor" THEN "ended" ELSE "running"]
  /\ late' = closing
  /\ UNCHANGED <<closing, error, delivered, sup, out, consumer, closer, swallowed, raises>>

\* A task emits an item: the pump a window, the failsafe its Resync, the
\* supervisor its Resync in SetupDone.
Emit(t) ==
  /\ t \in {"pump", "failsafe"}
  /\ task[t] = "running"
  /\ Room
  /\ out' = Append(out, "item")
  /\ UNCHANGED <<flags, task, sup, consumer, closer, history>>

\* A task other than the supervisor is cancelled at its await.
TaskCancelled(t) ==
  /\ t \in {"pump", "failsafe"}
  /\ task[t] = "cancelling"
  /\ task' = [task EXCEPT ![t] = "ended"]
  /\ UNCHANGED <<flags, sup, out, consumer, closer, history>>

\* An uncaught exception in the body of any task, the pump, the failsafe or the
\* supervisor: a bug, not a connection failure.
Dies(t) ==
  /\ Alive(t)
  /\ task' = [task EXCEPT ![t] = "died"]
  /\ UNCHANGED <<flags, sup, out, consumer, closer, history>>

\* The sentinel that wakes a consumer blocked in out.get().
DeathSentinel == Append(out, "none")

\* FeedService._on_task_done, a callback of the loop: the feed may have been
\* closed between the death and the call.
OnTaskDone(t) ==
  /\ task[t] = "died"
  /\ task' = [task EXCEPT ![t] = "ended"]
  /\ IF closing \/ error
       THEN UNCHANGED <<error, out>>
       ELSE error' = TRUE /\ out' = DeathSentinel
  /\ UNCHANGED <<started, closing, delivered, sup, consumer, closer, history>>

------------------------------------------------------------------------------
\* The supervisor, outside of a cancellation.
SupMoves(from, to) ==
  /\ task["supervisor"] = "running"
  /\ sup = from
  /\ sup' = to
  /\ UNCHANGED <<flags, task, out, consumer, closer, history>>

ConnectFails == SupMoves("connect", "pause")

ConnectDone == SupMoves("connect", "setup")

\* The stream goes live and its Resync is emitted.
SetupDone ==
  /\ task["supervisor"] = "running"
  /\ sup = "setup"
  /\ Room
  /\ sup' = "stream"
  /\ out' = Append(out, "item")
  /\ UNCHANGED <<flags, task, consumer, closer, history>>

\* A connection error ends the stream: _feedback_running cancels the feedback task
\* and awaits it.
StreamFails == SupMoves("stream", "teardown")

\* "if not self._closing: pause", and the loop's own test of _closing.
LoopContinues == ~closing

\* The end of a round: back off and go round again, unless the feed is closing.
RoundEnds(cancelled) ==
  /\ IF LoopContinues
       THEN sup' = "pause" /\ task' = [task EXCEPT !["supervisor"] = "running"]
       ELSE sup' = sup /\ task' = [task EXCEPT !["supervisor"] = "ended"]
  /\ task["supervisor"] = IF cancelled THEN "cancelling" ELSE "running"
  /\ UNCHANGED <<flags, out, consumer, closer, history>>

SetupFails == sup = "setup" /\ RoundEnds(FALSE)

TeardownDone == sup = "teardown" /\ RoundEnds(FALSE)

\* The pause is over: "while not self._closing".
PauseDone ==
  /\ task["supervisor"] = "running"
  /\ sup = "pause"
  /\ IF LoopContinues
       THEN sup' = "connect" /\ UNCHANGED task
       ELSE UNCHANGED sup /\ task' = [task EXCEPT !["supervisor"] = "ended"]
  /\ UNCHANGED <<flags, out, consumer, closer, history>>

\* CancelledError is raised at the supervisor's await and leaves its coroutine.
SupCancelled ==
  /\ task["supervisor"] = "cancelling"
  /\ sup \in {"connect", "setup", "pause", "unwind"}
  /\ task' = [task EXCEPT !["supervisor"] = "ended"]
  /\ UNCHANGED <<flags, sup, out, consumer, closer, history>>

\* In the read loop it first runs _feedback_running's finally, which awaits the
\* feedback task.
SupUnwinds ==
  /\ task["supervisor"] = "cancelling"
  /\ sup = "stream"
  /\ sup' = "unwind"
  /\ UNCHANGED <<flags, task, out, consumer, closer, history>>

\* In that finally, after a connection error, it is taken for the feedback task's
\* own CancelledError and suppressed: the supervisor goes on to the end of its round.
TeardownSwallows == sup = "teardown" /\ RoundEnds(TRUE)

\* In connect(), the wait_for of Python 3.11 returns its result instead if that is
\* ready in the same turn of the loop: the cancel is gone.  (That of 3.12 does not.)
ConnectSwallows ==
  /\ task["supervisor"] = "cancelling"
  /\ sup = "connect"
  /\ sup' = "setup"
  /\ task' = [task EXCEPT !["supervisor"] = "running"]
  /\ swallowed' = TRUE
  /\ UNCHANGED <<flags, out, consumer, closer, late, raises>>

CancelSupervisor == SupCancelled \/ SupUnwinds \/ TeardownSwallows \/ ConnectSwallows

Supervise ==
  \/ ConnectFails \/ ConnectDone
  \/ SetupDone \/ SetupFails
  \/ StreamFails
  \/ TeardownDone \/ PauseDone

------------------------------------------------------------------------------
\* aclose(), up to its gather: closing is set and every task asked to cancel in
\* one step.
Close ==
  /\ closer = "idle"
  /\ closing' = TRUE
  /\ closer' = "gather"
  /\ task' = [t \in Tasks |-> IF task[t] = "running" THEN "cancelling" ELSE task[t]]
  /\ UNCHANGED <<started, error, delivered, sup, out, consumer, history>>

\* The task that awaits aclose() is cancelled.  gather passes that on to the tasks and
\* goes on waiting for them.
CloseCancelled ==
  /\ closer = "gather"
  /\ started
  /\ ~late
  /\ closer' = "cancelled"
  /\ task' = [t \in Tasks |-> IF task[t] = "running" THEN "cancelling" ELSE task[t]]
  /\ UNCHANGED <<flags, sup, out, consumer, history>>

\* What gather waits for: the tasks there were when aclose() was called.  Their
\* _on_task_done was registered first and so has run before gather returns.
TasksGathered == late \/ \A t \in Tasks : task[t] \in {"new", "ended"}

\* gather returns and aclose() queues the sentinel.
CloseReturns ==
  /\ closer = "gather"
  /\ TasksGathered
  /\ closer' = "returned"
  /\ out' = Append(out, "none")
  /\ UNCHANGED <<flags, task, sup, consumer, history>>

\* gather raises and aclose() leaves without its sentinel.  closing stays set, so that a
\* later aclose() returns at once: none will queue it.
CloseAbandoned ==
  /\ closer = "cancelled"
  /\ TasksGathered
  /\ closer' = "abandoned"
  /\ UNCHANGED <<flags, task, sup, out, consumer, history>>

------------------------------------------------------------------------------
\* What __anext__ does with a None: raise a dead task's exception, once, or stop.
Raises == error /\ ~closing /\ ~delivered

EndOfFeed(c) ==
  IF Raises
    THEN /\ consumer' = [consumer EXCEPT ![c] = "raised"]
         /\ delivered' = TRUE
         /\ raises' = raises + 1
    ELSE /\ consumer' = [consumer EXCEPT ![c] = "stopped"]
         /\ UNCHANGED <<delivered, raises>>

Terminal == closing \/ error

\* FeedService.next_item: None at once if the feed is over and drained, otherwise
\* wait for the queue.
NextItem(c) ==
  /\ started
  /\ consumer[c] = "idle"
  /\ IF Terminal /\ out = <<>>
       THEN EndOfFeed(c)
       ELSE consumer' = [consumer EXCEPT ![c] = "blocked"] /\ UNCHANGED <<delivered, raises>>
  /\ UNCHANGED <<started, closing, error, task, sup, out, closer, late, swallowed>>

\* out.get() returns.
Take(c) ==
  /\ consumer[c] = "blocked"
  /\ out # <<>>
  /\ out' = Tail(out)
  /\ IF Head(out) = "none"
       THEN EndOfFeed(c)
       ELSE consumer' = [consumer EXCEPT ![c] = "idle"] /\ UNCHANGED <<delivered, raises>>
  /\ UNCHANGED <<started, closing, error, task, sup, closer, late, swallowed>>

\* The application iterates a feed again that has ended.
IterateAgain(c) ==
  /\ consumer[c] \in {"stopped", "raised"}
  /\ consumer' = [consumer EXCEPT ![c] = "idle"]
  /\ UNCHANGED <<flags, task, sup, out, closer, history>>

Next ==
  \/ Start
  \/ \E t \in Tasks : Emit(t) \/ TaskCancelled(t) \/ Dies(t) \/ OnTaskDone(t)
  \/ Supervise
  \/ CancelSupervisor
  \/ Close
  \/ CloseReturns
  \/ CloseCancelled
  \/ CloseAbandoned
  \/ \E c \in Consumers : NextItem(c) \/ Take(c) \/ IterateAgain(c)

Spec == Init /\ [][Next]_vars

\* The event loop runs what is ready: cancellations, callbacks, the supervisor's
\* bounded waits (a connect has its timeout, a pause its delay), the consumer.  A
\* stream that is live may stay live for ever, and nothing has to fail.
FairSpec ==
  /\ Spec
  /\ \A t \in Tasks : WF_vars(TaskCancelled(t)) /\ WF_vars(OnTaskDone(t))
  /\ WF_vars(CancelSupervisor)
  /\ WF_vars(ConnectFails \/ ConnectDone)
  /\ WF_vars(SetupDone \/ SetupFails)
  /\ WF_vars(TeardownDone)
  /\ WF_vars(PauseDone)
  /\ WF_vars(CloseReturns \/ CloseAbandoned)
  /\ \A c \in Consumers : WF_vars(NextItem(c)) /\ WF_vars(Take(c))

------------------------------------------------------------------------------
TypeOK ==
  /\ started \in BOOLEAN
  /\ closing \in BOOLEAN
  /\ error \in BOOLEAN
  /\ delivered \in BOOLEAN
  /\ task \in [Tasks -> {"new", "running", "cancelling", "died", "ended"}]
  /\ sup \in {"connect", "setup", "stream", "teardown", "unwind", "pause"}
  /\ out \in Seq({"item", "none"})
  /\ consumer \in [Consumers -> {"idle", "blocked", "stopped", "raised"}]
  /\ closer \in {"idle", "gather", "cancelled", "abandoned", "returned"}
  /\ late \in BOOLEAN
  /\ swallowed \in BOOLEAN
  /\ raises \in Nat

\* The inductive invariant the proofs rest on, with what the properties below add to
\* it.  closing is set by aclose() and by nothing else.
ClosedByClose == closing <=> closer # "idle"

\* There are no tasks before start(), and it is late only after aclose().
NoTasksBeforeStart ==
  /\ ~started => ~late /\ \A t \in Tasks : task[t] = "new"
  /\ late => started /\ closing

\* Whoever has raised an exception has marked it as delivered.
RaisedIsDelivered == raises # 0 => delivered

\* A blocked consumer of a feed that is over has a sentinel coming, or an item before it.
SentinelAwaits ==
  (error \/ closer = "returned") /\ (\E c \in Consumers : consumer[c] = "blocked") => out # <<>>

IInv == TypeOK /\ ClosedByClose /\ NoTasksBeforeStart /\ RaisedIsDelivered

Blocked == out = <<>> /\ \E c \in Consumers : consumer[c] = "blocked"

\* Nobody waits on a queue that will never be filled: a consumer blocked on an
\* empty queue belongs to a feed that has neither lost a task nor been closed, in
\* whatever order a death, its callback, aclose() and the calls of __anext__ came.
\* (One sentinel wakes one consumer: a second one is left behind.)
NobodyBlockedForGood == Blocked => ~error /\ closer # "returned"

\* A task's exception surfaces at most once, and never after aclose(): "aclose()
\* never re-raises", "re-raised once" (BaseFeed, FeedService).
RaisesOnce == [][raises' # raises => raises = 0 /\ ~closing]_vars

\* The same for a feed whose aclose() was cancelled: next_item is to return "None once
\* closed (or dead) and drained".
NobodyBlockedOnceClosed == Blocked => ~error /\ closer \notin {"returned", "abandoned"}

\* aclose() is over, one way or the other.
CloserIsDone == closer \in {"returned", "abandoned"}

\* When aclose() is over, every task it knew of is over, its callback too, and nothing
\* has been queued behind the sentinel, if it queued one.  (Tasks started only
\* afterwards are nobody's to cancel.)
ClosedIsQuiet ==
  CloserIsDone /\ ~late =>
    /\ \A t \in Tasks : task[t] \in {"new", "ended"}
    /\ closer = "returned" /\ out # <<>> => out[Len(out)] = "none"

\* aclose() ends: a cancellation reaches the supervisor at whatever await, the one that
\* _feedback_running swallows included, unless a wait_for swallows it.
CloseEndsUnlessSwallowed == closing ~> CloserIsDone \/ swallowed

\* The same for every Python the project supports (engine.py, get_within: a wait_for
\* there would leave "the pump task uncancellable and aclose() hanging").
CloseEnds == closing ~> CloserIsDone

\* A task's death ends the iteration with its exception, unless the feed is closed.
DeathSurfaces == error ~> delivered \/ closing

\* An async for over a feed that was started and then closed ends, if aclose() does and
\* is not cancelled.  (One started after its aclose() is not so lucky: its failsafe task
\* is nobody's to cancel.)
ClosedFeedStops ==
  closing /\ started /\ ~late ~>
    \/ swallowed \/ closer = "abandoned"
    \/ \A c \in Consumers : consumer[c] \in {"stopped", "raised"}

\* However the feed ends, by a task's death or by aclose(), the consumer learns of it.
EndReachesConsumer == DeathSurfaces /\ ClosedFeedStops
==============================================================================
