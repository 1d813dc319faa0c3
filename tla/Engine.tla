------------------------------- MODULE Engine --------------------------------
(***************************************************************************)
(* The part of a feed that does not depend on its transport (engine.py):   *)
(* the bounded Intake, the Debouncer's window with its Coalescer, the pump *)
(* and failsafe tasks, and the queue the consumer reads.                   *)
(*                                                                         *)
(* All of it runs on one event loop, so a step of the model is what runs   *)
(* between two awaits.  pump says where the pump task is:                  *)
(*   "get"    awaiting intake.get() for the first wakeup of a window       *)
(*   "window" running the window's loop; it holds the event loop, because  *)
(*            get_within does not suspend while the queue has an item      *)
(*   "wait"   suspended in get_within, quiet ticks before its timeout      *)
(*   "close"  past the loop, about to emit; it still holds the event loop  *)
(* hard is the time left to the window's hard deadline.  Clocks count down *)
(* to zero and are never urgent: a task may run late.                      *)
(***************************************************************************)
EXTENDS FeedItems

CONSTANTS
  MaxSize,       \* raw_queue_size
  Debounce,      \* debounce, in ticks
  MaxBatchWait,  \* max_batch_wait, in ticks
  Failsafe,      \* whether a failsafe interval is configured
  OutBound       \* bound of the model: the real output queue is unbounded

\* What validate_feed_params accepts.
ValidParams ==
  /\ MaxSize >= 1
  /\ Debounce >= 0
  /\ MaxBatchWait >= 0

ASSUME EngineAssumption ==
  /\ {MaxSize, Debounce, MaxBatchWait} \subseteq Int
  /\ ValidParams
  /\ Failsafe \in BOOLEAN
  /\ OutBound \in Nat \ {0}

VARIABLES
  queue,       \* Intake.queue
  overflowed,  \* Intake.overflowed
  pump,        \* where the pump task is
  pending,     \* the payloads in Coalescer.pending
  hard,        \* ticks left until hard_deadline
  quiet,       \* ticks left in the current get_within
  out,         \* FeedService.out
  stale        \* history: tables that changed after the consumer last refetched them

intakeVars == <<queue, overflowed>>
windowVars == <<pump, pending, hard, quiet>>
vars == <<queue, overflowed, pump, pending, hard, quiet, out, stale>>

EngineInit ==
  /\ queue = <<>>
  /\ overflowed = FALSE
  /\ pump = "get"
  /\ pending = {}
  /\ hard = 0
  /\ quiet = 0
  /\ out = <<>>

Init == EngineInit /\ stale = {}

------------------------------------------------------------------------------
\* Seeded faults: variants of the definitions below, used to show that the
\* properties notice them.

\* A full queue is noticed one wakeup too late.
IntakePushOffByOne(p) ==
  IF Len(queue) <= MaxSize
    THEN queue' = Append(queue, p) /\ UNCHANGED overflowed
    ELSE overflowed' = TRUE /\ UNCHANGED queue

\* A full queue drops the wakeup without raising the flag.
IntakePushDropsQuietly(p) ==
  /\ queue' = IF Len(queue) < MaxSize THEN Append(queue, p) ELSE queue
  /\ UNCHANGED overflowed

\* The queue is drained and the flag left up.
TakeOverflowKeepsFlag ==
  /\ overflowed
  /\ queue' = <<>>
  /\ UNCHANGED overflowed

\* The flag is looked at when a window opens and not when it closes.
NoOverflowAtClose == FALSE

\* get_within bounded by debounce alone, the hard deadline forgotten.
RemainingIgnoresDeadline == Debounce

\* A get_within that times out takes an item with it (the cancelled get() of a
\* wait_for).
WaitTimesOutDropping ==
  /\ pump = "wait"
  /\ quiet = 0
  /\ pump' = "close"
  /\ queue' = IF queue = <<>> THEN <<>> ELSE Tail(queue)
  /\ UNCHANGED <<overflowed, pending, hard, quiet, out, stale>>

------------------------------------------------------------------------------
\* The pump holds the event loop: no other task or callback can run.
LoopIsFree == pump \in {"get", "wait"}

\* Intake.push: never blocks; a full queue drops the wakeup and raises the flag.
IntakePush(p) ==
  IF Len(queue) < MaxSize
    THEN queue' = Append(queue, p) /\ UNCHANGED overflowed
    ELSE overflowed' = TRUE /\ UNCHANGED queue

\* A transport hands over the name of a changed table.
Receive(p) ==
  /\ LoopIsFree
  /\ IntakePush(p)
  /\ UNCHANGED <<windowVars, out>>

\* On its own, the engine takes a table to change when its name is pushed.
Push(p) == Receive(p) /\ stale' = stale \cup {p}

\* Intake.consume_overflow when it returns True: the flag is cleared and the
\* queue drained in the same step.
TakeOverflow ==
  /\ overflowed
  /\ overflowed' = FALSE
  /\ queue' = <<>>

\* min(debounce, hard_deadline - now)
Remaining == IF Debounce < hard THEN Debounce ELSE hard

\* intake.get() returns.  Overflow turns the whole backlog, the wakeup in hand
\* included, into a Resync; otherwise the wakeup opens a window.
PumpGets ==
  /\ pump = "get"
  /\ queue # <<>>
  /\ Len(out) < OutBound
  /\ \/ /\ TakeOverflow
        /\ out' = Append(out, Resync("overflow"))
        /\ UNCHANGED windowVars
     \/ /\ ~overflowed
        /\ queue' = Tail(queue)
        /\ pending' = {Head(queue)}
        /\ hard' = MaxBatchWait
        /\ pump' = "window"
        /\ UNCHANGED <<overflowed, quiet, out>>
  /\ UNCHANGED stale

\* get_within finds an item: no suspension, round the loop again.
WindowTakes ==
  /\ pump = "window"
  /\ Remaining > 0
  /\ queue # <<>>
  /\ queue' = Tail(queue)
  /\ pending' = pending \cup {Head(queue)}
  /\ UNCHANGED <<overflowed, pump, hard, quiet, out, stale>>

\* get_within finds nothing and suspends.
WindowWaits ==
  /\ pump = "window"
  /\ Remaining > 0
  /\ queue = <<>>
  /\ pump' = "wait"
  /\ quiet' = Remaining
  /\ UNCHANGED <<intakeVars, pending, hard, out, stale>>

\* The window's time is up.
WindowExpires ==
  /\ pump = "window"
  /\ Remaining <= 0
  /\ pump' = "close"
  /\ UNCHANGED <<intakeVars, pending, hard, quiet, out, stale>>

\* A push wakes the pump from get_within.
WaitGets ==
  /\ pump = "wait"
  /\ queue # <<>>
  /\ queue' = Tail(queue)
  /\ pending' = pending \cup {Head(queue)}
  /\ pump' = "window"
  /\ UNCHANGED <<overflowed, hard, quiet, out, stale>>

\* get_within times out.  An item that arrived in the same turn of the loop
\* stays in the queue: the cancelled get() does not take it.
WaitTimesOut ==
  /\ pump = "wait"
  /\ quiet = 0
  /\ pump' = "close"
  /\ UNCHANGED <<intakeVars, pending, hard, quiet, out, stale>>

\* The flag is looked at again when the window closes.
OverflowAtClose == overflowed

\* The end of next_item: an overflow during the window supersedes its Batch.
CloseWindow ==
  /\ pump = "close"
  /\ \/ /\ OverflowAtClose
        /\ TakeOverflow
        /\ out' = Append(out, Resync("overflow"))
     \/ /\ ~OverflowAtClose
        /\ out' = Append(out, Batch(pending))
        /\ UNCHANGED intakeVars
  /\ pending' = {}
  /\ hard' = 0
  /\ quiet' = 0
  /\ pump' = "get"
  /\ UNCHANGED stale

\* One tick of the clock while a window is open.
Tick ==
  /\ pump # "get"
  /\ hard > 0 \/ quiet > 0
  /\ hard' = IF hard > 0 THEN hard - 1 ELSE 0
  /\ quiet' = IF quiet > 0 THEN quiet - 1 ELSE 0
  /\ UNCHANGED <<intakeVars, pump, pending, out, stale>>

\* FeedService.emit from outside the pump.  One place is left to the pump, so
\* that OutBound never blocks a window that is open.
Emit(r) ==
  /\ LoopIsFree
  /\ Len(out) + 1 < OutBound
  /\ out' = Append(out, Resync(r))
  /\ UNCHANGED <<intakeVars, windowVars, stale>>

FailsafeFires == Failsafe /\ Emit("failsafe")

\* A transport announces a (re)connect.
TransportResyncs == \E r \in {"connected", "reconnected"} : Emit(r)

\* The consumer reads an item and refetches what it covers.
Consume ==
  /\ LoopIsFree
  /\ out # <<>>
  /\ out' = Tail(out)
  /\ stale' = stale \ Covers(Head(out))
  /\ UNCHANGED <<intakeVars, windowVars>>

PumpStep ==
  \/ PumpGets
  \/ WindowTakes \/ WindowWaits \/ WindowExpires
  \/ WaitGets \/ WaitTimesOut
  \/ CloseWindow

Next ==
  \/ \E p \in Payload : Push(p)
  \/ PumpStep
  \/ Tick
  \/ FailsafeFires
  \/ TransportResyncs
  \/ Consume

Spec == Init /\ [][Next]_vars

\* Time passes, the event loop runs every task that is ready, the consumer keeps
\* reading (strong fairness: a busy pump takes the loop again and again, but
\* never keeps it).  Nothing is assumed of the transport or of the failsafe timer.
FairSpec == Spec /\ WF_vars(PumpStep) /\ WF_vars(Tick) /\ SF_vars(Consume)

------------------------------------------------------------------------------
TypeOK ==
  /\ queue \in Seq(Payload)
  /\ Len(queue) <= MaxSize
  /\ overflowed \in BOOLEAN
  /\ pump \in {"get", "window", "wait", "close"}
  /\ pending \in SUBSET Payload
  /\ hard \in 0..MaxBatchWait
  /\ quiet \in 0..Debounce
  /\ out \in Seq(FeedItem)
  /\ stale \in SUBSET Payload

\* What the engine has taken in and not yet emitted: after an overflow it owes
\* everything, because it no longer knows what it dropped.
Owed == IF overflowed THEN Payload ELSE Range(queue) \cup pending

\* A change that was pushed is never lost in silence, whatever the order of
\* pushes, timeouts and overflows: it is queued, in the open window, flagged as
\* overflow, or announced by an item the consumer has yet to read (Intake,
\* Debouncer.next_item).
NoSilentLoss == stale \subseteq Owed \cup Announced(out)

\* The overflow flag is never stranded: while the pump sleeps in intake.get()
\* with the flag up there is an item in the queue to wake it (next_item looks at
\* the flag only after a wakeup).
OverflowIsServed == overflowed => pump # "get" \/ queue # <<>>

\* The inductive invariant: an open window holds the wakeup that opened it, so no
\* Batch is empty, and a closed one has left nothing behind.
WindowHoldsItsNames == (pending # {}) <=> (pump # "get")

IInv == TypeOK /\ WindowHoldsItsNames /\ OverflowIsServed

Contract == INSTANCE FeedContract WITH owed <- Owed

\* The engine implements the abstract feed contract.
ContractSpec == Contract!Spec

\* A window ends even under a stream of pushes that never lets the debounce
\* period pass: the hard deadline caps it (max_batch_wait).
WindowCloses == pump # "get" ~> pump = "get"

\* Every change reaches the consumer: a stale table is refetched in the end.
EveryChangeArrives == \A p \in Payload : p \in stale ~> p \notin stale
==============================================================================
