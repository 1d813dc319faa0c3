---------------------------- MODULE WalFeedProofs -----------------------------
(***************************************************************************)
(* The engine and the logical feed built on it.  For every queue size,     *)
(* debounce, deadline and set of tables the engine keeps its types, never  *)
(* strands the overflow flag, implements FeedContract, and so never loses  *)
(* a change in silence.  Whatever the order of commits, sessions, frames   *)
(* and failures, so does the logical feed, and its counters tell the       *)
(* truth.  What a step does to the engine's invariant and to the contract  *)
(* is said of each action on its own, because the feed's steps are made    *)
(* of them.                                                                *)
(***************************************************************************)
EXTENDS WalFeed, TLAPS

\* The feed's parameters, as the proofs use them (validate_feed_params).
LEMMA Params ==
  /\ MaxSize \in Nat \ {0} /\ Debounce \in Nat /\ MaxBatchWait \in Nat
  /\ Failsafe \in BOOLEAN
  /\ OutBound \in Nat \ {0}
BY EngineAssumption DEF ValidParams

\* Queueing a wakeup adds its table to what is queued (Intake.push).
LEMMA QueuedAppend ==
  ASSUME NEW q \in Seq(Payload), NEW p \in Payload
  PROVE  Range(Append(q, p)) = Range(q) \cup {p}
<1> DEFINE r == Append(q, p)
<1>1. DOMAIN r = 1..Len(q) + 1 /\ DOMAIN q = 1..Len(q) /\ Len(q) \in Nat
  OBVIOUS
<1>2. \A i \in 1..Len(q) : r[i] = q[i]
  OBVIOUS
<1>3. r[Len(q) + 1] = p
  OBVIOUS
<1> HIDE DEF r
<1>4. Range(r) = Range(q) \cup {p}
  BY <1>1, <1>2, <1>3 DEF Range
<1> QED
  BY <1>4 DEF r

\* Taking a wakeup loses no other table (Intake.get).
LEMMA QueuedTail ==
  ASSUME NEW q \in Seq(Payload), q # <<>>
  PROVE  Range(q) = {Head(q)} \cup Range(Tail(q))
<1> DEFINE r == Tail(q)
<1>1. /\ DOMAIN q = 1..Len(q)
      /\ DOMAIN r = 1..Len(q) - 1
      /\ Len(q) \in Nat \ {0}
  OBVIOUS
<1>2. \A i \in 1..Len(q) - 1 : r[i] = q[i + 1]
  OBVIOUS
<1>3. Head(q) = q[1]
  OBVIOUS
<1> HIDE DEF r
<1>4. ASSUME NEW x \in Range(q)
      PROVE  x \in {Head(q)} \cup Range(r)
  <2>1. PICK i \in 1..Len(q) : x = q[i]
    BY <1>1 DEF Range
  <2>2. CASE i = 1
    BY <2>1, <2>2, <1>3
  <2>3. CASE i # 1
    <3>1. i - 1 \in 1..Len(q) - 1 /\ r[i - 1] = x
      BY <2>1, <2>3, <1>1, <1>2
    <3> QED
      BY <3>1, <1>1 DEF Range
  <2> QED
    BY <2>2, <2>3
<1>5. {Head(q)} \cup Range(r) \subseteq Range(q)
  <2>1. \A i \in 1..Len(q) - 1 : i + 1 \in 1..Len(q)
    BY <1>1
  <2> QED
    BY <2>1, <1>1, <1>2, <1>3 DEF Range
<1>6. Range(q) = {Head(q)} \cup Range(r)
  BY <1>4, <1>5
<1> QED
  BY <1>6 DEF r

\* What is queued is a set of tables.
LEMMA QueuedType ==
  ASSUME NEW q \in Seq(Payload)
  PROVE  Range(q) \in SUBSET Payload
BY DEF Range

\* A drained queue is a queue (Intake.drain).
LEMMA Drained ==
  ASSUME NEW S, NEW n \in Nat
  PROVE  <<>> \in Seq(S) /\ Len(<<>>) <= n
OBVIOUS

\* Emitted items are feed items (core.py).
LEMMA EmittedTypes ==
  ASSUME TypeOK
  PROVE  /\ \A S \in SUBSET Payload : Append(out, Batch(S)) \in Seq(FeedItem)
         /\ \A r \in Reasons : Append(out, Resync(r)) \in Seq(FeedItem)
<1>1. /\ \A S \in SUBSET Payload : Batch(S) \in FeedItem
      /\ \A r \in Reasons : Resync(r) \in FeedItem
  BY DEF Batch, Resync, FeedItem
<1> HIDE DEF Batch, Resync, FeedItem
<1> QED
  BY <1>1 DEF TypeOK

------------------------------------------------------------------------------
\* The invariant.

LEMMA InitIInv == EngineInit /\ stale \in SUBSET Payload => IInv
<1> SUFFICES ASSUME EngineInit, stale \in SUBSET Payload
             PROVE  IInv
  OBVIOUS
<1>1. queue \in Seq(Payload) /\ Len(queue) <= MaxSize
  BY Params, Drained DEF EngineInit
<1>2. out \in Seq(FeedItem)
  BY Drained DEF EngineInit
<1>3. hard \in 0..MaxBatchWait /\ quiet \in 0..Debounce
  BY Params DEF EngineInit
<1> QED
  BY <1>1, <1>2, <1>3 DEF EngineInit, IInv, TypeOK, WindowHoldsItsNames, OverflowIsServed

\* A push: either the wakeup is queued or the flag goes up over a queue that is full,
\* hence not empty (Intake.push).
LEMMA ReceiveIInv ==
  ASSUME IInv, NEW p \in Payload, Receive(p), stale' \in SUBSET Payload
  PROVE  IInv'
<1>1. /\ queue' \in Seq(Payload) /\ Len(queue') <= MaxSize /\ queue' # <<>>
      /\ overflowed' \in BOOLEAN
  <2>1. CASE Len(queue) < MaxSize
    BY <2>1, Params DEF Receive, IntakePush, IInv, TypeOK
  <2>2. CASE ~(Len(queue) < MaxSize)
    BY <2>2, Params DEF Receive, IntakePush, IInv, TypeOK
  <2> QED
    BY <2>1, <2>2
<1>2. UNCHANGED <<pump, pending, hard, quiet, out>>
  BY DEF Receive, windowVars
<1> QED
  BY <1>1, <1>2 DEF IInv, TypeOK, WindowHoldsItsNames, OverflowIsServed

\* The first wakeup of a window, or the overflow found in its place.
LEMMA PumpGetsIInv ==
  ASSUME IInv, PumpGets
  PROVE  IInv'
<1>1. CASE TakeOverflow /\ out' = Append(out, Resync("overflow")) /\ UNCHANGED windowVars
  BY <1>1, EmittedTypes, Params, Drained
  DEF IInv, TypeOK, WindowHoldsItsNames, OverflowIsServed, TakeOverflow, windowVars,
      PumpGets, Reasons
<1>2. CASE /\ ~overflowed
           /\ queue' = Tail(queue)
           /\ pending' = {Head(queue)}
           /\ hard' = MaxBatchWait
           /\ pump' = "window"
           /\ UNCHANGED <<overflowed, quiet, out>>
  <2>1. /\ queue' \in Seq(Payload)
        /\ Len(queue') <= MaxSize
        /\ Head(queue) \in Payload
    BY <1>2, Params DEF IInv, TypeOK, PumpGets
  <2> QED
    BY <1>2, <2>1, Params
    DEF IInv, TypeOK, PumpGets, WindowHoldsItsNames, OverflowIsServed
<1> QED
  BY <1>1, <1>2 DEF PumpGets

\* A wakeup moved from the queue to the open window.
LEMMA TakeIInv ==
  ASSUME IInv, WindowTakes \/ WaitGets
  PROVE  IInv'
<1>1. /\ queue # <<>>
      /\ queue' = Tail(queue)
      /\ pending' = pending \cup {Head(queue)}
      /\ pump' = "window"
      /\ UNCHANGED <<overflowed, hard, quiet, out, stale>>
  BY DEF WindowTakes, WaitGets
<1>2. /\ queue' \in Seq(Payload)
      /\ Len(queue') <= MaxSize
      /\ Head(queue) \in Payload
  BY <1>1, Params DEF IInv, TypeOK
<1> QED
  BY <1>1, <1>2 DEF IInv, TypeOK, WindowHoldsItsNames, OverflowIsServed

\* The steps that only move the pump or the clocks.
LEMMA WindowMovesIInv ==
  ASSUME IInv, WindowWaits \/ WindowExpires \/ WaitTimesOut \/ Tick
  PROVE  IInv'
<1>1. /\ UNCHANGED <<queue, overflowed, pending, out, stale>>
      /\ pump # "get"
      /\ pump' \in {"window", "wait", "close"}
  BY DEF WindowWaits, WindowExpires, WaitTimesOut, Tick, intakeVars, IInv, TypeOK
<1>2. hard' \in 0..MaxBatchWait /\ quiet' \in 0..Debounce
  <2>1. CASE WindowWaits
    BY <2>1, Params DEF WindowWaits, Remaining, IInv, TypeOK
  <2>2. CASE WindowExpires \/ WaitTimesOut
    BY <2>2 DEF WindowExpires, WaitTimesOut, IInv, TypeOK
  <2>3. CASE Tick
    BY <2>3, Params DEF Tick, IInv, TypeOK
  <2> QED
    BY <2>1, <2>2, <2>3
<1> QED
  BY <1>1, <1>2 DEF IInv, TypeOK, WindowHoldsItsNames, OverflowIsServed

\* The end of a window: its Batch, or a Resync in its place.
LEMMA CloseWindowIInv ==
  ASSUME IInv, CloseWindow
  PROVE  IInv'
<1>1. pending \in SUBSET Payload /\ hard' \in 0..MaxBatchWait /\ quiet' \in 0..Debounce
  BY Params DEF IInv, TypeOK, CloseWindow
<1>2. CASE TakeOverflow /\ out' = Append(out, Resync("overflow"))
  BY <1>1, <1>2, EmittedTypes, Params, Drained
  DEF IInv, TypeOK, WindowHoldsItsNames, OverflowIsServed, TakeOverflow, CloseWindow, Reasons
<1>3. CASE ~OverflowAtClose /\ out' = Append(out, Batch(pending)) /\ UNCHANGED intakeVars
  <2>1. out' \in Seq(FeedItem)
    BY <1>1, <1>3, EmittedTypes DEF IInv
  <2> QED
    BY <1>1, <1>3, <2>1
    DEF IInv, TypeOK, WindowHoldsItsNames, OverflowIsServed, OverflowAtClose, CloseWindow,
        intakeVars
<1> QED
  BY <1>2, <1>3 DEF CloseWindow

\* A step of the engine that is not a push keeps the invariant.
LEMMA MoveIInv ==
  ASSUME IInv, PumpStep \/ Tick \/ Consume \/ (\E r \in Reasons : Emit(r))
  PROVE  IInv'
<1>1. ASSUME NEW r \in Reasons, Emit(r)
      PROVE  IInv'
  <2>1. out' \in Seq(FeedItem)
    BY <1>1, EmittedTypes DEF Emit, IInv
  <2> QED
    BY <1>1, <2>1
    DEF Emit, IInv, TypeOK, WindowHoldsItsNames, OverflowIsServed, intakeVars, windowVars
<1>2. CASE Consume
  BY <1>2
  DEF Consume, IInv, TypeOK, WindowHoldsItsNames, OverflowIsServed, intakeVars, windowVars
<1> QED
  BY <1>1, <1>2, PumpGetsIInv, TakeIInv, WindowMovesIInv, CloseWindowIInv DEF PumpStep

\* The steps of the engine on its own, sorted: a push, another move, nothing.
LEMMA Sorted ==
  ASSUME [Next]_vars
  PROVE  \/ \E p \in Payload : Push(p)
         \/ PumpStep \/ Tick \/ Consume \/ (\E r \in Reasons : Emit(r))
         \/ UNCHANGED vars
BY DEF Next, FailsafeFires, TransportResyncs, Reasons

LEMMA NextIInv == IInv /\ [Next]_vars => IInv'
<1> SUFFICES ASSUME IInv, [Next]_vars
             PROVE  IInv'
  OBVIOUS
<1>1. ASSUME NEW p \in Payload, Push(p)
      PROVE  IInv'
  <2>1. stale' \in SUBSET Payload
    BY <1>1 DEF Push, IInv, TypeOK
  <2> QED
    BY <1>1, <2>1, ReceiveIInv DEF Push
<1>2. CASE UNCHANGED vars
  BY <1>2 DEF vars, IInv, TypeOK, WindowHoldsItsNames, OverflowIsServed
<1> QED
  BY <1>1, <1>2, MoveIInv, Sorted

LEMMA Inductive == Spec => []IInv
<1>1. Init => IInv
  BY InitIInv DEF Init
<1> QED
  BY <1>1, NextIInv, PTL DEF Spec

\* The engine is well typed: no queue above its size, no clock above its limit.
THEOREM EngineTypeOK == Spec => []TypeOK
BY Inductive, PTL DEF IInv

\* The overflow flag is never stranded: the pump never sleeps in intake.get() under a
\* raised flag with nothing in the queue to wake it (Debouncer.next_item).
THEOREM EngineServesOverflow == Spec => []OverflowIsServed
BY Inductive, PTL DEF IInv

------------------------------------------------------------------------------
\* The contract.

\* What the engine owes is a set of tables.
LEMMA OwedType == TypeOK => Owed \in SUBSET Payload
BY QueuedType DEF TypeOK, Owed

\* A push is owed, and what was owed before it still is.
LEMMA ReceiveOwes ==
  ASSUME IInv, NEW p \in Payload, Receive(p)
  PROVE  Owed \cup {p} \subseteq Owed' /\ UNCHANGED out
<1>1. CASE Len(queue) < MaxSize
  <2>1. Range(queue') = Range(queue) \cup {p}
    BY <1>1, QueuedAppend DEF Receive, IntakePush, IInv, TypeOK
  <2> QED
    BY <1>1, <2>1 DEF Receive, IntakePush, windowVars, Owed
<1>2. CASE ~(Len(queue) < MaxSize)
  BY <1>2, OwedType DEF Receive, IntakePush, Owed, IInv
<1> QED
  BY <1>1, <1>2

\* Emitting a Resync and owing no more than before is a Reload.
LEMMA ResyncReloads ==
  ASSUME NEW r \in Reasons, out' = Append(out, Resync(r)), UNCHANGED stale, Owed' \subseteq Owed
  PROVE  Contract!Reload(r)
BY DEF Contract!Reload, Contract!Resync, Resync

\* What a step of the engine that is not a push is to the contract.
LEMMA MoveRefines ==
  ASSUME IInv, PumpStep \/ Tick \/ Consume \/ (\E r \in Reasons : Emit(r))
  PROVE  \/ \E S \in SUBSET Payload : Contract!Nudge(S)
         \/ \E r \in Reasons : Contract!Reload(r)
         \/ Contract!Consume
         \/ UNCHANGED <<stale, Owed, out>>
<1> DEFINE Goal == \/ \E S \in SUBSET Payload : Contract!Nudge(S)
                   \/ \E r \in Reasons : Contract!Reload(r)
                   \/ Contract!Consume
                   \/ UNCHANGED <<stale, Owed, out>>
<1>0. Owed \in SUBSET Payload /\ Owed' \in SUBSET Payload
  <2>1. TypeOK'
    BY MoveIInv DEF IInv
  <2> QED
    BY <2>1, OwedType, QueuedType DEF IInv, TypeOK, Owed
<1>1. ASSUME TakeOverflow, out' = Append(out, Resync("overflow")), UNCHANGED stale
      PROVE  Goal
  <2>1. Owed = Payload
    BY <1>1 DEF TakeOverflow, Owed
  <2> QED
    BY <1>0, <1>1, <2>1, ResyncReloads DEF Reasons
<1>2. CASE PumpGets
  <2>1. CASE /\ ~overflowed
             /\ queue' = Tail(queue)
             /\ pending' = {Head(queue)}
             /\ UNCHANGED <<overflowed, out>>
    <3>1. Range(queue) = {Head(queue)} \cup Range(queue')
      BY <1>2, <2>1, QueuedTail DEF PumpGets, IInv, TypeOK
    <3>2. pending = {}
      BY <1>2 DEF PumpGets, IInv, WindowHoldsItsNames
    <3> QED
      BY <1>2, <2>1, <3>1, <3>2 DEF PumpGets, Owed
  <2> QED
    BY <1>1, <1>2, <2>1 DEF PumpGets
<1>3. CASE WindowTakes \/ WaitGets
  <2>1. Range(queue) = {Head(queue)} \cup Range(queue')
    BY <1>3, QueuedTail DEF WindowTakes, WaitGets, IInv, TypeOK
  <2>2. UNCHANGED <<overflowed, out, stale>> /\ pending' = pending \cup {Head(queue)}
    BY <1>3 DEF WindowTakes, WaitGets
  <2> QED
    BY <2>1, <2>2 DEF Owed
<1>4. CASE WindowWaits \/ WindowExpires \/ WaitTimesOut \/ Tick
  <2>1. UNCHANGED <<queue, overflowed, pending, out, stale>>
    BY <1>4 DEF WindowWaits, WindowExpires, WaitTimesOut, Tick, intakeVars
  <2> QED
    BY <2>1 DEF Owed
<1>5. CASE CloseWindow
  <2>1. CASE ~OverflowAtClose /\ out' = Append(out, Batch(pending)) /\ UNCHANGED intakeVars
    <3>1. pending # {} /\ pending \in SUBSET Payload /\ pending \subseteq Owed
      BY <1>5, <2>1
      DEF CloseWindow, IInv, TypeOK, WindowHoldsItsNames, Owed, OverflowAtClose
    <3>2. Owed \ pending \subseteq Owed' /\ Owed' \subseteq Owed
      BY <1>5, <2>1 DEF CloseWindow, Owed, OverflowAtClose, intakeVars
    <3>3. Contract!Nudge(pending)
      BY <1>5, <2>1, <3>1, <3>2
      DEF CloseWindow, Contract!Nudge, Contract!Batch, Batch
    <3> QED
      BY <3>1, <3>3
  <2> QED
    BY <1>1, <1>5, <2>1 DEF CloseWindow
<1>6. ASSUME NEW r \in Reasons, Emit(r)
      PROVE  Goal
  <2>1. Owed' = Owed
    BY <1>6 DEF Emit, intakeVars, windowVars, Owed
  <2>2. Contract!Reload(r)
    BY <1>6, <2>1, ResyncReloads DEF Emit
  <2> QED
    BY <2>2
<1>7. CASE Consume
  BY <1>7 DEF Consume, intakeVars, windowVars, Owed, Contract!Consume, Contract!Covers, Covers
<1> QED
  BY <1>2, <1>3, <1>4, <1>5, <1>6, <1>7 DEF PumpStep

\* Each step of the engine is a step of the contract, or changes nothing the
\* contract sees.
LEMMA StepRefines == IInv /\ [Next]_vars => [Contract!Next]_(Contract!vars)
<1> SUFFICES ASSUME IInv, [Next]_vars
             PROVE  Contract!Next \/ UNCHANGED <<stale, Owed, out>>
  BY DEF Contract!vars
<1>1. ASSUME NEW p \in Payload, Push(p)
      PROVE  Contract!Next
  <2>1. Owed' \in SUBSET Payload
    BY NextIInv, QueuedType DEF IInv, TypeOK, Owed
  <2>2. Contract!Change({p})
    BY <1>1, <2>1, ReceiveOwes DEF Push, Contract!Change
  <2> QED
    BY <2>2 DEF Contract!Next
<1>2. CASE UNCHANGED vars
  BY <1>2 DEF vars, Owed
<1> QED
  BY <1>1, <1>2, MoveRefines, Sorted DEF Contract!Next, Contract!Reasons, Reasons

\* The engine implements the abstract feed contract: whatever it does with its
\* queue, its flag and its windows, a consumer sees a feed that keeps what it owes
\* until an item announces it.
THEOREM EngineRefinesContract == Spec => ContractSpec
<1>1. Init => Contract!Init
  <2> SUFFICES ASSUME Init
               PROVE  Contract!Init
    OBVIOUS
  <2>1. Owed \in SUBSET Payload
    BY InitIInv, OwedType DEF Init, IInv
  <2> QED
    BY <2>1 DEF Init, EngineInit, Contract!Init
<1> QED
  BY <1>1, Inductive, StepRefines, PTL DEF Spec, ContractSpec, Contract!Spec

\* The contract with what is proved of it.
Promise == INSTANCE FeedContractProofs WITH owed <- Owed

\* So no change is lost in silence: it is queued, in the open window, flagged as
\* overflow, or announced (Intake, Debouncer.next_item).
THEOREM EngineLosesNothing == Spec => []NoSilentLoss
<1>1. ContractSpec => Promise!Spec
  <2>1. Contract!Init => Promise!Init
    BY DEF Contract!Init, Promise!Init
  <2>2. [Contract!Next]_(Contract!vars) => [Promise!Next]_(Promise!vars)
    BY DEF Contract!vars, Contract!Next, Contract!Change, Contract!Nudge, Contract!Reload,
           Contract!Consume, Contract!Reasons, Contract!Batch, Contract!Resync, Contract!Covers,
           Promise!vars, Promise!Next, Promise!Change, Promise!Nudge, Promise!Reload,
           Promise!Consume, Promise!Reasons, Promise!Batch, Promise!Resync, Promise!Covers
  <2> QED
    BY <2>1, <2>2, PTL DEF ContractSpec, Contract!Spec, Promise!Spec
<1>2. Promise!NoSilentLoss => NoSilentLoss
  BY DEF Promise!NoSilentLoss, Promise!Announced, Promise!Covers, Promise!Range,
         NoSilentLoss, Announced, Covers, Range
<1> QED
  BY <1>1, <1>2, EngineRefinesContract, Promise!ContractSafety, PTL

------------------------------------------------------------------------------
\* The logical feed.

LEMMA InitWalIInv == WalInit => WalIInv
<1> SUFFICES ASSUME WalInit
             PROVE  WalIInv
  OBVIOUS
<1>1. IInv
  BY InitIInv DEF WalInit
<1>2. wire \in Seq(Payload)
  BY Drained DEF WalInit
<1>3. HealthTypeOK /\ Accurate(FALSE)
  BY HealthAssumption DEF WalInit, HealthInit, HealthTypeOK, Accurate
<1> QED
  BY <1>1, <1>2, <1>3
  DEF WalInit, IInv, WalIInv, WalTypeOK, SlotBehindStream, HealthIsAccurate

\* The counters over the end of a round, and over the start of a stream.
LEMMA CountersStayAccurate ==
  ASSUME HealthTypeOK, NEW live \in BOOLEAN, Accurate(live)
  PROVE  /\ RoundFails(live) => HealthTypeOK' /\ Accurate(FALSE)'
         /\ GoesLive => HealthTypeOK' /\ Accurate(TRUE)'
<1>1. RoundFails(live) => HealthTypeOK' /\ Accurate(FALSE)'
  <2>1. CASE live
    BY <2>1, HealthAssumption DEF RoundFails, HealthTypeOK, Accurate
  <2>2. CASE ~live
    BY <2>2, HealthAssumption
    DEF RoundFails, RecordConnectFailure, Escalates, HealthTypeOK, Accurate
  <2> QED
    BY <2>1, <2>2
<1>2. GoesLive => HealthTypeOK' /\ Accurate(TRUE)'
  BY HealthAssumption DEF GoesLive, HealthTypeOK, Accurate
<1> QED
  BY <1>1, <1>2

\* The steps of the supervisor that leave the engine, the wire and the counters alone.
QuietMove ==
  /\ UNCHANGED <<engineVars, stale, wire, first, healthVars>>
  /\ sup' \in {"connect", "create", "start", "stream", "pause"}
  /\ slot' \in BOOLEAN
  /\ link' \in {"up", "silent"}
  /\ sup # "stream" => sup' # "stream"
  /\ sup = "stream" => UNCHANGED sup
  /\ sup' \in {"start", "stream"} => slot'

LEMMA QuietMoves ==
  ASSUME WalIInv, SlotReady \/ LinkDies \/ ConnectDone \/ PauseDone \/ CreateDone
  PROVE  QuietMove
<1>1. CASE SlotReady
  BY <1>1 DEF SlotReady, QuietMove, WalIInv, WalTypeOK, SlotBehindStream
<1>2. CASE LinkDies
  BY <1>2 DEF LinkDies, QuietMove, WalIInv, WalTypeOK, SlotBehindStream
<1>3. CASE ConnectDone
  BY <1>3 DEF ConnectDone, AttemptOnConnect, healthVars, QuietMove, WalIInv, WalTypeOK
<1>4. CASE PauseDone
  BY <1>4 DEF PauseDone, QuietMove, WalIInv, WalTypeOK
<1>5. CASE CreateDone
  BY <1>5 DEF CreateDone, QuietMove, WalIInv, WalTypeOK
<1> QED
  BY <1>1, <1>2, <1>3, <1>4, <1>5

\* The steps of WalFeed, sorted.
LEMMA WalSorted ==
  ASSUME WalIInv, [WalNext]_walVars
  PROVE  \/ \E p \in Payload : Commit(p)
         \/ QuietMove
         \/ RoundEnds
         \/ StartDone
         \/ ReadFrame
         \/ Apart(PumpStep \/ Tick \/ Consume \/ (\E r \in Reasons : Emit(r)))
         \/ UNCHANGED walVars
<1>1. EngineStep => Apart(PumpStep \/ Tick \/ Consume \/ (\E r \in Reasons : Emit(r)))
  BY DEF EngineStep, Apart, FailsafeFires, Reasons
<1> QED
  BY <1>1, QuietMoves DEF WalNext, Supervise, ConnectFails, ConnectionLost, ProbeAborts

\* The engine's part of the invariant, and back.
LEMMA EnginePart ==
  /\ WalIInv => IInv /\ stale \in SUBSET Payload
  /\ /\ IInv /\ SlotBehindStream /\ HealthIsAccurate /\ HealthTypeOK
     /\ sup \in {"connect", "create", "start", "stream", "pause"}
     /\ slot \in BOOLEAN /\ wire \in Seq(Payload)
     /\ link \in {"up", "silent"} /\ first \in BOOLEAN
     => WalIInv
BY DEF WalIInv, WalTypeOK, IInv, TypeOK

\* Where the engine does nothing, its invariant stays.
LEMMA EngineStays ==
  ASSUME IInv, UNCHANGED engineVars, stale' \in SUBSET Payload
  PROVE  IInv' /\ Owed' = Owed
BY DEF engineVars, IInv, TypeOK, WindowHoldsItsNames, OverflowIsServed, Owed

LEMMA NextWalIInv == WalIInv /\ [WalNext]_walVars => WalIInv'
<1> SUFFICES ASSUME WalIInv, [WalNext]_walVars
             PROVE  WalIInv'
  OBVIOUS
<1> USE DEF sessionVars
<1>1. ASSUME NEW p \in Payload, Commit(p)
      PROVE  WalIInv'
  <2>1. IInv'
    BY <1>1, EnginePart, EngineStays DEF Commit
  <2>2. wire' \in Seq(Payload)
    BY <1>1 DEF Commit, WalIInv, WalTypeOK
  <2> QED
    BY <1>1, <2>1, <2>2
    DEF Commit, healthVars, WalIInv, WalTypeOK, IInv, SlotBehindStream, HealthIsAccurate, HealthTypeOK, Accurate
<1>2. CASE QuietMove
  <2>1. IInv'
    BY <1>2, EnginePart, EngineStays DEF QuietMove
  <2>2. Accurate(sup = "stream")' /\ HealthTypeOK'
    BY <1>2 DEF QuietMove, healthVars, WalIInv, WalTypeOK, HealthIsAccurate, HealthTypeOK, Accurate
  <2> QED
    BY <1>2, <2>1, <2>2
    DEF QuietMove, WalIInv, WalTypeOK, IInv, SlotBehindStream, HealthIsAccurate
<1>3. CASE RoundEnds
  <2>1. IInv'
    BY <1>3, EnginePart, EngineStays DEF RoundEnds
  <2>2. Accurate(FALSE)' /\ HealthTypeOK'
    BY <1>3, CountersStayAccurate DEF RoundEnds, WalIInv, WalTypeOK, HealthIsAccurate
  <2>3. wire' \in Seq(Payload)
    BY <1>3, Drained DEF RoundEnds
  <2> QED
    BY <1>3, <2>1, <2>2, <2>3
    DEF RoundEnds, WalIInv, WalTypeOK, IInv, SlotBehindStream, HealthIsAccurate, Accurate
<1>4. CASE StartDone
  <2>1. out' \in Seq(FeedItem) /\ UNCHANGED <<intakeVars, windowVars, stale>>
    BY <1>4, EmittedTypes DEF StartDone, Announces, Reasons, WalIInv, WalTypeOK
  <2>2. IInv'
    BY <2>1 DEF WalIInv, WalTypeOK, IInv, TypeOK, intakeVars, windowVars,
                WindowHoldsItsNames, OverflowIsServed
  <2>3. Accurate(TRUE)' /\ HealthTypeOK'
    BY <1>4, CountersStayAccurate DEF StartDone, WalIInv, WalTypeOK, HealthIsAccurate
  <2> QED
    BY <1>4, <2>2, <2>3
    DEF StartDone, ReadyToAnnounce, WalIInv, WalTypeOK, IInv, SlotBehindStream,
        HealthIsAccurate, Accurate
<1>5. CASE ReadFrame
  <2>1. Head(wire) \in Payload /\ wire' \in Seq(Payload)
    BY <1>5 DEF ReadFrame, WalIInv, WalTypeOK
  <2>2. IInv'
    BY <1>5, <2>1, ReceiveIInv, EnginePart DEF ReadFrame, PushRaw
  <2> QED
    BY <1>5, <2>1, <2>2
    DEF ReadFrame, healthVars, WalIInv, WalTypeOK, IInv, SlotBehindStream, HealthIsAccurate, HealthTypeOK,
        Accurate
<1>6. CASE Apart(PumpStep \/ Tick \/ Consume \/ (\E r \in Reasons : Emit(r)))
  <2>1. IInv'
    BY <1>6, MoveIInv, EnginePart DEF Apart
  <2> QED
    BY <1>6, <2>1
    DEF Apart, healthVars, WalIInv, WalTypeOK, IInv, SlotBehindStream, HealthIsAccurate, HealthTypeOK,
        Accurate
<1>7. CASE UNCHANGED walVars
  <2>1. IInv'
    BY <1>7, EnginePart, EngineStays DEF walVars
  <2> QED
    BY <1>7, <2>1
    DEF walVars, healthVars, WalIInv, WalTypeOK, IInv, SlotBehindStream, HealthIsAccurate,
        HealthTypeOK, Accurate
<1> QED
  BY <1>1, <1>2, <1>3, <1>4, <1>5, <1>6, <1>7, WalSorted

LEMMA WalInductive == WalSpec => []WalIInv
BY InitWalIInv, NextWalIInv, PTL DEF WalSpec

\* The counters tell the truth about the current streak of failed rounds, however
\* connects, setups and streams end (BaseFeed._record_connect_failure).
THEOREM WalHealthIsAccurate == WalSpec => []HealthIsAccurate
BY WalInductive, PTL DEF WalIInv

------------------------------------------------------------------------------
\* The contract.

LEMMA WalOwedType == WalIInv => WalOwed \in SUBSET Payload
BY OwedType, QueuedType DEF WalIInv, WalTypeOK, WalOwed

\* What the engine's step is to its own contract, it is to the feed's: what is on the wire
\* stays owed.
LEMMA EngineStepRefines ==
  ASSUME WalIInv, Apart(PumpStep \/ Tick \/ Consume \/ (\E r \in Reasons : Emit(r)))
  PROVE  [WalContract!Next]_(WalContract!vars)
<1>1. UNCHANGED <<sup, wire>>
  BY DEF Apart, sessionVars
<1>2. Owed \subseteq WalOwed /\ Owed \in SUBSET Payload
  BY OwedType DEF WalOwed, WalIInv, WalTypeOK
<1>3. \A P \in SUBSET Payload :
        Owed \ P \subseteq Owed' /\ Owed' \subseteq Owed
        => WalOwed \ P \subseteq WalOwed' /\ WalOwed' \subseteq WalOwed
  BY <1>1 DEF WalOwed
<1>4. ASSUME NEW S \in SUBSET Payload, Contract!Nudge(S)
      PROVE  WalContract!Next
  <2>1. WalContract!Nudge(S)
    BY <1>2, <1>3, <1>4
    DEF Contract!Nudge, Contract!Batch, WalContract!Nudge, WalContract!Batch
  <2> QED
    BY <2>1 DEF WalContract!Next
<1>5. ASSUME NEW r \in Reasons, Contract!Reload(r)
      PROVE  WalContract!Next
  <2>1. WalOwed' \subseteq WalOwed
    BY <1>1, <1>5 DEF Contract!Reload, WalOwed
  <2>2. WalContract!Reload(r)
    BY <1>5, <2>1
    DEF Contract!Reload, Contract!Resync, WalContract!Reload, WalContract!Resync
  <2> QED
    BY <2>2 DEF WalContract!Next, WalContract!Reasons, Reasons
<1>6. ASSUME Contract!Consume
      PROVE  WalContract!Next
  <2>1. WalContract!Consume
    BY <1>1, <1>6
    DEF Contract!Consume, Contract!Covers, WalContract!Consume, WalContract!Covers, WalOwed
  <2> QED
    BY <2>1 DEF WalContract!Next
<1>7. ASSUME UNCHANGED <<stale, Owed, out>>
      PROVE  UNCHANGED WalContract!vars
  BY <1>1, <1>7 DEF WalContract!vars, WalOwed
<1> QED
  BY <1>4, <1>5, <1>6, <1>7, MoveRefines, EnginePart DEF Apart

\* Owing more, and making no table stale, is a change of no table.
LEMMA OwingMore ==
  ASSUME UNCHANGED <<stale, out>>, WalOwed \subseteq WalOwed', WalOwed' \in SUBSET Payload
  PROVE  WalContract!Next
<1>1. WalContract!Change({})
  BY DEF WalContract!Change
<1> QED
  BY <1>1 DEF WalContract!Next

\* Each step of the feed is a step of the contract, or changes nothing the contract sees.
LEMMA WalStepRefines == WalIInv /\ [WalNext]_walVars => [WalContract!Next]_(WalContract!vars)
<1> SUFFICES ASSUME WalIInv, [WalNext]_walVars
             PROVE  WalContract!Next \/ UNCHANGED <<stale, WalOwed, out>>
  BY DEF WalContract!vars
<1>0. IInv /\ WalIInv' /\ WalOwed \in SUBSET Payload /\ WalOwed' \in SUBSET Payload
  <2>1. WalIInv'
    BY NextWalIInv
  <2>2. WalOwed' \in SUBSET Payload
    BY <2>1, QueuedType DEF WalIInv, WalTypeOK, TypeOK, WalOwed, Owed
  <2> QED
    BY <2>1, <2>2, WalOwedType, EnginePart
<1>1. ASSUME NEW p \in Payload, Commit(p)
      PROVE  WalContract!Next
  <2>1. UNCHANGED <<Owed, out, sup>> /\ stale' = stale \cup {p}
    BY <1>1 DEF Commit, engineVars, Owed
  <2>2. WalOwed \cup {p} \subseteq WalOwed'
    <3>1. CASE sup = "stream"
      <4>1. wire' = Append(wire, p)
        BY <1>1, <3>1 DEF Commit, WalIInv, SlotBehindStream
      <4>2. Range(wire') = Range(wire) \cup {p}
        BY <4>1, QueuedAppend DEF WalIInv, WalTypeOK
      <4> QED
        BY <2>1, <3>1, <4>2 DEF WalOwed
    <3>2. CASE sup # "stream"
      BY <2>1, <3>2 DEF WalOwed
    <3> QED
      BY <3>1, <3>2
  <2>3. WalContract!Change({p})
    BY <1>0, <2>1, <2>2 DEF WalContract!Change
  <2> QED
    BY <2>3 DEF WalContract!Next
<1>2. CASE QuietMove
  BY <1>2, EngineStays, EnginePart DEF QuietMove, engineVars, WalOwed
<1>3. CASE RoundEnds
  <2>1. UNCHANGED <<stale, out>> /\ WalOwed' = Payload
    BY <1>3 DEF RoundEnds, engineVars, WalOwed
  <2> QED
    BY <1>0, <2>1, OwingMore
<1>4. CASE StartDone
  <2>1. WalOwed = Payload
    BY <1>4 DEF StartDone, ReadyToAnnounce, WalOwed
  <2>2. PICK r \in Reasons : out' = Append(out, Resync(r))
    BY <1>4 DEF StartDone, Announces, Reasons
  <2>3. WalContract!Reload(r)
    BY <1>0, <1>4, <2>1, <2>2
    DEF StartDone, WalContract!Reload, WalContract!Resync, Resync
  <2> QED
    BY <2>3 DEF WalContract!Next, WalContract!Reasons, Reasons
<1>5. CASE ReadFrame
  <2>1. Head(wire) \in Payload /\ Range(wire) = {Head(wire)} \cup Range(wire')
    BY <1>5, QueuedTail DEF ReadFrame, WalIInv, WalTypeOK
  <2>2. Owed \cup {Head(wire)} \subseteq Owed' /\ UNCHANGED <<stale, out>>
    BY <1>0, <1>5, <2>1, ReceiveOwes DEF ReadFrame, PushRaw
  <2>3. WalOwed \subseteq WalOwed'
    BY <1>5, <2>1, <2>2 DEF ReadFrame, WalOwed
  <2> QED
    BY <1>0, <2>2, <2>3, OwingMore
<1>6. CASE Apart(PumpStep \/ Tick \/ Consume \/ (\E r \in Reasons : Emit(r)))
  BY <1>6, EngineStepRefines DEF WalContract!vars
<1>7. CASE UNCHANGED walVars
  BY <1>7 DEF walVars, engineVars, sessionVars, WalOwed, Owed
<1> QED
  BY <1>1, <1>2, <1>3, <1>4, <1>5, <1>6, <1>7, WalSorted

\* The logical feed implements the abstract contract: across sessions, a consumer sees a
\* feed that keeps what it owes until an item announces it (WalFeed._supervise).
THEOREM WalRefinesContract == WalSpec => WalContractSpec
<1>1. WalInit => WalContract!Init
  BY DEF WalInit, EngineInit, WalOwed, WalContract!Init
<1> QED
  BY <1>1, WalInductive, WalStepRefines, PTL DEF WalSpec, WalContractSpec, WalContract!Spec

\* The contract with what is proved of it.
WalPromise == INSTANCE FeedContractProofs WITH owed <- WalOwed

\* So there is no silent gap: a table the consumer shows out of date is on the wire, in the
\* engine, announced, or covered by the Resync to come ("every gap bracketed by a
\* Resync", core.py).
THEOREM WalHasNoSilentGap == WalSpec => []NoSilentGap
<1>1. WalContractSpec => WalPromise!Spec
  <2>1. WalContract!Init => WalPromise!Init
    BY DEF WalContract!Init, WalPromise!Init
  <2>2. [WalContract!Next]_(WalContract!vars) => [WalPromise!Next]_(WalPromise!vars)
    BY DEF WalContract!vars, WalContract!Next, WalContract!Change, WalContract!Nudge,
           WalContract!Reload, WalContract!Consume, WalContract!Reasons, WalContract!Batch,
           WalContract!Resync, WalContract!Covers,
           WalPromise!vars, WalPromise!Next, WalPromise!Change, WalPromise!Nudge,
           WalPromise!Reload, WalPromise!Consume, WalPromise!Reasons, WalPromise!Batch,
           WalPromise!Resync, WalPromise!Covers
  <2> QED
    BY <2>1, <2>2, PTL DEF WalContractSpec, WalContract!Spec, WalPromise!Spec
<1>2. WalPromise!NoSilentLoss => NoSilentGap
  BY DEF WalPromise!NoSilentLoss, WalPromise!Announced, WalPromise!Covers, WalPromise!Range,
         NoSilentGap, Announced, Covers, Range
<1> QED
  BY <1>1, <1>2, WalRefinesContract, WalPromise!ContractSafety, PTL
==============================================================================
