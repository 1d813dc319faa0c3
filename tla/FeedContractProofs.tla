-------------------------- MODULE FeedContractProofs --------------------------
(***************************************************************************)
(* The safety of the abstract contract, for every set of tables, and the   *)
(* facts about feed items it rests on.  The modules that are shown to      *)
(* implement the contract take its safety over from here.                  *)
(***************************************************************************)
EXTENDS FeedContract, TLAPS

\* An item that is emitted adds what it covers (FeedService.emit).
LEMMA AnnouncedAppend ==
  ASSUME NEW q \in Seq(FeedItem), NEW item \in FeedItem
  PROVE  Announced(Append(q, item)) = Announced(q) \cup Covers(item)
<1>1. Range(Append(q, item)) = Range(q) \cup {item}
  <2> DEFINE r == Append(q, item)
  <2>1. DOMAIN r = 1..Len(q) + 1 /\ DOMAIN q = 1..Len(q) /\ Len(q) \in Nat
    OBVIOUS
  <2>2. \A i \in 1..Len(q) : r[i] = q[i]
    OBVIOUS
  <2>3. r[Len(q) + 1] = item
    OBVIOUS
  <2> HIDE DEF r
  <2>4. Range(r) = Range(q) \cup {item}
    BY <2>1, <2>2, <2>3 DEF Range
  <2> QED
    BY <2>4 DEF r
<1> QED
  BY <1>1 DEF Announced

\* Reading an item takes away no more than what it covers (BaseFeed.__anext__).
LEMMA AnnouncedTail ==
  ASSUME NEW q \in Seq(FeedItem), q # <<>>
  PROVE  Announced(q) = Covers(Head(q)) \cup Announced(Tail(q))
<1>1. Range(q) = {Head(q)} \cup Range(Tail(q))
  <2> DEFINE r == Tail(q)
  <2>1. /\ DOMAIN q = 1..Len(q)
        /\ DOMAIN r = 1..Len(q) - 1
        /\ Len(q) \in Nat \ {0}
    OBVIOUS
  <2>2. \A i \in 1..Len(q) - 1 : r[i] = q[i + 1]
    OBVIOUS
  <2>3. Head(q) = q[1]
    OBVIOUS
  <2> HIDE DEF r
  <2>4. ASSUME NEW x \in Range(q)
        PROVE  x \in {Head(q)} \cup Range(r)
    <3>1. PICK i \in 1..Len(q) : x = q[i]
      BY <2>1 DEF Range
    <3>2. CASE i = 1
      BY <3>1, <3>2, <2>3
    <3>3. CASE i # 1
      <4>1. i - 1 \in 1..Len(q) - 1 /\ r[i - 1] = x
        BY <3>1, <3>3, <2>1, <2>2
      <4> QED
        BY <4>1, <2>1 DEF Range
    <3> QED
      BY <3>2, <3>3
  <2>5. {Head(q)} \cup Range(r) \subseteq Range(q)
    <3>1. \A i \in 1..Len(q) - 1 : i + 1 \in 1..Len(q)
      BY <2>1
    <3> QED
      BY <3>1, <2>1, <2>2, <2>3 DEF Range
  <2>6. Range(q) = {Head(q)} \cup Range(r)
    BY <2>4, <2>5
  <2> QED
    BY <2>6 DEF r
<1> QED
  BY <1>1 DEF Announced

\* Emitted items are feed items (core.py).
LEMMA ItemTypes ==
  /\ \A S \in SUBSET Payload : Batch(S) \in FeedItem /\ Covers(Batch(S)) = S
  /\ \A r \in Reasons : Resync(r) \in FeedItem /\ Covers(Resync(r)) = Payload
BY DEF Batch, Resync, FeedItem, Covers

\* The contract is well typed and loses no change, whatever implements it.
THEOREM ContractSafety == Spec => [](TypeOK /\ NoSilentLoss)
<1>1. Init => TypeOK /\ NoSilentLoss
  BY DEF Init, TypeOK, NoSilentLoss
<1>2. TypeOK /\ NoSilentLoss /\ [Next]_vars => (TypeOK /\ NoSilentLoss)'
  <2> SUFFICES ASSUME TypeOK, NoSilentLoss, [Next]_vars
               PROVE  TypeOK' /\ NoSilentLoss'
    OBVIOUS
  <2>1. ASSUME NEW P \in SUBSET Payload, Change(P)
        PROVE  TypeOK' /\ NoSilentLoss'
    BY <2>1 DEF Change, TypeOK, NoSilentLoss
  <2>2. ASSUME NEW S \in SUBSET Payload, Nudge(S)
        PROVE  TypeOK' /\ NoSilentLoss'
    <3>1. Announced(out') = Announced(out) \cup S
      BY <2>2, AnnouncedAppend, ItemTypes DEF Nudge, TypeOK
    <3>2. out' \in Seq(FeedItem)
      BY <2>2, ItemTypes DEF Nudge, TypeOK
    <3> QED
      BY <2>2, <3>1, <3>2 DEF Nudge, TypeOK, NoSilentLoss
  <2>3. ASSUME NEW r \in Reasons, Reload(r)
        PROVE  TypeOK' /\ NoSilentLoss'
    <3>1. Announced(out') = Announced(out) \cup Payload
      BY <2>3, AnnouncedAppend, ItemTypes DEF Reload, TypeOK
    <3>2. out' \in Seq(FeedItem)
      BY <2>3, ItemTypes DEF Reload, TypeOK
    <3> QED
      BY <2>3, <3>1, <3>2 DEF Reload, TypeOK, NoSilentLoss
  <2>4. CASE Consume
    <3>1. Announced(out) = Covers(Head(out)) \cup Announced(out')
      BY <2>4, AnnouncedTail DEF Consume, TypeOK
    <3>2. out' \in Seq(FeedItem)
      BY <2>4 DEF Consume, TypeOK
    <3> QED
      BY <2>4, <3>1, <3>2 DEF Consume, TypeOK, NoSilentLoss
  <2>5. CASE UNCHANGED vars
    BY <2>5 DEF vars, TypeOK, NoSilentLoss
  <2> QED
    BY <2>1, <2>2, <2>3, <2>4, <2>5 DEF Next
<1> QED
  BY <1>1, <1>2, PTL DEF Spec
==============================================================================
