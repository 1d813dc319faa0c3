---------------------------- MODULE CommitGateProofs ----------------------------
(***************************************************************************)
(* The commit gate, for any transactions, subtransactions and relations,   *)
(* whatever max_open is and however they write, prepare, commit, roll back *)
(* and are evicted: it leaks no bucket, nudges nobody early, and no commit *)
(* it was in time for is missed.                                           *)
(***************************************************************************)
EXTENDS CommitGate, WellFoundedInduction, TLAPS

\* The least number of a set, from which what a recursive function computes is
\* proved: the least counterexample does not exist.
LEMMA Least ==
  ASSUME NEW T \in SUBSET Nat, T # {}
  PROVE  \E n \in T : \A m \in T : n <= m
<1> DEFINE R == OpToRel(<, Nat)
<1>1. IsWellFoundedOn(R, Nat)
  BY NatLessThanWellFounded
<1>2. \A m, n \in Nat : m < n => <<m, n>> \in R
  BY DEF OpToRel
<1> HIDE DEF R
<1>3. PICK n \in T : \A m \in T : ~ (<<m, n>> \in R)
  BY <1>1, WFMin
<1>4. \A m \in T : m \in Nat /\ ~(m < n)
  BY <1>2, <1>3
<1> QED
  BY <1>4

\* Induction over the numbers, on a set in place of a predicate.
LEMMA Induct ==
  ASSUME NEW T \in SUBSET Nat, 0 \in T, \A n \in T : n + 1 \in T
  PROVE  T = Nat
<1>1. SUFFICES ASSUME T # Nat
               PROVE  FALSE
  OBVIOUS
<1>2. PICK n \in Nat \ T : \A m \in Nat \ T : n <= m
  BY <1>1, Least
<1>3. n # 0 /\ n - 1 \in Nat
  BY <1>2
<1>4. n - 1 \in T
  BY <1>2, <1>3
<1>5. (n - 1) + 1 = n
  BY <1>2
<1> QED
  BY <1>2, <1>4, <1>5

\* f is what Without computes of the first n buckets.
KeptUpTo(g, X, f, n) ==
  f = [i \in 0..n |-> IF i = 0 THEN <<>>
                      ELSE IF g[i].xid \in X THEN f[i - 1]
                      ELSE Append(f[i - 1], g[i])]

\* It exists (Without chooses it).
LEMMA KeptExists ==
  ASSUME NEW g, NEW X, NEW n \in Nat
  PROVE  \E f : KeptUpTo(g, X, f, n)
<1> DEFINE T == {m \in Nat : \E f : KeptUpTo(g, X, f, m)}
<1>1. 0 \in T
  <2> DEFINE f == [i \in 0..0 |-> <<>>]
  <2>1. KeptUpTo(g, X, f, 0)
    BY DEF KeptUpTo
  <2> QED
    BY <2>1
<1>2. ASSUME NEW m \in T
      PROVE  m + 1 \in T
  <2>1. PICK f : KeptUpTo(g, X, f, m)
    BY <1>2
  <2> DEFINE v == IF g[m + 1].xid \in X THEN f[m] ELSE Append(f[m], g[m + 1])
  <2> DEFINE h == [i \in 0..m + 1 |-> IF i = m + 1 THEN v ELSE f[i]]
  <2>2. ASSUME NEW i \in 0..m + 1
        PROVE  h[i] = IF i = 0 THEN <<>>
                      ELSE IF g[i].xid \in X THEN h[i - 1]
                      ELSE Append(h[i - 1], g[i])
    <3>1. CASE i = m + 1
      <4>1. i # 0 /\ h[i] = v /\ h[i - 1] = f[m]
        BY <3>1, <1>2
      <4> QED
        BY <4>1, <3>1
    <3>2. CASE i # m + 1 /\ i # 0
      <4>1. i \in 0..m /\ i - 1 \in 0..m /\ h[i] = f[i] /\ h[i - 1] = f[i - 1]
        BY <3>2, <1>2
      <4>2. f[i] = IF g[i].xid \in X THEN f[i - 1] ELSE Append(f[i - 1], g[i])
        BY <2>1, <4>1, <3>2 DEF KeptUpTo
      <4> QED
        BY <4>1, <4>2, <3>2
    <3>3. CASE i # m + 1 /\ i = 0
      <4>1. i \in 0..m /\ h[i] = f[i]
        BY <3>3, <1>2
      <4> QED
        BY <4>1, <2>1, <3>3 DEF KeptUpTo
    <3> QED
      BY <3>1, <3>2, <3>3
  <2>3. h = [i \in 0..m + 1 |-> h[i]]
    OBVIOUS
  <2> HIDE DEF h
  <2>4. KeptUpTo(g, X, h, m + 1)
    BY <2>2, <2>3 DEF KeptUpTo
  <2> QED
    BY <2>4, <1>2
<1> HIDE DEF T
<1>3. T \in SUBSET Nat
  BY DEF T
<1>4. T = Nat
  BY <1>1, <1>2, <1>3, Induct
<1> QED
  BY <1>4 DEF T

\* Without is what is kept of all of them.
LEMMA WithoutIsKept ==
  ASSUME NEW g \in Seq(Bucket), NEW X
  PROVE  \E f : KeptUpTo(g, X, f, Len(g)) /\ Without(g, X) = f[Len(g)]
<1> DEFINE f == CHOOSE f : KeptUpTo(g, X, f, Len(g))
<1>1. \E h : KeptUpTo(g, X, h, Len(g))
  <2>1. Len(g) \in Nat
    OBVIOUS
  <2> QED
    BY <2>1, KeptExists
<1>2. KeptUpTo(g, X, f, Len(g))
  BY <1>1
<1>3. Without(g, X) = f[Len(g)]
  BY DEF Without, KeptUpTo
<1> QED
  BY <1>2, <1>3

\* No two buckets are of the same transaction.
OneToATransaction(g) == \A i, j \in DOMAIN g : g[i].xid = g[j].xid => i = j

\* What is appended joins what is there.
LEMMA RangeAppend ==
  ASSUME NEW S, NEW q \in Seq(S), NEW e \in S
  PROVE  Range(Append(q, e)) = Range(q) \cup {e}
<1> DEFINE r == Append(q, e)
<1>1. /\ DOMAIN r = 1..Len(q) + 1 /\ DOMAIN q = 1..Len(q) /\ Len(q) \in Nat
      /\ \A i \in 1..Len(q) : r[i] = q[i]
      /\ r[Len(q) + 1] = e
  OBVIOUS
<1> HIDE DEF r
<1>2. Range(r) = Range(q) \cup {e}
  BY <1>1 DEF Range
<1> QED
  BY <1>2 DEF r

\* What pending.pop leaves: the buckets of the others.
LEMMA WithoutKeepsOthers ==
  ASSUME NEW g \in Seq(Bucket), NEW X
  PROVE  /\ Without(g, X) \in Seq(Bucket)
         /\ Len(Without(g, X)) <= Len(g)
         /\ Range(Without(g, X)) = {b \in Range(g) : b.xid \notin X}
         /\ OneToATransaction(g) => OneToATransaction(Without(g, X))
<1>1. PICK f : KeptUpTo(g, X, f, Len(g)) /\ Without(g, X) = f[Len(g)]
  BY WithoutIsKept
<1> DEFINE Good(n) ==
      /\ f[n] \in Seq(Bucket)
      /\ Len(f[n]) <= n
      /\ Range(f[n]) = {g[i] : i \in {i \in 1..n : g[i].xid \notin X}}
      /\ OneToATransaction(g) => OneToATransaction(f[n])
<1> DEFINE T == {n \in Nat : n <= Len(g) => Good(n)}
<1>2. Len(g) \in Nat /\ DOMAIN g = 1..Len(g) /\ \A i \in 1..Len(g) : g[i] \in Bucket
  OBVIOUS
<1>3. 0 \in T
  <2>1. f[0] = <<>>
    BY <1>1, <1>2 DEF KeptUpTo
  <2>2. f[0] \in Seq(Bucket) /\ Len(f[0]) <= 0 /\ DOMAIN f[0] = {}
    BY <2>1
  <2>3. Range(f[0]) = {g[i] : i \in {i \in 1..0 : g[i].xid \notin X}}
    BY <2>2 DEF Range
  <2>4. OneToATransaction(f[0])
    BY <2>2 DEF OneToATransaction
  <2>5. Good(0)
    BY <2>2, <2>3, <2>4
  <2> QED
    BY <2>5
<1>4. ASSUME NEW n \in T
      PROVE  n + 1 \in T
  <2>1. SUFFICES ASSUME n + 1 <= Len(g)
                 PROVE  Good(n + 1)
    BY <1>2
  <2> n \in Nat
    OBVIOUS
  <2>2. n + 1 \in 1..Len(g) /\ g[n + 1] \in Bucket
    BY <2>1, <1>2
  <2>3. Good(n)
    BY <2>1, <1>2
  <2>4. f[n + 1] = IF g[n + 1].xid \in X THEN f[n] ELSE Append(f[n], g[n + 1])
    <3>1. n + 1 \in 0..Len(g) /\ n + 1 # 0 /\ (n + 1) - 1 = n
      BY <2>2, <1>2
    <3>2. KeptUpTo(g, X, f, Len(g))
      BY <1>1
    <3> HIDE DEF T
    <3> QED
      BY <3>1, <3>2 DEF KeptUpTo
  <2>5. CASE g[n + 1].xid \in X
    <3>1. {i \in 1..n + 1 : g[i].xid \notin X} = {i \in 1..n : g[i].xid \notin X}
      BY <2>5
    <3> QED
      BY <2>3, <2>4, <2>5, <3>1
  <2>6. CASE g[n + 1].xid \notin X
    <3>1. {i \in 1..n + 1 : g[i].xid \notin X}
            = {i \in 1..n : g[i].xid \notin X} \cup {n + 1}
      BY <2>6
    <3>2. Range(f[n + 1]) = Range(f[n]) \cup {g[n + 1]}
      BY <2>2, <2>3, <2>4, <2>6, RangeAppend
    <3>3. Range(f[n + 1]) = {g[i] : i \in {i \in 1..n + 1 : g[i].xid \notin X}}
      BY <2>3, <3>1, <3>2
    <3>4. f[n + 1] \in Seq(Bucket) /\ Len(f[n + 1]) <= n + 1
      BY <2>2, <2>3, <2>4, <2>6
    <3>5. ASSUME OneToATransaction(g)
          PROVE  OneToATransaction(f[n + 1])
      <4>1. \A b \in Range(f[n]) : b.xid # g[n + 1].xid
        BY <2>2, <2>3, <3>5, <1>2 DEF OneToATransaction
      <4>2. \A i \in DOMAIN f[n] : f[n][i].xid # g[n + 1].xid
        BY <4>1 DEF Range
      <4> QED
        BY <2>2, <2>3, <2>4, <2>6, <3>5, <4>2 DEF OneToATransaction
    <3> QED
      BY <3>3, <3>4, <3>5
  <2> QED
    BY <2>5, <2>6
<1> HIDE DEF T
<1>5. T \in SUBSET Nat
  BY DEF T
<1>6. Len(g) \in T
  BY <1>2, <1>3, <1>4, <1>5, Induct
<1>7. Good(Len(g))
  BY <1>2, <1>6 DEF T
<1>8. {g[i] : i \in {i \in 1..Len(g) : g[i].xid \notin X}} = {b \in Range(g) : b.xid \notin X}
  BY <1>2 DEF Range
<1> QED
  BY <1>1, <1>7, <1>8

\* A record that is written comes after all that were.
LEMMA LoggedLast ==
  ASSUME TypeOK, NEW e \in Event, Logged(e)
  PROVE  /\ wal' \in Seq(Event)
         /\ Len(wal) \in Nat
         /\ DOMAIN wal = 1..Len(wal)
         /\ DOMAIN wal' = 1..Len(wal) + 1
         /\ \A i \in 1..Len(wal) : wal'[i] = wal[i]
         /\ wal'[Len(wal) + 1] = e
BY DEF TypeOK, Logged

\* What is on its way stays so when another record is written.
LEMMA LoggedKeepsComing ==
  ASSUME TypeOK, NEW e \in Event, Logged(e), UNCHANGED gate,
         NEW x, NEW r, OnItsWay(x, r)
  PROVE  OnItsWay(x, r)'
<1>1. PICK i \in DOMAIN wal :
        /\ wal[i].kind = "end" /\ wal[i].committed /\ x \in {wal[i].xid} \cup wal[i].subxids
        /\ \/ \E b \in Range(gate) : b.xid = x /\ r \in b.rels
           \/ \E j \in 1..i - 1 : wal[j] = Change(x, r)
  BY DEF OnItsWay
<1>2. i \in DOMAIN wal' /\ wal'[i] = wal[i]
  BY LoggedLast
<1>3. \A j \in 1..i - 1 : wal'[j] = wal[j]
  BY <1>1, LoggedLast
<1> QED
  BY <1>1, <1>2, <1>3 DEF OnItsWay, Change

\* The record of an outcome names its transaction and subtransactions (parse_xact).
LEMMA Outcomes ==
  ASSUME NEW x \in Xid, NEW c \in BOOLEAN, NEW subs \in SUBSET Xid
  PROVE  /\ TxnEnd(x, c, subs) \in Event
         /\ \A y : Names(TxnEnd(x, c, subs), y) <=> y \in {x} \cup subs
         /\ TxnEnd(x, c, subs).kind = "end"
         /\ TxnEnd(x, c, subs).committed = c
         /\ TxnEnd(x, c, subs).xid = x
BY DEF TxnEnd, Event, Names, Ended

\* That of a change names none.
LEMMA Changed ==
  ASSUME NEW x \in Xid, NEW r \in Rel
  PROVE  /\ Change(x, r) \in Event
         /\ \A y : ~Names(Change(x, r), y)
         /\ Change(x, r).kind = "change" /\ Change(x, r).xid = x /\ Change(x, r).rel = r
BY DEF Change, Event, Names

\* The gate holds buckets.
LEMMA Buckets ==
  ASSUME TypeOK
  PROVE  /\ Len(gate) \in Nat
         /\ DOMAIN gate = 1..Len(gate)
         /\ \A i \in 1..Len(gate) : gate[i] \in Bucket
         /\ \A b \in Range(gate) : b \in Bucket
<1>1. /\ Len(gate) \in Nat
      /\ DOMAIN gate = 1..Len(gate)
      /\ \A i \in 1..Len(gate) : gate[i] \in Bucket
  BY DEF TypeOK
<1> QED
  BY <1>1 DEF Range

\* A change of an open transaction keeps the invariant: it is on its way to the gate.
LEMMA WriteIInv ==
  ASSUME IInv, NEW x \in Xid, NEW r \in Rel, Write(x, r)
  PROVE  IInv'
<1> DEFINE e == Change(x, r)
<1>1. /\ e \in Event /\ Logged(e)
      /\ \A y : ~Names(e, y)
      /\ e.kind = "change" /\ e.xid = x /\ e.rel = r
  BY Changed DEF Write
<1> HIDE DEF e
<1>2. /\ wal' \in Seq(Event)
      /\ Len(wal) \in Nat
      /\ DOMAIN wal = 1..Len(wal)
      /\ DOMAIN wal' = 1..Len(wal) + 1
      /\ \A i \in 1..Len(wal) : wal'[i] = wal[i]
      /\ wal'[Len(wal) + 1] = e
  BY <1>1, LoggedLast DEF IInv
<1>3. /\ status[x] \in {"idle", "open"}
      /\ \A y \in Xid : status'[y] = IF y \in {x, Parent[x]} THEN "open" ELSE status[y]
      /\ \A y \in {x, Parent[x]} \cap Xid : status[y] \in {"idle", "open"}
      /\ written' = [written EXCEPT ![x] = @ \cup {r}]
      /\ UNCHANGED <<gate, out, evicted, ahead, unseen>>
  BY GateAssumption DEF Write
<1>4. TypeOK'
  BY <1>2, <1>3 DEF IInv, TypeOK, Write
<1>5. OutcomesAreLast'
  BY <1>1, <1>2, <1>3 DEF IInv, OutcomesAreLast, InOnePhase
<1>6. ChangesHaveOutcomes'
  BY <1>1, <1>2, <1>3, <1>4 DEF IInv, ChangesHaveOutcomes, InOnePhase, TypeOK, Event
<1>7. NothingStranded'
  <2>1. SUFFICES ASSUME NEW b \in Range(gate), InOnePhase(b.xid), status'[b.xid] # "open"
                 PROVE  \E n \in Range(wal') : n.kind = "end" /\ b.xid \in {n.xid} \cup n.subxids
    BY <1>3 DEF IInv, NothingStranded, InOnePhase
  <2>2. b.xid \in Xid
    BY Buckets DEF IInv, Bucket
  <2>3. PICK n \in Range(wal) : n.kind = "end" /\ b.xid \in {n.xid} \cup n.subxids
    BY <1>3, <2>1, <2>2 DEF IInv, NothingStranded
  <2>4. n \in Range(wal')
    BY <1>2 DEF Range
  <2> QED
    BY <2>3, <2>4
<1>8. NoEarlyNudge' /\ IdleWroteNothing'
  BY <1>3
  DEF IInv, NoEarlyNudge, IdleWroteNothing, Gated, InOnePhase, TypeOK, Changes
<1>9. WrittenIsHeld'
  <2>1. SUFFICES ASSUME NEW y \in Xid, Gated(y), status'[y] = "open", NEW s \in written'[y]
                 PROVE  \/ \E b \in Range(gate) : b.xid = y /\ s \in b.rels
                        \/ \E j \in DOMAIN wal' : wal'[j] = Change(y, s)
    BY <1>3 DEF WrittenIsHeld, Gated, InOnePhase, Change
  <2>2. CASE y = x /\ s = r
    BY <1>2, <2>2 DEF e
  <2>3. CASE ~(y = x /\ s = r)
    <3>1. s \in written[y]
      BY <1>3, <2>3 DEF IInv, TypeOK
    <3>2. status[y] = "open"
      BY <1>3, <2>1, <3>1 DEF IInv, IdleWroteNothing
    <3>3. \/ \E b \in Range(gate) : b.xid = y /\ s \in b.rels
          \/ \E j \in DOMAIN wal : wal[j] = Change(y, s)
      BY <2>1, <3>1, <3>2 DEF IInv, WrittenIsHeld
    <3> QED
      BY <1>2, <3>3
  <2> QED
    BY <2>2, <2>3
<1>10. CommittingIsOnItsWay' /\ CommitIsOnItsWay'
  BY <1>1, <1>3, LoggedKeepsComing
  DEF IInv, CommittingIsOnItsWay, CommitIsOnItsWay, Timely, Gated, InOnePhase, TypeOK
<1> QED
  BY <1>4, <1>5, <1>6, <1>7, <1>8, <1>9, <1>10 DEF IInv

\* The record of an outcome is written: of x and the subtransactions S, all of them and
\* perhaps others (X) open until then.
OutcomeWritten(x, c, S, X, s) ==
  /\ Logged(TxnEnd(x, c, S))
  /\ Ends(X, s)
  /\ {x} \cup S \subseteq X
  /\ \A y \in X : status[y] = "open"
  /\ \A y \in X : InOnePhase(y) =>
       y \in {x} \cup S /\ s = IF c THEN "committing" ELSE "aborted"
  /\ written' \in [Xid -> SUBSET Rel]
  /\ \A y \in Xid : written'[y] \subseteq written[y]
  /\ UNCHANGED <<gate, out, evicted, ahead, unseen>>

\* That keeps the invariant: what they wrote is ahead of their outcome.
LEMMA OutcomeIInv ==
  ASSUME IInv, NEW x \in Xid, NEW c \in BOOLEAN, NEW S \in SUBSET Xid,
         NEW X \in SUBSET Xid, NEW s \in {"committing", "prepared", "aborted"},
         OutcomeWritten(x, c, S, X, s)
  PROVE  IInv'
<1> USE DEF OutcomeWritten
<1> DEFINE e == TxnEnd(x, c, S)
<1>1. /\ e \in Event /\ Logged(e)
      /\ \A y : Names(e, y) <=> y \in {x} \cup S
      /\ e.kind = "end" /\ e.committed = c /\ e.xid = x
  BY Outcomes
<1> HIDE DEF e
<1>2. /\ wal' \in Seq(Event)
      /\ Len(wal) \in Nat
      /\ DOMAIN wal = 1..Len(wal)
      /\ DOMAIN wal' = 1..Len(wal) + 1
      /\ \A i \in 1..Len(wal) : wal'[i] = wal[i]
      /\ wal'[Len(wal) + 1] = e
  BY <1>1, LoggedLast DEF IInv
<1>3. \A y \in Xid : status'[y] = IF y \in X THEN s ELSE status[y]
  BY DEF Ends
<1>4. TypeOK'
  BY <1>2 DEF IInv, TypeOK, Ends
<1>5. OutcomesAreLast'
  <2>1. SUFFICES ASSUME NEW i \in DOMAIN wal', NEW y \in Xid, Names(wal'[i], y)
                 PROVE  /\ status'[y] \notin {"idle", "open"}
                        /\ InOnePhase(y) =>
                             status'[y] \in IF wal'[i].committed
                                              THEN {"committing", "committed"} ELSE {"aborted"}
                        /\ \A j \in DOMAIN wal' :
                             wal'[j].xid = y \/ Names(wal'[j], y) => j <= i
    BY DEF OutcomesAreLast, InOnePhase, Names, Ended
  <2>2. CASE i = Len(wal) + 1
    BY <1>1, <1>2, <1>3, <2>1, <2>2
  <2>3. CASE i # Len(wal) + 1
    <3>1. i \in DOMAIN wal /\ Names(wal[i], y)
      BY <1>2, <2>1, <2>3
    <3>2. y \notin X
      BY <3>1 DEF IInv, OutcomesAreLast
    <3>3. ~(e.xid = y \/ Names(e, y))
      BY <1>1, <3>2
    <3> QED
      BY <1>2, <1>3, <3>1, <3>2, <3>3 DEF IInv, OutcomesAreLast
  <2> QED
    BY <2>2, <2>3
<1>6. ChangesHaveOutcomes'
  <2>1. SUFFICES ASSUME NEW j \in DOMAIN wal', wal'[j].kind = "change",
                        InOnePhase(wal'[j].xid), status'[wal'[j].xid] # "open"
                 PROVE  \E i \in DOMAIN wal' : j < i /\ Names(wal'[i], wal'[j].xid)
    BY DEF ChangesHaveOutcomes, InOnePhase, Names, Ended
  <2>2. j \in DOMAIN wal /\ wal'[j] = wal[j] /\ j < Len(wal) + 1
    BY <1>1, <1>2, <2>1
  <2>3. wal[j].xid \in Xid
    BY <1>2, <2>2 DEF IInv, TypeOK, Event
  <2>4. CASE wal[j].xid \in X
    BY <1>1, <1>2, <2>1, <2>2, <2>4
  <2>5. CASE wal[j].xid \notin X
    <3>1. PICK i \in DOMAIN wal : j < i /\ Names(wal[i], wal[j].xid)
      BY <1>3, <2>1, <2>2, <2>3, <2>5 DEF IInv, ChangesHaveOutcomes
    <3> QED
      BY <1>2, <2>2, <3>1
  <2> QED
    BY <2>4, <2>5
<1>7. NothingStranded'
  <2>1. SUFFICES ASSUME NEW b \in Range(gate), InOnePhase(b.xid), status'[b.xid] # "open"
                 PROVE  \E n \in Range(wal') : n.kind = "end" /\ b.xid \in {n.xid} \cup n.subxids
    BY DEF IInv, NothingStranded, InOnePhase
  <2>2. b.xid \in Xid
    BY Buckets DEF IInv, Bucket
  <2>3. CASE b.xid \in X
    <3>1. Names(e, b.xid) /\ e \in Range(wal')
      BY <1>1, <1>2, <2>1, <2>3 DEF Range
    <3> QED
      BY <3>1 DEF Names, Ended
  <2>4. CASE b.xid \notin X
    <3>1. PICK n \in Range(wal) : n.kind = "end" /\ b.xid \in {n.xid} \cup n.subxids
      BY <1>3, <2>1, <2>2, <2>4 DEF IInv, NothingStranded
    <3>2. n \in Range(wal')
      BY <1>2 DEF Range
    <3> QED
      BY <3>1, <3>2
  <2> QED
    BY <2>3, <2>4
<1>8. NoEarlyNudge' /\ IdleWroteNothing'
  BY <1>3
  DEF IInv, NoEarlyNudge, IdleWroteNothing, Gated, InOnePhase, TypeOK, Changes
<1>9. WrittenIsHeld'
  BY <1>2, <1>3 DEF IInv, WrittenIsHeld, Gated, InOnePhase, Change
<1>10. CommittingIsOnItsWay'
  <2>1. SUFFICES ASSUME NEW y \in Xid, Timely(y), status'[y] = "committing",
                        NEW r \in written'[y]
                 PROVE  OnItsWay(y, r)'
    BY DEF CommittingIsOnItsWay, Timely, Gated, InOnePhase
  <2>2. CASE y \in X
    <3>1. \/ \E b \in Range(gate) : b.xid = y /\ r \in b.rels
          \/ \E j \in DOMAIN wal : wal[j] = Change(y, r)
      BY <2>1, <2>2 DEF IInv, WrittenIsHeld, Timely
    <3>2. c /\ Names(e, y)
      BY <1>1, <1>3, <2>1, <2>2 DEF Timely, Gated
    <3> DEFINE n == Len(wal) + 1
    <3>3. /\ n \in DOMAIN wal' /\ wal'[n].kind = "end" /\ wal'[n].committed
          /\ y \in {wal'[n].xid} \cup wal'[n].subxids
      <4>1. n \in DOMAIN wal' /\ wal'[n] = e
        BY <1>2
      <4>2. e.kind = "end" /\ e.committed /\ y \in {e.xid} \cup e.subxids
        BY <1>1, <3>2 DEF Names, Ended
      <4> QED
        BY <4>1, <4>2
    <3>4. \/ \E b \in Range(gate') : b.xid = y /\ r \in b.rels
          \/ \E j \in 1..n - 1 : wal'[j] = Change(y, r)
      BY <1>2, <3>1
    <3> QED
      BY <3>3, <3>4 DEF OnItsWay, Change
  <2>3. CASE y \notin X
    <3>1. OnItsWay(y, r)
      BY <1>3, <2>1, <2>3 DEF IInv, CommittingIsOnItsWay
    <3> QED
      BY <1>1, <3>1, LoggedKeepsComing DEF IInv
  <2> QED
    BY <2>2, <2>3
<1>11. CommitIsOnItsWay'
  BY <1>1, LoggedKeepsComing DEF IInv, CommitIsOnItsWay, Timely, Gated, InOnePhase
<1> QED
  BY <1>4, <1>5, <1>6, <1>7, <1>8, <1>9, <1>10, <1>11 DEF IInv

\* COMMIT, ABORT and PREPARE write such a record.
LEMMA ServerEndsIInv ==
  ASSUME IInv, NEW x \in Xid, Commit(x) \/ Abort(x) \/ Prepare(x)
  PROVE  IInv'
<1> DEFINE X == {x} \cup Subs(x)
<1>1. X \in SUBSET Xid /\ Subs(x) \in SUBSET Xid
  BY DEF Subs
<1>2. status[x] = "open" /\ \A y \in X : status[y] = "open"
  BY DEF Commit, Abort, Prepare, Subs
<1>3. written \in [Xid -> SUBSET Rel]
  BY DEF IInv, TypeOK
<1>4. CASE Commit(x)
  <2>1. OutcomeWritten(x, TRUE, Subs(x), X, "committing")
    BY <1>2, <1>3, <1>4 DEF OutcomeWritten, Commit
  <2> QED
    BY <1>1, <2>1, OutcomeIInv
<1>5. CASE Abort(x)
  <2>1. written' \in [Xid -> SUBSET Rel] /\ \A y \in Xid : written'[y] \subseteq written[y]
    BY <1>3, <1>5 DEF Abort, Forgets
  <2>2. OutcomeWritten(x, FALSE, Subs(x), X, "aborted")
    BY <1>2, <1>5, <2>1 DEF OutcomeWritten, Abort
  <2> QED
    BY <1>1, <2>2, OutcomeIInv
<1>6. CASE Prepare(x)
  <2>1. \A y \in X : ~InOnePhase(y)
    BY <1>6 DEF Prepare, Subs, InOnePhase
  <2>2. OutcomeWritten(x, TRUE, {}, X, "prepared")
    BY <1>2, <1>3, <1>6, <2>1 DEF OutcomeWritten, Prepare
  <2> QED
    BY <1>1, <2>2, OutcomeIInv
<1> QED
  BY <1>4, <1>5, <1>6

\* An outcome takes effect whose record was written before.
LEMMA FinishIInv ==
  ASSUME IInv, NEW x \in Xid, Finish(x) \/ CommitPrepared(x) \/ RollbackPrepared(x)
  PROVE  IInv'
<1>1. PICK X \in SUBSET Xid, s \in {"committed", "aborted"} :
        /\ Ends(X, s) /\ Forgets(X)
        /\ UNCHANGED <<wal, gate, out, evicted, ahead>>
        /\ \A y \in X : status[y] \in {"committing", "prepared"}
        /\ \A y \in X : InOnePhase(y) => status[y] = "committing" /\ s = "committed"
        /\ BecomesVisible(X) \/ UNCHANGED unseen
  <2>1. CASE Finish(x)
    <3>1. \A y \in EndedWith(x, "committing") : y \in Xid /\ status[y] = "committing"
      BY DEF EndedWith
    <3> QED
      BY <2>1, <3>1 DEF Finish
  <2>2. CASE CommitPrepared(x) \/ RollbackPrepared(x)
    <3>1. \A y \in EndedWith(x, "prepared") :
            y \in Xid /\ status[y] = "prepared" /\ ~InOnePhase(y)
      BY <2>2 DEF EndedWith, InOnePhase, CommitPrepared, RollbackPrepared
    <3> QED
      BY <2>2, <3>1 DEF CommitPrepared, RollbackPrepared
  <2> QED
    BY <2>1, <2>2
<1>2. \A y \in Xid : /\ status'[y] = IF y \in X THEN s ELSE status[y]
                     /\ written'[y] = IF y \in X THEN {} ELSE written[y]
  BY <1>1 DEF Ends, Forgets
<1>3. TypeOK'
  BY <1>1 DEF IInv, TypeOK, Ends, Forgets, BecomesVisible
<1>4. OutcomesAreLast'
  BY <1>1, <1>2 DEF IInv, OutcomesAreLast, InOnePhase, Names, Ended
<1>5. ChangesHaveOutcomes'
  BY <1>1, <1>2, <1>3 DEF IInv, ChangesHaveOutcomes, InOnePhase, Names, Ended, TypeOK, Event
<1>6. NothingStranded'
  <2>1. \A b \in Range(gate) : b.xid \in Xid
    BY Buckets DEF IInv, Bucket
  <2> QED
    BY <1>1, <1>2, <2>1 DEF IInv, NothingStranded, InOnePhase
<1>7. NoEarlyNudge' /\ IdleWroteNothing' /\ WrittenIsHeld'
  BY <1>1, <1>2
  DEF IInv, NoEarlyNudge, IdleWroteNothing, WrittenIsHeld, Gated, InOnePhase, TypeOK,
      Changes, Change
<1>8. \A y, r : OnItsWay(y, r) => OnItsWay(y, r)'
  BY <1>1 DEF OnItsWay, Change
<1>9. CommittingIsOnItsWay'
  BY <1>1, <1>2, <1>8 DEF IInv, CommittingIsOnItsWay, Timely, Gated, InOnePhase
<1>10. CommitIsOnItsWay'
  <2>1. SUFFICES ASSUME NEW c \in unseen', Timely(c[1])
                 PROVE  OnItsWay(c[1], c[2])
    BY <1>1, <1>8 DEF CommitIsOnItsWay, Timely, Gated, InOnePhase
  <2>2. CASE c \in unseen
    BY <2>1, <2>2 DEF IInv, CommitIsOnItsWay
  <2>3. CASE c \notin unseen
    <3>1. c[1] \in X /\ c[2] \in written[c[1]]
      BY <1>1, <2>3 DEF BecomesVisible
    <3>2. status[c[1]] = "committing"
      BY <1>1, <2>1, <3>1 DEF Timely, Gated
    <3> QED
      BY <2>1, <3>1, <3>2 DEF IInv, CommittingIsOnItsWay
  <2> QED
    BY <2>2, <2>3
<1> QED
  BY <1>3, <1>4, <1>5, <1>6, <1>7, <1>9, <1>10 DEF IInv

\* The record the gate takes came before all that stay.
LEMMA TakenFirst ==
  ASSUME TypeOK, wal # <<>>, wal' = Tail(wal)
  PROVE  /\ wal' \in Seq(Event)
         /\ Len(wal) \in Nat \ {0}
         /\ DOMAIN wal = 1..Len(wal)
         /\ DOMAIN wal' = 1..Len(wal) - 1
         /\ \A i \in 1..Len(wal) - 1 : wal'[i] = wal[i + 1]
         /\ \A i \in 2..Len(wal) : wal[i] = wal'[i - 1]
         /\ Head(wal) = wal[1] /\ Head(wal) \in Event
         /\ Range(wal) = {Head(wal)} \cup Range(wal')
<1>1. /\ wal' \in Seq(Event)
      /\ Len(wal) \in Nat \ {0}
      /\ DOMAIN wal = 1..Len(wal)
      /\ DOMAIN wal' = 1..Len(wal) - 1
      /\ \A i \in 1..Len(wal) - 1 : wal'[i] = wal[i + 1]
      /\ Head(wal) = wal[1] /\ Head(wal) \in Event
  BY DEF TypeOK
<1>2. \A i \in 2..Len(wal) : wal[i] = wal'[i - 1]
  BY <1>1
<1>3. ASSUME NEW n \in Range(wal)
      PROVE  n \in {Head(wal)} \cup Range(wal')
  <2>1. PICK i \in 1..Len(wal) : n = wal[i]
    BY <1>1 DEF Range
  <2>2. CASE i = 1
    BY <1>1, <2>1, <2>2
  <2>3. CASE i # 1
    <3>1. i - 1 \in DOMAIN wal' /\ n = wal'[i - 1]
      BY <1>1, <1>2, <2>1, <2>3
    <3> QED
      BY <3>1 DEF Range
  <2> QED
    BY <2>2, <2>3
<1>4. Range(wal') \subseteq Range(wal) /\ Head(wal) \in Range(wal)
  <2>1. \A i \in 1..Len(wal) - 1 : i + 1 \in 1..Len(wal)
    BY <1>1
  <2> QED
    BY <1>1, <2>1 DEF Range
<1> QED
  BY <1>1, <1>2, <1>3, <1>4

\* Taking the first record leaves the order of the others, and their outcomes.
LEMMA TakenKeepsOrder ==
  ASSUME IInv, wal # <<>>, wal' = Tail(wal), UNCHANGED status
  PROVE  OutcomesAreLast' /\ ChangesHaveOutcomes'
<1>1. /\ Len(wal) \in Nat \ {0}
      /\ DOMAIN wal = 1..Len(wal)
      /\ DOMAIN wal' = 1..Len(wal) - 1
      /\ \A i \in 1..Len(wal) - 1 : wal'[i] = wal[i + 1]
  BY TakenFirst DEF IInv
<1>2. OutcomesAreLast'
  <2>1. SUFFICES ASSUME NEW i \in DOMAIN wal', NEW x \in Xid, Names(wal'[i], x)
                 PROVE  /\ status[x] \notin {"idle", "open"}
                        /\ InOnePhase(x) =>
                             status[x] \in IF wal'[i].committed
                                             THEN {"committing", "committed"} ELSE {"aborted"}
                        /\ \A j \in DOMAIN wal' :
                             wal'[j].xid = x \/ Names(wal'[j], x) => j <= i
    BY DEF OutcomesAreLast, InOnePhase, Names, Ended
  <2>2. i + 1 \in DOMAIN wal /\ Names(wal[i + 1], x) /\ wal'[i] = wal[i + 1]
    BY <1>1, <2>1
  <2>3. \A j \in DOMAIN wal' : j + 1 \in DOMAIN wal /\ wal'[j] = wal[j + 1]
    BY <1>1
  <2>4. \A j \in DOMAIN wal : wal[j].xid = x \/ Names(wal[j], x) => j <= i + 1
    BY <2>2 DEF IInv, OutcomesAreLast
  <2>5. \A j \in DOMAIN wal' : wal'[j].xid = x \/ Names(wal'[j], x) => j <= i
    BY <1>1, <2>3, <2>4
  <2> QED
    BY <2>2, <2>5 DEF IInv, OutcomesAreLast
<1>3. ChangesHaveOutcomes'
  <2>1. SUFFICES ASSUME NEW j \in DOMAIN wal', wal'[j].kind = "change",
                        InOnePhase(wal'[j].xid), status[wal'[j].xid] # "open"
                 PROVE  \E i \in DOMAIN wal' : j < i /\ Names(wal'[i], wal'[j].xid)
    BY DEF ChangesHaveOutcomes, InOnePhase, Names, Ended
  <2>2. j + 1 \in DOMAIN wal /\ wal'[j] = wal[j + 1]
    BY <1>1
  <2>3. PICK i \in DOMAIN wal : j + 1 < i /\ Names(wal[i], wal[j + 1].xid)
    BY <2>1, <2>2 DEF IInv, ChangesHaveOutcomes
  <2>4. i - 1 \in DOMAIN wal' /\ wal'[i - 1] = wal[i] /\ j < i - 1
    BY <1>1, <2>3
  <2> QED
    BY <2>2, <2>3, <2>4
<1> QED
  BY <1>2, <1>3

\* A bucket in another gate that holds at least what b holds.
Kept(g, b) == \E h \in Range(g) : h.xid = b.xid /\ b.rels \subseteq h.rels

\* What is on its way stays so when the gate takes a record that is no outcome of its
\* transaction and keeps its bucket.
LEMMA TakenKeepsComing ==
  ASSUME TypeOK, wal # <<>>, wal' = Tail(wal),
         NEW x \in Xid, NEW r \in Rel, OnItsWay(x, r),
         ~Names(Head(wal), x),
         \A b \in Range(gate) : b.xid = x => Kept(gate', b),
         Head(wal) = Change(x, r) => \E b \in Range(gate') : b.xid = x /\ r \in b.rels
  PROVE  OnItsWay(x, r)'
<1>1. PICK i \in DOMAIN wal :
        /\ wal[i].kind = "end" /\ wal[i].committed /\ x \in {wal[i].xid} \cup wal[i].subxids
        /\ \/ \E b \in Range(gate) : b.xid = x /\ r \in b.rels
           \/ \E j \in 1..i - 1 : wal[j] = Change(x, r)
  BY DEF OnItsWay
<1>2. /\ Len(wal) \in Nat \ {0}
      /\ DOMAIN wal = 1..Len(wal)
      /\ DOMAIN wal' = 1..Len(wal) - 1
      /\ \A k \in 2..Len(wal) : wal[k] = wal'[k - 1]
      /\ Head(wal) = wal[1]
  BY TakenFirst
<1>3. i # 1
  BY <1>1, <1>2 DEF Names, Ended
<1>4. i - 1 \in DOMAIN wal' /\ wal'[i - 1] = wal[i]
  BY <1>1, <1>2, <1>3
<1>5. \/ \E b \in Range(gate') : b.xid = x /\ r \in b.rels
      \/ \E j \in 1..(i - 1) - 1 : wal'[j] = Change(x, r)
  <2>1. CASE \E b \in Range(gate) : b.xid = x /\ r \in b.rels
    BY <2>1 DEF Kept
  <2>2. ASSUME NEW j \in 1..i - 1, wal[j] = Change(x, r)
        PROVE  \/ \E b \in Range(gate') : b.xid = x /\ r \in b.rels
               \/ \E k \in 1..(i - 1) - 1 : wal'[k] = Change(x, r)
    <3>1. CASE j = 1
      BY <1>2, <2>2, <3>1
    <3>2. CASE j # 1
      <4>1. j - 1 \in 1..(i - 1) - 1 /\ wal'[j - 1] = wal[j]
        BY <1>2, <1>4, <3>2
      <4> QED
        BY <2>2, <4>1
    <3> QED
      BY <3>1, <3>2
  <2> QED
    BY <1>1, <2>1, <2>2
<1> QED
  BY <1>1, <1>4, <1>5 DEF OnItsWay, Change

\* What setdefault makes of the gate.
LEMMA BufferedHolds ==
  ASSUME TypeOK, OneToATransaction(gate), NEW x \in Xid, NEW r \in Rel
  PROVE  /\ Buffered(x, r) \in Seq(Bucket)
         /\ Len(Buffered(x, r)) \in 1..Len(gate) + 1
         /\ OneToATransaction(Buffered(x, r))
         /\ \A b \in Range(gate) : Kept(Buffered(x, r), b)
         /\ \E b \in Range(Buffered(x, r)) : b.xid = x /\ r \in b.rels
         /\ \A b \in Range(Buffered(x, r)) :
              b.xid = x \/ \E h \in Range(gate) : h.xid = b.xid
<1> DEFINE g == Buffered(x, r)
<1>1. /\ Len(gate) \in Nat
      /\ DOMAIN gate = 1..Len(gate)
      /\ \A i \in 1..Len(gate) : gate[i] \in Bucket
  BY Buckets
<1>2. CASE \E i \in DOMAIN gate : gate[i].xid = x
  <2> DEFINE N(i) == IF gate[i].xid = x THEN [gate[i] EXCEPT !.rels = @ \cup {r}] ELSE gate[i]
  <2>1. g = [i \in 1..Len(gate) |-> N(i)]
    BY <1>1, <1>2 DEF Buffered
  <2>2. \A i \in 1..Len(gate) :
          /\ N(i) \in Bucket
          /\ N(i).xid = gate[i].xid
          /\ gate[i].rels \subseteq N(i).rels
          /\ gate[i].xid = x => r \in N(i).rels
    BY <1>1 DEF Bucket
  <2> HIDE DEF N, g
  <2>3. g \in Seq(Bucket) /\ Len(g) = Len(gate) /\ DOMAIN g = 1..Len(gate)
    BY <1>1, <2>1, <2>2
  <2>4. \A i \in 1..Len(gate) :
          /\ g[i].xid = gate[i].xid
          /\ gate[i].rels \subseteq g[i].rels
          /\ gate[i].xid = x => r \in g[i].rels
    BY <2>1, <2>2
  <2>5. Len(g) \in 1..Len(gate) + 1 /\ OneToATransaction(g)
    BY <1>1, <1>2, <2>3, <2>4 DEF OneToATransaction
  <2>6. /\ \A b \in Range(gate) : Kept(g, b)
        /\ \E b \in Range(g) : b.xid = x /\ r \in b.rels
        /\ \A b \in Range(g) : \E h \in Range(gate) : h.xid = b.xid
    BY <1>1, <1>2, <2>3, <2>4 DEF Range, Kept
  <2> QED
    BY <2>3, <2>5, <2>6 DEF g
<1>3. CASE ~ \E i \in DOMAIN gate : gate[i].xid = x
  <2> DEFINE n == [xid |-> x, rels |-> {r}]
  <2>1. g = Append(gate, n) /\ n \in Bucket /\ n.xid = x /\ r \in n.rels
    BY <1>3 DEF Buffered, Bucket
  <2> HIDE DEF n, g
  <2>2. /\ g \in Seq(Bucket)
        /\ Len(g) = Len(gate) + 1
        /\ DOMAIN g = 1..Len(gate) + 1
        /\ \A i \in 1..Len(gate) : g[i] = gate[i]
        /\ g[Len(gate) + 1] = n
    BY <2>1 DEF TypeOK
  <2>3. OneToATransaction(g) /\ Len(g) \in 1..Len(gate) + 1
    BY <1>1, <1>3, <2>1, <2>2 DEF OneToATransaction
  <2>4. Range(g) = Range(gate) \cup {n}
    BY <1>1, <2>2 DEF Range
  <2>5. \A b \in Range(gate) : Kept(g, b)
    BY <2>4 DEF Kept
  <2> QED
    BY <2>1, <2>2, <2>3, <2>4, <2>5 DEF g
<1> QED
  BY <1>2, <1>3

\* What is released of a bucket is of its transaction.
LEMMA ReleasedAreChanges ==
  ASSUME NEW b \in Bucket
  PROVE  /\ ChangesOf(b) \in SUBSET Changes
         /\ \A c \in ChangesOf(b) : c[1] = b.xid /\ c[2] \in b.rels
BY DEF ChangesOf, Changes, Bucket

\* A change is buffered, and past max_open the oldest bucket released, which is thereby
\* evicted.
LEMMA TakeChangeEffect ==
  ASSUME IInv, TakeChange
  PROVE  /\ gate' \in Seq(Bucket) /\ Len(gate') <= MaxOpen /\ OneToATransaction(gate')
         /\ out' \in SUBSET Changes /\ \A c \in out' : c[1] \in evicted'
         /\ evicted' \in SUBSET Xid /\ evicted \subseteq evicted'
         /\ \A b \in Range(gate) : b.xid \notin evicted' => Kept(gate', b)
         /\ LET e == Head(wal) IN
              e.xid \notin evicted' => \E b \in Range(gate') : b.xid = e.xid /\ e.rel \in b.rels
         /\ \A b \in Range(gate') :
              b.xid = Head(wal).xid \/ \E h \in Range(gate) : h.xid = b.xid
<1> DEFINE e == Head(wal)
           g == Buffered(e.xid, e.rel)
<1>1. e \in Event /\ e.kind = "change" /\ e.xid \in Xid /\ e.rel \in Rel
  BY TakenFirst DEF IInv, TakeChange, Event
<1> HIDE DEF e
<1>2. OneToATransaction(gate) /\ Len(gate) <= MaxOpen
  BY DEF IInv, NothingStranded, OneToATransaction
<1>3. /\ g \in Seq(Bucket)
      /\ Len(g) \in 1..Len(gate) + 1
      /\ OneToATransaction(g)
      /\ \A b \in Range(gate) : Kept(g, b)
      /\ \E b \in Range(g) : b.xid = e.xid /\ e.rel \in b.rels
      /\ \A b \in Range(g) : b.xid = e.xid \/ \E h \in Range(gate) : h.xid = b.xid
  BY <1>1, <1>2, BufferedHolds DEF IInv
<1> HIDE DEF g
<1>4. CASE OverFull(g)
  <2>1. /\ gate' = Tail(g)
        /\ out' = ChangesOf(Head(g))
        /\ evicted' = evicted \cup {Head(g).xid}
    BY <1>4 DEF TakeChange, e, g
  <2>2. /\ Len(g) \in Nat \ {0} /\ DOMAIN g = 1..Len(g)
        /\ gate' \in Seq(Bucket) /\ Len(gate') = Len(g) - 1 /\ DOMAIN gate' = 1..Len(g) - 1
        /\ \A i \in 1..Len(g) - 1 : gate'[i] = g[i + 1]
        /\ Head(g) = g[1] /\ g[1] \in Bucket
    BY <1>3, <2>1 DEF IInv, TypeOK
  <2>3. /\ \A b \in Range(g) : b = Head(g) \/ b \in Range(gate')
        /\ \A b \in Range(gate') : b \in Range(g)
    <3>1. \A i \in 2..Len(g) : i - 1 \in DOMAIN gate' /\ gate'[i - 1] = g[i]
      BY <2>2
    <3>2. \A i \in DOMAIN gate' : i + 1 \in DOMAIN g /\ gate'[i] = g[i + 1]
      BY <2>2
    <3>3. \A i \in DOMAIN g : i = 1 \/ i \in 2..Len(g)
      BY <2>2
    <3> QED
      BY <2>2, <3>1, <3>2, <3>3 DEF Range
  <2>4. Len(gate') <= MaxOpen
    BY <1>2, <1>3, <2>2, Buckets, GateAssumption DEF IInv
  <2>5. OneToATransaction(gate')
    <3>1. \A i \in DOMAIN gate' : i + 1 \in DOMAIN g /\ gate'[i] = g[i + 1]
      BY <2>2
    <3>2. ASSUME NEW i \in DOMAIN gate', NEW j \in DOMAIN gate', gate'[i].xid = gate'[j].xid
          PROVE  i = j
      <4>1. i + 1 = j + 1
        BY <1>3, <3>1, <3>2 DEF OneToATransaction
      <4> QED
        BY <4>1, <2>2
    <3> QED
      BY <3>2 DEF OneToATransaction
  <2>6. out' \in SUBSET Changes /\ \A c \in out' : c[1] \in evicted'
    BY <2>1, <2>2, ReleasedAreChanges
  <2>7. evicted' \in SUBSET Xid /\ evicted \subseteq evicted'
    BY <2>1, <2>2 DEF IInv, TypeOK, Bucket
  <2>8. \A b \in Range(gate) : b.xid \notin evicted' => Kept(gate', b)
    BY <1>3, <2>1, <2>3 DEF Kept
  <2>9. e.xid \notin evicted' => \E b \in Range(gate') : b.xid = e.xid /\ e.rel \in b.rels
    BY <1>3, <2>1, <2>3
  <2>10. \A b \in Range(gate') : b.xid = e.xid \/ \E h \in Range(gate) : h.xid = b.xid
    BY <1>3, <2>3
  <2> QED
    BY <2>2, <2>4, <2>5, <2>6, <2>7, <2>8, <2>9, <2>10 DEF e
<1>5. CASE ~OverFull(g)
  <2>1. gate' = g /\ out' = {} /\ evicted' = evicted
    BY <1>5 DEF TakeChange, e, g
  <2>2. Len(g) <= MaxOpen
    BY <1>3, <1>5, Buckets, GateAssumption DEF OverFull, IInv
  <2> QED
    BY <1>3, <2>1, <2>2 DEF IInv, TypeOK, e
<1> QED
  BY <1>4, <1>5

\* That keeps the invariant.
LEMMA TakeChangeIInv ==
  ASSUME IInv, TakeChange
  PROVE  IInv'
<1> DEFINE e == Head(wal)
<1>1. /\ wal # <<>> /\ wal' = Tail(wal) /\ e.kind = "change"
      /\ UNCHANGED <<status, written, ahead>>
      /\ unseen' = unseen \ Nudged(out')
  BY DEF TakeChange, serverVars
<1>2. /\ wal' \in Seq(Event)
      /\ Len(wal) \in Nat \ {0}
      /\ DOMAIN wal = 1..Len(wal)
      /\ DOMAIN wal' = 1..Len(wal) - 1
      /\ \A i \in 2..Len(wal) : wal[i] = wal'[i - 1]
      /\ e = wal[1] /\ e \in Event
      /\ Range(wal) = {e} \cup Range(wal')
  BY <1>1, TakenFirst DEF IInv
<1>3. /\ gate' \in Seq(Bucket) /\ Len(gate') <= MaxOpen /\ OneToATransaction(gate')
      /\ out' \in SUBSET Changes /\ \A c \in out' : c[1] \in evicted'
      /\ evicted' \in SUBSET Xid /\ evicted \subseteq evicted'
      /\ \A b \in Range(gate) : b.xid \notin evicted' => Kept(gate', b)
      /\ e.xid \notin evicted' => \E b \in Range(gate') : b.xid = e.xid /\ e.rel \in b.rels
      /\ \A b \in Range(gate') : b.xid = e.xid \/ \E h \in Range(gate) : h.xid = b.xid
  BY TakeChangeEffect
<1> HIDE DEF e
<1>4. TypeOK'
  BY <1>1, <1>2, <1>3 DEF IInv, TypeOK
<1>5. OutcomesAreLast' /\ ChangesHaveOutcomes'
  BY <1>1, TakenKeepsOrder
<1>6. NothingStranded'
  <2>1. SUFFICES ASSUME NEW b \in Range(gate'), InOnePhase(b.xid), status[b.xid] # "open"
                 PROVE  \E n \in Range(wal') : n.kind = "end" /\ b.xid \in {n.xid} \cup n.subxids
    BY <1>1, <1>3 DEF NothingStranded, OneToATransaction, InOnePhase
  <2>2. CASE b.xid = e.xid
    <3>1. PICK i \in DOMAIN wal : 1 < i /\ Names(wal[i], e.xid)
      BY <1>1, <1>2, <2>1, <2>2 DEF IInv, ChangesHaveOutcomes
    <3>2. i - 1 \in DOMAIN wal' /\ wal'[i - 1] = wal[i]
      BY <1>2, <3>1
    <3>3. wal[i] \in Range(wal')
      BY <3>2 DEF Range
    <3> QED
      BY <2>2, <3>1, <3>3 DEF Names, Ended
  <2>3. CASE b.xid # e.xid
    <3>1. PICK h \in Range(gate) : h.xid = b.xid
      BY <1>3, <2>3
    <3>2. PICK n \in Range(wal) : n.kind = "end" /\ h.xid \in {n.xid} \cup n.subxids
      BY <2>1, <3>1 DEF IInv, NothingStranded
    <3> QED
      BY <1>1, <1>2, <3>1, <3>2
  <2> QED
    BY <2>2, <2>3
<1>7. NoEarlyNudge' /\ IdleWroteNothing'
  BY <1>1, <1>3 DEF IInv, NoEarlyNudge, IdleWroteNothing, Gated
<1>8. WrittenIsHeld'
  <2>1. SUFFICES ASSUME NEW x \in Xid, Gated(x)', status[x] = "open", NEW r \in written[x]
                 PROVE  \/ \E b \in Range(gate') : b.xid = x /\ r \in b.rels
                        \/ \E j \in DOMAIN wal' : wal'[j] = Change(x, r)
    BY <1>1 DEF WrittenIsHeld, Change, Gated, InOnePhase
  <2>2. Gated(x) /\ x \notin evicted'
    BY <1>3, <2>1 DEF Gated, InOnePhase
  <2>3. \/ \E b \in Range(gate) : b.xid = x /\ r \in b.rels
        \/ \E j \in DOMAIN wal : wal[j] = Change(x, r)
    BY <2>1, <2>2 DEF IInv, WrittenIsHeld
  <2>4. CASE \E b \in Range(gate) : b.xid = x /\ r \in b.rels
    BY <1>3, <2>2, <2>4 DEF Kept
  <2>5. ASSUME NEW j \in DOMAIN wal, wal[j] = Change(x, r)
        PROVE  \/ \E b \in Range(gate') : b.xid = x /\ r \in b.rels
               \/ \E k \in DOMAIN wal' : wal'[k] = Change(x, r)
    <3>1. CASE j = 1
      BY <1>2, <1>3, <2>2, <2>5, <3>1 DEF Change
    <3>2. CASE j # 1
      <4>1. j - 1 \in DOMAIN wal' /\ wal'[j - 1] = wal[j]
        BY <1>2, <3>2
      <4> QED
        BY <2>5, <4>1
    <3> QED
      BY <3>1, <3>2
  <2> QED
    BY <2>3, <2>4, <2>5
<1>9. ASSUME NEW x \in Xid, NEW r \in Rel, Gated(x)', OnItsWay(x, r)
      PROVE  OnItsWay(x, r)'
  <2>1. x \notin evicted'
    BY <1>9 DEF Gated
  <2>2. ~Names(Head(wal), x)
    BY <1>1 DEF Names, e
  <2>3. Head(wal) = Change(x, r) => \E b \in Range(gate') : b.xid = x /\ r \in b.rels
    BY <1>3, <2>1 DEF Change, e
  <2> QED
    BY <1>1, <1>3, <1>9, <2>1, <2>2, <2>3, TakenKeepsComing DEF IInv
<1>10. \A x \in Xid : Timely(x)' => Timely(x) /\ Gated(x)'
  BY <1>1, <1>3 DEF Timely, Gated, InOnePhase
<1>11. CommittingIsOnItsWay'
  <2>1. SUFFICES ASSUME NEW x \in Xid, Timely(x)', status[x] = "committing",
                        NEW r \in written[x]
                 PROVE  OnItsWay(x, r)'
    BY <1>1 DEF CommittingIsOnItsWay
  <2>2. r \in Rel
    BY DEF IInv, TypeOK
  <2> QED
    BY <1>9, <1>10, <2>1, <2>2 DEF IInv, CommittingIsOnItsWay
<1>12. CommitIsOnItsWay'
  <2>1. SUFFICES ASSUME NEW c \in unseen', Timely(c[1])'
                 PROVE  OnItsWay(c[1], c[2])'
    BY DEF CommitIsOnItsWay
  <2>2. c \in unseen /\ c[1] \in Xid /\ c[2] \in Rel
    BY <1>1 DEF IInv, TypeOK, Changes
  <2> QED
    BY <1>9, <1>10, <2>1, <2>2 DEF IInv, CommitIsOnItsWay
<1> QED
  BY <1>4, <1>5, <1>6, <1>7, <1>8, <1>11, <1>12 DEF IInv

\* So does an outcome: its buckets go, and if it is a commit all they hold is released.
LEMMA TakeEndIInv ==
  ASSUME IInv, TakeEnd
  PROVE  IInv'
<1> DEFINE e == Head(wal)
           ended == {b \in Range(gate) : b.xid \in Ended(e)}
<1>1. /\ wal # <<>> /\ wal' = Tail(wal) /\ e.kind = "end"
      /\ gate' = Without(gate, Ended(e))
      /\ out' = IF e.committed THEN UNION {ChangesOf(b) : b \in ended} ELSE {}
      /\ ahead' = ahead \cup {x \in Ended(e) : status[x] = "committing"}
      /\ unseen' = unseen \ Nudged(out')
      /\ UNCHANGED <<status, written, evicted>>
  BY DEF TakeEnd, serverVars, Releases
<1>2. /\ wal' \in Seq(Event)
      /\ Len(wal) \in Nat \ {0}
      /\ DOMAIN wal = 1..Len(wal)
      /\ DOMAIN wal' = 1..Len(wal) - 1
      /\ \A i \in 2..Len(wal) : wal[i] = wal'[i - 1]
      /\ e = wal[1] /\ e \in Event
      /\ Range(wal) = {e} \cup Range(wal')
  BY <1>1, TakenFirst DEF IInv
<1>3. /\ gate' \in Seq(Bucket)
      /\ Len(gate') <= Len(gate)
      /\ Range(gate') = {b \in Range(gate) : b.xid \notin Ended(e)}
      /\ OneToATransaction(gate) => OneToATransaction(gate')
  BY <1>1, WithoutKeepsOthers DEF IInv, TypeOK
<1>4. Ended(e) \in SUBSET Xid
  BY <1>1, <1>2 DEF Ended, Event
<1>5. \A b \in ended : /\ b.xid \in Ended(e)
                       /\ ChangesOf(b) \in SUBSET Changes
                       /\ \A c \in ChangesOf(b) : c[1] = b.xid
  BY Buckets, ReleasedAreChanges DEF IInv
<1> HIDE DEF e, ended
<1>6. out' \in SUBSET Changes /\ \A c \in out' : e.committed /\ c[1] \in Ended(e)
  BY <1>1, <1>5
<1>7. TypeOK'
  BY <1>1, <1>2, <1>3, <1>4, <1>6 DEF IInv, TypeOK
<1>8. OutcomesAreLast' /\ ChangesHaveOutcomes'
  BY <1>1, TakenKeepsOrder
<1>9. NothingStranded'
  <2>1. Len(gate') <= MaxOpen
    <3>1. Len(gate) \in Nat /\ Len(gate') \in Nat /\ Len(gate) <= MaxOpen
      BY <1>3 DEF IInv, TypeOK, NothingStranded
    <3> QED
      BY <1>3, <3>1, GateAssumption
  <2>2. OneToATransaction(gate')
    BY <1>3 DEF IInv, NothingStranded, OneToATransaction
  <2>3. ASSUME NEW b \in Range(gate'), InOnePhase(b.xid), status[b.xid] # "open"
        PROVE  \E n \in Range(wal') : n.kind = "end" /\ b.xid \in {n.xid} \cup n.subxids
    <3>1. b \in Range(gate) /\ b.xid \notin Ended(e)
      BY <1>3
    <3>2. PICK n \in Range(wal) : n.kind = "end" /\ b.xid \in {n.xid} \cup n.subxids
      BY <2>3, <3>1 DEF IInv, NothingStranded
    <3>3. n # e
      BY <3>1, <3>2 DEF Ended
    <3> QED
      BY <1>2, <3>2, <3>3
  <2> QED
    BY <1>1, <2>1, <2>2, <2>3 DEF NothingStranded, OneToATransaction, InOnePhase
<1>10. \A x \in Ended(e) :
         /\ Names(wal[1], x)
         /\ status[x] \notin {"idle", "open"}
         /\ InOnePhase(x) /\ e.committed => status[x] \in {"committing", "committed"}
         /\ \A j \in DOMAIN wal : wal[j].xid = x \/ Names(wal[j], x) => j <= 1
  BY <1>1, <1>2, <1>4 DEF IInv, OutcomesAreLast, Names
<1>11. NoEarlyNudge' /\ IdleWroteNothing'
  BY <1>1, <1>6, <1>10 DEF IInv, NoEarlyNudge, IdleWroteNothing, Gated, InOnePhase
<1>12. WrittenIsHeld'
  <2>1. SUFFICES ASSUME NEW x \in Xid, Gated(x), status[x] = "open", NEW r \in written[x]
                 PROVE  \/ \E b \in Range(gate') : b.xid = x /\ r \in b.rels
                        \/ \E j \in DOMAIN wal' : wal'[j] = Change(x, r)
    BY <1>1 DEF WrittenIsHeld, Change, Gated, InOnePhase
  <2>2. x \notin Ended(e)
    BY <1>10, <2>1
  <2>3. \/ \E b \in Range(gate) : b.xid = x /\ r \in b.rels
        \/ \E j \in DOMAIN wal : wal[j] = Change(x, r)
    BY <2>1 DEF IInv, WrittenIsHeld
  <2>4. ASSUME NEW j \in DOMAIN wal, wal[j] = Change(x, r)
        PROVE  \E k \in DOMAIN wal' : wal'[k] = Change(x, r)
    <3>1. j # 1
      BY <1>1, <1>2, <2>4 DEF Change
    <3>2. j - 1 \in DOMAIN wal' /\ wal'[j - 1] = wal[j]
      BY <1>2, <3>1
    <3> QED
      BY <2>4, <3>2
  <2> QED
    BY <1>3, <2>2, <2>3, <2>4
<1>13. ASSUME NEW x \in Xid, NEW r \in Rel, x \notin Ended(e), OnItsWay(x, r)
       PROVE  OnItsWay(x, r)'
  <2>1. ~Names(Head(wal), x)
    BY <1>13 DEF Names, e
  <2>2. \A b \in Range(gate) : b.xid = x => Kept(gate', b)
    BY <1>3, <1>13 DEF Kept
  <2>3. Head(wal) # Change(x, r)
    BY <1>1 DEF Change, e
  <2> QED
    BY <1>1, <1>13, <2>1, <2>2, <2>3, TakenKeepsComing DEF IInv
\* What its outcome finds on its way is in its bucket by then, and released.
<1>14. ASSUME NEW x \in Ended(e), NEW r \in Rel, OnItsWay(x, r)
       PROVE  <<x, r>> \in out'
  <2>1. PICK i \in DOMAIN wal :
          /\ Names(wal[i], x) /\ wal[i].committed
          /\ \/ \E b \in Range(gate) : b.xid = x /\ r \in b.rels
             \/ \E j \in 1..i - 1 : wal[j] = Change(x, r)
    BY <1>14 DEF OnItsWay, Names, Ended
  <2>2. i = 1
    BY <1>2, <1>10, <2>1
  <2>3. PICK b \in Range(gate) : b.xid = x /\ r \in b.rels
    BY <2>1, <2>2
  <2>4. b \in ended /\ <<x, r>> \in ChangesOf(b)
    BY <2>3 DEF ended, ChangesOf
  <2> QED
    BY <1>1, <1>2, <2>1, <2>2, <2>4
<1>15. \A x \in Xid : Timely(x)' =>
         Timely(x) /\ (status[x] = "committing" => x \notin Ended(e))
  BY <1>1 DEF Timely, Gated, InOnePhase
<1>16. CommittingIsOnItsWay'
  <2>1. SUFFICES ASSUME NEW x \in Xid, Timely(x)', status[x] = "committing",
                        NEW r \in written[x]
                 PROVE  OnItsWay(x, r)'
    BY <1>1 DEF CommittingIsOnItsWay
  <2>2. r \in Rel
    BY DEF IInv, TypeOK
  <2> QED
    BY <1>13, <1>15, <2>1, <2>2 DEF IInv, CommittingIsOnItsWay
<1>17. CommitIsOnItsWay'
  <2>1. SUFFICES ASSUME NEW c \in unseen', Timely(c[1])'
                 PROVE  OnItsWay(c[1], c[2])'
    BY DEF CommitIsOnItsWay
  <2>2. /\ c \in unseen /\ c \notin Nudged(out')
        /\ c \in Changes /\ c[1] \in Xid /\ c[2] \in Rel /\ c = <<c[1], c[2]>>
    BY <1>1 DEF IInv, TypeOK, Changes
  <2>3. OnItsWay(c[1], c[2])
    BY <1>15, <2>1, <2>2 DEF IInv, CommitIsOnItsWay
  <2>4. c \notin out'
    BY <2>2 DEF Nudged
  <2>5. c[1] \notin Ended(e)
    BY <1>14, <2>2, <2>3, <2>4
  <2> QED
    BY <1>13, <2>2, <2>3, <2>5
<1> QED
  BY <1>7, <1>8, <1>9, <1>11, <1>12, <1>16, <1>17 DEF IInv

\* The invariant holds before anything is written.
LEMMA InitIInv == Init => IInv
<1> SUFFICES ASSUME Init
             PROVE  IInv
  OBVIOUS
<1>1. TypeOK
  BY DEF Init, TypeOK
<1>2. Range(gate) = {} /\ DOMAIN gate = {} /\ DOMAIN wal = {} /\ Len(gate) = 0
  BY DEF Init, Range
<1> QED
  BY <1>1, <1>2, GateAssumption
  DEF Init, IInv, OutcomesAreLast, ChangesHaveOutcomes, NothingStranded, NoEarlyNudge,
      IdleWroteNothing, WrittenIsHeld, CommittingIsOnItsWay, CommitIsOnItsWay

\* It says nothing but of the state.
LEMMA StutterIInv ==
  ASSUME IInv, UNCHANGED vars
  PROVE  IInv'
BY DEF vars, IInv, TypeOK, OutcomesAreLast, ChangesHaveOutcomes, NothingStranded, NoEarlyNudge,
       IdleWroteNothing, WrittenIsHeld, CommittingIsOnItsWay, CommitIsOnItsWay, Names, Ended,
       InOnePhase, Gated, Timely, OnItsWay, Change

\* Every step of the server and of the gate keeps the invariant.
LEMMA NextIInv == IInv /\ [Next]_vars => IInv'
<1> SUFFICES ASSUME IInv, [Next]_vars
             PROVE  IInv'
  OBVIOUS
<1>1. ASSUME NEW x \in Xid, NEW r \in Rel, Write(x, r)
      PROVE  IInv'
  BY <1>1, WriteIInv
<1>2. ASSUME NEW x \in Xid, Commit(x) \/ Abort(x) \/ Prepare(x)
      PROVE  IInv'
  BY <1>2, ServerEndsIInv
<1>3. ASSUME NEW x \in Xid, Finish(x) \/ CommitPrepared(x) \/ RollbackPrepared(x)
      PROVE  IInv'
  BY <1>3, FinishIInv
<1>4. CASE Push
  BY <1>4, TakeChangeIInv, TakeEndIInv DEF Push
<1>5. CASE UNCHANGED vars
  BY <1>5, StutterIInv
<1> QED
  BY <1>1, <1>2, <1>3, <1>4, <1>5 DEF Next

\* So it always holds.
LEMMA GateInvariant == Spec => []IInv
BY InitIInv, NextIInv, PTL DEF Spec

\* The gate is well typed.
THEOREM GateTypeOK == Spec => []TypeOK
BY GateInvariant, PTL DEF IInv

\* The gate does not leak: at most max_open buckets, one to a transaction, and each in
\* one phase is of a transaction that is still open or has its outcome under way
\* (CommitGate.push).
THEOREM GateNothingStranded == Spec => []NothingStranded
BY GateInvariant, PTL DEF IInv

\* No change is released before the record of its commit is written, and none of what
\* was rolled back ("no wakeups for rollbacks", CommitGate).
THEOREM GateNoEarlyNudge == Spec => []NoEarlyNudge
BY GateInvariant, PTL DEF IInv

\* A committed change that the gate was in time for is on its way to the consumer until
\* it is nudged, through evictions, savepoints and aborts of others.
THEOREM GateCommitIsOnItsWay == Spec => []CommitIsOnItsWay
BY GateInvariant, PTL DEF IInv
================================================================================
