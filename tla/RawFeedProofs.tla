---------------------------- MODULE RawFeedProofs -----------------------------
(***************************************************************************)
(* The physical feed, for any tables, transactions and rewrites: but for   *)
(* the two cases that are excused, there is no silent gap, whatever the    *)
(* order of writes, watermark, records, lookups and lost connections.      *)
(***************************************************************************)
EXTENDS RawFeed, FeedContractProofs

\* The indices of the records past the watermark, one of them taken or added.
LEMMA Shifted ==
  ASSUME NEW w \in Seq(Records), w # <<>>
  PROVE  /\ Tail(w) \in Seq(Records) /\ Head(w) \in Records /\ Head(w) = w[1]
         /\ Len(Tail(w)) = Len(w) - 1 /\ Len(w) \in Nat \ {0}
         /\ \A i \in 1..Len(w) - 1 : Tail(w)[i] = w[i + 1]
         /\ \A i \in 2..Len(w) : i - 1 \in 1..Len(w) - 1 /\ Tail(w)[i - 1] = w[i]
<1>1. /\ Tail(w) \in Seq(Records) /\ Head(w) \in Records /\ Head(w) = w[1]
      /\ Len(Tail(w)) = Len(w) - 1 /\ Len(w) \in Nat \ {0}
      /\ \A i \in 1..Len(w) - 1 : Tail(w)[i] = w[i + 1]
  OBVIOUS
<1>2. ASSUME NEW i \in 2..Len(w)
      PROVE  i - 1 \in 1..Len(w) - 1 /\ Tail(w)[i - 1] = w[i]
  BY <1>1
<1> QED
  BY <1>1, <1>2

LEMMA Added ==
  ASSUME NEW w \in Seq(Records), NEW e \in Records
  PROVE  /\ Append(w, e) \in Seq(Records)
         /\ Len(Append(w, e)) = Len(w) + 1 /\ Len(w) \in Nat
         /\ \A i \in 1..Len(w) : Append(w, e)[i] = w[i]
         /\ Append(w, e)[Len(w) + 1] = e
OBVIOUS

\* A record is a change or an end.
LEMMA RecordTypes ==
  /\ \A x \in Xid, n \in Node : RelChange(x, n) \in Records
  /\ \A x \in Xid, c \in BOOLEAN : TxnEnd(x, c) \in Records
  /\ \A e \in Records : e.xid \in Xid /\ e.kind \in {"change", "end"}
  /\ \A e \in Records : e.kind = "change" => e.node \in Node
  /\ \A e \in Records : e.kind = "end" => e.committed \in BOOLEAN
BY DEF RelChange, TxnEnd, Records

\* A node is a table and a version.
LEMMA NodeTypes ==
  /\ \A N \in SUBSET Node : Tables(N) \in SUBSET Payload
  /\ \A n \in Node : n = <<n[1], n[2]>> /\ n[1] \in Payload
BY DEF Node, Tables

------------------------------------------------------------------------------
\* The types.

\* A log that is written to, or not.
LEMMA LoggedTypes ==
  ASSUME RawTypeOK, NEW e \in Records, Logged(e)
  PROVE  wal' \in Seq(Records) /\ Len(wal) <= Len(wal') /\ mark \in 0..Len(wal')
<1>1. wal' \in Seq(Records) /\ Len(wal) <= Len(wal')
  <2>1. CASE Attached
    BY <2>1, Added DEF Logged, RawTypeOK
  <2>2. CASE ~Attached
    BY <2>2 DEF Logged, RawTypeOK
  <2> QED
    BY <2>1, <2>2
<1> QED
  BY <1>1 DEF RawTypeOK

LEMMA InitRawType == RawInit => RawTypeOK
<1> SUFFICES ASSUME RawInit
             PROVE  RawTypeOK
  OBVIOUS
<1>1. wal \in Seq(Records) /\ mark \in 0..Len(wal)
  BY DEF RawInit
<1>2. out \in Seq(FeedItem)
  BY DEF RawInit
<1>3. node \in [Payload -> 0..MaxRewrites]
  BY RawAssumption DEF RawInit
<1>4. NoChanges \in [Xid -> SUBSET Node]
  BY DEF NoChanges
<1>5. HealthTypeOK
  BY HealthAssumption DEF RawInit, HealthInit, HealthTypeOK
<1> QED
  BY <1>1, <1>2, <1>3, <1>4, <1>5 DEF RawInit, RawTypeOK, TypeOK

LEMMA ServerTypes ==
  ASSUME RawTypeOK,
         \/ \E x \in Xid : (\E t \in Payload : Write(x, t)) \/ Commit(x) \/ Abort(x)
         \/ \E t \in Rewritable : Rewrite(t)
         \/ CatalogDies
  PROVE  RawTypeOK'
<1> USE DEF feedVars, sessionVars, serverVars, history, healthVars
<1>1. ASSUME NEW x \in Xid, NEW t \in Payload, Write(x, t)
      PROVE  RawTypeOK'
  <2>1. <<t, node[t]>> \in Node
    BY DEF RawTypeOK, Node
  <2>2. wal' \in Seq(Records) /\ mark \in 0..Len(wal')
    BY <1>1, <2>1, LoggedTypes, RecordTypes DEF Write
  <2>3. wrote' \in [Xid -> SUBSET Node]
    BY <1>1, <2>1 DEF Write, RawTypeOK
  <2> QED
    BY <1>1, <2>2, <2>3 DEF Write, RawTypeOK, TypeOK, HealthTypeOK
<1>2. ASSUME NEW x \in Xid, Commit(x)
      PROVE  RawTypeOK'
  <2>1. wal' \in Seq(Records) /\ mark \in 0..Len(wal')
    BY <1>2, LoggedTypes, RecordTypes DEF Commit
  <2>2. /\ wrote' \in [Xid -> SUBSET Node]
        /\ stale' \in SUBSET Payload
        /\ excused' \in SUBSET Payload
    <3>1. wrote[x] \in SUBSET Node
      BY DEF RawTypeOK
    <3>2. Tables(wrote[x]) \in SUBSET Payload
          /\ Tables({n \in wrote[x] : <<x, n>> \in straddled}) \in SUBSET Payload
      BY <3>1, NodeTypes
    <3> QED
      BY <1>2, <3>2 DEF Commit, RawTypeOK, TypeOK
  <2> QED
    BY <1>2, <2>1, <2>2 DEF Commit, RawTypeOK, TypeOK, HealthTypeOK
<1>3. ASSUME NEW x \in Xid, Abort(x)
      PROVE  RawTypeOK'
  <2>1. wal' \in Seq(Records) /\ mark \in 0..Len(wal')
    BY <1>3, LoggedTypes, RecordTypes DEF Abort
  <2>2. wrote' \in [Xid -> SUBSET Node]
    BY <1>3 DEF Abort, RawTypeOK
  <2> QED
    BY <1>3, <2>1, <2>2 DEF Abort, RawTypeOK, TypeOK, HealthTypeOK
<1>4. ASSUME NEW t \in Rewritable, Rewrite(t)
      PROVE  RawTypeOK'
  <2>1. t \in Payload
    BY RawAssumption
  <2>2. node' \in [Payload -> 0..MaxRewrites] /\ excused' \in SUBSET Payload
    BY <1>4, <2>1, RawAssumption DEF Rewrite, RawTypeOK
  <2> QED
    BY <1>4, <2>2 DEF Rewrite, RawTypeOK, TypeOK, HealthTypeOK
<1>5. CASE CatalogDies
  BY <1>5 DEF CatalogDies, RawTypeOK, TypeOK, HealthTypeOK
<1> QED
  BY <1>1, <1>2, <1>3, <1>4, <1>5

LEMMA EngineTypes ==
  ASSUME RawTypeOK, EngineAnnounces \/ ConsumerReads
  PROVE  RawTypeOK'
<1> USE DEF sessionVars, serverVars, history, healthVars
<1>1. CASE EngineAnnounces
  <2>1. PICK item \in FeedItem : out' = Append(out, item)
    <3>1. Reload("overflow") => out' = Append(out, Resync("overflow"))
      BY DEF Reload
    <3>2. \A S \in SUBSET Payload : Nudge(S) => out' = Append(out, Batch(S))
      BY DEF Nudge
    <3> QED
      BY <1>1, <3>1, <3>2, ItemTypes DEF EngineAnnounces, Reasons
  <2>2. out' \in Seq(FeedItem)
    BY <2>1 DEF RawTypeOK, TypeOK
  <2>3. stale' = stale /\ owed' \in SUBSET Payload
    BY <1>1 DEF EngineAnnounces, Nudge, Reload, RawTypeOK, TypeOK
  <2> QED
    BY <1>1, <2>2, <2>3 DEF EngineAnnounces, RawTypeOK, TypeOK, HealthTypeOK
<1>2. CASE ConsumerReads
  <2>1. out' \in Seq(FeedItem) /\ stale' \in SUBSET Payload /\ owed' = owed
    BY <1>2 DEF ConsumerReads, Consume, RawTypeOK, TypeOK
  <2> QED
    BY <1>2, <2>1 DEF ConsumerReads, RawTypeOK, TypeOK, HealthTypeOK
<1> QED
  BY <1>1, <1>2

\* What is found is what was asked for.
LEMMA FoundTypes ==
  ASSUME RawTypeOK
  PROVE  Found \in SUBSET Node /\ Resolved \in SUBSET Node
BY DEF Found, Resolved, RawTypeOK

LEMMA SupervisorTypes ==
  ASSUME RawTypeOK, Supervise
  PROVE  RawTypeOK'
<1> USE DEF feedVars, sessionVars, serverVars, history, healthVars
<1>1. CASE ConnectDone \/ CatalogDone \/ IdentifyDone \/ PauseDone
  BY <1>1
  DEF ConnectDone, CatalogDone, IdentifyDone, PauseDone, SupMoves, RawTypeOK, TypeOK, HealthTypeOK
<1>2. CASE InsertDone
  <2>1. Len(wal) \in 0..Len(wal)
    BY DEF RawTypeOK
  <2> QED
    BY <1>2, <2>1 DEF InsertDone, SupMoves, Watermark, RawTypeOK, TypeOK, HealthTypeOK
<1>3. CASE StartDone
  <2>1. out' \in Seq(FeedItem)
    BY <1>3, ItemTypes DEF StartDone, Announces, RawTypeOK, TypeOK, Reasons
  <2>2. HealthTypeOK'
    BY <1>3, HealthAssumption DEF StartDone, GoesLive, HealthTypeOK
  <2> QED
    BY <1>3, <2>1, <2>2 DEF StartDone, RawTypeOK, TypeOK
<1>4. CASE ReadRecord
  <2> DEFINE e == Head(wal)
  <2>1. /\ wal' \in Seq(Records) /\ e \in Records /\ e.xid \in Xid
        /\ mark' \in 0..Len(wal')
    BY <1>4, Shifted, RecordTypes DEF ReadRecord, RawTypeOK
  <2>2. /\ owed' \in SUBSET Payload
        /\ gate' \in [Xid -> SUBSET Node]
        /\ released' \in SUBSET Node
        /\ sup' \in {"stream", "resolve"}
    <3>1. CASE mark > 0
      BY <1>4, <3>1 DEF ReadRecord, RawTypeOK, TypeOK
    <3>2. CASE mark = 0 /\ e.kind = "change"
      <4>1. e.node \in Node
        BY <2>1, <3>2, RecordTypes
      <4>2. gate' = [gate EXCEPT ![e.xid] = @ \cup {e.node}] /\ UNCHANGED <<owed, released, sup>>
        BY <1>4, <3>2 DEF ReadRecord
      <4> QED
        BY <1>4, <2>1, <4>1, <4>2 DEF ReadRecord, RawTypeOK, TypeOK
    <3>3. CASE mark = 0 /\ e.kind = "end"
      <4> DEFINE nodes == IF e.committed THEN gate[e.xid] ELSE {}
      <4>1. nodes \in SUBSET Node /\ Tables(nodes) \in SUBSET Payload
        <5>1. nodes \in SUBSET Node
          BY <2>1 DEF RawTypeOK
        <5> QED
          BY <5>1, NodeTypes
      <4>2. /\ gate' = [gate EXCEPT ![e.xid] = {}]
            /\ \/ owed' = owed \cup Tables(nodes) /\ UNCHANGED <<released, sup>>
               \/ released' = nodes /\ sup' = "resolve" /\ UNCHANGED owed
        BY <1>4, <3>3 DEF ReadRecord, PushCommitted
      <4> HIDE DEF nodes
      <4> QED
        BY <1>4, <2>1, <4>1, <4>2 DEF ReadRecord, RawTypeOK, TypeOK
    <3> QED
      BY <1>4, <3>1, <3>2, <3>3 DEF ReadRecord, RawTypeOK
  <2> QED
    BY <1>4, <2>1, <2>2 DEF ReadRecord, RawTypeOK, TypeOK, HealthTypeOK
<1>5. CASE ResolveDone
  <2>1. owed' \in SUBSET Payload /\ known' \in SUBSET Node
    BY <1>5, FoundTypes, NodeTypes DEF ResolveDone, PushCommitted, RawTypeOK, TypeOK
  <2> QED
    BY <1>5, <2>1 DEF ResolveDone, RawTypeOK, TypeOK, HealthTypeOK
<1>6. CASE RoundEnds
  <2>1. wal' \in Seq(Records) /\ mark' \in 0..Len(wal')
    BY <1>6 DEF RoundEnds
  <2>2. gate' \in [Xid -> SUBSET Node]
    BY <1>6 DEF RoundEnds, NoChanges
  <2>3. HealthTypeOK'
    <3>1. RoundFails(sup \in {"stream", "resolve"})
      BY <1>6 DEF RoundEnds
    <3>2. attempt' \in 0..AttemptBound /\ failures' \in Nat /\ errors' \in Nat
      BY <3>1, HealthAssumption
      DEF RoundFails, RecordConnectFailure, RawTypeOK, HealthTypeOK
    <3> QED
      BY <3>2 DEF HealthTypeOK
  <2> QED
    BY <1>6, <2>1, <2>2, <2>3 DEF RoundEnds, RawTypeOK, TypeOK
<1> QED
  BY <1>1, <1>2, <1>3, <1>4, <1>5, <1>6 DEF Supervise

LEMMA StepRawType == RawTypeOK /\ [RawNext]_rawVars => RawTypeOK'
<1>1. RawTypeOK /\ UNCHANGED rawVars => RawTypeOK'
  BY DEF rawVars, feedVars, sessionVars, serverVars, history, healthVars, RawTypeOK, TypeOK,
         HealthTypeOK
<1> QED
  BY <1>1, ServerTypes, EngineTypes, SupervisorTypes DEF RawNext

------------------------------------------------------------------------------
\* What is on its way.

\* In the records w past the watermark m, n is changed before record i by i's transaction.
ChangedBefore(w, m, i, n) ==
  \E j \in m + 1..Len(w) :
    j < i /\ w[j].kind = "change" /\ w[j].xid = w[i].xid /\ w[j].node = n

\* Record i is a commit that releases n, from the gate g or from before it.
Sends(w, m, g, i, n) ==
  /\ w[i].kind = "end" /\ w[i].committed
  /\ n \in g[w[i].xid] \/ ChangedBefore(w, m, i, n)

OnWay(w, m, g, r, n) == n \in r \/ \E i \in m + 1..Len(w) : Sends(w, m, g, i, n)

LEMMA OnItsWayIs ==
  /\ \A n : n \in OnItsWay <=> OnWay(wal, mark, gate, released, n)
  /\ \A n : n \in OnItsWay' <=> OnWay(wal', mark', gate', released', n)
<1>1. \A n : n \in OnItsWay <=> OnWay(wal, mark, gate, released, n)
  BY DEF OnItsWay, CommitsAhead, OnWay, Sends, ChangedBefore
<1>2. \A n : n \in OnItsWay' <=> OnWay(wal', mark', gate', released', n)
  BY DEF OnItsWay, CommitsAhead, OnWay, Sends, ChangedBefore
<1> QED
  BY <1>1, <1>2

\* A record more takes nothing off its way.
LEMMA StaysOnAppend ==
  ASSUME NEW w \in Seq(Records), NEW m \in 0..Len(w), NEW e \in Records, NEW g, NEW r, NEW n,
         OnWay(w, m, g, r, n)
  PROVE  OnWay(Append(w, e), m, g, r, n)
<1> DEFINE v == Append(w, e)
<1>1. /\ Len(v) = Len(w) + 1 /\ Len(w) \in Nat
      /\ \A i \in 1..Len(w) : v[i] = w[i]
  BY Added
<1>2. \A i \in m + 1..Len(w) : i \in m + 1..Len(v) /\ v[i] = w[i]
  BY <1>1
<1> HIDE DEF v
<1>3. ASSUME NEW i \in m + 1..Len(w), Sends(w, m, g, i, n)
      PROVE  Sends(v, m, g, i, n)
  BY <1>2, <1>3 DEF Sends, ChangedBefore
<1>4. OnWay(v, m, g, r, n)
  BY <1>2, <1>3 DEF OnWay
<1> QED
  BY <1>4 DEF v

\* The commit of a transaction puts on its way what is tracked of it.
LEMMA CommitSends ==
  ASSUME NEW w \in Seq(Records), NEW m \in 0..Len(w), NEW g, NEW r, NEW x \in Xid, NEW n,
         n \in g[x] \/ \E j \in m + 1..Len(w) : w[j] = RelChange(x, n)
  PROVE  OnWay(Append(w, TxnEnd(x, TRUE)), m, g, r, n)
<1> DEFINE e == TxnEnd(x, TRUE)
<1> DEFINE v == Append(w, e)
<1> DEFINE l == Len(w) + 1
<1>1. e \in Records /\ e.kind = "end" /\ e.committed /\ e.xid = x
  BY RecordTypes DEF TxnEnd
<1>2. /\ Len(v) = l /\ l \in Nat /\ Len(w) \in Nat
      /\ \A i \in 1..Len(w) : v[i] = w[i]
      /\ v[l] = e
  <2> HIDE DEF e
  <2> QED
    BY <1>1, Added
<1> HIDE DEF e, v
<1>3. l \in m + 1..Len(v)
  BY <1>2
<1>4. \A j \in m + 1..Len(w) : j \in m + 1..Len(v) /\ v[j] = w[j] /\ j < l
  BY <1>2
<1> HIDE DEF l
<1>5. n \in g[x] \/ ChangedBefore(v, m, l, n)
  <2>1. ASSUME NEW j \in m + 1..Len(w), w[j] = RelChange(x, n)
        PROVE  ChangedBefore(v, m, l, n)
    <3>1. w[j].kind = "change" /\ w[j].xid = x /\ w[j].node = n
      BY <2>1 DEF RelChange
    <3> QED
      BY <1>1, <1>2, <1>4, <3>1 DEF ChangedBefore
  <2> QED
    BY <2>1
<1>6. Sends(v, m, g, l, n)
  BY <1>1, <1>2, <1>5 DEF Sends
<1>7. OnWay(v, m, g, r, n)
  BY <1>3, <1>6 DEF OnWay
<1> QED
  BY <1>7 DEF v, e

\* A record of the past that is read takes nothing off its way.
LEMMA StaysOnHistory ==
  ASSUME NEW w \in Seq(Records), w # <<>>, NEW m \in 1..Len(w), NEW g, NEW r, NEW n,
         OnWay(w, m, g, r, n)
  PROVE  OnWay(Tail(w), m - 1, g, r, n)
<1> DEFINE v == Tail(w)
<1>1. /\ Len(v) = Len(w) - 1 /\ Len(w) \in Nat \ {0}
      /\ \A i \in 2..Len(w) : i - 1 \in 1..Len(w) - 1 /\ v[i - 1] = w[i]
  BY Shifted
<1> HIDE DEF v
<1>2. \A i \in m + 1..Len(w) : i - 1 \in (m - 1) + 1..Len(v) /\ v[i - 1] = w[i]
  BY <1>1
<1>3. \A i, j \in m + 1..Len(w) : j < i => j - 1 < i - 1
  BY <1>1
<1>4. ASSUME NEW i \in m + 1..Len(w), ChangedBefore(w, m, i, n)
      PROVE  ChangedBefore(v, m - 1, i - 1, n)
  <2>1. PICK j \in m + 1..Len(w) :
          j < i /\ w[j].kind = "change" /\ w[j].xid = w[i].xid /\ w[j].node = n
    BY <1>4 DEF ChangedBefore
  <2>2. /\ j - 1 \in (m - 1) + 1..Len(v) /\ j - 1 < i - 1
        /\ v[j - 1] = w[j] /\ v[i - 1] = w[i]
    BY <1>2, <1>3, <2>1
  <2> QED
    BY <2>1, <2>2 DEF ChangedBefore
<1>5. ASSUME NEW i \in m + 1..Len(w), Sends(w, m, g, i, n)
      PROVE  Sends(v, m - 1, g, i - 1, n)
  BY <1>2, <1>4, <1>5 DEF Sends
<1>6. OnWay(v, m - 1, g, r, n)
  BY <1>2, <1>5 DEF OnWay
<1> QED
  BY <1>6 DEF v

\* The records of a log, each transaction's end its last.
Ordered(w) ==
  \A i, j \in DOMAIN w : w[i].kind = "end" /\ w[j].xid = w[i].xid => j <= i

\* A change that is read goes from the wire to the gate; an end releases its transaction
\* and no other.
LEMMA StaysOnNews ==
  ASSUME NEW w \in Seq(Records), w # <<>>, Ordered(w),
         NEW g \in [Xid -> SUBSET Node], NEW h \in [Xid -> SUBSET Node], NEW r, NEW n,
         \/ Head(w).kind = "change" /\ h = [g EXCEPT ![Head(w).xid] = @ \cup {Head(w).node}]
         \/ Head(w).kind = "end" /\ h = [g EXCEPT ![Head(w).xid] = {}],
         OnWay(w, 0, g, {}, n)
  PROVE  \/ OnWay(Tail(w), 0, h, r, n)
         \/ Head(w).kind = "end" /\ Head(w).committed /\ n \in g[Head(w).xid]
<1> DEFINE v == Tail(w)
<1> DEFINE e == Head(w)
<1>1. /\ Len(v) = Len(w) - 1 /\ Len(w) \in Nat \ {0} /\ e = w[1]
      /\ \A i \in 2..Len(w) : i - 1 \in 1..Len(w) - 1 /\ v[i - 1] = w[i]
      /\ \A i \in 1..Len(w) : w[i].xid \in Xid
      /\ DOMAIN w = 1..Len(w)
  <2>1. \A i \in 1..Len(w) : w[i] \in Records
    OBVIOUS
  <2> QED
    BY <2>1, Shifted, RecordTypes
<1>2. \/ e.kind = "change" /\ h = [g EXCEPT ![e.xid] = @ \cup {e.node}]
      \/ e.kind = "end" /\ h = [g EXCEPT ![e.xid] = {}]
  OBVIOUS
<1> HIDE DEF v, e
<1>3. PICK i \in 0 + 1..Len(w) : Sends(w, 0, g, i, n)
  BY DEF OnWay
<1>4. CASE i = 1
  <2>1. ~ ChangedBefore(w, 0, i, n)
    BY <1>4 DEF ChangedBefore
  <2> QED
    BY <1>1, <1>3, <1>4, <2>1 DEF Sends, e
<1>5. CASE i # 1
  <2>1. i \in 1..Len(w) /\ i - 1 \in 0 + 1..Len(v) /\ v[i - 1] = w[i]
    BY <1>1, <1>5
  <2>2. e.kind = "end" => w[i].xid # e.xid
    BY <1>1, <1>5 DEF Ordered
  <2>3. g[w[i].xid] \subseteq h[w[i].xid]
    BY <1>1, <1>2, <2>1, <2>2
  <2>4. ASSUME ChangedBefore(w, 0, i, n)
        PROVE  n \in h[w[i].xid] \/ ChangedBefore(v, 0, i - 1, n)
    <3>1. PICK j \in 0 + 1..Len(w) :
            j < i /\ w[j].kind = "change" /\ w[j].xid = w[i].xid /\ w[j].node = n
      BY <2>4 DEF ChangedBefore
    <3>2. CASE j = 1
      BY <1>1, <1>2, <2>1, <3>1, <3>2
    <3>3. CASE j # 1
      <4>1. j - 1 \in 0 + 1..Len(v) /\ v[j - 1] = w[j] /\ j - 1 < i - 1
        BY <1>1, <3>1, <3>3
      <4> QED
        BY <2>1, <3>1, <4>1 DEF ChangedBefore
    <3> QED
      BY <3>2, <3>3
  <2>5. Sends(v, 0, h, i - 1, n)
    BY <1>3, <2>1, <2>3, <2>4 DEF Sends
  <2>6. OnWay(v, 0, h, r, n)
    BY <2>1, <2>5 DEF OnWay
  <2> QED
    BY <2>6 DEF v
<1> QED
  BY <1>4, <1>5

\* What is on its way are nodes.
LEMMA OnWayTypes == RawTypeOK => OnItsWay \subseteq Node
<1> SUFFICES ASSUME RawTypeOK, NEW n \in OnItsWay
             PROVE  n \in Node
  OBVIOUS
<1>1. /\ released \in SUBSET Node /\ gate \in [Xid -> SUBSET Node]
      /\ \A i \in mark + 1..Len(wal) : wal[i] \in Records
  BY DEF RawTypeOK
<1>2. CASE n \in released
  BY <1>1, <1>2
<1>3. ASSUME NEW i \in mark + 1..Len(wal), Sends(wal, mark, gate, i, n)
      PROVE  n \in Node
  <2>1. wal[i].xid \in Xid
    BY <1>1, RecordTypes
  <2>2. CASE n \in gate[wal[i].xid]
    BY <1>1, <2>1, <2>2
  <2>3. CASE ChangedBefore(wal, mark, i, n)
    BY <1>1, <2>3, RecordTypes DEF ChangedBefore
  <2> QED
    BY <1>3, <2>2, <2>3 DEF Sends
<1> QED
  BY <1>2, <1>3, OnItsWayIs DEF OnWay

------------------------------------------------------------------------------
\* The order of the log, and what is tracked in it.

HasEnd(w, x) == \E i \in DOMAIN w : w[i].kind = "end" /\ w[i].xid = x

OnRecord(w, m, x, n) == \E j \in m + 1..Len(w) : w[j] = RelChange(x, n)

LEMMA LogAppended ==
  ASSUME NEW w \in Seq(Records), NEW e \in Records
  PROVE  /\ Ordered(w) /\ ~HasEnd(w, e.xid) => Ordered(Append(w, e))
         /\ \A x : HasEnd(Append(w, e), x) => HasEnd(w, x) \/ (e.kind = "end" /\ e.xid = x)
<1> DEFINE v == Append(w, e)
<1>1. /\ Len(v) = Len(w) + 1 /\ Len(w) \in Nat
      /\ DOMAIN v = 1..Len(w) + 1 /\ DOMAIN w = 1..Len(w)
      /\ \A i \in 1..Len(w) : v[i] = w[i]
      /\ v[Len(w) + 1] = e
  BY Added
<1> HIDE DEF v
<1>2. \A i \in DOMAIN v : (i \in DOMAIN w /\ v[i] = w[i]) \/ (i = Len(w) + 1 /\ v[i] = e)
  BY <1>1
<1>3. ASSUME Ordered(w), ~HasEnd(w, e.xid)
      PROVE  Ordered(v)
  <2> SUFFICES ASSUME NEW i \in DOMAIN v, NEW j \in DOMAIN v,
                      v[i].kind = "end", v[j].xid = v[i].xid
               PROVE  j <= i
    BY DEF Ordered
  <2>1. CASE i = Len(w) + 1
    BY <1>1, <2>1
  <2>2. CASE i \in DOMAIN w /\ v[i] = w[i]
    <3>1. w[i].xid # e.xid
      BY <1>3, <2>2 DEF HasEnd
    <3>2. j \in DOMAIN w /\ v[j] = w[j]
      BY <1>2, <2>2, <3>1
    <3> QED
      BY <1>3, <2>2, <3>2 DEF Ordered
  <2> QED
    BY <1>2, <2>1, <2>2
<1>4. \A x : HasEnd(v, x) => HasEnd(w, x) \/ (e.kind = "end" /\ e.xid = x)
  BY <1>2 DEF HasEnd
<1> QED
  BY <1>3, <1>4 DEF v

LEMMA LogRead ==
  ASSUME NEW w \in Seq(Records), w # <<>>
  PROVE  /\ Ordered(w) => Ordered(Tail(w))
         /\ \A x : HasEnd(Tail(w), x) => HasEnd(w, x)
<1> DEFINE v == Tail(w)
<1>1. /\ DOMAIN v = 1..Len(w) - 1 /\ DOMAIN w = 1..Len(w) /\ Len(w) \in Nat
      /\ \A i \in 1..Len(w) - 1 : v[i] = w[i + 1]
  BY Shifted
<1> HIDE DEF v
<1>2. \A i \in DOMAIN v : i \in Int /\ i + 1 \in DOMAIN w /\ v[i] = w[i + 1]
  BY <1>1
<1>3. ASSUME Ordered(w)
      PROVE  Ordered(v)
  <2> SUFFICES ASSUME NEW i \in DOMAIN v, NEW j \in DOMAIN v,
                      v[i].kind = "end", v[j].xid = v[i].xid
               PROVE  j <= i
    BY DEF Ordered
  <2>1. j + 1 <= i + 1
    BY <1>2, <1>3 DEF Ordered
  <2> QED
    BY <1>2, <2>1
<1>4. \A x : HasEnd(v, x) => HasEnd(w, x)
  BY <1>2 DEF HasEnd
<1> QED
  BY <1>3, <1>4 DEF v

LEMMA TrackedOnAppend ==
  ASSUME NEW w \in Seq(Records), NEW m \in 0..Len(w), NEW e \in Records, NEW x, NEW n
  PROVE  /\ OnRecord(w, m, x, n) => OnRecord(Append(w, e), m, x, n)
         /\ e = RelChange(x, n) => OnRecord(Append(w, e), m, x, n)
<1> DEFINE v == Append(w, e)
<1>1. /\ Len(v) = Len(w) + 1 /\ Len(w) \in Nat
      /\ \A i \in 1..Len(w) : v[i] = w[i]
      /\ v[Len(w) + 1] = e
  BY Added
<1> HIDE DEF v
<1>2. \A i \in m + 1..Len(w) : i \in m + 1..Len(v) /\ v[i] = w[i]
  BY <1>1
<1>3. Len(w) + 1 \in m + 1..Len(v)
  BY <1>1
<1>4. OnRecord(w, m, x, n) => OnRecord(v, m, x, n)
  BY <1>2 DEF OnRecord
<1>5. e = RelChange(x, n) => OnRecord(v, m, x, n)
  BY <1>1, <1>3 DEF OnRecord
<1> QED
  BY <1>4, <1>5 DEF v

LEMMA TrackedOnRead ==
  ASSUME NEW w \in Seq(Records), w # <<>>, NEW m \in 0..Len(w), NEW x, NEW n,
         OnRecord(w, m, x, n)
  PROVE  /\ m > 0 => OnRecord(Tail(w), m - 1, x, n)
         /\ m = 0 => OnRecord(Tail(w), 0, x, n) \/ Head(w) = RelChange(x, n)
<1> DEFINE v == Tail(w)
<1>1. /\ Len(v) = Len(w) - 1 /\ Len(w) \in Nat \ {0} /\ Head(w) = w[1]
      /\ \A i \in 2..Len(w) : i - 1 \in 1..Len(w) - 1 /\ v[i - 1] = w[i]
  BY Shifted
<1> HIDE DEF v
<1>2. PICK j \in m + 1..Len(w) : w[j] = RelChange(x, n)
  BY DEF OnRecord
<1>3. ASSUME m > 0
      PROVE  OnRecord(v, m - 1, x, n)
  <2>1. j - 1 \in (m - 1) + 1..Len(v) /\ v[j - 1] = w[j]
    BY <1>1, <1>3
  <2> QED
    BY <1>2, <2>1 DEF OnRecord
<1>4. ASSUME m = 0, j # 1
      PROVE  OnRecord(v, 0, x, n)
  <2>1. j - 1 \in 0 + 1..Len(v) /\ v[j - 1] = w[j]
    BY <1>1, <1>4
  <2> QED
    BY <1>2, <2>1 DEF OnRecord
<1> QED
  BY <1>1, <1>2, <1>3, <1>4 DEF v

\* The parts of the invariant in these words.
LEMMA Parts ==
  /\ EndIsLast <=> Ordered(wal)
  /\ EndIsLast' <=> Ordered(wal')
  /\ OpenHasNoEnd <=> \A x \in Xid : wrote[x] # {} => ~HasEnd(wal, x)
  /\ OpenHasNoEnd' <=> \A x \in Xid : wrote'[x] # {} => ~HasEnd(wal', x)
  /\ OpenIsTracked <=>
       (sup \in {"start", "stream", "resolve"} =>
          \A x \in Xid : \A n \in wrote[x] :
            <<x, n>> \in straddled \/ n \in gate[x] \/ OnRecord(wal, mark, x, n))
  /\ OpenIsTracked' <=>
       (sup' \in {"start", "stream", "resolve"} =>
          \A x \in Xid : \A n \in wrote'[x] :
            <<x, n>> \in straddled' \/ n \in gate'[x] \/ OnRecord(wal', mark', x, n))
BY DEF EndIsLast, Ordered, OpenHasNoEnd, HasEnd, OpenIsTracked, OnRecord

Live == sup \in {"stream", "resolve"}

\* GapIsNamed from what it was: nothing more is stale without an excuse, and what was
\* named, queued or announced still is.
LEMMA GapStays ==
  ASSUME RawTypeOK', GapIsNamed,
         stale' \ excused' \subseteq stale \ excused,
         (stale' \ excused') \cap Announced(out) \subseteq Announced(out'),
         Live' => /\ Live
                  /\ owed \subseteq owed' \cup Announced(out')
                  /\ \A n \in OnItsWay :
                       n \in known \/ n[2] = node[n[1]] =>
                         \/ n \in OnItsWay' /\ (n \in known' \/ n[2] = node'[n[1]])
                         \/ n[1] \in owed'
                         \/ n[1] \notin stale' \ excused'
  PROVE  GapIsNamed'
<1>1. stale' \subseteq Payload
  BY DEF RawTypeOK, TypeOK
<1>2. CASE ~Live'
  BY <1>1, <1>2 DEF GapIsNamed, Live
<1>3. CASE Live'
  <2> SUFFICES ASSUME NEW t \in stale' \ excused', t \notin Announced(out')
               PROVE  t \in owed' \cup Tables(NamesOnTheirWay)'
    BY <1>3 DEF GapIsNamed, Live
  <2>1. t \in owed \cup Tables(NamesOnTheirWay)
    BY <1>3 DEF GapIsNamed, Live
  <2>2. CASE t \in owed
    BY <1>3, <2>2
  <2>3. CASE t \in Tables(NamesOnTheirWay)
    <3>1. PICK n \in OnItsWay : (n \in known \/ n[2] = node[n[1]]) /\ t = n[1]
      BY <2>3 DEF Tables, NamesOnTheirWay
    <3>2. \/ n \in OnItsWay' /\ (n \in known' \/ n[2] = node'[n[1]])
          \/ n[1] \in owed'
      BY <1>3, <3>1
    <3>3. CASE n \in OnItsWay' /\ (n \in known' \/ n[2] = node'[n[1]])
      <4>1. n \in NamesOnTheirWay'
        BY <3>3 DEF NamesOnTheirWay
      <4> QED
        BY <3>1, <4>1 DEF Tables
    <3> QED
      BY <3>1, <3>2, <3>3
  <2> QED
    BY <2>1, <2>2, <2>3
<1> QED
  BY <1>2, <1>3

------------------------------------------------------------------------------
\* The server's steps keep the invariant.

\* What a record that is logged, or not, does to the order of the log.
LEMMA LoggedOrder ==
  ASSUME RawTypeOK, EndIsLast, NEW e \in Records, Logged(e), ~HasEnd(wal, e.xid)
  PROVE  /\ EndIsLast'
         /\ \A x : HasEnd(wal', x) => HasEnd(wal, x) \/ (e.kind = "end" /\ e.xid = x)
<1>1. wal \in Seq(Records)
  BY DEF RawTypeOK
<1>2. wal' = wal \/ wal' = Append(wal, e)
  BY DEF Logged
<1> QED
  BY <1>1, <1>2, LogAppended, Parts

\* A record that is logged leaves on its way what was, and tracked what was.
LEMMA LoggedKeeps ==
  ASSUME RawTypeOK, NEW e \in Records, Logged(e), UNCHANGED <<mark, gate, released>>
  PROVE  /\ \A n \in OnItsWay : n \in OnItsWay'
         /\ \A x, n : OnRecord(wal, mark, x, n) => OnRecord(wal', mark, x, n)
         /\ \A x, n : Attached /\ e = RelChange(x, n) => OnRecord(wal', mark, x, n)
<1>1. wal \in Seq(Records) /\ mark \in 0..Len(wal)
  BY DEF RawTypeOK
<1>2. wal' = wal \/ wal' = Append(wal, e)
  BY DEF Logged
<1>3. Attached => wal' = Append(wal, e)
  BY DEF Logged
<1>4. ASSUME NEW n \in OnItsWay
      PROVE  n \in OnItsWay'
  <2>1. OnWay(wal, mark, gate, released, n)
    BY OnItsWayIs
  <2>2. OnWay(wal', mark, gate, released, n)
    BY <1>1, <1>2, <2>1, StaysOnAppend
  <2> QED
    BY <2>2, OnItsWayIs
<1>5. ASSUME NEW x, NEW n
      PROVE  /\ OnRecord(wal, mark, x, n) => OnRecord(wal', mark, x, n)
             /\ Attached /\ e = RelChange(x, n) => OnRecord(wal', mark, x, n)
  BY <1>1, <1>2, <1>3, TrackedOnAppend
<1> QED
  BY <1>4, <1>5

LEMMA WriteIInv ==
  ASSUME RawIInv, RawTypeOK', NEW x \in Xid, NEW t \in Payload, Write(x, t)
  PROVE  RawIInv'
<1> DEFINE n == <<t, node[t]>>
<1> DEFINE e == RelChange(x, n)
<1>1. n \in Node /\ e \in Records /\ e.xid = x /\ e.kind # "end"
  <2>1. n \in Node
    BY DEF RawIInv, RawTypeOK, Node
  <2> QED
    BY <2>1, RecordTypes DEF RelChange
<1>2. /\ Logged(e)
      /\ ~HasEnd(wal, x)
      /\ wrote' = [wrote EXCEPT ![x] = @ \cup {n}]
      /\ straddled' = straddled \ {<<x, n>>}
      /\ UNCHANGED <<feedVars, node, mark, gate, released, known, sup, excused>>
  BY DEF Write, HasEnd
<1>3. /\ wrote \in [Xid -> SUBSET Node]
      /\ \A y \in Xid : wrote'[y] = IF y = x THEN wrote[x] \cup {n} ELSE wrote[y]
  BY <1>2 DEF RawIInv, RawTypeOK
<1>4. n[1] = t /\ n[2] = node[t]
  OBVIOUS
<1> HIDE DEF e, n
<1>5. EndIsLast' /\ OpenHasNoEnd'
  <2>1. /\ EndIsLast'
        /\ \A y : HasEnd(wal', y) => HasEnd(wal, y) \/ (e.kind = "end" /\ e.xid = y)
    BY <1>1, <1>2, LoggedOrder DEF RawIInv
  <2>2. OpenHasNoEnd'
    BY <1>1, <1>2, <1>3, <2>1, Parts DEF RawIInv
  <2> QED
    BY <2>1, <2>2
<1>6. WroteIsCurrent'
  BY <1>2, <1>3, <1>4 DEF RawIInv, WroteIsCurrent
<1>7. /\ \A k \in OnItsWay : k \in OnItsWay'
      /\ \A y, k : OnRecord(wal, mark, y, k) => OnRecord(wal', mark, y, k)
      /\ \A y, k : Attached /\ e = RelChange(y, k) => OnRecord(wal', mark, y, k)
  BY <1>1, <1>2, LoggedKeeps DEF RawIInv
<1>8. OpenIsTracked'
  <2> SUFFICES ASSUME sup \in {"start", "stream", "resolve"}, NEW y \in Xid, NEW k \in wrote'[y]
               PROVE  <<y, k>> \in straddled' \/ k \in gate[y] \/ OnRecord(wal', mark, y, k)
    BY <1>2, Parts
  <2>1. CASE y = x /\ k = n
    BY <1>7, <2>1 DEF Attached, e
  <2>2. CASE ~(y = x /\ k = n)
    <3>1. k \in wrote[y]
      BY <1>3, <2>2
    <3>2. <<y, k>> \in straddled \/ k \in gate[y] \/ OnRecord(wal, mark, y, k)
      BY <3>1, Parts DEF RawIInv
    <3>3. <<y, k>> # <<x, n>>
      BY <2>2
    <3> QED
      BY <1>2, <1>7, <3>2, <3>3
  <2> QED
    BY <2>1, <2>2
<1>9. ReleasedIsResolved'
  BY <1>2 DEF RawIInv, ReleasedIsResolved
<1>10. GapIsNamed'
  BY <1>2, <1>7, GapStays DEF RawIInv, feedVars, Live
<1> QED
  BY <1>5, <1>6, <1>8, <1>9, <1>10 DEF RawIInv

\* The end of a transaction, committed or not, closes it and its log.
LEMMA EndOrder ==
  ASSUME RawIInv, NEW x \in Xid, NEW c \in BOOLEAN, wrote[x] # {},
         Logged(TxnEnd(x, c)), wrote' = [wrote EXCEPT ![x] = {}],
         straddled' = {k \in straddled : k[1] # x},
         UNCHANGED <<mark, gate, released, sup, node>>
  PROVE  EndIsLast' /\ OpenHasNoEnd' /\ WroteIsCurrent' /\ OpenIsTracked' /\ ReleasedIsResolved'
<1> DEFINE e == TxnEnd(x, c)
<1>1. e \in Records /\ e.xid = x /\ Logged(e)
  BY RecordTypes DEF TxnEnd
<1> HIDE DEF e
<1>2. \A y \in Xid : wrote'[y] = IF y = x THEN {} ELSE wrote[y]
  BY DEF RawIInv, RawTypeOK
<1>3. ~HasEnd(wal, x)
  BY Parts DEF RawIInv
<1>4. /\ EndIsLast'
      /\ \A y : HasEnd(wal', y) => HasEnd(wal, y) \/ (e.kind = "end" /\ e.xid = y)
  BY <1>1, <1>3, LoggedOrder DEF RawIInv
<1>5. OpenHasNoEnd'
  BY <1>1, <1>2, <1>4, Parts DEF RawIInv
<1>6. WroteIsCurrent'
  BY <1>2 DEF RawIInv, WroteIsCurrent
<1>7. \A y, k : OnRecord(wal, mark, y, k) => OnRecord(wal', mark, y, k)
  BY <1>1, LoggedKeeps DEF RawIInv
<1>8. OpenIsTracked'
  <2> SUFFICES ASSUME sup \in {"start", "stream", "resolve"}, NEW y \in Xid, NEW k \in wrote'[y]
               PROVE  <<y, k>> \in straddled' \/ k \in gate[y] \/ OnRecord(wal', mark, y, k)
    BY Parts
  <2>1. y # x /\ k \in wrote[y]
    BY <1>2
  <2>2. <<y, k>> \in straddled \/ k \in gate[y] \/ OnRecord(wal, mark, y, k)
    BY <2>1, Parts DEF RawIInv
  <2>3. <<y, k>>[1] # x
    BY <2>1
  <2> QED
    BY <1>7, <2>2, <2>3
<1>9. ReleasedIsResolved'
  BY DEF RawIInv, ReleasedIsResolved
<1> QED
  BY <1>4, <1>5, <1>6, <1>8, <1>9

\* A commit: what the transaction changed is tracked, and so on its way from now on.
LEMMA CommitIInv ==
  ASSUME RawIInv, RawTypeOK', NEW x \in Xid, Commit(x)
  PROVE  RawIInv'
<1>1. /\ wrote[x] # {}
      /\ wrote' = [wrote EXCEPT ![x] = {}]
      /\ stale' = stale \cup Tables(wrote[x])
      /\ excused' = excused \cup Tables({n \in wrote[x] : <<x, n>> \in straddled})
      /\ straddled' = {c \in straddled : c[1] # x}
      /\ Logged(TxnEnd(x, TRUE))
      /\ UNCHANGED <<owed, out, node, mark, gate, released, known, sup>>
  BY DEF Commit
<1>2. EndIsLast' /\ OpenHasNoEnd' /\ WroteIsCurrent' /\ OpenIsTracked' /\ ReleasedIsResolved'
  BY <1>1, EndOrder
<1>3. TxnEnd(x, TRUE) \in Records
  BY RecordTypes
<1>4. \A k \in OnItsWay : k \in OnItsWay'
  BY <1>1, <1>3, LoggedKeeps DEF RawIInv
<1>5. ASSUME Live, NEW n \in wrote[x], <<x, n>> \notin straddled
      PROVE  n \in NamesOnTheirWay'
  <2>1. n \in gate[x] \/ OnRecord(wal, mark, x, n)
    BY <1>5, Parts DEF RawIInv, Live
  <2>2. wal' = Append(wal, TxnEnd(x, TRUE))
    BY <1>1, <1>5 DEF Logged, Attached, Live
  <2>3. wal \in Seq(Records) /\ mark \in 0..Len(wal)
    BY DEF RawIInv, RawTypeOK
  <2>4. OnWay(wal', mark, gate, released, n)
    BY <2>1, <2>2, <2>3, CommitSends DEF OnRecord
  <2>5. n[2] = node[n[1]]
    BY DEF RawIInv, WroteIsCurrent
  <2> QED
    BY <1>1, <2>4, <2>5, OnItsWayIs DEF NamesOnTheirWay
<1>6. GapIsNamed'
  <2>1. CASE ~Live
    BY <1>1, <2>1 DEF GapIsNamed, Live, RawTypeOK, TypeOK
  <2>2. CASE Live
    <3> SUFFICES ASSUME NEW t \in stale' \ excused', t \notin Announced(out), t \notin owed
                 PROVE  t \in Tables(NamesOnTheirWay)'
      BY <1>1, <2>2 DEF GapIsNamed, Live
    <3>1. CASE t \in stale
      <4>1. t \in Tables(NamesOnTheirWay)
        BY <1>1, <2>2, <3>1 DEF RawIInv, GapIsNamed, Live
      <4>2. \A n \in NamesOnTheirWay : n \in NamesOnTheirWay'
        BY <1>1, <1>4 DEF NamesOnTheirWay
      <4> QED
        BY <4>1, <4>2 DEF Tables
    <3>2. CASE t \in Tables(wrote[x])
      <4>1. PICK n \in wrote[x] : t = n[1]
        BY <3>2 DEF Tables
      <4>2. <<x, n>> \notin straddled
        BY <1>1, <4>1 DEF Tables
      <4>3. n \in NamesOnTheirWay'
        BY <1>5, <2>2, <4>2
      <4> QED
        BY <4>1, <4>3 DEF Tables
    <3> QED
      BY <1>1, <3>1, <3>2
  <2> QED
    BY <2>1, <2>2
<1> QED
  BY <1>2, <1>6 DEF RawIInv

LEMMA AbortIInv ==
  ASSUME RawIInv, RawTypeOK', NEW x \in Xid, Abort(x)
  PROVE  RawIInv'
<1>1. /\ wrote[x] # {}
      /\ wrote' = [wrote EXCEPT ![x] = {}]
      /\ straddled' = {c \in straddled : c[1] # x}
      /\ Logged(TxnEnd(x, FALSE))
      /\ UNCHANGED <<feedVars, node, mark, gate, released, known, sup, excused>>
  BY DEF Abort
<1>2. EndIsLast' /\ OpenHasNoEnd' /\ WroteIsCurrent' /\ OpenIsTracked' /\ ReleasedIsResolved'
  BY <1>1, EndOrder
<1>3. \A k \in OnItsWay : k \in OnItsWay'
  BY <1>1, RecordTypes, LoggedKeeps DEF RawIInv
<1>4. GapIsNamed'
  BY <1>1, <1>3, GapStays DEF RawIInv, feedVars, Live
<1> QED
  BY <1>2, <1>4 DEF RawIInv

\* A rewrite: no open transaction has changed the table, and what is on its way under the
\* old relfilenode is excused unless the resolver knows it.
LEMMA RewriteIInv ==
  ASSUME RawIInv, RawTypeOK', NEW t \in Rewritable, Rewrite(t)
  PROVE  RawIInv'
<1> DEFINE n == <<t, node[t]>>
<1>0. t \in Payload /\ n[1] = t /\ n[2] = node[t]
  BY RawAssumption
<1>1. /\ \A x \in Xid : n \notin wrote[x]
      /\ node' = [node EXCEPT ![t] = @ + 1]
      /\ excused' = IF n \in OnItsWay \ known THEN excused \cup {t} ELSE excused
      /\ UNCHANGED <<feedVars, wrote, wal, mark, gate, released, known, sup, straddled>>
  BY DEF Rewrite, sessionVars
<1>2. \A s \in Payload : s # t => node'[s] = node[s]
  BY <1>1 DEF RawIInv, RawTypeOK
<1>3. \A k \in Node : k[1] = t /\ k[2] = node[t] => k = n
  BY NodeTypes
<1>4. \A k \in Node : k[1] \in Payload
  BY NodeTypes
<1> HIDE DEF n
<1>5. EndIsLast' /\ OpenHasNoEnd' /\ OpenIsTracked' /\ ReleasedIsResolved'
  BY <1>1, Parts DEF RawIInv, ReleasedIsResolved
<1>6. WroteIsCurrent'
  <2> SUFFICES ASSUME NEW x \in Xid, NEW k \in wrote[x]
               PROVE  k[2] = node'[k[1]]
    BY <1>1 DEF WroteIsCurrent
  <2>1. k \in Node /\ k[2] = node[k[1]]
    BY DEF RawIInv, RawTypeOK, WroteIsCurrent
  <2>2. k[1] # t
    BY <1>1, <1>3, <2>1
  <2> QED
    BY <1>2, <1>4, <2>1, <2>2
<1>7. OnItsWay' = OnItsWay
  BY <1>1 DEF OnItsWay, CommitsAhead
<1>8. OnItsWay \subseteq Node
  BY OnWayTypes DEF RawIInv
<1>9. ASSUME NEW k \in OnItsWay, k \in known \/ k[2] = node[k[1]]
      PROVE  \/ k \in OnItsWay' /\ (k \in known' \/ k[2] = node'[k[1]])
             \/ k[1] \in owed'
             \/ k[1] \notin stale' \ excused'
  <2>1. CASE k \in known \/ k[1] # t
    BY <1>1, <1>2, <1>4, <1>7, <1>8, <1>9, <2>1
  <2>2. CASE k \notin known /\ k[1] = t
    <3>1. k = n
      BY <1>3, <1>8, <1>9, <2>2
    <3>2. t \in excused'
      BY <1>1, <2>2, <3>1
    <3> QED
      BY <2>2, <3>2
  <2> QED
    BY <2>1, <2>2
<1>10. GapIsNamed'
  <2>1. stale' \ excused' \subseteq stale \ excused
    BY <1>1 DEF feedVars
  <2> QED
    BY <1>1, <1>9, <2>1, GapStays DEF RawIInv, feedVars, Live
<1> QED
  BY <1>5, <1>6, <1>10 DEF RawIInv

------------------------------------------------------------------------------
\* The engine, the consumer and the supervisor keep it.

\* The parts of the invariant that do not speak of the consumer.
LogIsSound ==
  EndIsLast /\ OpenHasNoEnd /\ WroteIsCurrent /\ OpenIsTracked /\ ReleasedIsResolved

LEMMA LogKept ==
  ASSUME RawIInv, UNCHANGED <<node, wrote, wal, mark, gate, released, straddled>>,
         \/ sup' = sup
         \/ sup = "start" /\ sup' = "stream"
         \/ sup' \notin {"start", "stream", "resolve"} /\ released = {}
  PROVE  LogIsSound'
<1>1. EndIsLast' /\ OpenHasNoEnd'
  BY Parts DEF RawIInv
<1>2. WroteIsCurrent'
  BY DEF RawIInv, WroteIsCurrent
<1>3. OpenIsTracked'
  BY Parts DEF RawIInv
<1>4. ReleasedIsResolved'
  BY DEF RawIInv, ReleasedIsResolved
<1> QED
  BY <1>1, <1>2, <1>3, <1>4 DEF LogIsSound

LEMMA SteadyIInv ==
  ASSUME RawIInv, RawTypeOK', CatalogDies \/ UNCHANGED rawVars
  PROVE  RawIInv'
<1>1. UNCHANGED <<feedVars, serverVars, wal, mark, gate, released, known, sup, history>>
  BY DEF CatalogDies, rawVars, sessionVars
<1>2. LogIsSound'
  BY <1>1, LogKept DEF serverVars, history
<1>3. OnItsWay' = OnItsWay
  BY <1>1 DEF OnItsWay, CommitsAhead
<1>4. GapIsNamed'
  BY <1>1, <1>3, GapStays DEF RawIInv, feedVars, serverVars, history, Live
<1> QED
  BY <1>2, <1>4 DEF RawIInv, LogIsSound

\* What the engine no longer owes it has announced.
LEMMA EngineIInv ==
  ASSUME RawIInv, RawTypeOK', EngineAnnounces
  PROVE  RawIInv'
<1>1. UNCHANGED <<stale, serverVars, wal, mark, gate, released, known, sup, history>>
  BY DEF EngineAnnounces, sessionVars, Nudge, Reload
<1>2. LogIsSound'
  BY <1>1, LogKept DEF serverVars, history
<1>3. OnItsWay' = OnItsWay
  BY <1>1 DEF OnItsWay, CommitsAhead
<1>4. Announced(out) \subseteq Announced(out') /\ owed \subseteq owed' \cup Announced(out')
  <2>1. out \in Seq(FeedItem) /\ owed \in SUBSET Payload
    BY DEF RawIInv, RawTypeOK, TypeOK
  <2>2. ASSUME NEW S \in SUBSET Payload, Nudge(S)
        PROVE  Announced(out') = Announced(out) \cup S /\ owed \subseteq owed' \cup S
    BY <2>1, <2>2, AnnouncedAppend, ItemTypes DEF Nudge
  <2>3. ASSUME Reload("overflow")
        PROVE  Announced(out') = Announced(out) \cup Payload
    BY <2>1, <2>3, AnnouncedAppend, ItemTypes DEF Reload, Reasons
  <2> QED
    BY <2>1, <2>2, <2>3 DEF EngineAnnounces
<1>5. GapIsNamed'
  BY <1>1, <1>3, <1>4, GapStays DEF RawIInv, serverVars, history, Live
<1> QED
  BY <1>2, <1>5 DEF RawIInv, LogIsSound

\* What the consumer is handed it refetches, excused or not.
LEMMA ConsumerIInv ==
  ASSUME RawIInv, RawTypeOK', ConsumerReads
  PROVE  RawIInv'
<1>1. /\ out # <<>>
      /\ out' = Tail(out)
      /\ stale' = stale \ Covers(Head(out))
      /\ excused' = excused \ Covers(Head(out))
      /\ UNCHANGED <<owed, serverVars, wal, mark, gate, released, known, sup, straddled>>
  BY DEF ConsumerReads, Consume, sessionVars
<1>2. LogIsSound'
  BY <1>1, LogKept DEF serverVars
<1>3. OnItsWay' = OnItsWay
  BY <1>1 DEF OnItsWay, CommitsAhead
<1>4. Announced(out) = Covers(Head(out)) \cup Announced(out')
  BY <1>1, AnnouncedTail DEF RawIInv, RawTypeOK, TypeOK
<1>5. /\ stale' \ excused' \subseteq stale \ excused
      /\ (stale' \ excused') \cap Announced(out) \subseteq Announced(out')
  BY <1>1, <1>4
<1>6. GapIsNamed'
  BY <1>1, <1>3, <1>5, GapStays DEF RawIInv, serverVars, Live
<1> QED
  BY <1>2, <1>6 DEF RawIInv, LogIsSound

\* Until the stream starts the feed owes everything.
LEMMA WaitsIInv ==
  ASSUME RawIInv, RawTypeOK', ConnectDone \/ CatalogDone \/ IdentifyDone \/ PauseDone
  PROVE  RawIInv'
<1>1. /\ sup \in {"connect", "catalog", "identify", "pause"}
      /\ sup' \in {"connect", "catalog", "identify", "insert"}
      /\ UNCHANGED <<feedVars, serverVars, wal, mark, gate, released, known, history>>
  BY DEF ConnectDone, CatalogDone, IdentifyDone, PauseDone, SupMoves, sessionVars
<1>2. released = {}
  BY <1>1 DEF RawIInv, ReleasedIsResolved
<1>3. LogIsSound'
  BY <1>1, <1>2, LogKept DEF serverVars, history
<1>4. GapIsNamed'
  BY <1>1, GapStays DEF RawIInv, feedVars, history, Live
<1> QED
  BY <1>3, <1>4 DEF RawIInv, LogIsSound

\* The watermark: all that open transactions have changed straddles it.
LEMMA InsertIInv ==
  ASSUME RawIInv, RawTypeOK', InsertDone
  PROVE  RawIInv'
<1>1. /\ sup = "insert" /\ sup' = "start"
      /\ straddled' = {c \in Xid \X Node : c[2] \in wrote[c[1]]}
      /\ UNCHANGED <<feedVars, serverVars, wal, released, excused>>
  BY DEF InsertDone, SupMoves
<1>2. EndIsLast' /\ OpenHasNoEnd' /\ WroteIsCurrent' /\ ReleasedIsResolved'
  <2>1. WroteIsCurrent'
    BY <1>1 DEF RawIInv, WroteIsCurrent, serverVars
  <2>2. ReleasedIsResolved'
    BY <1>1 DEF RawIInv, ReleasedIsResolved
  <2> QED
    BY <1>1, <2>1, <2>2, Parts DEF RawIInv, serverVars
<1>3. \A x \in Xid : \A n \in wrote'[x] : <<x, n>> \in straddled'
  BY <1>1 DEF RawIInv, RawTypeOK, serverVars
<1>4. OpenIsTracked'
  BY <1>3, Parts
<1>5. GapIsNamed'
  BY <1>1, GapStays DEF RawIInv, feedVars, Live
<1> QED
  BY <1>2, <1>4, <1>5 DEF RawIInv

\* The session that starts announces everything.
LEMMA StartIInv ==
  ASSUME RawIInv, RawTypeOK', StartDone
  PROVE  RawIInv'
<1>1. /\ sup = "start" /\ sup' = "stream"
      /\ out' = Append(out, Resync(IF first THEN "connected" ELSE "reconnected"))
      /\ UNCHANGED <<stale, serverVars, wal, mark, gate, released, straddled>>
  BY DEF StartDone, Announces, sessionVars, history
<1>2. LogIsSound'
  BY <1>1, LogKept DEF serverVars
<1>3. Announced(out') = Announced(out) \cup Payload
  <2>1. out \in Seq(FeedItem)
    BY DEF RawIInv, RawTypeOK, TypeOK
  <2> QED
    BY <1>1, <2>1, AnnouncedAppend, ItemTypes DEF Reasons
<1>4. stale' \subseteq Payload
  BY DEF RawTypeOK, TypeOK
<1>5. GapIsNamed'
  BY <1>3, <1>4 DEF GapIsNamed
<1> QED
  BY <1>2, <1>5 DEF RawIInv, LogIsSound

\* The session that ends leaves nothing behind, and owes everything.
LEMMA EndsIInv ==
  ASSUME RawIInv, RawTypeOK', RoundEnds
  PROVE  RawIInv'
<1>1. /\ sup' = "pause" /\ wal' = <<>> /\ released' = {}
      /\ UNCHANGED <<feedVars, serverVars, excused>>
  BY DEF RoundEnds
<1>2. EndIsLast' /\ OpenHasNoEnd' /\ OpenIsTracked' /\ ReleasedIsResolved'
  BY <1>1 DEF EndIsLast, OpenHasNoEnd, OpenIsTracked, ReleasedIsResolved
<1>3. WroteIsCurrent'
  BY <1>1 DEF RawIInv, WroteIsCurrent, serverVars
<1>4. GapIsNamed'
  BY <1>1, GapStays DEF RawIInv, feedVars, Live
<1> QED
  BY <1>2, <1>3, <1>4 DEF RawIInv

\* The names: what resolve() can name is pushed, from the cache or as it is now.
LEMMA ResolveIInv ==
  ASSUME RawIInv, RawTypeOK', ResolveDone
  PROVE  RawIInv'
<1>1. /\ sup = "resolve" /\ sup' = "stream"
      /\ known' = known \cup Found
      /\ owed' = owed \cup Tables(Resolved)
      /\ released' = {}
      /\ UNCHANGED <<stale, out, serverVars, wal, mark, gate, history>>
  BY DEF ResolveDone, PushCommitted
<1>2. EndIsLast' /\ OpenHasNoEnd' /\ WroteIsCurrent' /\ OpenIsTracked' /\ ReleasedIsResolved'
  <2>1. EndIsLast' /\ OpenHasNoEnd'
    BY <1>1, Parts DEF RawIInv, serverVars
  <2>2. WroteIsCurrent'
    BY <1>1 DEF RawIInv, WroteIsCurrent, serverVars
  <2>3. OpenIsTracked'
    BY <1>1, Parts DEF RawIInv, serverVars, history
  <2>4. ReleasedIsResolved'
    BY <1>1 DEF ReleasedIsResolved
  <2> QED
    BY <2>1, <2>2, <2>3, <2>4
<1>3. ASSUME NEW n \in OnItsWay, n \in known \/ n[2] = node[n[1]]
      PROVE  \/ n \in OnItsWay' /\ (n \in known' \/ n[2] = node'[n[1]])
             \/ n[1] \in owed'
  <2>1. CASE n \in released
    <3>1. n \in Resolved
      BY <1>3, <2>1 DEF Resolved, Found
    <3> QED
      BY <1>1, <3>1 DEF Tables
  <2>2. CASE n \notin released
    <3>1. OnWay(wal', mark', gate', released', n)
      BY <1>1, <2>2, OnItsWayIs DEF OnWay
    <3> QED
      BY <1>1, <1>3, <3>1, OnItsWayIs DEF serverVars
  <2> QED
    BY <2>1, <2>2
<1>4. GapIsNamed'
  BY <1>1, <1>3, GapStays DEF RawIInv, history, Live
<1> QED
  BY <1>2, <1>4 DEF RawIInv

\* A record that is read: history is dropped, a change goes to the gate, and a commit
\* releases what is pushed or what awaits its name.
LEMMA ReadIInv ==
  ASSUME RawIInv, RawTypeOK', ReadRecord
  PROVE  RawIInv'
<1> DEFINE e == Head(wal)
<1> DEFINE nodes == IF e.committed THEN gate[e.xid] ELSE {}
<1>1. /\ sup = "stream" /\ wal # <<>> /\ wal' = Tail(wal)
      /\ mark' = IF mark > 0 THEN mark - 1 ELSE 0
      /\ UNCHANGED <<stale, out, node, wrote, known, straddled, excused>>
  BY DEF ReadRecord, serverVars, history
<1>2. \/ mark > 0 /\ UNCHANGED <<owed, gate, released, sup>>
      \/ /\ mark = 0 /\ e.kind = "change"
         /\ gate' = [gate EXCEPT ![e.xid] = @ \cup {e.node}]
         /\ UNCHANGED <<owed, released, sup>>
      \/ /\ mark = 0 /\ e.kind = "end"
         /\ gate' = [gate EXCEPT ![e.xid] = {}]
         /\ \/ nodes \subseteq known /\ owed' = owed \cup Tables(nodes) /\ UNCHANGED <<released, sup>>
            \/ released' = nodes /\ sup' = "resolve" /\ UNCHANGED owed
  BY DEF ReadRecord, PushCommitted
<1>3. /\ wal \in Seq(Records) /\ mark \in 0..Len(wal) /\ gate \in [Xid -> SUBSET Node]
      /\ gate' \in [Xid -> SUBSET Node]
      /\ e \in Records /\ e.xid \in Xid /\ e = wal[1] /\ 1 \in DOMAIN wal
      /\ mark > 0 => mark \in 1..Len(wal)
  <2>1. wal \in Seq(Records) /\ mark \in 0..Len(wal) /\ gate \in [Xid -> SUBSET Node]
        /\ gate' \in [Xid -> SUBSET Node]
    BY DEF RawIInv, RawTypeOK
  <2> QED
    BY <1>1, <2>1, Shifted, RecordTypes
<1>4. released = {}
  BY <1>1 DEF RawIInv, ReleasedIsResolved
<1>5. e.kind = "end" => wrote[e.xid] = {}
  <2>1. e.kind = "end" => HasEnd(wal, e.xid)
    BY <1>3 DEF HasEnd
  <2> QED
    BY <1>3, <2>1, Parts DEF RawIInv
<1> HIDE DEF e
<1>6. EndIsLast' /\ OpenHasNoEnd'
  BY <1>1, <1>3, LogRead, Parts DEF RawIInv
<1>7. WroteIsCurrent'
  BY <1>1 DEF RawIInv, WroteIsCurrent
<1>8. ReleasedIsResolved'
  BY <1>2, <1>4 DEF ReleasedIsResolved
<1>9. OpenIsTracked'
  <2> SUFFICES ASSUME NEW x \in Xid, NEW n \in wrote[x]
               PROVE  <<x, n>> \in straddled \/ n \in gate'[x] \/ OnRecord(wal', mark', x, n)
    BY <1>1, Parts
  <2>1. <<x, n>> \in straddled \/ n \in gate[x] \/ OnRecord(wal, mark, x, n)
    BY <1>1, Parts DEF RawIInv
  <2>2. CASE mark > 0
    BY <1>1, <1>2, <1>3, <2>1, <2>2, TrackedOnRead
  <2>3. CASE mark = 0
    <3>1. \/ <<x, n>> \in straddled \/ n \in gate[x]
          \/ OnRecord(wal', mark', x, n) \/ e = RelChange(x, n)
      BY <1>1, <1>3, <2>1, <2>3, TrackedOnRead DEF e
    <3>2. CASE e.kind = "change"
      <4>1. gate' = [gate EXCEPT ![e.xid] = @ \cup {e.node}]
        BY <1>2, <2>3, <3>2
      <4>2. e = RelChange(x, n) => n \in gate'[x]
        BY <1>3, <4>1 DEF RelChange
      <4>3. gate[x] \subseteq gate'[x]
        BY <1>3, <4>1
      <4> QED
        BY <3>1, <4>2, <4>3
    <3>3. CASE e.kind # "change"
      <4>1. e.kind = "end" /\ gate' = [gate EXCEPT ![e.xid] = {}]
        BY <1>2, <2>3, <3>3
      <4>2. x # e.xid
        BY <1>5, <4>1
      <4>3. gate'[x] = gate[x]
        BY <1>3, <4>1, <4>2
      <4>4. e # RelChange(x, n)
        BY <3>3 DEF RelChange
      <4> QED
        BY <3>1, <4>3, <4>4
    <3> QED
      BY <3>2, <3>3
  <2> QED
    BY <1>3, <2>2, <2>3
<1>10. ASSUME NEW n \in OnItsWay
       PROVE  n \in OnItsWay' \/ n[1] \in owed'
  <2>1. OnWay(wal, mark, gate, released, n)
    BY OnItsWayIs
  <2>2. CASE mark > 0
    <3>1. OnWay(Tail(wal), mark - 1, gate, released, n)
      BY <1>1, <1>3, <2>1, <2>2, StaysOnHistory
    <3> QED
      BY <1>1, <1>2, <2>2, <3>1, OnItsWayIs
  <2>3. CASE mark = 0
    <3>1. \/ e.kind = "change" /\ gate' = [gate EXCEPT ![e.xid] = @ \cup {e.node}]
          \/ e.kind = "end" /\ gate' = [gate EXCEPT ![e.xid] = {}]
      BY <1>2, <2>3
    <3>2. Ordered(wal)
      BY Parts DEF RawIInv
    <3>3. OnWay(wal, 0, gate, {}, n)
      BY <1>4, <2>1, <2>3
    <3>4. \/ OnWay(Tail(wal), 0, gate', released', n)
          \/ e.kind = "end" /\ e.committed /\ n \in gate[e.xid]
      BY <1>1, <1>3, <3>1, <3>2, <3>3, StaysOnNews DEF e
    <3>5. CASE OnWay(Tail(wal), 0, gate', released', n)
      BY <1>1, <2>3, <3>5, OnItsWayIs
    <3>6. CASE e.kind = "end" /\ e.committed /\ n \in gate[e.xid]
      <4>1. n \in nodes
        BY <3>6
      <4>2. owed' = owed \cup Tables(nodes) \/ released' = nodes
        BY <1>2, <2>3, <3>6
      <4>3. n[1] \in Tables(nodes)
        BY <4>1 DEF Tables
      <4>4. n \in released' => n \in OnItsWay'
        BY OnItsWayIs DEF OnWay
      <4> QED
        BY <4>1, <4>2, <4>3, <4>4
    <3> QED
      BY <3>4, <3>5, <3>6
  <2> QED
    BY <1>3, <2>2, <2>3
<1>11. GapIsNamed'
  <2>1. Live /\ owed \subseteq owed'
    BY <1>1, <1>2 DEF Live
  <2>2. Announced(out') = Announced(out)
    BY <1>1
  <2> QED
    BY <1>1, <1>10, <2>1, <2>2, GapStays DEF RawIInv
<1> QED
  BY <1>6, <1>7, <1>8, <1>9, <1>11 DEF RawIInv

------------------------------------------------------------------------------
\* The theorem.

LEMMA InitRawIInv == RawInit => RawIInv
<1> SUFFICES ASSUME RawInit
             PROVE  RawIInv
  OBVIOUS
<1>1. /\ wal = <<>> /\ sup = "connect" /\ released = {} /\ stale = Payload
      /\ \A x \in Xid : wrote[x] = {}
  BY DEF RawInit, NoChanges
<1>2. EndIsLast /\ OpenHasNoEnd /\ WroteIsCurrent /\ OpenIsTracked /\ ReleasedIsResolved
  BY <1>1 DEF EndIsLast, OpenHasNoEnd, WroteIsCurrent, OpenIsTracked, ReleasedIsResolved
<1>3. GapIsNamed
  BY <1>1 DEF GapIsNamed
<1> QED
  BY <1>2, <1>3, InitRawType DEF RawIInv

LEMMA StepRawIInv == RawIInv /\ [RawNext]_rawVars => RawIInv'
<1> SUFFICES ASSUME RawIInv, [RawNext]_rawVars
             PROVE  RawIInv'
  OBVIOUS
<1>1. RawTypeOK'
  BY StepRawType DEF RawIInv
<1>2. ASSUME NEW x \in Xid, (\E t \in Payload : Write(x, t)) \/ Commit(x) \/ Abort(x)
      PROVE  RawIInv'
  BY <1>1, <1>2, WriteIInv, CommitIInv, AbortIInv
<1>3. CASE Supervise
  <2>1. CASE ConnectDone \/ CatalogDone \/ IdentifyDone \/ PauseDone
    BY <1>1, <2>1, WaitsIInv
  <2>2. CASE InsertDone \/ StartDone
    BY <1>1, <2>2, InsertIInv, StartIInv
  <2>3. CASE ReadRecord \/ ResolveDone
    BY <1>1, <2>3, ReadIInv, ResolveIInv
  <2>4. CASE RoundEnds
    BY <1>1, <2>4, EndsIInv
  <2> QED
    BY <1>3, <2>1, <2>2, <2>3, <2>4 DEF Supervise
<1> QED
  BY <1>1, <1>2, <1>3, RewriteIInv, SteadyIInv, EngineIInv, ConsumerIInv DEF RawNext

\* There is no silent gap (raw.py): whatever is stale at the consumer, and is not one of
\* the excused, is on its way to it.  What will be named is part of what is on its way.
THEOREM RawHasNoSilentGap == RawSpec => []NoSilentGap
<1>1. RawIInv => NoSilentGap
  <2>1. Tables(NamesOnTheirWay) \subseteq Tables(OnItsWay)
    BY DEF Tables, NamesOnTheirWay
  <2> QED
    BY <2>1 DEF RawIInv, GapIsNamed, NoSilentGap, RawOwed
<1> QED
  BY <1>1, InitRawIInv, StepRawIInv, PTL DEF RawSpec
==============================================================================
