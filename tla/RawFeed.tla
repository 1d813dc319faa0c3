------------------------------- MODULE RawFeed --------------------------------
(***************************************************************************)
(* RawFeed (raw.py): physical replication without a slot, its records      *)
(* gated by transaction and named through a second, catalog connection.    *)
(*                                                                         *)
(* The engine is here what WalFeedProofs shows it to be, the abstract      *)
(* FeedContract; owed is what it has been pushed and has still to          *)
(* announce.  XLogWalker's framing and CommitGate's subtransactions and    *)
(* evictions have modules of their own: a record is an event here, and     *)
(* events come one at a time.  A relfilenode is a table and a version of   *)
(* it; other databases and system schemas are left out, and so is the      *)
(* client-side filter, which only drops names.                             *)
(***************************************************************************)
EXTENDS FeedContract, Health, FiniteSets

CONSTANTS
  Xid,          \* transactions; one is used again when its records are gone
  Rewritable,   \* bound of the model: the tables that may be rewritten
  MaxRewrites,  \* bound of the model: rewrites of a table
  WalBound,     \* bound of the model: records not yet streamed
  OutBound      \* bound of the model: the real output queue is unbounded

ASSUME RawAssumption ==
  /\ Rewritable \subseteq Payload
  /\ MaxRewrites \in Nat
  /\ {WalBound, OutBound} \subseteq Nat \ {0}

VARIABLES
  node,      \* server: the version of each table's relfilenode
  wrote,     \* server: the relfilenodes each open transaction has changed
  wal,       \* records from the start of the stream on, not yet read
  mark,      \* how many of them the watermark (emit_from) suppresses
  sup,       \* the supervisor's await: "connect", "catalog" (its connect and prime),
             \* "identify", "insert" (the insert position), "start", "stream",
             \* "resolve" (the catalog's answer), "pause"
  gate,      \* CommitGate.pending
  released,  \* what push_committed awaits names for
  known,     \* the relfilenodes in RelResolver.names
  answers,   \* the catalog connection answers
  first,     \* no session has gone live yet
  straddled, \* history: changes before the watermark whose transaction is open
  excused    \* history: tables with a change the feed is known to miss

serverVars == <<node, wrote>>
sessionVars == <<wal, mark, gate, released, known, answers>>
feedVars == <<stale, owed, out>>
history == <<straddled, excused>>
rawVars == <<feedVars, serverVars, sessionVars, sup, first, healthVars, history>>

Node == Payload \X (0..MaxRewrites)

Tables(nodes) == {n[1] : n \in nodes}

RelChange(x, n) == [kind |-> "change", xid |-> x, node |-> n]

TxnEnd(x, c) == [kind |-> "end", xid |-> x, committed |-> c]

Records ==
  [kind : {"change"}, xid : Xid, node : Node]
    \cup [kind : {"end"}, xid : Xid, committed : BOOLEAN]

NoChanges == [x \in Xid |-> {}]

RawInit ==
  /\ stale = Payload  \* a consumer that has read nothing
  /\ owed = {}
  /\ out = <<>>
  /\ node = [t \in Payload |-> 0]
  /\ wrote = NoChanges
  /\ wal = <<>>
  /\ mark = 0
  /\ sup = "connect"
  /\ gate = NoChanges
  /\ released = {}
  /\ known = {}
  /\ answers = TRUE
  /\ first = TRUE
  /\ HealthInit
  /\ straddled = {}
  /\ excused = {}

------------------------------------------------------------------------------
\* What the catalog names of the nodes asked for: the tables that still have them.
Found == {n \in released : n[2] = node[n[1]]}

\* Seeded faults.

\* The first record past the watermark is suppressed too.
WatermarkPastIt == Len(wal) + 1

\* Only the first stream is announced.
AnnouncesOnce == first

\* resolve() returns the rows of its query, and forgets the names it had.
ResolvedFromRows == Found

------------------------------------------------------------------------------
\* The server.

\* The stream's start is known: the records from there on will be streamed.
Attached == sup \in {"insert", "start", "stream", "resolve"}

\* The ends of committed transactions that are still to be read as news.
CommitsAhead == {i \in mark + 1..Len(wal) : wal[i].kind = "end" /\ wal[i].committed}

\* The relfilenodes whose committed changes are still to be read, or to be named.
OnItsWay ==
  released
    \cup (UNION {gate[wal[i].xid] : i \in CommitsAhead})
    \cup {wal[j].node : j \in {j \in mark + 1..Len(wal) :
                                 /\ wal[j].kind = "change"
                                 /\ \E i \in CommitsAhead : j < i /\ wal[i].xid = wal[j].xid}}

Logged(e) ==
  IF Attached
    THEN Len(wal) < WalBound /\ wal' = Append(wal, e)
    ELSE UNCHANGED wal

Write(x, t) ==
  LET n == <<t, node[t]>> IN
  /\ \A i \in DOMAIN wal : ~(wal[i].kind = "end" /\ wal[i].xid = x)
  /\ wrote' = [wrote EXCEPT ![x] = @ \cup {n}]
  /\ straddled' = straddled \ {<<x, n>>}
  /\ Logged(RelChange(x, n))
  /\ UNCHANGED <<feedVars, node, mark, gate, released, known, answers, sup, first,
                 healthVars, excused>>

\* A commit and its record.  What the transaction wrote before the watermark, and not
\* again since, is what the feed misses of it.
Commit(x) ==
  /\ wrote[x] # {}
  /\ wrote' = [wrote EXCEPT ![x] = {}]
  /\ stale' = stale \cup Tables(wrote[x])
  /\ excused' = excused \cup Tables({n \in wrote[x] : <<x, n>> \in straddled})
  /\ straddled' = {c \in straddled : c[1] # x}
  /\ Logged(TxnEnd(x, TRUE))
  /\ UNCHANGED <<owed, out, node, mark, gate, released, known, answers, sup, first,
                 healthVars>>

Abort(x) ==
  /\ wrote[x] # {}
  /\ wrote' = [wrote EXCEPT ![x] = {}]
  /\ straddled' = {c \in straddled : c[1] # x}
  /\ Logged(TxnEnd(x, FALSE))
  /\ UNCHANGED <<feedVars, node, mark, gate, released, known, answers, sup, first,
                 healthVars, excused>>

\* VACUUM FULL, CLUSTER or an ALTER TABLE that rewrites t, a transaction of its own which
\* waits for the writers of t.  Changes on their way under a relfilenode the resolver has
\* not seen can no longer be named.
Rewrite(t) ==
  LET n == <<t, node[t]>> IN
  /\ node[t] < MaxRewrites
  /\ \A x \in Xid : n \notin wrote[x]
  /\ node' = [node EXCEPT ![t] = @ + 1]
  /\ excused' = IF n \in OnItsWay \ known THEN excused \cup {t} ELSE excused
  /\ UNCHANGED <<feedVars, wrote, sessionVars, sup, first, healthVars, straddled>>

\* The catalog's host is gone, or its link drops what is sent, under a query.
CatalogDies ==
  /\ sup = "resolve"
  /\ answers
  /\ answers' = FALSE
  /\ UNCHANGED <<feedVars, serverVars, wal, mark, gate, released, known, sup, first,
                 healthVars, history>>

------------------------------------------------------------------------------
\* The engine, by its contract, and the consumer.  Its reloads differ in their reason
\* only, so one stands for all.

EngineAnnounces ==
  /\ Len(out) < OutBound
  /\ owed' \in SUBSET owed
  /\ \/ \E S \in SUBSET Payload : Nudge(S)
     \/ Reload("overflow")
  /\ UNCHANGED <<serverVars, sessionVars, sup, first, healthVars, history>>

\* A window closes over all that was pushed.
EngineCatchesUp == EngineAnnounces /\ owed' = {}

ConsumerReads ==
  /\ Consume
  /\ excused' = excused \ Covers(Head(out))
  /\ UNCHANGED <<serverVars, sessionVars, sup, first, healthVars, straddled>>

------------------------------------------------------------------------------
\* The supervisor.

SupMoves(from, to) ==
  /\ sup = from
  /\ sup' = to
  /\ UNCHANGED <<feedVars, serverVars, first, healthVars>>

\* The stream connection is up.
ConnectDone ==
  /\ SupMoves("connect", "catalog")
  /\ UNCHANGED <<sessionVars, history>>

\* The catalog connection is up, with a resolver that knows nothing.
CatalogDone ==
  /\ SupMoves("catalog", "identify")
  /\ UNCHANGED <<sessionVars, history>>

\* IDENTIFY_SYSTEM says where the stream will start.
IdentifyDone ==
  /\ SupMoves("identify", "insert")
  /\ UNCHANGED <<sessionVars, history>>

\* Everything written so far is history, flushed or not.
Watermark == Len(wal)

\* pg_current_wal_insert_lsn() has answered.
InsertDone ==
  /\ SupMoves("insert", "start")
  /\ mark' = Watermark
  /\ straddled' = {c \in Xid \X Node : c[2] \in wrote[c[1]]}
  /\ UNCHANGED <<wal, gate, released, known, answers, excused>>

\* Every stream that starts is announced.
Announces == TRUE

\* START_REPLICATION has answered: the session is live and announced.
StartDone ==
  /\ sup = "start"
  /\ Len(out) < OutBound
  /\ out' = IF Announces
              THEN Append(out, Resync(IF first THEN "connected" ELSE "reconnected"))
              ELSE out
  /\ sup' = "stream"
  /\ first' = FALSE
  /\ GoesLive
  /\ UNCHANGED <<stale, owed, serverVars, sessionVars, history>>

\* The tables of a transaction's changes are pushed.
PushCommitted(nodes) == owed' = owed \cup Tables(nodes)

\* The next record: history, a change for the gate, or the end of a transaction.  A
\* commit releases its changes; the names not known are asked of the catalog.
ReadRecord ==
  /\ sup = "stream"
  /\ wal # <<>>
  /\ wal' = Tail(wal)
  /\ mark' = IF mark > 0 THEN mark - 1 ELSE 0
  /\ LET e == Head(wal) IN
       \/ /\ mark > 0
          /\ UNCHANGED <<owed, gate, released, sup>>
       \/ /\ mark = 0
          /\ e.kind = "change"
          /\ gate' = [gate EXCEPT ![e.xid] = @ \cup {e.node}]
          /\ UNCHANGED <<owed, released, sup>>
       \/ /\ mark = 0
          /\ e.kind = "end"
          /\ gate' = [gate EXCEPT ![e.xid] = {}]
          /\ LET nodes == IF e.committed THEN gate[e.xid] ELSE {} IN
               IF nodes \subseteq known
                 THEN PushCommitted(nodes) /\ UNCHANGED <<released, sup>>
                 ELSE released' = nodes /\ sup' = "resolve" /\ UNCHANGED owed
  /\ UNCHANGED <<stale, out, serverVars, known, answers, first, healthVars, history>>

\* The names resolve() returns: those it had and those it found.
Resolved == released \cap (known \cup Found)

\* The catalog has answered: what it could name is cached, and pushed.
ResolveDone ==
  /\ sup = "resolve"
  /\ answers
  /\ known' = known \cup Found
  /\ PushCommitted(Resolved)
  /\ released' = {}
  /\ sup' = "stream"
  /\ UNCHANGED <<stale, out, serverVars, wal, mark, gate, answers, first, healthVars,
                 history>>

\* A connect, a query or the stream fails: both connections are dropped.  A query
\* that is not answered does not fail.
RoundEnds ==
  /\ sup # "pause"
  /\ answers
  /\ RoundFails(sup \in {"stream", "resolve"})
  /\ sup' = "pause"
  /\ wal' = <<>>
  /\ mark' = 0
  /\ gate' = NoChanges
  /\ released' = {}
  /\ known' = {}
  /\ answers' = TRUE
  /\ straddled' = {}
  /\ UNCHANGED <<feedVars, serverVars, first, excused>>

PauseDone ==
  /\ SupMoves("pause", "connect")
  /\ UNCHANGED <<sessionVars, history>>

Supervise ==
  \/ ConnectDone \/ CatalogDone \/ IdentifyDone \/ InsertDone \/ StartDone
  \/ ReadRecord \/ ResolveDone
  \/ RoundEnds \/ PauseDone

RawNext ==
  \/ \E x \in Xid : (\E t \in Payload : Write(x, t)) \/ Commit(x) \/ Abort(x)
  \/ \E t \in Rewritable : Rewrite(t)
  \/ CatalogDies
  \/ EngineAnnounces
  \/ ConsumerReads
  \/ Supervise

RawSpec == RawInit /\ [][RawNext]_rawVars

\* The engine announces what it owes and the consumer reads (both shown of Engine);
\* the supervisor's waits end, and the database is reached at the latest after
\* AttemptBound rounds.
RawFairSpec ==
  /\ RawSpec
  /\ SF_rawVars(EngineCatchesUp)
  /\ WF_rawVars(ConsumerReads)
  /\ WF_rawVars(ConnectDone \/ CatalogDone \/ IdentifyDone \/ InsertDone \/ PauseDone)
  /\ SF_rawVars(StartDone)
  /\ WF_rawVars(ReadRecord \/ ResolveDone)

------------------------------------------------------------------------------
RawTypeOK ==
  /\ TypeOK
  /\ node \in [Payload -> 0..MaxRewrites]
  /\ wrote \in [Xid -> SUBSET Node]
  /\ wal \in Seq(Records)
  /\ mark \in 0..Len(wal)
  /\ sup \in {"connect", "catalog", "identify", "insert", "start", "stream", "resolve",
              "pause"}
  /\ gate \in [Xid -> SUBSET Node]
  /\ released \in SUBSET Node
  /\ known \in SUBSET Node
  /\ answers \in BOOLEAN
  /\ first \in BOOLEAN
  /\ straddled \in SUBSET (Xid \X Node)
  /\ excused \in SUBSET Payload
  /\ HealthTypeOK

\* What the feed has still to announce.
RawOwed ==
  IF sup \in {"stream", "resolve"} THEN owed \cup Tables(OnItsWay) ELSE Payload

\* There is no silent gap: whatever the order of transactions, watermark, sessions and
\* catalog lookups, a table the consumer shows out of date is in the stream, the gate,
\* the resolver, the engine, announced, or covered by the Resync to come ("every gap
\* bracketed by a Resync", core.py).  Excused are the two cases the code does miss.
NoSilentGap == stale \ excused \subseteq RawOwed \cup Announced(out)

\* The inductive invariant.  A transaction's end is the last of its records, and one that
\* is open has no end among them.
EndIsLast ==
  \A i, j \in DOMAIN wal : wal[i].kind = "end" /\ wal[j].xid = wal[i].xid => j <= i

OpenHasNoEnd ==
  \A x \in Xid : wrote[x] # {} =>
    \A i \in DOMAIN wal : ~(wal[i].kind = "end" /\ wal[i].xid = x)

\* An open transaction holds back the rewrite of what it has changed.
WroteIsCurrent == \A x \in Xid : \A n \in wrote[x] : n[2] = node[n[1]]

\* Once the watermark is set, what an open transaction has changed is in the gate, or on
\* the wire past the watermark, or straddles it.
OpenIsTracked ==
  sup \in {"start", "stream", "resolve"} =>
    \A x \in Xid : \A n \in wrote[x] :
      \/ <<x, n>> \in straddled
      \/ n \in gate[x]
      \/ \E j \in mark + 1..Len(wal) : wal[j] = RelChange(x, n)

\* Names are awaited by resolve() alone.
ReleasedIsResolved == released # {} => sup = "resolve"

\* What is on its way and can be named: from the cache, or by the catalog as it is.
NamesOnTheirWay == {n \in OnItsWay : n \in known \/ n[2] = node[n[1]]}

\* What NoSilentGap says, of names that will be found.
GapIsNamed ==
  stale \ excused \subseteq
    Announced(out)
      \cup IF sup \in {"stream", "resolve"} THEN owed \cup Tables(NamesOnTheirWay) ELSE Payload

RawIInv ==
  /\ RawTypeOK
  /\ EndIsLast /\ OpenHasNoEnd
  /\ WroteIsCurrent /\ OpenIsTracked
  /\ ReleasedIsResolved
  /\ GapIsNamed

\* The same with no excuse, as the documentation has it ("Handle Resync and nothing can
\* make your view wrong", README).
NoGapAtAll == stale \subseteq RawOwed \cup Announced(out)

\* The counters tell the truth about the current streak of failed rounds, with two
\* connections to a round (BaseFeed._record_connect_failure).
HealthIsAccurate == Accurate(sup \in {"stream", "resolve"})

\* Every change reaches the consumer, across lost connections, rewrites and lookups.
EveryCommitArrives ==
  \A t \in Payload : t \in stale ~> t \notin stale \/ t \in excused \/ ~answers

\* A query the catalog leaves unanswered does not hold the feed for ever ("inbound
\* silence past it means a dead link, so the feed aborts and reconnects instead of
\* blocking forever", README).
SilentCatalogIsLeft == ~answers ~> answers
==============================================================================
