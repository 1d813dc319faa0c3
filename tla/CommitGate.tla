------------------------------ MODULE CommitGate -------------------------------
(***************************************************************************)
(* The commit gate of the physical transport (xlog.py CommitGate), driven  *)
(* by the transactions of a PostgreSQL server and the records they leave   *)
(* in the WAL.  The gate buffers changes by transaction id and releases    *)
(* them when it meets the record of the outcome.                           *)
(*                                                                         *)
(* The server is external.  What the walker makes of its outcome records   *)
(* (parse_xact) is the code's: COMMIT and ABORT carry the subtransactions  *)
(* that end with them, PREPARE counts as a commit without any, and COMMIT  *)
(* PREPARED and ROLLBACK PREPARED are no events at all.                    *)
(***************************************************************************)
EXTENDS Integers, Sequences, Functions

CONSTANTS
  Xid,       \* transaction ids, of subtransactions too
  Rel,       \* relations
  Parent,    \* the transaction of each subtransaction, NoParent for the others
  NoParent,
  MaxOpen,   \* max_open
  TwoPhase,  \* the transactions that end with PREPARE TRANSACTION, not COMMIT
  WalBound   \* bound of the model: records written and not yet read

\* One level of subtransactions stands for all: an outcome record lists the xids of a
\* tree of any depth flat.
ASSUME GateAssumption ==
  /\ NoParent \notin Xid
  /\ Parent \in [Xid -> Xid \cup {NoParent}]
  /\ \A x \in Xid : Parent[x] # NoParent => Parent[Parent[x]] = NoParent
  /\ MaxOpen \in Nat \ {0}
  /\ TwoPhase \subseteq {x \in Xid : Parent[x] = NoParent}
  /\ WalBound \in Nat \ {0}

VARIABLES
  status,   \* server: each transaction "idle", "open", "prepared", "committing" (its
            \* record is written, it is not visible yet), "committed", "aborted"
  written,  \* server: the relations each running transaction has changed
  wal,      \* events of the WAL the gate has not been given
  gate,     \* CommitGate.pending: one bucket per transaction, oldest first
  out,      \* the changes released by the last push
  evicted,  \* history: transactions whose bucket was evicted
  ahead,    \* history: transactions the gate saw end before they were visible
  unseen    \* history: changes that were committed and not nudged since

serverVars == <<status, written>>
vars == <<status, written, wal, gate, out, evicted, ahead, unseen>>

Changes == Xid \X Rel

Change(x, r) == [kind |-> "change", xid |-> x, rel |-> r]

TxnEnd(x, c, subs) == [kind |-> "end", xid |-> x, committed |-> c, subxids |-> subs]

Event == [kind : {"change"}, xid : Xid, rel : Rel]
           \cup [kind : {"end"}, xid : Xid, committed : BOOLEAN, subxids : SUBSET Xid]

Bucket == [xid : Xid, rels : SUBSET Rel]

Init ==
  /\ status = [x \in Xid |-> "idle"]
  /\ written = [x \in Xid |-> {}]
  /\ wal = <<>>
  /\ gate = <<>>
  /\ out = {}
  /\ evicted = {}
  /\ ahead = {}
  /\ unseen = {}

------------------------------------------------------------------------------
\* Seeded faults.

\* A second change of a transaction takes the place of the first.
BufferedReplacing(x, r) ==
  [i \in DOMAIN gate |->
     IF gate[i].xid = x THEN [gate[i] EXCEPT !.rels = {r}] ELSE gate[i]]
   \o (IF \E i \in DOMAIN gate : gate[i].xid = x
         THEN <<>> ELSE <<[xid |-> x, rels |-> {r}]>>)

\* One bucket too many is kept.
OverFullByOne(g) == Len(g) > MaxOpen + 1

\* Only the bucket of the transaction named by the record is ended.
EndedWithoutSubs(e) == {e.xid}

\* An aborted transaction is released like a committed one.
ReleasesAborted(e) == TRUE

\* The changes a commit ends are dropped.
ReleasesNothing(e) == FALSE

------------------------------------------------------------------------------
\* The server.

Subs(t) == {s \in Xid : Parent[s] = t /\ status[s] = "open"}

Logged(e) == Len(wal) < WalBound /\ wal' = Append(wal, e)

\* Transaction x, or a subtransaction of an open one, changes a relation.
Write(x, r) ==
  /\ status[x] \in {"idle", "open"}
  /\ Parent[x] # NoParent => status[Parent[x]] \in {"idle", "open"}
  /\ status' = [y \in Xid |-> IF y \in {x, Parent[x]} THEN "open" ELSE status[y]]
  /\ written' = [written EXCEPT ![x] = @ \cup {r}]
  /\ Logged(Change(x, r))
  /\ UNCHANGED <<gate, out, evicted, ahead, unseen>>

Ends(X, s) == status' = [y \in Xid |-> IF y \in X THEN s ELSE status[y]]

\* What an ended transaction wrote is of no more use to the server.
Forgets(X) == written' = [y \in Xid |-> IF y \in X THEN {} ELSE written[y]]

BecomesVisible(X) ==
  unseen' = unseen \cup {c \in Changes : c[1] \in X /\ c[2] \in written[c[1]]}

\* COMMIT of a transaction and its live subtransactions writes its record first.
Commit(t) ==
  /\ Parent[t] = NoParent
  /\ t \notin TwoPhase
  /\ status[t] = "open"
  /\ Ends({t} \cup Subs(t), "committing")
  /\ Logged(TxnEnd(t, TRUE, Subs(t)))
  /\ UNCHANGED <<written, gate, out, evicted, ahead, unseen>>

EndedWith(t, s) == {x \in Xid : status[x] = s /\ t \in {x, Parent[x]}}

\* It is taken off the list of running transactions once the record is flushed and, with
\* synchronous replication, confirmed.
Finish(t) ==
  /\ Parent[t] = NoParent
  /\ status[t] = "committing"
  /\ Ends(EndedWith(t, "committing"), "committed")
  /\ BecomesVisible(EndedWith(t, "committing"))
  /\ Forgets(EndedWith(t, "committing"))
  /\ UNCHANGED <<wal, gate, out, evicted, ahead>>

\* ABORT of a transaction, or ROLLBACK TO a savepoint, with its record.
Abort(x) ==
  /\ status[x] = "open"
  /\ Ends({x} \cup Subs(x), "aborted")
  /\ Logged(TxnEnd(x, FALSE, Subs(x)))
  /\ Forgets({x} \cup Subs(x))
  /\ UNCHANGED <<gate, out, evicted, ahead, unseen>>

\* PREPARE TRANSACTION: parse_xact takes its record for a commit of the top level.
Prepare(t) ==
  /\ t \in TwoPhase
  /\ status[t] = "open"
  /\ Ends({t} \cup Subs(t), "prepared")
  /\ Logged(TxnEnd(t, TRUE, {}))
  /\ UNCHANGED <<written, gate, out, evicted, ahead, unseen>>

\* COMMIT PREPARED: its record is no event.
CommitPrepared(t) ==
  /\ t \in TwoPhase
  /\ status[t] = "prepared"
  /\ Ends(EndedWith(t, "prepared"), "committed")
  /\ BecomesVisible(EndedWith(t, "prepared"))
  /\ Forgets(EndedWith(t, "prepared"))
  /\ UNCHANGED <<wal, gate, out, evicted, ahead>>

\* ROLLBACK PREPARED: neither is its.
RollbackPrepared(t) ==
  /\ t \in TwoPhase
  /\ status[t] = "prepared"
  /\ Ends(EndedWith(t, "prepared"), "aborted")
  /\ Forgets(EndedWith(t, "prepared"))
  /\ UNCHANGED <<wal, gate, out, evicted, ahead, unseen>>

------------------------------------------------------------------------------
\* The gate.

ChangesOf(b) == {<<b.xid, r>> : r \in b.rels}

\* Whether an eviction is due after a new bucket.
OverFull(g) == Len(g) > MaxOpen

\* pending.setdefault(xid, {}).setdefault(rel, event)
Buffered(x, r) ==
  IF \E i \in DOMAIN gate : gate[i].xid = x
    THEN [i \in DOMAIN gate |->
            IF gate[i].xid = x THEN [gate[i] EXCEPT !.rels = @ \cup {r}] ELSE gate[i]]
    ELSE Append(gate, [xid |-> x, rels |-> {r}])

\* A consumer refetches what is released, and sees all that is committed of it.
Nudged(changes) == {c \in Changes : \E d \in changes : d[2] = c[2]}

\* push of a RelChange; past max_open the oldest bucket is released.
TakeChange ==
  /\ wal # <<>>
  /\ Head(wal).kind = "change"
  /\ LET e == Head(wal)
         g == Buffered(e.xid, e.rel)
     IN IF OverFull(g)
          THEN /\ gate' = Tail(g)
               /\ out' = ChangesOf(Head(g))
               /\ evicted' = evicted \cup {Head(g).xid}
          ELSE /\ gate' = g
               /\ out' = {}
               /\ UNCHANGED evicted
  /\ unseen' = unseen \ Nudged(out')
  /\ wal' = Tail(wal)
  /\ UNCHANGED <<serverVars, ahead>>

\* pending.pop of each of X: the buckets that stay, in their order.
Without(g, X) ==
  LET kept[i \in 0..Len(g)] ==
        IF i = 0 THEN <<>>
        ELSE IF g[i].xid \in X THEN kept[i - 1]
        ELSE Append(kept[i - 1], g[i])
  IN kept[Len(g)]

\* The transactions whose buckets an outcome record ends.
Ended(e) == {e.xid} \cup e.subxids

\* Whether the outcome releases them.
Releases(e) == e.committed

\* push of a TxnEnd: the buckets go, and a commit releases them.
TakeEnd ==
  /\ wal # <<>>
  /\ Head(wal).kind = "end"
  /\ LET e == Head(wal)
         ended == {b \in Range(gate) : b.xid \in Ended(e)}
     IN /\ gate' = Without(gate, Ended(e))
        /\ out' = IF Releases(e) THEN UNION {ChangesOf(b) : b \in ended} ELSE {}
        /\ ahead' = ahead \cup {x \in Ended(e) : status[x] = "committing"}
  /\ unseen' = unseen \ Nudged(out')
  /\ wal' = Tail(wal)
  /\ UNCHANGED <<serverVars, evicted>>

Push == TakeChange \/ TakeEnd

Next ==
  \/ \E x \in Xid, r \in Rel : Write(x, r)
  \/ \E x \in Xid :
       \/ Commit(x) \/ Finish(x) \/ Abort(x)
       \/ Prepare(x) \/ CommitPrepared(x) \/ RollbackPrepared(x)
  \/ Push

Spec == Init /\ [][Next]_vars

\* The stream delivers what is written; no transaction has to end.
FairSpec == Spec /\ WF_vars(Push)

------------------------------------------------------------------------------
\* The types of the variables.
TypeOK ==
  /\ status \in [Xid -> {"idle", "open", "prepared", "committing", "committed", "aborted"}]
  /\ written \in [Xid -> SUBSET Rel]
  /\ wal \in Seq(Event)
  /\ gate \in Seq(Bucket)
  /\ out \in SUBSET Changes
  /\ evicted \in SUBSET Xid
  /\ ahead \in SUBSET Xid
  /\ unseen \in SUBSET Changes

\* The transactions whose nudges the gate times by their outcome: not those it had
\* to evict, and not those that end in two phases.
InOnePhase(x) == TwoPhase \cap {x, Parent[x]} = {}

Gated(x) == InOnePhase(x) /\ x \notin evicted

\* Nothing is released before the record of its transaction's commit is written,
\* subtransactions that were rolled back included (CommitGate: "no wakeups for
\* rollbacks").
NoEarlyNudge == \A c \in out : Gated(c[1]) => status[c[1]] \in {"committing", "committed"}

\* The gate does not leak: it holds at most max_open buckets, one to a transaction, and
\* one in one phase is still open, or its outcome is on its way and names it.
NothingStranded ==
  /\ Len(gate) <= MaxOpen
  /\ \A i, j \in DOMAIN gate : gate[i].xid = gate[j].xid => i = j
  /\ \A b \in Range(gate) :
       \/ ~InOnePhase(b.xid)
       \/ status[b.xid] = "open"
       \/ \E e \in Range(wal) : e.kind = "end" /\ b.xid \in {e.xid} \cup e.subxids

\* Where the nudge for a committed change still has to come from.
OnItsWay(x, r) ==
  \E i \in DOMAIN wal :
    /\ wal[i].kind = "end" /\ wal[i].committed /\ x \in {wal[i].xid} \cup wal[i].subxids
    /\ \/ \E b \in Range(gate) : b.xid = x /\ r \in b.rels
       \/ \E j \in 1..i - 1 : wal[j] = Change(x, r)

\* The gate was in time for the transaction: it met the outcome when it was visible.
Timely(x) == Gated(x) /\ x \notin ahead

\* A committed change the consumer has not been nudged about since is still on its
\* way, through whatever aborts, subtransactions and evictions of others.
CommitIsOnItsWay == \A c \in unseen : Timely(c[1]) => OnItsWay(c[1], c[2])

\* The inductive invariant.  Names: the event is an outcome of x.
Names(e, x) == e.kind = "end" /\ x \in Ended(e)

\* An outcome is the last word on its transaction, and true of it.
OutcomesAreLast ==
  \A i \in DOMAIN wal, x \in Xid : Names(wal[i], x) =>
    /\ status[x] \notin {"idle", "open"}
    /\ InOnePhase(x) =>
         status[x] \in IF wal[i].committed THEN {"committing", "committed"} ELSE {"aborted"}
    /\ \A j \in DOMAIN wal : wal[j].xid = x \/ Names(wal[j], x) => j <= i

\* A change on its way to the gate is of a transaction that is open, or has its outcome
\* behind it.
ChangesHaveOutcomes ==
  \A j \in DOMAIN wal :
    LET x == wal[j].xid IN
    wal[j].kind = "change" /\ InOnePhase(x) =>
      status[x] = "open" \/ \E i \in DOMAIN wal : j < i /\ Names(wal[i], x)

IdleWroteNothing == \A x \in Xid : status[x] = "idle" => written[x] = {}

\* What an open transaction wrote is in its bucket, or on its way there.
WrittenIsHeld ==
  \A x \in Xid : Gated(x) /\ status[x] = "open" => \A r \in written[x] :
    \/ \E b \in Range(gate) : b.xid = x /\ r \in b.rels
    \/ \E j \in DOMAIN wal : wal[j] = Change(x, r)

\* So is what a transaction wrote whose commit is not visible yet.
CommittingIsOnItsWay ==
  \A x \in Xid : Timely(x) /\ status[x] = "committing" =>
    \A r \in written[x] : OnItsWay(x, r)

IInv ==
  /\ TypeOK
  /\ OutcomesAreLast
  /\ ChangesHaveOutcomes
  /\ NothingStranded
  /\ NoEarlyNudge
  /\ IdleWroteNothing
  /\ WrittenIsHeld
  /\ CommittingIsOnItsWay
  /\ CommitIsOnItsWay

\* The same for transactions that end in two phases, which is what the documentation
\* says: a consumer that handles every Resync is never left with a wrong view (README),
\* and this gate sees no gap that would end in one.
NoCommitMissed == \A c \in unseen : c[1] \notin ahead => OnItsWay(c[1], c[2])

\* The same for commits that are released before they are visible (CommitGate: "no
\* consumer refetch racing an open transaction").
NoRefetchRaces == \A c \in unseen : Gated(c[1]) => OnItsWay(c[1], c[2])

\* Every committed change is nudged in the end.
EveryCommitIsNudged ==
  \A c \in Changes : c \in unseen /\ Timely(c[1]) ~> c \notin unseen \/ ~Timely(c[1])
==============================================================================
