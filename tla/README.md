# A TLA+ development of pgnudge

pgnudge turns a PostgreSQL replication stream into wakeups. An application
iterates over a feed and receives two kinds of items: a `Batch`, which names
tables that changed, and a `Resync`, which says "reload everything". The promise
is at-least-once delivery "with every gap bracketed by a `Resync`"
(`src/README.md:54`, `core.py:4`). This directory models the machinery behind that
promise, model-checks it on small instances and proves its safety for every value of
the parameters. Paths below are relative to `src/src/pgnudge/` unless they
name another directory.

## 1. Inventory

Everything runs on one asyncio event loop. Two things can interleave only at an
`await`; what runs between two awaits is atomic. That is the granularity of every
module here: **one action is what one task does between two awaits**, and a
variable such as `pump`, `sup` or `consumer` says which await a task is in.

| component | state | operations | talks to |
|---|---|---|---|
| Feed items (`core.py`) | none | `Batch`, `Resync` | everything |
| Intake, Coalescer, Debouncer, pump, failsafe (`engine.py:95-306`) | bounded queue and overflow flag; pending payloads and the window's hard deadline; the unbounded output queue | `push`, `get_within`, `consume_overflow`, `next_item`, `emit`, failsafe timer | fed by a transport's `_push_raw`/`_emit_resync`, read by the consumer |
| FeedService, BaseFeed iterator (`engine.py:199-431`) | tasks, `started`, `closing`, `error`, `error_delivered`, the sentinel in `out` | `start`, `_on_task_done`, `aclose`, `next_item`, `__anext__` | owns the three tasks; the consumer and the closer call it |
| StatusFeedback (`proto.py:415-459`, `engine.py:471-490`) | `last_inbound` clock, the loop's sleep | status with reply request, liveness abort | the supervisor's connection |
| WalFeed supervisor (`wal.py`) | connection, temporary slot, `attempt`, `first`, `_connect_failures` | connect, create slot, start stream, read, back off | the server, the engine, StatusFeedback |
| XLogWalker (`xlog.py:139-348`) | `pos`, buffer, `skip`, `raw_skip`, record in hand, `first_page` | `feed`, `records`, `take_page_header`, `parse_record` | fed by RawFeed, yields events |
| CommitGate (`xlog.py:102-136`) | buckets of changes per transaction | `push` | between walker and RawFeed |
| RawFeed supervisor, RelResolver (`raw.py`) | stream and catalog connections, watermark, walker, gate, the cache of names | connect both, identify, insert position, start, read, resolve, back off | the server (twice), the engine, StatusFeedback |
| WalsenderConnection (`proto.py`) | socket, phase of the exchange, `tls`, `send_lock`, the transport's write buffer | `connect`, `simple_query_rows`, `start_replication`, `read_stream`, `send_standby_status`, `abort` | the server; the reader and the feedback task send on it |
| record header walk (`xlog.py:350-458`) | a cursor, the data declared so far | `parse_record`, `walk_headers`, `parse_heap`, `parse_xact` | called by the walker |
| doctor (`doctor.py`) | connections, a temporary slot | `diagnose` | the server, by both kinds of connection |
| backoff, LSN and size notation, plugin formats, command line | none that outlives a call | | |

What is hard in it: the order of pushes, window timeouts and overflows; a task that
dies while the feed is being closed and the consumer is blocked; a cancellation that
arrives in an unlucky await; commits that fall between two sessions; a link that goes
silent and tells nobody; a server that refuses, fails or falls silent in the middle of
an exchange; answers that have to be read to their end; two tasks that send on one
connection; records cut anywhere by pages, segments and network chunks, with headers
whose size depends on what precedes them; transactions, subtransactions and evictions
in the gate; and names that are stale, or not visible yet, when they are looked up.
`PROJECT.json` lists these hazards line by line.

What makes each part correct, in a sentence: the engine owes or has announced
whatever is stale; the service blocks nobody for good; the probe cuts dead links and
no others; the connection leaks no socket, takes no answer for another's and waits for
nothing that cannot come; a session brackets every gap; the walker returns exactly the
records past its watermark, and the walk reads each as what PostgreSQL wrote; the gate
releases at commit and only then; the resolver's misses cost no more than the code
says they do; the preflight recommends what works and leaves nothing behind.

## 2. Modules

```
FeedItems ── FeedContract (abstract)          StatusFeedback      CommitGate
    │             ▲  ▲                        FeedService         XLogWalker  RecordWalk
    └── Engine ───┘  │ implements             Walsender           RelNames
          │          │                        Doctor
Health ── WalFeed ───┘
   └───── RawFeed  (on top of FeedContract)
```

| module | models | proofs |
|---|---|---|
| `FeedItems` | items and what they cover | with `FeedContract` |
| `FeedContract` | the abstract promise: `stale`, `owed`, `out` | `FeedContractProofs` |
| `Engine` | Intake, Coalescer, Debouncer, pump, failsafe, consumer | `WalFeedProofs` |
| `StatusFeedback` | the liveness probe against a clock | `ServiceProofs` |
| `FeedService` | tasks, failure, shutdown, sentinel, iterator, supervisor under cancellation | `ServiceProofs` |
| `Walsender` | one connection against a server: connect, queries, stream, statuses | `WalsenderProofs` |
| `Health` | the attempt counter and the streak of connect failures | with `WalFeed` |
| `WalFeed` | the logical supervisor, composed with `Engine` and `Health` | `WalFeedProofs` |
| `XLogWalker` | record framing | `WalkerProofs` |
| `RecordWalk` | the walk over one record's headers | `WalkerProofs` |
| `CommitGate` | the gate and the server's transactions | `CommitGateProofs` |
| `RawFeed` | the physical supervisor and RelResolver, over `FeedContract` and `Health` | `RawFeedProofs` |
| `RelNames` | RelResolver's cache of names against a catalog that changes | `CatalogProofs` |
| `Doctor` | the preflight | `CatalogProofs` |

Each module has a section "Seeded faults": variants of a definition of the module, of
the kind a bug in the code would be. They are not part of any specification. Each
property of each run that passes is paired with one of them or more in `PROJECT.json`,
and is violated once that fault takes the place of the definition.

**FeedContract.** `stale` is a history of what the world did: tables that changed
after the consumer last refetched them. `owed` is whatever the implementation must
still turn into an item, `out` the items waiting. A `Batch` may clear only what it
names from `owed`, a `Resync` anything. `NoSilentLoss` says `stale` is within `owed`
and what `out` announces.

**Engine.** `queue` and `overflowed` are the Intake; `pending`, `hard` and `quiet` the
open window. `pump = "window"` and `"close"` are not awaits: `get_within` does not
suspend while the queue has an item, so the pump keeps the event loop there, and
`LoopIsFree` stops every other task. `WaitTimesOut` returns `None` only: `get_within`
uses `asyncio.timeout` around a `get()` whose cancellation leaves an item in the queue.
Clocks count down and are never urgent, so every lateness of a task is included.

**StatusFeedback.** Here time is urgent instead: the loop wakes at most `Jitter` late,
a live server answers within `Delay`, and the assumptions `Delay < Interval` and
`Interval + Jitter <= Liveness` are what the absence of false aborts needs beyond
`validate_feed_params`. What the probe measures is the age of the last frame *read*:
`reader` says whether the supervisor reads or awaits the catalog (`raw.py:243`), and
how far it is behind.

**FeedService.** `task` records the five states of an asyncio task that matter:
between `cancel()` and the `CancelledError`, and between the exception and the done
callback, other tasks run. The supervisor's position decides what a cancellation does:
it unwinds from most awaits, but the `suppress(CancelledError)` of `_feedback_running`
swallows it in `"teardown"`, and a `wait_for` of Python 3.11 may swallow it in
`"connect"`. `aclose()` may itself be cancelled while it gathers (`CloseCancelled`,
`CloseAbandoned`); `Consumers` is the set of tasks that iterate.

**Walsender.** Both ends of one session, message by message. The client's `pc` is the
await it is in; a `Read` hands it the next message of `inbox`. The server (external)
owes no answer during the handshake, may refuse, send an error or notices, and may die
at any point. With the stream the feedback task starts, and two tasks send statuses:
`holder` and `waiters` are `send_lock`, `buffered` and `paused` the transport and its
water marks. A reader that answers a keepalive does not read meanwhile. When the stream
ends, `"unwinding"` is `_feedback_running` awaiting the task it has cancelled.

**WalFeed.** `Commit` marks the table stale; only a slot that has reached its
consistent point decodes it. `ConnectionLost` may happen in every await of a
connection, and drops the slot and what is on the wire. Each engine action runs
unchanged beside the supervisor, except while the pump keeps the loop. A silent link
is noticed only by `ProbeAborts`, which the code runs only around the stream; a link may
fall silent during the setup too, and the feed then hangs (`SetupHangs`) until the
connection is reset, if it ever is. The two liveness properties excuse that one hang
and only if it lasts: `StreamsAgain` says that the supervisor has no other way to stop.

**XLogWalker.** `wal` is a list of records with their places, laid out the way
PostgreSQL does it: aligned, interrupted by a header on each page (a long one at each
segment), followed by zeros to the end of the segment after `XLOG_SWITCH`. A byte is
the pair of its record and its place in it, so that a returned record can be compared
with the original byte by byte. The walker's buffer is the WAL from `pos` to `sent`.
Each pass of the loop in `records()` is one action.

**RecordWalk.** A record is laid out the way PostgreSQL assembles it, with the real
sizes of its headers; the walk knows only what it has read. A byte is abstracted to the
header or section that begins there: a walk that arrives anywhere else is lost.
`Dispatch`, one `Walk` per header and `Parse` follow `parse_record`.

**CommitGate.** The server's side (transaction states, what each wrote, the records)
drives the gate's two kinds of `push`. A transaction is `"committing"` from its record
on and visible after `Finish`, as in PostgreSQL. `unseen` collects changes that became
visible; any nudge for the relation removes them. `ahead` names the transactions whose
outcome the gate met before they were visible. `TwoPhase` names the transactions that
end with `PREPARE TRANSACTION`.

**RawFeed.** A relfilenode is a table and a version, and a rewrite makes the next
version. `wal` holds the records from the start of the stream on, of which the first
`mark` are suppressed as history. The session's steps follow the awaits of
`_supervisor`: connect, catalog (connect and prime), identify, insert position, start,
read, resolve. `Write`, `Commit`, `Abort` and `Rewrite` of the server fall anywhere
between them. What `WalFeedProofs` shows of the engine is used here: the engine is
replaced by the contract it implements, which is what makes the composition small
enough to check. Commit and visibility are one step here and tables keep their names:
`CommitGate` and `RelNames` take these apart.

**RelNames.** A node is a relation and a version of its relfilenode; the catalog shows
one, the WAL may already have the next. `names` is the resolver's cache, `Drop` what
`None` means there. A commit is owed to the readers of the table's present name
(`unseen`), whatever the feed calls it.

**Doctor.** `diagnose()` is a list of connections and queries, each of which may
succeed, be refused, fail for want of the plugin or for another reason, or be
interrupted. The server's slots and sessions outlive the client until it notices.

## 3. Runs

| run | module, configuration | shows |
|---|---|---|
| `engine` | `MCEngine` | no change lost in silence, no overflow flag stranded, `ContractSpec` implemented, windows close, changes arrive |
| `feedback` | `MCStatusFeedback` | no false abort, silence bounded, dead link cut |
| `service` | `MCFeedService` | nobody blocked for good, a closed feed is quiet, exceptions surface once, `aclose()` ends, the feed's end reaches its consumer |
| `walsender` | `MCWalsender` | no socket leaks, answers match their queries, client and server in step, one drain at a time, every call ends |
| `walfeed` | `MCWalFeed` | no gap without a Resync, health counters accurate, contract implemented, commits arrive, the feed streams again unless a setup hangs |
| `gate` | `MCCommitGate` | no early nudge, no stranded bucket, no commit forgotten |
| `walker` | `MCXLogWalker` | never desynchronized, exactly the news, nothing held back; every record read as it was written |
| `rawfeed` | `MCRawFeed` | no gap without a Resync but for two named cases, commits arrive |
| `names` | `MCRelNames` | commits reach the readers of a table's present name, but for renames after its lookup |
| `doctor` | `MCDoctor` | recommends what works, blames the plugin rightly, leaves nothing behind |
| `rawfeed_straddle` | `MCRawFeedStraddle.cfg` | violated: finding 1 |
| `names_rename` | `MCRelNamesRename.cfg` | violated: finding 2 |

`walker` runs the framing and the walk side by side: the walk gets a copy of a record's
bytes and shares no state with the framing, so a behaviour frames a WAL or walks one
record. The types of the variables are an invariant of the run `engine`, where one of
them is the bound of the queue; the other modules state theirs too, and hold to it.

Further configurations show what the properties above excuse. Each checks one property
and ends in the violation of section 5: `MCFeedService311.cfg`,
`MCFeedServiceAbandoned.cfg`, `MCFeedServiceTwo.cfg`, `MCWalFeedSetup.cfg`,
`MCRawFeedCatalog.cfg`, `MCCommitGatePrepare.cfg`, `MCCommitGateVisible.cfg`,
`MCStatusFeedbackBusy.cfg`, `MCXLogWalkerSwitch.cfg`, `MCDoctorRaises.cfg`.

**Bounds.** Two tables are enough for a `Batch` to differ from a `Resync` and for a
window to name some and not all. `OutBound` bounds a queue that is unbounded in the
code: a producer waits at the bound, which removes no order of items. An intake of two
(one in `walfeed`) overflows before, during and after a window; a window of two ticks
with a debounce of one has a quiet end and a hard one. `Threshold` lies within
`AttemptBound`, so a streak passes it. The gate has two top-level transactions and
a subtransaction with room for two buckets, so it evicts an innocent one. The walker's
pages are 8 bytes with headers of 2 and 4 and segments of two pages, scaled down from
8192, 24, 40 and 16 MB; records of 3, 4 and 13 bytes end on and off an alignment, put
their length across a page and cover two page headers; chunks of 1, 3 and 8 bytes cut
everything. `RawFeed` has one transaction identifier, used again and again, two tables
of which one may be rewritten once, and two records in flight: enough for a
transaction across the watermark, for a commit that releases a cached, a found and a
vanished relfilenode, and for every break of the session. Transactions that interleave
in the gate are `CommitGate`'s. `Walsender` has two commands, so that an answer can be
taken for the next one's, of up to two rows, two unread messages and a transport that
pauses above one status. `RecordWalk` has records of up to two blocks, the fewest that
can share a relation or differ in fork, with data of 0 and 300 bytes, and outcomes with
0, 1 and 70 subtransactions: the main data has the short header and the long one, and
may be absent. `RelNames` has two relations and three names, one in a system schema, so
that names can be swapped through a free one, one rewrite each and two commits on their
way. `Doctor` has both plugins.

**Deadlock.** It is checked for `engine` and `walfeed`. The other systems may stop: a
feed that is closed, a probe or a session that has ended, a finite WAL that has been
read, transactions that have all ended, a catalog that never answers, a preflight that
is done. What must not be left waiting there is a property of its own
(`NobodyBlockedForGood`, `EveryCallEnds`).

**Fairness.** The event loop runs every task that is ready, so the pump, the callbacks,
the probe and the supervisor's steps are weakly fair. The consumer is strongly fair in
`Engine` and `WalFeed`, because the pump takes the loop again and again but never
keeps it. Waits with a timeout or an answer from a live peer end. `StartDone` is
strongly fair and `AttemptBound` forces a round to succeed in the end: that is "the
database comes back", without which nothing arrives. In `RawFeed` the engine catches
up under strong fairness, which is what `EveryChangeArrives` shows of the engine
itself. In `Walsender` the clock of `connect_timeout` runs, the server answers commands
once it has let the client in and takes statuses until it has gone; before, it owes
nothing. In `RelNames` the catalog answers and a session follows a session. In `Doctor`
a server notices that its client is gone. Nothing is assumed of failures, of the
network, of the failsafe timer or of transactions: they need not end.

## 4. Proofs

Every safety property that a run checks is proved by TLAPS. The proofs hold for every
value of the constants that meets the assumptions stated with them: any set of tables,
relations, transactions or consumers, any queue size, timeout, bound and number of
messages, any size of pages, segments and records. The assumptions are these.

* `EngineAssumption` and `FeedbackAssumption` contain what `validate_feed_params`
  enforces; the latter also the two bounds on the surroundings named above.
* `GateAssumption`: a subtransaction's parent is a top-level transaction, `max_open` is
  positive, as its default is (`xlog.py:114`), and two-phase commit is for top-level
  transactions.
* `WalkerAssumption`: a page is longer than its header, a segment is a number of pages,
  pages and headers are aligned, and a record is longer than its length field, as in
  PostgreSQL (8192; 24 and 40; 8; a record has at least 24 bytes, its length 4).
* `DoctorAssumption`: the fallback is a plugin. `NamesAssumption`: the filter and the
  system schemas are sets of names.
* The others, and what remains of these, only say that bounds are numbers and that the
  value for "none" is not one of the relations.

How each proof goes, and why the property had to be strengthened:

* **FeedContract** (`ContractSafety`). `NoSilentLoss` is inductive with the types. Its
  lemmas say what a queue announces after an append (what it did, and what the new item
  covers) and after its head is taken (nothing that the head does not cover is lost).
* **Engine** (`EngineTypeOK`, `EngineServesOverflow`, `EngineRefinesContract`,
  `EngineLosesNothing`). A window that closes could announce an empty `Batch`, or names
  could remain in a closed window, unless an open window has a name and a closed one
  none (`WindowHoldsItsNames`); and a window could open on a queue whose flag nobody
  will look at unless `OverflowIsServed` holds. `IInv` is the conjunction. With `owed`
  mapped to `Owed` (all tables after an overflow, what is queued or pending otherwise)
  every step is a step of the contract or a stutter: `Push` is `Change`, closing a
  window is `Nudge` or `Reload`, the moves within a window are stutters. `NoSilentLoss`
  follows from the contract's own theorem, taken over through `INSTANCE`.
* **WalFeed** (`WalHealthIsAccurate`, `WalRefinesContract`, `WalHasNoSilentGap`). The
  engine's lemmas are reused for the engine's steps. New is `SlotBehindStream`: a stream
  is read only from a slot past its consistent point. Without it a commit could fall
  between the Resync and the first frame, and be owed by nobody.
* **StatusFeedback** (`FeedbackNoFalseAbort`, `FeedbackSilenceIsBounded`). Since the last status left, either its answer came and
  the stream has been idle no longer than that, or the answer is due and the silence
  before the status was at most one interval (`ProbeIsAnswered`); and the silence never
  exceeds `Liveness` by more than the time since the last wake (`SilenceSinceWake`).
* **FeedService** (`ServiceRaisesOnce`, `ServiceClosedIsQuiet`, `NobodyIsLeftBlocked`).
  `IInv` ties `closing`, `start()` and the delivered error together. What keeps a
  consumer from waiting for good is that a feed that is over has something in its queue
  as long as somebody is blocked (`SentinelAwaits`). The theorem has the hypothesis
  that one task iterates (`OneConsumer`): with two the property fails (finding 5).
* **CommitGate** (`GateTypeOK`, `GateNothingStranded`, `GateNoEarlyNudge`,
  `GateCommitIsOnItsWay`). The invariant follows a change from the server to the
  consumer: on its way to the gate, in a bucket, released. It needs that an outcome is
  the last record of its transaction (`OutcomesAreLast`), that a change is of an open
  transaction or has its outcome behind it (`ChangesHaveOutcomes`), and that what an
  open or committing transaction wrote is held somewhere (`WrittenIsHeld`,
  `CommittingIsOnItsWay`). What `Without`, a recursive function, makes of the buckets
  is proved by an induction whose induction set takes the place of the predicate
  (`Least`, `Induct`), which needs no operator as a parameter.
* **RawFeed** (`RawHasNoSilentGap`). `NoSilentGap` alone is not inductive: it counts
  what is on its way, and that is worth nothing if it turns out to have no name.
  `GapIsNamed` counts only what the cache or the present catalog names. A rewrite takes
  names away, which is why an open transaction must hold it back (`WroteIsCurrent`);
  and the commit that makes a table stale must find what it wrote in the gate, on the
  wire past the watermark, or among the straddlers (`OpenIsTracked`), with the outcome
  behind it (`EndIsLast`, `OpenHasNoEnd`). The engine is the contract here, as
  `WalFeedProofs` shows it may be.
* **Walsender** (`WalsenderOneDrain`, `WalsenderNoSocketLeaks`, `WalsenderInSync`,
  `WalsenderAnswersMatch`). Who drains holds the lock (`DrainsLocked`) and the lock has
  one holder (`OneHolder`): after a cancelled drain the lock must be free and not only
  nobody draining. Every move of a task is one of five ways to treat the lock (`Keeps`).
  Client and server are in step because at most one request is under way, to a server
  that waits for it (`OneAtATime`), and nothing of an answer comes behind its
  `ReadyForQuery` (`ReadyIsLast`). An answer matches its query because at each moment
  the rows read and the rows in the inbox are together the rows sent for the command,
  in order (`RowsFollow`), and likewise an error (`FailureFollows`).
* **XLogWalker** (`WalkerNeverDesyncs`, `WalkerReturnsTheNews`,
  `WalkerHoldsNothingBack`). `WalkerIInv` says that some number `k` of records is behind
  the walker, that it has returned the news among them and nothing else (`Returned`),
  and that it stands in one of six places: on the page it enters by, in the tail of the
  record that was under way there, in padding, in the fill behind a switch, between two
  records, or in record `k + 1` with exactly its bytes before `pos` in hand (`Stands`).
  It is needed because a later page header is accepted only if what it says of the
  record under way agrees with what the walker has in hand, and that is a statement
  about the layout. Below it is arithmetic: the way a remainder is written is unique, a
  page has one header, `Room` adds up and grows by one at each byte outside a header,
  so a record of a given length has one end (`EndIs`, `EndReached`); and an induction
  shows that the recursive `Layouts` puts the records one behind the other
  (`LayoutsLaid`). The step of each action then says where the walker goes next; the
  page header has one case for each place it may be met at. The three theorems have the
  hypothesis `~EntryInSwitch`: with a stream that begins inside a segment switch
  `NeverDesyncs` fails (finding 11).
* **RecordWalk** (`RecordReadAsWritten`). `WalkIInv`: with the headers before header `i`
  read, the cursor is where header `i` begins, and the data declared so far is the sum
  of theirs (`ReadTo`). Since headers take up room, no two begin at one place
  (`AtIs`), and the loop ends behind the last header and nowhere before (`LoopEnds`):
  there, what is left is what was declared, and before, a header is left as well. The
  relation is that of the first block of a main fork, because the header that leaves out
  its relation shares it with the header before; and the subtransactions lie where
  `parse_xact` looks because the main data is the last of all data (`MainIsLast`) and
  `xinfo` is there whenever they are (`OutcomeIs`). The sums are recursive functions;
  that the recursion defines them is itself proved (`SumToIs`), by the same induction.
* **RelNames** (`NamesAreByNow`). A table whose readers were not told is so under its
  present relfilenode too (`ToldByNow`), or the lag of the catalog has been recorded
  (`LagIsMissed`); what the cache has for the present relfilenode is the present name
  (`NamesAreRight`), and it has nothing for later ones (`NamesAreShown`).
* **Doctor** (`DoctorRecommendsWhatWorks`, `DoctorBlamesRightly`). What a probe noted is
  so (`FoundIsSo`), because a slot that exists is the server's word (`SlotsAreGranted`)
  and the fallback is tried for want of the plugin only (`FallbackIsForWant`).

Each inductive invariant was first checked by TLC on the instance of its run. Those
that belong to the state of a component stand in its module; those that exist for the
sake of a proof (`SyncInv` of `Walsender`) stand in the proof's.

Only model-checked: the `TypeOK` of modules whose runs do not list it is proved only as
far as the proofs above need it; and all liveness, which is out of the prover's reach
together with `ENABLED`:
`WindowCloses`, `EveryChangeArrives`, `DeadLinkIsCut`, `CloseEndsUnlessSwallowed`,
`EndReachesConsumer`, `EveryCommitArrives`, `StreamsAgain`, `EveryCommitIsNudged`,
`NamedInTheEnd`, `EveryCallEnds`, `LeavesNothingBehind`.

## 5. Findings

Where the program does not do what its texts say. The first two are runs of their own.
Each of the others is left out of the run of its module, by what the property excuses
or by a constant of the configuration, and the configuration named shows it.

1. **Transactions across the watermark** (`rawfeed_straddle`). Changes before the
   insert position are suppressed; if their transaction commits after the Resync has
   been consumed, its commit finds an empty bucket and nothing is emitted. Logical
   decoding avoids this, because a slot waits for such transactions.
2. **Renamed tables** (`names_rename`). A name is cached for the session
   (`raw.py:61`), and a rename keeps the relfilenode: changes go out under the old
   name until the feed reconnects, or are dropped by `tables=`. `NamedByNow` excuses a
   table renamed after its name was looked up.
3. **`aclose()` can hang on Python 3.11** (`MCFeedService311.cfg`, `CloseEnds`).
   `connect()` uses `asyncio.wait_for` (`proto.py:170`), which in 3.11 can swallow a
   cancellation; the supervisor then streams on under a feed that is closing.
   `engine.py:124` describes this very trap and avoids it elsewhere. Without that
   swallowing `aclose()` ends (`CloseEndsUnlessSwallowed`), through the suppressed
   cancellation at `engine.py:489`, because the loop tests `_closing` again.
4. **An `aclose()` that is cancelled** (`MCFeedServiceAbandoned.cfg`,
   `NobodyBlockedOnceClosed`). Cancelled in its gather (`engine.py:283`) it never
   queues the sentinel, and a second `aclose()` returns at once: a consumer blocked in
   `next_item` stays there.
5. **Two consumers** (`MCFeedServiceTwo.cfg`, `NobodyBlockedForGood`). One sentinel
   wakes one of them (`engine.py:295`).
6. **A link that goes silent during setup blocks the feed** (`MCWalFeedSetup.cfg`,
   `SilentLinkIsLeft`). The commands before the stream have no timeout and the probe
   starts after them (`wal.py:213`), against `src/README.md:192`. `StreamsAgain` and
   `EveryCommitArrives` of the run `walfeed` excuse exactly this.
7. **A silent catalog connection blocks RawFeed** (`MCRawFeedCatalog.cfg`,
   `SilentCatalogIsLeft`). The lookup has no timeout and the probe aborts the stream
   only.
8. **A busy reader looks like a dead link** (`MCStatusFeedbackBusy.cfg`,
   `AbortMeansDead`). While `push_committed` awaits the catalog nothing is read, and
   the answers to the probe wait: a lookup longer than the liveness timeout costs a
   healthy stream, against the docstring at `proto.py:432`.
9. **Two-phase commit** (`MCCommitGatePrepare.cfg`, `NoCommitMissed`). `PREPARE` is
   taken for the commit, without its subtransactions, and `COMMIT PREPARED` for
   nothing: what becomes visible then is not nudged.
10. **Commit records precede visibility** (`MCCommitGateVisible.cfg`,
    `NoRefetchRaces`). PostgreSQL streams the record once it is flushed, and under
    synchronous replication long before the transaction is visible: the refetch may
    miss what it was nudged for, against `src/README.md:153`, "a refetch never races
    an open transaction".
11. **An entry page inside a segment switch** (`MCXLogWalkerSwitch.cfg`,
    `NeverDesyncs`). There the walker finds the tail of a record it has not seen, or
    zeros where it expects a header, and raises `WalSyncError`, against `xlog.py:145`,
    "any `page_floor`-aligned LSN is a valid entry point". The server flushes a switch
    as a whole, so the position is transient, and the reconnect finds a later one.
12. **`diagnose()` may raise** (`MCDoctorRaises.cfg`, `NeverRaises`). The queries of
    the plain connection are not in a `try` (`doctor.py:294`), against `doctor.py:5`,
    "nothing here raises to the caller".

`RawFeed!NoSilentGap` excuses finding 1 and one more miss that the code states at
`raw.py:41`: a change whose relfilenode a rewrite has replaced before it was looked up
for the first time. Both excuses are histories that name the table concerned, and end
with the next item that covers it.

## 6. Not modelled

* The output plugins' formats, LSNs, sizes, the fields of a server's error,
  `Event.count` and timestamps: data that no property here depends on. Passwords and
  the proofs of SCRAM likewise: `Walsender` has the order of the exchange.
* `Backoff`'s delays (a pause takes any time) and the command line, which is one
  consumer of one feed (`FeedService`) or one preflight (`Doctor`).
* Malformed WAL (bad magic, block sizes, record lengths): the WAL is a server's, and
  `NeverDesyncs` and `ReadAsWritten` say that none of it is taken for malformed.
* Changes in other databases, which RawFeed drops before anything is done with them.
* The length of the output queue, which is unbounded in the code.
* `start()` after `aclose()`: its tasks are nobody's to cancel. `FeedService` has the
  history (`late`) and its properties exclude it.

## 7. Plan

Done, in this order: the contract and the engine with their proofs, the probe with its
proofs, the lifecycle, the logical feed, the gate, the walker, the physical feed; then
the connection's exchange and its senders, the header walk, the resolver's names, the
preflight, visibility behind the commit record, cancelled closes; then the proofs of
the logical feed, the lifecycle, the gate, the physical feed, the names, the exchange
and the preflight, and at last of the framing and the header walk. No safety property
of a run is left without a proof. What could follow:

1. The framing inside a segment switch, should `xlog.py` come to accept such an entry
   (finding 11): the hypothesis of three theorems would go.
2. `start()` after `aclose()`, which `FeedService` records and excludes.
