------------------------------ MODULE XLogWalker -------------------------------
(***************************************************************************)
(* The record framing of the physical transport (xlog.py XLogWalker): a    *)
(* WAL of records that are aligned, cut by page headers and followed by a  *)
(* zero fill after a segment switch arrives in chunks of any size; the     *)
(* walker starts at a page boundary, in the middle of whatever record is   *)
(* there, and has to find every record that is news, whole and once.       *)
(*                                                                         *)
(* A byte of a record is abstracted to the pair of its record's number and *)
(* its place in it.  The buffer is the WAL from pos to sent.  Page address *)
(* and magic, which a well-formed WAL always has right, are abstracted to  *)
(* there being a header at all; the records' contents are CommitGate's.    *)
(***************************************************************************)
EXTENDS Integers, Sequences, FiniteSets, Functions

CONSTANTS
  Page,        \* BLCKSZ
  Short,       \* SHORT_PHD
  Long,        \* LONG_PHD, on the first page of a segment
  Seg,         \* seg_size
  Align,       \* ALIGN
  LenField,    \* the bytes of xl_tot_len
  EntryInSwitch,  \* whether the stream may begin inside a segment switch
  Sizes,       \* bound of the model: the lengths of records
  MaxRecords,  \* bound of the model: the records of a WAL
  Chunks       \* bound of the model: the sizes of a stream chunk

ASSUME WalkerAssumption ==
  /\ {Page, Short, Long, Seg, Align, LenField, MaxRecords} \subseteq Nat \ {0}
  /\ Short < Long /\ Long < Page
  /\ \A n \in {Page, Short, Long} : n % Align = 0
  /\ Seg % Page = 0
  /\ Sizes \subseteq {n \in Nat : n > LenField}
  /\ Chunks \subseteq Nat \ {0}
  /\ EntryInSwitch \in BOOLEAN

VARIABLES
  wal,       \* the records of the WAL, in place
  emitFrom,  \* emit_from
  sent,      \* the WAL has been fed up to here
  pos,       \* the WAL has been consumed up to here
  skip,      \* bytes to discard, headers not counted
  rawSkip,   \* raw_skip
  inRec,     \* rec is not None
  rec,       \* the bytes of the record in hand
  need,      \* rec_need, 0 for None
  firstPage, \* first_page
  events,    \* history: the records whose events were returned
  failed     \* a WalSyncError was raised

recVars == <<inRec, rec, need>>
vars == <<wal, emitFrom, sent, pos, skip, rawSkip, inRec, rec, need, firstPage,
          events, failed>>

------------------------------------------------------------------------------
\* The WAL (written by PostgreSQL).

\* The next multiple of n.
Up(p, n) == p + ((-p) % n)

HeaderSize(p) == IF p % Seg = 0 THEN Long ELSE Short

InHeader(p) == p % Page < HeaderSize(p - (p % Page))

\* The bytes from p to before q that are not in page headers.
Room(p, q) == Cardinality({x \in p..q - 1 : ~InHeader(x)})

\* Where n bytes that begin at p end.
End(p, n) == CHOOSE q \in p..p + n * Page : Room(p, q) = n /\ ~InHeader(q - 1)

\* The rest of its segment after a switch is zeros, page headers included.
Behind(r) == Up(r.end, IF r.switch THEN Seg ELSE Align)

\* The first byte for a record at or after p.
Begin(p) == IF p % Page = 0 THEN p + HeaderSize(p) ELSE p

Place(b, n, s) == [begin |-> b, len |-> n, end |-> End(b, n), switch |-> s]

Layouts[n \in 1..MaxRecords] ==
  IF n = 1
    THEN {<<Place(Long, l, s)>> : l \in Sizes, s \in BOOLEAN}
    ELSE {Append(w, Place(Begin(Behind(w[n - 1])), l, s)) :
            w \in Layouts[n - 1], l \in Sizes, s \in BOOLEAN}

Written == Behind(wal[Len(wal)])

Zeros(p) == \E r \in Range(wal) : r.switch /\ p \in r.end..Behind(r) - 1

\* The record the byte at p belongs to, 0 for none.
RecordAt(p) ==
  LET there == {k \in DOMAIN wal : p \in wal[k].begin..wal[k].end - 1}
  IN IF there = {} \/ InHeader(p) THEN 0 ELSE CHOOSE k \in there : TRUE

ByteAt(p) ==
  LET k == RecordAt(p) IN <<k, IF k = 0 THEN 0 ELSE Room(wal[k].begin, p) + 1>>

\* xlp_rem_len of the page at p: what is left of a record begun before it.
RemLen(p) ==
  LET open == {r \in Range(wal) : r.begin < p /\ p < r.end}
  IN IF open = {} THEN 0 ELSE LET r == CHOOSE r \in open : TRUE IN r.len - Room(r.begin, p)

\* A page inside a switch, behind the beginning of its record.
InSwitch(p) == \E r \in Range(wal) : r.switch /\ r.begin < p /\ p < Behind(r)

\* The feed attaches between two records: the watermark is the insert position, the
\* stream begins on a page at or before it that was flushed.  PostgreSQL flushes a
\* switch to the end of its segment, unless another backend flushes in the middle of it:
\* EntryInSwitch lets the stream begin there, in the record's tail or in its fill.
Init ==
  /\ wal \in Layouts[MaxRecords]
  /\ emitFrom \in {wal[k].begin : k \in DOMAIN wal}
  /\ pos \in {p \in 0..emitFrom : p % Page = 0 /\ (EntryInSwitch \/ ~InSwitch(p))}
  /\ sent = pos
  /\ skip = 0
  /\ rawSkip = 0
  /\ inRec = FALSE
  /\ rec = <<>>
  /\ need = 0
  /\ firstPage = TRUE
  /\ events = <<>>
  /\ failed = FALSE

------------------------------------------------------------------------------
\* Seeded faults.

\* A record is read on across the next page header.
BufferIgnoresPages == sent - pos

\* Padding and tails being skipped are not taken for a record in flight.
InFlightIfRecord == inRec

\* The first record of a stream is taken to begin on its first page.
NoTailOnFirstPage(p) == 0

\* A record is news if its end is not before the watermark's page.
NewsFromItsPage(q) == q > emitFrom - (emitFrom % Page)

\* The zero fill is only skipped behind a switch whose record is news.
FillBehindNews(k, q) == IF wal[k].switch /\ q > emitFrom THEN (-q) % Seg ELSE 0

------------------------------------------------------------------------------
\* feed() has drained what it can: the buffer is empty or ends inside a header.
Drained ==
  \/ failed
  \/ pos = sent
  \/ rawSkip = 0 /\ pos % Page = 0 /\ sent - pos < HeaderSize(pos)

\* A chunk arrives.
Feed(n) ==
  /\ Drained
  /\ ~failed
  /\ sent < Written
  /\ sent' = IF sent + n < Written THEN sent + n ELSE Written
  /\ UNCHANGED <<wal, emitFrom, pos, skip, rawSkip, recVars, firstPage, events, failed>>

Least(a, b) == IF a < b THEN a ELSE b

\* What of the buffer lies on the current page.
Avail == Least(sent - pos, Page - (pos % Page))

InLoop == ~Drained /\ UNCHANGED <<wal, emitFrom, sent>>

\* On a page, past its header, with nothing left to skip.
AtRecords == rawSkip = 0 /\ pos % Page # 0 /\ skip = 0

\* Zero fill has no page headers.
SkipZeros ==
  /\ InLoop
  /\ rawSkip > 0
  /\ LET take == Least(rawSkip, sent - pos)
     IN pos' = pos + take /\ rawSkip' = rawSkip - take
  /\ UNCHANGED <<skip, recVars, firstPage, events, failed>>

\* Whether the continuation flag has to be set.
InFlight == inRec \/ skip > 0

\* xlp_rem_len of the first page.
TailInFlight(p) == RemLen(p)

TakePageHeader ==
  /\ InLoop
  /\ rawSkip = 0
  /\ pos % Page = 0
  /\ IF Zeros(pos) \/ (~firstPage /\ (RemLen(pos) > 0) # InFlight)
       THEN failed' = TRUE /\ UNCHANGED <<pos, skip, firstPage>>
       ELSE /\ pos' = pos + HeaderSize(pos)
            /\ skip' = IF firstPage THEN TailInFlight(pos) ELSE skip
            /\ firstPage' = FALSE
            /\ UNCHANGED failed
  /\ UNCHANGED <<rawSkip, recVars, events>>

SkipBytes ==
  /\ InLoop
  /\ rawSkip = 0 /\ pos % Page # 0 /\ skip > 0
  /\ LET take == Least(skip, Avail)
     IN pos' = pos + take /\ skip' = skip - take
  /\ UNCHANGED <<rawSkip, recVars, firstPage, events, failed>>

\* Between records: pad to the alignment, or begin one.
BeginRecord ==
  /\ InLoop
  /\ AtRecords
  /\ ~inRec
  /\ IF pos % Align # 0
       THEN skip' = (-pos) % Align /\ UNCHANGED recVars
       ELSE inRec' = TRUE /\ rec' = <<>> /\ need' = 0 /\ UNCHANGED skip
  /\ UNCHANGED <<pos, rawSkip, firstPage, events, failed>>

Taken(n) == rec \o [i \in 1..n |-> ByteAt(pos + i - 1)]

\* The length is read; anything but a record's own is implausible.
TakeLength ==
  /\ InLoop
  /\ AtRecords
  /\ inRec /\ need = 0
  /\ LET n == Least(LenField - Len(rec), Avail)
         k == Taken(n)[1][1]
     IN /\ rec' = Taken(n)
        /\ pos' = pos + n
        /\ IF Len(rec) + n < LenField
             THEN UNCHANGED <<need, failed>>
             ELSE IF \E j \in DOMAIN wal : rec' = [i \in 1..LenField |-> <<j, i>>]
                    THEN need' = wal[k].len /\ UNCHANGED failed
                    ELSE failed' = TRUE /\ UNCHANGED need
  /\ UNCHANGED <<skip, rawSkip, inRec, firstPage, events>>

\* self.pos > self.emit_from
IsNews(q) == q > emitFrom

\* parse_record: a switch arms raw_skip, whether or not its record is news.
FillBehind(k, q) == IF wal[k].switch THEN (-q) % Seg ELSE 0

\* A record completes: it is parsed and its event returned if it is news.
TakeRecord ==
  /\ InLoop
  /\ AtRecords
  /\ inRec /\ need > 0
  /\ LET n == Least(need - Len(rec), Avail)
         k == rec[1][1]
     IN /\ pos' = pos + n
        /\ IF Len(rec) + n = need
             THEN /\ inRec' = FALSE /\ rec' = <<>> /\ need' = 0
                  /\ events' = IF IsNews(pos + n) THEN Append(events, Taken(n)) ELSE events
                  /\ rawSkip' = FillBehind(k, pos + n)
             ELSE /\ rec' = Taken(n)
                  /\ UNCHANGED <<inRec, need, events, rawSkip>>
  /\ UNCHANGED <<skip, firstPage, failed>>

Next ==
  \/ \E n \in Chunks : Feed(n)
  \/ SkipZeros
  \/ TakePageHeader
  \/ SkipBytes
  \/ BeginRecord
  \/ TakeLength
  \/ TakeRecord

Spec == Init /\ [][Next]_vars

------------------------------------------------------------------------------
TypeOK ==
  /\ wal \in Seq([begin : Nat, len : Sizes, end : Nat, switch : BOOLEAN])
  /\ sent \in 0..Written
  /\ pos \in 0..sent
  /\ skip \in Nat
  /\ rawSkip \in 0..Seg
  /\ inRec \in BOOLEAN
  /\ rec \in Seq((DOMAIN wal) \X Nat)
  /\ need \in Sizes \cup {0}
  /\ firstPage \in BOOLEAN
  /\ failed \in BOOLEAN

\* A well-formed WAL never desynchronizes the walker, wherever the pages, chunks and
\* segment switches fall and on whatever page it enters ("any
\* page_floor-aligned LSN is a valid entry point").
NeverDesyncs == ~failed

\* The bytes of record k.
Bytes(k) == [i \in 1..wal[k].len |-> <<k, i>>]

\* The records that are news.
News == {k \in DOMAIN wal : wal[k].begin >= emitFrom}

\* What is returned is whole records, in order, from the first that is news: none is
\* cut, repeated, left out or older than the watermark ("records already written when
\* the caller attached are history, not news").
ReturnsTheNews ==
  \A i \in DOMAIN events : events[i] = Bytes(i + Len(wal) - Cardinality(News))

\* No record is held back: when feed() returns, every one that is news and has arrived
\* in full has been returned, however the stream was cut.
NothingHeldBack == Drained => Len(events) = Cardinality({k \in News : wal[k].end <= sent})

\* The inductive invariant.  The WAL is as PostgreSQL lays it out; behind the first k
\* records, and what fills the space behind them, comes the next.
After(k) == IF k = 0 THEN 0 ELSE Behind(wal[k])

Laid ==
  /\ DOMAIN wal = 1..MaxRecords /\ Len(wal) = MaxRecords
  /\ \A k \in DOMAIN wal :
       /\ wal[k].len \in Sizes /\ wal[k].switch \in BOOLEAN
       /\ wal[k] = Place(Begin(After(k - 1)), wal[k].len, wal[k].switch)

\* The walker is never inside a page header.
OffHeaders == rawSkip = 0 /\ InHeader(pos) => pos % Page = 0

\* Where it stands when k records are behind it: on the page it enters by,
Attaching(k) ==
  /\ firstPage /\ ~inRec /\ skip = 0 /\ rawSkip = 0
  /\ pos % Page = 0 /\ pos <= emitFrom /\ ~InSwitch(pos)
  /\ k > 0 => wal[k].end <= pos
  /\ k < Len(wal) => pos < wal[k + 1].end

\* in the tail of the record that was under way there, which is history,
InTail(k) ==
  /\ ~firstPage /\ ~inRec /\ rawSkip = 0
  /\ k < Len(wal)
  /\ LET r == wal[k + 1] IN
       /\ ~r.switch /\ r.begin < emitFrom
       /\ r.begin < pos
       /\ skip > 0 /\ skip = r.len - Room(r.begin, pos)

\* in the padding to the next record,
InPadding(k) ==
  /\ ~firstPage /\ ~inRec /\ rawSkip = 0
  /\ k > 0
  /\ wal[k].end <= pos /\ pos % Page # 0
  /\ skip \in 1..Align - 1 /\ pos + skip = After(k)

\* in the zeros behind a switch,
InFill(k) ==
  /\ ~firstPage /\ ~inRec /\ skip = 0
  /\ k > 0
  /\ wal[k].switch /\ wal[k].end <= pos
  /\ rawSkip \in 1..Seg - 1 /\ pos + rawSkip = After(k)

\* at the end of a record, of what follows it, or of the page header there,
Between(k) ==
  /\ ~firstPage /\ ~inRec /\ skip = 0 /\ rawSkip = 0
  /\ \/ k > 0 /\ ~wal[k].switch /\ pos = wal[k].end
     \/ pos \in {After(k), Begin(After(k))}

\* or in the next record, with all of it in hand that lies before pos.
Reading(k) ==
  /\ ~firstPage /\ inRec /\ skip = 0 /\ rawSkip = 0
  /\ k < Len(wal)
  /\ LET r == wal[k + 1]
         n == Room(r.begin, pos)
     IN /\ r.begin <= pos
        /\ rec = [i \in 1..n |-> <<k + 1, i>>]
        /\ (need = 0 /\ n < LenField) \/ (need = r.len /\ n \in LenField..r.len - 1)

Stands(k) == Attaching(k) \/ InTail(k) \/ InPadding(k) \/ InFill(k) \/ Between(k) \/ Reading(k)

\* The record the watermark is at; what has been returned when k records are behind.
First == CHOOSE k \in DOMAIN wal : wal[k].begin = emitFrom

Returned(k) == [i \in 1..k + 1 - First |-> Bytes(i + First - 1)]

WalkerIInv ==
  /\ Laid
  /\ emitFrom \in {wal[k].begin : k \in DOMAIN wal}
  /\ sent \in 0..Written /\ pos \in 0..sent
  /\ NeverDesyncs
  /\ OffHeaders
  /\ \E k \in 0..Len(wal) : Stands(k) /\ events = Returned(k)
==============================================================================
