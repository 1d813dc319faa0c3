------------------------------ MODULE RecordWalk -------------------------------
(***************************************************************************)
(* What the physical transport makes of one whole WAL record (xlog.py      *)
(* parse_record, walk_headers, parse_xact, RecordCursor): a walk over the  *)
(* headers of its blocks, whose contents lie behind the last header and    *)
(* are never read, to the relation that changed; or the main data of a     *)
(* transaction's outcome, where the subtransactions are.                   *)
(*                                                                         *)
(* A record is laid out by PostgreSQL, which knows the size of every       *)
(* header; the walk knows only what it has read.  A byte is abstracted to  *)
(* the header or section that begins there; anywhere else there is         *)
(* garbage, which ends the walk.  Total are the real ones.                 *)
(* "change" stands for the five operations that change rows, "other" for   *)
(* every record that never nudges.                                         *)
(***************************************************************************)
EXTENDS Integers, Sequences, Functions

CONSTANTS
  Rel,        \* relations
  NoRel,      \* None
  MaxBlocks,  \* bound of the model: the blocks of a record
  DataSizes,  \* bound of the model: the data of a block, of a change's main data
  SubCounts   \* bound of the model: how many subtransactions end with one

ASSUME RecordAssumption ==
  /\ NoRel \notin Rel
  /\ MaxBlocks \in Nat \ {0}
  /\ DataSizes \cup SubCounts \subseteq Nat

VARIABLES
  record,     \* the record
  off,        \* RecordCursor.off
  datatotal,  \* the data declared by the headers read so far
  mainLen,    \* main_len
  locator,    \* the relation of the first block of a main fork
  last,       \* the relation of the last block
  pc,         \* "record" (not looked at), "walking", "parsed", "failed" (WalSyncError)
  event       \* what parse_record returned

walkVars == <<record, off, datatotal, mainLen, locator, last, pc, event>>

RecHdr == 24

None == [kind |-> "none"]
Change(r) == [kind |-> "change", rel |-> r]
TxnEnd(c, n) == [kind |-> "end", committed |-> c, subxids |-> n]

------------------------------------------------------------------------------
\* The record (assembled by PostgreSQL).

\* An image may leave out a hole, be compressed, or both; its size is any.
Image == {"none", "plain", "hole", "compressed", "both"}
ImageSize == 9

Block == [kind : {"block"}, rel : Rel, fork : {"main", "other"}, image : Image, data : DataSizes]

Blocks == UNION {[1..n -> Block] : n \in 1..MaxBlocks}

\* Behind the blocks come the origin and the top-level transaction, then the main data.
Marks == {<<>>, <<"origin">>, <<"toplevel">>, <<"origin", "toplevel">>}

MainHeader(n) ==
  IF n = 0 THEN <<>> ELSE <<[kind |-> IF n < 256 THEN "short" ELSE "long", len |-> n]>>

Headers(blocks, marks, n) ==
  blocks \o [i \in DOMAIN marks |-> [kind |-> marks[i]]] \o MainHeader(n)

\* The main data of an outcome: the time, the flags if any is set, then a section each.
Section(name, size) == [name |-> name, size |-> size]

Outcome(db, n, more) ==
  <<Section("time", 8)>>
  \o (IF db \/ n > 0 \/ more THEN <<Section("xinfo", 4)>> ELSE <<>>)
  \o (IF db THEN <<Section("dbinfo", 8)>> ELSE <<>>)
  \o (IF n > 0 THEN <<Section("subxacts", 4 + 4 * n)>> ELSE <<>>)
  \o (IF more THEN <<Section("more", 24)>> ELSE <<>>)

\* The sum of the first n of f.
SumTo(f, n) ==
  LET up[m \in Nat] == IF m = 0 THEN 0 ELSE up[m - 1] + f[m] IN up[n]

SizeTo(main, n) == SumTo([i \in DOMAIN main |-> main[i].size], n)

Total(main) == SizeTo(main, Len(main))

Record(op, blocks, marks, main) ==
  [op |-> op, headers |-> Headers(blocks, marks, Total(main)), main |-> main]

Records ==
  {Record("change", b, m, <<Section("row", n)>>) : b \in Blocks, m \in Marks, n \in DataSizes}
  \cup {Record(op, <<>>, m, Outcome(db, n, more)) :
          op \in {"commit", "abort", "prepare"}, m \in Marks,
          db \in BOOLEAN, n \in SubCounts, more \in BOOLEAN}
  \cup {Record("other", b, <<>>, <<>>) : b \in {<<>>} \cup {<<b>> : b \in Block}}

\* A block has the relation of the one before it and leaves it out.
SameRel(i) ==
  /\ i > 1
  /\ record.headers[i - 1].kind = "block"
  /\ record.headers[i].rel = record.headers[i - 1].rel

SizeOf(i) ==
  LET h == record.headers[i] IN
  CASE h.kind = "block" -> 8 + (IF SameRel(i) THEN 0 ELSE 12)
                             + (IF h.image = "none" THEN 0 ELSE IF h.image = "both" THEN 7 ELSE 5)
    [] h.kind = "short" -> 2
    [] h.kind = "long" -> 5
    [] h.kind = "origin" -> 3
    [] h.kind = "toplevel" -> 5

DataOf(h) ==
  CASE h.kind = "block" -> h.data + (IF h.image = "none" THEN 0 ELSE ImageSize)
    [] h.kind \in {"short", "long"} -> h.len
    [] OTHER -> 0

\* Where header i begins, and behind the last one the data.
At(i) == RecHdr + SumTo([j \in DOMAIN record.headers |-> SizeOf(j)], i - 1)

DataAt == At(Len(record.headers) + 1)

\* The data of the first n headers.
DataTo(n) == SumTo([i \in DOMAIN record.headers |-> DataOf(record.headers[i])], n)

Length == DataAt + DataTo(Len(record.headers))

\* Where section i of the main data begins: it comes last.
SectionAt(i) == Length - Total(record.main) + SizeTo(record.main, i - 1)

Has(name) == \E s \in Range(record.main) : s.name = name

------------------------------------------------------------------------------
WalkInit ==
  /\ record \in Records
  /\ off = RecHdr
  /\ datatotal = 0
  /\ mainLen = 0
  /\ locator = NoRel
  /\ last = NoRel
  /\ pc = "record"
  /\ event = None

------------------------------------------------------------------------------
\* Seeded faults.

\* Whatever fork it belongs to, the first block names the relation.
IsMainOfAny(h) == TRUE

\* Every compressed image is taken to have the header of its hole.
ImageReadAnyHole(h) == IF h.image = "none" THEN 0 ELSE IF h.image = "plain" THEN 5 ELSE 7

\* A block that leaves out its relation is read as if it had one.
LocatorReadAlways(i) == 12

\* The dbinfo section is not skipped.
SubxactsAtFixed == Length - mainLen + 12

------------------------------------------------------------------------------
\* The walk.

\* parse_record: only the heap's changes and the outcomes are walked.
Dispatch ==
  /\ pc = "record"
  /\ pc' = IF record.op \in {"change", "commit", "abort"} THEN "walking" ELSE "parsed"
  /\ event' = IF record.op = "prepare" THEN TxnEnd(TRUE, 0) ELSE None
  /\ UNCHANGED <<record, off, datatotal, mainLen, locator, last>>

Remaining == Length - off

Fails == pc' = "failed" /\ UNCHANGED <<record, off, datatotal, mainLen, locator, last, event>>

\* The bytes read of an image's header, and of a relation.
ImageRead(h) ==
  IF h.image = "none" THEN 0 ELSE 2 + 2 + 1 + (IF h.image = "both" THEN 2 ELSE 0)

LocatorRead(i) == IF SameRel(i) THEN 0 ELSE 12

IsMain(h) == h.fork = "main"

\* A block: id, flags, length, image, relation, block number.
WalkBlock(i) ==
  LET h == record.headers[i]
      this == IF SameRel(i) THEN last ELSE h.rel
  IN /\ h.kind = "block"
     /\ off' = off + 1 + 1 + 2 + ImageRead(h) + LocatorRead(i) + 4
     /\ datatotal' = datatotal + h.data + (IF h.image = "none" THEN 0 ELSE ImageSize)
     /\ last' = this
     /\ locator' = IF locator = NoRel /\ IsMain(h) THEN this ELSE locator
     /\ UNCHANGED mainLen

\* The main data's length.
WalkMain(i) ==
  LET h == record.headers[i] IN
  /\ h.kind \in {"short", "long"}
  /\ off' = off + 1 + (IF h.kind = "short" THEN 1 ELSE 4)
  /\ mainLen' = h.len
  /\ datatotal' = datatotal + h.len
  /\ UNCHANGED <<locator, last>>

WalkMark(i) ==
  LET h == record.headers[i] IN
  /\ h.kind \in {"origin", "toplevel"}
  /\ off' = off + 1 + (IF h.kind = "origin" THEN 2 ELSE 4)
  /\ UNCHANGED <<datatotal, mainLen, locator, last>>

\* One turn of the loop, which ends when what is left is what was declared.
Walk ==
  /\ pc = "walking"
  /\ Remaining > datatotal
  /\ IF \A i \in DOMAIN record.headers : At(i) # off
       THEN Fails
       ELSE /\ \E i \in DOMAIN record.headers :
                 At(i) = off /\ (WalkBlock(i) \/ WalkMain(i) \/ WalkMark(i))
            /\ UNCHANGED <<record, pc, event>>

\* Where parse_xact looks for the subtransactions.
SubxactsAt == Length - mainLen + 12 + (IF Has("dbinfo") THEN 8 ELSE 0)

\* What is taken for their count, if the flags say that there is one: garbage is any.
Subxids ==
  LET there == {i \in DOMAIN record.main : record.main[i].name = "subxacts" /\ SectionAt(i) = SubxactsAt}
  IN IF ~Has("subxacts") THEN {0}
     ELSE IF there = {} THEN SubCounts
     ELSE {(record.main[i].size - 4) \div 4 : i \in there}

\* The walk is over: parse_heap and parse_xact make the event.
Parse ==
  /\ pc = "walking"
  /\ Remaining <= datatotal
  /\ IF Remaining # datatotal
       THEN Fails
       ELSE /\ pc' = "parsed"
            /\ IF record.op = "change"
                 THEN event' = IF locator = NoRel THEN None ELSE Change(locator)
                 ELSE \E n \in Subxids : event' = TxnEnd(record.op = "commit", n)
            /\ UNCHANGED <<record, off, datatotal, mainLen, locator, last>>

WalkNext == Dispatch \/ Walk \/ Parse

WalkSpec == WalkInit /\ [][WalkNext]_walkVars

------------------------------------------------------------------------------
\* The types of the variables; the cursor stays in the record.
WalkTypeOK ==
  /\ record \in Records
  /\ off \in RecHdr..Length
  /\ datatotal \in 0..Length
  /\ mainLen \in 0..Length
  /\ {locator, last} \subseteq Rel \cup {NoRel}
  /\ pc \in {"record", "walking", "parsed", "failed"}
  /\ event.kind \in {"none", "change", "end"}

\* The walk never loses its way in a record PostgreSQL assembled ("the final
\* remaining != datatotal check proves the walk stayed in sync", walk_headers).
NeverLost == pc # "failed"

\* A change of rows is reported under the relation of its first block of a main fork,
\* however many blocks, forks, images and shared relations precede and follow it.
ChangeIsFound ==
  pc = "parsed" /\ record.op = "change" =>
    LET main == {i \in DOMAIN record.headers :
                   record.headers[i].kind = "block" /\ record.headers[i].fork = "main"}
    IN event = IF main = {} THEN None
               ELSE Change(record.headers[CHOOSE i \in main : \A j \in main : i <= j].rel)

\* A commit or abort ends the subtransactions its record names, all of them and no
\* others, whatever sections surround them (parse_xact: "the dbinfo section must be
\* skipped over to reach the subxid array").
OutcomeIsFound ==
  pc = "parsed" /\ record.op \in {"commit", "abort"} =>
    \E n \in SubCounts \cup {0} :
      /\ event = TxnEnd(record.op = "commit", n)
      /\ {s \in Range(record.main) : s.name = "subxacts"}
           = IF n = 0 THEN {} ELSE {Section("subxacts", 4 + 4 * n)}

\* The framing's records mean what PostgreSQL wrote: the walk gets through each of them
\* and makes the right event of it.
ReadAsWritten == NeverLost /\ ChangeIsFound /\ OutcomeIsFound

\* The inductive invariant.  With the first i - 1 headers read, the next begins at off:
\* what they declared is the data that lies behind them, the main data is that of the
\* last header,
MainBlock(j) == record.headers[j].kind = "block" /\ record.headers[j].fork = "main"

ReadTo(i) ==
  /\ off = At(i)
  /\ datatotal = DataTo(i - 1)
  /\ mainLen = IF i = Len(record.headers) + 1 THEN Total(record.main) ELSE 0
  /\ i > 1 /\ record.headers[i - 1].kind = "block" => last = record.headers[i - 1].rel
  /\ \/ locator = NoRel /\ \A j \in 1..i - 1 : ~MainBlock(j)
     \/ \E k \in 1..i - 1 :
          /\ MainBlock(k) /\ locator = record.headers[k].rel
          /\ \A j \in 1..k - 1 : ~MainBlock(j)

\* and a walk that is over has found what was written.
WalkIInv ==
  /\ record \in Records
  /\ pc = "record" => ReadTo(1)
  /\ pc = "walking" => /\ record.op \in {"change", "commit", "abort"}
                       /\ \E i \in 1..Len(record.headers) + 1 : ReadTo(i)
  /\ ReadAsWritten
==============================================================================
