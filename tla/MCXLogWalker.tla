----------------------------- MODULE MCXLogWalker ------------------------------
\* xlog.py on a small instance: XLogWalker on a WAL with pages of 8 bytes, two to a
\* segment, and RecordWalk over records of up to two blocks, and outcomes long enough for
\* the long header of the main data.  The walk gets a copy of a record's bytes and shares
\* no state with the framing: a behaviour frames a WAL or walks one record.
EXTENDS XLogWalker, RecordWalk

\* A record that never nudges, and a WAL of which nothing has arrived.
Dull == Record("other", <<>>, <<>>, <<>>)
Quiet == CHOOSE w \in Layouts[MaxRecords] : TRUE

MCInit ==
  \/ record = Dull /\ WalkInit /\ Init
  \/ wal = Quiet /\ emitFrom = Long /\ pos = 0 /\ Init /\ WalkInit

MCNext ==
  \/ record = Dull /\ Next /\ UNCHANGED walkVars
  \/ sent = 0 /\ WalkNext /\ UNCHANGED vars

MCSpec == MCInit /\ [][MCNext]_<<vars, walkVars>>
==============================================================================
