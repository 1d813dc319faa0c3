----------------------------- MODULE MCCommitGate ------------------------------
\* CommitGate with two transactions, one of which has a subtransaction.
EXTENDS CommitGate

CONSTANTS t1, t2, s1, none

MCXid == {t1, t2, s1}

MCParent == [x \in MCXid |-> IF x = s1 THEN t1 ELSE none]
==============================================================================
