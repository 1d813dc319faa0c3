----------------------------- MODULE MCWalsender ------------------------------
\* Walsender with two commands to a session.
EXTENDS Walsender
==============================================================================
