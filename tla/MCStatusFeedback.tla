--------------------------- MODULE MCStatusFeedback ----------------------------
\* StatusFeedback on a small instance: the tightest liveness timeout the
\* assumptions allow, a slow server and a late event loop.
EXTENDS StatusFeedback
==============================================================================
