------------------------------ MODULE MCRawFeed -------------------------------
\* RawFeed on a small instance: the configurations give the constants their values.
EXTENDS RawFeed
==============================================================================
