------------------------------ MODULE MCWalFeed -------------------------------
\* WalFeed on a small instance: MCWalFeed.cfg gives the constants their values.
EXTENDS WalFeed
==============================================================================
