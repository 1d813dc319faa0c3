------------------------------ MODULE MCEngine -------------------------------
\* Engine on a small instance: MCEngine.cfg gives the constants their values.
EXTENDS Engine
==============================================================================
