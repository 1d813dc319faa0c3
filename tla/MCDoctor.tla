------------------------------- MODULE MCDoctor -------------------------------
\* Doctor with the two output plugins.
EXTENDS Doctor
==============================================================================
