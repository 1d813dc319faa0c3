------------------------------ MODULE MCRelNames ------------------------------
\* RelNames with two relations and three names, one of them in a system schema.
EXTENDS RelNames
==============================================================================
