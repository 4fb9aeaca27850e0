--------------------------- MODULE MCEntityIndex ---------------------------
EXTENDS EntityIndex
=============================================================================
