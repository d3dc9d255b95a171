--------------------------- MODULE MCReplication ---------------------------
EXTENDS Replication
============================================================================
