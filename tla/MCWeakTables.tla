---------------------------- MODULE MCWeakTables ----------------------------
EXTENDS WeakTables

Residues == 0..1
=============================================================================
