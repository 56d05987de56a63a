----------------------------- MODULE MCCopying -----------------------------
EXTENDS Copying
=============================================================================
