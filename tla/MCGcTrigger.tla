----------------------------- MODULE MCGcTrigger -----------------------------
EXTENDS GcTrigger
=============================================================================
