----------------------------- MODULE MCGuardian -----------------------------
EXTENDS Guardian
=============================================================================
