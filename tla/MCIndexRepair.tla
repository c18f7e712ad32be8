--------------------------- MODULE MCIndexRepair ---------------------------
EXTENDS IndexRepair
=============================================================================
