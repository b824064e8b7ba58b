--------------------------- MODULE MCReleaseCycle ---------------------------
EXTENDS ReleaseCycle
=============================================================================
