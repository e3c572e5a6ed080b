------------------------------ MODULE MCBRLink ------------------------------
EXTENDS BRLink
=============================================================================
