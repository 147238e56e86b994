------------------------------ MODULE MCKeepAlive ------------------------------
EXTENDS KeepAlive
==============================================================================
