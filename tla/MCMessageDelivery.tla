---------------------------- MODULE MCMessageDelivery ----------------------------
EXTENDS MessageDelivery
==============================================================================
