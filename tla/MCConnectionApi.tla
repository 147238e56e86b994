---------------------------- MODULE MCConnectionApi ----------------------------
EXTENDS ConnectionApi, TLC

Symmetric == Permutations(Sockets) \cup Permutations(Keys)
==============================================================================
