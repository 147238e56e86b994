----------------------------- MODULE MCDataContext -----------------------------
EXTENDS DataContext
==============================================================================
