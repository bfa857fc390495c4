--------------------------- MODULE MCCatcherFilter ---------------------------
EXTENDS CatcherFilter

CONSTANTS f1, o1, t1, t2, d1, d2
=============================================================================
