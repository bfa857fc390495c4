------------------------------ MODULE MCCatcher ------------------------------
EXTENDS Catcher, TLC

CONSTANTS f1, f2, t1, t2, d1, d2

\* two tablespace files with distinct space ids
MCSpaceOf == (f1 :> 1) @@ (f2 :> 2)
\* a single tablespace file
MCSpaceOne == f1 :> 1
=============================================================================
