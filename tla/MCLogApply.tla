----------------------------- MODULE MCLogApply -----------------------------
(* Model-checking instances of LogApply.  Page a1 exists on disk with   *)
(* FIL_PAGE_LSN 1, so entries below LSN 1 are already in its image and   *)
(* are skipped; page a2 does not exist yet and is created by NewPage;    *)
(* page a3 belongs to a tablespace DataPageGroup does not know.          *)
EXTENDS LogApply

CONSTANTS a1, a2, a3

MCInitLsn2 == [a \in {a1, a2} |-> IF a = a1 THEN 1 ELSE 0]
MCInitLsn3 == [a \in {a1, a2, a3} |-> IF a = a1 THEN 1 ELSE 0]
=============================================================================
