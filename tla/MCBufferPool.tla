---------------------------- MODULE MCBufferPool ----------------------------
(* Model values and client layouts for checking BufferPool.              *)
EXTENDS BufferPool

CONSTANTS a1, a2, a3, t1, t2

\* The page_id of each address: none is page 0
MCPageNo == (a1 :> 1) @@ (a2 :> 2) @@ (a3 :> 3)

\* One do_apply thread over three pages: the shipped single applier
MCRoleApply == [t \in {t1} |-> "apply"]
MCTargetsApply == [t \in {t1} |-> {a1, a2, a3}]

\* A do_apply thread and a CopyPage thread on disjoint pages
MCRoleApplyCopy == (t1 :> "apply") @@ (t2 :> "copy")
MCTargetsDisjoint == (t1 :> {a1, a2}) @@ (t2 :> {a3})

\* A do_apply thread over a cached, an evicted and a new page, and a
\* CopyPage thread on a third page
MCTargetsMixed == (t1 :> {a1, a3}) @@ (t2 :> {a2})

\* A do_apply thread and a CopyPage thread on the same page
MCTargetsShared == (t1 :> {a1}) @@ (t2 :> {a1})

\* Two do_apply threads (a worker and a page reader) on the same page
MCRoleTwoApply == (t1 :> "apply") @@ (t2 :> "apply")
=============================================================================
