----------------------------- MODULE ApplyIndex -----------------------------
(***************************************************************************)
(* The apply index of log_log.h: a FIFO list of bounded segments, each a  *)
(* map from page address to the list of pending redo log entries of that  *)
(* page.  The log parser appends with InsertBack, the apply workers drain *)
(* the front segment with ExtractFrontHint/ExtractFront, and an external  *)
(* page reader pulls a page's entries out of every segment with Search.   *)
(*                                                                         *)
(* Every operation of ApplyIndex runs under the index-wide lock_, so each *)
(* is one atomic step here; the condition-variable waits inside           *)
(* ExtractFront and ExtractFrontHint are modelled by the thread modules   *)
(* that call them (LogApply).  This module gives the operations as        *)
(* operators over an index value, and a specification of the index used   *)
(* by one client at a time.                                                *)
(***************************************************************************)
EXTENDS Naturals, Sequences, SequencesExt

CONSTANTS
    Addrs,      \* page addresses (space_id, page_id), as model values
    BatchSize,  \* APPLY_BATCH_SIZE: log bytes one segment accepts
    Lens,       \* the byte lengths a log entry may have
    LogTypes,   \* the LOG_TYPE tags a log entry may carry, as model values
    MaxLsn      \* bound: the log parser stops producing at this LSN

ASSUME BatchSize \in Nat \ {0} /\ Lens \subseteq Nat \ {0} /\ MaxLsn \in Nat

VARIABLES
    index,      \* ApplyIndex::index_, a sequence of segments
    nextLsn     \* the LSN the log parser gives the next entry

Entry == [addr : Addrs, lsn : Nat, len : Nat, type : LogTypes]

(* IndexSegment: index_segment_ with an absent key as the empty list (a   *)
(* present key always holds a non-empty list), and total_log_len_.       *)
Segment == [logs : [Addrs -> Seq(Entry)], total : Nat]

NewSegment == [logs |-> [a \in Addrs |-> <<>>], total |-> 0]

\* IndexSegment::Full
SegFull(s) == s.total >= BatchSize

\* IndexSegment::Empty
SegEmpty(s) == \A a \in Addrs : s.logs[a] = <<>>

(* IndexSegment::Insert: refuses only when already full, so the entry    *)
(* that crosses the budget is accepted.                                  *)
SegInsert(s, e) ==
    IF SegFull(s) THEN s
    ELSE [s EXCEPT !.logs[e.addr] = Append(@, e), !.total = @ + e.len]

\* IndexSegment::ExtractLog: the list moves out and the key is erased
SegExtract(s, a) == [s EXCEPT !.logs[a] = <<>>]

\* IndexSegment::Hint: the addresses the segment holds
SegHint(s) == {a \in Addrs : s.logs[a] # <<>>}

(* ApplyIndex::InsertBack: open a segment if there is none or the tail   *)
(* is full, then insert into the tail.                                   *)
InsertBackIdx(idx, e) ==
    LET opened  == IF idx = <<>> THEN <<NewSegment>> ELSE idx
        grown   == IF SegFull(Last(opened)) THEN Append(opened, NewSegment)
                   ELSE opened
    IN  [grown EXCEPT ![Len(grown)] = SegInsert(@, e)]

\* Mutant: InsertBack never signals index_not_empty_cond_
SignalsNotEmptyNever(idx) == FALSE

\* Mutant: the full test is made before the insert instead of after it
SignalsFrontFullBefore(idx, e) == idx # <<>> /\ SegFull(Last(idx))

(* InsertBack signals index_not_empty_cond_ when it found the index      *)
(* empty, and front_full_cond_ when the tail is full after the insert.   *)
SignalsNotEmpty(idx) == idx = <<>>
SignalsFrontFull(idx, e) == SegFull(Last(InsertBackIdx(idx, e)))

\* Mutant: the emptied front segment is never erased
DeleteFrontSegmentKeep(idx) == idx

\* ApplyIndex::DeleteFrontSegment: drop the front segment once empty
DeleteFrontSegment(idx) ==
    IF idx # <<>> /\ SegEmpty(Head(idx)) THEN Tail(idx) ELSE idx

\* Mutant: ExtractLog copies the list instead of moving it out
ExtractFrontIdxCopy(idx, a) == DeleteFrontSegment(idx)

(* ApplyIndex::ExtractFront, past its wait for a non-empty index: take   *)
(* the address's list out of the FRONT segment only.                     *)
ExtractFrontList(idx, a) == Head(idx).logs[a]
ExtractFrontIdx(idx, a) ==
    DeleteFrontSegment([idx EXCEPT ![1] = SegExtract(@, a)])

\* Mutant: Search copies the lists instead of extracting them
SearchIdxCopy(idx, a) == idx

\* Mutant: Search erases the segments it empties
SearchIdxErase(idx, a) ==
    SelectSeq([i \in DOMAIN idx |-> SegExtract(idx[i], a)],
              LAMBDA s : ~SegEmpty(s))

(* ApplyIndex::Search: take the address's list out of every segment,    *)
(* front to back, without removing segments that become empty.           *)
SearchLists(idx, a) ==
    SelectSeq([i \in DOMAIN idx |-> idx[i].logs[a]], LAMBDA l : l # <<>>)
SearchIdx(idx, a) == [i \in DOMAIN idx |-> SegExtract(idx[i], a)]

\* ApplyIndex::ExtractFrontHint, past its waits: front is non-empty and full
HintReady(idx) == idx # <<>> /\ SegFull(Head(idx))

-----------------------------------------------------------------------------
(* The index driven by the log parser and by one consumer at a time.     *)

vars == <<index, nextLsn>>

Init ==
    /\ index = <<>>
    /\ nextLsn = 0

\* The log parser hands the next entry (external, LSNs increase)
InsertBack(a, l, ty) ==
    /\ nextLsn + l <= MaxLsn
    /\ index' = InsertBackIdx(index, [addr |-> a, lsn |-> nextLsn,
                                       len |-> l, type |-> ty])
    /\ nextLsn' = nextLsn + l

\* A worker extracts an address the front segment held
ExtractFront(a) ==
    /\ index # <<>>
    /\ index' = ExtractFrontIdx(index, a)
    /\ UNCHANGED nextLsn

\* The external reader's Search
Search(a) ==
    /\ SearchLists(index, a) # <<>>
    /\ index' = SearchIdx(index, a)
    /\ UNCHANGED nextLsn

Next ==
    \/ \E a \in Addrs, l \in Lens, ty \in LogTypes : InsertBack(a, l, ty)
    \/ \E a \in Addrs : ExtractFront(a)
    \/ \E a \in Addrs : Search(a)

Spec == Init /\ [][Next]_vars

TypeOK ==
    /\ index \in Seq(Segment)
    /\ nextLsn \in 0..MaxLsn

(* Spec section 3: an ApplySegment never exceeds its byte budget.        *)
(* IndexSegment::Insert checks the budget before adding the entry, so    *)
(* the entry that crosses it is accepted.                                *)
SegmentWithinBudget ==
    \A i \in DOMAIN index : index[i].total <= BatchSize

=============================================================================
