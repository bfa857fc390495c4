------------------------------ MODULE LogApply ------------------------------
(***************************************************************************)
(* The log apply pipeline of log_apply.cpp over the ApplyIndex of         *)
(* log_log.h.  Threads:                                                    *)
(*   - the scheduler (log_apply_scheduler_routine, applier slot 0): waits *)
(*     for every applier to be idle, takes the front segment's hint,      *)
(*     round-robins its addresses over the appliers' logs, wakes every    *)
(*     applier, works slot 0 itself, waits for idleness again and         *)
(*     advances log_group.applied_isn;                                    *)
(*   - the worker threads that log_apply_thread_start starts, each        *)
(*     looping log_apply_worker_work on its slot;                         *)
(*   - the log parser (external), which appends entries with InsertBack;  *)
(*   - an external page reader (spec 4.3, not in this repository) that    *)
(*     takes a page's pending entries with Search and replays them with   *)
(*     log_apply_do_apply, the routine log_apply.h exports.               *)
(* Condition variables are sets of waiting threads; pthread_cond_signal   *)
(* wakes one waiter, which must then re-acquire the mutex and re-check.   *)
(* A page is abstracted to its LSN (FIL_PAGE_LSN); the page image's       *)
(* content is the set of entries replayed onto it.  log_apply_do_apply    *)
(* holds the page lock from GetPage to ReleasePage and no other thread    *)
(* touches the page meanwhile in these configurations, so it is one step. *)
(***************************************************************************)
EXTENDS Naturals, Sequences, SequencesExt, FiniteSets, FiniteSetsExt

CONSTANTS
    Addrs, BatchSize, Lens, LogTypes, MaxLsn,   \* as in ApplyIndex
    Handled,       \* the LOG_TYPEs whose page mutator succeeds on the entry
    NThreads,      \* the n_thread given to log_apply_thread_start (APPLIER_THREAD)
    InitLsn,       \* [Addrs -> Nat]: FIL_PAGE_LSN of each page image at start
    OnDiskInit,    \* addresses whose page exists in its tablespace file
    Unregistered,  \* addresses whose space_id DataPageGroup does not know
    ReaderOn,      \* whether the external page reader runs
    MaxIsn         \* bound on log_group.applied_isn

ASSUME /\ NThreads \in Nat \ {0}
       /\ InitLsn \in [Addrs -> Nat]
       /\ OnDiskInit \subseteq Addrs /\ Unregistered \subseteq Addrs
       /\ \A a \in Addrs \ OnDiskInit : InitLsn[a] = 0
       /\ ReaderOn \in BOOLEAN /\ MaxIsn \in Nat
       /\ Handled \subseteq LogTypes

VARIABLES
    index, nextLsn,     \* ApplyIndex::index_ and the log parser's LSN
    pc,                 \* each thread's place in its routine
    logs,               \* log_appliers[i].logs
    needProcess,        \* log_appliers[i].need_process
    isRunning,          \* log_appliers[i].is_running
    owner,              \* holder of log_appliers[i].mutex
    condWait,           \* threads in pthread_cond_wait(need_process_cond)
    neWait,             \* threads waiting on index_not_empty_cond_
    ffWait,             \* threads waiting on front_full_cond_
    task,               \* the scheduler's hint for this round
    needToApply,        \* the scheduler's need_to_apply (total_log_len)
    wake,               \* the applier slot the scheduler wakes next
    pos,                \* the position a thread has reached in its logs
    held,               \* entry lists a thread took out of the index, not yet replayed
    heldAddr,           \* the address those lists belong to
    pageLsn,            \* FIL_PAGE_LSN of each page (pool and file agree)
    onDisk,             \* whether the page exists in its tablespace file
    appliedIsn,         \* log_group.applied_isn
    produced,           \* history: every entry the parser handed over
    applied,            \* history: entries replayed onto their page
    skipped,            \* history: entries the LSN check skipped
    failed,             \* history: entries whose dispatch returned false
    dropped             \* history: entries of an unregistered space

AI == INSTANCE ApplyIndex

None == <<"none", 0>>
Sched == <<"sched", 0>>
Reader == <<"reader", 0>>
Worker(i) == <<"worker", i>>

Slots == 0..(NThreads - 1)

(* log_apply_thread_start: after the scheduler it starts workers with     *)
(* indices 0, 1, ... while i < n_thread, decrementing n_thread each time. *)
RECURSIVE Started(_, _)
Started(i, n) == IF i < n THEN {i} \cup Started(i + 1, n - 1) ELSE {}

Workers == {Worker(i) : i \in Started(0, NThreads - 1)}
Threads == {Sched} \cup Workers \cup (IF ReaderOn THEN {Reader} ELSE {})

\* The applier slot a thread works: the scheduler routine passes index 0
Slot(t) == t[2]

\* log_apply_all_idle
AllIdle == \A i \in Slots : ~isRunning[i]

-----------------------------------------------------------------------------
(* log_apply_apply_one_log: dispatch on log.type_ to the page mutator.  *)
(* The mutators (ParseOrApplyNBytes, ApplyCompRecInsert, ...) are not in *)
(* this repository; an entry either carries a type whose mutator         *)
(* succeeds, or one the switch's default case, or a mutator's decode     *)
(* failure, answers with false.                                          *)
log_apply_apply_one_log(e) == e.type \in Handled

(* log_apply_do_apply on one page: the page LSN is read once, before the *)
(* loop; an entry below it is skipped; any other is dispatched, and only *)
(* a successful dispatch moves the LSN to the entry's end (the checksum  *)
(* write is not modelled).  A failed entry is passed over and the loop   *)
(* goes on.                                                              *)

\* Mutant: an entry at exactly the page LSN counts as already applied
ReplayStepSkipEq(pl, acc, e) ==
    IF pl >= e.lsn THEN [acc EXCEPT !.skipped = @ \cup {e}]
    ELSE [acc EXCEPT !.lsn = e.lsn + e.len, !.applied = @ \cup {e}]

\* Mutant: WritePageLSN outside the success test of the dispatch
ReplayStepAdvanceOnFail(pl, acc, e) ==
    CASE pl > e.lsn -> [acc EXCEPT !.skipped = @ \cup {e}]
      [] log_apply_apply_one_log(e) ->
            [acc EXCEPT !.lsn = e.lsn + e.len, !.applied = @ \cup {e}]
      [] OTHER -> [acc EXCEPT !.lsn = e.lsn + e.len, !.failed = @ \cup {e}]

ReplayStep(pl, acc, e) ==
    CASE pl > e.lsn -> [acc EXCEPT !.skipped = @ \cup {e}]
      [] log_apply_apply_one_log(e) ->
            [acc EXCEPT !.lsn = e.lsn + e.len, !.applied = @ \cup {e}]
      [] OTHER -> [acc EXCEPT !.failed = @ \cup {e}]

Replay(a, list) ==
    LET pl == pageLsn[a]
    IN  FoldLeft(LAMBDA acc, e : ReplayStep(pl, acc, e),
                 [lsn |-> pl, applied |-> {}, skipped |-> {}, failed |-> {}],
                 list)

DoApply(a, list) ==
    IF a \in Unregistered
    THEN /\ dropped' = dropped \cup ToSet(list)
         /\ UNCHANGED <<pageLsn, onDisk, applied, skipped, failed>>
    ELSE LET r == Replay(a, list)
         IN  /\ pageLsn' = [pageLsn EXCEPT ![a] = r.lsn]
             /\ onDisk' = [onDisk EXCEPT ![a] = TRUE]  \* WriteBackLock
             /\ applied' = applied \cup r.applied
             /\ skipped' = skipped \cup r.skipped
             /\ failed' = failed \cup r.failed
             /\ UNCHANGED dropped

pageVars == <<pageLsn, onDisk, applied, skipped, failed, dropped>>
schedVars == <<task, needToApply, wake>>
slotVars == <<logs, needProcess, isRunning, owner, condWait>>
vars == <<index, nextLsn, pc, logs, needProcess, isRunning, owner, condWait,
          neWait, ffWait, task, needToApply, wake, pos, held, heldAddr,
          pageLsn, onDisk, appliedIsn, produced, applied, skipped, failed,
          dropped>>

-----------------------------------------------------------------------------
Init ==
    /\ index = <<>>
    /\ nextLsn = 0
    /\ pc = [t \in Threads |->
               CASE t = Sched  -> "acquire"
                 [] t = Reader -> "r_idle"
                 [] OTHER      -> "ww_lock"]
    /\ logs = [i \in Slots |-> <<>>]
    /\ needProcess = [i \in Slots |-> FALSE]
    /\ isRunning = [i \in Slots |-> FALSE]
    /\ owner = [i \in Slots |-> None]
    /\ condWait = {} /\ neWait = {} /\ ffWait = {}
    /\ task = <<>> /\ needToApply = 0 /\ wake = 0
    /\ pos = [t \in Threads |-> 1]
    /\ held = [t \in Threads |-> <<>>]
    /\ heldAddr = [t \in Threads |-> CHOOSE a \in Addrs : TRUE]
    /\ pageLsn = InitLsn
    /\ onDisk = [a \in Addrs |-> a \in OnDiskInit]
    /\ appliedIsn = 0
    /\ produced = {} /\ applied = {} /\ skipped = {} /\ failed = {}
    /\ dropped = {}


-----------------------------------------------------------------------------
(* The log parser (external): ApplyIndex::InsertBack of the next entry,   *)
(* with its two pthread_cond_signal calls.  A woken thread leaves the    *)
(* wait set and re-checks its loop condition in its next step.           *)

AfterNotEmpty(t) == IF t = Sched THEN "hint" ELSE "ww_extract"

WaitSets(W, sig) == IF sig /\ W # {} THEN {W \ {t} : t \in W} ELSE {W}

InsertBack(a, l, ty) ==
    LET e == [addr |-> a, lsn |-> nextLsn, len |-> l, type |-> ty]
    IN  /\ nextLsn + l <= MaxLsn
        /\ index' = AI!InsertBackIdx(index, e)
        /\ nextLsn' = nextLsn + l
        /\ produced' = produced \cup {e}
        /\ \E ne \in WaitSets(neWait, AI!SignalsNotEmpty(index)),
              ff \in WaitSets(ffWait, AI!SignalsFrontFull(index, e)) :
              /\ neWait' = ne
              /\ ffWait' = ff
              /\ pc' = [t \in Threads |->
                          IF t \in neWait \ ne THEN AfterNotEmpty(t)
                          ELSE IF t \in ffWait \ ff THEN "hint_ff"
                          ELSE pc[t]]
        /\ UNCHANGED <<slotVars, schedVars, pos, held, heldAddr, pageVars,
                       appliedIsn>>

-----------------------------------------------------------------------------
(* log_apply_scheduler_routine and log_apply_scheduler_acquire.          *)

\* spin until every applier is idle, then enter ExtractFrontHint
SchedAcquire ==
    /\ pc[Sched] = "acquire"
    /\ AllIdle
    /\ pc' = [pc EXCEPT ![Sched] = "hint"]
    /\ UNCHANGED <<index, nextLsn, slotVars, neWait, ffWait, schedVars, pos,
                   held, heldAddr, pageVars, appliedIsn, produced>>

\* ExtractFrontHint: while (index_.empty()) wait on index_not_empty_cond_
SchedWaitNotEmpty ==
    /\ pc[Sched] = "hint"
    /\ index = <<>>
    /\ neWait' = neWait \cup {Sched}
    /\ pc' = [pc EXCEPT ![Sched] = "wait_ne"]
    /\ UNCHANGED <<index, nextLsn, slotVars, ffWait, schedVars, pos, held,
                   heldAddr, pageVars, appliedIsn, produced>>

\* ExtractFrontHint: while (!index_.front()->Full()) wait on front_full_cond_
SchedWaitFull ==
    /\ pc[Sched] \in {"hint", "hint_ff"}
    /\ index # <<>>
    /\ ~AI!SegFull(Head(index))
    /\ ffWait' = ffWait \cup {Sched}
    /\ pc' = [pc EXCEPT ![Sched] = "wait_ff"]
    /\ UNCHANGED <<index, nextLsn, slotVars, neWait, schedVars, pos, held,
                   heldAddr, pageVars, appliedIsn, produced>>

(* ExtractFrontHint returns the front segment's addresses, in the        *)
(* unspecified order of its unordered_map, and its total_log_len_.       *)
SchedTakeHint ==
    /\ pc[Sched] \in {"hint", "hint_ff"}
    /\ AI!HintReady(index)
    /\ \E h \in SetToSeqs(AI!SegHint(Head(index))) : task' = h
    /\ needToApply' = Head(index).total
    /\ pc' = [pc EXCEPT ![Sched] = "assign"]
    /\ UNCHANGED <<index, nextLsn, slotVars, neWait, ffWait, wake, pos, held,
                   heldAddr, pageVars, appliedIsn, produced>>

\* The addresses of the task that the round robin gives slot i
RoundRobin(h, i) ==
    LET n == Cardinality({j \in 1..Len(h) : (j - 1) % NThreads = i})
    IN  [k \in 1..n |-> h[(k - 1) * NThreads + i + 1]]

\* logs[next_applier].push_back(item), next_applier cycling over the slots
SchedAssign ==
    /\ pc[Sched] = "assign"
    /\ logs' = [i \in Slots |-> logs[i] \o RoundRobin(task, i)]
    /\ wake' = 0
    /\ pc' = [pc EXCEPT ![Sched] = "wake"]
    /\ UNCHANGED <<index, nextLsn, needProcess, isRunning, owner, condWait,
                   neWait, ffWait, task, needToApply, pos, held, heldAddr,
                   pageVars, appliedIsn, produced>>

\* Mutant: the wake loop signals without setting need_process
SetNeedProcessNoop(np, i) == np

\* log_applier.need_process = true
SetNeedProcess(np, i) == [np EXCEPT ![i] = TRUE]

(* Under slot i's mutex: need_process = true and signal need_process_cond; *)
(* after the last slot the scheduler works slot 0 itself.                *)
SchedWake ==
    LET i == wake IN
    /\ pc[Sched] = "wake"
    /\ owner[i] = None
    /\ needProcess' = SetNeedProcess(needProcess, i)
    /\ \E cw \in WaitSets(condWait, \E t \in condWait : Slot(t) = i) :
          /\ \A t \in condWait \ cw : Slot(t) = i
          /\ condWait' = cw
          /\ wake' = i + 1
          /\ pc' = [t \in Threads |->
                      IF t \in condWait \ cw THEN "ww_lock"
                      ELSE IF t = Sched
                           THEN IF i + 1 = NThreads THEN "ww_lock" ELSE "wake"
                      ELSE pc[t]]
    /\ UNCHANGED <<index, nextLsn, logs, isRunning, owner, neWait, ffWait,
                   task, needToApply, pos, held, heldAddr, pageVars,
                   appliedIsn, produced>>

(* After its own slot's work: spin until all appliers are idle, then add *)
(* need_to_apply to applied_isn and written_capacity under               *)
(* log_group_mutex and signal the log writer (external).                 *)
SchedAccount ==
    /\ pc[Sched] = "spin"
    /\ AllIdle
    /\ appliedIsn + needToApply <= MaxIsn
    /\ appliedIsn' = appliedIsn + needToApply
    /\ pc' = [pc EXCEPT ![Sched] = "acquire"]
    /\ UNCHANGED <<index, nextLsn, slotVars, neWait, ffWait, schedVars, pos,
                   held, heldAddr, pageVars, produced>>

-----------------------------------------------------------------------------
(* log_apply_worker_work(Slot(t)), run by the scheduler for slot 0 and   *)
(* in a loop by every worker thread.                                     *)

\* Mutant: the walk over logs starts one before its first address
LogsBeginZero == 0

\* the range-for over logs starts at its first address
LogsBegin == 1

\* lock the slot's mutex; need_process is set: is_running = true
WorkerStart(t) ==
    LET i == Slot(t) IN
    /\ pc[t] = "ww_lock"
    /\ owner[i] = None
    /\ needProcess[i]
    /\ owner' = [owner EXCEPT ![i] = t]
    /\ isRunning' = [isRunning EXCEPT ![i] = TRUE]
    /\ pos' = [pos EXCEPT ![t] = LogsBegin]
    /\ pc' = [pc EXCEPT ![t] = "ww_extract"]
    /\ UNCHANGED <<index, nextLsn, logs, needProcess, condWait, neWait, ffWait,
                   schedVars, held, heldAddr, pageVars, appliedIsn, produced>>

\* lock the slot's mutex; need_process is not set: wait on need_process_cond
WorkerSleep(t) ==
    LET i == Slot(t) IN
    /\ pc[t] = "ww_lock"
    /\ owner[i] = None
    /\ ~needProcess[i]
    /\ condWait' = condWait \cup {t}
    /\ pc' = [pc EXCEPT ![t] = "ww_wait"]
    /\ UNCHANGED <<index, nextLsn, logs, needProcess, isRunning, owner, neWait,
                   ffWait, schedVars, pos, held, heldAddr, pageVars, appliedIsn,
                   produced>>

\* ApplyIndex::ExtractFront on an empty index: wait on index_not_empty_cond_
WorkerWaitIndex(t) ==
    /\ pc[t] = "ww_extract"
    /\ pos[t] <= Len(logs[Slot(t)])
    /\ index = <<>>
    /\ neWait' = neWait \cup {t}
    /\ pc' = [pc EXCEPT ![t] = "ww_wait_ne"]
    /\ UNCHANGED <<index, nextLsn, slotVars, ffWait, schedVars, pos, held,
                   heldAddr, pageVars, appliedIsn, produced>>

(* ApplyIndex::ExtractFront of the next address from the front segment;  *)
(* a null result ("taken by a page reader") moves on to the next one.    *)
WorkerExtract(t) ==
    LET a    == logs[Slot(t)][pos[t]]
        list == AI!ExtractFrontList(index, a)
    IN  /\ pc[t] = "ww_extract"
        /\ pos[t] <= Len(logs[Slot(t)])
        /\ index # <<>>
        /\ index' = AI!ExtractFrontIdx(index, a)
        /\ IF list = <<>>
           THEN /\ pos' = [pos EXCEPT ![t] = @ + 1]
                /\ UNCHANGED <<pc, held, heldAddr>>
           ELSE /\ held' = [held EXCEPT ![t] = <<list>>]
                /\ heldAddr' = [heldAddr EXCEPT ![t] = a]
                /\ pc' = [pc EXCEPT ![t] = "ww_apply"]
                /\ UNCHANGED pos
        /\ UNCHANGED <<nextLsn, slotVars, neWait, ffWait, schedVars, pageVars,
                       appliedIsn, produced>>

\* log_apply_do_apply on the extracted list
WorkerApply(t) ==
    /\ pc[t] = "ww_apply"
    /\ DoApply(heldAddr[t], Head(held[t]))
    /\ held' = [held EXCEPT ![t] = <<>>]
    /\ pos' = [pos EXCEPT ![t] = @ + 1]
    /\ pc' = [pc EXCEPT ![t] = "ww_extract"]
    /\ UNCHANGED <<index, nextLsn, slotVars, neWait, ffWait, schedVars,
                   heldAddr, appliedIsn, produced>>

(* logs.clear(), need_process = false, is_running = false, unlock; the   *)
(* scheduler goes on to its spin, a worker thread loops.                 *)
WorkerFinish(t) ==
    LET i == Slot(t) IN
    /\ pc[t] = "ww_extract"
    /\ pos[t] > Len(logs[i])
    /\ logs' = [logs EXCEPT ![i] = <<>>]
    /\ needProcess' = [needProcess EXCEPT ![i] = FALSE]
    /\ isRunning' = [isRunning EXCEPT ![i] = FALSE]
    /\ owner' = [owner EXCEPT ![i] = None]
    /\ pc' = [pc EXCEPT ![t] = IF t = Sched THEN "spin" ELSE "ww_lock"]
    /\ UNCHANGED <<index, nextLsn, condWait, neWait, ffWait, schedVars, pos,
                   held, heldAddr, pageVars, appliedIsn, produced>>

-----------------------------------------------------------------------------
(* The external page reader: ApplyIndex::Search, then log_apply_do_apply *)
(* on each list it returned, front segment first.                        *)

ReaderSearch(a) ==
    /\ pc[Reader] = "r_idle"
    /\ AI!SearchLists(index, a) # <<>>
    /\ held' = [held EXCEPT ![Reader] = AI!SearchLists(index, a)]
    /\ heldAddr' = [heldAddr EXCEPT ![Reader] = a]
    /\ index' = AI!SearchIdx(index, a)
    /\ pc' = [pc EXCEPT ![Reader] = "r_apply"]
    /\ UNCHANGED <<nextLsn, slotVars, neWait, ffWait, schedVars, pos, pageVars,
                   appliedIsn, produced>>

ReaderApply ==
    /\ pc[Reader] = "r_apply"
    /\ DoApply(heldAddr[Reader], Head(held[Reader]))
    /\ held' = [held EXCEPT ![Reader] = Tail(@)]
    /\ pc' = [pc EXCEPT ![Reader] =
                IF Tail(held[Reader]) = <<>> THEN "r_idle" ELSE "r_apply"]
    /\ UNCHANGED <<index, nextLsn, slotVars, neWait, ffWait, schedVars, pos,
                   heldAddr, appliedIsn, produced>>

-----------------------------------------------------------------------------
ApplierThreads == {Sched} \cup Workers

SchedStep ==
    \/ SchedAcquire \/ SchedWaitNotEmpty \/ SchedWaitFull \/ SchedTakeHint
    \/ SchedAssign \/ SchedWake \/ SchedAccount

WorkerStep(t) ==
    \/ WorkerStart(t) \/ WorkerSleep(t) \/ WorkerWaitIndex(t)
    \/ WorkerExtract(t) \/ WorkerApply(t) \/ WorkerFinish(t)

ReaderStep ==
    /\ ReaderOn
    /\ \/ \E a \in Addrs : ReaderSearch(a)
       \/ ReaderApply

Next ==
    \/ \E a \in Addrs, l \in Lens, ty \in LogTypes : InsertBack(a, l, ty)
    \/ SchedStep
    \/ \E t \in ApplierThreads : WorkerStep(t)
    \/ ReaderStep

(* The appliers are OS threads that the kernel keeps scheduling; the log *)
(* parser and the page reader may stop at any time.                      *)
Fairness ==
    /\ WF_vars(SchedStep)
    /\ \A t \in ApplierThreads : WF_vars(WorkerStep(t))

Spec == Init /\ [][Next]_vars /\ Fairness

-----------------------------------------------------------------------------
(* Where an entry is: in a segment of the index, held by a thread between *)
(* extraction and replay, or done (applied, skipped, failed or dropped). *)

InIndex(e) == \E i \in DOMAIN index : e \in ToSet(index[i].logs[e.addr])
HeldBy(t, e) == \E k \in DOMAIN held[t] : e \in ToSet(held[t][k])
Outside(e) == ~InIndex(e)

Places(e) ==
    {<<"index", i>> : i \in {i \in DOMAIN index :
                                e \in ToSet(index[i].logs[e.addr])}}
    \cup {<<"held", t>> : t \in {t \in Threads : HeldBy(t, e)}}
    \cup (IF e \in applied THEN {<<"applied", 0>>} ELSE {})
    \cup (IF e \in skipped THEN {<<"skipped", 0>>} ELSE {})
    \cup (IF e \in failed THEN {<<"failed", 0>>} ELSE {})
    \cup (IF e \in dropped THEN {<<"dropped", 0>>} ELSE {})

TypeOK ==
    /\ index \in Seq(AI!Segment)
    /\ nextLsn \in 0..MaxLsn
    /\ pc \in [Threads -> {"acquire", "hint", "wait_ne", "wait_ff", "hint_ff",
                           "assign", "wake", "spin", "ww_lock", "ww_wait",
                           "ww_extract", "ww_wait_ne", "ww_apply", "r_idle",
                           "r_apply"}]
    /\ logs \in [Slots -> Seq(Addrs)]
    /\ needProcess \in [Slots -> BOOLEAN]
    /\ isRunning \in [Slots -> BOOLEAN]
    /\ owner \in [Slots -> Threads \cup {None}]
    /\ condWait \subseteq Threads /\ neWait \subseteq Threads
    /\ ffWait \subseteq Threads
    /\ task \in Seq(Addrs) /\ needToApply \in Nat /\ wake \in 0..NThreads
    /\ pos \in [Threads -> Nat \ {0}]
    /\ held \in [Threads -> Seq(Seq(AI!Entry))]
    /\ heldAddr \in [Threads -> Addrs]
    /\ pageLsn \in [Addrs -> Nat] /\ onDisk \in [Addrs -> BOOLEAN]
    /\ appliedIsn \in 0..MaxIsn
    /\ produced \subseteq AI!Entry
    /\ applied \cup skipped \cup failed \cup dropped \subseteq produced

(* Every entry the log parser handed over is in exactly one place: no    *)
(* interleaving of ExtractFront, Search, DeleteFrontSegment and replay   *)
(* loses an entry or hands it to two threads.                            *)
EntryConservation ==
    \A e \in produced : Cardinality(Places(e)) = 1

(* Replay loses no update: an entry of a registered page that is not     *)
(* already in the page image at start (lsn >= the image's LSN) and that  *)
(* was skipped, or that lies below the page's current LSN, has been      *)
(* replayed onto the page.  The skip check of log_apply_do_apply reads   *)
(* the page LSN once, so this needs a page's entries to reach it in LSN  *)
(* order.                                                                 *)
NoLostUpdate ==
    \A e \in produced :
        (/\ e.addr \notin Unregistered
         /\ e.lsn >= InitLsn[e.addr]
         /\ e \in skipped \/ e.lsn < pageLsn[e.addr])
        => e \in applied

(* A page's LSN is the end of the last entry replayed onto it, and of   *)
(* nothing else: an entry whose dispatch failed leaves the page at its   *)
(* pre-entry LSN, so the LSN never claims a failed entry as absorbed     *)
(* unless a later entry of the page was replayed after it (spec 7, 8).   *)
(* The skip check of log_apply_do_apply reads the LSN once per list,     *)
(* while the reader's Search and a worker's ExtractFront hand lists of   *)
(* one page to two threads.                                              *)
PageLsnIsLastApplied ==
    \A a \in Addrs \ Unregistered :
        LET ends == {e.lsn + e.len : e \in {e \in applied : e.addr = a}}
        IN  pageLsn[a] = IF ends = {} THEN InitLsn[a] ELSE Max(ends)

(* log_group.applied_isn never counts more log bytes than have left the  *)
(* index: what the scheduler adds per round (the front segment's         *)
(* total_log_len_) has really been extracted.                            *)
AppliedIsnSound ==
    appliedIsn <= MapThenSumSet(LAMBDA e : e.len, {e \in produced : Outside(e)})

(* No lost wake-up: no thread still waits on index_not_empty_cond_ once  *)
(* the index is non-empty, nor on front_full_cond_ once the front        *)
(* segment is full.                                                      *)
NoLostWakeup ==
    /\ index # <<>> => neWait = {}
    /\ AI!HintReady(index) => ffWait = {}

(* ExtractFrontHint re-tests only index_.front()->Full() after a         *)
(* front_full_cond_ wake-up: the scheduler never resumes there with the  *)
(* index empty, where index_.front() would be undefined.                 *)
FrontExistsAfterFullWake == pc[Sched] = "hint_ff" => index # <<>>

(* Every entry that sits in a full segment eventually leaves the index:  *)
(* the scheduler's rounds drain every sealed segment.                    *)
AllEntries == [addr : Addrs, lsn : 0..MaxLsn, len : Lens, type : LogTypes]
InFullSegment(e) ==
    \E i \in DOMAIN index : AI!SegFull(index[i]) /\ e \in ToSet(index[i].logs[e.addr])
FullSegmentsDrained ==
    \A e \in AllEntries : InFullSegment(e) ~> ~InIndex(e)

=============================================================================
