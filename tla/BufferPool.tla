----------------------------- MODULE BufferPool -----------------------------
(***************************************************************************)
(* The page buffer pool of buffer_pool.cpp and the threads that use it.   *)
(* The pool has BUFFER_POOL_SIZE frames, a free list, an LRU list (front  *)
(* = most recent), the page table hash_map_, frame_id_2_page_address_,    *)
(* one pool mutex lock_ and a std::mutex per frame (Page::mutex_).         *)
(*                                                                         *)
(* Its clients are                                                         *)
(*   - "apply" threads running the page part of log_apply_do_apply:       *)
(*     GetPage, NewPage if that returned nullptr, replay, WriteBackLock,  *)
(*     ReleasePage (the scheduler, a worker, or the spec 4.3 reader);      *)
(*   - "copy" threads running BufferPool::CopyPage (GetPage, memcpy,      *)
(*     ReleasePage) for copy_page_to_buf, which the storage side calls.   *)
(*                                                                         *)
(* A page image is the header and trailer words that the pool and        *)
(* do_apply read or write; its LSN also stands for the body, which a      *)
(* replay moves to the next LSN.  A section under                         *)
(* the pool mutex is one step up to the point where it blocks on a page   *)
(* lock, which is a step of its own: that is where the code can wait      *)
(* while it holds the pool mutex.                                          *)
(***************************************************************************)
EXTENDS Naturals, Sequences, SequencesExt, FiniteSets

CONSTANTS
    Addrs,        \* page addresses (space_id, page_id), as model values
    OnDiskInit,   \* addresses whose page lies inside its tablespace file
    PoolSize,     \* BUFFER_POOL_SIZE
    EvictBatch,   \* the n of Evict(64)
    Clients,      \* threads that use the pool
    Role,         \* [Clients -> {"apply", "copy"}]
    Targets,      \* [Clients -> SUBSET Addrs]: the pages a client touches
    MaxApplies,   \* bound on the number of do_apply calls
    PageNo,       \* [Addrs -> Nat]: each address's page_id
    ApplyKinds,   \* outcomes of log_apply_apply_one_log a replay may have
    BUF_NO_CHECKSUM_MAGIC, \* 0xDEADBEEF, as a model value
    FileChecksum, \* the checksum InnoDB left in a file page, a model value
    None, Null, NoFrame  \* no owner, a null Page*, an absent hash_map_ key

ASSUME /\ OnDiskInit \subseteq Addrs
       /\ PoolSize \in Nat \ {0} /\ EvictBatch \in Nat \ {0}
       /\ Role \in [Clients -> {"apply", "copy"}]
       /\ Targets \in [Clients -> SUBSET Addrs]
       /\ MaxApplies \in Nat
       /\ PageNo \in [Addrs -> Nat]
       /\ ApplyKinds \subseteq {"init", "write", "fail"}

GR == INSTANCE Graphs

Frames == 0..(PoolSize - 1)

VARIABLES
    lru,        \* lru_list_, a sequence of frames, most recent first
    free,       \* free_list_
    table,      \* hash_map_: address -> frame, or NoFrame
    frameAddr,  \* frame_id_2_page_address_[f].space_id_/page_id_
    inLru,      \* frame_id_2_page_address_[f].in_lru_
    data,       \* buffer_[f]'s page image (an Image)
    dirty,      \* buffer_[f].dirty_
    pageOwner,  \* holder of buffer_[f].mutex_
    poolOwner,  \* holder of lock_
    disk,       \* the page image in the tablespace file
    onDisk,     \* whether page_id <= max_page_id of its file
    pc, addr,   \* each client's place and the page it works on
    page,       \* the Page* a client holds, or Null
    evictLeft,  \* iterations left in Evict's loop
    after,      \* where a client resumes after Evict
    started,    \* do_apply calls started (bounded by MaxApplies)
    latest,     \* history: the newest LSN any replay produced
    recency     \* history: addresses in order of last check-out

vars == <<lru, free, table, frameAddr, inLru, data, dirty, pageOwner,
          poolOwner, disk, onDisk, pc, addr, page, evictLeft, after, started,
          latest, recency>>
poolVars == <<lru, free, table, frameAddr, inLru>>
frameVars == <<data, dirty, pageOwner>>
histVars == <<started, latest, recency>>

(* The words of a page image: FIL_PAGE_SPACE_OR_CHKSUM (bytes 0-3),      *)
(* FIL_PAGE_OFFSET (4-7), FIL_PAGE_LSN (16-23, written and read whole by *)
(* mach_write_to_8/mach_read_from_8) and the 8 bytes at DATA_PAGE_SIZE - *)
(* FIL_PAGE_END_LSN_OLD_CHKSUM as two 4-byte words.                      *)
Image == [chk : Nat \cup {BUF_NO_CHECKSUM_MAGIC, FileChecksum},
          pageNo : Nat, lsn : Nat, trailer : Seq(Nat \cup
                                 {BUF_NO_CHECKSUM_MAGIC, FileChecksum})]

\* (uint32_t)(n >> 32) and (uint32_t) n, in 16-bit steps
Hi32(n) == (n \div 65536) \div 65536
Lo32(n) == (n % 65536) + ((n \div 65536) % 65536) * 65536

\* mach_write_to_8: the high word first, then the low word
mach_write_to_8(n) == <<Hi32(n), Lo32(n)>>

\* Page::Reset: memset(data_, 0, DATA_PAGE_SIZE)
ZeroImage == [chk |-> 0, pageNo |-> 0, lsn |-> 0, trailer |-> <<0, 0>>]

\* A page of a tablespace file as InnoDB wrote it, or no page at all
FileImage(a) ==
    IF a \in OnDiskInit
    THEN [chk |-> FileChecksum, pageNo |-> PageNo[a], lsn |-> 0,
          trailer |-> <<FileChecksum, 0>>]
    ELSE ZeroImage

\* Page::WritePageLSN: the LSN at FIL_PAGE_LSN and in all 8 trailer bytes
WritePageLSN(img, n) == [img EXCEPT !.lsn = n, !.trailer = mach_write_to_8(n)]

\* Page::WriteCheckSum: at FIL_PAGE_SPACE_OR_CHKSUM and the trailer's start
WriteCheckSum(img, c) == [img EXCEPT !.chk = c, !.trailer[1] = c]

(* What a successful log_apply_apply_one_log leaves in the header:       *)
(* MLOG_INIT_FILE_PAGE2 (ApplyInitFilePage2, not in this repository;     *)
(* InnoDB's version zeroes the page and writes its page number), or any  *)
(* other mutator, which leaves the header words alone.                   *)
ApplyOne(img, a, k) ==
    IF k = "init" THEN [ZeroImage EXCEPT !.pageNo = PageNo[a]] ELSE img

\* Mutant: the checksum is written before the LSN
ApplySucceededSwapped(img, a, k) ==
    WritePageLSN(WriteCheckSum(ApplyOne(img, a, k), BUF_NO_CHECKSUM_MAGIC),
                 img.lsn + 1)

(* The replay loop's body for an applied entry: apply it, then           *)
(* WritePageLSN(log_lsn + log_len_), then WriteCheckSum(MAGIC).          *)
ApplySucceeded(img, a, k) ==
    WriteCheckSum(WritePageLSN(ApplyOne(img, a, k), img.lsn + 1),
                  BUF_NO_CHECKSUM_MAGIC)

(* BufferPool::BufferPool: every frame on the free list, in order, and    *)
(* the page table empty.                                                  *)
Init ==
    /\ lru = <<>>
    /\ free = [i \in 1..PoolSize |-> i - 1]
    /\ table = [a \in Addrs |-> NoFrame]
    /\ frameAddr = [f \in Frames |-> None]
    /\ inLru = [f \in Frames |-> FALSE]
    /\ data = [f \in Frames |-> ZeroImage]
    /\ dirty = [f \in Frames |-> FALSE]
    /\ pageOwner = [f \in Frames |-> None]
    /\ poolOwner = None
    /\ disk = [a \in Addrs |-> FileImage(a)]
    /\ onDisk = [a \in Addrs |-> a \in OnDiskInit]
    /\ pc = [t \in Clients |-> "idle"]
    /\ addr = [t \in Clients |-> CHOOSE a \in Addrs : TRUE]
    /\ page = [t \in Clients |-> Null]
    /\ evictLeft = [t \in Clients |-> 0]
    /\ after = [t \in Clients |-> "read"]
    /\ started = 0
    /\ latest = [a \in Addrs |-> 0]
    /\ recency = <<>>

\* A check-out makes the address the most recently used one
CheckOut(a) == <<a>> \o Remove(recency, a)

\* Mutant: a hit is not moved to the LRU head
PromoteNoop(l, f) == l

\* GetPage on a hit: lru_list_.erase(iter); lru_list_.emplace_front(frame_id)
Promote(l, f) == <<f>> \o Remove(l, f)

\* Mutant: Evict leaves the page table entry behind
EraseEntryKeep(tbl, a) == tbl

\* hash_map_[space_id].erase(page_id)
EraseEntry(tbl, a) == [tbl EXCEPT ![a] = NoFrame]

\* Mutant: the write to the tablespace file is lost
PersistNoop(dsk, a, v) == dsk

\* fs->seekp(page_id * DATA_PAGE_SIZE); fs->write(page_data, DATA_PAGE_SIZE)
Persist(dsk, a, v) == [dsk EXCEPT ![a] = v]

\* Mutant: WriteBackLock returns without unlocking lock_
UnlockPoolMissing(t) == t

\* PthreadMutexGuard's destructor at the end of WriteBackLock
UnlockPool(t) == None

-----------------------------------------------------------------------------
(* The clients' calls.                                                    *)

\* log_apply_do_apply reaches buffer_pool.GetPage for a registered page
ApplyBegin(t, a) ==
    /\ Role[t] = "apply" /\ pc[t] = "idle" /\ a \in Targets[t]
    /\ started < MaxApplies
    /\ started' = started + 1
    /\ addr' = [addr EXCEPT ![t] = a]
    /\ pc' = [pc EXCEPT ![t] = "get"]
    /\ UNCHANGED <<poolVars, frameVars, poolOwner, disk, onDisk, page,
                   evictLeft, after, latest, recency>>

\* copy_page_to_buf calls CopyPage, which calls GetPage
CopyBegin(t, a) ==
    /\ Role[t] = "copy" /\ pc[t] = "idle" /\ a \in Targets[t]
    /\ addr' = [addr EXCEPT ![t] = a]
    /\ pc' = [pc EXCEPT ![t] = "get"]
    /\ UNCHANGED <<poolVars, frameVars, poolOwner, disk, onDisk, page,
                   evictLeft, after, histVars>>

(* Enter Evict(64) when the free list is empty, else go straight on.     *)
ToEvictOr(t, next) ==
    IF free = <<>>
    THEN /\ evictLeft' = [evictLeft EXCEPT ![t] = EvictBatch]
         /\ after' = [after EXCEPT ![t] = next]
         /\ pc' = [pc EXCEPT ![t] = "evict"]
    ELSE /\ pc' = [pc EXCEPT ![t] = next]
         /\ UNCHANGED <<evictLeft, after>>

(* GetPage under lock_: a cached page moves to the LRU head and the      *)
(* client then locks it, still holding lock_; a miss goes on to          *)
(* ReadPageFromDisk, which evicts first if the free list is empty.       *)
GetPage(t) ==
    LET a == addr[t] IN
    /\ pc[t] = "get"
    /\ poolOwner = None
    /\ poolOwner' = t
    /\ IF table[a] # NoFrame
       THEN /\ lru' = Promote(lru, table[a])
            /\ page' = [page EXCEPT ![t] = table[a]]
            /\ recency' = CheckOut(a)
            /\ pc' = [pc EXCEPT ![t] = "get_lock"]
            /\ UNCHANGED <<evictLeft, after>>
       ELSE /\ ToEvictOr(t, "read")
            /\ UNCHANGED <<lru, page, recency>>
    /\ UNCHANGED <<free, table, frameAddr, inLru, frameVars, disk, onDisk,
                   addr, started, latest>>

\* page->PageLock() at the end of GetPage, then the guard releases lock_
GetPageLock(t) ==
    /\ pc[t] = "get_lock"
    /\ pageOwner[page[t]] = None
    /\ pageOwner' = [pageOwner EXCEPT ![page[t]] = t]
    /\ poolOwner' = None
    /\ pc' = [pc EXCEPT ![t] = "have"]
    /\ UNCHANGED <<poolVars, data, dirty, disk, onDisk, addr, page, evictLeft,
                   after, histVars>>

(* One iteration of Evict under lock_: lock the LRU tail page (waiting   *)
(* for its holder), write it back if dirty, unlock it, and return its    *)
(* frame to the free list.                                                *)
EvictOne(t) ==
    LET f == Last(lru)
        a == frameAddr[f]
    IN  /\ pc[t] = "evict"
        /\ lru # <<>> /\ evictLeft[t] > 0
        /\ pageOwner[f] = None
        /\ disk' = IF dirty[f] THEN Persist(disk, a, data[f]) ELSE disk
        /\ onDisk' = IF dirty[f] THEN [onDisk EXCEPT ![a] = TRUE] ELSE onDisk
        /\ lru' = Front(lru)
        /\ inLru' = [inLru EXCEPT ![f] = FALSE]
        /\ table' = EraseEntry(table, a)
        /\ free' = Append(free, f)
        /\ evictLeft' = [evictLeft EXCEPT ![t] = @ - 1]
        /\ UNCHANGED <<frameAddr, frameVars, poolOwner, pc, addr, page, after,
                       histVars>>

\* Evict returns when the LRU list is empty or n frames were freed
EvictDone(t) ==
    /\ pc[t] = "evict"
    /\ lru = <<>> \/ evictLeft[t] = 0
    /\ pc' = [pc EXCEPT ![t] = after[t]]
    /\ UNCHANGED <<poolVars, frameVars, poolOwner, disk, onDisk, addr, page,
                   evictLeft, after, histVars>>

(* ReadPageFromDisk after its Evict: nullptr if the page lies past the   *)
(* file's end; else read it into the free list's front frame, put it at  *)
(* the LRU head and lock it.  dirty_ keeps the frame's old value.        *)
ReadPageFromDisk(t) ==
    LET a == addr[t]
        f == Head(free)
    IN  /\ pc[t] = "read"
        /\ poolOwner' = None
        /\ IF ~onDisk[a]
           THEN /\ page' = [page EXCEPT ![t] = Null]
                /\ pc' = [pc EXCEPT ![t] =
                            IF Role[t] = "apply" THEN "new" ELSE "null"]
                /\ UNCHANGED <<poolVars, frameVars, recency>>
           ELSE /\ data' = [data EXCEPT ![f] = disk[a]]
                /\ free' = Tail(free)
                /\ frameAddr' = [frameAddr EXCEPT ![f] = a]
                /\ inLru' = [inLru EXCEPT ![f] = TRUE]
                /\ lru' = <<f>> \o lru
                /\ table' = [table EXCEPT ![a] = f]
                /\ pageOwner' = [pageOwner EXCEPT ![f] = t]
                /\ page' = [page EXCEPT ![t] = f]
                /\ recency' = CheckOut(a)
                /\ pc' = [pc EXCEPT ![t] = "have"]
                /\ UNCHANGED dirty
        /\ UNCHANGED <<disk, onDisk, addr, evictLeft, after, started, latest>>

(* NewPage under lock_: nullptr if the page is already in the pool,      *)
(* else evict if the free list is empty.                                 *)
NewPage(t) ==
    LET a == addr[t] IN
    /\ pc[t] = "new"
    /\ poolOwner = None
    /\ IF table[a] # NoFrame
       THEN /\ pc' = [pc EXCEPT ![t] = "null"]
            /\ UNCHANGED <<poolOwner, evictLeft, after>>
       ELSE /\ poolOwner' = t
            /\ ToEvictOr(t, "new_alloc")
    /\ UNCHANGED <<poolVars, frameVars, disk, onDisk, addr, page, histVars>>

(* The rest of NewPage: take the free list's front frame, Reset() it     *)
(* (zeroed image; dirty_ is left alone), put it at the LRU head and lock *)
(* it.                                                                    *)
NewPageAlloc(t) ==
    LET a == addr[t]
        f == Head(free)
    IN  /\ pc[t] = "new_alloc"
        /\ data' = [data EXCEPT ![f] = ZeroImage]
        /\ free' = Tail(free)
        /\ lru' = <<f>> \o lru
        /\ table' = [table EXCEPT ![a] = f]
        /\ frameAddr' = [frameAddr EXCEPT ![f] = a]
        /\ inLru' = [inLru EXCEPT ![f] = TRUE]
        /\ pageOwner' = [pageOwner EXCEPT ![f] = t]
        /\ poolOwner' = None
        /\ page' = [page EXCEPT ![t] = f]
        /\ recency' = CheckOut(a)
        /\ pc' = [pc EXCEPT ![t] = "have"]
        /\ UNCHANGED <<dirty, disk, onDisk, addr, evictLeft, after, started,
                       latest>>

(* log_apply_do_apply's replay loop on the locked page, for an entry     *)
(* whose log_apply_apply_one_log has outcome k: on success the header is *)
(* rewritten and WritePageLSN sets dirty_; on failure nothing changes.   *)
Replay(t, k) ==
    LET f == page[t]
        a == addr[t]
    IN  /\ Role[t] = "apply" /\ pc[t] = "have"
        /\ IF k = "fail"
           THEN UNCHANGED <<data, dirty, latest>>
           ELSE /\ data' = [data EXCEPT ![f] = ApplySucceeded(@, a, k)]
                /\ dirty' = [dirty EXCEPT ![f] = TRUE]
                /\ latest' = [latest EXCEPT ![a] = data[f].lsn + 1]
        /\ pc' = [pc EXCEPT ![t] = "wbl"]
        /\ UNCHANGED <<poolVars, pageOwner, poolOwner, disk, onDisk, addr,
                       page, evictLeft, after, started, recency>>

\* CopyPage's memcpy out of the locked page
CopyOut(t) ==
    /\ Role[t] = "copy" /\ pc[t] = "have"
    /\ pc' = [pc EXCEPT ![t] = "release"]
    /\ UNCHANGED <<poolVars, frameVars, poolOwner, disk, onDisk, addr, page,
                   evictLeft, after, histVars>>

(* WriteBackLock: under lock_, write the cached image to the file (the   *)
(* file grows if the page lay past its end).                              *)
WriteBackLock(t) ==
    LET a == addr[t] IN
    /\ pc[t] = "wbl"
    /\ poolOwner = None
    /\ disk' = IF table[a] # NoFrame THEN Persist(disk, a, data[table[a]])
               ELSE disk
    /\ onDisk' = IF table[a] # NoFrame THEN [onDisk EXCEPT ![a] = TRUE]
                 ELSE onDisk
    /\ poolOwner' = UnlockPool(t)
    /\ pc' = [pc EXCEPT ![t] = "release"]
    /\ UNCHANGED <<poolVars, frameVars, addr, page, evictLeft, after, histVars>>

\* BufferPool::ReleasePage: page->PageUnLock()
ReleasePage(t) ==
    /\ pc[t] = "release"
    /\ pageOwner' = [pageOwner EXCEPT ![page[t]] = None]
    /\ page' = [page EXCEPT ![t] = Null]
    /\ pc' = [pc EXCEPT ![t] = "idle"]
    /\ UNCHANGED <<poolVars, data, dirty, poolOwner, disk, onDisk, addr,
                   evictLeft, after, histVars>>

Next ==
    \/ \E t \in Clients, a \in Addrs : ApplyBegin(t, a) \/ CopyBegin(t, a)
    \/ \E t \in Clients :
          \/ GetPage(t) \/ GetPageLock(t) \/ EvictOne(t) \/ EvictDone(t)
          \/ ReadPageFromDisk(t) \/ NewPage(t) \/ NewPageAlloc(t)
          \/ \E k \in ApplyKinds : Replay(t, k)
          \/ CopyOut(t) \/ WriteBackLock(t) \/ ReleasePage(t)

Spec == Init /\ [][Next]_vars

-----------------------------------------------------------------------------
(* Client c waits for client u: c needs lock_ and u holds it, or c waits *)
(* for the page lock u holds (in GetPage, or in Evict while it holds      *)
(* lock_).                                                                *)
WaitsFor ==
    {<<c, u>> \in Clients \X Clients :
        \/ pc[c] \in {"get", "new", "wbl"} /\ poolOwner = u
        \/ pc[c] = "get_lock" /\ pageOwner[page[c]] = u
        \/ /\ pc[c] = "evict" /\ lru # <<>> /\ evictLeft[c] > 0
           /\ pageOwner[Last(lru)] = u}

(* No deadlock: the waits-for graph of the pool mutex and the page locks *)
(* has no cycle.  GetPage and Evict take a page lock while they hold     *)
(* lock_, and a do_apply thread asks for lock_ in WriteBackLock while it *)
(* holds its page lock.                                                   *)
NoDeadlock == ~GR!HasCycle([node |-> Clients, edge |-> WaitsFor])

(* No null page is used: log_apply_do_apply reads the LSN of what        *)
(* NewPage returned, and CopyPage copies what GetPage returned, without  *)
(* a null check.                                                          *)
NoNullDeref == \A t \in Clients : pc[t] # "null"

(* The pool's bookkeeping agrees with itself across every sequence of    *)
(* GetPage, NewPage, Evict and ReadPageFromDisk: every frame is on       *)
(* exactly one of the free and LRU lists, in_lru_ says which, the page   *)
(* table and frame_id_2_page_address_ are inverse on the LRU frames, and *)
(* no free frame is locked (so the front() taken after Evict is a free,  *)
(* unlocked frame).                                                      *)
PoolConsistent ==
    /\ Len(lru) + Len(free) = PoolSize
    /\ ToSet(lru) \cup ToSet(free) = Frames
    /\ \A f \in Frames : inLru[f] <=> f \in ToSet(lru)
    /\ \A a \in Addrs : table[a] # NoFrame =>
          table[a] \in ToSet(lru) /\ frameAddr[table[a]] = a
    /\ \A f \in ToSet(lru) : table[frameAddr[f]] = f
    /\ \A f \in ToSet(free) : pageOwner[f] = None

\* An apply client is between its replay and its ReleasePage on page a
Writing(a) == \E t \in Clients : Role[t] = "apply" /\ addr[t] = a
                                 /\ pc[t] \in {"wbl", "release"}

(* No replayed image is lost: once no do_apply is between replay and     *)
(* release on a page, its newest version is in the file, and a cached    *)
(* copy holds that version too, across any eviction and re-read.         *)
Persisted ==
    \A a \in Addrs : ~Writing(a) =>
        /\ latest[a] > 0 => onDisk[a] /\ disk[a].lsn = latest[a]
        /\ table[a] # NoFrame => data[table[a]].lsn = latest[a]

(* InnoDB's test for a torn page, which a page leaving the pool must     *)
(* pass: the trailer's first word repeats the header checksum (spec 6,   *)
(* and Page::GetCheckSum's assert) and its last word is the low word of  *)
(* the LSN.  WritePageLSN writes all 8 trailer bytes, so the old         *)
(* checksum word holds the LSN's high word until the WriteCheckSum that  *)
(* follows; this must hold for every resident page whatever replays,     *)
(* failures, evictions and re-reads came before, and for every file.     *)
Intact(img) == img.trailer[1] = img.chk /\ img.trailer[2] = Lo32(img.lsn)
PageImagesIntact ==
    /\ \A f \in ToSet(lru) : Intact(data[f])
    /\ \A a \in Addrs : onDisk[a] => Intact(disk[a])

(* The page a file holds at page_id p describes itself as page p: the    *)
(* assert(mach_read_from_4(page_data + FIL_PAGE_OFFSET) == page_id) of   *)
(* WriteBack and WriteBackLock.  NewPage hands out a zeroed frame, so a  *)
(* new page written back before anything wrote its number breaks it.    *)
FilePagesNumbered == \A a \in Addrs : onDisk[a] => disk[a].pageNo = PageNo[a]

\* The resident addresses in order of their last check-out, newest first
ResidentByRecency == SelectSeq(recency, LAMBDA a : table[a] # NoFrame)

(* Spec 8, LRU correctness: an Evict iteration removes the page that was *)
(* least recently checked out (by GetPage, ReadPageFromDisk or NewPage)  *)
(* among the resident pages.                                              *)
LruEvictsOldest ==
    [][\A t \in Clients :
          EvictOne(t) => frameAddr[Last(lru)] = Last(ResidentByRecency)]_vars

=============================================================================
