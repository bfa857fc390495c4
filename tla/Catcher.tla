------------------------------- MODULE Catcher -------------------------------
(***************************************************************************)
(* The client-side interposer of client_module/catcher.cpp.  It is loaded  *)
(* into the database process in front of libc: pwrite to a data file never *)
(* reaches the file, it is kept in a process-wide page cache (class        *)
(* BufferPool: location_map_, free_list, buffer_, rw_lock_), and pread of  *)
(* a data file first reads the file (the server's copy, rebuilt by log     *)
(* replay) and then overlays every page the cache holds.                   *)
(*                                                                         *)
(* A page image is abstracted to a version number; every pwrite call       *)
(* carries a fresh, larger version.  Offsets and counts are in pages      *)
(* (the code computes offset / PAGE_SIZE and (offset + count) / PAGE_SIZE).*)
(* The server's copy of a page may lag the client's writes and catches up  *)
(* to one of the versions the client wrote (ServerReplay).                 *)
(***************************************************************************)
EXTENDS Naturals, Sequences, FiniteSets

CONSTANTS
    Threads,     \* database threads calling open/pread/pwrite/close
    Fds,         \* file descriptors orig_open may return
    DataFiles,   \* the paths of datafile_set
    SpaceOf,     \* [DataFiles -> space ids]: FIL_PAGE_ARCH_LOG_NO_OR_SPACE_ID of page 0
    NewFiles,    \* data files the process creates: page 0 is not in the file
                 \* until the server replays it
    Pages,       \* page ids 0..n-1 of every file
    PoolSize,    \* BUFFER_POOL_SIZE
    MaxCount,    \* most pages one pread/pwrite covers
    MaxWrites,   \* bound on pwrite calls
    AssertsOn,   \* whether assert() is compiled in (no NDEBUG)
    None

ASSUME /\ SpaceOf \in [DataFiles -> Nat \ {0}] /\ NewFiles \subseteq DataFiles
       /\ PoolSize \in Nat /\ MaxCount \in Nat \ {0} /\ MaxWrites \in Nat
       /\ AssertsOn \in BOOLEAN

Spaces == {SpaceOf[f] : f \in DataFiles}
\* what mach_read_from_4 may return: a file's id, or 0 from a zeroed page
SpaceIds == Spaces \cup {0}
Addr == SpaceIds \X Pages        \* PageAddress{space_id, page_id}
Frames == 0..(PoolSize - 1)
\* the page ranges one call may cover: [start, start + count)
Ranges == {r \in SUBSET Pages :
             /\ r # {} /\ Cardinality(r) <= MaxCount
             /\ \A i, j \in r : \A k \in Pages : i <= k /\ k <= j => k \in r}
First(r) == CHOOSE i \in r : \A j \in r : i <= j

VARIABLES
    fd2filename,  \* fd2filename: fd -> path, or None
    fd2spaceId,   \* fd2space_id: fd -> space id, or None
    locationMap,  \* BufferPool::location_map_: address -> frame, or None
    buffer,       \* BufferPool::buffer_[frame]: the page image held
    freeList,     \* BufferPool::free_list
    disk,         \* the server's copy of each page, read by orig_pread
    pc,           \* "idle", "read", "write", or "abort" (assert failed)
                  \* or "ub" (front() of an empty list)
    space,        \* space_id the current call read from fd2space_id
    file,         \* the file the current call's fd names (the file that
                  \* orig_pread reads, and whose pages the server replays)
    range,        \* the pages of the current call
    todo,         \* the pages the call's loop has still to visit
    buf,          \* the caller's buffer: page -> version
    wver,         \* the version the current pwrite carries
    nextVer,      \* versions handed out so far
    written,      \* history: versions written to each page
    acked,        \* history: newest version of a returned pwrite, per page
    snap          \* history: acked when the current pread began

vars == <<fd2filename, fd2spaceId, locationMap, buffer, freeList, disk, pc,
          space, file, range, todo, buf, wver, nextVer, written, acked, snap>>
fdVars == <<fd2filename, fd2spaceId>>
poolVars == <<locationMap, buffer, freeList>>
callVars == <<space, file, range, todo, buf, wver>>
histVars == <<nextVer, written, acked, snap>>

\* Mutant: the constructor numbers frames from 1
FreeFramesFromOne == [i \in 1..PoolSize |-> i]

\* BufferPool(pool_size): for i in 0..size-1, free_list.emplace_back(i)
FreeFrames == [i \in 1..PoolSize |-> i - 1]

(* BufferPool buffer_pool {BUFFER_POOL_SIZE}: every frame on the free     *)
(* list; no fd open; every thread outside the library.                    *)
Init ==
    /\ fd2filename = [fd \in Fds |-> None]
    /\ fd2spaceId = [fd \in Fds |-> None]
    /\ locationMap = [a \in Addr |-> None]
    /\ buffer = [f \in Frames |-> 0]
    /\ freeList = FreeFrames
    /\ disk = [a \in Addr |-> 0]
    /\ pc = [t \in Threads |-> "idle"]
    /\ space = [t \in Threads |-> None]
    /\ file = [t \in Threads |-> None]
    /\ range = [t \in Threads |-> {}]
    /\ todo = [t \in Threads |-> {}]
    /\ buf = [t \in Threads |-> [p \in Pages |-> 0]]
    /\ wver = [t \in Threads |-> 0]
    /\ nextVer = 0
    /\ written = [a \in Addr |-> {}]
    /\ acked = [a \in Addr |-> 0]
    /\ snap = [t \in Threads |-> [a \in Addr |-> 0]]

\* Mutant: PageAddress equality compares the page id only
CachedFrameAnySpace(a) ==
    IF \E s \in SpaceIds : locationMap[<<s, a[2]>>] # None
    THEN locationMap[CHOOSE b \in SpaceIds \X {a[2]} : locationMap[b] # None]
    ELSE None

\* location_map_.find(page_address)
CachedFrame(a) == locationMap[a]

\* is_data_file(fd): fd2filename has fd and its path is in datafile_set
IsDataFile(fd) == fd2filename[fd] \in DataFiles

\* the page address the file of fd really has (the server's key)
Home(fd, p) == <<SpaceOf[fd2filename[fd]], p>>

(* orig_pread(fd, first_page_buf, PAGE_SIZE, 0) then mach_read_from_4:   *)
(* the ids the read may yield.  A file the process created holds no page *)
(* 0 until the server replays it: a zeroed page gives 0, and a file      *)
(* shorter than a page leaves the stack buffer uninitialized, which may  *)
(* hold any id.                                                           *)
SpaceIdRead(f) ==
    IF f \in NewFiles /\ disk[<<SpaceOf[f], 0>>] = 0 THEN SpaceIds
                                                    ELSE {SpaceOf[f]}

-----------------------------------------------------------------------------
(* open/open64: orig_open returns a free fd; a data file's space id is     *)
(* read from its first page with orig_pread and remembered.                *)
Open(t, fd, path) ==
    /\ pc[t] = "idle" /\ fd2filename[fd] = None
    /\ fd2filename' = [fd2filename EXCEPT ![fd] = path]
    /\ \E s \in SpaceIdRead(path) : fd2spaceId' = [fd2spaceId EXCEPT ![fd] = s]
    /\ UNCHANGED <<poolVars, disk, pc, callVars, histVars>>

\* close: erase fd from fd2space_id and fd2filename, then orig_close
Close(t, fd) ==
    /\ pc[t] = "idle" /\ IsDataFile(fd)
    /\ fd2spaceId' = [fd2spaceId EXCEPT ![fd] = None]
    /\ fd2filename' = [fd2filename EXCEPT ![fd] = None]
    /\ UNCHANGED <<poolVars, disk, pc, callVars, histVars>>

(* pread on a data file: orig_pread fills the buffer from the file, then  *)
(* the loop over [start_page_id, end_page_id) overlays cached pages.      *)
PreadBegin(t, fd, r) ==
    /\ pc[t] = "idle" /\ IsDataFile(fd)
    /\ pc' = [pc EXCEPT ![t] = "read"]
    /\ space' = [space EXCEPT ![t] = fd2spaceId[fd]]
    /\ file' = [file EXCEPT ![t] = fd2filename[fd]]
    /\ range' = [range EXCEPT ![t] = r]
    /\ todo' = [todo EXCEPT ![t] = r]
    /\ buf' = [buf EXCEPT ![t] =
                 [p \in Pages |-> IF p \in r THEN disk[Home(fd, p)] ELSE 0]]
    /\ snap' = [snap EXCEPT ![t] = acked]
    /\ UNCHANGED <<fdVars, poolVars, disk, wver, nextVer, written, acked>>

(* Mutant: the file's copy is laid over the cached page, not under it     *)
OverlayFile(cached, fromFile) == fromFile

\* memcpy(dest_buf, buffer_[frame_id].GetData(), PAGE_SIZE) after orig_pread
Overlay(cached, fromFile) == cached

(* BufferPool::ReadPage under the shared lock: copy the cached frame, or  *)
(* reach the "unreachable" assert(false) when the page is not cached.     *)
ReadPage(t) ==
    LET p == First(todo[t])
        a == <<space[t], p>>
    IN /\ pc[t] = "read" /\ todo[t] # {}
       /\ todo' = [todo EXCEPT ![t] = @ \ {p}]
       /\ IF CachedFrame(a) # None
          THEN /\ buf' = [buf EXCEPT ![t][p] = Overlay(buffer[CachedFrame(a)], @)]
               /\ UNCHANGED pc
          ELSE /\ pc' = [pc EXCEPT ![t] = IF AssertsOn THEN "abort" ELSE "read"]
               /\ UNCHANGED buf
       /\ UNCHANGED <<fdVars, poolVars, disk, space, file, range, wver, histVars>>

\* the loop has ended: record the latency and return sz
PreadReturn(t) ==
    /\ pc[t] = "read" /\ todo[t] = {}
    /\ pc' = [pc EXCEPT ![t] = "idle"]
    /\ UNCHANGED <<fdVars, poolVars, disk, callVars, histVars>>

(* pwrite on a data file: the loop hands each page to WritePage.  The     *)
(* database never flushes a page from two threads at once (InnoDB io-fixes *)
(* a page while it writes it), so no other pwrite of these pages is open.  *)
PwriteBegin(t, fd, r) ==
    /\ pc[t] = "idle" /\ IsDataFile(fd) /\ nextVer < MaxWrites
    /\ \A u \in Threads : pc[u] = "write" =>
         file[u] # fd2filename[fd] \/ range[u] \cap r = {}
    /\ nextVer' = nextVer + 1
    /\ wver' = [wver EXCEPT ![t] = nextVer + 1]
    /\ pc' = [pc EXCEPT ![t] = "write"]
    /\ space' = [space EXCEPT ![t] = fd2spaceId[fd]]
    /\ file' = [file EXCEPT ![t] = fd2filename[fd]]
    /\ range' = [range EXCEPT ![t] = r]
    /\ todo' = [todo EXCEPT ![t] = r]
    /\ UNCHANGED <<fdVars, poolVars, disk, buf, written, acked, snap>>


(* BufferPool::WritePage under the unique lock: overwrite the cached      *)
(* frame, or take free_list.front() for a page not cached yet.  front()   *)
(* of an empty std::list is undefined behaviour.                          *)
WritePage(t) ==
    LET p == First(todo[t])
        a == <<space[t], p>>
        v == wver[t]
    IN /\ pc[t] = "write" /\ todo[t] # {}
       /\ todo' = [todo EXCEPT ![t] = @ \ {p}]
       /\ written' = [written EXCEPT ![<<SpaceOf[file[t]], p>>] = @ \cup {v}]
       /\ IF CachedFrame(a) # None
          THEN /\ buffer' = [buffer EXCEPT ![CachedFrame(a)] = v]
               /\ UNCHANGED <<locationMap, freeList, pc>>
          ELSE IF freeList = <<>>
          THEN /\ pc' = [pc EXCEPT ![t] = "ub"]
               /\ UNCHANGED <<locationMap, buffer, freeList>>
          ELSE /\ buffer' = [buffer EXCEPT ![Head(freeList)] = v]
               /\ locationMap' = [locationMap EXCEPT ![a] = Head(freeList)]
               /\ freeList' = Tail(freeList)
               /\ UNCHANGED pc
       /\ UNCHANGED <<fdVars, disk, space, file, range, buf, wver, nextVer,
                      acked, snap>>

\* the loop has ended: return count
PwriteReturn(t) ==
    /\ pc[t] = "write" /\ todo[t] = {}
    /\ pc' = [pc EXCEPT ![t] = "idle"]
    /\ acked' = [a \in Addr |->
                   IF a[1] = SpaceOf[file[t]] /\ a[2] \in range[t] /\ wver[t] > acked[a]
                   THEN wver[t] ELSE acked[a]]
    /\ UNCHANGED <<fdVars, poolVars, disk, callVars, nextVer, written, snap>>

(* The storage side replays the redo log of a page the client wrote, so  *)
(* the file's copy reaches one of the versions the client wrote.          *)
ServerReplay(a) ==
    /\ \E v \in written[a] :
         /\ v > disk[a]
         /\ disk' = [disk EXCEPT ![a] = v]
    /\ UNCHANGED <<fdVars, poolVars, pc, callVars, histVars>>

Next ==
    \/ \E t \in Threads :
         \/ \E fd \in Fds, f \in DataFiles : Open(t, fd, f)
         \/ \E fd \in Fds : Close(t, fd)
         \/ \E fd \in Fds, r \in Ranges : PreadBegin(t, fd, r) \/ PwriteBegin(t, fd, r)
         \/ ReadPage(t) \/ PreadReturn(t) \/ WritePage(t) \/ PwriteReturn(t)
    \/ \E a \in Addr : ServerReplay(a)

Spec == Init /\ [][Next]_vars

-----------------------------------------------------------------------------
TypeOK ==
    /\ fd2filename \in [Fds -> DataFiles \cup {None}]
    /\ locationMap \in [Addr -> Frames \cup {None}]
    /\ freeList \in Seq(Frames)
    /\ pc \in [Threads -> {"idle", "read", "write", "abort", "ub"}]
    /\ todo \in [Threads -> SUBSET Pages]
    /\ nextVer \in 0..MaxWrites

(* Read your writes: every page a pread has copied into the caller's      *)
(* buffer is at least as new as the newest pwrite of that page that had   *)
(* returned when the pread began (pread overlaying the cache on the       *)
(* lagging file, against WritePage's cache fill).                         *)
NoStaleRead ==
    \A t \in Threads :
      pc[t] = "read" =>
        \A p \in range[t] \ todo[t] : buf[t][p] >= snap[t][<<SpaceOf[file[t]], p>>]

(* No page of another file: every page a pread has copied into the      *)
(* caller's buffer is the file's own initial image or a version some     *)
(* pwrite wrote to that page of that same file.  The cache is keyed by   *)
(* the space id open read from page 0, the file and the server by the    *)
(* file itself; a wrong id makes two files share cache entries.          *)
NoForeignPage ==
    \A t \in Threads :
      pc[t] = "read" =>
        \A p \in range[t] \ todo[t] :
          buf[t][p] \in {0} \cup written[<<SpaceOf[file[t]], p>>]

(* WritePage never takes front() of an empty free list: the cache has a   *)
(* frame for every page the process writes (it never evicts).             *)
NoFreeListUnderflow == \A t \in Threads : pc[t] # "ub"

(* The "unreachable" branch of ReadPage is unreachable: a pread never     *)
(* asks the cache for a page it does not hold.                            *)
ReadPageNeverMisses == \A t \in Threads : pc[t] # "abort"
=============================================================================
