---------------------------- MODULE CatcherFilter ----------------------------
(***************************************************************************)
(* The second interposer, client_module/catcher_filter.cpp.  It keeps the  *)
(* data pages the process pwrites in a per-fd map local_buf: fd -> (a      *)
(* heap-allocated map offset -> page copy).  open allocates the fd's map,  *)
(* pread answers from it when it holds the offset, and close frees the     *)
(* map and its pages but leaves the fd's entry in local_buf.              *)
(*                                                                         *)
(* As in Catcher, a page image is a version, offsets are page ids, and the *)
(* file's copy of a page (the server's) lags the client's writes.  Every  *)
(* call is one step: nothing in this file takes a lock.                   *)
(***************************************************************************)
EXTENDS Naturals

CONSTANTS
    Threads,     \* database threads
    Fds,         \* file descriptors orig_open may return
    DataFiles,   \* the paths of datafile_set
    OtherFiles,  \* paths the database opens that are not data files
    Pages,       \* page-aligned offsets, as page ids
    MaxWrites,   \* bound on pwrite calls
    MaxMaps,     \* bound on the maps open allocates
    Closes,      \* whether the database closes data files at all
    OpenTwice,   \* whether it may hold two fds on one file at once
    None

ASSUME MaxWrites \in Nat /\ MaxMaps \in Nat /\ Closes \in BOOLEAN
       /\ OpenTwice \in BOOLEAN /\ DataFiles \cap OtherFiles = {}

Maps == 1..MaxMaps

VARIABLES
    fd2filename,  \* fd2filename
    localBuf,     \* local_buf: fd -> map, or None when fd is no key
    cache,        \* *local_buf[fd]: map -> (page -> version, 0 = no entry)
    live,         \* whether a map has been allocated and not deleted
    nextMap,      \* maps allocated so far
    disk,         \* the server's copy of each page, read by orig_pread
    uaf,          \* some call went through a deleted map
    nextVer,      \* versions handed out so far
    written,      \* history: versions written to each page
    acked,        \* history: newest version a returned pwrite wrote
    got           \* history: per thread, the last pread's result and the
                  \* acked version of its page when it was called

vars == <<fd2filename, localBuf, cache, live, nextMap, disk, uaf, nextVer,
          written, acked, got>>

Files == DataFiles \cup OtherFiles
Addr == Files \X Pages

Init ==
    /\ fd2filename = [fd \in Fds |-> None]
    /\ localBuf = [fd \in Fds |-> None]
    /\ cache = [m \in Maps |-> [p \in Pages |-> 0]]
    /\ live = [m \in Maps |-> FALSE]
    /\ nextMap = 0
    /\ disk = [a \in Addr |-> 0]
    /\ uaf = FALSE
    /\ nextVer = 0
    /\ written = [a \in Addr |-> {}]
    /\ acked = [a \in Addr |-> 0]
    /\ got = [t \in Threads |-> [val |-> 0, need |-> 0]]

\* is_data_file(fd)
IsDataFile(fd) == fd2filename[fd] \in DataFiles

\* Mutant: the map is numbered before the allocation is counted
NewMapUncounted == nextMap

\* new std::unordered_map<off_t, char*>: the next map
NewMap == nextMap + 1

\* local_buf.emplace(fd, tmp_map): no effect when fd already is a key
Register(lb, fd, m) == IF lb[fd] = None THEN [lb EXCEPT ![fd] = m] ELSE lb

(* open/open64: remember the name; for a data file also read the space   *)
(* id and allocate a new, empty map for the fd.                           *)
Open(fd, f) ==
    /\ fd2filename[fd] = None
    /\ OpenTwice \/ \A g \in Fds : fd2filename[g] # f
    /\ fd2filename' = [fd2filename EXCEPT ![fd] = f]
    /\ IF f \in DataFiles
       THEN /\ nextMap < MaxMaps
            /\ nextMap' = nextMap + 1
            /\ live' = [live EXCEPT ![NewMap] = TRUE]
            /\ localBuf' = Register(localBuf, fd, NewMap)
       ELSE UNCHANGED <<nextMap, live, localBuf>>
    /\ UNCHANGED <<cache, disk, uaf, nextVer, written, acked, got>>

\* fd2filename.erase(fd)
EraseName(names, fd) == [names EXCEPT ![fd] = None]

(* close: for a data file, free every page of the fd's map and delete the *)
(* map (the fd stays a key of local_buf); then erase the name.            *)
Close(fd) ==
    /\ fd2filename[fd] # None
    /\ IsDataFile(fd) => Closes
    /\ IF ~IsDataFile(fd) \/ localBuf[fd] = None
       THEN UNCHANGED <<live, cache, uaf>>
       ELSE /\ uaf' = (uaf \/ ~live[localBuf[fd]])
            /\ live' = [live EXCEPT ![localBuf[fd]] = FALSE]
            /\ cache' = [cache EXCEPT ![localBuf[fd]] = [p \in Pages |-> 0]]
    /\ fd2filename' = EraseName(fd2filename, fd)
    /\ UNCHANGED <<localBuf, nextMap, disk, nextVer, written, acked, got>>

\* Mutant: the lookup never finds the offset
CachedNever(m, p) == 0

\* tmp->find(offset): the cached page, or 0 for no entry
Cached(m, p) == IF m = None THEN 0 ELSE cache[m][p]

(* pread on an open fd of any file: when the fd is a key of local_buf     *)
(* (the only test the code makes) and its map has the offset, copy the    *)
(* cached page; otherwise orig_pread reads the file.  A key left by a     *)
(* closed data file is still a key when the fd now names another file.    *)
Pread(t, fd, p) ==
    LET a == <<fd2filename[fd], p>>
        m == localBuf[fd]
        hit == Cached(m, p) # 0
    IN /\ fd2filename[fd] # None
       /\ uaf' = (uaf \/ (m # None /\ ~live[m]))
       /\ got' = [got EXCEPT ![t] = [val |-> IF hit THEN Cached(m, p) ELSE disk[a],
                                     need |-> acked[a]]]
       /\ UNCHANGED <<fd2filename, localBuf, cache, live, nextMap, disk,
                      nextVer, written, acked>>

(* pwrite of a data file: update the cached page or insert a copy of it; *)
(* with no map for the fd the page is dropped with a message.  Either way *)
(* the call returns count.                                                *)
Pwrite(t, fd, p) ==
    LET a == <<fd2filename[fd], p>>
        m == localBuf[fd]
        v == nextVer + 1
    IN /\ IsDataFile(fd) /\ nextVer < MaxWrites
       /\ nextVer' = v
       /\ IF m = None
          THEN UNCHANGED <<cache, uaf, written>>
          ELSE /\ cache' = [cache EXCEPT ![m][p] = v]
               /\ uaf' = (uaf \/ ~live[m])
               /\ written' = [written EXCEPT ![a] = @ \cup {v}]
       /\ acked' = [acked EXCEPT ![a] = v]
       /\ UNCHANGED <<fd2filename, localBuf, live, nextMap, disk, got>>

\* the storage side replays the log of a page the client wrote
ServerReplay(a) ==
    /\ \E v \in written[a] :
         /\ v > disk[a]
         /\ disk' = [disk EXCEPT ![a] = v]
    /\ UNCHANGED <<fd2filename, localBuf, cache, live, nextMap, uaf, nextVer,
                   written, acked, got>>

Next ==
    \/ \E fd \in Fds :
         \/ \E f \in Files : Open(fd, f)
         \/ Close(fd)
         \/ \E t \in Threads, p \in Pages : Pread(t, fd, p) \/ Pwrite(t, fd, p)
    \/ \E a \in Addr : ServerReplay(a)

Spec == Init /\ [][Next]_vars

-----------------------------------------------------------------------------
TypeOK ==
    /\ fd2filename \in [Fds -> Files \cup {None}]
    /\ localBuf \in [Fds -> Maps \cup {None}]
    /\ cache \in [Maps -> [Pages -> 0..MaxWrites]]
    /\ nextMap \in 0..MaxMaps
    /\ got \in [Threads -> [val : 0..MaxWrites, need : 0..MaxWrites]]

(* Read your writes: a pread returns a page at least as new as the last   *)
(* pwrite of that page that returned before it (the per-fd map, its       *)
(* loss at close, and a second fd on the same file).                      *)
NoStaleRead == \A t \in Threads : got[t].val >= got[t].need

(* No pread, pwrite or close goes through a map that close has deleted    *)
(* (close frees the map but leaves local_buf[fd]; open's emplace then     *)
(* keeps the dangling pointer for a reused fd).                           *)
NoUseAfterFree == ~uaf
=============================================================================
