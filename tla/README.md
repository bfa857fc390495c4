# TLA+ models of the LogDB redo-log applier

This directory holds TLA+ models of the server-side redo-log applier of
LogDB (`src/server-module`). They are checked with TLC. The log parser
hands redo-log entries to an apply index. A scheduler thread and worker
threads drain that index segment by segment and replay the entries onto
buffer-pool pages. An external page reader may pull a page's pending
entries out of the index ahead of the pipeline.

## 1. Inventory of the system

| Part | Source | State | Operations |
|---|---|---|---|
| ApplyIndex | `include/applier/log_log.h` 143-279 | `index_`: a deque of `IndexSegment`s. Each segment holds `index_segment_` (page address → entry list) and `total_log_len_`. There is one mutex `lock_` and two condition variables, `index_not_empty_cond_` and `front_full_cond_`. | `InsertBack`, `ExtractFront`, `ExtractFrontHint`, `DeleteFrontSegment`, `Search` |
| Applier slots | `log_log.h` 87-102, `log_log.cpp` 24 | `log_appliers[APPLIER_THREAD]`, each with `logs`, `is_running`, `need_process`, `mutex`, `need_process_cond` | — |
| Scheduler / worker pool | `applier/log_apply.cpp` 19-39, 124-224 | as above, plus `log_group.applied_isn` and `written_capacity` | `log_apply_thread_start`, `log_apply_scheduler_routine`, `log_apply_scheduler_acquire`, `log_apply_worker_work`, `log_apply_all_idle` |
| LogReplayer | `log_apply.cpp` 41-122 | page image, `FIL_PAGE_LSN` | `log_apply_do_apply`, `log_apply_apply_one_log` (dispatch on log type) |
| BufferPool | `applier/buffer_pool.cpp`, `include/applier/buffer_pool.h` | frames, `free_list_`, `lru_list_`, page table, pool mutex, per-page lock, dirty flag | `GetPage`, `NewPage`, `Evict`, `ReadPageFromDisk`, `WriteBack`, `WriteBackLock`, `CopyPage`, `ReleasePage` |
| RecordCodec | `applier/record.cpp`, `bean.cpp`, `include/applier/record.h` | a record's header bytes; `RecordInfo`'s `fields_`, `n_nullable_`, `offsets_` | header bit-field getters and setters, `AddField`, `CalculateOffsets`, `InitOffsetsCompOrdinary`, `GetExtraSize`, `GetDataSize`, `rec_get_nth_field_offs` |
| ByteCodec, log addresses | `applier/utility.cpp`, `include/applier/utility.h`, `log_log.cpp` | (pure) | `mach_read_*`, `mach_parse_compressed`, `mach_u64_parse_compressed`, `recv_calc_lsn_on_data_add`, `log_group_off_to_log_buf_off` |
| DataPageGroup | `log_log.cpp` 75-116 | registered tablespaces | `Insert`, `Exist` |
| Client catcher | `client_module/catcher.cpp` | fd maps, client page cache (`free_list`, `location_map_`, `buffer_`) | `open`, `close`, `pread`/`pwrite` interposition, `WritePage`, `ReadPage` |
| Client filter | `client_module/catcher_filter.cpp` | `fd2filename`, `local_buf` (fd → heap-allocated page map) | `open`, `close`, `pread`, `pwrite` |
| Log parser, log writer | not in this repository (spec 2, 4.3) | parse and write positions | produce `InsertBack` calls; receive `log_write_condition` |

How the parts interact:
- The parser calls `InsertBack`.
- The scheduler blocks in `ExtractFrontHint` until the front segment is full. It round-robins the segment's addresses over `log_appliers[i].logs`, sets `need_process` and signals each slot, and then works slot 0 itself.
- A worker calls `ExtractFront(addr)` for each of its addresses and then `log_apply_do_apply`. That function uses `BufferPool::GetPage`/`NewPage`, replays, and then calls `WriteBackLock` and `ReleasePage`.
- The scheduler spins until every slot is idle and then adds the segment's byte total to `applied_isn`.
- A page reader (spec 4.3) calls `Search(addr)` and replays what it got.

The hard behaviours:
- The scheduler, the workers, the parser and the reader interleave on one index lock and three kinds of condition variable.
- `pthread_cond_signal` wakes only one waiter.
- The page LSN is read once before the replay loop.
- `Search` bypasses FIFO order and leaves emptied segments in place.
- The all-idle spin races with `is_running`, which a worker sets only after it wakes.
- The thread-start loop decides which thread works which slot.
- The buffer pool takes the pool lock and page locks in both orders.

The properties each part should have:
- **ApplyIndex:** a segment stays within its byte budget (spec 3 and 8). No entry is lost or duplicated. No waiter stays asleep while its condition holds.
- **Scheduler / workers:**
  - Every full segment is eventually drained.
  - `applied_isn` never counts bytes that have not left the index.
  - Every slot's addresses are worked.
- **LogReplayer:** no update is lost, meaning that an entry that is not in the page image and has been passed by the page LSN has been replayed. The LSN is monotonic (spec 8).
- **BufferPool:** LRU eviction order, no deadlock, no eviction of a locked page, and write-back of a clean page is a no-op (spec 8).
- **Codecs:** round trips, and record offsets that match the spec 8 formula.

## 2. Modules

### `ApplyIndex.tla`

This module models the index of `log_log.h`. Each operation runs under `lock_` and is one step. It is written as operators over an index value, so that the thread module can compose it:
- `SegInsert`, `SegFull`, `SegExtract`, `SegHint` and `SegEmpty` model the `IndexSegment` methods.
- `InsertBackIdx`, `ExtractFrontIdx`/`ExtractFrontList`, `SearchIdx`/`SearchLists` and `DeleteFrontSegment` model the `ApplyIndex` methods.
- `SignalsNotEmpty` and `SignalsFrontFull` say when `InsertBack` signals.

An absent map key is the empty list. The entry lists are sequences of records `[addr, lsn, len, type]`; `type` ranges over the model values `LogTypes`. The module also has a small standalone specification: a parser and one consumer. `MCApplyIndex` instantiates it.

### `LogApply.tla`

This is the main module. It composes ApplyIndex (`AI == INSTANCE ApplyIndex`) with the threads of `log_apply.cpp`:

| Code | Model |
|---|---|
| threads started by `log_apply_thread_start` | `Sched` and `Worker(i)` for `i \in Started(0, NThreads-1)`. The recursive `Started` reproduces the loop, including its `n_thread--`. |
| `log_appliers[i]` | `logs`, `needProcess`, `isRunning`, `owner` (the slot mutex), `condWait` (waiters on `need_process_cond`) |
| waiters on the index's conditions | `neWait`, `ffWait` |
| `pthread_cond_signal` | `WaitSets` chooses one waiter to remove. The woken thread's `pc` goes back to its loop test. |
| `log_apply_scheduler_acquire` / `ExtractFrontHint` | `SchedAcquire`, `SchedWaitNotEmpty`, `SchedWaitFull`, `SchedTakeHint`. The hint's order is any order of the segment's address set (the unordered_map order is unspecified). |
| round robin / wake loop | `SchedAssign` (`RoundRobin`), `SchedWake` (one slot per step, under the slot mutex) |
| idle spin + `applied_isn += need_to_apply` | `SchedAccount` |
| `log_apply_worker_work` | `WorkerStart`, `WorkerSleep`, `WorkerWaitIndex`, `WorkerExtract`, `WorkerApply`, `WorkerFinish`. The scheduler runs them for slot 0. |
| `log_apply_do_apply` | `DoApply` / `Replay` / `ReplayStep`. It drops the list when the space is not registered, reads the page LSN once, skips `page_lsn > lsn`, and otherwise calls `log_apply_apply_one_log`: an entry whose type is in `Handled` sets the LSN to `lsn + len`; any other type returns `false`, which the loop ignores, and the entry lands in `failed` with the page LSN left alone. The page is then on disk (`WriteBackLock`). |
| parser | `InsertBack(a, l, ty)` with increasing LSNs, bounded by `MaxLsn` |
| page reader (spec 4.3) | `ReaderSearch`, `ReaderApply` (only when `ReaderOn`) |

A page is abstracted to its LSN. Its content is represented by the history sets `applied`, `skipped` and `dropped`. `do_apply` holds the page lock from `GetPage` to `ReleasePage`, and LogApply takes it as one atomic step. With `ReaderOn` (run `apply_reader`) the page reader's replay also goes through the buffer pool, so the atomic step hides the interleavings inside the pool: the page lock taken under `lock_` and the gap between `GetPage` and `NewPage`. Those interleavings are checked in BufferPool, which is modelled on its own (see §5).

### `BufferPool.tla`

This module models `buffer_pool.cpp` and the threads that use it.

**State:**
- `lru` (`lru_list_`, most recent first), `free` (`free_list_`) and `table` (`hash_map_`)
- `frameAddr` and `inLru` (`frame_id_2_page_address_`)
- per frame: `data` (the page image), `dirty` (`dirty_`) and `pageOwner` (`Page::mutex_`)
- `poolOwner` (`lock_`)
- `disk` and `onDisk` (the tablespace file and whether the page lies inside it)

**Page images.** An image is a record of the four fields the pool and the replay touch: the checksum at `FIL_PAGE_SPACE_OR_CHKSUM`, the page number `FIL_PAGE_OFFSET`, `FIL_PAGE_LSN`, and the 8-byte trailer (its first 4 bytes are the old-style checksum, and its last 4 are the low 32 bits of the LSN). `WritePageLSN` writes the LSN and the trailer's low half through `mach_write_to_8` (`Hi32`/`Lo32`). `WriteCheckSum` writes both checksum fields. A file page holds `PageNo[a]` and the checksum `FileChecksum`. `NewPage` hands out a zeroed frame (`ZeroImage`).

**Replay.** `Replay(t, k)` is the loop of `log_apply_do_apply` for one entry, where `k` is taken from `ApplyKinds`:
- `"init"`: an `MLOG_INIT_FILE_PAGE2`-like record that rebuilds the page with its number (`ApplyOne`, spec-modelled);
- `"write"`: a record that leaves these four fields alone;
- `"fail"`: `log_apply_apply_one_log` returns false, and the page is left alone.

A success then calls `SetLSN` and `SetCheckSum(BUF_NO_CHECKSUM_MAGIC)`, in that order (`ApplySucceeded`).

**Clients.** "apply" clients run the page part of `log_apply_do_apply`: `GetPage`, then `NewPage` on nullptr, replay, `WriteBackLock`, `ReleasePage`. "copy" clients run `CopyPage`, the routine behind `copy_page_to_buf`.

**Steps.** A section under `lock_` is one step up to the point where it blocks on a page lock. That point is a step of its own (`GetPageLock`, `EvictOne`), because the code waits there while it holds `lock_`.

**Evict.** `Evict(64)` is a loop of `EvictOne` (lock the tail page, write it back if dirty, free its frame) and ends with `EvictDone`. `dirty_` is never cleared and is not reset when a frame is reused, exactly as in the code.

**History variables:**
- `latest`: the newest version any replay produced
- `recency`: addresses in order of last check-out
- `started`: bounds the number of `do_apply` calls by `MaxApplies`

`MCBufferPool` gives the client layouts.

### `Catcher.tla`

This module models `client_module/catcher.cpp`, the interposer loaded into the database process. A `pwrite` to a data file never reaches the file: `WritePage` keeps each page in a process-wide cache (`location_map_`, `free_list`, `buffer_`). A `pread` first reads the file, which holds the server's copy, and then overlays every page the cache holds (`ReadPage`).
- `Open`/`Close` maintain `fd2filename` and `fd2spaceId`. `Open` takes the space id from page 0 of the file on the server (`SpaceIdRead`). For a file in `NewFiles`, one the process creates, that page is not there until the server replays it. The id is then 0, or any id when the file is shorter than a page and the stack buffer stays uninitialized.
- The cache is keyed by the id `open` read (`space`). The file and the history variables are keyed by the file's own id (`file`, `Home`), so a wrong id shows as two files sharing cache entries.
- `PreadBegin`, `ReadPage` (one page per step), `PreadReturn`, `PwriteBegin`, `WritePage` and `PwriteReturn` are the calls, split where the code takes `rw_lock_` per page.
- `ServerReplay` (from the spec) moves the server's copy of a page to one of the versions the client wrote.
- A page image is a version number; each `pwrite` carries a fresh, larger one. The history variables `written`, `acked` and `snap` record what had returned when a `pread` began.
- `pc = "ub"` marks `front()` of an empty free list and `pc = "abort"` the "unreachable" branch of `ReadPage`.

### `CatcherFilter.tla`

This module models `client_module/catcher_filter.cpp`. `local_buf` maps an fd to a heap-allocated map from offset to page copy. `open` allocates the map with `emplace`, `pread` answers from it when it holds the offset, `pwrite` stores into it, and `close` deletes the map and its pages but leaves `local_buf[fd]`. Each call is one step, because the file takes no lock. `live` says which maps are allocated; `uaf` records a call through a deleted map. `Closes` and `OpenTwice` say which database behaviours a configuration allows. `open` of a path in `OtherFiles` (a log or temporary file) only records the name. `pread` is taken on any open fd and tests only `local_buf.find(fd)`, as the code does, so an fd reused for another file still reaches a map left by a closed data file.

### `RecordFields.tla` and `RecordHeader.tla`

`RecordFields` is the abstract specification of InnoDB's compact record header. Each record has info flags, `n_owned`, a status, a heap number and the page offset of the next record. A setter changes exactly the field it names, to exactly its argument.

`RecordHeader` models the five header bytes below a record's origin and the getters and setters of `record.cpp`: the `rec_get/set_bit_field_1/2` helpers and the big-endian `mach_read/write_to_1/2`. Every setter is one step. The relative `next` field is written as `(next - origin) & 0xFFFF` and read back modulo the page size. `RF == INSTANCE RecordFields WITH fields <- [r \in Recs |-> Decode(r)]` is the refinement mapping, and `Decode` is what the getters read. `MCRecordHeader` starts from the images that `infimum_supremum_compact` gives a fresh page.

### `ByteCodec.tla`

This module models InnoDB's compressed integers in `utility.cpp`: `mach_parse_compressed`, `mach_read_next_compressed` and `mach_u64_parse_compressed`. A reader takes the fields of one record body from a buffer, one call per field, and stops when a call sets the pointer to nullptr. The buffer is the reference encoding of the field values (`EncodeC32`, from InnoDB's writer), cut at every length. `read` records the highest byte any call touched. A 64-bit value is the pair `<<high, low>>`, because TLC integers are 32-bit.

### `LogOffsets.tla`

This module models the redo log's address arithmetic:
- `recv_calc_lsn_on_data_add` (`utility.cpp`) advances an LSN over data bytes, skipping block headers and trailers.
- `log_group_off_to_log_buf_off` (`log_log.cpp`) maps a log-group offset to a log-buffer offset.

A writer appends records of the lengths in `Lens`. Both functions are compared with `RefLsn`/`RefGroupOff`, a direct computation of where the n-th data byte lies.

### `RecordOffsets.tla`

This module models `RecordInfo` of `bean.cpp`.
- `DefineField` calls `AddField` once per column of an index, in order. `AddField` works out the fixed length, counts `n_nullable_` from the type as passed, and then forces `DB_TRX_ID`/`DB_ROLL_PTR` to be system columns.
- `StoreRecord` (from the spec) places a record below its origin. The record is encoded by the reference encoder `Encode`, which lays out the null bitmap and the one- or two-byte lengths, as InnoDB's writer does. `StoreRecord` then calls `CalculateOffsets(max_n)`.
- `CalculateOffsets` is the code up to its loop:
  - the count by status, capped at `max_n`;
  - the resize of `offsets_`;
  - the infimum/supremum entries;
  - the return that clears `offsets_` for an unknown status.
- `OrdinaryStep` is one iteration of `InitOffsetsCompOrdinary`'s do-while, and `NodePtrStep` is one iteration of the node-pointer loop. `ReadField` is the loop body they share. On the last field, each writes the header entry `offsets_[4]`.
- An entry of `offsets_` is a record `[v, b31, b30]`. The high bits `REC_OFFS_SQL_NULL`/`REC_OFFS_COMPACT` and `REC_OFFS_EXTERNAL` are flags, because TLC integers are 32-bit.
- `Put` keeps a write inside the vector, and `oob` records a write past its end.
- `rec_get_nth_field_offs`, `GetExtraSize` and `GetDataSize` are the readers. `rec_offs_nth_sql_null` reads an entry's SQL-null flag.
- Redundant (old-style) records of `record.cpp`: `StoreOldRecord` (from the spec) stores a row of `OldRows` encoded by `EncodeOld`, InnoDB's `rec_convert_dtuple_to_rec_old`, with one- or two-byte end offsets chosen by `rec_get_1byte_offs_flag`. The getters `rec_1/2_get_field_start_offs`, `rec_get_nth_field_size` and `rec_1/2_get_field_end_info` read the header bytes through `mach_read_from_1/2` (`Bitwise` for the masks). `SetSqlNull(n)` and `SetNullBit(n, val)` are `rec_set_nth_field_null_bit` and the `rec_1/2_set_field_end_info` setters it calls.

## 3. Properties

| Module | Property | Kind | What it says |
|---|---|---|---|
| LogApply | `TypeOK` | type invariant | Every variable has its type. |
| LogApply | `EntryConservation` | invariant | Every produced entry is in exactly one place: in one segment, held by one thread, or applied, skipped or dropped. |
| LogApply | `NoLostUpdate` | invariant | An entry of a registered page that is newer than the page's image at start, and that is skipped or lies below the page LSN, has been replayed. |
| LogApply | `AppliedIsnSound` | invariant | `applied_isn` is at most the bytes of entries that have left the index. |
| LogApply | `PageLsnIsLastApplied` | invariant | The LSN of every registered page is the end of the newest entry replayed on it, or its initial LSN; an entry that failed to decode never moves it. |
| LogApply | `NoLostWakeup` | invariant | No thread waits on `index_not_empty_cond_` while the index is non-empty, nor on `front_full_cond_` while the front is full. |
| LogApply | `FrontExistsAfterFullWake` | invariant | A scheduler woken from `front_full_cond_` finds a front segment, so `ExtractFrontHint`'s `front()` is defined (`log_log.h` 246). |
| LogApply | `FullSegmentsDrained` | liveness | Every entry in a full segment eventually leaves the index. |
| ApplyIndex | `SegmentWithinBudget` | invariant (spec 3) | No segment's total exceeds `APPLY_BATCH_SIZE`. |
| BufferPool | `NoDeadlock` | invariant | The waits-for graph over `lock_` and the page locks has no cycle. |
| BufferPool | `NoNullDeref` | invariant | No client uses a null `Page*`. |
| BufferPool | `PoolConsistent` | invariant | Free and LRU lists partition the frames, `in_lru_` agrees, the page table and the frame map are inverse, and no free frame is locked. |
| BufferPool | `Persisted` | invariant | Once no replay of a page is pending release, its newest version is in the file, and a cached copy equals it. |
| BufferPool | `PageImagesIntact` | invariant | Every cached frame and every file page has a trailer that agrees with its header: the old-style checksum equals the checksum field, and the low LSN half equals the LSN. |
| BufferPool | `FilePagesNumbered` | invariant (reproduction only) | Every page in the file carries its own page number. |
| BufferPool | `LruEvictsOldest` | action property (spec 8) | Each `Evict` iteration removes the least recently checked-out resident page. |
| Catcher | `NoStaleRead` | invariant | A `pread` returns each page at least as new as the newest `pwrite` of it that had returned when the `pread` began. |
| Catcher | `NoForeignPage` | invariant | A `pread` never returns a page that was written to another file: each page is the file's own initial image or a version a `pwrite` wrote to that page of that file. |
| Catcher | `NoFreeListUnderflow` | invariant (reproduction only) | `WritePage` never takes `front()` of an empty free list. |
| Catcher | `ReadPageNeverMisses` | invariant | `ReadPage`'s "unreachable" branch is not reached. |
| CatcherFilter | `NoStaleRead` | invariant | Read your writes through the per-fd map. |
| CatcherFilter | `NoUseAfterFree` | invariant (reproduction only) | No call goes through a map that `close` has deleted. |
| RecordHeader | `RefinesRecordFields` | refinement | The header bytes, read through the getters, implement `RecordFields!Spec`. |
| ByteCodec | `ParsedAsEncoded` | invariant | Every call returns the encoded value and advances by its encoded size, and nullptr comes only when the field does not fit. |
| ByteCodec | `NoOverread` | invariant | No call reads at or past `end_ptr`. |
| LogOffsets | `LsnAtDataByte` | invariant | After any records, the LSN is exactly at the next data byte. |
| LogOffsets | `BufOffIsDataCount` | invariant | The log-buffer offset of the next data byte is the number of data bytes before it, and the asserts hold. |
| RecordOffsets | `OffsetsMatchRecord` | invariant | After `CalculateOffsets`, each counted field's start, length or `UNIV_SQL_NULL`, SQL-null flag and external flag are those of the stored record. `GetExtraSize` and `GetDataSize` are its header size up to the last counted field and its data size. |
| RecordOffsets | `OldFieldsMatchRecord` | invariant | For a redundant record, after any sequence of null-setter calls, each field's start, size and null/extern flags read through the getters are those of the row the setters describe. |
| RecordOffsets | `NoOffsetsOverflow` | invariant | No write falls outside `offsets_`. |

## 4. Runs

The runs are listed in `PROJECT.json`.

| Run | Config | Result | What it shows |
|---|---|---|---|
| apply_shipped | `LogApplyShipped.cfg`: `NThreads=1` as shipped, 2 pages (one on disk with LSN 1, one new), `MaxLsn=5`, no reader | pass | The shipped pipeline is correct and live. |
| apply_reader | `LogApplyReader.cfg`: the reader, an unregistered third page, `NThreads=2`, `BatchSize=3`, `Lens={1}`, `MaxLsn=3`, one unhandled log type | pass | No entry is lost or duplicated when a reader races the round, no wakeup is lost, a failed decode never moves the page LSN, and a full-front wakeup always finds a front segment. |
| four_slots_idle_race | `LogApplyFourSlotsIdleRace.cfg`: `NThreads=4`, `Lens={1}`, `MaxLsn=4` | violation | The scheduler's all-idle spin passes before a woken worker has set `is_running`, so `applied_isn` counts an entry still in the index (`log_apply.cpp` 130). |
| bp_apply_and_copy | `BufferPoolMixed.cfg`: a `do_apply` thread over a cached, an evicted and a new page, and a `CopyPage` thread on a third page, 2 frames, 6 applies | pass | The pool's bookkeeping, durability across eviction and re-read, LRU order and the agreement of page header and trailer hold under both clients, with init, write and failed replays. |
| bp_evict_deadlock | `BufferPoolEvictDeadlock.cfg`: apply and copy threads on distinct pages, 2 frames | violation | The copy thread's `Evict` waits under `lock_` for the page the apply thread holds, and that thread waits for `lock_` in `WriteBackLock`. |
| bp_new_page_race | `BufferPoolNewPageRace.cfg`: two apply threads on a page not in its file | violation | Both miss in `GetPage`. The second `NewPage` returns nullptr, which `do_apply` dereferences. |
| catcher_read_your_writes | `CatcherReadYourWrites.cfg`: 2 threads, 2 files opened in turn on one fd, 2 pages each, single-page calls, 2 writes, 4 frames | pass | `pread`'s overlay gives read-your-writes against a lagging server copy, and no file sees another's pages, while every file's page 0 holds its id. |
| filter_open_files | `FilterOpenFiles.cfg`: 2 threads, one fd, one data file and one other file, closes allowed, one map (no reopen of the data file) | pass | The filter's per-fd map gives read-your-writes, across closes and an fd reused for a file that is not a data file. |
| record_header_setters | `RecordHeaderSetters.cfg`: the supremum record of a fresh page, every setter with in-range, boundary and wrapping arguments | pass | The byte-level header refines the field-level record. |
| byte_codec_fields | `ByteCodecFields.cfg`: two-field bodies of every layout, each value at a form boundary, cut at every length | pass | The parsers decode what was encoded and never over-read. |
| log_offsets_writer | `LogOffsetsWriter.cfg`: files of 8 blocks, records of 1 to 497 bytes, up to 4500 data bytes | pass | The LSN and log-buffer arithmetic cross block and file boundaries correctly. |
| record_offsets | `RecordOffsetsDecode.cfg`: a clustered index (key, `DB_TRX_ID`, `DB_ROLL_PTR`, a short and a big nullable column) and a secondary index with 10 nullable columns; every row they admit; statuses 0-3 and 5; `max_n` 2 or `ULINT_UNDEFINED` | pass | `offsets_` locates every field of the record: null bits across bytes, one- and two-byte lengths, external flags, node pointers and the cap at `max_n`. The redundant-record getters and setters agree with the rows in `OldRows`. |

**Further reproductions.** These configurations are kept beside the runs and each ends in a counterexample:
- `FilterFdReuseUseAfterFree.cfg` (`NoUseAfterFree`): the data file is closed and its fd number is reused for a file that is not a data file. `pread` tests only `local_buf.find(fd)`, so it goes through the freed map (`catcher_filter.cpp` 230-232, 5 states).
- `FilterReopenUseAfterFree.cfg` (`NoUseAfterFree`): `close` deletes the fd's map but never erases `local_buf[fd]`. When the fd number is reused for the file, `open`'s `emplace` keeps the dangling pointer, and the next call dereferences freed memory (`catcher_filter.cpp` 352-356).
- `FilterStaleAfterClose.cfg` (`NoStaleRead`): the filter's pages are the only copy of acknowledged writes, and `close` drops them.
- `CatcherPoolExhausted.cfg` (`NoFreeListUnderflow`): the property holds only while the pool has a frame per page written, as in `catcher_read_your_writes`. With fewer frames than written pages, `WritePage` takes `front()` of an empty free list.
- `CatcherNewFileAlias.cfg` (`NoForeignPage`): f1 is created by the process, so `open` reads its space id from a page 0 that is not yet in the file. TLC picks f2's id, and a `pread` of f1 returns the page a `pwrite` of f2 cached (8 states, `catcher.cpp` 297-299).
- `CatcherReadMiss.cfg` (`ReadPageNeverMisses`): the assert in `ReadPage` fires.
- `BufferPoolSharedDeadlock.cfg` (`NoDeadlock`): `GetPage`'s page lock under `lock_` deadlocks against `WriteBackLock` on one shared page.
- `ApplyIndexBudget.cfg` (`SegmentWithinBudget`): the comment at `log_log.h` 193 and spec §3 say a segment holds at most `APPLY_BATCH_SIZE` bytes of log, but `Insert` tests the budget before it adds. Two inserts of lengths 1 and 2, with budget 2, leave a segment with total 3.
- `LogApplyReaderNoLostUpdate.cfg` (`NoLostUpdate`):
  - The reader Searches page a2's entry at LSN 0.
  - The parser adds a2's entry at LSN 1, and the applier replays it.
  - The reader's late replay skips LSN 0.
- `LogApplyReaderAppliedIsnSound.cfg` (`AppliedIsnSound`): Search empties the full front segment, and the scheduler hints it again and counts it twice.
- `LogApplyDecodeFailureLost.cfg` (`NoLostUpdate`): an entry of an unhandled type fails, and the next entry of the same page moves the page LSN past it, so the update is lost for good.
- `LogApplyFullWakeEmpty.cfg` (`FrontExistsAfterFullWake`): with four slots and `MaxLsn=5`, the idle race of `four_slots_idle_race` lets the scheduler count an entry twice. A later full-front wakeup then finds the index empty, and `ExtractFrontHint` calls `front()` of an empty list (33 steps).
- `BufferPoolNewPageZeroed.cfg` (`FilePagesNumbered`): a page not in its file gets a zeroed frame from `NewPage`. A replay that does not rebuild the page leaves page number 0, and `WriteBackLock` writes it to the file (8 states). Whether the external log always starts such a page with an init record lies outside the repository, so this is kept as a reproduction.
- `LogApplyTwoSlots.cfg` is a passing configuration with `NThreads=2` (`EntryConservation`, `NoLostUpdate`).
- `LogApplyTwoSlotsDrained.cfg` (`FullSegmentsDrained`): the worker thread takes slot 0's round. The scheduler then sleeps forever on `need_process_cond` with full segments pending.

**Bounds.**
- **LogApply.** `BatchSize=2` with `Lens={1,2}` lets a segment be filled exactly or overshot, and gives two or more segments within `MaxLsn=5`. Two pages are the fewest for which round robin and a Search of a non-front segment happen. The first page has LSN 1, so the skip check fires.
- **BufferPool.** With more pages than frames, a check-out evicts. One page is absent from its file, so both `ReadPageFromDisk` outcomes and `NewPage` occur. `EvictBatch=64` as in the code. The three pages have page numbers 1-3, so a zeroed page is told apart from a file page. `ApplyKinds` has all three outcomes in the mixed run. The LSNs stay below 2^32, so `Hi32` is 0; `Lo32` is still computed from the value.
- **Catcher.** Two files are the fewest for which one can see the other's pages. They share one fd, so a close and a reopen happen. Calls cover one page: with two-page calls and two writes the state space passed eight million states. The reproductions keep two-page ranges.
- **RecordHeader.**
  - `Recs={sup}`: each setter touches only its own record's bytes, so one record shows every setter.
  - The supremum's origin (112) lies above the next offset 99, so the 16-bit relative `next` wraps.
  - 16383 is the last offset of the page.
- **ByteCodec.** The values are each side of every form boundary (127/128, 16383/16384, …) and 2^31-1.
- **LogOffsets.** Records of 495-497 bytes end just before, on, and just after a block's 496 data bytes. 4500 bytes cross into a second file.
- **RecordOffsets.**
  - The secondary index has 10 nullable columns, so its null bitmap takes two bytes.
  - The big column takes lengths 127 and 128, 300, and an external prefix.
  - `DB_TRX_ID`/`DB_ROLL_PTR` are passed as nullable, so the count-before-override order matters.
  - `OldRows` has a record in the one-byte form, 127 and 128 data bytes (either side of the two-byte switch), and an external field.
- **LogApply reader.** `NThreads=2` with `BatchSize=3` gives slot 0 two addresses and makes the worker sleep and wait; larger `MaxLsn` or `Lens` exceeded five minutes.

**Mutants.** Each passing property has a mutant of the code that TLC finds violating it; `PROJECT.json` lists them. Examples:
- `>=` for `>` in the skip check
- a missing `need_process = true`
- `PageAddress` equality that compares only the page id
- the null-mask test without the `(byte)` cast
- `offsets_` one entry short
- the next offset not reduced modulo the page size
- the checksum written before the LSN in `ApplySucceeded`
- `Search` erasing the segments it empties

**Fairness.** Only LogApply checks liveness. Its scheduler and worker threads get weak fairness: they are kernel threads that spin or block only on the conditions modelled. The parser and the reader get none, since they may stop at any time. The other modules state only safety properties, and their clients may stop at any time.

**Deadlock checking.** Every run except `record_header_setters` sets `CHECK_DEADLOCK FALSE`:
- When the bounded parser stops, the scheduler and workers block, which is the system's idle state.
- The clients of BufferPool, Catcher and CatcherFilter stop at their bounds.
- A codec computation ends when it returns.

No symmetry is used: pages differ in initial LSN, registration or layout, and LogApply checks liveness.

## 5. Not modelled

- **BufferPool composed with LogApply.** With `APPLIER_THREAD=1` the applier is the pool's only `do_apply` client. The deadlocks need a second client, as in the BufferPool runs, so the composition would add states without adding behaviour.
- **`Status` statistics and `PER_LOG_FILE_SIZE`.** The latency counters of `catcher.cpp` only feed logging, and the constant arithmetic of `applier_config.h` is evaluated at compile time; neither has a state a property could tell apart.
- **The `Apply*` routines that `log_apply_apply_one_log` dispatches to.** They are not in the repository; the model keeps only whether the type is handled.
- **`rec_set_nth_field`, `rec_copy` and the data-byte copies of `record.cpp`.** These copy bytes whose values the model abstracts away.
- **`find_max_checkpoint`, tablespace registration and `TravelDirectory`.** These are start-up file I/O.
- **`GetLogString` and `log_type.h`.** A debug name table and an enum.
- **`catcher_original.cpp` and `main.cpp`.** The first only forwards to libc and logs. The second is a test driver.
- **The log parser and the log writer.** They are not in this repository. The parser is modelled from the spec as the producer of `InsertBack` calls.
