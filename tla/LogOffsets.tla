----------------------------- MODULE LogOffsets -----------------------------
(***************************************************************************)
(* The redo log's address arithmetic: recv_calc_lsn_on_data_add           *)
(* (applier/utility.cpp), which advances an lsn over data bytes skipping  *)
(* block headers and trailers, and log_group_off_to_log_buf_off           *)
(* (applier/log_log.cpp), which maps an offset in the log group (files    *)
(* with 4 metadata blocks each) to an offset in the log buffer that holds *)
(* only the data bytes.  A writer appends records of the lengths in Lens; *)
(* `total` counts the data bytes written since LOG_START_LSN, and both    *)
(* functions are compared with where that data byte really lies.         *)
(***************************************************************************)
EXTENDS Naturals

CONSTANTS
    Lens,                  \* lengths of the records the writer appends
    MaxData,               \* bound on the data bytes written
    PerFileSize,           \* log_group.per_file_size, a multiple of 512
    LogBufSizePerFile      \* log_group.log_buf_size_per_file

VARIABLES lsn, total, aborted

vars == <<lsn, total, aborted>>

\* applier_config.h
LOG_BLOCK_SIZE == 512
OS_FILE_LOG_BLOCK_SIZE == 512
LOG_BLOCK_HDR_SIZE == 12
LOG_BLOCK_TRL_SIZE == 4
N_LOG_METADATA_BLOCKS == 4
LOG_START_LSN == 8716

\* the data bytes of one block
BlockData == LOG_BLOCK_SIZE - LOG_BLOCK_HDR_SIZE - LOG_BLOCK_TRL_SIZE

ASSUME PerFileSize % LOG_BLOCK_SIZE = 0 /\ PerFileSize \div LOG_BLOCK_SIZE > N_LOG_METADATA_BLOCKS

-----------------------------------------------------------------------------
(* Reference: where the n-th data byte after LOG_START_LSN lies, as an lsn *)
(* and as an offset in the log group (file f, block b of its data blocks). *)
RefLsn(n) == (LOG_START_LSN - LOG_BLOCK_HDR_SIZE)
             + (n \div BlockData) * LOG_BLOCK_SIZE + LOG_BLOCK_HDR_SIZE + (n % BlockData)

FileData == (PerFileSize \div LOG_BLOCK_SIZE - N_LOG_METADATA_BLOCKS) * BlockData

RefGroupOff(n) ==
    LET f == n \div FileData
        r == n % FileData
    IN f * PerFileSize + (N_LOG_METADATA_BLOCKS + (r \div BlockData)) * LOG_BLOCK_SIZE
       + LOG_BLOCK_HDR_SIZE + (r % BlockData)

-----------------------------------------------------------------------------
\* Mutant: the fragment is measured from the trailer size
FragLenTrl(l) == (l % OS_FILE_LOG_BLOCK_SIZE) - LOG_BLOCK_TRL_SIZE

\* frag_len = lsn % 512 - LOG_BLOCK_HDR_SIZE (a uint32: negative wraps)
FragLen(l) == (l % OS_FILE_LOG_BLOCK_SIZE) - LOG_BLOCK_HDR_SIZE

\* the assert: frag_len < 512 - 12 - 4, false for a wrapped frag_len too
FragOk(l) == FragLen(l) \in 0..(BlockData - 1)

recv_calc_lsn_on_data_add(l, len) ==
    l + len + ((len + FragLen(l)) \div BlockData)
              * (LOG_BLOCK_HDR_SIZE + LOG_BLOCK_TRL_SIZE)

\* the offset's file, block and place in the block must be data; the
\* asserts are the three conjuncts
OffIsData(off) ==
    LET off_in_file == off % PerFileSize
        n_block == off_in_file \div LOG_BLOCK_SIZE
        off_in_block == off_in_file % LOG_BLOCK_SIZE
    IN /\ ~(n_block < N_LOG_METADATA_BLOCKS)
       /\ ~(off_in_block < LOG_BLOCK_HDR_SIZE)
       /\ ~(LOG_BLOCK_SIZE - LOG_BLOCK_TRL_SIZE <= off_in_block)

\* Mutant: the header bytes of the last block are not subtracted
log_group_off_to_log_buf_off_nohdr(off) ==
    LET n_file == off \div PerFileSize
        off_in_file == off % PerFileSize
        n_block == off_in_file \div LOG_BLOCK_SIZE
        off_in_block == off_in_file % LOG_BLOCK_SIZE
    IN LogBufSizePerFile * n_file + (n_block - N_LOG_METADATA_BLOCKS) * BlockData
       + off_in_block

log_group_off_to_log_buf_off(off) ==
    LET n_file == off \div PerFileSize
        off_in_file == off % PerFileSize
        n_block == off_in_file \div LOG_BLOCK_SIZE
        off_in_block == off_in_file % LOG_BLOCK_SIZE
    IN LogBufSizePerFile * n_file + (n_block - N_LOG_METADATA_BLOCKS) * BlockData
       + off_in_block - LOG_BLOCK_HDR_SIZE

Init == lsn = LOG_START_LSN /\ total = 0 /\ aborted = FALSE

\* the writer adds a record of len data bytes (its headers not included)
AddData(len) ==
    /\ ~aborted /\ total + len <= MaxData
    /\ IF FragOk(lsn)
       THEN lsn' = recv_calc_lsn_on_data_add(lsn, len) /\ aborted' = FALSE
       ELSE UNCHANGED lsn /\ aborted' = TRUE
    /\ total' = total + len

Next == \E len \in Lens : AddData(len)

Spec == Init /\ [][Next]_vars

-----------------------------------------------------------------------------
(* After any sequence of records, recv_calc_lsn_on_data_add has left the  *)
(* lsn exactly at the place of the next data byte: never in a header or   *)
(* trailer (so its own frag_len assert never fires), with 16 bytes added  *)
(* for every block boundary crossed, a record ending on the last data     *)
(* byte of a block included.                                               *)
LsnAtDataByte == ~aborted /\ lsn = RefLsn(total)

(* The log group offset of the next data byte maps, in the log buffer, to *)
(* the number of data bytes before it: log_group_off_to_log_buf_off skips *)
(* the metadata blocks of every file and the header and trailer of every  *)
(* block, and its asserts hold there.                                     *)
BufOffIsDataCount ==
    /\ OffIsData(RefGroupOff(total))
    /\ log_group_off_to_log_buf_off(RefGroupOff(total)) = total
=============================================================================
