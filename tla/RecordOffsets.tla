--------------------------- MODULE RecordOffsets ---------------------------
(***************************************************************************)
(* The field offsets of a compact record, applier/bean.cpp: AddField      *)
(* builds an index's column list, and CalculateOffsets, with              *)
(* InitOffsetsCompOrdinary for leaf records, walks the record's null      *)
(* bitmap and variable-length bytes below the origin and fills offsets_:  *)
(* offsets_[1] the field count, offsets_[4] the extra size, and           *)
(* offsets_[5 + i] the end of field i.  record.cpp reads them back        *)
(* (rec_get_nth_field_offs, rec_offs_nth_sql_null).                       *)
(*                                                                         *)
(* extra[k] is the byte at rec - k (as hdr in RecordHeader); nulls and    *)
(* lens are pointers written as such distances.  An offsets_ entry is     *)
(* [v, b31, b30]: its value under REC_OFFS_MASK and its two flag bits     *)
(* (bit 31 is REC_OFFS_SQL_NULL in a field entry and REC_OFFS_COMPACT in  *)
(* the header entry; bit 30 is REC_OFFS_EXTERNAL).  Each loop iteration   *)
(* is one step.  The record is written by the environment from a row and  *)
(* checked against the encoding InnoDB gives that row.                    *)
(***************************************************************************)
EXTENDS Naturals, Sequences, SequencesExt, Bitwise

CONSTANTS
    Schemas,     \* [cols, nFields, nUnique, type]: cols are AddField's inputs
    ShortVals,   \* values of a variable column of at most 255 bytes
    BigVals,     \* values of a variable column that may be longer
    Statuses,    \* status bits the record header may carry
    MaxNIn,      \* max_n arguments of CalculateOffsets
    OldRows      \* ROW_FORMAT=REDUNDANT records, as [null, len, ext] per field

VARIABLES
    schema,      \* the index: n_fields_, n_unique_, index_type_ and columns
    fields,      \* fields_
    nNullable,   \* n_nullable_
    phase,       \* "schema", "stored", "ordinary", "node_ptr", "done"
    row,         \* history: the values the record was written from (for a
                 \* redundant record, with the null flags its setters gave)
    extra,       \* the record's bytes below its origin
    maxN,        \* the max_n argument
    offsets,     \* offsets_, indexed from 0
    loop,        \* the loop's locals: i, offs, nulls, lens, null_mask, any_ext
    oob          \* some write fell outside offsets_

vars == <<schema, fields, nNullable, phase, row, extra, maxN, offsets, loop,
          oob>>

\* applier_config.h
REC_N_NEW_EXTRA_BYTES == 5
REC_NEW_STATUS == 3
REC_NEW_STATUS_MASK == 7
REC_STATUS_ORDINARY == 0
REC_STATUS_NODE_PTR == 1
REC_STATUS_INFIMUM == 2
REC_STATUS_SUPREMUM == 3
REC_OFFS_HEADER_SIZE == 4
REC_NODE_PTR_SIZE == 4
DICT_CLUSTERED == 1
DICT_MAX_FIXED_COL_LEN == 768
DATA_TRX_ID == 1
DATA_ROLL_PTR == 2
DATA_NOT_NULL == 256
DATA_FIXBINARY == 3
DATA_BINARY == 4
DATA_BLOB == 5
DATA_SYS == 8
DATA_GEOMETRY == 14
DATA_VAR_POINT == 16
\* UINT32_MAX and 0xFFFFFFFF: TLC's largest integer stands for both; they
\* are only compared with field numbers and lengths far below it
ULINT_UNDEFINED == 2147483647
UNIV_SQL_NULL == 2147483647

NotNull(prtype) == (prtype \div DATA_NOT_NULL) % 2 = 1

\* DATA_BIG_COL
BigCol(col) == col.len > 255 \/ col.mtype \in {DATA_BLOB, DATA_VAR_POINT, DATA_GEOMETRY}

\* rec_get_status: the low three bits of the byte at rec - 3
rec_get_status(x) == x[REC_NEW_STATUS] % (REC_NEW_STATUS_MASK + 1)

NullVal == [null |-> TRUE, len |-> 0, ext |-> FALSE]

-----------------------------------------------------------------------------
(* AddField: the fixed length (0 for a variable column or one longer than *)
(* DICT_MAX_FIXED_COL_LEN), the nullable count, and, in an index with     *)
(* more fields than unique ones, DB_TRX_ID and DB_ROLL_PTR after the      *)
(* unique fields turned into NOT NULL system columns.                     *)
AddField(col) ==
    LET fixedLen == IF col.mtype = DATA_FIXBINARY /\ col.len <= DICT_MAX_FIXED_COL_LEN
                    THEN col.len ELSE 0
        i == Len(fields)
        sys == schema.nFields # schema.nUnique
        type == CASE sys /\ i = DATA_TRX_ID - 1 + schema.nUnique
                       -> [mtype |-> DATA_SYS, prtype |-> DATA_TRX_ID + DATA_NOT_NULL]
                  [] sys /\ i = DATA_ROLL_PTR - 1 + schema.nUnique
                       -> [mtype |-> DATA_SYS, prtype |-> DATA_ROLL_PTR + DATA_NOT_NULL]
                  [] OTHER -> [mtype |-> col.mtype, prtype |-> col.prtype]
    IN  /\ nNullable' = IF NotNull(col.prtype) THEN nNullable ELSE nNullable + 1
        /\ fields' = Append(fields, [mtype |-> type.mtype, prtype |-> type.prtype,
                                     len |-> col.len, fixed |-> fixedLen])

DefineField ==
    /\ phase = "schema" /\ Len(fields) < Len(schema.cols)
    /\ AddField(schema.cols[Len(fields) + 1])
    /\ UNCHANGED <<schema, phase, row, extra, maxN, offsets, loop, oob>>

Init ==
    /\ schema \in Schemas
    /\ fields = <<>> /\ nNullable = 0
    /\ phase = "schema"
    /\ row = <<>> /\ extra = <<>> /\ maxN = 0
    /\ offsets = <<>>
    /\ loop = [i |-> 0, offs |-> 0, nulls |-> 0, lens |-> 0, mask |-> 0,
               ext |-> FALSE, ptrField |-> 0]
    /\ oob = FALSE

-----------------------------------------------------------------------------
(* Reference: the record InnoDB writes for a row (the encoder is not in   *)
(* this repository).  A leaf record stores every field; a node pointer    *)
(* stores the first n_unique (clustered) or n_fields fields and the       *)
(* 4-byte child page number.  Below the 5 header bytes come the null bits *)
(* of the nullable fields, first field in the lowest bit of rec - 6, then *)
(* the lengths of the non-null variable fields, one byte, or two when a   *)
(* big column is 128 bytes or longer or stored externally.                *)
IsNullable(j) == ~NotNull(fields[j].prtype)

RefPtrFields == IF schema.type % 2 = DICT_CLUSTERED THEN schema.nUnique
                ELSE schema.nFields

\* the fields a record of status st stores
StoredFields(st) == CASE st = REC_STATUS_ORDINARY -> schema.nFields
                      [] st = REC_STATUS_NODE_PTR -> RefPtrFields
                      [] OTHER -> 0

FieldVals(f) ==
    (IF NotNull(f.prtype) THEN {} ELSE {NullVal})
    \cup (IF f.fixed # 0 THEN {[null |-> FALSE, len |-> f.fixed, ext |-> FALSE]}
          ELSE IF BigCol(f) THEN BigVals ELSE ShortVals)

RECURSIVE Rows(_)
Rows(m) == IF m = 0 THEN {<<>>}
           ELSE {r \o <<v>> : r \in Rows(m - 1), v \in FieldVals(fields[m])}

NullBitmapSize == (nNullable + 7) \div 8

NullPos(j) == Quantify(1..(j - 1), IsNullable)

NullByte(r, b) ==
    MapThenSumSet(LAMBDA j : 2^(NullPos(j) % 8),
                  {j \in DOMAIN r : IsNullable(j) /\ r[j].null /\ NullPos(j) \div 8 = b})

LenCode(f, v) ==
    CASE v.null \/ f.fixed # 0 -> <<>>
      [] BigCol(f) /\ (v.len >= 128 \/ v.ext) ->
            <<128 + (IF v.ext THEN 64 ELSE 0) + v.len \div 256, v.len % 256>>
      [] OTHER -> <<v.len>>

LenBytes(r) == FlattenSeq([j \in DOMAIN r |-> LenCode(fields[j], r[j])])

Encode(st, r) ==
    LET nb == NullBitmapSize
        lb == LenBytes(r)
    IN  [k \in 1..(REC_N_NEW_EXTRA_BYTES + nb + Len(lb)) |->
           CASE k = REC_NEW_STATUS -> st
             [] k <= REC_N_NEW_EXTRA_BYTES -> 0
             [] k <= REC_N_NEW_EXTRA_BYTES + nb -> NullByte(r, k - REC_N_NEW_EXTRA_BYTES - 1)
             [] OTHER -> lb[k - REC_N_NEW_EXTRA_BYTES - nb]]

\* the page holds a record of a status the header may carry, and
\* CalculateOffsets(max_n) is called on it
StoreRecord ==
    /\ phase = "schema" /\ Len(fields) = Len(schema.cols)
    /\ \E st \in Statuses, n \in MaxNIn :
          \E r \in Rows(StoredFields(st)) :
             \* node pointers hold no externally stored column
             /\ st = REC_STATUS_NODE_PTR => \A j \in DOMAIN r : ~r[j].ext
             /\ row' = r
             /\ extra' = Encode(st, r)
             /\ maxN' = n
    /\ phase' = "stored"
    /\ UNCHANGED <<schema, fields, nNullable, offsets, loop, oob>>

-----------------------------------------------------------------------------
\* a byte below the record's extra bytes belongs to the previous record
Byte(k) == IF k \in DOMAIN extra THEN extra[k] ELSE 0

Entry(v, b31, b30) == [v |-> v, b31 |-> b31, b30 |-> b30]

\* offsets_[idx] = e, when idx lies inside the vector
Put(off, idx, e) == IF idx \in DOMAIN off THEN [off EXCEPT ![idx] = e] ELSE off

\* Mutant: the vector leaves no room for the last field's end
OffsetsSizeShort(n) == n + REC_OFFS_HEADER_SIZE

\* size = n + (1 + REC_OFFS_HEADER_SIZE)
OffsetsSize(n) == n + (1 + REC_OFFS_HEADER_SIZE)

\* Mutant: null_mask tested without the (byte) cast
NextNullByteWide(lp) == IF lp.mask = 0 THEN [lp EXCEPT !.nulls = @ + 1, !.mask = 1]
                        ELSE lp

\* if (!(byte) null_mask) { nulls--; null_mask = 1; }
NextNullByte(lp) == IF lp.mask % 256 = 0 THEN [lp EXCEPT !.nulls = @ + 1, !.mask = 1]
                    ELSE lp

(* The body of the do-while shared by both loops, for field f: the null   *)
(* flag of a nullable field, else the fixed length, else one length byte  *)
(* or, for a big column whose first byte has 0x80 set, two, with the      *)
(* 0x4000 bit as the external flag.  Returns the locals and the entry's   *)
(* value, null flag and external flag.                                    *)
ReadField(lp, f) ==
    LET l1 == IF NotNull(f.prtype) THEN lp ELSE NextNullByte(lp)
        isNull == ~NotNull(f.prtype) /\ (Byte(l1.nulls) \div l1.mask) % 2 = 1
        l2 == IF NotNull(f.prtype) THEN lp ELSE [l1 EXCEPT !.mask = @ * 2]
        b1 == Byte(l2.lens)
        len2 == b1 * 256 + Byte(l2.lens + 1)
    IN  CASE isNull -> [lp |-> l2, v |-> l2.offs, null |-> TRUE, ext |-> FALSE]
          [] f.fixed # 0 ->
               [lp |-> [l2 EXCEPT !.offs = @ + f.fixed], v |-> l2.offs + f.fixed,
                null |-> FALSE, ext |-> FALSE]
          [] BigCol(f) /\ b1 >= 128 ->
               [lp |-> [l2 EXCEPT !.lens = @ + 2, !.offs = @ + (len2 % 16384)],
                v |-> l2.offs + (len2 % 16384), null |-> FALSE,
                ext |-> (len2 \div 16384) % 2 = 1]
          [] OTHER ->
               [lp |-> [l2 EXCEPT !.lens = @ + 1, !.offs = @ + b1], v |-> l2.offs + b1,
                null |-> FALSE, ext |-> FALSE]

(* CalculateOffsets(max_n) up to its loop: the field count by status,     *)
(* capped at max_n; offsets_ resized and offsets_[1] = n; the infimum and *)
(* supremum entries; an unknown status returns with offsets_ cleared;     *)
(* the ordinary status goes on in InitOffsetsCompOrdinary, the node       *)
(* pointer status in the loop below, both from the first null byte at     *)
(* rec - 6 and the first length byte below the null bitmap.              *)
CalculateOffsets ==
    LET st == rec_get_status(extra)
        clustered == schema.type % 2 = DICT_CLUSTERED
        n0 == CASE st = REC_STATUS_ORDINARY -> schema.nFields
                [] st = REC_STATUS_NODE_PTR ->
                      IF clustered THEN schema.nUnique + 1 ELSE schema.nFields + 1
                [] st \in {REC_STATUS_INFIMUM, REC_STATUS_SUPREMUM} -> 1
                [] OTHER -> 0
        n == IF maxN < n0 THEN maxN ELSE n0
        sized == [k \in 0..(OffsetsSize(n) - 1) |-> Entry(0, FALSE, FALSE)]
        start == Put(sized, 1, Entry(n, FALSE, FALSE))
        nulls == 1 + REC_N_NEW_EXTRA_BYTES
    IN  /\ phase = "stored"
        /\ CASE st \in {REC_STATUS_INFIMUM, REC_STATUS_SUPREMUM} ->
                  /\ offsets' = Put(Put(start, REC_OFFS_HEADER_SIZE,
                                        Entry(REC_N_NEW_EXTRA_BYTES, TRUE, FALSE)),
                                    1 + REC_OFFS_HEADER_SIZE, Entry(8, FALSE, FALSE))
                  /\ oob' = (1 + REC_OFFS_HEADER_SIZE \notin DOMAIN start)
                  /\ phase' = "done"
                  /\ UNCHANGED loop
             [] st \in {REC_STATUS_ORDINARY, REC_STATUS_NODE_PTR} ->
                  /\ offsets' = start
                  /\ loop' = [i |-> 0, offs |-> 0, nulls |-> nulls,
                              lens |-> nulls + (nNullable + 7) \div 8, mask |-> 1,
                              ext |-> FALSE,
                              ptrField |-> CASE st = REC_STATUS_ORDINARY -> ULINT_UNDEFINED
                                             [] clustered -> schema.nUnique
                                             [] OTHER -> schema.nFields]
                  /\ phase' = IF st = REC_STATUS_ORDINARY THEN "ordinary" ELSE "node_ptr"
                  /\ UNCHANGED oob
             [] OTHER ->
                  /\ offsets' = <<>>
                  /\ phase' = "done"
                  /\ UNCHANGED <<loop, oob>>
        /\ UNCHANGED <<schema, fields, nNullable, row, extra, maxN>>

(* One iteration of InitOffsetsCompOrdinary's do-while: field i's end     *)
(* goes to offsets_[5 + i], with REC_OFFS_SQL_NULL or REC_OFFS_EXTERNAL;  *)
(* after the last field offsets_[4] = (rec - (lens + 1)) | COMPACT |      *)
(* any_ext.                                                               *)
OrdinaryStep ==
    LET r == ReadField(loop, fields[loop.i + 1])
        idx == REC_OFFS_HEADER_SIZE + loop.i + 1
        nl == [r.lp EXCEPT !.i = @ + 1, !.ext = @ \/ r.ext]
        written == Put(offsets, idx, Entry(r.v, r.null, r.ext))
    IN  /\ phase = "ordinary"
        /\ oob' = (oob \/ idx \notin DOMAIN offsets)
        /\ loop' = nl
        /\ IF nl.i < offsets[1].v
           THEN offsets' = written /\ UNCHANGED phase
           ELSE /\ offsets' = Put(written, REC_OFFS_HEADER_SIZE,
                                  Entry(nl.lens - 1, TRUE, nl.ext))
                /\ phase' = "done"
        /\ UNCHANGED <<schema, fields, nNullable, row, extra, maxN>>

(* One iteration of CalculateOffsets' node pointer loop: the child page   *)
(* number field is 4 bytes; the others are read as in a leaf record, the  *)
(* external bit asserted clear; after the last, offsets_[4] =             *)
(* (rec - (lens + 1)) | COMPACT.                                          *)
NodePtrStep ==
    LET r == IF loop.i = loop.ptrField
             THEN [lp |-> [loop EXCEPT !.offs = @ + REC_NODE_PTR_SIZE],
                   v |-> loop.offs + REC_NODE_PTR_SIZE, null |-> FALSE, ext |-> FALSE]
             ELSE ReadField(loop, fields[loop.i + 1])
        idx == REC_OFFS_HEADER_SIZE + loop.i + 1
        nl == [r.lp EXCEPT !.i = @ + 1]
        written == Put(offsets, idx, Entry(r.v, r.null, FALSE))
    IN  /\ phase = "node_ptr"
        /\ oob' = (oob \/ idx \notin DOMAIN offsets)
        /\ loop' = nl
        /\ IF nl.i < offsets[1].v
           THEN offsets' = written /\ UNCHANGED phase
           ELSE /\ offsets' = Put(written, REC_OFFS_HEADER_SIZE,
                                  Entry(nl.lens - 1, TRUE, FALSE))
                /\ phase' = "done"
        /\ UNCHANGED <<schema, fields, nNullable, row, extra, maxN>>

-----------------------------------------------------------------------------
(* ROW_FORMAT=REDUNDANT records, record.cpp.  Below the 6 header bytes     *)
(* lie the end offsets of the fields, field 0 nearest the header: one byte *)
(* each (SQL null flag 0x80) when the REC_OLD_SHORT bit is set, else two   *)
(* (SQL null flag 0x8000, external flag 0x4000).  A SQL null field keeps   *)
(* its physical size.  The field data is not modelled: no getter reads the *)
(* zeros data_write_sql_null writes.                                       *)

REC_OLD_SHORT == 3
REC_OLD_SHORT_MASK == 1
REC_OLD_SHORT_SHIFT == 0
REC_OLD_N_FIELDS == 4
REC_N_OLD_EXTRA_BYTES == 6
REC_1BYTE_SQL_NULL_MASK == 128
REC_2BYTE_SQL_NULL_MASK == 32768
REC_2BYTE_EXTERN_MASK == 16384

\* mach_read/write at rec - k of the bytes x below the origin, big-endian
mach_read_from_1(x, k) == IF k \in DOMAIN x THEN x[k] ELSE 0
mach_read_from_2(x, k) == mach_read_from_1(x, k) * 256 + mach_read_from_1(x, k - 1)
mach_write_to_1(x, k, n) == [x EXCEPT ![k] = n % 256]
mach_write_to_2(x, k, n) == [x EXCEPT ![k] = (n \div 256) % 256, ![k - 1] = n % 256]

rec_get_1byte_offs_flag(x) ==
    (mach_read_from_1(x, REC_OLD_SHORT) & REC_OLD_SHORT_MASK) \div 2^REC_OLD_SHORT_SHIFT # 0

rec_1_get_prev_field_end_info(x, n) == mach_read_from_1(x, REC_N_OLD_EXTRA_BYTES + n)
rec_1_get_field_start_offs(x, n) ==
    IF n = 0 THEN 0
    ELSE rec_1_get_prev_field_end_info(x, n) & (255 - REC_1BYTE_SQL_NULL_MASK)

rec_2_get_prev_field_end_info(x, n) == mach_read_from_2(x, REC_N_OLD_EXTRA_BYTES + 2 * n)
rec_2_get_field_start_offs(x, n) ==
    IF n = 0 THEN 0
    ELSE rec_2_get_prev_field_end_info(x, n)
         & (65535 - (REC_2BYTE_SQL_NULL_MASK + REC_2BYTE_EXTERN_MASK))

rec_get_field_start_offs(x, n) ==
    CASE n = 0 -> 0
      [] rec_get_1byte_offs_flag(x) -> rec_1_get_field_start_offs(x, n)
      [] OTHER -> rec_2_get_field_start_offs(x, n)

rec_get_nth_field_size(x, n) ==
    rec_get_field_start_offs(x, n + 1) - rec_get_field_start_offs(x, n)

rec_1_get_field_end_info(x, n) == mach_read_from_1(x, REC_N_OLD_EXTRA_BYTES + n + 1)
rec_2_get_field_end_info(x, n) == mach_read_from_2(x, REC_N_OLD_EXTRA_BYTES + 2 * n + 2)

\* Mutant: the end info is written where the previous field's end lies
rec_1_set_field_end_info_prev(x, n, info) ==
    mach_write_to_1(x, REC_N_OLD_EXTRA_BYTES + n, info)

rec_1_set_field_end_info(x, n, info) ==
    mach_write_to_1(x, REC_N_OLD_EXTRA_BYTES + n + 1, info)
rec_2_set_field_end_info(x, n, info) ==
    mach_write_to_2(x, REC_N_OLD_EXTRA_BYTES + 2 * n + 2, info)

\* read field i's end info, set or clear its SQL null flag, write it back
rec_set_nth_field_null_bit(x, i, val) ==
    IF rec_get_1byte_offs_flag(x)
    THEN LET info == rec_1_get_field_end_info(x, i)
         IN  rec_1_set_field_end_info(x, i,
                IF val THEN info | REC_1BYTE_SQL_NULL_MASK
                ELSE info & (255 - REC_1BYTE_SQL_NULL_MASK))
    ELSE LET info == rec_2_get_field_end_info(x, i)
         IN  rec_2_set_field_end_info(x, i,
                IF val THEN info | REC_2BYTE_SQL_NULL_MASK
                ELSE info & (65535 - REC_2BYTE_SQL_NULL_MASK))

(* Reference: the record InnoDB's rec_convert_dtuple_to_rec_old writes    *)
(* (not in this repository): n_fields and the 1-byte flag, set when the   *)
(* data is at most 127 bytes and no field is external, then the end       *)
(* offset of each field with its flags.                                   *)
OldEnd(r, j) == MapThenSumSet(LAMBDA q : r[q].len, 1..j)
OldShort(r) == OldEnd(r, Len(r)) <= 127 /\ \A j \in DOMAIN r : ~r[j].ext
OldInfo(r, j) ==
    OldEnd(r, j)
    + (IF r[j].null THEN IF OldShort(r) THEN REC_1BYTE_SQL_NULL_MASK
                                        ELSE REC_2BYTE_SQL_NULL_MASK
       ELSE 0)
    + (IF r[j].ext THEN REC_2BYTE_EXTERN_MASK ELSE 0)
EncodeOld(r) ==
    LET w == IF OldShort(r) THEN 1 ELSE 2
        nf == Len(r) * 2 + (IF OldShort(r) THEN 1 ELSE 0)
        j(k) == (k - REC_N_OLD_EXTRA_BYTES + w - 1) \div w
    IN  [k \in 1..(REC_N_OLD_EXTRA_BYTES + w * Len(r)) |->
           CASE k = REC_OLD_N_FIELDS -> nf \div 256
             [] k = REC_OLD_SHORT -> nf % 256
             [] k <= REC_N_OLD_EXTRA_BYTES -> 0
             [] w = 1 -> OldInfo(r, j(k))
             [] (k - REC_N_OLD_EXTRA_BYTES) % 2 = 0 -> OldInfo(r, j(k)) \div 256
             [] OTHER -> OldInfo(r, j(k)) % 256]

\* the page holds a redundant record instead of a compact one
StoreOldRecord ==
    /\ phase = "schema" /\ fields = <<>>
    /\ \E r \in OldRows : row' = r /\ extra' = EncodeOld(r)
    /\ phase' = "old"
    /\ UNCHANGED <<schema, fields, nNullable, maxN, offsets, loop, oob>>

(* rec_set_nth_field_sql_null: the field's start and size are read and    *)
(* its data zeroed (not modelled), then its null bit set.                  *)
SetSqlNull(n) ==
    /\ phase = "old"
    /\ extra' = rec_set_nth_field_null_bit(extra, n, TRUE)
    /\ row' = [row EXCEPT ![n + 1].null = TRUE]
    /\ UNCHANGED <<schema, fields, nNullable, phase, maxN, offsets, loop, oob>>

\* rec_set_nth_field_null_bit called on its own (as rec_set_nth_field does)
SetNullBit(n, val) ==
    /\ phase = "old"
    /\ extra' = rec_set_nth_field_null_bit(extra, n, val)
    /\ row' = [row EXCEPT ![n + 1].null = val]
    /\ UNCHANGED <<schema, fields, nNullable, phase, maxN, offsets, loop, oob>>

OldStep ==
    \/ StoreOldRecord
    \/ \E n \in 0..(Len(row) - 1) : SetSqlNull(n)
    \/ \E n \in 0..(Len(row) - 1), val \in BOOLEAN : SetNullBit(n, val)

Next == DefineField \/ StoreRecord \/ CalculateOffsets \/ OrdinaryStep \/ NodePtrStep
        \/ OldStep

Spec == Init /\ [][Next]_vars

-----------------------------------------------------------------------------
(* The readers of offsets_ in record.cpp and bean.cpp.                    *)

\* rec_get_nth_field_offs: field n's start, and its length or UNIV_SQL_NULL
rec_get_nth_field_offs(n) ==
    LET offs == IF n = 0 THEN 0 ELSE offsets[REC_OFFS_HEADER_SIZE + n].v
        e == offsets[REC_OFFS_HEADER_SIZE + n + 1]
    IN  [offs |-> offs, len |-> IF e.b31 THEN UNIV_SQL_NULL ELSE e.v - offs]

\* offsets_[4 + n + 1] & REC_OFFS_SQL_NULL
rec_offs_nth_sql_null(n) == offsets[REC_OFFS_HEADER_SIZE + n + 1].b31

\* offsets_[4] & ~(REC_OFFS_COMPACT | REC_OFFS_EXTERNAL)
GetExtraSize == offsets[REC_OFFS_HEADER_SIZE].v

\* offsets_[4 + offsets_[1]] & REC_OFFS_MASK
GetDataSize == offsets[REC_OFFS_HEADER_SIZE + offsets[1].v].v

\* field j (from 0) of the record that was written: the infimum and
\* supremum hold one 8-byte field, a node pointer ends with the child page
RefField(j) ==
    LET st == rec_get_status(extra) IN
    CASE st \in {REC_STATUS_INFIMUM, REC_STATUS_SUPREMUM} ->
            [null |-> FALSE, len |-> 8, ext |-> FALSE]
      [] st = REC_STATUS_NODE_PTR /\ j = RefPtrFields ->
            [null |-> FALSE, len |-> REC_NODE_PTR_SIZE, ext |-> FALSE]
      [] OTHER -> row[j + 1]

RefStart(j) == MapThenSumSet(LAMBDA q : RefField(q).len, {q \in 0..(j - 1) : ~RefField(q).null})

\* the header bytes of the record up to the length of field n: the null
\* bitmap is always read whole, the length bytes only of the fields read
RefExtraSize(n) ==
    IF rec_get_status(extra) \in {REC_STATUS_INFIMUM, REC_STATUS_SUPREMUM}
    THEN REC_N_NEW_EXTRA_BYTES
    ELSE LET m == IF n < Len(row) THEN n ELSE Len(row)
         IN  REC_N_NEW_EXTRA_BYTES + NullBitmapSize
             + Len(FlattenSeq([j \in 1..m |-> LenCode(fields[j], row[j])]))

(* Once CalculateOffsets has returned for a record of a known status,     *)
(* offsets_ describes that record: for every field it counted,            *)
(* rec_get_nth_field_offs gives the field's start and length (or          *)
(* UNIV_SQL_NULL), the external flags are those of the row, and           *)
(* GetExtraSize and GetDataSize are the record's header and data sizes    *)
(* (the null bitmap across bytes, one- and two-byte lengths, the node     *)
(* pointer field, and the walk of nulls and lens in opposite directions). *)
OffsetsMatchRecord ==
    (phase = "done" /\ offsets # <<>> /\ ~oob) =>
        LET n == offsets[1].v IN
        /\ GetExtraSize = RefExtraSize(n)
        /\ GetDataSize = RefStart(n)
        /\ offsets[REC_OFFS_HEADER_SIZE].b30 = \E j \in 0..(n - 1) : RefField(j).ext
        /\ \A j \in 0..(n - 1) :
              /\ rec_get_nth_field_offs(j).offs = RefStart(j)
              /\ rec_get_nth_field_offs(j).len =
                    IF RefField(j).null THEN UNIV_SQL_NULL ELSE RefField(j).len
              /\ offsets[REC_OFFS_HEADER_SIZE + j + 1].b30 = RefField(j).ext
              /\ rec_offs_nth_sql_null(j) = RefField(j).null

(* No write of CalculateOffsets or InitOffsetsCompOrdinary falls outside  *)
(* offsets_ as resized for n fields: the do-while writes a field's end    *)
(* before it tests the count.                                             *)
NoOffsetsOverflow == ~oob

\* the flags field j's end info carries, read in the record's offset form
OldFlags(j) ==
    IF rec_get_1byte_offs_flag(extra)
    THEN [null |-> rec_1_get_field_end_info(extra, j) & REC_1BYTE_SQL_NULL_MASK # 0,
          ext |-> FALSE]
    ELSE [null |-> rec_2_get_field_end_info(extra, j) & REC_2BYTE_SQL_NULL_MASK # 0,
          ext |-> rec_2_get_field_end_info(extra, j) & REC_2BYTE_EXTERN_MASK # 0]

(* A redundant record read through the old-style getters is the record    *)
(* that was written, after any sequence of rec_set_nth_field_sql_null and *)
(* rec_set_nth_field_null_bit calls: every field starts where the fields  *)
(* before it end, keeps its physical size, and carries exactly the null   *)
(* flag last given to it and its external flag, in the 1-byte and the     *)
(* 2-byte offset form (the getters mask the flags off a previous field's  *)
(* end, the setters write the field's own end).                           *)
OldFieldsMatchRecord ==
    phase = "old" =>
        \A j \in 0..(Len(row) - 1) :
            /\ rec_get_field_start_offs(extra, j) = OldEnd(row, j)
            /\ rec_get_nth_field_size(extra, j) = row[j + 1].len
            /\ OldFlags(j) = [null |-> row[j + 1].null, ext |-> row[j + 1].ext]
====
