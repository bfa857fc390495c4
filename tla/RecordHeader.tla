---------------------------- MODULE RecordHeader ----------------------------
(***************************************************************************)
(* The compact record header of applier/record.cpp: the five bytes below  *)
(* a record's origin, read and written through bit fields                 *)
(* (rec_get/set_bit_field_1/2) and the big-endian mach_read/write of      *)
(* utility.h.  hdr[r][k] is the byte at rec - k of record r; Origin[r] is *)
(* the record's offset in its page.  Every setter is one step; `call`     *)
(* remembers it in the terms of RecordFields, which this module refines   *)
(* through the getters.                                                   *)
(***************************************************************************)
EXTENDS Naturals, Bitwise

CONSTANTS
    Recs,        \* the records whose headers are modelled
    Origin,      \* Origin[r]: offset of record r's origin in the page
    InitBytes,   \* InitBytes[r]: r's header bytes, rec - 5 first
    InitFields,  \* the fields InnoDB gives those records
    InfoIn,      \* info bits passed to rec_set_info_bits_new
    StatusIn,    \* status passed to rec_set_status
    NOwnedIn,    \* n_owned passed to rec_set_n_owned_new
    HeapNoIn,    \* heap_no passed to rec_set_heap_no_new
    NextIn       \* next passed to rec_set_next_offs_new

VARIABLES hdr, call

\* applier_config.h
DATA_PAGE_SIZE == 16 * 1024
REC_NEW_INFO_BITS == 5
REC_INFO_BITS_MASK == 240
REC_INFO_BITS_SHIFT == 0
REC_INFO_MIN_REC_FLAG == 16
REC_INFO_DELETED_FLAG == 32
REC_NEW_N_OWNED == 5
REC_N_OWNED_MASK == 15
REC_N_OWNED_SHIFT == 0
REC_NEW_STATUS == 3
REC_NEW_STATUS_MASK == 7
REC_NEW_STATUS_SHIFT == 0
REC_NEXT == 2
REC_NEXT_MASK == 65535
REC_NEW_HEAP_NO == 4
REC_HEAP_NO_SHIFT == 3
REC_HEAP_NO_MASK == 65528
REC_STATUS_INFIMUM == 2
REC_STATUS_SUPREMUM == 3
REC_N_NEW_EXTRA_BYTES == 5
PAGE_DATA == 38 + 36 + 2 * 10
PAGE_NEW_INFIMUM == PAGE_DATA + REC_N_NEW_EXTRA_BYTES
PAGE_NEW_SUPREMUM == PAGE_DATA + 2 * REC_N_NEW_EXTRA_BYTES + 8

\* mach_read_from_1/2 and mach_write_to_1/2 at rec - offs (big-endian:
\* the byte at rec - offs is the most significant one)
mach_read_from_1(h, offs) == h[offs]
mach_read_from_2(h, offs) == h[offs] * 256 + h[offs - 1]
mach_write_to_1(h, offs, n) == [h EXCEPT ![offs] = n % 256]
mach_write_to_2(h, offs, n) ==
    [h EXCEPT ![offs] = (n \div 256) % 256, ![offs - 1] = n % 256]

rec_get_bit_field_1(h, offs, mask, shift) ==
    (mach_read_from_1(h, offs) & mask) \div 2^shift
rec_get_bit_field_2(h, offs, mask, shift) ==
    (mach_read_from_2(h, offs) & mask) \div 2^shift

\* (read & ~mask) | (val << shift): ~mask is 32 bits wide, the write
\* keeps the low byte (low two bytes); val is not checked against mask
rec_set_bit_field_1(h, val, offs, mask, shift) ==
    mach_write_to_1(h, offs,
        (mach_read_from_1(h, offs) & (255 - mask)) | (val * 2^shift))
rec_set_bit_field_2(h, val, offs, mask, shift) ==
    mach_write_to_2(h, offs,
        (mach_read_from_2(h, offs) & (65535 - mask)) | (val * 2^shift))

rec_get_info_bits(h) ==
    rec_get_bit_field_1(h, REC_NEW_INFO_BITS, REC_INFO_BITS_MASK,
                        REC_INFO_BITS_SHIFT)
rec_get_status(h) ==
    rec_get_bit_field_1(h, REC_NEW_STATUS, REC_NEW_STATUS_MASK,
                        REC_NEW_STATUS_SHIFT)
rec_get_n_owned_new(h) ==
    rec_get_bit_field_1(h, REC_NEW_N_OWNED, REC_N_OWNED_MASK,
                        REC_N_OWNED_SHIFT)
rec_get_heap_no_new(h) ==
    rec_get_bit_field_2(h, REC_NEW_HEAP_NO, REC_HEAP_NO_MASK,
                        REC_HEAP_NO_SHIFT)

\* Mutant: the next offset is not reduced modulo the page size
rec_get_next_offs_nowrap(h, o) ==
    LET field == mach_read_from_2(h, REC_NEXT)
    IN IF field = 0 THEN 0 ELSE o + field

\* rec_get_next_offs: 0, or (rec + field - page) % DATA_PAGE_SIZE
rec_get_next_offs(h, o) ==
    LET field == mach_read_from_2(h, REC_NEXT)
    IN IF field = 0 THEN 0 ELSE (o + field) % DATA_PAGE_SIZE

\* the info flags the bits stand for
InfoFlags(bits) ==
    {f \in {"min_rec", "deleted"} :
        bits & (IF f = "min_rec" THEN REC_INFO_MIN_REC_FLAG
                                 ELSE REC_INFO_DELETED_FLAG) # 0}

Init ==
    /\ hdr = [r \in Recs |-> [k \in 1..5 |-> InitBytes[r][6 - k]]]
    /\ call = [rec |-> CHOOSE r \in Recs : TRUE, op |-> "none", arg |-> 0]

\* one setter on record r leaves the header h and is recorded as op(arg)
Step(r, h, op, arg) ==
    /\ call' = [rec |-> r, op |-> op, arg |-> arg]
    /\ hdr' = [hdr EXCEPT ![r] = h]

rec_set_info_bits_new(r, bits) ==
    Step(r, rec_set_bit_field_1(hdr[r], bits, REC_NEW_INFO_BITS,
                                REC_INFO_BITS_MASK, REC_INFO_BITS_SHIFT),
         "info", InfoFlags(bits))

rec_set_status(r, bits) ==
    Step(r, rec_set_bit_field_1(hdr[r], bits, REC_NEW_STATUS,
                                REC_NEW_STATUS_MASK, REC_NEW_STATUS_SHIFT),
         "status", bits)

\* the status bits first, then the info bits, in the one header
rec_set_info_and_status_bits(r, bits) ==
    LET s == bits & REC_NEW_STATUS_MASK
        i == bits & (65535 - REC_NEW_STATUS_MASK)
        h1 == rec_set_bit_field_1(hdr[r], s, REC_NEW_STATUS,
                                  REC_NEW_STATUS_MASK, REC_NEW_STATUS_SHIFT)
    IN Step(r, rec_set_bit_field_1(h1, i, REC_NEW_INFO_BITS,
                                   REC_INFO_BITS_MASK, REC_INFO_BITS_SHIFT),
            "info_status", <<InfoFlags(i), s>>)

rec_set_n_owned_new(r, n) ==
    Step(r, rec_set_bit_field_1(hdr[r], n, REC_NEW_N_OWNED,
                                REC_N_OWNED_MASK, REC_N_OWNED_SHIFT),
         "n_owned", n)

rec_set_heap_no_new(r, n) ==
    Step(r, rec_set_bit_field_2(hdr[r], n, REC_NEW_HEAP_NO,
                                REC_HEAP_NO_MASK, REC_HEAP_NO_SHIFT),
         "heap_no", n)

\* field = (next - (rec - page)) & REC_NEXT_MASK in 32-bit arithmetic
rec_set_next_offs_new(r, next) ==
    LET field == IF next = 0 THEN 0
                 ELSE (next - Origin[r]) % (REC_NEXT_MASK + 1)
    IN Step(r, mach_write_to_2(hdr[r], REC_NEXT, field), "next", next)

\* read the info bits, set or clear the deleted flag, write them back
rec_set_deleted_flag_new(r, flag) ==
    LET val == rec_get_info_bits(hdr[r])
        new == IF flag THEN val | REC_INFO_DELETED_FLAG
               ELSE val & (65535 - REC_INFO_DELETED_FLAG)
    IN Step(r, rec_set_bit_field_1(hdr[r], new, REC_NEW_INFO_BITS,
                                   REC_INFO_BITS_MASK, REC_INFO_BITS_SHIFT),
            "deleted", flag)

\* a caller never links a record to itself
Next ==
    \E r \in Recs :
       \/ \E b \in InfoIn : rec_set_info_bits_new(r, b)
       \/ \E s \in StatusIn : rec_set_status(r, s)
       \/ \E b \in InfoIn, s \in StatusIn : rec_set_info_and_status_bits(r, b | s)
       \/ \E n \in NOwnedIn : rec_set_n_owned_new(r, n)
       \/ \E n \in HeapNoIn : rec_set_heap_no_new(r, n)
       \/ \E n \in NextIn \ {Origin[r]} : rec_set_next_offs_new(r, n)
       \/ \E d \in BOOLEAN : rec_set_deleted_flag_new(r, d)

Spec == Init /\ [][Next]_<<hdr, call>>

-----------------------------------------------------------------------------
\* what the getters make of the header bytes
Decode(r) ==
    [info |-> InfoFlags(rec_get_info_bits(hdr[r])),
     nOwned |-> rec_get_n_owned_new(hdr[r]),
     status |-> rec_get_status(hdr[r]),
     heapNo |-> rec_get_heap_no_new(hdr[r]),
     next |-> rec_get_next_offs(hdr[r], Origin[r])]

RF == INSTANCE RecordFields
        WITH fields <- [r \in Recs |-> Decode(r)],
             PageSize <- DATA_PAGE_SIZE,
             InfoArgs <- {InfoFlags(b) : b \in InfoIn},
             StatusArgs <- StatusIn, NOwnedArgs <- NOwnedIn,
             HeapNoArgs <- HeapNoIn, NextArgs <- NextIn

(* The header bytes implement the field-level record: from the infimum    *)
(* and supremum images of infimum_supremum_compact, every setter of       *)
(* record.cpp changes, as the getters read it, exactly the fields it      *)
(* names and to exactly its argument (masks, shifts, byte order, the      *)
(* 16-bit relative next pointer and its reduction modulo the page size). *)
RefinesRecordFields == RF!Spec
=============================================================================
