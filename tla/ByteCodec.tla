----------------------------- MODULE ByteCodec -----------------------------
(***************************************************************************)
(* The compressed integers of applier/utility.cpp: mach_parse_compressed, *)
(* mach_read_next_compressed and mach_u64_parse_compressed, driven by a   *)
(* reader that takes the fields of one log record body from a buffer, one *)
(* call per field, and stops when a call sets the pointer to nullptr.     *)
(* The buffer holds the InnoDB encodings of the field values, possibly    *)
(* cut short (the record straddles the end of what has been read).        *)
(* Positions are 1-based; end_ptr is Len(buf) + 1; NULL is nullptr.       *)
(* A 64-bit value is the pair <<high, low>> (TLC integers are 32 bits).   *)
(***************************************************************************)
EXTENDS Naturals, Sequences, SequencesExt

CONSTANTS
    Values32,   \* values a compressed 32-bit field may hold
    Values64,   \* <<high, low>> values a compressed 64-bit field may hold
    Formats     \* field layouts of record bodies: sequences of "c32"/"u64"

VARIABLES
    buf,     \* the bytes from *ptr to end_ptr
    vals,    \* the values whose encodings buf starts with
    fmt,     \* the record's field types; field Len(out) + 1 is next
    ptr,     \* *ptr, or NULL
    out,     \* the values the calls returned
    read     \* the highest position any call read

vars == <<buf, vals, fmt, ptr, out, read>>

NULL == 0

-----------------------------------------------------------------------------
(* Reference: the encoder of the format, as InnoDB's mach_write_compressed *)
(* and mach_u64_write_compressed lay a value out (big-endian).            *)
RECURSIVE BytesBE(_, _)
BytesBE(v, n) == IF n = 0 THEN <<>>
                 ELSE BytesBE(v \div 256, n - 1) \o <<v % 256>>

EncodeC32(v) ==
    CASE v < 128       -> <<v>>
      [] v < 16384     -> <<128 + v \div 256>> \o BytesBE(v, 1)
      [] v < 2097152   -> <<192 + v \div 65536>> \o BytesBE(v, 2)
      [] v < 268435456 -> <<224 + v \div 16777216>> \o BytesBE(v, 3)
      [] OTHER         -> <<240>> \o BytesBE(v, 4)

Encode(type, v) == IF type = "u64" THEN EncodeC32(v[1]) \o BytesBE(v[2], 4)
                   ELSE EncodeC32(v)

\* the encodings of the first n fields
EncodeAll(n) == FlattenSeq([i \in 1..n |-> Encode(fmt[i], vals[i])])

-----------------------------------------------------------------------------
\* what lies past end_ptr; a read of it is recorded in `read`
Byte(i) == IF i \in 1..Len(buf) THEN buf[i] ELSE 0

\* mach_read_from_n at position p
ReadBE(p, n) == FoldLeft(LAMBDA acc, b : acc * 256 + b, 0,
                         [i \in 1..n |-> Byte(p + i - 1)])

\* the form a first byte announces: 0nnnnnnn, 10nnnnnn, 110nnnnn,
\* 1110nnnn, 11110000; the k-th form takes k bytes
Bound == <<128, 192, 224, 240, 256>>
Form(b) == CHOOSE k \in 1..5 : b < Bound[k] /\ \A j \in 1..(k - 1) : b >= Bound[j]

(* the value of a k-byte form at p: mach_read_from_k & the form's mask     *)
(* (0x7F, 0x3FFF, 0x1FFFFF, 0xFFFFFFF), which clears the k - 1 leading     *)
(* one bits and the zero bit of the first byte; the 5-byte form reads     *)
(* mach_read_from_4 one byte after the pointer                           *)
FormValue(p, k) ==
    IF k = 5 THEN ReadBE(p + 1, 4)
    ELSE (Byte(p) % 2^(8 - k)) * 256^(k - 1) + ReadBE(p + 1, k - 1)

\* Mutant: a k-byte form must leave a byte to spare
FitsStrict(p, n) == p + n < Len(buf) + 1

\* end_ptr >= *ptr + n
Fits(p, n) == p + n <= Len(buf) + 1

Null(p) == [val |-> 0, ptr |-> NULL, read |-> p - 1]

mach_parse_compressed(p) ==
    IF p >= Len(buf) + 1 THEN Null(p)
    ELSE LET k == Form(Byte(p))
         IN IF Fits(p, k)
            THEN [val |-> FormValue(p, k), ptr |-> p + k, read |-> p + k - 1]
            ELSE [Null(p) EXCEPT !.read = p]

\* no end_ptr: reads the whole form
mach_read_next_compressed(p) ==
    LET k == Form(Byte(p))
    IN [val |-> FormValue(p, k), ptr |-> p + k, read |-> p + k - 1]

\* Mutant: the 5-byte check before the high part is dropped
mach_u64_parse_unchecked(p) ==
    LET h == mach_read_next_compressed(p)
    IN IF ~Fits(h.ptr, 4) THEN [val |-> <<h.val, 0>>, ptr |-> NULL, read |-> h.read]
       ELSE [val |-> <<h.val, ReadBE(h.ptr, 4)>>, ptr |-> h.ptr + 4,
             read |-> h.ptr + 3]

(* at least 5 bytes, then the compressed high part, then 4 bytes of the   *)
(* low part; on a short buffer the high part is returned with nullptr     *)
mach_u64_parse_compressed(p) ==
    IF ~Fits(p, 5) THEN [Null(p) EXCEPT !.val = <<0, 0>>]
    ELSE LET h == mach_read_next_compressed(p)
         IN IF ~Fits(h.ptr, 4)
            THEN [val |-> <<h.val, 0>>, ptr |-> NULL, read |-> h.read]
            ELSE [val |-> <<h.val, ReadBE(h.ptr, 4)>>, ptr |-> h.ptr + 4,
                  read |-> h.ptr + 3]

FieldValues(type) == IF type = "c32" THEN Values32 ELSE Values64

\* the value sequences a layout admits
RECURSIVE Bodies(_)
Bodies(f) == IF f = <<>> THEN {<<>>}
             ELSE {<<v>> \o rest : v \in FieldValues(Head(f)), rest \in Bodies(Tail(f))}

Init ==
    /\ fmt \in Formats
    /\ vals \in Bodies(fmt)
    /\ buf \in {SubSeq(EncodeAll(Len(fmt)), 1, n) : n \in 0..Len(EncodeAll(Len(fmt)))}
    /\ ptr = 1
    /\ out = <<>>
    /\ read = 0

\* the reader takes the next field with the call its type needs
Take(r) ==
    /\ ptr' = r.ptr
    /\ out' = Append(out, r.val)
    /\ read' = IF r.read > read THEN r.read ELSE read
    /\ UNCHANGED <<buf, vals, fmt>>

ParseCompressed ==
    /\ ptr # NULL /\ Len(out) < Len(fmt) /\ fmt[Len(out) + 1] = "c32"
    /\ Take(mach_parse_compressed(ptr))

ParseU64Compressed ==
    /\ ptr # NULL /\ Len(out) < Len(fmt) /\ fmt[Len(out) + 1] = "u64"
    /\ Take(mach_u64_parse_compressed(ptr))

Next == ParseCompressed \/ ParseU64Compressed

Spec == Init /\ [][Next]_vars

-----------------------------------------------------------------------------
(* Every call returns the value that was encoded and advances the pointer *)
(* by exactly its encoded size; a call sets nullptr only when the         *)
(* encoding of its field does not fit in the buffer (the end_ptr checks   *)
(* of mach_parse_compressed and mach_u64_parse_compressed, the masks and  *)
(* the byte order).                                                       *)
ParsedAsEncoded ==
    LET n == IF ptr = NULL THEN Len(out) - 1 ELSE Len(out)
    IN /\ \A i \in 1..n : out[i] = vals[i]
       /\ ptr # NULL => ptr = 1 + Len(EncodeAll(n))
       /\ ptr = NULL => Len(EncodeAll(n + 1)) > Len(buf)

(* No call reads a byte at or past end_ptr (mach_read_next_compressed has *)
(* no end check: mach_u64_parse_compressed must call it only with room).  *)
NoOverread == read <= Len(buf)
=============================================================================
