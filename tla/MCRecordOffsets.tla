-------------------------- MODULE MCRecordOffsets --------------------------
(* Indexes and column values for checking RecordOffsets.  Columns are as  *)
(* the redo log describes them: a fixed-length column is DATA_FIXBINARY    *)
(* with its length, a variable one DATA_BINARY with length 0 (at most 255 *)
(* bytes) or 0x7fff (a big column); DATA_NOT_NULL is in the precise type. *)
EXTENDS RecordOffsets

Col(mtype, notNull, len) ==
    [mtype |-> mtype, prtype |-> IF notNull THEN DATA_NOT_NULL ELSE 0, len |-> len]

\* a clustered index: key, DB_TRX_ID, DB_ROLL_PTR, a short and a big column
Clustered ==
    [cols |-> <<Col(DATA_FIXBINARY, TRUE, 4), Col(DATA_FIXBINARY, TRUE, 6),
                Col(DATA_FIXBINARY, TRUE, 7), Col(DATA_BINARY, FALSE, 0),
                Col(DATA_BINARY, FALSE, 32767)>>,
     nFields |-> 5, nUnique |-> 1, type |-> DICT_CLUSTERED]

\* a secondary index with nine nullable one-byte columns and a short
\* nullable column: its null bitmap takes two bytes
Secondary ==
    [cols |-> [j \in 1..9 |-> Col(DATA_FIXBINARY, FALSE, 1)]
              \o <<Col(DATA_BINARY, FALSE, 0)>>,
     nFields |-> 10, nUnique |-> 10, type |-> 0]

MCSchemas == {Clustered, Secondary}

Val(len, ext) == [null |-> FALSE, len |-> len, ext |-> ext]

MCShortVals == {Val(0, FALSE), Val(200, FALSE)}

\* one-byte and two-byte lengths, and an externally stored prefix
MCBigVals == {Val(127, FALSE), Val(128, FALSE), Val(300, FALSE), Val(20, TRUE)}

\* redundant records of three fields: a 1-byte form with a fixed-size SQL
\* null, the 127/128-byte boundary between the forms, an external field
NullOf(len) == [null |-> TRUE, len |-> len, ext |-> FALSE]
MCOldRows == {<<Val(4, FALSE), NullOf(4), Val(3, FALSE)>>,
              <<Val(119, FALSE), Val(8, FALSE), NullOf(0)>>,
              <<Val(120, FALSE), Val(8, FALSE), NullOf(0)>>,
              <<Val(100, FALSE), Val(20, TRUE), Val(5, FALSE)>>}

\* every count, a cap below the field count, and ULINT_UNDEFINED
MCMaxNIn == {2, ULINT_UNDEFINED}
=============================================================================
