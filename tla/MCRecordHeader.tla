--------------------------- MODULE MCRecordHeader ---------------------------
EXTENDS RecordHeader, TLC

CONSTANTS inf, sup

\* the two records every compact index page starts with
MCOrigin == (inf :> PAGE_NEW_INFIMUM) @@ (sup :> PAGE_NEW_SUPREMUM)

\* infimum_supremum_compact, the header bytes of each record
MCInitBytes == (inf :> <<1, 0, 2, 0, 13>>) @@ (sup :> <<1, 0, 11, 0, 0>>)

\* infimum: owns itself, heap 0, links to the supremum; supremum: heap 1, last
MCInitFields ==
    [r \in Recs |->
        IF r = inf
        THEN [info |-> {}, nOwned |-> 1, status |-> REC_STATUS_INFIMUM,
              heapNo |-> 0, next |-> PAGE_NEW_SUPREMUM]
        ELSE [info |-> {}, nOwned |-> 1, status |-> REC_STATUS_SUPREMUM,
              heapNo |-> 1, next |-> 0]]
=============================================================================
