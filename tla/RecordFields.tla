---------------------------- MODULE RecordFields ----------------------------
(***************************************************************************)
(* What the compact ("new-style") record header of InnoDB promises: each   *)
(* record carries info flags, the number of records it owns, a status, a  *)
(* heap number and the page offset of the next record (0 = none), and a  *)
(* setter changes exactly the fields it names, to exactly its argument.   *)
(* `call` names the last setter and its argument, so that a refinement    *)
(* can be held to the value it was asked to store.                        *)
(***************************************************************************)
EXTENDS Naturals

CONSTANTS
    Recs, InitFields, PageSize,
    InfoArgs, StatusArgs, NOwnedArgs, HeapNoArgs, NextArgs  \* legal arguments

VARIABLES fields, call

Flags == {"min_rec", "deleted"}
Fields == [info : SUBSET Flags, nOwned : 0..15, status : 0..7,
           heapNo : 0..8191, next : 0..(PageSize - 1)]

ASSUME /\ InfoArgs \subseteq SUBSET Flags /\ StatusArgs \subseteq 0..7
       /\ NOwnedArgs \subseteq 0..15 /\ HeapNoArgs \subseteq 0..8191
       /\ NextArgs \subseteq 0..(PageSize - 1)

TypeOK == fields \in [Recs -> Fields]

Init == fields = InitFields /\ call = [rec |-> CHOOSE r \in Recs : TRUE,
                                       op |-> "none", arg |-> 0]

\* one step of setter op on record r: fields' of r is new, call' records it
Set(r, op, arg, new) ==
    /\ call' = [rec |-> r, op |-> op, arg |-> arg]
    /\ fields' = [fields EXCEPT ![r] = new]

SetInfoBits(r, f) == Set(r, "info", f, [fields[r] EXCEPT !.info = f])
SetStatus(r, s) == Set(r, "status", s, [fields[r] EXCEPT !.status = s])
SetInfoAndStatus(r, f, s) ==
    Set(r, "info_status", <<f, s>>, [fields[r] EXCEPT !.info = f, !.status = s])
SetNOwned(r, n) == Set(r, "n_owned", n, [fields[r] EXCEPT !.nOwned = n])
SetHeapNo(r, h) == Set(r, "heap_no", h, [fields[r] EXCEPT !.heapNo = h])
SetNext(r, n) == Set(r, "next", n, [fields[r] EXCEPT !.next = n])
SetDeleted(r, d) ==
    Set(r, "deleted", d,
        [fields[r] EXCEPT !.info = IF d THEN @ \cup {"deleted"}
                                        ELSE @ \ {"deleted"}])

Next ==
    \E r \in Recs :
       \/ \E f \in InfoArgs : SetInfoBits(r, f)
       \/ \E s \in StatusArgs : SetStatus(r, s)
       \/ \E f \in InfoArgs, s \in StatusArgs : SetInfoAndStatus(r, f, s)
       \/ \E n \in NOwnedArgs : SetNOwned(r, n)
       \/ \E h \in HeapNoArgs : SetHeapNo(r, h)
       \/ \E n \in NextArgs : SetNext(r, n)
       \/ \E d \in BOOLEAN : SetDeleted(r, d)

Spec == Init /\ [][Next]_<<fields, call>>
=============================================================================
