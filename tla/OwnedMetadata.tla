--------------------------- MODULE OwnedMetadata ---------------------------
(***************************************************************************)
(* The bookkeeping of src/controller/owned_metadata.go: which of the       *)
(* labels and annotations on a Secret that others write too are the        *)
(* operator's.  A map is a function from keys to values, the ownership     *)
(* record the set of keys that it lists.                                   *)
(***************************************************************************)
Without(m, keys) == [k \in DOMAIN m \ keys |-> m[k]]

Merge(m, desired) ==
    [k \in DOMAIN m \cup DOMAIN desired |->
       IF k \in DOMAIN desired THEN desired[k] ELSE m[k]]

\* Drop what was recorded and is no longer desired, then add what is desired.
ApplyOwned(current, record, desired) ==
    Merge(Without(current, record \ DOMAIN desired), desired)

OwnedRecord(desired) == DOMAIN desired
====
