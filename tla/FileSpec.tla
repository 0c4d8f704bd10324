------------------------------ MODULE FileSpec ------------------------------
(***************************************************************************)
(* What File::write promises its caller about the file at a path: after    *)
(* the call the file holds the data, or the process has ended and it holds *)
(* a beginning of the data or what it held before.  fclose is not checked: *)
(* when it fails the caller is not told ("lost").                          *)
(***************************************************************************)
EXTENDS Naturals, Sequences

CONSTANT Cuts       \* the lengths at which a failed write may leave the file

VARIABLES
    data,       \* the bytes to write
    disk,       \* the content of the file
    outcome     \* "pending", "written", "lost" or "abort"

Beginning(s, n) == SubSeq(s, 1, n)

Succeed ==
    /\ disk' = data
    /\ outcome' = "written"

Fail ==
    /\ \E n \in Cuts : n <= Len(data) /\ disk' = Beginning(data, n)
    /\ outcome' \in {"lost", "abort"}

\* fopen failed: the file is as it was.
Refuse ==
    /\ outcome' = "abort"
    /\ UNCHANGED disk

Write ==
    /\ outcome = "pending"
    /\ Succeed \/ Fail \/ Refuse
    /\ UNCHANGED data

Spec == outcome = "pending" /\ [][Write]_<<data, disk, outcome>>
=============================================================================
