----------------------------- MODULE SharedFile -----------------------------
(***************************************************************************)
(* include/base.hh: File::write and File::load on the same path, called by *)
(* two processes that know nothing of each other.                          *)
(***************************************************************************)
EXTENDS FileWrite

CONSTANT PageSize

ASSUME PageSizeAssumption == PageSize \in Nat \ {0}

VARIABLES
    step, st_size, content,     \* of FileLoad
    found,                      \* the file as fstat found it
    moved                       \* whether it has changed before the return

reader == <<step, st_size, content>>
history == <<found, moved>>
sharedVars == <<vars, reader, history>>

Load == INSTANCE FileLoad

SharedInit == Init /\ Load!Init /\ found = << >> /\ moved = FALSE

\* A step of File::write, and one of File::load.
Writes ==
    /\ Next
    /\ moved' = (moved \/ (step # "returned" /\ disk' # disk))
    /\ UNCHANGED <<reader, found>>

Loads ==
    /\ Load!Next
    /\ IF step = "fstat" THEN found' = disk /\ moved' = FALSE ELSE UNCHANGED history
    /\ UNCHANGED vars

SharedNext == Writes \/ Loads

\* The reader may come at any time or never.
SharedSpec == SharedInit /\ [][SharedNext]_sharedVars

FairSharedSpec == SharedSpec /\ Fairness

-----------------------------------------------------------------------------
(* Correctness.                                                            *)

\* A byte that was in this place in the old file or in the new, or the zero behind an end.
OldOrNew(k, byte) ==
    \/ byte = 0
    \/ k <= Len(old) /\ byte = old[k]
    \/ k <= Len(bytes) /\ byte = bytes[k]

\* A load that nobody disturbs returns the file; an empty one it never returns.  One that is
\* overtaken by a write may return a file that never was, as long as the file was: bytes of
\* the old file and of the new, and zeros, each in its place.
LoadedIsFile ==
    step = "returned" =>
       /\ DOMAIN content = 1 .. Len(found) /\ found # << >>
       /\ ~ moved => content = found
       /\ \A k \in DOMAIN content : OldOrNew(k, content[k])
=============================================================================
