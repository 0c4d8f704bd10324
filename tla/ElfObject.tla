----------------------------- MODULE ElfObject ------------------------------
(***************************************************************************)
(* What build_elf_file is for: a linker that opens ./elf_file_v2 finds the *)
(* code that was given, or no object file, or, when the call did not come  *)
(* to open the file, what an earlier build left there; never a mixture.    *)
(***************************************************************************)
CONSTANTS
    Codes,
    Olds,           \* the images that may be there before the call
    Reads(_),       \* the program an image holds
    Unreadable      \* when it holds none

VARIABLES
    code,       \* the argument of build_elf_file
    file,       \* the image at ./elf_file_v2
    outcome     \* "pending", "written", "lost" or "abort"

vars == <<code, file, outcome>>

Init ==
    /\ code \in Codes
    /\ file \in Olds
    /\ outcome = "pending"

Deliver ==
    /\ outcome = "pending"
    /\ outcome' = "written"
    /\ Reads(file') = code
    /\ UNCHANGED code

\* The call ends without a complete file.  A file that was not opened is as it was, and then
\* the caller does not go on.
Fail ==
    /\ outcome = "pending"
    /\ \/ outcome' = "abort" /\ UNCHANGED file
       \/ outcome' \in {"lost", "abort"} /\ Reads(file') \in {Unreadable, code}
    /\ UNCHANGED code

Next == Deliver \/ Fail

Spec == Init /\ [][Next]_vars
=============================================================================
