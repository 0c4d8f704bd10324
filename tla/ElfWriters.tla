----------------------------- MODULE ElfWriters -----------------------------
(***************************************************************************)
(* The three retired ELF writers of cemetery/ side by side: each is given  *)
(* a program of calls, and has its own way with relocations and fixes.     *)
(***************************************************************************)
EXTENDS RelocBuffer

CONSTANT Given(_, _)    \* whether a writer is given a program

Writers == {"v1", "v2", "v3"}

VARIABLES
    writer,             \* which of the three it is
    todo,               \* of MapSerializer
    i,                  \* of ClosureSerializer and RelocSerializer
    j, fixed            \* of RelocSerializer

vars == <<writer, program, todo, i, j, fixed>>

V1 == INSTANCE MapSerializer
V2 == INSTANCE ClosureSerializer
V3 == INSTANCE RelocSerializer

Init ==
    /\ writer \in Writers
    /\ BufferInit /\ Given(writer, script)
    /\ todo = {} /\ i = 1 /\ j = 1 /\ fixed = 0

First == writer = "v1" /\ V1!Next /\ UNCHANGED <<writer, i, j, fixed>>
Second == writer = "v2" /\ V2!Next /\ UNCHANGED <<writer, todo, j, fixed>>
Third == writer = "v3" /\ V3!Next /\ UNCHANGED <<writer, todo>>

Next == First \/ Second \/ Third

Spec == Init /\ [][Next]_vars

-----------------------------------------------------------------------------
(* Correctness.                                                            *)

\* v1 patches every label it fixes, at the place it was first put and with the value first
\* fixed, or it patches none; a fix of a label never put goes to the front of the file and
\* changes no other byte (main.cc:164-178).
AllOrNothing == writer = "v1" => V1!AllOrNothing

\* v2 patches at the first relocation of a label only, and does not touch the file when a
\* label that is fixed was never put (main_v2.cc:120-147).
FirstOnly == writer = "v2" => V2!FirstOnly

\* v3 patches every relocation of a label with the value fixed last, where the fixes are as
\* wide as the relocations (main_v3.cc:363-391).
PatchesByLabel == writer = "v3" => V3!PatchesByLabel

\* v3 finds more relocations than it fixes only if one has no fix, and, if no label is fixed
\* twice, it has a difference to print exactly when one has none (main_v3.cc:385-388).
CountsTell == writer = "v3" => V3!CountsTell

\* On programs that put and fix every label once, as each main does, the three ways of
\* patching are one: the file becomes the image of the program, in one step, or what
\* FileSpec leaves of it.
Promise(image) == INSTANCE FileSpec WITH data <- image, disk <- file

WritersAgree ==
    [][\/ UNCHANGED <<file, outcome>>
       \/ OnceEach(script) /\ WidthsAgree(script) =>
             \E image \in {Image(script, LastFixes(script, Puts(script)))} :
                Promise(image)!Write]_<<file, outcome>>
=============================================================================
