-------------------------- MODULE RelocSerializer ---------------------------
(***************************************************************************)
(* The Serializer of the third retired ELF writer, cemetery/main_v3.cc.    *)
(* A value that is not known yet goes out as a placeholder of zeros with a *)
(* label; fix_relocation notes the value of a label; dump_to_file patches  *)
(* every placeholder with the label of a fix, for every fix in turn, and   *)
(* writes the buffer.  One action is one call or one round of the loops.   *)
(***************************************************************************)
EXTENDS RelocBuffer

VARIABLES
    i, j,               \* the fix and the relocation dump_to_file looks at
    fixed               \* relocations_fixed

loops == <<i, j, fixed>>
vars == <<program, loops>>

Init == BufferInit /\ i = 1 /\ j = 1 /\ fixed = 0

-----------------------------------------------------------------------------
(* operator<< and fix_relocation.                                          *)

PutEntry == PutValue /\ UNCHANGED loops

PutRelocation ==
    /\ Call("reloc")
    /\ relocations' = Append(relocations, [offset |-> Len(buffer), label |-> script[at].label])
    /\ buffer' = buffer \o Placeholder(script[at].width)
    /\ UNCHANGED <<relocation_fixes, loops>>

fix_relocation ==
    /\ Call("fix")
    /\ relocation_fixes' = Append(relocation_fixes,
          [value |-> Asked, label_to_fix |-> script[at].label, width |-> script[at].width])
    /\ UNCHANGED <<buffer, relocations, loops>>

-----------------------------------------------------------------------------
(* dump_to_file.                                                           *)

BeginDump ==
    /\ pc = "script" /\ at > Len(script)
    /\ pc' = "patch"
    /\ UNCHANGED <<script, old, at, buffer, tables, loops, file, outcome>>

Looking == pc = "patch" /\ i <= Len(relocation_fixes) /\ j <= Len(relocations)

Matches == relocations[j].label = relocation_fixes[i].label_to_fix

\* The low byte first.
Bytes == LE(relocation_fixes[i].value, relocation_fixes[i].width)

\* Mutant: only the first relocation with the label is patched.
PatchFirst ==
    /\ Looking /\ Matches
    /\ buffer' = Patched(buffer, relocations[j].offset, Bytes)
    /\ fixed' = fixed + 1
    /\ i' = i + 1 /\ j' = 1
    /\ UNCHANGED <<script, old, at, pc, tables, file, outcome>>

Patch ==
    /\ Looking /\ Matches
    /\ buffer' = Patched(buffer, relocations[j].offset, Bytes)
    /\ fixed' = fixed + 1
    /\ j' = j + 1
    /\ UNCHANGED <<script, old, at, pc, tables, i, file, outcome>>

PatchDies ==
    /\ Looking /\ Matches
    /\ EndsOutside(relocations[j].offset, Bytes)
    /\ Dies
    /\ UNCHANGED loops

Skip ==
    /\ Looking /\ ~ Matches
    /\ j' = j + 1
    /\ UNCHANGED <<program, i, fixed>>

\* Mutant: the inner loop does not begin again.
NextFixGoesOn ==
    /\ pc = "patch" /\ i <= Len(relocation_fixes) /\ j > Len(relocations)
    /\ i' = i + 1
    /\ UNCHANGED <<program, j, fixed>>

NextFix ==
    /\ pc = "patch" /\ i <= Len(relocation_fixes) /\ j > Len(relocations)
    /\ i' = i + 1 /\ j' = 1
    /\ UNCHANGED <<program, fixed>>

\* relocations_found and relocations_fixed are compared here, and the difference printed.
EndPatch ==
    /\ pc = "patch" /\ i > Len(relocation_fixes)
    /\ pc' = "write"
    /\ UNCHANGED <<script, old, at, buffer, tables, loops, file, outcome>>

DumpToFile == WriteFile /\ UNCHANGED loops

Next ==
    \/ PutEntry \/ PutRelocation \/ fix_relocation
    \/ BeginDump \/ Patch \/ PatchDies \/ Skip \/ NextFix \/ EndPatch
    \/ DumpToFile

Spec == Init /\ [][Next]_vars

-----------------------------------------------------------------------------
(* Correctness.                                                            *)

\* The loops over fixes and relocations patch what the labels say, the last fix of a label
\* in every placeholder with it, in whatever order values, relocations and fixes come, and
\* nothing else: no byte between two fields is touched.  The fixes must be as
\* wide as the placeholders of their labels; whether the value is the right one is not said.
PatchesByLabel ==
    outcome = "written" /\ WidthsAgree(script) =>
       file = Image(script, LastFixes(script, Puts(script)))

\* The two numbers dump_to_file compares: fewer fixed than found means that a placeholder was
\* left unfilled; and equal numbers mean that none was, if no label is fixed twice: the second
\* fix of a label may make up in the sum for a placeholder that got none.  Of fixes whose
\* label is never put neither number says anything.
CountsTell ==
    pc = "write" =>
       LET complete == LabelsOf(script, Puts(script)) \subseteq LabelsOf(script, Fixes(script))
           once     == \A f, g \in Fixes(script) : script[f].label = script[g].label => f = g
       IN  /\ fixed < Len(relocations) => ~ complete
           /\ once => (fixed = Len(relocations) <=> complete)
=============================================================================
