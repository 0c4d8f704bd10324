-------------------------- MODULE ClosureSerializer -------------------------
(***************************************************************************)
(* The Serializer of the second retired ELF writer, cemetery/main_v2.cc.   *)
(* A fix is a closure over its label and value that dump_to runs: it finds *)
(* the first relocation with the label, or ends the process.               *)
(***************************************************************************)
EXTENDS RelocBuffer

VARIABLE i          \* the closure dump_to runs

vars == <<program, i>>

Init == BufferInit /\ i = 1

PutEntry == PutValue /\ UNCHANGED i

PutRelocation ==
    /\ Call("reloc")
    /\ relocations' = Append(relocations, [offset |-> Len(buffer), label |-> script[at].label])
    /\ buffer' = buffer \o Placeholder(script[at].width)
    /\ UNCHANGED <<relocation_fixes, i>>

fix_relocation ==
    /\ Call("fix")
    /\ relocation_fixes' = Append(relocation_fixes,
          [label |-> script[at].label, bytes |-> LE(Asked, script[at].width)])
    /\ UNCHANGED <<buffer, relocations, i>>

-----------------------------------------------------------------------------
(* dump_to.                                                                *)

BeginDump ==
    /\ pc = "script" /\ at > Len(script)
    /\ pc' = "patch"
    /\ UNCHANGED <<script, old, at, buffer, tables, i, file, outcome>>

Running == pc = "patch" /\ i <= Len(relocation_fixes)

Found == {k \in 1 .. Len(relocations) : relocations[k].label = relocation_fixes[i].label}

\* Mutant: std::find_if from the back.
PatchLast ==
    /\ Running /\ Found # {}
    /\ buffer' = Patched(buffer, relocations[Latest(Found)].offset, relocation_fixes[i].bytes)
    /\ i' = i + 1
    /\ UNCHANGED <<script, old, at, pc, tables, file, outcome>>

Patch ==
    /\ Running /\ Found # {}
    /\ buffer' = Patched(buffer, relocations[Earliest(Found)].offset, relocation_fixes[i].bytes)
    /\ i' = i + 1
    /\ UNCHANGED <<script, old, at, pc, tables, file, outcome>>

PatchDies ==
    /\ Running /\ Found # {}
    /\ EndsOutside(relocations[Earliest(Found)].offset, relocation_fixes[i].bytes)
    /\ Dies
    /\ UNCHANGED i

\* "Failed to find relocation": std::exit(1).
NotFound ==
    /\ Running /\ Found = {}
    /\ Dies
    /\ UNCHANGED i

EndPatch ==
    /\ pc = "patch" /\ i > Len(relocation_fixes)
    /\ pc' = "write"
    /\ UNCHANGED <<script, old, at, buffer, tables, i, file, outcome>>

DumpTo == WriteFile /\ UNCHANGED i

Next ==
    \/ PutEntry \/ PutRelocation \/ fix_relocation
    \/ BeginDump \/ Patch \/ PatchDies \/ NotFound \/ EndPatch
    \/ DumpTo

Spec == Init /\ [][Next]_vars

-----------------------------------------------------------------------------
(* Correctness.                                                            *)

\* A fix of a label that is never put leaves the file untouched, an older one too; otherwise
\* the first placeholder of a label holds its last fix, and a second one stays empty, of
\* which nothing is said.
FirstOnly ==
    /\ ~ LabelsOf(script, Fixes(script)) \subseteq LabelsOf(script, Puts(script)) => file = old
    /\ outcome = "written" /\ WidthsAgree(script) =>
          file = Image(script, LastFixes(script, FirstPuts(script)))
=============================================================================
