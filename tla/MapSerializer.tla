---------------------------- MODULE MapSerializer ---------------------------
(***************************************************************************)
(* The Serializer and the RelocationHandler of the first retired ELF       *)
(* writer, cemetery/main.cc.  Relocations and fixes are two unordered      *)
(* maps: an insert of a label that is there does nothing, the fixes are    *)
(* visited in any order, and operator[] invents a relocation at the front  *)
(* of the file for a label it does not find.                               *)
(***************************************************************************)
EXTENDS RelocBuffer, FiniteSets

VARIABLE todo       \* the labels of the fixes not visited yet

vars == <<program, todo>>

Init == BufferInit /\ todo = {}

\* unordered_map::insert
Insert(map, label, x) ==
    [l \in DOMAIN map \cup {label} |-> IF l \in DOMAIN map THEN map[l] ELSE x]

PutEntry == PutValue /\ UNCHANGED todo

\* Mutant: the offset is taken when the placeholder is out.
add_relocation_late ==
    /\ Call("reloc")
    /\ buffer' = buffer \o Placeholder(script[at].width)
    /\ relocations' = Insert(relocations, script[at].label, Len(buffer'))
    /\ UNCHANGED <<relocation_fixes, todo>>

\* add_relocation, and the field behind it.
add_relocation ==
    /\ Call("reloc")
    /\ relocations' = Insert(relocations, script[at].label, Len(buffer))
    /\ buffer' = buffer \o Placeholder(script[at].width)
    /\ UNCHANGED <<relocation_fixes, todo>>

fix_relocation ==
    /\ Call("fix")
    /\ relocation_fixes' =
          Insert(relocation_fixes, script[at].label, LE(Asked, script[at].width))
    /\ UNCHANGED <<buffer, relocations, todo>>

-----------------------------------------------------------------------------
(* dump_to_file: fix_relocations, and the file.                            *)

CountsDiffer == Cardinality(DOMAIN relocation_fixes) # Cardinality(DOMAIN relocations)

\* "Skipping this step...": the file is written all the same.
SkipFixes ==
    /\ pc = "script" /\ at > Len(script)
    /\ CountsDiffer
    /\ pc' = "write"
    /\ UNCHANGED <<script, old, at, buffer, tables, todo, file, outcome>>

\* Mutant: fewer fixes than relocations will do.
BeginFixesOfSome ==
    /\ pc = "script" /\ at > Len(script)
    /\ pc' = "patch"
    /\ todo' = DOMAIN relocation_fixes
    /\ UNCHANGED <<script, old, at, buffer, tables, file, outcome>>

BeginFixes ==
    /\ pc = "script" /\ at > Len(script)
    /\ ~ CountsDiffer
    /\ pc' = "patch"
    /\ todo' = DOMAIN relocation_fixes
    /\ UNCHANGED <<script, old, at, buffer, tables, file, outcome>>

\* relocations[reloc_id].offset
OffsetAt(label) == IF label \in DOMAIN relocations THEN relocations[label] ELSE 0

Patch ==
    /\ pc = "patch"
    /\ \E label \in todo :
          /\ buffer' = Patched(buffer, OffsetAt(label), relocation_fixes[label])
          /\ relocations' = Insert(relocations, label, 0)
          /\ todo' = todo \ {label}
    /\ UNCHANGED <<script, old, at, pc, relocation_fixes, file, outcome>>

PatchDies ==
    /\ pc = "patch"
    /\ \E label \in todo : EndsOutside(OffsetAt(label), relocation_fixes[label])
    /\ Dies
    /\ UNCHANGED todo

EndFixes ==
    /\ pc = "patch" /\ todo = {}
    /\ pc' = "write"
    /\ UNCHANGED <<script, old, at, buffer, tables, todo, file, outcome>>

DumpToFile == WriteFile /\ UNCHANGED todo

Next ==
    \/ PutEntry \/ add_relocation \/ fix_relocation
    \/ SkipFixes \/ BeginFixes \/ Patch \/ PatchDies \/ EndFixes
    \/ DumpToFile

Spec == Init /\ [][Next]_vars

-----------------------------------------------------------------------------
(* Correctness.                                                            *)

\* The labels fixed and never put: operator[] sends their fixes to the front of the file.
Strays == LabelsOf(script, Fixes(script)) \ LabelsOf(script, Puts(script))

StrayBytes(label) == FixBytes(script, Earliest(FixesOf(script, label)))

\* The fixes of these reach the p-th byte of the file.
StraysAt(p) == {label \in Strays : p <= Len(StrayBytes(label))}

\* As many labels fixed as put, and each that was put first holds its first fix, whatever
\* the order of the map; a byte that stray fixes reach is of one of them, or it is of a
\* placeholder that was filled later.  Or else no placeholder is filled at all.
AllOrNothing ==
    outcome = "written" /\ WidthsAgree(script) =>
       LET puts   == LabelsOf(script, Puts(script))
           fixes  == LabelsOf(script, Fixes(script))
           first  == FirstFixes(script, FirstPuts(script))
           image  == Image(script, first)
           filled == {p \in 1 .. Len(image) : \E k \in DOMAIN first :
                         p \in Place(script)[k] + 1 .. Place(script)[k] + script[k].width}
       IN  IF Cardinality(puts) # Cardinality(fixes) THEN file = Image(script, << >>)
           ELSE /\ Len(file) = Len(image)
                /\ \A p \in 1 .. Len(file) :
                      \/ \E label \in StraysAt(p) : file[p] = StrayBytes(label)[p]
                      \/ file[p] = image[p] /\ (StraysAt(p) = {} \/ p \in filled)
=============================================================================
