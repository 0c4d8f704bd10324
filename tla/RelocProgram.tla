---------------------------- MODULE RelocProgram ----------------------------
(***************************************************************************)
(* What the three retired ELF writers of cemetery/ are asked to do: a      *)
(* program of calls that put bytes and placeholders into a buffer and fix  *)
(* the value of a label, and what the image of such a program should be,   *)
(* said without any of their relocation tables.                            *)
(***************************************************************************)
EXTENDS ElfFormat

\* A fix without a value: the place where it is asked for.
Here == -1

Width == 1 .. 8

\* The calls a program makes: an entry that is a value or a relocation, and a fix.
Value(bytes) == [op |-> "value", bytes |-> bytes]
Reloc(label, width) == [op |-> "reloc", label |-> label, width |-> width]
Fix(label, value, width) == [op |-> "fix", label |-> label, value |-> value, width |-> width]

\* serialize(T{})
Placeholder(width) == [k \in 1 .. width |-> 0]

\* Bytes in place of those behind offset; what lies outside the buffer is not seen here.
Patched(buf, offset, bytes) ==
    [p \in 1 .. Len(buf) |->
        IF p \in offset + 1 .. offset + Len(bytes) THEN bytes[p - offset] ELSE buf[p]]

-----------------------------------------------------------------------------
(* The meaning of a program s.                                             *)

Size(op) == IF op.op = "value" THEN Len(op.bytes) ELSE IF op.op = "reloc" THEN op.width ELSE 0

\* Where each call of s, and the end of s, finds the end of the buffer.
Place(s) ==
    LET place[k \in 1 .. Len(s) + 1] == IF k = 1 THEN 0 ELSE place[k - 1] + Size(s[k - 1])
    IN  place

Puts(s) == {k \in 1 .. Len(s) : s[k].op = "reloc"}
Fixes(s) == {k \in 1 .. Len(s) : s[k].op = "fix"}
PutsOf(s, label) == {k \in 1 .. Len(s) : s[k].op = "reloc" /\ s[k].label = label}
FixesOf(s, label) == {k \in 1 .. Len(s) : s[k].op = "fix" /\ s[k].label = label}
LabelsOf(s, calls) == {s[k].label : k \in calls}

Earliest(calls) == CHOOSE k \in calls : \A m \in calls : k <= m
Latest(calls) == CHOOSE k \in calls : \A m \in calls : m <= k

\* The calls that are the first to put their label.
FirstPuts(s) == {k \in Puts(s) : k = Earliest(PutsOf(s, s[k].label))}

\* The bytes that the fix f asks for.
FixBytes(s, f) == LE(IF s[f].value = Here THEN Place(s)[f] ELSE s[f].value, s[f].width)

\* The image of s when the placeholder put by k holds what the call fix[k] says, if there
\* is any.
Image(s, fix) ==
    LET bytes(k) == IF s[k].op = "value" THEN s[k].bytes
                    ELSE IF k \in DOMAIN fix THEN FixBytes(s, fix[k])
                    ELSE Placeholder(Size(s[k]))
        image[k \in 0 .. Len(s)] == IF k = 0 THEN << >> ELSE image[k - 1] \o bytes(k)
    IN  image[Len(s)]

\* The puts among calls that any fix is for, with the last or the first of these.
LastFixes(s, calls) ==
    [k \in {m \in calls : FixesOf(s, s[m].label) # {}} |-> Latest(FixesOf(s, s[k].label))]
FirstFixes(s, calls) ==
    [k \in {m \in calls : FixesOf(s, s[m].label) # {}} |-> Earliest(FixesOf(s, s[k].label))]

\* A fix is as wide as the relocations it is for.
WidthsAgree(s) ==
    \A k \in Puts(s) : \A f \in FixesOf(s, s[k].label) : s[f].width = s[k].width

\* Every label is put and fixed, each once.
OnceEach(s) ==
    /\ \A k, m \in Puts(s) : s[k].label = s[m].label => k = m
    /\ \A f, g \in Fixes(s) : s[f].label = s[g].label => f = g
    /\ LabelsOf(s, Puts(s)) = LabelsOf(s, Fixes(s))
=============================================================================
