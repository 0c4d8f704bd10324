----------------------------- MODULE RelocBuffer ----------------------------
(***************************************************************************)
(* What the Serializers of cemetery/main.cc, main_v2.cc and main_v3.cc     *)
(* have in common: a buffer that grows at its end while the program runs,  *)
(* tables of relocations and fixes, and a file that is written once.       *)
(***************************************************************************)
EXTENDS RelocProgram

CONSTANTS
    Scripts,    \* the programs considered: sequences of Ops
    Label,      \* Relocation::LabelType, RelocationName
    Olds,       \* what the file may hold before: the path is the same for every run
    Cuts        \* where a failed write may leave the file, see FileSpec

Ops ==
    [op : {"value"}, bytes : Seq(Byte)]
    \cup [op : {"reloc"}, label : Label, width : Width]
    \cup [op : {"fix"}, label : Label, value : Nat \cup {Here}, width : Width]

ASSUME ScriptsAssumption == Scripts \subseteq Seq(Ops)
ASSUME CutsAssumption == Cuts \subseteq Nat

VARIABLES
    script,             \* the calls of main
    at,                 \* the next of them
    pc,                 \* "script", "patch", "write" or "end"
    buffer,
    relocations,
    relocation_fixes,
    old,                \* what the file held before
    file,               \* the file of dump_to_file
    outcome             \* what the dump came to, as in FileSpec

tables == <<relocations, relocation_fixes>>
program == <<script, at, pc, buffer, tables, old, file, outcome>>

\* No image: the file does not exist.
NoFile == <<-1>>

BufferInit ==
    /\ old \in Olds /\ file = old /\ outcome = "pending"
    /\ script \in Scripts
    /\ at = 1 /\ pc = "script"
    /\ buffer = << >> /\ relocations = << >> /\ relocation_fixes = << >>

Call(op) ==
    /\ pc = "script" /\ at <= Len(script)
    /\ script[at].op = op
    /\ at' = at + 1
    /\ UNCHANGED <<script, old, pc, file, outcome>>

\* The value of the fix that is called.
Asked == IF script[at].value = Here THEN Len(buffer) ELSE script[at].value

PutValue ==
    /\ Call("value")
    /\ buffer' = buffer \o script[at].bytes
    /\ UNCHANGED tables

\* The process ends on the way to the file.
Dies ==
    /\ pc' = "end" /\ outcome' = "abort"
    /\ UNCHANGED <<script, old, at, buffer, tables, file>>

\* A patch that ends behind the buffer is undefined: the process dies of it, or nobody
\* notices and the bytes outside are not written.
EndsOutside(offset, bytes) == offset + Len(bytes) > Len(buffer)

FileWrite == INSTANCE FileSpec WITH data <- buffer, disk <- file

WriteFile ==
    /\ pc = "write"
    /\ FileWrite!Write
    /\ pc' = "end"
    /\ UNCHANGED <<script, old, at, tables>>
=============================================================================
