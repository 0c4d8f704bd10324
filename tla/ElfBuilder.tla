----------------------------- MODULE ElfBuilder -----------------------------
(***************************************************************************)
(* lib/elf/elf_builder.cc: build_elf_file, one action per step of its      *)
(* loops.  The SectionTable constructor lays out the section names in the  *)
(* iteration order of an unordered_map, which the language leaves open.    *)
(***************************************************************************)
EXTENDS ElfFormat

CONSTANTS
    Codes,      \* the arguments of build_elf_file
    Orders,     \* the iteration orders of section_names
    U32,        \* 2^32: static_cast<u32> keeps the remainder
    Olds,       \* what the file may hold before: the path is the same for every build
    Cuts        \* where a failed write may leave the file, see FileSpec

\* A symbol is defined in .text or .data, and its name is a C string.
CodeSymbol ==
    [offset : Nat, code_section : {Text, Data}, name : Seq(Byte \ {0}), value : Nat]

ASSUME CodesAssumption ==
    \A c \in Codes :
       c \in [text : Seq(Byte), data : Seq(Byte), symbols : Seq(CodeSymbol)]

ASSUME OrdersAssumption ==
    \A o \in Orders : /\ o \in [1 .. num_sections -> SectionType]
                      /\ \A sec \in SectionType : \E i \in 1 .. num_sections : o[i] = sec
                      /\ \A i, j \in 1 .. num_sections : o[i] = o[j] => i = j

\* 2^32 is beyond the table of section names, whatever the order.
ASSUME NumbersAssumption == U32 \in Nat /\ U32 >= 64 /\ Cuts \subseteq Nat

\* No image: the file does not exist.
NoFile == <<-1>>

ASSUME OldsAssumption == Olds \subseteq Seq(Byte) \cup {NoFile}

VARIABLES
    code,       \* the argument
    order,      \* the iteration order of section_names in this execution
    pc,         \* the loop build_elf_file is in
    idx,        \* how many rounds of it are done
    headers,    \* the SectionHeader of every section
    bodies,     \* the bytes of every section
    strtab,     \* StringTable::out of the string table being filled
    symbols,    \* what extract_syms_and_sym_strtab has collected
    e_shoff,    \* ElfHeader::e_shoff
    out,        \* Serializer::out
    file,       \* ./elf_file_v2
    outcome     \* what File::write came to

sections == <<headers, bodies>>
vars == <<code, order, pc, idx, headers, bodies, strtab, symbols, e_shoff, out, file, outcome>>

PC == {"names", "symbols", "bodies", "headers", "write", "end"}

u32(n) == n % U32

-----------------------------------------------------------------------------
Init ==
    /\ code \in Codes
    /\ order \in Orders
    /\ pc = "names"
    /\ idx = 0
    /\ headers = [sec \in SectionType |-> SectionHeader]
    /\ bodies = [sec \in SectionType |-> << >>]
    /\ strtab = << >>
    /\ symbols = << >>
    /\ e_shoff = elf_header_size
    /\ out = << >>
    /\ file \in Olds
    /\ outcome = "pending"

(* SectionTable(): build_sh_strtab_and_fix_all_hdr_name_offsets.           *)

\* Mutant: no NUL ends the name.
add_string_only(name) == strtab' = strtab \o name

\* StringTable::add_string(name): the offset is the length before, a NUL ends the name.
add_string(name) == strtab' = strtab \o name \o <<0>>

\* Mutant: sh_name is the end of the name, not its start.
AddSectionNameThenOffset ==
    /\ pc = "names"
    /\ idx < num_sections
    /\ add_string(section_name(order[idx + 1]))
    /\ headers' = [headers EXCEPT ![order[idx + 1]].sh_name = u32(Len(strtab'))]
    /\ idx' = idx + 1
    /\ UNCHANGED <<code, order, pc, bodies, symbols, e_shoff, out, file, outcome>>

AddSectionName ==
    /\ pc = "names"
    /\ idx < num_sections
    /\ headers' = [headers EXCEPT ![order[idx + 1]].sh_name = u32(Len(strtab))]
    /\ add_string(section_name(order[idx + 1]))
    /\ idx' = idx + 1
    /\ UNCHANGED <<code, order, pc, bodies, symbols, e_shoff, out, file, outcome>>

\* The three fields that every section with a body gets.
Described(header, type, size, align) ==
    [header EXCEPT !.sh_type = type, !.sh_size = size, !.sh_addralign = align]

\* The end of the constructor, then the dummy symbol that starts the symbol table.
StoreSectionNames ==
    /\ pc = "names"
    /\ idx = num_sections
    /\ bodies' = [bodies EXCEPT ![SectionHeaderStrTab] = strtab]
    /\ headers' = [headers EXCEPT
            ![SectionHeaderStrTab] = Described(@, sht_strtab, Len(strtab), 1)]
    /\ strtab' = <<0>>
    /\ symbols' = <<Symbol>>
    /\ pc' = "symbols"
    /\ idx' = 0
    /\ UNCHANGED <<code, order, e_shoff, out, file, outcome>>

(* extract_syms_and_sym_strtab.                                            *)

AddSymbol ==
    /\ pc = "symbols"
    /\ idx < Len(code.symbols)
    /\ LET sym == code.symbols[idx + 1]
       IN  /\ symbols' = Append(symbols,
                [st_name |-> u32(Len(strtab)),
                 st_info |-> st_info(STB_GLOBAL,
                                IF sym.code_section = Text THEN STT_FUNC ELSE STT_OBJECT),
                 st_other |-> 0,
                 st_shndx |-> sym.code_section,
                 st_value |-> sym.offset,
                 st_size |-> sym.value])
           /\ add_string(sym.name)
    /\ idx' = idx + 1
    /\ UNCHANGED <<code, order, pc, headers, bodies, e_shoff, out, file, outcome>>

(* build_all_sections_and_update_hdrs, and the header of the file.         *)

\* Serializer() << symbols: the i-th symbol fills the i-th slice of symbol_size bytes.
SymTabBytes ==
    [i \in 1 .. symbol_size * Len(symbols) |->
        SymbolBytes(symbols[((i - 1) \div symbol_size) + 1])[((i - 1) % symbol_size) + 1]]

\* Mutant: the table of section names is left out.
size_of_bodies_of_code(b) ==
    Len(b[Null]) + Len(b[Text]) + Len(b[SymTab]) + Len(b[SymTabStrTab]) + Len(b[Data])

size_of_all_section_bodies(b) ==
    Len(b[Null]) + Len(b[Text]) + Len(b[SectionHeaderStrTab])
        + Len(b[SymTab]) + Len(b[SymTabStrTab]) + Len(b[Data])

BuildSections ==
    /\ pc = "symbols"
    /\ idx = Len(code.symbols)
    /\ bodies' = [bodies EXCEPT ![Text] = code.text, ![Data] = code.data,
                                ![SymTabStrTab] = strtab, ![SymTab] = SymTabBytes]
    /\ headers' = [headers EXCEPT
            ![Text] = Described(@, sht_progbits, Len(code.text), 1),
            ![Data] = Described(@, sht_progbits, Len(code.data), 8),
            ![SymTabStrTab] = Described(@, sht_strtab, Len(strtab), 1),
            ![SymTab] = [Described(@, sht_symtab, Len(SymTabBytes), 1) EXCEPT
                            !.sh_link = SymTabStrTab, !.sh_info = 1, !.sh_entsize = symbol_size]]
    /\ e_shoff' = elf_header_size + size_of_all_section_bodies(bodies')
    /\ out' = ElfHeaderBytes(e_shoff')
    /\ pc' = "bodies"
    /\ idx' = 0
    /\ UNCHANGED <<code, order, strtab, symbols, file, outcome>>

(* The two loops over the sections, and File::write.                       *)

\* Mutant: an empty section is passed over before the index moves.
EmitBodyUnlessEmpty ==
    /\ pc = "bodies"
    /\ bodies[idx] # << >>
    /\ headers' = [headers EXCEPT ![idx].sh_offset = Len(out)]
    /\ out' = out \o bodies[idx]
    /\ IF idx + 1 < num_sections
       THEN pc' = pc /\ idx' = idx + 1
       ELSE pc' = "headers" /\ idx' = 0
    /\ UNCHANGED <<code, order, bodies, strtab, symbols, e_shoff, file, outcome>>

\* Mutant: sh_offset is taken after the body went out.
EmitBodyThenOffset ==
    /\ pc = "bodies"
    /\ out' = out \o bodies[idx]
    /\ headers' = [headers EXCEPT ![idx].sh_offset = Len(out')]
    /\ IF idx + 1 < num_sections
       THEN pc' = pc /\ idx' = idx + 1
       ELSE pc' = "headers" /\ idx' = 0
    /\ UNCHANGED <<code, order, bodies, strtab, symbols, e_shoff, file, outcome>>

EmitBody ==
    /\ pc = "bodies"
    /\ headers' = [headers EXCEPT ![idx].sh_offset = Len(out)]
    /\ out' = out \o bodies[idx]
    /\ IF idx + 1 < num_sections
       THEN pc' = pc /\ idx' = idx + 1
       ELSE pc' = "headers" /\ idx' = 0
    /\ UNCHANGED <<code, order, bodies, strtab, symbols, e_shoff, file, outcome>>

EmitHeader ==
    /\ pc = "headers"
    /\ out' = out \o SectionHeaderBytes(headers[idx])
    /\ IF idx + 1 < num_sections
       THEN pc' = pc /\ idx' = idx + 1
       ELSE pc' = "write" /\ idx' = 0
    /\ UNCHANGED <<code, order, headers, bodies, strtab, symbols, e_shoff, file, outcome>>

FileOf == INSTANCE FileSpec WITH data <- out, disk <- file

WriteFile ==
    /\ pc = "write"
    /\ FileOf!Write
    /\ pc' = "end"
    /\ UNCHANGED <<code, order, idx, headers, bodies, strtab, symbols, e_shoff>>

Next ==
    \/ AddSectionName
    \/ StoreSectionNames
    \/ AddSymbol
    \/ BuildSections
    \/ EmitBody
    \/ EmitHeader
    \/ WriteFile

Spec == Init /\ [][Next]_vars

\* build_elf_file is straight-line code over finite loops: once called it runs.
FairSpec == Spec /\ WF_vars(Next)

-----------------------------------------------------------------------------
(* Correctness.                                                            *)

TypeOK ==
    /\ code \in Codes /\ order \in Orders
    /\ pc \in PC
    /\ idx \in 0 .. (IF pc = "names" THEN num_sections
                     ELSE IF pc = "symbols" THEN Len(code.symbols) ELSE num_sections - 1)
    /\ headers \in [SectionType -> SectionHeaders]
    /\ bodies \in [SectionType -> Seq(Byte)]
    /\ strtab \in Seq(Byte)
    /\ symbols \in Seq(Symbols)
    /\ e_shoff \in Nat
    /\ out \in Seq(Byte)
    /\ file = NoFile \/ file \in Seq(Byte)
    /\ outcome \in {"pending", "written", "lost", "abort"}

\* The section headers begin where e_shoff said they would, although e_shoff is computed
\* and written before the first section is: no step in between changes a length.
HeadersWherePredicted ==
    /\ pc = "headers" => Len(out) = e_shoff + idx * section_header_size
    /\ pc \in {"write", "end"} => Len(out) = e_shoff + num_sections * section_header_size

\* The sections whose body is already in the image.
Emitted ==
    {sec \in SectionType :
        pc \in {"headers", "write", "end"} \/ (pc = "bodies" /\ sec < idx)}

\* Each emitted section lies where its header says, whole, and the sections follow the
\* header of the file and one another without a gap.
SectionsInPlace ==
    \A sec \in Emitted :
       /\ headers[sec].sh_size = Len(bodies[sec])
       /\ headers[sec].sh_offset =
             IF sec = Null THEN elf_header_size
             ELSE headers[sec - 1].sh_offset + headers[sec - 1].sh_size
       /\ headers[sec].sh_offset + headers[sec].sh_size <= Len(out)
       /\ \A i \in 1 .. Len(bodies[sec]) : out[headers[sec].sh_offset + i] = bodies[sec][i]

\* The NUL-terminated string s stands at offset o of a string table.
StandsAt(table, o, s) ==
    /\ o + Len(s) < Len(table)
    /\ \A i \in 1 .. Len(s) : table[o + i] = s[i]
    /\ table[o + Len(s) + 1] = 0

\* sh_name leads to the section's own name, in whatever order the map was iterated.
SectionNamesResolve ==
    pc # "names" =>
       \A sec \in SectionType :
          StandsAt(bodies[SectionHeaderStrTab], headers[sec].sh_name, section_name(sec))

\* The i-th symbol of the code is the (i+1)-st of the table, after the dummy symbol, and
\* st_name leads to its name, unless the table outgrew the 32 bits of st_name.
SymbolNamesResolve ==
    pc \in {"bodies", "headers", "write", "end"} =>
       /\ Len(symbols) = Len(code.symbols) + 1
       /\ \A i \in 1 .. Len(code.symbols) :
             Len(strtab) <= U32 =>
                StandsAt(bodies[SymTabStrTab], symbols[i + 1].st_name, code.symbols[i].name)

Reader == INSTANCE ElfReader

\* What a failed write leaves of the image is no object file: the headers that come last are
\* what makes it one, so no proper beginning of the image can be taken for the whole.
CutFileIsNoObject ==
    pc = "end" /\ Len(file) < Len(out) /\ file = SubSeq(out, 1, Len(file)) =>
       ~ Reader!IsObject(file)

\* The symbols of a complete file are global, functions when they are in .text.
SymbolTypesAgree ==
    outcome = "written" => Reader!TypesAgree(file)

Unreadable == [text |-> "no object"]

Reads(image) == IF Reader!IsObject(image) THEN Reader!Read(image) ELSE Unreadable

\* build_elf_file delivers the code it was given, or nothing a linker accepts, or it leaves
\* the file of an earlier build untouched: then the process has ended with an error.
Object == INSTANCE ElfObject

DeliversTheCode == Object!Spec

\* Every build comes to an end, whatever becomes of the file.
BuildEnds == <>(outcome # "pending")
=============================================================================
