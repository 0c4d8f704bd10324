----------------------------- MODULE ElfWriterV2 ----------------------------
(***************************************************************************)
(* main of cemetery/main_v2.cc: the section table with its bodies goes out *)
(* in one call, the section header string table last, because its body     *)
(* grows while the others are written.  The bytes and the name of the      *)
(* function are parameters here.                                           *)
(***************************************************************************)
EXTENDS ElfRecords

elf_header ==
    [ElfHeader EXCEPT !.e_shoff = Reloc(ElfLabel("SectionHeaderTableOffset"), 8),
                      !.e_shnum = Reloc(ElfLabel("NumberOfSectionHeaders"), 2),
                      !.e_shstrndx = Reloc(ElfLabel("SectionHeaderStringTableIdx"), 2)]

Labels ==
    {ElfLabel(n) : n \in {"SectionHeaderTableOffset", "NumberOfSectionHeaders",
                          "SectionHeaderStringTableIdx"}} \cup SectionLabels

-----------------------------------------------------------------------------
(* SymbolSection.                                                          *)

SymbolSection == [out |-> << >>, symbols |-> << >>]

\* A NUL ends the name; what add_string returns is the length before.
add_string(sec, name) == [sec EXCEPT !.out = @ \o name \o <<0>>]

\* SymbolSection::body() fills symbols and out; what it returns are the bytes of symbols.
body(sec, name) ==
    LET null == [sec EXCEPT !.symbols = Append(@, null_symbol), !.out = Append(@, 0)]
    IN  [add_string(null, name) EXCEPT
            !.symbols = Append(@, function_symbol(Len(null.out), u16(1)))]

symbol_bytes(sec) ==
    FlattenSeq([n \in 1 .. Len(sec.symbols) |->
        LET fields == SymbolCalls(sec.symbols[n])
        IN  FlattenSeq([k \in 1 .. Len(fields) |-> fields[k].bytes])])

-----------------------------------------------------------------------------
(* The section table.                                                      *)

\* Section: its name, a NUL behind it, its type, header fields that are not 0, and its body.
Section(name, type, header, bytes) ==
    [name |-> Append(section_name(name), 0), type |-> type, header |-> header, body |-> bytes]

\* Mutant: .strtab is taken from sec before sec.body() fills it.
section_header_table_early(text, name) ==
    LET sec == SymbolSection
    IN  <<Section(Null, "Null", HeaderOfType(sht_null), << >>),
          Section(Text, "Text", [HeaderOfType(sht_progbits) EXCEPT !.sh_addralign = u64(1)], text),
          Section(SymTab, "SymTab",
                  [HeaderOfType(sht_symtab) EXCEPT !.sh_link = u32(3), !.sh_info = u32(1),
                                                   !.sh_addralign = u64(8), !.sh_entsize = u64(24)],
                  symbol_bytes(body(sec, name))),
          Section(SymTabStrTab, "SymTabStringTable",
                  [HeaderOfType(sht_strtab) EXCEPT !.sh_addralign = u64(1)], sec.out),
          Section(SectionHeaderStrTab, "SectionHeaderStringTable",
                  [HeaderOfType(sht_strtab) EXCEPT !.sh_addralign = u64(1)], << >>)>>

\* section_header_table, in the order main pushes them: sec.body() comes before sec.out.
section_header_table(text, name) ==
    LET sec == body(SymbolSection, name)
    IN  <<Section(Null, "Null", HeaderOfType(sht_null), << >>),
          Section(Text, "Text", [HeaderOfType(sht_progbits) EXCEPT !.sh_addralign = u64(1)], text),
          Section(SymTab, "SymTab",
                  [HeaderOfType(sht_symtab) EXCEPT !.sh_link = u32(3), !.sh_info = u32(1),
                                                   !.sh_addralign = u64(8), !.sh_entsize = u64(24)],
                  symbol_bytes(sec)),
          Section(SymTabStrTab, "SymTabStringTable",
                  [HeaderOfType(sht_strtab) EXCEPT !.sh_addralign = u64(1)], sec.out),
          Section(SectionHeaderStrTab, "SectionHeaderStringTable",
                  [HeaderOfType(sht_strtab) EXCEPT !.sh_addralign = u64(1)], << >>)>>

header_calls(section) ==
    SectionHeaderCalls([section.header EXCEPT
        !.sh_name = Reloc(name_reloc_label(section.type), 4),
        !.sh_offset = Reloc(offset_reloc_label(section.type), 8),
        !.sh_size = Reloc(size_reloc_label(section.type), 8)])

sh_strtab_idx(table) ==
    Earliest({n \in 1 .. Len(table) : table[n].type = "SectionHeaderStringTable"})

\* The section table in the hands of operator<<, and the calls made so far.
Serializing(table, calls) == [table |-> table, calls |-> calls]

\* Mutant: the size is asked for before the name is in the string table.
serialize_section_unnamed(state, n) ==
    LET strtab  == sh_strtab_idx(state.table)
        section == state.table[n]
        grown   == [state.table EXCEPT ![strtab].body = @ \o section.name]
    IN  Serializing(grown, state.calls
            \o <<Fix(name_reloc_label(section.type), Len(state.table[strtab].body), 4),
                 Fix(size_reloc_label(section.type), Len(section.body), 8),
                 Fix(offset_reloc_label(section.type), Here, 8),
                 Value(grown[n].body)>>)

\* serialize_section: the name goes into the body of the string table, which section is
\* itself in the last call.
serialize_section(state, n) ==
    LET strtab  == sh_strtab_idx(state.table)
        grown   == [state.table EXCEPT ![strtab].body = @ \o state.table[n].name]
        section == grown[n]
    IN  Serializing(grown, state.calls
            \o <<Fix(name_reloc_label(section.type), Len(state.table[strtab].body), 4),
                 Fix(size_reloc_label(section.type), Len(section.body), 8),
                 Fix(offset_reloc_label(section.type), Here, 8),
                 Value(section.body)>>)

\* All sections but the string table, then the string table.
order(table) ==
    LET strtab == sh_strtab_idx(table)
    IN  SelectSeq([n \in 1 .. Len(table) |-> n], LAMBDA n : n # strtab) \o <<strtab>>

\* operator<< of the section table.
section_table_calls(table) ==
    <<Fix(ElfLabel("NumberOfSectionHeaders"), Len(table), 2),
      Fix(ElfLabel("SectionHeaderTableOffset"), Here, 8),
      Fix(ElfLabel("SectionHeaderStringTableIdx"), sh_strtab_idx(table) - 1, 2)>>
    \o FlattenSeq([n \in 1 .. Len(table) |-> header_calls(table[n])])
    \o FoldLeft(serialize_section, Serializing(table, << >>), order(table)).calls

\* The calls of main up to dump_to.
main(text, name) ==
    ElfHeaderCalls(elf_header) \o section_table_calls(section_header_table(text, name))
=============================================================================
