---------------------------- MODULE ElfWriterV3 -----------------------------
(***************************************************************************)
(* main of cemetery/main_v3.cc: an object file with one function, written  *)
(* from front to back, its header and section headers first, although what *)
(* they say is known only when the sections are out.  The bytes of the     *)
(* function and its name are parameters here.                              *)
(***************************************************************************)
EXTENDS ElfRecords

TextSectionIdx == <<"SymTab", "TextSectionIdx">>
Link == <<"SymTab", "Link">>
Info == <<"SymTab", "Info">>

Labels ==
    {ElfLabel(n) : n \in {"SectionHeaderTableOffset", "SectionHeaderStrTabIdx", "NumSectionHeaders"}}
    \cup SectionLabels \cup {TextSectionIdx, Link, Info}

-----------------------------------------------------------------------------
(* The records of main.                                                    *)

elf_header ==
    [e_ident |-> Value(e_ident), e_type |-> u16(et_rel), e_machine |-> u16(em_x86_64),
     e_version |-> u32(ev_current), e_entry |-> u64(0), e_phoff |-> u64(0),
     e_shoff |-> Reloc(ElfLabel("SectionHeaderTableOffset"), 8), e_flags |-> u32(0),
     e_ehsize |-> u16(elf_header_size), e_phentsize |-> u16(0), e_phnum |-> u16(0),
     e_shentsize |-> u16(section_header_size),
     e_shnum |-> Reloc(ElfLabel("NumSectionHeaders"), 2),
     e_shstrndx |-> Reloc(ElfLabel("SectionHeaderStrTabIdx"), 2)]

\* What the five section headers have in common.
section_header(sec, type, align) ==
    [HeaderOfType(type) EXCEPT
        !.sh_name = Reloc(name_reloc_label(sec), 4), !.sh_offset = Reloc(offset_reloc_label(sec), 8),
        !.sh_size = Reloc(size_reloc_label(sec), 8), !.sh_addralign = u64(align)]

null_section == section_header("Null", sht_null, 1)

text_header == section_header("Text", sht_progbits, 1)

symtab ==
    [section_header("SymTab", sht_symtab, 8) EXCEPT
        !.sh_link = Reloc(Link, 4), !.sh_info = Reloc(Info, 4), !.sh_entsize = u64(symbol_size)]

symtab_strtab == section_header("SymTabStringTable", sht_strtab, 1)

sh_strtab == section_header("SectionHeaderStringTable", sht_strtab, 1)

\* The fixes between the section headers and .text.
header_fixes ==
    <<Fix(ElfLabel("NumSectionHeaders"), 5, 2),
      Fix(ElfLabel("SectionHeaderStrTabIdx"), 4, 2),
      Fix(size_reloc_label("Null"), 0, 8),
      Fix(offset_reloc_label("Null"), Here, 8)>>

\* Mutant: the offset of .text is asked for when it is out.
text_section_late(text) ==
    <<Fix(TextSectionIdx, 1, 2), Fix(size_reloc_label("Text"), Len(text), 8), Value(text),
      Fix(offset_reloc_label("Text"), Here, 8)>>

text_section(text) ==
    <<Fix(TextSectionIdx, 1, 2),
      Fix(size_reloc_label("Text"), Len(text), 8),
      Fix(offset_reloc_label("Text"), Here, 8),
      Value(text)>>

section_names ==
    <<section_name(Text), section_name(Null), section_name(SectionHeaderStrTab),
      section_name(SymTab), section_name(SymTabStrTab)>>

sh_strtab_section ==
    <<Fix(name_reloc_label("Text"), OffsetOf(section_names, 1), 4),
      Fix(name_reloc_label("Null"), OffsetOf(section_names, 2), 4),
      Fix(name_reloc_label("SectionHeaderStringTable"), OffsetOf(section_names, 3), 4),
      Fix(name_reloc_label("SymTab"), OffsetOf(section_names, 4), 4),
      Fix(name_reloc_label("SymTabStringTable"), OffsetOf(section_names, 5), 4),
      Fix(offset_reloc_label("SectionHeaderStringTable"), Here, 8),
      Fix(size_reloc_label("SectionHeaderStringTable"), Len(StringTable(section_names)), 8),
      Value(StringTable(section_names))>>

symtab_strtab_section(name) ==
    LET names == << << >>, name>>
    IN  <<Fix(offset_reloc_label("SymTabStringTable"), Here, 8),
          Fix(size_reloc_label("SymTabStringTable"), Len(StringTable(names)), 8),
          Value(StringTable(names))>>

symtab_section(name) ==
    <<Fix(offset_reloc_label("SymTab"), Here, 8), Fix(size_reloc_label("SymTab"), 2 * symbol_size, 8)>>
    \o SymbolCalls(null_symbol)
    \o SymbolCalls(function_symbol(OffsetOf(<< << >>, name>>, 2), Reloc(TextSectionIdx, 2)))

\* The calls of main up to dump_to_file.
main(text, name) ==
    ElfHeaderCalls(elf_header)
    \o <<Fix(ElfLabel("SectionHeaderTableOffset"), Here, 8)>>
    \o SectionHeaderCalls(null_section)
    \o SectionHeaderCalls(text_header)
    \o SectionHeaderCalls(symtab) \o <<Fix(Link, 3, 4), Fix(Info, 1, 4)>>
    \o SectionHeaderCalls(symtab_strtab)
    \o SectionHeaderCalls(sh_strtab)
    \o header_fixes
    \o text_section(text)
    \o sh_strtab_section
    \o symtab_strtab_section(name)
    \o symtab_section(name)

=============================================================================
