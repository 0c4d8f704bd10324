----------------------------- MODULE ElfWriterV1 ----------------------------
(***************************************************************************)
(* main of cemetery/main.cc: an object file with .text and no symbol.  The *)
(* bytes of .text are a parameter here.                                    *)
(***************************************************************************)
EXTENDS ElfRecords

\* RelocationName
SectionHeaderTableOffset == <<"SectionHeaderTableOffset">>
SectionHeaderStringTableIndex == <<"SectionHeaderStringTableIndex">>
NumberOfSectionHeaders == <<"NumberOfSectionHeaders">>
SectionHeadersStringTableName == <<"SectionHeadersStringTableName">>
SectionHeadersStringTableOffset == <<"SectionHeadersStringTableOffset">>
SectionHeadersStringTableSize == <<"SectionHeadersStringTableSize">>
TextSectionOffset == <<"TextSectionOffset">>
TextSectionSize == <<"TextSectionSize">>

Labels ==
    {SectionHeaderTableOffset, SectionHeaderStringTableIndex, NumberOfSectionHeaders,
     SectionHeadersStringTableName, SectionHeadersStringTableOffset,
     SectionHeadersStringTableSize, TextSectionOffset, TextSectionSize}

elf_header ==
    [ElfHeader EXCEPT !.e_shoff = Reloc(SectionHeaderTableOffset, 8),
                      !.e_shnum = Reloc(NumberOfSectionHeaders, 2),
                      !.e_shstrndx = Reloc(SectionHeaderStringTableIndex, 2)]

\* The string table begins with a NUL; .text is added by main, .shstrtab by the operator<<
\* of the table itself.
names == << << >>, section_name(Text), section_name(SectionHeaderStrTab)>>

text_section_header ==
    [HeaderOfType(sht_progbits) EXCEPT
        !.sh_name = u32(OffsetOf(names, 2)), !.sh_offset = Reloc(TextSectionOffset, 8),
        !.sh_size = Reloc(TextSectionSize, 8), !.sh_addralign = u64(1)]

section_headers_strtab_header ==
    [HeaderOfType(sht_strtab) EXCEPT
        !.sh_name = Reloc(SectionHeadersStringTableName, 4),
        !.sh_offset = Reloc(SectionHeadersStringTableOffset, 8),
        !.sh_size = Reloc(SectionHeadersStringTableSize, 8), !.sh_addralign = u64(1)]

section_header_table ==
    <<Fix(SectionHeaderTableOffset, Here, 8), Fix(NumberOfSectionHeaders, 3, 2)>>
    \o SectionHeaderCalls(HeaderOfType(sht_null))
    \o SectionHeaderCalls(text_section_header)
    \o <<Fix(SectionHeaderStringTableIndex, 2, 2)>>
    \o SectionHeaderCalls(section_headers_strtab_header)

section_headers_strtab ==
    <<Fix(SectionHeadersStringTableName, OffsetOf(names, 3), 4),
      Fix(SectionHeadersStringTableSize, Len(StringTable(names)), 8),
      Fix(SectionHeadersStringTableOffset, Here, 8),
      Value(StringTable(names))>>

text_section(text) ==
    <<Fix(TextSectionSize, Len(text), 8), Fix(TextSectionOffset, Here, 8), Value(text)>>

\* The calls of main up to dump_to_file.
main(text) ==
    ElfHeaderCalls(elf_header) \o section_header_table \o section_headers_strtab
                               \o text_section(text)
=============================================================================
