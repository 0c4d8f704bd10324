----------------------------- MODULE ElfRecords -----------------------------
(***************************************************************************)
(* The records of the retired ELF writers as calls of their Serializers:   *)
(* one call for each field, in the order of the operator<< of the record.  *)
(***************************************************************************)
EXTENDS RelocProgram, SequencesExt

u8(n) == Value(LE(n, 1))
u16(n) == Value(LE(n, 2))
u32(n) == Value(LE(n, 4))
u64(n) == Value(LE(n, 8))

\* The labels of main_v2.cc and main_v3.cc.
ElfLabel(name) == <<"Elf", name>>
name_reloc_label(sec) == <<sec, "SectionName">>
offset_reloc_label(sec) == <<sec, "SectionOffset">>
size_reloc_label(sec) == <<sec, "SectionSize">>

Sections == {"Null", "Text", "SymTab", "SymTabStringTable", "SectionHeaderStringTable"}

SectionLabels ==
    {name_reloc_label(s) : s \in Sections} \cup {offset_reloc_label(s) : s \in Sections}
                                           \cup {size_reloc_label(s) : s \in Sections}

ElfHeaderCalls(h) ==
    <<h.e_ident, h.e_type, h.e_machine, h.e_version, h.e_entry, h.e_phoff, h.e_shoff, h.e_flags,
      h.e_ehsize, h.e_phentsize, h.e_phnum, h.e_shentsize, h.e_shnum, h.e_shstrndx>>

SectionHeaderCalls(h) ==
    <<h.sh_name, h.sh_type, h.sh_flags, h.sh_addr, h.sh_offset, h.sh_size,
      h.sh_link, h.sh_info, h.sh_addralign, h.sh_entsize>>

SymbolCalls(sym) ==
    <<sym.st_name, sym.st_info, sym.st_other, sym.st_shndx, sym.st_value, sym.st_size>>

\* ElfHeader() of cemetery/assembler/elf.hh, which leaves e_version 0.
ElfHeader ==
    [e_ident |-> Value(e_ident), e_type |-> u16(et_rel), e_machine |-> u16(em_x86_64),
     e_version |-> u32(0), e_entry |-> u64(0), e_phoff |-> u64(0), e_shoff |-> u64(0),
     e_flags |-> u32(0), e_ehsize |-> u16(64), e_phentsize |-> u16(0), e_phnum |-> u16(0),
     e_shentsize |-> u16(64), e_shnum |-> u16(0), e_shstrndx |-> u16(0)]

\* A section header of this type; every other field is 0.
HeaderOfType(type) ==
    [sh_name |-> u32(0), sh_type |-> u32(type), sh_flags |-> u64(0), sh_addr |-> u64(0),
     sh_offset |-> u64(0), sh_size |-> u64(0), sh_link |-> u32(0), sh_info |-> u32(0),
     sh_addralign |-> u64(0), sh_entsize |-> u64(0)]

\* Symbol{}, and a function in the section with this index.
null_symbol ==
    [st_name |-> u32(0), st_info |-> u8(0), st_other |-> u8(0), st_shndx |-> u16(0),
     st_value |-> u64(0), st_size |-> u64(0)]

function_symbol(name, shndx) ==
    [null_symbol EXCEPT !.st_name = u32(name), !.st_info = u8(st_info(STB_GLOBAL, STT_FUNC)),
                        !.st_shndx = shndx]

\* Every name ends in a NUL; add_string returns the length before.
StringTable(names) == FlattenSeq([n \in 1 .. Len(names) |-> Append(names[n], 0)])

OffsetOf(names, n) == Len(StringTable(SubSeq(names, 1, n - 1)))

-----------------------------------------------------------------------------
(* What the writers mean to write.                                         *)

Reader == INSTANCE ElfReader

type_of(sec) ==
    IF sec = Null THEN sht_null
    ELSE IF sec = Text THEN sht_progbits
    ELSE IF sec = SymTab THEN sht_symtab
    ELSE sht_strtab

\* A linker finds in the image these sections in this order, each of them described as what
\* it is, and the text in .text.
HasText(image, text, sections) ==
    /\ Reader!IsObject(image)
    /\ Reader!shnum(image) = Len(sections)
    /\ Reader!HasStrings(image, Reader!shstrndx(image),
          {Reader!SectionAt(image, n - 1).name : n \in 1 .. Len(sections)})
    /\ \A n \in 1 .. Len(sections) :
          /\ Reader!SectionName(image, n - 1) = section_name(sections[n])
          /\ Reader!SectionAt(image, n - 1).type = type_of(sections[n])
          /\ sections[n] # Null =>
                Reader!Alignment(image, n - 1) = IF sections[n] = SymTab THEN 8 ELSE 1
    /\ Reader!SectionBytes(image, Reader!Find(image, section_name(Text))) = text

\* And the function, under its name, at the beginning of .text.
IsFunction(image, text, name) ==
    /\ HasText(image, text, <<Null, Text, SymTab, SymTabStrTab, SectionHeaderStrTab>>)
    /\ Reader!SymbolsNamed(image)
    /\ Reader!GlobalSymbols(image) =
          <<[offset |-> 0, code_section |-> Reader!Find(image, section_name(Text)),
             name |-> name, value |-> 0]>>
    /\ Reader!TypesAgree(image)
=============================================================================
