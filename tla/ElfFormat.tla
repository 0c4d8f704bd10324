----------------------------- MODULE ElfFormat ------------------------------
(***************************************************************************)
(* include/elf/elf_types.hh and lib/elf/serializer.cc: the sections, the   *)
(* records of an ELF64 file and the bytes the Serializer makes of them.  A *)
(* byte is a number below 256, an image a sequence of bytes.               *)
(***************************************************************************)
EXTENDS Integers, Sequences

Byte == 0 .. 255

\* SectionType; sec_ty_from_idx is the identity on them.
Null == 0
Text == 1
SectionHeaderStrTab == 2
SymTab == 3
SymTabStrTab == 4
Data == 5

SectionType == 0 .. 5
num_sections == 6

\* SectionTable::section_names: "", ".text", ".shstrtab", ".symtab", ".strtab" and ".data".
section_name(sec) ==
    IF sec = Null THEN << >>
    ELSE IF sec = Text THEN <<46, 116, 101, 120, 116>>
    ELSE IF sec = SectionHeaderStrTab THEN <<46, 115, 104, 115, 116, 114, 116, 97, 98>>
    ELSE IF sec = SymTab THEN <<46, 115, 121, 109, 116, 97, 98>>
    ELSE IF sec = SymTabStrTab THEN <<46, 115, 116, 114, 116, 97, 98>>
    ELSE <<46, 100, 97, 116, 97>>

-----------------------------------------------------------------------------
(* SectionHeader and Symbol, as they are value-initialised.                *)

sht_null == 0
sht_progbits == 1
sht_symtab == 2
sht_strtab == 3

SectionHeader ==
    [sh_name |-> 0, sh_type |-> sht_null, sh_flags |-> 0, sh_addr |-> 0, sh_offset |-> 0,
     sh_size |-> 0, sh_link |-> 0, sh_info |-> 0, sh_addralign |-> 0, sh_entsize |-> 0]

SectionHeaders ==
    [sh_name : Nat, sh_type : Nat, sh_flags : Nat, sh_addr : Nat, sh_offset : Nat,
     sh_size : Nat, sh_link : Nat, sh_info : Nat, sh_addralign : Nat, sh_entsize : Nat]

Symbol ==
    [st_name |-> 0, st_info |-> 0, st_other |-> 0, st_shndx |-> 0, st_value |-> 0, st_size |-> 0]

Symbols ==
    [st_name : Nat, st_info : Byte, st_other : Byte, st_shndx : SectionType,
     st_value : Nat, st_size : Nat]

\* Mutant: the arguments of ELF64_ST_INFO are swapped.
st_info_swapped(bind, type) == (type * 16) + (bind % 16)

\* ELF64_ST_INFO(bind, type)
st_info(bind, type) == (bind * 16) + (type % 16)
STB_GLOBAL == 1
STT_OBJECT == 1
STT_FUNC == 2

\* The sums of sizeof in the three serialized_size().
elf_header_size == 16 + 2 + 2 + 4 + 8 + 8 + 8 + 4 + 2 + 2 + 2 + 2 + 2 + 2
section_header_size == 4 + 4 + 8 + 8 + 8 + 8 + 4 + 4 + 8 + 8
symbol_size == 4 + 1 + 1 + 2 + 8 + 8

-----------------------------------------------------------------------------
(* The Serializer.                                                         *)

\* operator<< of an unsigned value of n bytes, n <= 8: write the low byte, shift it out,
\* and again.
Shifted(value) == value \div 256

LE(value, n) ==
    LET v1 == Shifted(value)  v2 == Shifted(v1)  v3 == Shifted(v2)  v4 == Shifted(v3)
        v5 == Shifted(v4)     v6 == Shifted(v5)  v7 == Shifted(v6)
    IN  SubSeq(<<value % 256, v1 % 256, v2 % 256, v3 % 256,
                 v4 % 256, v5 % 256, v6 % 256, v7 % 256>>, 1, n)

\* The header of the file: only e_shoff is not a constant.
e_ident == <<127, 69, 76, 70, 2, 1, 1, 3, 0, 0, 0, 0, 0, 0, 0, 0>>
et_rel == 1
em_x86_64 == 62
ev_current == 1

\* Mutant: e_shnum is one too small.
ElfHeaderBytesOneLess(e_shoff) ==
    e_ident \o LE(et_rel, 2) \o LE(em_x86_64, 2) \o LE(ev_current, 4) \o LE(0, 8) \o LE(0, 8)
            \o LE(e_shoff, 8) \o LE(0, 4) \o LE(elf_header_size, 2) \o LE(0, 2) \o LE(0, 2)
            \o LE(section_header_size, 2) \o LE(num_sections - 1, 2) \o LE(SectionHeaderStrTab, 2)

ElfHeaderBytes(e_shoff) ==
    e_ident \o LE(et_rel, 2) \o LE(em_x86_64, 2) \o LE(ev_current, 4) \o LE(0, 8) \o LE(0, 8)
            \o LE(e_shoff, 8) \o LE(0, 4) \o LE(elf_header_size, 2) \o LE(0, 2) \o LE(0, 2)
            \o LE(section_header_size, 2) \o LE(num_sections, 2) \o LE(SectionHeaderStrTab, 2)

\* Mutant: st_size goes out before st_value.
SymbolBytesSwapped(sym) ==
    LE(sym.st_name, 4) \o LE(sym.st_info, 1) \o LE(sym.st_other, 1) \o LE(sym.st_shndx, 2)
                       \o LE(sym.st_size, 8) \o LE(sym.st_value, 8)

SymbolBytes(sym) ==
    LE(sym.st_name, 4) \o LE(sym.st_info, 1) \o LE(sym.st_other, 1) \o LE(sym.st_shndx, 2)
                       \o LE(sym.st_value, 8) \o LE(sym.st_size, 8)

SectionHeaderBytes(h) ==
    LE(h.sh_name, 4) \o LE(h.sh_type, 4) \o LE(h.sh_flags, 8) \o LE(h.sh_addr, 8)
                     \o LE(h.sh_offset, 8) \o LE(h.sh_size, 8) \o LE(h.sh_link, 4)
                     \o LE(h.sh_info, 4) \o LE(h.sh_addralign, 8) \o LE(h.sh_entsize, 8)
=============================================================================
