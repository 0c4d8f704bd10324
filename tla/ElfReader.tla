----------------------------- MODULE ElfReader ------------------------------
(***************************************************************************)
(* How a consumer of ELF64 relocatable files (a linker, readelf) reads an  *)
(* image, from the ELF specification and not from the builder: it trusts   *)
(* only the offsets, sizes and indices it finds in the bytes.              *)
(***************************************************************************)
EXTENDS Integers, Sequences

\* The n-byte little-endian number at offset o of an image, n <= 8.
Num(image, o, n) ==
    LET at(i) == IF i <= n THEN image[o + i] ELSE 0
    IN  at(1) + 256 * (at(2) + 256 * (at(3) + 256 * (at(4) + 256 *
            (at(5) + 256 * (at(6) + 256 * (at(7) + 256 * at(8)))))))

\* The bytes at offset o, and the string there.
Bytes(image, o, n) == SubSeq(image, o + 1, o + n)

StringAt(image, o, end) ==
    LET nul == CHOOSE z \in o .. end - 1 :
                  image[z + 1] = 0 /\ \A y \in o .. z - 1 : image[y + 1] # 0
    IN  Bytes(image, o, nul - o)

shoff(image) == Num(image, 40, 8)
shentsize(image) == Num(image, 58, 2)
shnum(image) == Num(image, 60, 2)
shstrndx(image) == Num(image, 62, 2)

HeaderAt(image, i) == shoff(image) + i * shentsize(image)

\* A section: its type, where it lies, and the fields a symbol table uses.
SectionAt(image, i) ==
    LET h == HeaderAt(image, i)
    IN  [name |-> Num(image, h, 4), type |-> Num(image, h + 4, 4),
         offset |-> Num(image, h + 24, 8), size |-> Num(image, h + 32, 8),
         link |-> Num(image, h + 40, 4), info |-> Num(image, h + 44, 4),
         entsize |-> Num(image, h + 56, 8)]

\* The file is there as far as its headers say.
IsObject(image) ==
    /\ Len(image) >= 64
    /\ Bytes(image, 0, 4) = <<127, 69, 76, 70>>
    /\ shentsize(image) = 64
    /\ HeaderAt(image, shnum(image)) <= Len(image)
    /\ \A i \in 0 .. shnum(image) - 1 :
          SectionAt(image, i).offset + SectionAt(image, i).size <= Len(image)

SectionName(image, i) ==
    LET names == SectionAt(image, shstrndx(image))
    IN  StringAt(image, names.offset + SectionAt(image, i).name, names.offset + names.size)

\* The index of the section with this name.
Find(image, name) ==
    CHOOSE i \in 1 .. shnum(image) - 1 : SectionName(image, i) = name

Alignment(image, i) == Num(image, HeaderAt(image, i) + 48, 8)

\* The section is a string table, and the strings at these offsets end in it.
HasStrings(image, i, offsets) ==
    /\ i < shnum(image)
    /\ LET table == SectionAt(image, i)
       IN  /\ table.size > 0 /\ image[table.offset + table.size] = 0
           /\ \A o \in offsets : o < table.size

SectionBytes(image, i) ==
    Bytes(image, SectionAt(image, i).offset, SectionAt(image, i).size)

dotText == <<46, 116, 101, 120, 116>>
dotData == <<46, 100, 97, 116, 97>>
dotSymtab == <<46, 115, 121, 109, 116, 97, 98>>

\* The global symbols: the entries of .symtab from sh_info on, named through sh_link.
GlobalSymbols(image) ==
    LET tab   == SectionAt(image, Find(image, dotSymtab))
        names == SectionAt(image, tab.link)
        entry(i) == tab.offset + (tab.info + i - 1) * tab.entsize
    IN  [i \in 1 .. (tab.size \div tab.entsize) - tab.info |->
            [offset |-> Num(image, entry(i) + 8, 8),
             code_section |-> Num(image, entry(i) + 6, 2),
             name |-> StringAt(image, names.offset + Num(image, entry(i), 4),
                               names.offset + names.size),
             value |-> Num(image, entry(i) + 16, 8)]]

\* The symbol table lies whole entries on, and its symbols have names.
SymbolsNamed(image) ==
    LET tab == SectionAt(image, Find(image, dotSymtab))
    IN  /\ tab.entsize = 24 /\ tab.size % 24 = 0
        /\ HasStrings(image, tab.link,
              {Num(image, tab.offset + k * 24, 4) : k \in 0 .. (tab.size \div 24) - 1})

\* A global symbol is a function exactly when it lies in .text.
TypesAgree(image) ==
    LET tab == SectionAt(image, Find(image, dotSymtab))
        entry(i) == tab.offset + (tab.info + i - 1) * tab.entsize
    IN  \A i \in 1 .. (tab.size \div tab.entsize) - tab.info :
           LET info == image[entry(i) + 5]
           IN  /\ info \div 16 = 1
               /\ info % 16 = 2 <=> Num(image, entry(i) + 6, 2) = Find(image, dotText)

\* The program an object file holds.
Read(image) ==
    [text |-> SectionBytes(image, Find(image, dotText)),
     data |-> SectionBytes(image, Find(image, dotData)),
     symbols |-> GlobalSymbols(image)]
=============================================================================
