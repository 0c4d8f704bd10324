# fiskas in TLA+

Models, model checking and proofs for the assembler `fiskas`: a C++ program that lexes a
small assembly language, parses register-to-register `mov` instructions, encodes them as
x86-64 machine code, and packs machine code, data and symbols into an ELF64 relocatable
object file. Paths below are relative to the repository (`fiskas/lexer.hh` is
`src/fiskas/lexer.hh` in `PROJECT.json`).

The program is sequential. What is hard in it is not concurrency but
- loops that must stop, and calls that must be in step (lexer and parser share one cursor
  and have no way back);
- a token looked ahead while the cursor is already behind it (`asm_cc`);
- encodings that look right and name another register;
- offsets that are computed before the things they point at exist (ELF headers), in an
  order the language leaves open (`unordered_map`);
- placeholders that are patched afterwards, by a label (the retired ELF writers);
- the file system: short writes, a full disk, a crash between `fopen` and `fclose`, a file that
  changes while it is loaded.

## The system

| Component | State | Operations | Talks to | Correct when |
|---|---|---|---|---|
| Lexer (`fiskas/lexer.hh`, `.cc`) | source, cursor, `prev` | `next_token` and its loops `eat_while` | called by the parser | longest tokens, none lost or doubled, Eof for ever at the end, every call returns or aborts |
| Register tables, ModRm, Rex (`fiskas/x86_common.*`) | none (byte under construction) | tables, bit builders | used by mov | consistent with the architecture |
| mov (`fiskas/x86_instructions/mov`) | `dst`, `src` | `validate_semantics`, `encode` | tables | accepted movs decode to themselves, and it is known which do not |
| Parser (`fiskas/parser.*`, `mov.cc`) | that of the lexer, operands | `consume_pnc`, `next_register`, `MovInstructionParser::parse` | is a Lexer; builds `MovRegToReg` | returns what is written, refuses nothing else |
| ELF builder (`include/elf/elf_types.hh`, `lib/elf/elf_builder.cc`) | section table, string tables, symbols, `e_shoff`, image | `build_elf_file` and its helpers | Serializer, `File::write` | a linker reads back the code, or finds no object, or the file is untouched and the process ended |
| Serializer (`lib/elf/serializer.cc`) | `out` | `operator<<` | | little-endian, field by field |
| `File::write` (`include/base.hh`) | data, size, written | `fopen`, `fwrite` loop, `fclose` | C library, assertion | no byte out of place, the loop ends |
| `File::load` (`include/base.hh`) | file descriptor, mapping | `open`, `fstat`, `mmap`, copy | C library, kernel | returns the file, or ends the process; called nowhere |
| Assertions (`include/base.hh`, `lib/base.cc`) | | `fiska_assert`, `fiska_todo`, `fiska_unreachable`: print, `exit(1)` | everything | closes open streams |
| `main` (`src/main.cc`) | | `fiska_todo()` first: ends at once | | |
| `asm_cc` lexer (`cemetery/asm_cc/lexer.hh`, `cemetery/asm_cc_lib/lexer.cc`) | cursor, queue of tokens looked ahead | `next_token`, `peek_token`, `fetch_token` | called by its parser | as the lexer above, whatever is peeked at |
| `asm_cc` parser (`cemetery/asm_cc_lib/parser.cc`) | that of its lexer, `instrs` | `consume_tok_pnc`, `parse_func_decl`, `parse_instruction` | is a Lexer | returns the function that is written, comes to an end |
| ELF writer v1 (`cemetery/main.cc`, `cemetery/assembler/elf.hh`) | buffer, two maps: relocations, fixes | `operator<<`, `add_relocation`, `fix_relocation`, `fix_relocations`, `main` | `File::write` | a linker reads back the code; all placeholders are filled, or none |
| ELF writer v2 (`cemetery/main_v2.cc`) | buffer, relocations, closures | `operator<<`, `fix_relocation`, `dump_to`, `SymbolSection::body`, `main` | `File::write` | a linker reads back the function; every fix finds its placeholder, or the file is untouched |
| ELF writer v3 (`cemetery/main_v3.cc`) | buffer, relocations, fixes | `operator<<`, `fix_relocation`, `dump_to_file`, `main` | `File::write` | a linker reads back the function; every placeholder gets the value of its label |
| Rest of the cemetery | mnemonic tables; ELF writer v4, the ELF builder in one file | not built by CMake | | |

Notable about the code, met while modelling it:
- `encode` puts `rex_prefix` in front also when it is 0 (run `mov_prefix`).
- SPL, BPL, SIL and DIL get REX.R or REX.B as if they were registers 12 to 15
  (`x86_common.cc:308-311`), so that their bytes are those of R12B to R15B. A mov to a
  segment register has opcode 8E but the operand fields of the other direction
  (`mov.cc:82-86,99`), so that `mov ds, rax` comes out as `mov es, rbx`. `ReadsBack` says exactly
  which movs are read as they went in. A mov between segment registers is accepted (`mov.cc:55`).
- `Rex::x` ORs bit 0 instead of `x_bit` (`x86_common.hh:60-63`); nothing calls it.
- `regnames` has the 64-bit names only, in lower case (`x86_common.cc:16-33`), while the
  lexer's tests write `mov(RAX, RBX)`; the parser refuses that.
- `mov.cc` does not compile: `MovRegToMem` lacks a semicolon and names
  `common::MemRef`, which does not exist (`mov.cc:22-27`). The models are of `MovRegToReg`.
- `FuncDecl::body` is a vector of `Instruction` by value (`parser.hh:17-20`): a mov stored in
  it would lose its operands. Nothing stores one.
- Code symbols are taken as they come: an offset beyond the section, a section other
  than .text or .data, or a name with a NUL in it is written out.
- .data asks for an alignment of 8 in a file that aligns nothing (`elf_builder.cc:84`).
- `File::load` of an empty file ends the process: `mmap` refuses a length of 0 (`base.hh:220`).
- The three retired writers disagree on a label that is put or fixed twice: v1 keeps the first of both
  (`main.cc:157,161`), v2 the first relocation and the last fix (`main_v2.cc:125`), v3 patches all
  relocations with the last fix. In v1 a fix for a label that was never put overwrites the front of the
  file (`main.cc:171`). Their mains put and fix every label once. v1 and v2 leave `e_version` 0.

## Modules

### Lexer
`LexerChars` has the character classes, token kinds and `keywords`. `Lexer` has the state
of `Cursor` (`source`, `curr`, `prev`) and of a running `next_token` (`pc`, `start`), the
token it returned last (`tok`) and all of them (`toks`, for the properties only). One
action is one step: `Call` enters `next_token`; `EatBlank`, `EatDigit` and `EatIdent` are
single rounds of `eat_while`; `ReturnEof` and `FirstChar` the two ways out of the blanks;
`ReturnOneChar` and `multi_char_token_kind` the `switch`; `ReturnNumber` and `ReturnWord`
the ends. `pc = "abort"` is `fiska_unreachable`. `TokenSpec` cuts a source into tokens without a cursor; `Lexer`
implements it (`Tokenizes`) under the mapping that forgets cursor, `pc` and `start`.

### mov
`X86Common` has the tables and the two byte builders, a byte as the set of its one bits:
`|=` is a union and a shift out of the byte drops bits. `MovSemantics` has
`validate_semantics` branch by branch, the three bytes of `encode`, and the processor's
side, `Decode`, from the architecture's register numbers. `MovEncoder` runs the two in
their order. `MovParser` composes `Lexer` and `MovSemantics`: `Ask` is the call of
`next_token`, `Lex` a step of it, `consume_pnc` and `next_register` what the parser does with
the token; `Script` is the sequence of calls that `parse` makes.

### ELF
`ElfFormat` has the records, their sizes and their bytes. `ElfBuilder` is `build_elf_file`:
`AddSectionName` (a round of the loop over `section_names`, in the order `order`),
`StoreSectionNames` (the rest of the `SectionTable` constructor and the dummy symbol),
`AddSymbol` (a round over the symbols), `BuildSections` (bodies, headers, `e_shoff`, the ELF
header), `EmitBody` and `EmitHeader` (the two loops), `WriteFile`. `WriteFile` is a step of
`FileSpec`, the promise that `FileWrite` is shown to keep: the composition is through
that specification. `ElfReader` is how a linker reads an image, from the ELF
specification and from nothing in the builder; it is external. `ElfObject` is what
`build_elf_file` promises, on top of `ElfReader`: the file reads as the code that was
given; or the call did not end well and it reads as nothing, or the same code; or the file is
as it was before and the process has ended with an error. The last is needed because
`./elf_file_v2` is one path for all builds (`elf_builder.cc:122`, and the repository ships a file
of that name): what it holds before is the constant `Olds`, and when `fopen` fails, or the
process dies before it, an object of an earlier build stays there. `ElfBuilder` implements
`ElfObject` (`DeliversTheCode`).

Abstracted: the fields that stay 0 keep their place in the bytes; 2^32 is the constant
`U32`, so that the cut of `static_cast<u32>` can be reached by small examples and is
covered for every value by the proofs.

### The retired front end
`AsmCcChars` has the classes of `cemetery/asm_cc`, built on those of `LexerChars`, and its token
kinds. `AsmCcLexer` has the cursor, the queue (`lookahead_toks`) and what runs in `fetch_token`;
`next_token` and `peek_token` are called in any order, and each step of `fetch_token` is an
action: `Comment`, `EatComment`, `CommentEnds` are its branch on `/`, which ends in
`return fetch_token();`, counted in `frames`. `pc = "exit"` is the `std::exit` of a character it
does not know. The history variables are `ret` (what the last call returned), `given` (what
`next_token` has returned) and `ended`. `AsmCcSpec` has neither queue nor cursor: it hands out the
longest tokens, blanks and comments left out. `AsmCcParser` composes the lexer with
`parse_func_decl`: `Script` is what it consumes in turn, `BodyEnds` and `parse_instruction` are
the two branches of the loop over the body. The instruction that is returned is empty, whatever
the text says, because all of the code of `parse_instruction` is commented out; the model says
what is compiled.

### The retired ELF writers
All three write from front to back, headers first, and what is not known yet goes out as a
placeholder with a label. `RelocProgram` has the calls a program can make of them (a value, a
placeholder, a fix with a value or with the place it is asked for) and `Image`, what the file should
be, from the program alone and without any table. `RelocBuffer` has what they share: the buffer, the
program and where it is (`script`, `at`), the file, which may be there before (`old`) and is written by a step of `FileSpec`; a patch that ends
behind the buffer is undefined in C++, and either ends the process or goes unnoticed. On it stand
- `MapSerializer` (v1): `add_relocation` and `fix_relocation` insert into two functions, which keep what
  they have; `SkipFixes` or `BeginFixes` compare the two counts; `Patch` takes the fixes in any order, as
  an `unordered_map` does, and `OffsetAt` is `operator[]`, which invents a relocation at 0;
- `ClosureSerializer` (v2): one `Patch` per closure at the first relocation with its label; `NotFound` is
  the `std::exit(1)`;
- `RelocSerializer` (v3): `Patch`, `Skip` and `NextFix` are the rounds of the two loops, `EndPatch` the
  comparison of the two totals.

`ElfRecords` has the records, in the order of their `operator<<`, and what a linker should find, by
`ElfReader`. `ElfWriterV1`, `ElfWriterV2` and `ElfWriterV3` have the calls of each `main` in the order of the
code, the bytes of the function and its name being parameters. In v2 two bodies come about on the way, and
`ElfWriterV2` has them grow as the code does: `body` fills the symbols and their names, which
`section_header_table` takes in the order of `main`; and `serialize_section` appends the name of its section to
the section header string table, which is one of the sections itself and goes out last (`order`). `ElfWriters` puts the three Serializers side by
side: `writer` says which of them is at work, and the constant `Given` which programs it gets. The proofs are
about any `Given`; `MCElfWriters` gives each writer its own main and all short programs.

### File::write
`FileWrite` has the parameters (`data` as an offset, `size`), `written`, the bytes
the stream has taken (`stream`) and those that reached the file (`disk`). `Fwrite` takes any number of bytes up to
`size`; any part of what the stream holds may reach the file at that moment. `Complete`,
`Retry` and `AssertFails` are the three ways on; `Fclose` flushes the rest or fails,
and nobody looks; `Exit` is `std::exit` with the stream open; `Killed` a crash.
`FileSpec` is the same in one step: the data; or a beginning of it and an end of the process or an
unnoticed error; or nothing changed. Both overapproximate the C library, and nothing more
is assumed of it.

`FileLoad` is `File::load` over the kernel: `Fstat` takes the size once, `Memcpy` copies one byte, of
those that are left any, as the file is at that moment (a private mapping shows it), zeros behind its end up
to the page; `MemcpyDies` is the page that is gone, `CallFails` each assertion, and the only way on for an
empty file. `SharedFile` composes the two on one path in two processes; `found` (the file at
`fstat`) and `moved` (whether it has changed since) are history variables.

## Runs

| Run | Question | Bounds | States |
|---|---|---|---|
| `lexer` | Is every program cut into the right tokens? | all programs of up to 4 characters over 7 (letters that spell the keyword, digit, `_`, blank, one-character token, a character nothing starts with): every pair of adjacent tokens, every end of file in every loop | 25258 |
| `lexer_comments` | Are comments ignored? (violation) | a comment of up to 2 characters before 3 programs | |
| `mov_encoder` | Which movs are refused, which of the others decode to themselves? | all 58 x 58 pairs: complete | 7868 |
| `mov_prefix` | Is a prefix left out when not needed? (violation) | the same | |
| `mov_parser` | Does `parse` return what is written and refuse only what is wrong? | a well-formed mov with any two of its six pieces replaced by 15 others (missing, doubled, keyword, number, too long, blank inside, upper case, illegal), and all 16 x 16 register pairs with trailing text | 49067 |
| `elf_builder` | Does the order of the map matter? Do offsets, sizes and names agree, also when the file is cut? | the shape of `create_dummy_code` under all 720 orders; 3 texts (one that looks like an ELF header), 2 data, up to two symbols of 12 with empty, equal and nested names under 3 orders (`MCSpec`); no file before, or, under one order, an object of another program (the one v2 leaves at that path) or a file that is no object; cuts before, in and behind the headers | 70568 |
| `file_write` | What may be in the file, does the loop end, what does a load return meanwhile? | data of 0 to 5 bytes, with and without repetitions, over three old files, every cut of every `fwrite`, a crash anywhere; a load at any time, its bytes in every order; pages of two bytes, so that an end lies within a page, at one, and pages before it | 314875 |
| `elf_writers` | Is the file of each `main` the object it means to write? What does each Serializer patch, what do the two numbers of v3 tell, and where are the three one? | 4 functions (empty, one that looks like an ELF header) x 3 names, cuts before, in and behind the headers; all programs of up to 5 calls out of 8: values, two labels of one and two bytes, fixes with and without a value, one too wide; five calls are two labels with a relocation and a fix each and one of them again; no file before, or an object with another function (under the mains and programs of up to 3 calls) | 1769928 |
| `asm_cc_lexer` | Does peeking change what is handed out? Do comments? | all programs of up to 4 characters over 8 (the keyword, digit, `-`, `_`, blank, one-character token, `/`), three lines out of 5 with and without comments, the other keywords; calls in every order | 112109 |
| `asm_cc_parser` | What does `parse_func_decl` return, refuse, and when does it end? | an empty function with any two of its seven pieces replaced by 13 others, and functions with 3 x 3 x 3 x 5 gaps, names and bodies; `instrs.size()` counts to `MaxBody` = 2 and stays there: the code never looks at it | 51192 |
| `asm_cc_parser_stuck` | Is the program of `parser_test.cc` parsed? (violation) | that program, with shorter words; the lines of the test that parse it are commented out in the repository | |

Deadlock checking is off in all of them: the calls end, and a client of the lexer may stop.

Properties by run, in words:
- `lexer`: `TokensTile` (no character lost or read twice), `LongestMatch`, `EofIsFinal`,
  `LexerEnds` (liveness), `Tokenizes` (refinement of `TokenSpec`).
- `mov_encoder`: `HighByteNeverUnderRex` (the rule in the comment of `validate_semantics`, which
  the code tests on one of its branches only), `ReadsBack` (under a REX prefix, exactly which movs the
  processor reads as they went in).
- `mov_parser`: `ParsedIsWritten` (in terms of the text), `ParsedTokens` (of the tokens),
  `RefusedIsWrong` (the converse: nothing well-formed is refused), `ParsedMovAssembles` (across
  lexer, parser, tables, `validate_semantics`, `encode` and the processor), `ParseEnds`.
- `elf_builder`: `HeadersWherePredicted`, `SectionsInPlace`, `SectionNamesResolve`,
  `SymbolNamesResolve`, `CutFileIsNoObject`, `SymbolTypesAgree`, `DeliversTheCode`, `BuildEnds`.
- `file_write`: `StreamIsBeginning`, `FileIsBeginning`, `WriteEnds`, `KeepsPromise` (refinement of `FileSpec`),
  `LoadedIsFile` (undisturbed, a load returns the file; overtaken by a write, bytes of the old and the new
  file and zeros, each in its place, and never more or fewer than there were at `fstat`).
- `elf_writers`: `MainIsObject` (a linker finds the code, all section names, types and alignments, and the symbols
  with their names; in a file cut short it finds no object), `AllOrNothing` (v1: as many labels fixed as put, and every
  first placeholder holds its first fix; a byte that fixes of labels never put reach is of one of these or of a
  placeholder filled later; or nothing is filled at all), `FirstOnly` (v2: the first placeholder holds the last fix; a
  fix without a placeholder leaves the file, an older one too, untouched), `PatchesByLabel` (v3: where fixes are as wide
  as their placeholders, every placeholder holds the last value fixed for its label, and nothing
  else is touched), `CountsTell` (v3: fewer relocations fixed than found means that one has no fix; where no label is
  fixed twice the totals are equal exactly if every relocation has one. A label fixed twice can make up for one never
  fixed, and a fix of a label never put is not counted: the code does not notice either), `WritersAgree` (where every
  label is put and fixed once, each of the three writes the image of the program, in one step of `FileSpec`).
- `asm_cc_lexer`: `OneAhead` (the queue holds one token at most), `PeekIsNext` (what was
  shown is what comes), `FramesAreLines` (the depth of the recursion over comments), `CallsReturn`,
  `Tokenizes` (refinement of `AsmCcSpec`).
- `asm_cc_parser`: `ReturnedIsEmpty` (a function that is returned was written as an empty one),
  `RefusedIsWrong` (the converse: where the text begins as a function does it is taken up to its brace), `BodyStandsStill` (once an
  instruction is stored no character is read any more), `EndsOrBody` (there is no other way not to end).

Three disagreements between the code and its own words are kept as violation runs: comments,
the unneeded prefix byte, and `parse_func_decl`, which is never through with the program of
`parser_test.cc` (lines 14 to 17 there, which call it, are commented out).

### Fairness
Only weak fairness of what is straight-line code: `next_token` once it is called, `parse`
as a whole, `build_elf_file`, `File::write` over library calls that return. The client of the
lexer is assumed to ask until it has seen Eof, as `check_toks_eq` in `lexer_test.cc` does.
`Killed` is not fair: nobody need die. For the retired lexer `fetch_token` alone is fair, and its
client may call what it likes or nothing; its parser is fair as a whole, being one call.

## Proofs

TLAPS checks the following for every value of the constants.

- `LexerProofs`: `TypeOK`, `TokensTile`, `LongestMatch`, `EofIsFinal`, and that `Lexer`
  implements `TokenSpec`, for every set of sources. The invariant adds to the properties
  where `next_token` is in the source: what lies between the last token and `start` is
  blank, what lies between `start` and the cursor is of the class being eaten, `prev` is the
  character before the cursor, and nothing follows once Eof was answered. A second invariant, `Spelling`,
  says that every token is spelled by its characters (`TokensAreSpelled`); the refinement and the parser rest on it.
- `MovSemanticsProofs`, `MovEncoderProofs`: `Decode(encoding(d, s)) = <<d, s>>` by cases on the
  kind of registers, `HighByteNeverUnderRex`, and `ReadsBack`, whose converse goes by the two kinds of movs that are
  misread: the index of SPL to DIL plus 8 is another register, and a segment register comes back only where
  both numbers are one.
- `MovParserProofs`: a behaviour of the parser is a behaviour of the lexer
  (`ParserIsAClient`), so that the theorems on the lexer hold under the parser; the parser's
  invariant relates the position in `Script` to the tokens; `ParsedTokens` and
  `ParsedMovAssembles` follow. `ParsedIsWritten` and `RefusedIsWrong` speak of the text and not of tokens.
  Both go through `Laid`, the places of the six pieces of a mov in the source: it is the same as `Reads`
  (`LaidReads`, `ReadsLaid`). The tokens of a finished parse are laid so; conversely, where a mov is laid
  every token is its next piece (`TokenIsPiece`, from longest match), so that the token the parser failed on
  (`RInv`), the end of the source or the character the lexer refused cannot be where one is.
- `ElfBuilderProofs`: `TypeOK`, `HeadersWherePredicted`, `SectionsInPlace`,
  `SectionNamesResolve`, `SymbolNamesResolve`, `CutFileIsNoObject`, `SymbolTypesAgree` and the refinement
  `DeliversTheCode`, for code of every size, any number of symbols and every order. The invariant says what is known before the image exists: which
  names are in the table and where, that `e_shoff` is the sum of the lengths the bodies
  now have, that the header sizes are those lengths, and that the image is the header and the
  bodies so far. `CutFileIsNoObject` says of the end that a proper beginning of the image is no object, whatever the
  file held before; it has the premise `e_shoff < U64`: eight bytes hold no more.
  The last two properties read the whole image back. The invariant for them, `DInv`, says what
  the first one does not need: every header emitted so far stands in the image byte for byte (`HeadersOut`), the
  table of section names is short (`NamesShort`), the sections hold the code and `.symtab` links to its
  strings (`SectionsHold`), each symbol collected describes one of the code (`SymbolsDescribed`), and a file
  reported as written is the image (`OutcomeKnown`). On the image the argument follows the reader: a number
  read is the number written (`ReadBack2`, `ReadBack4`, `ReadBack8`), so the ELF header leads to the
  section headers (`ReadsElfHeader`, `ReadsSection`); a name read is the one written there (`StringRead`), and the
  names of the sections differ, so that the section found by name is the one (`Finds`); its body and, symbol by
  symbol, its entries are those of the code (`ReadsBody`, `ReadsSymbol`, `ImageDelivers`). Then every step of `ElfBuilder`
  is a step of `ElfObject` or leaves it alone (`ObjectStep`).
  A file that was not opened is as it was before, which `ElfObject` allows together with the end of the process.
  `CodeIsDelivered` has these premises: `U32` is not above 2^32, and `NumbersFit`, that `e_shoff` and
  the offsets and values of symbols are below 2^64 (`u64` in the code) and the names of the symbols fit
  a `u32`. The code tests none of them; the run satisfies all of them in every state.
- `FileProofs`, of `File::write`: `TypeOK`, `StreamIsBeginning`, `FileIsBeginning`, that every further round of
  the loop has less to write (`LoopShrinks`), and the refinement `KeepsPromise`, for data of every length. The
  invariant: `data + size` is the length of the data, the stream holds the beginning of length `data` (plus
  `written` after `fwrite`), the file a beginning of that. Of `File::load`: `LoadedIsFile`, for files of every
  length and pages of every size. With a reader beside it `File::write` is still a behaviour of `FileWrite`
  (`WriterIsFileWrite`), so that `FileIsBeginning` holds and every byte copied is one of the old file or the new;
  the invariant adds that what was found is the file until `moved`, and that the bytes copied until then are those of it.
- `AsmCcProofs`, of the retired lexer: `TypeOK`, `OneAhead`, `PeekIsNext`, `FramesAreLines`, and that `AsmCcLexer`
  implements `AsmCcSpec`, for every set of programs and every order of calls. The invariant says that a
  queued token is one that `AsmCcSpec` would hand out now, that after `peek_token` the queue is
  what was shown, that between the last token and the cursor there are only blanks and comments,
  and where a comment is still open: in the loop over it, or at its end of line; for `FramesAreLines`, that
  there is one frame more than ends of line up to the cursor at most, and two more only where the next one is at hand. Of its
  parser: it is a client of that lexer, and `ReturnedIsEmpty`, `BodyStandsStill` and `RefusedIsWrong`, for every
  program. The invariant follows the parser through its phases (header, first look at the body, body, brace): in
  the body the token looked ahead stays the one that is not a brace, and nothing is consumed; after a refusal
  the last token is not the one of the header, or the program was at its end. For `RefusedIsWrong` the tokens handed
  out are chained in the text (`Chained`, an invariant of `AsmCcSpec` and, by the refinement, of the lexer), and behind
  every place only one token can follow (`OneFollows`, from longest match and from gaps ending where a token
  begins): so the tokens taken are those of the function that is written there, up to the brace.
- `ElfWritersProofs`, for every set of programs: `AllOrNothing`, `FirstOnly`, `PatchesByLabel`, `CountsTell`, and
  `WritersAgree` (three ways to patch are one, in one step of `FileSpec`), whatever the file held before. `Image` is a recursive function, and
  most of the module is about it. What the library states by induction over an operator is proved here in
  first-order form, from the fact that `<` on the numbers is well-founded: `Induction`, `Recursion`, and what a
  place, a byte and the length of an image are (`ImageBytes`). `PatchedImage` is the core: to overwrite one
  placeholder turns the image for some fixes into the image for one fix more. The invariant says for which
  fixes the buffer is the image (`Done`), and what is in the tables (`Lists`: the calls they stand for, in order);
  in the loop of v1 also which bytes the fixes of labels never put may have changed (`Agrees`), and in those of v3
  that no more placeholders are patched so far than `fixed` counts, and as many where no label is fixed twice.

Assumptions: `SourcesAssumption` (sources are sequences of characters; the retired parser's programs too),
`CodesAssumption` (a code is its bytes and its symbols, bytes are bytes, symbols are in .text or .data and their
names have no NUL), `OrdersAssumption` (an order
names each section once), `NumbersAssumption` (2^32 is not below the size of the table of section names),
`DatasAssumption`, `OldsAssumption` (of `ElfBuilder`, what the file held before: bytes, or no file; of
`FileWrite`, bytes), and `ScriptsAssumption` and `CutsAssumption` (programs are sequences of the
calls there are, cuts are numbers), `MaxBodyAssumption` (the count of instructions has room for one). `SharedFile` names `PageSizeAssumption`, which its proof does not need. TLC evaluates each in the runs above.

Only model-checked:
- all liveness (`LexerEnds`, `ParseEnds`, `BuildEnds`, `WriteEnds`, `CallsReturn`, `EndsOrBody`): it is out of the
  prover's reach;
- `MainIsObject`, which reads back the files of the three mains, for the functions and names of its module: each
  main is some hundred calls of its writer, one for every field, whose places a proof would have to add up.

The type invariants `TypeOK` of `Lexer`, `MovEncoder`, `ElfBuilder`, `FileWrite` and
`AsmCcLexer` and `ParserTypeOK` of `MovParser` are proved and take no run.

## Not modelled

Colours, `Timer`, the text of messages and backtraces, `main` (it ends in
its first line), `Rex::x`, `Parser::consume` and the mnemonic lookup (no caller), the mov
kinds that are `fiska_todo`, and, in the cemetery: the tables of mnemonics and registers, which no live
code calls; the ELF writer v4, which is `elf_builder.cc` in one file, with the same records, loops and order of
calls, so that its model would be `ElfBuilder` again; the `operator<<` of v3 that appends one Serializer to
another, which nothing calls; and the exits of v1 and v2 on section tables their mains never build.
`PROJECT.json` gives the reason for each.

## Plan

Done, in this order: lexer; register tables and mov encoder; mov parser; ELF builder;
`File::write`; the retired front end; the third retired ELF writer; the first two; `File::load`; the proofs listed
above; the reading back of the image (`SymbolTypesAgree`, `DeliversTheCode`) and what the retired parser refuses last.

Left: the image of the three retired mains for every function and name (`MainIsObject`), on top of `ImageBytes`. The
liveness properties stay with TLC.
