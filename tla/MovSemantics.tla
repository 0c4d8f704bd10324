---------------------------- MODULE MovSemantics ----------------------------
(***************************************************************************)
(* What MovRegToReg computes: which movs validate_semantics lets through   *)
(* and the three bytes encode() returns for them, next to how a 64-bit x86 *)
(* reads such bytes.                                                       *)
(***************************************************************************)
EXTENDS X86Common

Width(r) == bit_width_of_reg_name(r)

HighByte == {"Ah", "Ch", "Dh", "Bh"}

-----------------------------------------------------------------------------
(* validate_semantics: one operator per branch.                            *)

DifferentWidths(d, s) ==
    /\ is_segment_register(s) \/ is_segment_register(d)
    /\ is_segment_register(s) => Width(d) \in {16, 32, 64}
    /\ ~ is_segment_register(s) => Width(s) \in {16, 64}

\* Mutant: only the source is looked at.
SameWidthOfSource(d, s) ==
    (/\ Width(s) = 8
     /\ Rex(FALSE, requires_rex_extension(s), requires_rex_extension(d)) # {}) =>
        s \notin HighByte

SameWidth(d, s) ==
    (/\ Width(s) = 8
     /\ Rex(FALSE, requires_rex_extension(s), requires_rex_extension(d)) # {}) =>
        s \notin HighByte /\ d \notin HighByte

validate_semantics(d, s) ==
    IF Width(d) # Width(s) THEN DifferentWidths(d, s) ELSE SameWidth(d, s)

(* encode.                                                                 *)

modrm_byte(d, s) ==
    ModRm(register_addressing, index_of_reg_name(s), index_of_reg_name(d))

\* Mutant: REX.R and REX.B are mixed up.
rex_prefix_mixed_up(d, s) ==
    Rex(64 \in {Width(s), Width(d)}, requires_rex_extension(d), requires_rex_extension(s))

rex_prefix(d, s) ==
    Rex(64 \in {Width(s), Width(d)}, requires_rex_extension(s), requires_rex_extension(d))

\* 0x88, 0x89, 0x8c and 0x8e.
op_mov_r8   == {7, 3}
op_mov_r    == {7, 3, 0}
op_mov_sreg == {7, 3, 2}
op_to_sreg  == {7, 3, 2, 1}

opcode(d, s) ==
    IF is_segment_register(s) THEN op_mov_sreg
    ELSE IF is_segment_register(d) THEN op_to_sreg
    ELSE IF Width(s) = 8 THEN op_mov_r8
    ELSE op_mov_r

encoding(d, s) == <<rex_prefix(d, s), opcode(d, s), modrm_byte(d, s)>>

-----------------------------------------------------------------------------
(* The processor's side: how a 64-bit x86 reads the bytes of a mov between *)
(* registers.  The tables are the architecture's, in the order of the      *)
(* register numbers.                                                       *)

Numbered64 == <<"Rax", "Rcx", "Rdx", "Rbx", "Rsp", "Rbp", "Rsi", "Rdi",
                "R8", "R9", "R10", "R11", "R12", "R13", "R14", "R15">>
Numbered32 == <<"Eax", "Ecx", "Edx", "Ebx", "Esp", "Ebp", "Esi", "Edi",
                "R8d", "R9d", "R10d", "R11d", "R12d", "R13d", "R14d", "R15d">>
Numbered8  == <<"Al", "Cl", "Dl", "Bl", "Spl", "Bpl", "Sil", "Dil",
                "R8b", "R9b", "R10b", "R11b", "R12b", "R13b", "R14b", "R15b">>
NumberedSegment == <<"Es", "Cs", "Ss", "Ds", "Fs", "Gs">>

\* The number in the three bits that start at k of a byte.
Field(b, k) ==
    (IF k \in b THEN 1 ELSE 0) + (IF k + 1 \in b THEN 2 ELSE 0) + (IF k + 2 \in b THEN 4 ELSE 0)

\* Register number n of the bank an instruction with this opcode addresses, with a REX prefix.
Bank(op, wide) ==
    IF op = op_mov_r8 THEN Numbered8 ELSE IF wide THEN Numbered64 ELSE Numbered32

\* There are six segment registers, and a mov cannot load CS.
LoadedSegment(n) ==
    IF n \in DOMAIN NumberedSegment /\ NumberedSegment[n] # "Cs" THEN NumberedSegment[n] ELSE "#UD"

\* <<dst, src>> of a three-byte mov that starts with a REX prefix, in register mode.  Only 8E
\* has its destination in ModRm.reg.
Decode(c) ==
    LET wide  == 3 \in c[1]
        rm    == Field(c[3], 0) + (IF 0 \in c[1] THEN 8 ELSE 0)
        reg   == Field(c[3], 3) + (IF 2 \in c[1] THEN 8 ELSE 0)
        sreg  == Field(c[3], 3)
    IN  IF c[2] = op_to_sreg
          THEN <<LoadedSegment(sreg + 1), Bank(c[2], wide)[rm + 1]>>
          ELSE <<Bank(c[2], wide)[rm + 1],
                 IF c[2] = op_mov_sreg THEN NumberedSegment[sreg + 1]
                                       ELSE Bank(c[2], wide)[reg + 1]>>

IsRex(b) == 6 \in b /\ b \cap {4, 5, 7} = {}

\* The low bytes that share their three index bits with a high byte.
LowByteOfPointer == {"Spl", "Bpl", "Sil", "Dil"}

\* A mov to a segment register that reads the same with its operands exchanged.
SameNumber(d, s) ==
    /\ d # "Cs"
    /\ index_of_reg_name(d) = index_of_reg_name(s)
    /\ ~ requires_rex_extension(s)
=============================================================================
