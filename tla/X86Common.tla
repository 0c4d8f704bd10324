----------------------------- MODULE X86Common ------------------------------
(***************************************************************************)
(* fiskas/x86_common.hh and .cc: the registers, their tables, and the two  *)
(* byte builders.  A byte is the set of its bits that are 1, so that the   *)
(* |= of the builders is a union and a shift drops what leaves the byte.   *)
(***************************************************************************)
EXTENDS Integers, Sequences

Byte == SUBSET (0 .. 7)

\* u8 << k
Shl(b, k) == {i \in 0 .. 7 : i - k \in b}

\* The bits of a value of at most three bits.
BitsOf(n) ==
    {i \in 0 .. 2 : \/ i = 0 /\ n \in {1, 3, 5, 7}
                    \/ i = 1 /\ n \in {2, 3, 6, 7}
                    \/ i = 2 /\ n \in {4, 5, 6, 7}}

-----------------------------------------------------------------------------
(* RegName.                                                                *)

Gpr64 == {"Rax", "Rbx", "Rcx", "Rdx", "Rbp", "Rsi", "Rdi", "Rsp",
          "R8", "R9", "R10", "R11", "R12", "R13", "R14", "R15"}

Gpr32 == {"Eax", "Ebx", "Ecx", "Edx", "Ebp", "Esi", "Edi", "Esp",
          "R8d", "R9d", "R10d", "R11d", "R12d", "R13d", "R14d", "R15d"}

Gpr8 == {"Al", "Cl", "Dl", "Bl", "Ah", "Ch", "Dh", "Bh", "Spl", "Bpl", "Sil", "Dil",
         "R8b", "R9b", "R10b", "R11b", "R12b", "R13b", "R14b", "R15b"}

Segment == {"Cs", "Ds", "Ss", "Es", "Fs", "Gs"}

RegName == Gpr64 \cup Gpr32 \cup Gpr8 \cup Segment

BitWidth == {8, 16, 32, 64}

is_segment_register(r) == r \in Segment

bit_width_of_reg_name(r) ==
    IF r \in Gpr64 THEN 64
    ELSE IF r \in Gpr32 THEN 32
    ELSE IF r \in Segment THEN 16
    ELSE 8

requires_rex_extension(r) ==
    r \in {"Spl", "Bpl", "Sil", "Dil",
           "R8", "R9", "R10", "R11", "R12", "R13", "R14", "R15",
           "R8d", "R9d", "R10d", "R11d", "R12d", "R13d", "R14d", "R15d",
           "R8b", "R9b", "R10b", "R11b", "R12b", "R13b", "R14b", "R15b"}

index_of_reg_name(r) ==
    IF r \in {"Rax", "Eax", "Al", "R8", "R8d", "R8b", "Es"} THEN 0
    ELSE IF r \in {"Rcx", "Ecx", "Cl", "R9", "R9d", "R9b", "Cs"} THEN 1
    ELSE IF r \in {"Rdx", "Edx", "Dl", "R10", "R10d", "R10b", "Ss"} THEN 2
    ELSE IF r \in {"Rbx", "Ebx", "Bl", "R11", "R11d", "R11b", "Ds"} THEN 3
    ELSE IF r \in {"Rsp", "Esp", "Ah", "Spl", "R12", "R12d", "R12b", "Fs"} THEN 4
    ELSE IF r \in {"Rbp", "Ebp", "Ch", "Bpl", "R13", "R13d", "R13b", "Gs"} THEN 5
    ELSE IF r \in {"Rsi", "Esi", "Dh", "Sil", "R14", "R14d", "R14b"} THEN 6
    ELSE 7

\* The names reg_name_of_str knows, as the lexer delivers them.
regnames ==
    {<< <<"r", "a", "x">>, "Rax">>, << <<"r", "b", "x">>, "Rbx">>,
     << <<"r", "c", "x">>, "Rcx">>, << <<"r", "d", "x">>, "Rdx">>,
     << <<"r", "b", "p">>, "Rbp">>, << <<"r", "s", "i">>, "Rsi">>,
     << <<"r", "d", "i">>, "Rdi">>, << <<"r", "s", "p">>, "Rsp">>,
     << <<"r", "8">>, "R8">>, << <<"r", "9">>, "R9">>,
     << <<"r", "1", "0">>, "R10">>, << <<"r", "1", "1">>, "R11">>,
     << <<"r", "1", "2">>, "R12">>, << <<"r", "1", "3">>, "R13">>,
     << <<"r", "1", "4">>, "R14">>, << <<"r", "1", "5">>, "R15">>}

-----------------------------------------------------------------------------
(* ModRm and Rex.                                                          *)

\* ModRm().mod(m).reg(r).rm(b).value()
ModRm(m, r, b) == Shl(BitsOf(m), 6) \cup Shl(BitsOf(r), 3) \cup BitsOf(b)

register_addressing == 3

\* Rex().w(w).r(r).b(b).value(): no bit asked for, no fixed field either.
RexBits(w, r, b) ==
    {i \in {0, 2, 3} : (i = 3 /\ w) \/ (i = 2 /\ r) \/ (i = 0 /\ b)}

\* Mutant: the fixed field is forgotten.
RexWithoutFixedField(w, r, b) == RexBits(w, r, b)

Rex(w, r, b) == IF RexBits(w, r, b) = {} THEN {} ELSE {6} \cup RexBits(w, r, b)
=============================================================================
