----------------------------- MODULE MovEncoder -----------------------------
(***************************************************************************)
(* fiskas/x86_instructions/mov: encode() of a register to register mov.    *)
(* It first runs validate_semantics, whose failed assertion ends the       *)
(* process, then returns three bytes.                                      *)
(***************************************************************************)
EXTENDS MovSemantics

VARIABLES
    dst, src,   \* MovRegToReg::dst and ::src: a Reg's width is that of its name
    pc,         \* "constructed", "valid", "encoded" or "abort"
    code        \* what encode() returned

vars == <<dst, src, pc, code>>

TypeOK ==
    /\ dst \in RegName
    /\ src \in RegName
    /\ pc \in {"constructed", "valid", "encoded", "abort"}
    /\ code \in Seq(Byte)

-----------------------------------------------------------------------------
Init ==
    /\ dst \in RegName
    /\ src \in RegName
    /\ pc = "constructed"
    /\ code = << >>

Validate ==
    /\ pc = "constructed"
    /\ pc' = IF validate_semantics(dst, src) THEN "valid" ELSE "abort"
    /\ UNCHANGED <<dst, src, code>>

Encode ==
    /\ pc = "valid"
    /\ pc' = "encoded"
    /\ code' = encoding(dst, src)
    /\ UNCHANGED <<dst, src>>

Next == Validate \/ Encode

Spec == Init /\ [][Next]_vars

-----------------------------------------------------------------------------
(* Correctness.                                                            *)

\* AH, BH, CH and DH never come out under a REX prefix, where the processor would read
\* their numbers as SPL, BPL, SIL and DIL (the rule of the comment in validate_semantics):
\* the branch on equal widths tests it, the branches on segment registers must imply it.
HighByteNeverUnderRex ==
    pc = "encoded" /\ {dst, src} \cap HighByte # {} => ~ IsRex(code[1])

\* Which movs the processor reads back as they went in, of those under a REX prefix: not those
\* of SPL, BPL, SIL and DIL, which get the extension bit of R12B to R15B, and not those to a
\* segment register, which keep the ModRm fields of the other direction, unless both operands
\* have the same number.
ReadsBack ==
    pc = "encoded" /\ IsRex(code[1]) =>
       (Decode(code) = <<dst, src>> <=>
          /\ {dst, src} \cap LowByteOfPointer = {}
          /\ dst \in Segment => SameNumber(dst, src))

\* The comment of Rex::value, x86_common.hh line 71: "We don't need the rex prefix in
\* this case."  Then the mov is its opcode and its ModRm byte.
NoPrefixWhenNotNeeded ==
    pc = "encoded" /\ RexBits(64 \in {Width(src), Width(dst)},
                              requires_rex_extension(src),
                              requires_rex_extension(dst)) = {}
    => code = <<opcode(dst, src), modrm_byte(dst, src)>>
=============================================================================
