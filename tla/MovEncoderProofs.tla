-------------------------- MODULE MovEncoderProofs --------------------------
(***************************************************************************)
(* Proofs about MovEncoder, for every pair of registers: the high bytes    *)
(* never come out under a REX prefix, and which movs are read as they went *)
(* in when one comes out.                                                  *)
(***************************************************************************)
EXTENDS MovEncoder, MovSemanticsProofs

\* encode() returns only what it computes, and only after validate_semantics let it.
IInv ==
    /\ TypeOK
    /\ pc \in {"valid", "encoded"} => validate_semantics(dst, src)
    /\ pc = "encoded" => code = encoding(dst, src)

\* encode() only returns for a mov that passed validate_semantics.
THEOREM Inductive == Spec => []IInv
  <1>1. Init => IInv
    BY DEF Init, IInv, TypeOK
  <1>2. IInv /\ [Next]_vars => IInv'
    <2> SUFFICES ASSUME IInv, [Next]_vars PROVE IInv'
      OBVIOUS
    <2>1. CASE Validate
      BY <2>1 DEF Validate, IInv, TypeOK
    <2>2. CASE Encode
      BY <2>2, EncodingType DEF Encode, IInv, TypeOK
    <2>3. CASE UNCHANGED vars
      BY <2>3 DEF vars, IInv, TypeOK
    <2> QED
      BY <2>1, <2>2, <2>3 DEF Next
  <1> QED
    BY <1>1, <1>2, PTL DEF Spec

\* What encode() returns is made of bytes, and its operands are registers.
THEOREM TypeCorrect == Spec => []TypeOK
  <1>1. IInv => TypeOK
    BY DEF IInv
  <1> QED
    BY <1>1, Inductive, PTL

\* The high bytes never come out under a REX prefix, whichever branch of
\* validate_semantics the operands took.
THEOREM HighBytes == Spec => []HighByteNeverUnderRex
  <1>1. IInv => HighByteNeverUnderRex
    <2> SUFFICES ASSUME IInv, pc = "encoded", {dst, src} \cap HighByte # {}
                 PROVE  ~ IsRex(code[1])
      BY DEF HighByteNeverUnderRex
    <2>1. code[1] = rex_prefix(dst, src)
      BY DEF IInv, encoding
    <2>2. dst \in RegName /\ src \in RegName /\ validate_semantics(dst, src)
      BY DEF IInv, TypeOK
    <2> QED
      BY <2>1, <2>2, HighByteNoRex DEF IsRex
  <1> QED
    BY <1>1, Inductive, PTL

\* Under a REX prefix the processor reads back the mov that was encoded, except when an operand
\* is SPL, BPL, SIL or DIL, or the destination a segment register of another number than the
\* source: then it always reads another mov, or none.
THEOREM EncodingIsRead == Spec => []ReadsBack
  <1>1. IInv => ReadsBack
    <2> SUFFICES ASSUME IInv, pc = "encoded", IsRex(code[1])
                 PROVE  Decode(code) = <<dst, src>> <=>
                          /\ {dst, src} \cap LowByteOfPointer = {}
                          /\ dst \in Segment => SameNumber(dst, src)
      BY DEF ReadsBack
    <2>1. code = encoding(dst, src) /\ code[1] = rex_prefix(dst, src)
      BY DEF IInv, encoding
    <2>2. dst \in RegName /\ src \in RegName /\ validate_semantics(dst, src)
      BY DEF IInv, TypeOK
    <2>3. 6 \in rex_prefix(dst, src)
      BY <2>1 DEF IsRex
    <2>4. CASE {dst, src} \cap LowByteOfPointer # {}
      BY <2>1, <2>2, <2>4, LowBytesMisread
    <2>5. CASE {dst, src} \cap LowByteOfPointer = {} /\ dst \notin Segment
      BY <2>1, <2>2, <2>3, <2>5, RoundTrip
    <2>6. CASE {dst, src} \cap LowByteOfPointer = {} /\ dst \in Segment
      BY <2>1, <2>2, <2>3, <2>6, SegmentsExchanged
    <2> QED
      BY <2>4, <2>5, <2>6
  <1> QED
    BY <1>1, Inductive, PTL
=============================================================================
