------------------------- MODULE MovSemanticsProofs -------------------------
(***************************************************************************)
(* Lemmas about MovSemantics, for every pair of registers.                 *)
(***************************************************************************)
EXTENDS MovSemantics, SequenceTheorems, TLAPS

LEMMA Widths ==
    /\ \A r \in Gpr64 : Width(r) = 64 /\ r \notin Segment
    /\ \A r \in Gpr32 : Width(r) = 32 /\ r \notin Segment
    /\ \A r \in Gpr8 : Width(r) = 8 /\ r \notin Segment
    /\ \A r \in Segment : Width(r) = 16
  BY DEF Width, bit_width_of_reg_name, Gpr64, Gpr32, Gpr8, Segment

\* Membership in what Rex() returns.
LEMMA RexBit ==
    ASSUME NEW w \in BOOLEAN, NEW r \in BOOLEAN, NEW b \in BOOLEAN
    PROVE  /\ Rex(w, r, b) \in Byte
           /\ 3 \in Rex(w, r, b) <=> w
           /\ 2 \in Rex(w, r, b) <=> r
           /\ 0 \in Rex(w, r, b) <=> b
           /\ 6 \in Rex(w, r, b) <=> w \/ r \/ b
  <1>1. /\ 3 \in RexBits(w, r, b) <=> w
        /\ 2 \in RexBits(w, r, b) <=> r
        /\ 0 \in RexBits(w, r, b) <=> b
        /\ RexBits(w, r, b) \subseteq {0, 2, 3}
    BY DEF RexBits
  <1>2. RexBits(w, r, b) = {} <=> ~ (w \/ r \/ b)
    BY <1>1
  <1> QED
    BY <1>1, <1>2 DEF Rex, Byte

\* The three fields of a ModRm byte do not disturb one another.
LEMMA ModRmFields ==
    ASSUME NEW m \in 0 .. 3, NEW r \in 0 .. 7, NEW b \in 0 .. 7
    PROVE  /\ ModRm(m, r, b) \in Byte
           /\ Field(ModRm(m, r, b), 3) = r
           /\ Field(ModRm(m, r, b), 0) = b
  <1>1. /\ ModRm(m, r, b) \in Byte
        /\ 0 \in ModRm(m, r, b) <=> 0 \in BitsOf(b)
        /\ 1 \in ModRm(m, r, b) <=> 1 \in BitsOf(b)
        /\ 2 \in ModRm(m, r, b) <=> 2 \in BitsOf(b)
        /\ 3 \in ModRm(m, r, b) <=> 0 \in BitsOf(r)
        /\ 4 \in ModRm(m, r, b) <=> 1 \in BitsOf(r)
        /\ 5 \in ModRm(m, r, b) <=> 2 \in BitsOf(r)
    BY DEF ModRm, Shl, BitsOf, Byte
  <1>2. \A n \in 0 .. 7 :
          /\ 0 \in BitsOf(n) <=> n \in {1, 3, 5, 7}
          /\ 1 \in BitsOf(n) <=> n \in {2, 3, 6, 7}
          /\ 2 \in BitsOf(n) <=> n \in {4, 5, 6, 7}
    BY DEF BitsOf
  <1>3. Field(ModRm(m, r, b), 0) = b
    BY <1>1, <1>2 DEF Field
  <1>4. Field(ModRm(m, r, b), 3) = r
    BY <1>1, <1>2 DEF Field
  <1> QED
    BY <1>1, <1>3, <1>4

\* The index and the extension bit of a register are its number in the processor's tables.
LEMMA Numbers64 ==
    ASSUME NEW r \in Gpr64
    PROVE  Numbered64[index_of_reg_name(r) + (IF requires_rex_extension(r) THEN 8 ELSE 0) + 1] = r
  BY DEF Gpr64, Numbered64, index_of_reg_name, requires_rex_extension

LEMMA Numbers32 ==
    ASSUME NEW r \in Gpr32
    PROVE  Numbered32[index_of_reg_name(r) + (IF requires_rex_extension(r) THEN 8 ELSE 0) + 1] = r
  BY DEF Gpr32, Numbered32, index_of_reg_name, requires_rex_extension

LEMMA Numbers8 ==
    ASSUME NEW r \in Gpr8, r \notin HighByte, r \notin LowByteOfPointer
    PROVE  Numbered8[index_of_reg_name(r) + (IF requires_rex_extension(r) THEN 8 ELSE 0) + 1] = r
  BY DEF Gpr8, HighByte, LowByteOfPointer, Numbered8, index_of_reg_name, requires_rex_extension

LEMMA NumbersSegment ==
    ASSUME NEW r \in Segment
    PROVE  NumberedSegment[index_of_reg_name(r) + 1] = r
  BY DEF Segment, NumberedSegment, index_of_reg_name

LEMMA IndexRange == \A r : index_of_reg_name(r) \in 0 .. 7
  BY DEF index_of_reg_name

-----------------------------------------------------------------------------
(* What the assertions of validate_semantics let through.                  *)

LEMMA RexPrefixBits ==
    ASSUME NEW d, NEW s
    PROVE  /\ rex_prefix(d, s) \in Byte
           /\ 3 \in rex_prefix(d, s) <=> 64 \in {Width(s), Width(d)}
           /\ 2 \in rex_prefix(d, s) <=> requires_rex_extension(s)
           /\ 0 \in rex_prefix(d, s) <=> requires_rex_extension(d)
           /\ 6 \in rex_prefix(d, s) <=>
                 \/ 64 \in {Width(s), Width(d)}
                 \/ requires_rex_extension(s) \/ requires_rex_extension(d)
  <1>1. /\ (64 \in {Width(s), Width(d)}) \in BOOLEAN
        /\ requires_rex_extension(s) \in BOOLEAN /\ requires_rex_extension(d) \in BOOLEAN
    BY DEF requires_rex_extension
  <1> QED
    BY <1>1, RexBit DEF rex_prefix

\* A mov of a high byte is between bytes, and none of the two needs a REX bit.
LEMMA HighByteOperands ==
    ASSUME NEW d \in RegName, NEW s \in RegName, validate_semantics(d, s),
           {d, s} \cap HighByte # {}
    PROVE  /\ Width(d) = 8 /\ Width(s) = 8
           /\ ~ requires_rex_extension(d) /\ ~ requires_rex_extension(s)
  <1>1. \A r \in HighByte : Width(r) = 8 /\ ~ is_segment_register(r) /\ ~ requires_rex_extension(r)
    BY DEF HighByte, Width, bit_width_of_reg_name, Gpr64, Gpr32, Segment, is_segment_register,
           requires_rex_extension
  <1>2. CASE Width(d) # Width(s)
    <2>1. DifferentWidths(d, s)
      BY <1>2 DEF validate_semantics
    <2> QED
      BY <1>1, <2>1, <1>2 DEF DifferentWidths
  <1>3. CASE Width(d) = Width(s)
    <2>1. Width(d) = 8 /\ Width(s) = 8
      BY <1>1, <1>3
    <2>2. Rex(FALSE, requires_rex_extension(s), requires_rex_extension(d)) = {}
      BY <1>3, <2>1 DEF validate_semantics, SameWidth
    <2>3. requires_rex_extension(s) \in BOOLEAN /\ requires_rex_extension(d) \in BOOLEAN
      BY DEF requires_rex_extension
    <2> QED
      BY <2>1, <2>2, <2>3, RexBit
  <1> QED
    BY <1>2, <1>3

LEMMA HighByteNoRex ==
    ASSUME NEW d \in RegName, NEW s \in RegName, validate_semantics(d, s),
           {d, s} \cap HighByte # {}
    PROVE  6 \notin rex_prefix(d, s)
  BY HighByteOperands, RexPrefixBits

\* The banks the two operands of a validated mov can come from.
LEMMA Operands ==
    ASSUME NEW d \in RegName, NEW s \in RegName, validate_semantics(d, s), d \notin Segment
    PROVE  \/ d \in Gpr64 /\ s \in Gpr64 \cup Segment
           \/ d \in Gpr32 /\ s \in Gpr32 \cup Segment
           \/ d \in Gpr8 /\ s \in Gpr8
  <1>1. d \in Gpr64 \cup Gpr32 \cup Gpr8 /\ s \in Gpr64 \cup Gpr32 \cup Gpr8 \cup Segment
    BY DEF RegName
  <1>2. s \notin Segment => Width(d) = Width(s)
    BY DEF validate_semantics, DifferentWidths, is_segment_register
  <1>3. s \in Segment => Width(d) # 8
    BY Widths DEF validate_semantics, DifferentWidths, is_segment_register
  <1> QED
    BY <1>1, <1>2, <1>3, Widths

LEMMA Opcodes ==
    /\ op_mov_sreg # op_mov_r8 /\ op_mov_sreg # op_mov_r /\ op_mov_r # op_mov_r8
    /\ op_to_sreg # op_mov_r8 /\ op_to_sreg # op_mov_r /\ op_to_sreg # op_mov_sreg
  <1>1. 2 \in op_mov_sreg /\ 2 \notin op_mov_r8 /\ 2 \notin op_mov_r
    BY DEF op_mov_sreg, op_mov_r8, op_mov_r
  <1>2. 0 \in op_mov_r /\ 0 \notin op_mov_r8
    BY DEF op_mov_r8, op_mov_r
  <1>3. 1 \in op_to_sreg /\ 1 \notin op_mov_r8 /\ 1 \notin op_mov_r /\ 1 \notin op_mov_sreg
    BY DEF op_to_sreg, op_mov_r8, op_mov_r, op_mov_sreg
  <1> QED
    BY <1>1, <1>2, <1>3

\* What the processor finds in the three bytes of a mov.
LEMMA Fields ==
    ASSUME NEW d, NEW s
    PROVE  LET c == encoding(d, s)
           IN  /\ c[1] = rex_prefix(d, s) /\ c[2] = opcode(d, s)
               /\ Field(c[3], 0) = index_of_reg_name(d)
               /\ Field(c[3], 3) = index_of_reg_name(s)
               /\ (IF 0 \in c[1] THEN 8 ELSE 0) = (IF requires_rex_extension(d) THEN 8 ELSE 0)
               /\ (IF 2 \in c[1] THEN 8 ELSE 0) = (IF requires_rex_extension(s) THEN 8 ELSE 0)
               /\ 3 \in c[1] <=> 64 \in {Width(s), Width(d)}
  <1> DEFINE c == encoding(d, s)
  <1>1. c[1] = rex_prefix(d, s) /\ c[2] = opcode(d, s) /\ c[3] = modrm_byte(d, s)
    BY DEF encoding
  <1>2. /\ Field(c[3], 0) = index_of_reg_name(d)
        /\ Field(c[3], 3) = index_of_reg_name(s)
    BY <1>1, ModRmFields, IndexRange DEF modrm_byte, register_addressing
  <1>3. /\ 0 \in c[1] <=> requires_rex_extension(d)
        /\ 2 \in c[1] <=> requires_rex_extension(s)
        /\ 3 \in c[1] <=> 64 \in {Width(s), Width(d)}
    BY <1>1, RexPrefixBits
  <1> QED
    BY <1>1, <1>2, <1>3

LEMMA RoundTrip ==
    ASSUME NEW d \in RegName, NEW s \in RegName, validate_semantics(d, s), d \notin Segment,
           {d, s} \cap LowByteOfPointer = {}, 6 \in rex_prefix(d, s)
    PROVE  Decode(encoding(d, s)) = <<d, s>>
  <1> DEFINE c == encoding(d, s)
             ext(r) == IF requires_rex_extension(r) THEN 8 ELSE 0
  <1>1. d \notin HighByte /\ s \notin HighByte
    BY HighByteNoRex
  <1>2. opcode(d, s) # op_to_sreg
    BY Opcodes DEF opcode, is_segment_register
  <1>3. Decode(c) =
          <<Bank(opcode(d, s), 64 \in {Width(s), Width(d)})[index_of_reg_name(d) + ext(d) + 1],
            IF opcode(d, s) = op_mov_sreg
              THEN NumberedSegment[index_of_reg_name(s) + 1]
              ELSE Bank(opcode(d, s), 64 \in {Width(s), Width(d)})[index_of_reg_name(s) + ext(s) + 1]>>
    <2> HIDE DEF c
    <2> QED
      BY <1>2, Fields DEF Decode, c
  <1>4. CASE d \in Gpr64 /\ s \in Gpr64 \cup Segment
    <2>1. 64 \in {Width(s), Width(d)} /\ opcode(d, s) = IF s \in Segment THEN op_mov_sreg ELSE op_mov_r
      BY <1>4, Widths DEF opcode, is_segment_register
    <2> QED
      BY <1>3, <1>4, <2>1, Opcodes, Numbers64, NumbersSegment, Widths DEF Bank, c
  <1>5. CASE d \in Gpr32 /\ s \in Gpr32 \cup Segment
    <2>1. 64 \notin {Width(s), Width(d)} /\ opcode(d, s) = IF s \in Segment THEN op_mov_sreg ELSE op_mov_r
      BY <1>5, Widths DEF opcode, is_segment_register
    <2> QED
      BY <1>3, <1>5, <2>1, Opcodes, Numbers32, NumbersSegment, Widths DEF Bank, c
  <1>6. CASE d \in Gpr8 /\ s \in Gpr8
    <2>1. opcode(d, s) = op_mov_r8 /\ d \notin LowByteOfPointer /\ s \notin LowByteOfPointer
      BY <1>6, Widths DEF opcode, is_segment_register
    <2> QED
      BY <1>1, <1>3, <1>6, <2>1, Opcodes, Numbers8 DEF Bank, c
  <1> QED
    BY <1>4, <1>5, <1>6, Operands

\* SPL, BPL, SIL and DIL come out as R12B to R15B.
LEMMA LowBytesMisread ==
    ASSUME NEW d \in RegName, NEW s \in RegName, validate_semantics(d, s),
           {d, s} \cap LowByteOfPointer # {}
    PROVE  Decode(encoding(d, s)) # <<d, s>>
  <1> DEFINE c == encoding(d, s)
             ext(r) == IF requires_rex_extension(r) THEN 8 ELSE 0
  <1>1. \A r \in LowByteOfPointer :
          r \in Gpr8 /\ r \notin Gpr64 /\ r \notin Gpr32 /\ r \notin Segment
    BY DEF LowByteOfPointer, Gpr8, Gpr64, Gpr32, Segment
  <1>2. d \notin Segment
    <2> SUFFICES ASSUME d \in Segment PROVE FALSE
      OBVIOUS
    <2>1. s \in LowByteOfPointer
      BY <1>1
    <2>2. Width(s) = 8 /\ Width(d) = 16 /\ ~ is_segment_register(s)
      BY <1>1, <2>1, Widths DEF is_segment_register
    <2> QED
      BY <2>2 DEF validate_semantics, DifferentWidths
  <1>3. d \in Gpr8 /\ s \in Gpr8
    BY <1>1, <1>2, Operands, Widths
  <1>4. opcode(d, s) = op_mov_r8
    BY <1>3, Widths DEF opcode, is_segment_register
  <1>5. Decode(c) = <<Numbered8[index_of_reg_name(d) + ext(d) + 1],
                      Numbered8[index_of_reg_name(s) + ext(s) + 1]>>
    <2> HIDE DEF c
    <2> QED
      BY <1>4, Fields, Opcodes DEF Decode, Bank, c
  <1>6. \A r \in LowByteOfPointer : Numbered8[index_of_reg_name(r) + ext(r) + 1] # r
    BY DEF LowByteOfPointer, Numbered8, index_of_reg_name, requires_rex_extension
  <1> QED
    BY <1>5, <1>6

\* A segment register comes out as the other operand's number.
LEMMA SegmentsExchanged ==
    ASSUME NEW d \in Segment, NEW s \in RegName, validate_semantics(d, s), 6 \in rex_prefix(d, s)
    PROVE  Decode(encoding(d, s)) = <<d, s>> <=> SameNumber(d, s)
  <1> DEFINE c == encoding(d, s)
             di == index_of_reg_name(d)
             si == index_of_reg_name(s)
  <1>1. \A r \in Segment : Width(r) = 16 /\ ~ requires_rex_extension(r)
    BY DEF Segment, Width, bit_width_of_reg_name, Gpr64, Gpr32, requires_rex_extension
  <1>2. s \in Gpr64
    <2>1. s \notin Segment
      BY <1>1, RexPrefixBits
    <2>2. s \in Gpr64 \cup Gpr32 \cup Gpr8
      BY <2>1 DEF RegName
    <2>3. Width(s) # 16 => Width(s) = 64
      BY <1>1, <2>1 DEF validate_semantics, DifferentWidths, is_segment_register
    <2> QED
      BY <2>2, <2>3, Widths
  <1>3. opcode(d, s) = op_to_sreg /\ 64 \in {Width(s), Width(d)} /\ ~ requires_rex_extension(d)
    BY <1>1, <1>2, Widths DEF opcode, is_segment_register
  <1>4. di \in 0 .. 7 /\ si \in 0 .. 7
    BY IndexRange
  <1>5. Decode(c) = <<LoadedSegment(si + 1), Numbered64[di + 1]>>
    <2>1. Decode(c) = <<LoadedSegment(si + 1), Bank(op_to_sreg, TRUE)[di + 0 + 1]>>
      <3> HIDE DEF c, di, si
      <3> QED
        BY <1>3, Fields DEF Decode, c, di, si
    <2> QED
      BY <1>4, <2>1, Opcodes DEF Bank
  <1>6. LoadedSegment(si + 1) = d <=> d # "Cs" /\ si = di
    <2>1. d \in {"Es", "Cs", "Ss", "Ds", "Fs", "Gs"}
      BY DEF Segment
    <2>2. \A n \in 0 .. 7 : LoadedSegment(n + 1) =
            CASE n = 0 -> "Es" [] n = 2 -> "Ss" [] n = 3 -> "Ds" [] n = 4 -> "Fs" [] n = 5 -> "Gs"
              [] OTHER -> "#UD"
      BY DEF LoadedSegment, NumberedSegment
    <2>3. di = CASE d = "Es" -> 0 [] d = "Cs" -> 1 [] d = "Ss" -> 2 [] d = "Ds" -> 3
                 [] d = "Fs" -> 4 [] d = "Gs" -> 5
      BY <2>1 DEF index_of_reg_name
    <2> HIDE DEF di, si
    <2> QED
      BY <1>4, <2>1, <2>2, <2>3
  <1>7. Numbered64[di + 1] = s <=> di = si /\ ~ requires_rex_extension(s)
    <2>1. \A r \in Gpr64, n \in 0 .. 7 :
            Numbered64[n + 1] = r <=> n = index_of_reg_name(r) /\ ~ requires_rex_extension(r)
      BY DEF Gpr64, Numbered64, index_of_reg_name, requires_rex_extension
    <2> QED
      BY <1>2, <1>4, <2>1
  <1> QED
    BY <1>5, <1>6, <1>7 DEF SameNumber

LEMMA OpcodeType == \A d, s : opcode(d, s) \in Byte
  BY DEF opcode, Byte, op_mov_sreg, op_to_sreg, op_mov_r8, op_mov_r

LEMMA EncodingType == \A d, s : encoding(d, s) \in Seq(Byte)
  <1> SUFFICES ASSUME NEW d, NEW s PROVE encoding(d, s) \in Seq(Byte)
    OBVIOUS
  <1>1. rex_prefix(d, s) \in Byte /\ opcode(d, s) \in Byte
    BY RexPrefixBits, OpcodeType
  <1>2. modrm_byte(d, s) \in Byte
    BY ModRmFields, IndexRange DEF modrm_byte, register_addressing
  <1> QED
    BY <1>1, <1>2 DEF encoding
=============================================================================
