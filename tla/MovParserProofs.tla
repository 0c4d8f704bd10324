-------------------------- MODULE MovParserProofs ---------------------------
(***************************************************************************)
(* Proofs about MovParser, for every set of programs: it drives the lexer  *)
(* as a client may, parses and refuses exactly what it should, and the     *)
(* movs it builds are encoded and read back by the processor unchanged.    *)
(***************************************************************************)
EXTENDS MovParser, LexerProofs, MovSemanticsProofs

LEMMA ScriptFacts ==
    /\ Len(Script) = 6
    /\ Script[2] = "dst" /\ Script[4] = "src"
    /\ Script[1] = "LeftParen" /\ Script[3] = "Comma"
    /\ Script[5] = "RightParen" /\ Script[6] = "SemiColon"
    /\ "dst" \notin TokenKind /\ "src" \notin TokenKind
    /\ {"LeftParen", "Comma", "RightParen", "SemiColon"} \subseteq TokenKind
  BY DEF Script, TokenKind

LEMMA RegNames ==
    \A l, r : <<l, r>> \in regnames => r \in Gpr64 /\ 1 \in DOMAIN l
  BY DEF regnames, Gpr64

\* The parser is one more client of the lexer.
LEMMA LexerStep == ParserNext => [Next]_vars
  BY DEF ParserNext, Ask, Lex, consume_pnc, next_register, Accept, Refuse, Next

THEOREM ParserIsAClient == ParserSpec => Spec
  <1>1. ParserInit => Init
    BY DEF ParserInit
  <1>2. [ParserNext]_parserVars => [Next]_vars
    BY LexerStep DEF parserVars
  <1> QED
    BY <1>1, <1>2, PTL DEF ParserSpec, Spec

-----------------------------------------------------------------------------
(* Where the parser stands with respect to the tokens of the lexer.        *)

PInv ==
    /\ ParserTypeOK
    /\ ~ asked => pc = "idle" /\ Len(toks) = at - 1 /\ tok.kind # "Eof"
    /\ asked => at <= Len(Script)
    /\ asked /\ pc # "idle" => Len(toks) = at - 1 /\ tok.kind # "Eof"
    /\ asked /\ pc = "idle" =>
          \/ tok.kind # "Eof" /\ Len(toks) = at /\ toks[at] = tok
          \/ tok = EofToken /\ Len(toks) = at - 1
    /\ \A i \in 1 .. at - 1 : Matches(i)

LEMMA PInvInit == ParserInit => PInv
  <1> SUFFICES ASSUME ParserInit PROVE PInv
    OBVIOUS
  <1>1. TypeOK
    BY InitIInv DEF ParserInit, IInv
  <1>2. pc = "idle" /\ Len(toks) = 0 /\ tok.kind # "Eof"
    BY DEF ParserInit, Init, gen
  <1>3. ParserTypeOK
    <2>1. at \in 1 .. Len(Script) + 1
      BY ScriptFacts DEF ParserInit
    <2>2. asked \in BOOLEAN /\ failed \in BOOLEAN
      BY DEF ParserInit
    <2>3. operands \in [{"dst", "src"} -> RegName \cup {NoReg}]
      BY DEF ParserInit
    <2> QED
      BY <1>1, <2>1, <2>2, <2>3 DEF ParserTypeOK
  <1> QED
    BY <1>2, <1>3 DEF ParserInit, PInv

\* A step of next_token adds one token to the history exactly when it returns one.
LEMMA LexEffect ==
    ASSUME IInv, next_token, tok.kind # "Eof"
    PROVE  /\ source' = source
           /\ \/ pc' # "idle" /\ toks' = toks /\ tok' = tok
              \/ pc' = "idle" /\ toks' = toks /\ tok' = EofToken
              \/ /\ pc' = "idle" /\ tok'.kind # "Eof" /\ Len(toks') = Len(toks) + 1
                 /\ toks'[Len(toks) + 1] = tok'
                 /\ \A i \in 1 .. Len(toks) : toks'[i] = toks[i]
           /\ pc # "idle"
  <1>1. CASE ReturnOneChar \/ ReturnNumber \/ ReturnWord
    <2>1. PICK k \in TokenKind : ReturnStep(k)
      BY <1>1, ReturnSteps
    <2>2. Return(k) /\ start < curr /\ k # "Eof" /\ TypeOK /\ pc # "idle"
      BY <2>1 DEF ReturnStep, IInv
    <2> QED
      BY <2>2, ReturnFacts DEF Return, cursor
  <1>2. CASE EatBlank \/ EatDigit \/ EatIdent \/ ReturnEof \/ FirstChar \/ multi_char_token_kind
    BY <1>2 DEF EatBlank, EatDigit, EatIdent, Eat, ReturnEof, FirstChar, Stops,
                multi_char_token_kind, next_char, cursor
  <1> QED
    BY <1>1, <1>2 DEF next_token

LEMMA PInvStep == ASSUME PInv, IInv, ParserNext PROVE PInv'
  <1> USE ScriptFacts DEF PInv
  <1>1. TypeOK'
    BY LexerStep, TypeStep, StutterIInv DEF IInv
  <1>2. Len(toks) \in Nat /\ at \in 1 .. 7
    BY SourceFacts DEF ParserTypeOK
  <1>3. CASE Ask
    <2>1. /\ UNCHANGED <<source, toks, tok, at, operands, failed>> /\ asked' = TRUE
          /\ pc' = "blanks" /\ ~ asked /\ ~ parsed
      BY <1>3 DEF Ask, Call, cursor
    <2>2. ParserTypeOK'
      BY <1>1, <2>1 DEF ParserTypeOK
    <2> QED
      BY <1>2, <2>1, <2>2 DEF parsed, Matches
  <1>4. CASE Lex
    <2>1. next_token /\ UNCHANGED <<at, asked, failed, operands>>
      BY <1>4 DEF Lex, parser
    <2>2. pc # "idle"
      BY <2>1 DEF next_token, EatBlank, EatDigit, EatIdent, Eat, ReturnEof, FirstChar, Stops,
                  ReturnOneChar, multi_char_token_kind, ReturnNumber, ReturnWord
    <2>3. asked /\ Len(toks) = at - 1 /\ tok.kind # "Eof"
      BY <2>2
    <2>4. ParserTypeOK'
      BY <1>1, <2>1 DEF ParserTypeOK
    <2>5. \A i \in 1 .. at - 1 : toks'[i] = toks[i] /\ source' = source
      BY <2>1, <2>3, LexEffect, <1>2
    <2>6. \A i \in 1 .. at - 1 : Matches(i)'
      BY <2>1, <2>5 DEF Matches
    <2>7. /\ pc' # "idle" => Len(toks') = at - 1 /\ tok'.kind # "Eof"
          /\ pc' = "idle" =>
                \/ tok'.kind # "Eof" /\ Len(toks') = at /\ toks'[at] = tok'
                \/ tok' = EofToken /\ Len(toks') = at - 1
      BY <2>1, <2>3, LexEffect, <1>2
    <2> QED
      BY <2>1, <2>3, <2>4, <2>6, <2>7
  <1>5. CASE consume_pnc
    <2>1. /\ asked /\ pc = "idle" /\ Script[at] \in TokenKind /\ UNCHANGED vars
          /\ UNCHANGED operands
      BY <1>5 DEF consume_pnc, Answered, Accept, Refuse
    <2>2. ParserTypeOK'
      <3>1. CASE Accept
        <4>1. at' \in 1 .. Len(Script) + 1
          BY <1>2, <2>1, <3>1 DEF Accept
        <4>2. asked' \in BOOLEAN /\ failed' \in BOOLEAN
          BY <3>1 DEF Accept, ParserTypeOK
        <4> QED
          BY <1>1, <2>1, <4>1, <4>2 DEF ParserTypeOK
      <3>2. CASE Refuse
        BY <1>1, <1>2, <2>1, <3>2 DEF Refuse, ParserTypeOK
      <3> QED
        BY <1>5, <3>1, <3>2 DEF consume_pnc
    <2>3. UNCHANGED <<source, toks, tok, pc>>
      BY <2>1 DEF vars
    <2>4. CASE tok.kind = Script[at] /\ Accept
      <3>1. tok.kind # "Eof"
        BY <2>1, <2>4, <1>2
      <3>2. Matches(at) /\ Len(toks) = at
        BY <2>1, <2>4, <3>1 DEF Matches, EofToken, gen
      <3> QED
        BY <1>2, <2>1, <2>2, <2>3, <2>4, <3>1, <3>2 DEF Accept, Matches
    <2>5. CASE Refuse
      BY <2>1, <2>2, <2>3, <2>5 DEF Refuse, Matches
    <2> QED
      BY <1>5, <2>4, <2>5 DEF consume_pnc
  <1>6. CASE next_register
    <2> DEFINE literal == source_substring(source, tok.offset, tok.offset + tok.len)
    <2>1. asked /\ pc = "idle" /\ Script[at] \in {"dst", "src"} /\ UNCHANGED vars
      BY <1>6 DEF next_register, Answered, Accept, Refuse
    <2>2. UNCHANGED <<source, toks, tok, pc>>
      BY <2>1 DEF vars
    <2>3. CASE Refuse
      <3>1. ParserTypeOK'
        BY <1>1, <2>3 DEF Refuse, ParserTypeOK
      <3> QED
        BY <2>1, <2>2, <2>3, <3>1 DEF Refuse, Matches
    <2>4. CASE ~ Refuse
      <3>1. PICK r \in RegName : /\ <<literal, r>> \in regnames
                                 /\ Accept /\ operands' = [operands EXCEPT ![Script[at]] = r]
        BY <1>6, <2>4 DEF next_register
      <3>2. tok # EofToken
        <4>1. SUFFICES ASSUME tok = EofToken PROVE FALSE
          OBVIOUS
        <4>2. tok.offset = 0 /\ tok.len = 0
          BY <4>1 DEF EofToken, gen
        <4>3. DOMAIN literal = {}
          BY <4>2 DEF source_substring
        <4> QED
          BY <4>3, <3>1, RegNames
      <3>3. Len(toks) = at /\ toks[at] = tok /\ tok.kind # "Eof"
        BY <2>1, <3>2
      <3>4. ParserTypeOK'
        <4>1. at' \in 1 .. Len(Script) + 1
          BY <1>2, <2>1, <3>1 DEF Accept
        <4>2. asked' \in BOOLEAN /\ failed' \in BOOLEAN
          BY <3>1 DEF Accept, ParserTypeOK
        <4>3. operands' \in [{"dst", "src"} -> RegName \cup {NoReg}]
          BY <2>1, <3>1 DEF ParserTypeOK
        <4> QED
          BY <1>1, <4>1, <4>2, <4>3 DEF ParserTypeOK
      <3>5. at \in {2, 4} /\ at' = at + 1 /\ asked' = FALSE
        BY <1>2, <2>1, <3>1 DEF Accept
      <3>6. operands'[Script[at]] = r /\ \A o \in {"dst", "src"} \ {Script[at]} :
              operands'[o] = operands[o]
        BY <2>1, <3>1 DEF ParserTypeOK
      <3>7. ASSUME NEW i \in {at} PROVE Matches(i)'
        <4>1. /\ i = at /\ Script[i] \notin TokenKind /\ toks'[i] = tok /\ source' = source
              /\ operands'[Script[i]] = r
          BY <2>1, <2>2, <3>3, <3>6
        <4> QED
          BY <3>1, <4>1 DEF Matches, TokEnd
      <3>8. \A i \in 1 .. at - 1 : Matches(i)'
        <4> SUFFICES ASSUME NEW i \in 1 .. at - 1 PROVE Matches(i)'
          OBVIOUS
        <4>1. Matches(i) /\ toks'[i] = toks[i] /\ source' = source
          BY <2>2
        <4>2. CASE Script[i] \in TokenKind
          BY <4>1, <4>2 DEF Matches
        <4>3. CASE Script[i] \notin TokenKind
          <5>1. at = 4 /\ i = 2
            BY <3>5, <4>3
          <5>2. operands'[Script[i]] = operands[Script[i]]
            BY <3>6, <5>1
          <5> QED
            BY <4>1, <4>3, <5>2 DEF Matches, TokEnd
        <4> QED
          BY <4>2, <4>3
      <3> QED
        BY <1>2, <2>1, <2>2, <3>3, <3>4, <3>5, <3>7, <3>8
    <2> QED
      BY <2>3, <2>4
  <1> QED
    BY <1>3, <1>4, <1>5, <1>6 DEF ParserNext

LEMMA PInvStutter == ASSUME PInv, UNCHANGED parserVars PROVE PInv'
  <1>1. /\ UNCHANGED <<source, curr, prev, pc, start, tok, toks>>
        /\ UNCHANGED <<at, asked, failed, operands>>
    BY DEF parserVars, vars, parser
  <1>2. ParserTypeOK'
    BY <1>1 DEF PInv, ParserTypeOK, TypeOK
  <1> QED
    BY <1>1, <1>2 DEF PInv, Matches

\* The parser looks at each token once, in the order of its script.
THEOREM ParserInductive == ParserSpec => []PInv
  <1>1. PInv /\ IInv /\ [ParserNext]_parserVars => PInv'
    BY PInvStep, PInvStutter
  <1>2. ParserSpec => []IInv
    BY ParserIsAClient, Inductive, PTL
  <1> QED
    BY PInvInit, <1>1, <1>2, PTL DEF ParserSpec

\* Every variable of the parser keeps its type, and operands hold registers.
THEOREM ParserTypeCorrect == ParserSpec => []ParserTypeOK
  <1>1. PInv => ParserTypeOK
    BY DEF PInv
  <1> QED
    BY <1>1, ParserInductive, PTL

\* parse returns after exactly the six tokens of its script, and each operand is the register
\* its own token names.
THEOREM ParsedFromTokens == ParserSpec => []ParsedTokens
  <1>1. PInv => ParsedTokens
    BY ScriptFacts DEF PInv, ParsedTokens, parsed
  <1> QED
    BY <1>1, ParserInductive, PTL

\* Whatever the program, a mov that was parsed is accepted by encode(), and its bytes mean the
\* registers that were written.
THEOREM ParsedMovsAssemble == ParserSpec => []ParsedMovAssembles
  <1>1. PInv => ParsedMovAssembles
    <2> SUFFICES ASSUME PInv, parsed, NEW d, NEW s, d = operands["dst"], s = operands["src"]
                 PROVE  /\ validate_semantics(d, s)
                        /\ IsRex(encoding(d, s)[1])
                        /\ Decode(encoding(d, s)) = <<d, s>>
      BY DEF ParsedMovAssembles
    <2>1. Matches(2) /\ Matches(4)
      BY ScriptFacts DEF PInv, parsed
    <2>2. d \in Gpr64 /\ s \in Gpr64
      BY <2>1, ScriptFacts, RegNames DEF Matches
    <2>3. Width(d) = 64 /\ Width(s) = 64 /\ d \notin Segment
      BY <2>2, Widths
    <2>4. validate_semantics(d, s)
      BY <2>3 DEF validate_semantics, SameWidth
    <2>5. 6 \in rex_prefix(d, s) /\ rex_prefix(d, s) \cap {4, 5, 7} = {}
      <3>1. 6 \in rex_prefix(d, s)
        BY <2>3, RexPrefixBits
      <3>2. rex_prefix(d, s) \cap {4, 5, 7} = {}
        BY DEF rex_prefix, Rex, RexBits
      <3> QED
        BY <3>1, <3>2
    <2>6. {d, s} \cap LowByteOfPointer = {} /\ d \in RegName /\ s \in RegName
      BY <2>2 DEF LowByteOfPointer, Gpr64, RegName
    <2> QED
      BY <2>3, <2>4, <2>5, <2>6, RoundTrip DEF IsRex, encoding
  <1> QED
    BY <1>1, ParserInductive, PTL
-----------------------------------------------------------------------------
(* The program that was read.                                              *)

\* A register name is a word of the lexer.
LEMMA NamesAreWords ==
    ASSUME NEW l, NEW r, <<l, r>> \in regnames
    PROVE  /\ Len(l) \in {2, 3}
           /\ l = [i \in 1 .. Len(l) |-> l[i]]
           /\ is_ident_start(l[1])
           /\ \A i \in 1 .. Len(l) : is_ident_continue(l[i])
  <1> DEFINE Letters == {"a", "b", "c", "d", "i", "p", "s", "x", "0", "1", "2", "3", "4", "5",
                         "8", "9"}
  <1>1. \/ \E b \in Letters : l = <<"r", b>>
        \/ \E b, c \in Letters : l = <<"r", b, c>>
    BY DEF regnames
  <1>2. is_ident_start("r") /\ is_ident_continue("r") /\ \A b \in Letters : is_ident_continue(b)
    BY DEF is_ident_start, is_ident_continue, is_number
  <1> HIDE DEF Letters
  <1>3. CASE \E b \in Letters : l = <<"r", b>>
    <2>1. PICK b \in Letters : l = <<"r", b>>
      BY <1>3
    <2>2. Len(l) = 2 /\ l[1] = "r" /\ l[2] = b /\ l = [i \in 1 .. 2 |-> l[i]]
      BY <2>1
    <2> QED
      BY <1>2, <2>2
  <1>4. CASE \E b, c \in Letters : l = <<"r", b, c>>
    <2>1. PICK b \in Letters, c \in Letters : l = <<"r", b, c>>
      BY <1>4
    <2>2. Len(l) = 3 /\ l[1] = "r" /\ l[2] = b /\ l[3] = c /\ l = [i \in 1 .. 3 |-> l[i]]
      BY <2>1
    <2> QED
      BY <1>2, <2>2
  <1> QED
    BY <1>1, <1>3, <1>4

\* The text of a token, as source_substring builds it and as SubSeq does.
LEMMA PieceIsSubstring ==
    ASSUME TypeOK, NEW s \in Nat, NEW e \in Nat, s <= e, e <= Len(source)
    PROVE  /\ Piece(s, e) = source_substring(source, s, e)
           /\ Len(source_substring(source, s, e)) = e - s
  <1>1. source \in Seq(Chars) /\ Len(source) \in Nat
    BY SourceFacts
  <1>2. (s + 1 .. e) = {i \in Nat : s + 1 <= i /\ i <= e}
    OBVIOUS
  <1>3. Piece(s, e) = [i \in 1 .. (e - s) |-> source[s + i]]
    BY <1>1 DEF Piece
  <1>4. source_substring(source, s, e) \in Seq(Chars)
    BY <1>1, SourceFacts DEF source_substring
  <1> QED
    BY <1>3, <1>4 DEF source_substring

\* What next_token says is a sign is that sign, alone.
LEMMA SignToken ==
    ASSUME NEW src, NEW s, NEW e, NEW k, TokenOf(src, k, s, e),
           k \in {"LeftParen", "Comma", "RightParen", "SemiColon"}
    PROVE  e = s + 1 /\ k = OneCharKind(src[e]) /\ src[e] \in OneCharTokens
  BY Kinds DEF TokenOf

LEMMA SignsByKind ==
    ASSUME NEW c \in OneCharTokens
    PROVE  /\ OneCharKind(c) = "LeftParen" <=> c = "("
           /\ OneCharKind(c) = "Comma" <=> c = ","
           /\ OneCharKind(c) = "RightParen" <=> c = ")"
           /\ OneCharKind(c) = "SemiColon" <=> c = ";"
  BY DEF OneCharTokens, OneCharKind

\* What it takes to be in Written(e), and what it gives.
LEMMA WrittenIntro ==
    ASSUME TypeOK, NEW e \in 0 .. Len(source), NEW s \in Nat, NEW f \in Nat, NEW r,
           s <= f, f <= e, <<source_substring(source, s, f), r>> \in regnames
    PROVE  <<r, s, f>> \in Written(e)
  <1> DEFINE l == source_substring(source, s, f)
             y == << <<l, r>>, s>>
  <1>1. e \in Nat /\ e <= Len(source) /\ Len(source) \in Nat /\ f <= Len(source)
    BY SourceFacts
  <1>2. Len(l) = f - s /\ Piece(s, f) = l
    <2>1. /\ Piece(s, f) = source_substring(source, s, f)
          /\ Len(source_substring(source, s, f)) = f - s
      BY <1>1, PieceIsSubstring
    <2> QED
      BY <2>1
  <1>3. <<l, r>> \in regnames
    OBVIOUS
  <1> HIDE DEF l
  <1>4. s \in 0 .. e /\ s + Len(l) = f
    BY <1>1, <1>2
  <1>5. y \in {x \in regnames \X (0 .. e) :
                 x[2] + Len(x[1][1]) <= e /\ Piece(x[2], x[2] + Len(x[1][1])) = x[1][1]}
    BY <1>2, <1>3, <1>4
  <1>6. <<r, s, f>> = <<y[1][2], y[2], y[2] + Len(y[1][1])>>
    BY <1>4
  <1> QED
    BY <1>5, <1>6 DEF Written

LEMMA WrittenFacts ==
    ASSUME TypeOK, NEW e \in 0 .. Len(source), NEW n \in Written(e)
    PROVE  /\ n[2] \in Nat /\ n[3] \in Nat /\ n[2] < n[3] /\ n[3] <= e
           /\ is_ident_start(source[n[2] + 1])
           /\ \A j \in n[2] + 1 .. n[3] : is_ident_continue(source[j])
           /\ <<source_substring(source, n[2], n[3]), n[1]>> \in regnames
  <1>1. PICK y \in regnames \X (0 .. e) :
               /\ n = <<y[1][2], y[2], y[2] + Len(y[1][1])>>
               /\ y[2] + Len(y[1][1]) <= e /\ Piece(y[2], y[2] + Len(y[1][1])) = y[1][1]
    BY DEF Written
  <1>2. PICK s \in 0 .. e : \E l, r : <<l, r>> \in regnames /\ y = << <<l, r>>, s>>
    <2>1. \A x \in regnames : \E l, r : x = <<l, r>>
      BY DEF regnames
    <2>2. PICK x \in regnames, s \in 0 .. e : y = <<x, s>>
      OBVIOUS
    <2>3. PICK l, r : x = <<l, r>>
      BY <2>1
    <2>4. <<l, r>> \in regnames /\ y = << <<l, r>>, s>>
      BY <2>2, <2>3
    <2> QED
      BY <2>4
  <1>3. PICK l, r : <<l, r>> \in regnames /\ y = << <<l, r>>, s>>
    BY <1>2
  <1>4. /\ Len(l) \in {2, 3}
        /\ is_ident_start(l[1]) /\ \A i \in 1 .. Len(l) : is_ident_continue(l[i])
    BY <1>3, NamesAreWords
  <1>5. /\ n[1] = r /\ n[2] = s /\ n[3] = s + Len(l) /\ s + Len(l) <= e
        /\ Piece(s, s + Len(l)) = l
    BY <1>1, <1>3
  <1>6. s \in Nat /\ s + Len(l) \in Nat /\ s + Len(l) <= Len(source) /\ s < s + Len(l)
    BY <1>4, <1>5, SourceFacts
  <1>7. source_substring(source, s, s + Len(l)) = l
    BY <1>5, <1>6, PieceIsSubstring
  <1>8. \A i \in 1 .. Len(l) : l[i] = source[s + i]
    <2>1. (s + Len(l)) - s = Len(l)
      BY <1>4, <1>6
    <2>2. source_substring(source, s, s + Len(l)) = [i \in 1 .. Len(l) |-> source[s + i]]
      BY <2>1 DEF source_substring
    <2> QED
      BY <1>7, <2>2
  <1>9. ASSUME NEW j \in s + 1 .. s + Len(l) PROVE is_ident_continue(source[j])
    <2>1. j - s \in 1 .. Len(l) /\ s + (j - s) = j
      BY <1>4, <1>6
    <2> QED
      BY <2>1, <1>4, <1>8
  <1>10. is_ident_start(source[s + 1])
    BY <1>4, <1>8
  <1> QED
    BY <1>3, <1>5, <1>6, <1>7, <1>9, <1>10

\* A sign that lies between two offsets with nothing but blanks around it.
LEMMA AloneIntro ==
    ASSUME NEW c, NEW s \in Nat, NEW e \in Nat, NEW o \in Nat, s <= o, o + 1 <= e,
           source[o + 1] = c,
           \A j \in s + 1 .. o : is_whitespace(source[j]),
           \A j \in o + 2 .. e : is_whitespace(source[j])
    PROVE  Alone(c, s, e)
  <1>1. o + 1 \in s + 1 .. e
    OBVIOUS
  <1>2. \A j \in (s + 1 .. e) \ {o + 1} : is_whitespace(source[j])
    OBVIOUS
  <1> QED
    BY <1>1, <1>2 DEF Alone

AloneAt(c, s, e, o) ==
    /\ s <= o /\ o + 1 <= e
    /\ source[o + 1] = c
    /\ \A j \in s + 1 .. o : is_whitespace(source[j])
    /\ \A j \in o + 2 .. e : is_whitespace(source[j])

LEMMA AloneElim ==
    ASSUME NEW c, NEW s \in Nat, NEW e \in Nat, Alone(c, s, e)
    PROVE  \E o \in Nat : AloneAt(c, s, e, o)
  <1>1. PICK k \in s + 1 .. e :
           source[k] = c /\ \A j \in (s + 1 .. e) \ {k} : is_whitespace(source[j])
    BY DEF Alone
  <1>2. /\ k - 1 \in Nat /\ s <= k - 1 /\ (k - 1) + 1 = k /\ k <= e
        /\ \A j \in s + 1 .. k - 1 : j \in (s + 1 .. e) \ {k}
        /\ \A j \in (k - 1) + 2 .. e : j \in (s + 1 .. e) \ {k}
    OBVIOUS
  <1> QED
    BY <1>1, <1>2 DEF AloneAt

-----------------------------------------------------------------------------
(* A mov that is read, piece by piece.                                     *)

\* From s to e stands the i-th piece of mov(regs["dst"], regs["src"]);.
PieceOf(i, s, e, regs) ==
    IF Script[i] \in TokenKind
    THEN e = s + 1 /\ source[e] \in OneCharTokens /\ OneCharKind(source[e]) = Script[i]
    ELSE <<source_substring(source, s, e), regs[Script[i]]>> \in regnames

\* Where the i-th piece may begin.
From(i, f) == IF i = 1 THEN 0 ELSE f[i - 1]

\* The i-th piece lies from o[i] to f[i], with blanks before it.
LaidAt(i, o, f, regs) ==
    /\ o[i] \in Nat /\ f[i] \in Nat
    /\ From(i, f) <= o[i] /\ o[i] < f[i] /\ f[i] <= Len(source)
    /\ \A j \in From(i, f) + 1 .. o[i] : is_whitespace(source[j])
    /\ PieceOf(i, o[i], f[i], regs)

Laid(o, f, regs) == \A i \in 1 .. 6 : LaidAt(i, o, f, regs)

\* The pieces one by one: where they lie, the blanks before them, and what they are.
LEMMA LaidOffsets ==
    ASSUME NEW o, NEW f, NEW regs, Laid(o, f, regs)
    PROVE  /\ \A i \in 1 .. 6 : o[i] \in Nat /\ f[i] \in Nat /\ o[i] < f[i]
           /\ f[1] <= o[2] /\ f[2] <= o[3] /\ f[3] <= o[4] /\ f[4] <= o[5] /\ f[5] <= o[6]
           /\ f[1] = o[1] + 1 /\ f[3] = o[3] + 1 /\ f[5] = o[5] + 1 /\ f[6] = o[6] + 1
           /\ f[6] <= Len(source)
  <1>1. /\ LaidAt(1, o, f, regs) /\ LaidAt(2, o, f, regs) /\ LaidAt(3, o, f, regs)
        /\ LaidAt(4, o, f, regs) /\ LaidAt(5, o, f, regs) /\ LaidAt(6, o, f, regs)
    BY DEF Laid
  <1>2. \A i \in 1 .. 6 : o[i] \in Nat /\ f[i] \in Nat /\ o[i] < f[i]
    BY DEF Laid, LaidAt
  <1>3. f[1] <= o[2] /\ f[2] <= o[3] /\ f[3] <= o[4] /\ f[4] <= o[5] /\ f[5] <= o[6]
    BY <1>1 DEF LaidAt, From
  <1>4. f[1] = o[1] + 1 /\ f[3] = o[3] + 1 /\ f[5] = o[5] + 1 /\ f[6] = o[6] + 1
    BY <1>1, ScriptFacts DEF LaidAt, PieceOf
  <1>5. f[6] <= Len(source)
    BY <1>1 DEF LaidAt
  <1> QED
    BY <1>2, <1>3, <1>4, <1>5

LEMMA LaidBlanks ==
    ASSUME NEW o, NEW f, NEW regs, Laid(o, f, regs)
    PROVE  /\ \A j \in 1 .. o[1] : is_whitespace(source[j])
           /\ \A j \in f[1] + 1 .. o[2] : is_whitespace(source[j])
           /\ \A j \in f[2] + 1 .. o[3] : is_whitespace(source[j])
           /\ \A j \in f[3] + 1 .. o[4] : is_whitespace(source[j])
           /\ \A j \in f[4] + 1 .. o[5] : is_whitespace(source[j])
           /\ \A j \in f[5] + 1 .. o[6] : is_whitespace(source[j])
  <1>1. \A i \in 1 .. 6 : \A j \in From(i, f) + 1 .. o[i] : is_whitespace(source[j])
    BY DEF Laid, LaidAt
  <1>2. /\ From(1, f) + 1 = 1 /\ From(2, f) = f[1] /\ From(3, f) = f[2] /\ From(4, f) = f[3]
        /\ From(5, f) = f[4] /\ From(6, f) = f[5]
    BY DEF From
  <1>3. 1 \in 1 .. 6 /\ 2 \in 1 .. 6 /\ 3 \in 1 .. 6 /\ 4 \in 1 .. 6 /\ 5 \in 1 .. 6 /\ 6 \in 1 .. 6
    OBVIOUS
  <1> QED
    BY <1>1, <1>2, <1>3, Zenon

LEMMA LaidPieces ==
    ASSUME NEW o, NEW f, NEW regs, Laid(o, f, regs)
    PROVE  /\ source[f[1]] = "(" /\ source[f[3]] = ","
           /\ source[f[5]] = ")" /\ source[f[6]] = ";"
           /\ <<source_substring(source, o[2], f[2]), regs["dst"]>> \in regnames
           /\ <<source_substring(source, o[4], f[4]), regs["src"]>> \in regnames
  <1>1. \A i \in 1 .. 6 : PieceOf(i, o[i], f[i], regs)
    BY DEF Laid, LaidAt
  <1>2. ASSUME NEW i \in {1, 3, 5, 6}
        PROVE  source[f[i]] \in OneCharTokens /\ OneCharKind(source[f[i]]) = Script[i]
    BY <1>1, ScriptFacts DEF PieceOf
  <1>3. /\ source[f[1]] = "(" /\ source[f[3]] = ","
        /\ source[f[5]] = ")" /\ source[f[6]] = ";"
    BY <1>2, SignsByKind, ScriptFacts
  <1>4. /\ <<source_substring(source, o[2], f[2]), regs["dst"]>> \in regnames
        /\ <<source_substring(source, o[4], f[4]), regs["src"]>> \in regnames
    BY <1>1, ScriptFacts DEF PieceOf
  <1> QED
    BY <1>3, <1>4

LEMMA LaidReads ==
    ASSUME TypeOK, NEW o, NEW f, NEW regs, Laid(o, f, regs)
    PROVE  Reads(regs["dst"], regs["src"], f[6])
  <1>1. Len(source) \in Nat
    BY SourceFacts
  <1>2. \A i \in 1 .. 6 : o[i] \in Nat /\ f[i] \in Nat /\ o[i] < f[i]
    BY LaidOffsets
  <1>3. /\ f[1] <= o[2] /\ f[2] <= o[3] /\ f[3] <= o[4] /\ f[4] <= o[5] /\ f[5] <= o[6]
        /\ f[1] = o[1] + 1 /\ f[3] = o[3] + 1 /\ f[5] = o[5] + 1 /\ f[6] = o[6] + 1
        /\ f[6] <= Len(source)
    BY LaidOffsets
  <1>4. /\ o[1] \in Nat /\ o[2] \in Nat /\ o[3] \in Nat
        /\ o[4] \in Nat /\ o[5] \in Nat /\ o[6] \in Nat
    BY <1>2
  <1>5. /\ f[1] \in Nat /\ f[2] \in Nat /\ f[3] \in Nat
        /\ f[4] \in Nat /\ f[5] \in Nat /\ f[6] \in Nat
    BY <1>2
  <1>6. o[2] < f[2] /\ o[4] < f[4]
    BY <1>2
  <1>7. f[2] <= o[4]
    <2>1. f[2] <= o[3] /\ o[3] < f[3] /\ f[3] <= o[4]
      BY <1>2, <1>3
    <2>2. o[3] \in Nat /\ o[4] \in Nat /\ f[2] \in Nat /\ f[3] \in Nat
      BY <1>4, <1>5
    <2> QED
      BY <2>1, <2>2
  <1>8. /\ <<regs["dst"], o[2], f[2]>> \in Written(f[6])
        /\ <<regs["src"], o[4], f[4]>> \in Written(f[6])
    <2>1. f[6] \in 0 .. Len(source)
      BY <1>1, <1>3, <1>5
    <2>2. o[2] <= f[2] /\ o[4] <= f[4]
      BY <1>4, <1>5, <1>6
    <2>3. f[4] <= f[6]
      <3>1. f[4] <= o[5] /\ f[5] = o[5] + 1 /\ f[5] <= o[6] /\ f[6] = o[6] + 1
        BY <1>3
      <3>2. f[4] \in Nat /\ o[5] \in Nat /\ o[6] \in Nat
        BY <1>4, <1>5
      <3> QED
        BY <3>1, <3>2
    <2>4. f[2] <= f[4]
      BY <1>4, <1>5, <1>6, <1>7
    <2>5. f[2] <= f[6]
      BY <1>5, <2>3, <2>4
    <2> QED
      BY <1>4, <1>5, <2>1, <2>2, <2>3, <2>5, LaidPieces, WrittenIntro
  <1>9. Alone("(", 0, o[2])
    <2>1. 0 <= o[1] /\ o[1] + 1 <= o[2] /\ 0 + 1 = 1 /\ o[1] + 2 = f[1] + 1
      <3>1. f[1] = o[1] + 1 /\ f[1] <= o[2]
        BY <1>3
      <3>2. o[1] \in Nat /\ o[2] \in Nat
        BY <1>4
      <3> QED
        BY <3>1, <3>2
    <2>2. source[o[1] + 1] = "("
      BY <1>3, LaidPieces
    <2> QED
      BY <1>4, <2>1, <2>2, LaidBlanks, AloneIntro
  <1>10. Alone(",", f[2], o[4])
    <2>1. o[3] + 1 <= o[4] /\ o[3] + 2 = f[3] + 1
      <3>1. f[3] = o[3] + 1 /\ f[3] <= o[4]
        BY <1>3
      <3>2. o[3] \in Nat /\ o[4] \in Nat
        BY <1>4
      <3> QED
        BY <3>1, <3>2
    <2>2. source[o[3] + 1] = ","
      BY <1>3, LaidPieces
    <2> QED
      BY <1>3, <1>4, <1>5, <2>1, <2>2, LaidBlanks, AloneIntro
  <1>11. Alone(")", f[4], f[6] - 1)
    <2>1. o[5] + 1 <= o[6] /\ o[5] + 2 = f[5] + 1 /\ f[6] - 1 = o[6]
      <3>1. f[5] = o[5] + 1 /\ f[5] <= o[6] /\ f[6] = o[6] + 1
        BY <1>3
      <3>2. o[5] \in Nat /\ o[6] \in Nat
        BY <1>4
      <3> QED
        BY <3>1, <3>2
    <2>2. source[o[5] + 1] = ")"
      BY <1>3, LaidPieces
    <2> QED
      BY <1>3, <1>4, <1>5, <2>1, <2>2, LaidBlanks, AloneIntro
  <1> QED
    BY <1>7, <1>8, <1>9, <1>10, <1>11, LaidPieces DEF Reads

\* parse read what it says it read.
LEMMA ParsedLaid ==
    ASSUME IInv, PInv, Spelling, parsed
    PROVE  /\ Laid([i \in 1 .. 6 |-> toks[i].offset], [i \in 1 .. 6 |-> TokEnd(toks[i])],
                   operands)
           /\ curr = TokEnd(toks[6])
  <1> DEFINE o == [i \in 1 .. 6 |-> toks[i].offset]
             f == [i \in 1 .. 6 |-> TokEnd(toks[i])]
  <1>1. TypeOK /\ TokensTile
    BY DEF IInv
  <1>2. at = 7 /\ pc = "idle" /\ Len(toks) = 6 /\ tok.kind # "Eof"
    BY ScriptFacts DEF PInv, parsed
  <1>3. \A i \in 1 .. 6 : Matches(i)
    BY <1>2 DEF PInv
  <1>4. ASSUME NEW i \in 1 .. 6 PROVE LaidAt(i, o, f, operands)
    <2>1. toks[i].offset \in Nat /\ toks[i].len \in Nat
      BY <1>1, <1>2, SourceFacts
    <2>2. Placed(source, toks[i], IF i = 1 THEN 0 ELSE TokEnd(toks[i - 1]))
      BY <1>1, <1>2, TokensTileAlt
    <2>3. /\ TokenOf(source, toks[i].kind, toks[i].offset, TokEnd(toks[i]))
          /\ TokEnd(toks[i]) <= Len(source)
      BY <1>2 DEF Spelling
    <2>4. (IF i = 1 THEN 0 ELSE TokEnd(toks[i - 1])) = From(i, f)
      BY DEF From
    <2>5. o[i] = toks[i].offset /\ f[i] = TokEnd(toks[i])
      OBVIOUS
    <2>6. TokEnd(toks[i]) \in Nat /\ (toks[i].len > 0 => toks[i].offset < TokEnd(toks[i]))
      BY <2>1 DEF TokEnd
    <2>7. PieceOf(i, toks[i].offset, TokEnd(toks[i]), operands)
      <3>1. CASE Script[i] \in TokenKind
        <4>1. toks[i].kind = Script[i]
          BY <1>3, <3>1 DEF Matches
        <4>2. Script[i] \in {"LeftParen", "Comma", "RightParen", "SemiColon"}
          BY <3>1, ScriptFacts
        <4> QED
          BY <2>3, <3>1, <4>1, <4>2, SignToken DEF PieceOf
      <3>2. CASE Script[i] \notin TokenKind
        BY <1>3, <3>2 DEF Matches, PieceOf
      <3> QED
        BY <3>1, <3>2
    <2> HIDE DEF o, f
    <2> QED
      BY <2>1, <2>2, <2>3, <2>4, <2>5, <2>6, <2>7 DEF LaidAt, Placed
  <1>5. curr = TokEnd(toks[6])
    <2>1. Covered = curr
      BY <1>2 DEF Spelling
    <2>2. toks # << >>
      BY <1>2, EmptySeq
    <2> QED
      BY <1>2, <2>1, <2>2 DEF Covered
  <1> HIDE DEF o, f
  <1>6. Laid(o, f, operands)
    BY <1>4 DEF Laid
  <1> QED
    BY <1>5, <1>6 DEF o, f

\* A parse that returns read exactly the operands of a mov, whatever the program.
THEOREM ParsesWhatIsWritten == ParserSpec => []ParsedIsWritten
  <1>1. ASSUME IInv, PInv, Spelling PROVE ParsedIsWritten
    <2> SUFFICES ASSUME parsed PROVE Reads(operands["dst"], operands["src"], curr)
      BY DEF ParsedIsWritten
    <2> DEFINE o == [i \in 1 .. 6 |-> toks[i].offset]
               f == [i \in 1 .. 6 |-> TokEnd(toks[i])]
    <2>1. Laid(o, f, operands) /\ curr = f[6] /\ TypeOK
      BY <1>1, ParsedLaid DEF IInv
    <2> HIDE DEF o, f
    <2> QED
      BY <2>1, LaidReads
  <1>2. ParserSpec => []IInv /\ []Spelling
    BY ParserIsAClient, Inductive, TokensAreSpelled, PTL
  <1> QED
    BY <1>1, <1>2, ParserInductive, PTL

-----------------------------------------------------------------------------
(* A program that is refused.                                              *)

\* The token is not the one the script asks for.
Mismatch(i, t) ==
    IF Script[i] \in TokenKind
    THEN t.kind # Script[i]
    ELSE ~ \E r : <<source_substring(source, t.offset, TokEnd(t)), r>> \in regnames

\* The parser fails over the token it asked for.
RInv == failed => asked /\ pc = "idle" /\ Mismatch(at, tok)

LEMMA RInvStep == ASSUME PInv, RInv, ParserNext PROVE RInv'
  <1>1. CASE failed
    <2>1. asked /\ pc = "idle"
      BY <1>1 DEF RInv
    <2>2. ~ next_token
      BY <2>1 DEF next_token, EatBlank, EatDigit, EatIdent, Eat, ReturnEof, FirstChar, Stops,
                  ReturnOneChar, multi_char_token_kind, ReturnNumber, ReturnWord
    <2> QED
      BY <1>1, <2>1, <2>2 DEF ParserNext, Ask, Lex, consume_pnc, next_register, Answered
  <1>2. CASE ~ failed /\ ~ Refuse
    <2>1. failed' = failed
      BY <1>2 DEF ParserNext, Ask, Lex, consume_pnc, next_register, Accept, parser
    <2> QED
      BY <1>2, <2>1 DEF RInv
  <1>3. CASE consume_pnc /\ Refuse
    <2>1. Answered /\ Script[at] \in TokenKind /\ tok.kind # Script[at]
      BY <1>3 DEF consume_pnc, Accept, Refuse, Answered
    <2> QED
      BY <1>3, <2>1 DEF Refuse, Answered, vars, RInv, Mismatch
  <1>4. CASE next_register /\ Refuse
    <2>1. /\ Answered /\ Script[at] \in {"dst", "src"}
          /\ {r \in RegName : <<source_substring(source, tok.offset, tok.offset + tok.len), r>>
                              \in regnames} = {}
      BY <1>4 DEF next_register, Accept, Refuse, Answered
    <2>2. \A l, r : <<l, r>> \in regnames => r \in RegName
      BY RegNames DEF RegName
    <2>3. Mismatch(at, tok)
      BY <2>1, <2>2, ScriptFacts DEF Mismatch, TokEnd
    <2> QED
      BY <1>4, <2>1, <2>3 DEF Refuse, Answered, vars, RInv, Mismatch, TokEnd
  <1>5. CASE ~ failed /\ Refuse /\ (Ask \/ Lex)
    BY <1>5 DEF Ask, Lex, parser, Refuse
  <1> QED
    BY <1>1, <1>2, <1>3, <1>4, <1>5 DEF ParserNext

LEMMA RInvAlways == ParserSpec => []RInv
  <1>1. ParserInit => RInv
    BY DEF ParserInit, RInv
  <1>2. ASSUME RInv, UNCHANGED parserVars PROVE RInv'
    <2>1. UNCHANGED <<source, tok, pc>> /\ UNCHANGED <<at, asked, failed>>
      BY <1>2 DEF parserVars, vars, parser
    <2> QED
      BY <1>2, <2>1 DEF RInv, Mismatch, TokEnd
  <1> QED
    BY <1>1, <1>2, RInvStep, ParserInductive, PTL DEF ParserSpec

\* Where a mov is written, its pieces are laid.
LEMMA ReadsLaid ==
    ASSUME TypeOK, NEW d, NEW s, NEW e \in 1 .. Len(source), Reads(d, s, e)
    PROVE  \E o, f : Laid(o, f, [x \in {"dst", "src"} |-> IF x = "dst" THEN d ELSE s])
  <1>1. e \in Nat /\ e <= Len(source) /\ Len(source) \in Nat /\ e \in 0 .. Len(source)
        /\ e - 1 \in Nat /\ (e - 1) + 1 = e
    BY SourceFacts
  <1>2. source[e] = ";"
    BY DEF Reads
  <1>3. PICK first \in Written(e), second \in Written(e) :
          /\ first[1] = d /\ second[1] = s
          /\ first[3] <= second[2]
          /\ Alone("(", 0, first[2])
          /\ Alone(",", first[3], second[2])
          /\ Alone(")", second[3], e - 1)
    BY DEF Reads
  <1>4. /\ first[2] \in Nat /\ first[3] \in Nat /\ first[2] < first[3] /\ first[3] <= e
        /\ <<source_substring(source, first[2], first[3]), d>> \in regnames
    BY <1>1, <1>3, WrittenFacts
  <1>5. /\ second[2] \in Nat /\ second[3] \in Nat /\ second[2] < second[3] /\ second[3] <= e
        /\ <<source_substring(source, second[2], second[3]), s>> \in regnames
    BY <1>1, <1>3, WrittenFacts
  <1>6. PICK left \in Nat : AloneAt("(", 0, first[2], left)
    BY <1>3, <1>4, AloneElim
  <1>7. PICK comma \in Nat : AloneAt(",", first[3], second[2], comma)
    BY <1>3, <1>4, <1>5, AloneElim
  <1>8. PICK right \in Nat : AloneAt(")", second[3], e - 1, right)
    BY <1>1, <1>3, <1>5, AloneElim
  <1> DEFINE o == <<left, first[2], comma, second[2], right, e - 1>>
             f == <<left + 1, first[3], comma + 1, second[3], right + 1, e>>
             regs == [x \in {"dst", "src"} |-> IF x = "dst" THEN d ELSE s]
  <1>9. /\ o[1] = left /\ o[2] = first[2] /\ o[3] = comma
        /\ o[4] = second[2] /\ o[5] = right /\ o[6] = e - 1
        /\ f[1] = left + 1 /\ f[2] = first[3] /\ f[3] = comma + 1
        /\ f[4] = second[3] /\ f[5] = right + 1 /\ f[6] = e
    OBVIOUS
  <1>10. regs["dst"] = d /\ regs["src"] = s
    OBVIOUS
  <1> HIDE DEF o, f, regs
  <1>11. /\ From(1, f) = 0 /\ From(2, f) = f[1] /\ From(3, f) = f[2] /\ From(4, f) = f[3]
         /\ From(5, f) = f[4] /\ From(6, f) = f[5]
    BY DEF From
  <1>12. /\ OneCharKind("(") = "LeftParen" /\ OneCharKind(",") = "Comma"
         /\ OneCharKind(")") = "RightParen" /\ OneCharKind(";") = "SemiColon"
         /\ {"(", ",", ")", ";"} \subseteq OneCharTokens
    BY DEF OneCharKind, OneCharTokens
  <1>13. LaidAt(1, o, f, regs)
    <2>1. PieceOf(1, left, left + 1, regs)
      BY <1>6, <1>12, ScriptFacts DEF PieceOf, AloneAt
    <2>2. left + 1 \in Nat /\ left < left + 1 /\ left + 1 <= Len(source)
      BY <1>1, <1>4, <1>6 DEF AloneAt
    <2> QED
      BY <1>6, <1>9, <1>11, <2>1, <2>2 DEF LaidAt, AloneAt
  <1>14. LaidAt(2, o, f, regs)
    <2>1. PieceOf(2, first[2], first[3], regs)
      BY <1>4, <1>10, ScriptFacts DEF PieceOf, AloneAt
    <2>2. first[3] <= Len(source) /\ (left + 1) + 1 = left + 2
      BY <1>1, <1>4
    <2> QED
      BY <1>4, <1>6, <1>9, <1>11, <2>1, <2>2 DEF LaidAt, AloneAt
  <1>15. LaidAt(3, o, f, regs)
    <2>1. PieceOf(3, comma, comma + 1, regs)
      BY <1>7, <1>12, ScriptFacts DEF PieceOf, AloneAt
    <2>2. comma + 1 \in Nat /\ comma < comma + 1 /\ comma + 1 <= Len(source)
      <3>1. comma + 1 <= second[2] /\ second[2] < second[3] /\ second[3] <= e
        BY <1>5, <1>7 DEF AloneAt
      <3>2. comma \in Nat /\ second[2] \in Nat /\ second[3] \in Nat
        BY <1>5, <1>7 DEF AloneAt
      <3> QED
        BY <1>1, <3>1, <3>2
    <2> QED
      BY <1>7, <1>9, <1>11, <2>1, <2>2 DEF LaidAt, AloneAt
  <1>16. LaidAt(4, o, f, regs)
    <2>1. PieceOf(4, second[2], second[3], regs)
      BY <1>5, <1>10, ScriptFacts DEF PieceOf, AloneAt
    <2>2. second[3] <= Len(source) /\ (comma + 1) + 1 = comma + 2
      BY <1>1, <1>5
    <2> QED
      BY <1>5, <1>7, <1>9, <1>11, <2>1, <2>2 DEF LaidAt, AloneAt
  <1>17. LaidAt(5, o, f, regs)
    <2>1. PieceOf(5, right, right + 1, regs)
      BY <1>8, <1>12, ScriptFacts DEF PieceOf, AloneAt
    <2>2. right + 1 \in Nat /\ right < right + 1 /\ right + 1 <= Len(source)
      BY <1>1, <1>8 DEF AloneAt
    <2> QED
      BY <1>8, <1>9, <1>11, <2>1, <2>2 DEF LaidAt, AloneAt
  <1>18. LaidAt(6, o, f, regs)
    <2>1. PieceOf(6, e - 1, e, regs)
      BY <1>1, <1>2, <1>12, ScriptFacts DEF PieceOf, AloneAt
    <2>2. e - 1 < e /\ (right + 1) + 1 = right + 2
      BY <1>1
    <2> QED
      BY <1>1, <1>8, <1>9, <1>11, <2>1, <2>2 DEF LaidAt, AloneAt
  <1>19. Laid(o, f, regs)
    <2>1. \A i \in 1 .. 6 : i = 1 \/ i = 2 \/ i = 3 \/ i = 4 \/ i = 5 \/ i = 6
      OBVIOUS
    <2> QED
      BY <1>13, <1>14, <1>15, <1>16, <1>17, <1>18, <2>1 DEF Laid
  <1> QED
    BY <1>19 DEF regs

\* Two pieces of text that follow the same blanks begin at the same offset.
LEMMA SameStart ==
    ASSUME NEW from \in Nat, NEW a \in Nat, NEW b \in Nat, from <= a, from <= b,
           \A j \in from + 1 .. a : is_whitespace(source[j]),
           \A j \in from + 1 .. b : is_whitespace(source[j]),
           ~ is_whitespace(source[a + 1]), ~ is_whitespace(source[b + 1])
    PROVE  a = b
  <1>1. ~ a < b
    <2>1. a < b => a + 1 \in from + 1 .. b
      OBVIOUS
    <2> QED
      BY <2>1
  <1>2. ~ b < a
    <2>1. b < a => b + 1 \in from + 1 .. a
      OBVIOUS
    <2> QED
      BY <2>1
  <1> QED
    BY <1>1, <1>2

\* The operands of a mov are words, and no character after one continues it.
LEMMA PieceWord ==
    ASSUME TypeOK, NEW o, NEW f, NEW regs, Laid(o, f, regs), NEW i \in {2, 4}
    PROVE  /\ is_ident_start(source[o[i] + 1])
           /\ \A j \in o[i] + 1 .. f[i] : is_ident_continue(source[j])
           /\ ~ is_ident_continue(source[f[i] + 1])
  <1>1. /\ o[i] \in Nat /\ f[i] \in Nat /\ o[i] < f[i] /\ f[i] <= Len(source)
        /\ <<source_substring(source, o[i], f[i]), regs[Script[i]]>> \in regnames
    <2>1. LaidAt(i, o, f, regs) /\ Script[i] \notin TokenKind
      BY ScriptFacts DEF Laid
    <2> QED
      BY <2>1 DEF LaidAt, PieceOf
  <1> DEFINE l == source_substring(source, o[i], f[i])
  <1>2. Len(l) = f[i] - o[i]
    <2>1. Len(source_substring(source, o[i], f[i])) = f[i] - o[i]
      <3>1. o[i] <= f[i]
        BY <1>1
      <3> QED
        BY <1>1, <3>1, PieceIsSubstring
    <2> QED
      BY <2>1
  <1>3. \A j \in 1 .. f[i] - o[i] : l[j] = source[o[i] + j]
    BY DEF source_substring
  <1>4. <<l, regs[Script[i]]>> \in regnames
    BY <1>1
  <1> HIDE DEF l
  <1>5. is_ident_start(l[1]) /\ \A j \in 1 .. Len(l) : is_ident_continue(l[j])
    BY <1>4, NamesAreWords
  <1>6. is_ident_start(source[o[i] + 1])
    <2>1. 1 \in 1 .. f[i] - o[i]
      BY <1>1
    <2> QED
      BY <1>3, <1>5, <2>1
  <1>7. ASSUME NEW j \in o[i] + 1 .. f[i] PROVE is_ident_continue(source[j])
    <2>1. j - o[i] \in 1 .. f[i] - o[i] /\ o[i] + (j - o[i]) = j
      BY <1>1
    <2> QED
      BY <1>2, <1>3, <1>5, <2>1
  <1>8. ~ is_ident_continue(source[f[i] + 1])
    <2>1. PICK n \in Nat : /\ f[i] <= n /\ source[n + 1] \in {",", ")"}
                           /\ \A j \in f[i] + 1 .. n : is_whitespace(source[j])
      <3>1. CASE i = 2
        <4>1. o[3] \in Nat /\ f[2] <= o[3] /\ o[3] + 1 = f[3]
          BY LaidOffsets
        <4>2. source[o[3] + 1] = "," /\ \A j \in f[2] + 1 .. o[3] : is_whitespace(source[j])
          BY <4>1, LaidPieces, LaidBlanks
        <4> QED
          BY <3>1, <4>1, <4>2
      <3>2. CASE i = 4
        <4>1. o[5] \in Nat /\ f[4] <= o[5] /\ o[5] + 1 = f[5]
          BY LaidOffsets
        <4>2. source[o[5] + 1] = ")" /\ \A j \in f[4] + 1 .. o[5] : is_whitespace(source[j])
          BY <4>1, LaidPieces, LaidBlanks
        <4> QED
          BY <3>2, <4>1, <4>2
      <3> QED
        BY <3>1, <3>2
    <2>2. CASE f[i] = n
      BY <2>1, <2>2 DEF is_ident_continue, is_ident_start, is_number
    <2>3. CASE f[i] < n
      <3>1. f[i] \in Nat /\ n \in Nat
        BY <1>1
      <3>2. f[i] + 1 \in f[i] + 1 .. n
        BY <2>3, <3>1
      <3> QED
        BY <2>1, <3>2, CharClasses
    <2>4. f[i] = n \/ f[i] < n
      <3>1. f[i] \in Nat /\ n \in Nat /\ f[i] <= n
        BY <1>1, <2>1
      <3> QED
        BY <3>1
    <2> QED
      BY <2>2, <2>3, <2>4
  <1> QED
    BY <1>6, <1>7, <1>8

\* Every piece begins with a character a token may begin with.
LEMMA PieceStarts ==
    ASSUME TypeOK, NEW o, NEW f, NEW regs, Laid(o, f, regs), NEW i \in 1 .. 6
    PROVE  ~ is_whitespace(source[o[i] + 1]) /\ ~ StartsNothing(source[o[i] + 1])
  <1>1. CASE i \in {2, 4}
    BY <1>1, PieceWord, CharClasses DEF StartsNothing
  <1>2. CASE i \in {1, 3, 5, 6}
    <2>1. source[o[i] + 1] \in OneCharTokens
      BY <1>2, ScriptFacts DEF Laid, LaidAt, PieceOf
    <2> QED
      BY <2>1, CharClasses DEF StartsNothing
  <1> QED
    BY <1>1, <1>2

\* The token that follows where the i-th piece may begin is the i-th piece.
LEMMA TokenIsPiece ==
    ASSUME TypeOK, NEW o, NEW f, NEW regs, Laid(o, f, regs), NEW i \in 1 .. 6,
           NEW t \in Token, TokEnd(t) <= Len(source), From(i, f) \in Nat,
           Placed(source, t, From(i, f)), TokenOf(source, t.kind, t.offset, TokEnd(t))
    PROVE  TokEnd(t) = f[i] /\ ~ Mismatch(i, t)
  <1> DEFINE s == t.offset
             e == TokEnd(t)
  <1>1. s \in Nat /\ e \in Nat /\ s < e /\ e <= Len(source) /\ Len(source) \in Nat
    BY SourceFacts DEF Token, TokEnd, Placed
  <1>2. LaidAt(i, o, f, regs)
    BY DEF Laid
  <1>3. o[i] \in Nat /\ f[i] \in Nat /\ o[i] < f[i] /\ f[i] <= Len(source)
    BY <1>2 DEF LaidAt
  <1>4. s = o[i]
    <2>1. ~ is_whitespace(source[s + 1])
      <3>1. s + 1 \in s + 1 .. e
        BY <1>1
      <3> QED
        BY <3>1 DEF Placed
    <2>2. /\ From(i, f) <= o[i] /\ From(i, f) <= s
          /\ \A j \in From(i, f) + 1 .. o[i] : is_whitespace(source[j])
          /\ \A j \in From(i, f) + 1 .. s : is_whitespace(source[j])
      BY <1>2 DEF LaidAt, Placed
    <2>3. ~ is_whitespace(source[o[i] + 1])
      BY PieceStarts
    <2> HIDE DEF s
    <2> QED
      BY <1>1, <1>3, <2>1, <2>2, <2>3, SameStart
  <1>5. TokenOf(source, t.kind, s, e)
    OBVIOUS
  <1>6. CASE i \in {1, 3, 5, 6}
    <2>1. /\ f[i] = s + 1 /\ source[s + 1] \in OneCharTokens
          /\ OneCharKind(source[s + 1]) = Script[i] /\ Script[i] \in TokenKind
      BY <1>2, <1>4, <1>6, ScriptFacts DEF LaidAt, PieceOf
    <2>2. s + 1 \in s + 1 .. e
      BY <1>1
    <2>3. ~ is_number(source[s + 1]) /\ ~ is_ident_start(source[s + 1])
      BY <2>1, CharClasses
    <2>4. e = s + 1 /\ t.kind = OneCharKind(source[e])
      BY <1>5, <2>2, <2>3 DEF TokenOf
    <2> QED
      BY <2>1, <2>4 DEF Mismatch
  <1>7. CASE i \in {2, 4}
    <2>1. /\ is_ident_start(source[s + 1])
          /\ \A j \in s + 1 .. f[i] : is_ident_continue(source[j])
          /\ ~ is_ident_continue(source[f[i] + 1])
      BY <1>4, <1>7, PieceWord
    <2>2. s + 1 \in s + 1 .. e
      BY <1>1
    <2>3. source[s + 1] \notin OneCharTokens /\ ~ is_number(source[s + 1])
      BY <2>1, CharClasses
    <2>4. /\ \A j \in s + 1 .. e : is_ident_continue(source[j])
          /\ e < Len(source) => ~ is_ident_continue(source[e + 1])
      BY <1>5, <2>2, <2>3 DEF TokenOf
    <2>5. ~ e < f[i]
      <3>1. e < f[i] => e + 1 \in s + 1 .. f[i] /\ e < Len(source)
        BY <1>1, <1>3
      <3> QED
        BY <2>1, <2>4, <3>1
    <2>6. ~ f[i] < e
      <3>1. f[i] < e => f[i] + 1 \in s + 1 .. e
        BY <1>1, <1>3, <1>4
      <3> QED
        BY <2>1, <2>4, <3>1
    <2>7. e = f[i]
      BY <1>1, <1>3, <2>5, <2>6
    <2>8. /\ Script[i] \notin TokenKind
          /\ <<source_substring(source, o[i], f[i]), regs[Script[i]]>> \in regnames
      BY <1>2, <1>7, ScriptFacts DEF LaidAt, PieceOf
    <2> QED
      BY <1>4, <2>7, <2>8 DEF Mismatch
  <1> QED
    BY <1>6, <1>7

\* As far as the tokens go, they are the pieces of the mov.
LEMMA TokensArePieces ==
    ASSUME IInv, Spelling, NEW o, NEW f, NEW regs, Laid(o, f, regs),
           NEW i \in 1 .. 6, i <= Len(toks)
    PROVE  TokEnd(toks[i]) = f[i] /\ ~ Mismatch(i, toks[i])
  <1>1. TypeOK /\ TokensTile /\ Len(toks) \in Nat
    BY SourceFacts DEF IInv
  <1>2. ASSUME NEW k \in 1 .. 6, k <= Len(toks), k = 1 \/ TokEnd(toks[k - 1]) = f[k - 1]
        PROVE  TokEnd(toks[k]) = f[k] /\ ~ Mismatch(k, toks[k])
    <2>1. k \in 1 .. Len(toks)
      BY <1>1, <1>2
    <2>2. toks[k] \in Token
      BY <1>1, <2>1, SourceFacts
    <2>3. /\ TokenOf(source, toks[k].kind, toks[k].offset, TokEnd(toks[k]))
          /\ TokEnd(toks[k]) <= Len(source)
      BY <2>1 DEF Spelling
    <2>4. Placed(source, toks[k], From(k, f))
      <3>1. Placed(source, toks[k], IF k = 1 THEN 0 ELSE TokEnd(toks[k - 1]))
        BY <1>1, <2>1, TokensTileAlt
      <3>2. (IF k = 1 THEN 0 ELSE TokEnd(toks[k - 1])) = From(k, f)
        BY <1>2 DEF From
      <3> QED
        BY <3>1, <3>2
    <2>5. From(k, f) \in Nat
      <3>1. k # 1 => k - 1 \in 1 .. 6
        OBVIOUS
      <3> QED
        BY <3>1, LaidOffsets DEF From
    <2> QED
      BY <1>1, <2>2, <2>3, <2>4, <2>5, TokenIsPiece
  <1>3. 1 <= Len(toks) => TokEnd(toks[1]) = f[1] /\ ~ Mismatch(1, toks[1])
    BY <1>2
  <1>4. 2 <= Len(toks) => TokEnd(toks[2]) = f[2] /\ ~ Mismatch(2, toks[2])
    BY <1>1, <1>2, <1>3
  <1>5. 3 <= Len(toks) => TokEnd(toks[3]) = f[3] /\ ~ Mismatch(3, toks[3])
    BY <1>1, <1>2, <1>4
  <1>6. 4 <= Len(toks) => TokEnd(toks[4]) = f[4] /\ ~ Mismatch(4, toks[4])
    BY <1>1, <1>2, <1>5
  <1>7. 5 <= Len(toks) => TokEnd(toks[5]) = f[5] /\ ~ Mismatch(5, toks[5])
    BY <1>1, <1>2, <1>6
  <1>8. 6 <= Len(toks) => TokEnd(toks[6]) = f[6] /\ ~ Mismatch(6, toks[6])
    BY <1>1, <1>2, <1>7
  <1>9. i = 1 \/ i = 2 \/ i = 3 \/ i = 4 \/ i = 5 \/ i = 6
    OBVIOUS
  <1> QED
    BY <1>3, <1>4, <1>5, <1>6, <1>7, <1>8, <1>9

\* When i - 1 tokens were returned, only blanks separate the one in the making, or the end
\* of the source, from the i-th piece.
LEMMA PieceIsNext ==
    ASSUME IInv, Spelling, NEW o, NEW f, NEW regs, Laid(o, f, regs),
           NEW i \in 1 .. 6, Len(toks) = i - 1
    PROVE  /\ From(i, f) \in Nat /\ From(i, f) <= Pending
           /\ \A j \in From(i, f) + 1 .. Pending : is_whitespace(source[j])
  <1>1. TypeOK /\ TokensTile
    BY DEF IInv
  <1>2. Covered = From(i, f)
    <2>1. CASE i = 1
      BY <2>1, SourceFacts, EmptySeq, <1>1 DEF Covered, From
    <2>2. CASE i # 1
      <3>1. i - 1 \in 1 .. 6 /\ i - 1 <= Len(toks) /\ Len(toks) # 0
        BY <2>2
      <3>2. TokEnd(toks[i - 1]) = f[i - 1]
        BY <3>1, TokensArePieces
      <3>3. toks # << >>
        BY <3>1, EmptySeq
      <3> QED
        BY <2>2, <3>2, <3>3 DEF Covered, From
    <2> QED
      BY <2>1, <2>2
  <1>3. From(i, f) \in Nat
    BY LaidOffsets DEF From
  <1> QED
    BY <1>1, <1>2, <1>3 DEF TokensTile

\* In a state where the parser or its lexer has given up, no mov is laid in the source.
LEMMA RefusedReadsNothing ==
    ASSUME IInv, Spelling, PInv, RInv, failed \/ pc = "abort",
           NEW o, NEW f, NEW regs, Laid(o, f, regs)
    PROVE  FALSE
  <1>1. TypeOK /\ Making /\ Len(source) \in Nat /\ curr \in Nat /\ start \in Nat
    BY SourceFacts DEF IInv
  <1>2. asked /\ at \in 1 .. 6
    <2>1. asked
      BY DEF PInv, RInv
    <2> QED
      BY <2>1, ScriptFacts DEF PInv, ParserTypeOK
  <1>3. LaidAt(at, o, f, regs)
    BY <1>2 DEF Laid
  <1>4. /\ o[at] \in Nat /\ From(at, f) <= o[at] /\ o[at] + 1 <= Len(source)
        /\ \A j \in From(at, f) + 1 .. o[at] : is_whitespace(source[j])
        /\ ~ is_whitespace(source[o[at] + 1]) /\ ~ StartsNothing(source[o[at] + 1])
    <2>1. /\ o[at] \in Nat /\ f[at] \in Nat /\ From(at, f) <= o[at] /\ o[at] < f[at]
          /\ f[at] <= Len(source)
          /\ \A j \in From(at, f) + 1 .. o[at] : is_whitespace(source[j])
      BY <1>3 DEF LaidAt
    <2>2. o[at] + 1 <= Len(source)
      BY <1>1, <2>1
    <2>3. ~ is_whitespace(source[o[at] + 1]) /\ ~ StartsNothing(source[o[at] + 1])
      BY <1>1, <1>2, PieceStarts
    <2> QED
      BY <2>1, <2>2, <2>3
  <1>5. CASE pc = "abort"
    <2>1. Len(toks) = at - 1
      BY <1>2, <1>5 DEF PInv
    <2>2. /\ From(at, f) \in Nat /\ From(at, f) <= start
          /\ \A j \in From(at, f) + 1 .. start : is_whitespace(source[j])
      BY <1>2, <1>5, <2>1, PieceIsNext DEF Pending
    <2>3. StartsNothing(source[start + 1]) /\ ~ is_whitespace(source[start + 1])
      BY <1>1, <1>5 DEF Making
    <2>4. start = o[at]
      BY <1>1, <1>4, <2>2, <2>3, SameStart
    <2> QED
      BY <1>4, <2>3, <2>4
  <1>6. CASE failed
    <2>1. pc = "idle" /\ Mismatch(at, tok)
      BY <1>6 DEF RInv
    <2>2. CASE tok.kind # "Eof" /\ Len(toks) = at /\ toks[at] = tok
      <3>1. at <= Len(toks)
        BY <1>2, <2>2
      <3> QED
        BY <1>2, <2>1, <2>2, <3>1, TokensArePieces
    <2>3. CASE tok = EofToken /\ Len(toks) = at - 1
      <3>1. curr >= Len(source)
        BY <1>1, <2>3 DEF Making, eof, EofToken, gen
      <3>2. /\ From(at, f) \in Nat
            /\ \A j \in From(at, f) + 1 .. curr : is_whitespace(source[j])
        BY <1>2, <2>1, <2>3, PieceIsNext DEF Pending
      <3>3. o[at] + 1 \in From(at, f) + 1 .. curr
        BY <1>1, <1>4, <3>1, <3>2
      <3> QED
        BY <1>4, <3>2, <3>3
    <2> QED
      BY <1>2, <2>1, <2>2, <2>3 DEF PInv
  <1> QED
    BY <1>5, <1>6

\* A program is only refused when it does not start with the operands of a mov, whatever
\* the program: neither the parser nor its lexer gives up on one that does.
THEOREM RefusesNoMov == ParserSpec => []RefusedIsWrong
  <1>1. ASSUME IInv, Spelling, PInv, RInv PROVE RefusedIsWrong
    <2> SUFFICES ASSUME failed \/ pc = "abort",
                        NEW e \in 1 .. Len(source), NEW n \in Written(e), NEW m \in Written(e),
                        Reads(n[1], m[1], e)
                 PROVE  FALSE
      BY DEF RefusedIsWrong
    <2>1. TypeOK
      BY <1>1 DEF IInv
    <2>2. PICK o, f : Laid(o, f, [x \in {"dst", "src"} |-> IF x = "dst" THEN n[1] ELSE m[1]])
      BY <2>1, ReadsLaid
    <2> QED
      BY <1>1, <2>2, RefusedReadsNothing
  <1>2. ParserSpec => []IInv /\ []Spelling
    BY ParserIsAClient, Inductive, TokensAreSpelled, PTL
  <1> QED
    BY <1>1, <1>2, ParserInductive, RInvAlways, PTL
=============================================================================
