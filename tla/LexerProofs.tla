----------------------------- MODULE LexerProofs ----------------------------
(***************************************************************************)
(* Proofs about Lexer, for every set of programs: its tokens tile the      *)
(* source, are as long as possible, and are those of TokenSpec.            *)
(***************************************************************************)
EXTENDS Lexer, SequenceTheorems, TLAPS

\* The character classes next_token tells apart do not overlap.
LEMMA CharClasses ==
    ASSUME NEW c
    PROVE  /\ is_number(c) => ~ is_whitespace(c) /\ c \notin OneCharTokens
           /\ is_ident_start(c) => ~ is_whitespace(c) /\ c \notin OneCharTokens
           /\ is_ident_start(c) => is_ident_continue(c) /\ ~ is_number(c)
           /\ is_ident_continue(c) => ~ is_whitespace(c)
           /\ c \in OneCharTokens => ~ is_whitespace(c)
  BY DEF is_number, is_ident_start, is_ident_continue, is_whitespace, OneCharTokens

LEMMA Kinds ==
    /\ \A c \in OneCharTokens :
          OneCharKind(c) \in TokenKind \ {"Invalid", "Eof", "Fn", "Number", "Identifier"}
    /\ \A w : KeywordOrIdentifier(w) \in {"Fn", "Identifier"}
  BY DEF OneCharTokens, OneCharKind, KeywordOrIdentifier, TokenKind

-----------------------------------------------------------------------------
(* What is known of the token in the making.                               *)

Making ==
    /\ pc \in {"dispatch", "number", "ident", "abort"} =>
          /\ start < curr
          /\ ~ is_whitespace(source[start + 1])
    /\ pc = "dispatch" => curr = start + 1 /\ prev = source[curr]
    /\ pc = "number" => \A i \in start + 1 .. curr : is_number(source[i])
    /\ pc = "ident" =>
          /\ is_ident_start(source[start + 1])
          /\ \A i \in start + 1 .. curr : is_ident_continue(source[i])
    /\ pc = "abort" => StartsNothing(source[start + 1])
    /\ tok.kind = "Eof" => tok = EofToken /\ eof /\ pc \in {"idle", "blanks"}

IInv == TypeOK /\ Making /\ TokensTile /\ LongestMatch

LEMMA SourceFacts ==
    ASSUME TypeOK
    PROVE  /\ source \in Seq(Chars)
           /\ Len(source) \in Nat
           /\ curr \in Nat /\ start \in Nat
           /\ \A i \in 1 .. Len(source) : source[i] \in Chars
           /\ toks \in Seq(Token) /\ Len(toks) \in Nat
           /\ \A i \in 1 .. Len(toks) : toks[i] \in Token
           /\ \A i \in 1 .. Len(toks) :
                toks[i].offset \in Nat /\ toks[i].len \in Nat /\ toks[i].kind \in TokenKind
  <1>1. source \in Seq(Chars)
    BY SourcesAssumption DEF TypeOK
  <1>2. Len(source) \in Nat /\ \A i \in 1 .. Len(source) : source[i] \in Chars
    BY <1>1, LenProperties, ElementOfSeq
  <1>3. toks \in Seq(Token) /\ Len(toks) \in Nat /\ \A i \in 1 .. Len(toks) : toks[i] \in Token
    BY LenProperties, ElementOfSeq DEF TypeOK
  <1> QED
    BY <1>1, <1>2, <1>3 DEF TypeOK, Token

\* What Return(k) adds to the history of tokens.
LEMMA ReturnFacts ==
    ASSUME TypeOK, NEW k \in TokenKind, Return(k), start < curr
    PROVE  /\ tok' = gen(k, start, curr - start) /\ tok' \in Token
           /\ tok'.kind = k /\ tok'.offset = start /\ tok'.len = curr - start
           /\ toks' \in Seq(Token)
           /\ Len(toks') = Len(toks) + 1
           /\ \A i \in 1 .. Len(toks) : toks'[i] = toks[i]
           /\ toks'[Len(toks) + 1] = tok'
           /\ toks' # << >>
           /\ Covered' = curr
  <1>1. /\ tok' = gen(k, start, curr - start) /\ tok' \in Token
        /\ tok'.kind = k /\ tok'.offset = start /\ tok'.len = curr - start
    BY SourceFacts DEF Return, gen, Token
  <1>2. /\ toks' = Append(toks, tok') /\ toks \in Seq(Token)
    BY SourceFacts DEF Return
  <1>3. /\ toks' \in Seq(Token) /\ Len(toks') = Len(toks) + 1
        /\ \A i \in 1 .. Len(toks) : toks'[i] = toks[i]
        /\ toks'[Len(toks) + 1] = tok'
    BY <1>1, <1>2, AppendProperties
  <1>4. toks' # << >>
    BY <1>2, <1>1, AppendProperties
  <1>5. Covered' = TokEnd(toks'[Len(toks')])
    BY <1>4 DEF Covered, TokEnd
  <1>6. TokEnd(tok') = curr
    BY <1>1, SourceFacts DEF TokEnd
  <1> QED
    BY <1>1, <1>3, <1>4, <1>5, <1>6

-----------------------------------------------------------------------------
(* IInv is inductive.                                                      *)

LEMMA InitIInv == Init => IInv
  <1> SUFFICES ASSUME Init PROVE IInv
    OBVIOUS
  <1>1. source \in Seq(Chars)
    BY SourcesAssumption DEF Init
  <1>2. Len(source) \in Nat
    BY <1>1, LenProperties
  <1>3. tok \in Token /\ tok.kind = "Invalid"
    BY DEF Init, gen, Token, TokenKind
  <1>4. toks \in Seq(Token) /\ Len(toks) = 0
    BY EmptySeq DEF Init
  <1>5. TypeOK
    <2>1. source \in Sources /\ curr = 0 /\ start = 0 /\ pc \in PC
      BY DEF Init, PC
    <2>2. prev \in Chars
      BY SourcesAssumption DEF Init
    <2> QED
      BY <1>2, <1>3, <1>4, <2>1, <2>2 DEF TypeOK
  <1>6. Making
    BY <1>3 DEF Init, Making
  <1>7. TokensTile /\ LongestMatch
    <2>1. Covered = 0 /\ Pending = 0
      BY DEF Init, Covered, Pending
    <2>2. (1 .. Len(toks)) = {} /\ (0 + 1 .. 0) = {}
      BY <1>4
    <2> QED
      BY <2>1, <2>2 DEF TokensTile, LongestMatch
  <1> QED
    BY <1>5, <1>6, <1>7 DEF IInv

LEMMA TypeStep == ASSUME IInv, Next PROVE TypeOK'
  <1> USE DEF IInv
  <1>1. CASE Call
    BY <1>1 DEF Call, TypeOK, PC, cursor
  <1>2. CASE EatBlank \/ EatDigit \/ EatIdent
    BY <1>2, SourceFacts DEF EatBlank, EatDigit, EatIdent, Eat, next_char, eof, TypeOK
  <1>3. CASE ReturnEof
    BY <1>3 DEF ReturnEof, TypeOK, PC, cursor, EofToken, gen, Token, TokenKind
  <1>4. CASE FirstChar
    BY <1>4, SourceFacts DEF FirstChar, next_char, eof, TypeOK, PC
  <1>5. CASE ReturnOneChar
    <2>1. OneCharKind(prev) \in TokenKind /\ Return(OneCharKind(prev)) /\ start < curr
      BY <1>5, Kinds, SourceFacts DEF ReturnOneChar, Making
    <2> QED
      BY <2>1, ReturnFacts DEF Return, TypeOK, PC, cursor
  <1>6. CASE multi_char_token_kind
    BY <1>6 DEF multi_char_token_kind, TypeOK, PC, cursor
  <1>7. CASE ReturnNumber
    <2>1. "Number" \in TokenKind /\ Return("Number") /\ start < curr
      BY <1>7 DEF ReturnNumber, Stops, Making, TokenKind
    <2> QED
      BY <2>1, ReturnFacts DEF Return, TypeOK, PC, cursor
  <1>8. CASE ReturnWord
    <2> DEFINE k == KeywordOrIdentifier(source_substring(source, start, curr))
    <2>1. k \in TokenKind /\ Return(k) /\ start < curr
      BY <1>8, Kinds DEF ReturnWord, Stops, Making, TokenKind
    <2> HIDE DEF k
    <2> QED
      BY <2>1, ReturnFacts DEF Return, TypeOK, PC, cursor
  <1> QED
    BY <1>1, <1>2, <1>3, <1>4, <1>5, <1>6, <1>7, <1>8 DEF Next, next_token

LEMMA MakingStep == ASSUME IInv, Next PROVE Making'
  <1> USE DEF IInv
  <1>0. TypeOK'
    BY TypeStep
  <1>1. CASE Call
    BY <1>1 DEF Call, Making, cursor, eof
  <1>2. CASE EatBlank
    BY <1>2, SourceFacts DEF EatBlank, Eat, next_char, eof, Making
  <1>3. CASE EatDigit
    BY <1>3, SourceFacts DEF EatDigit, Eat, next_char, eof, Making
  <1>4. CASE EatIdent
    BY <1>4, SourceFacts DEF EatIdent, Eat, next_char, eof, Making
  <1>5. CASE ReturnEof
    BY <1>5 DEF ReturnEof, Making, cursor, eof
  <1>6. CASE FirstChar
    BY <1>6, SourceFacts DEF FirstChar, Stops, next_char, eof, Making
  <1>7. CASE ReturnOneChar
    <2>1. OneCharKind(prev) \in TokenKind \ {"Eof"} /\ Return(OneCharKind(prev)) /\ start < curr
      BY <1>7, Kinds, SourceFacts DEF ReturnOneChar, Making
    <2> QED
      BY <2>1, ReturnFacts DEF Return, Making
  <1>8. CASE multi_char_token_kind
    <2>1. curr = start + 1 /\ prev = source[start + 1] /\ start < curr
      BY <1>8 DEF multi_char_token_kind, Making
    <2>2. \A i \in start + 1 .. curr : i = start + 1
      BY <2>1, SourceFacts
    <2>3. is_ident_start(prev) => is_ident_continue(prev)
      BY CharClasses
    <2> QED
      BY <1>8, <2>1, <2>2, <2>3, SourceFacts DEF multi_char_token_kind, Making, cursor, eof
  <1>9. CASE ReturnNumber
    <2>1. "Number" \in TokenKind /\ Return("Number") /\ start < curr
      BY <1>9 DEF ReturnNumber, Stops, Making, TokenKind
    <2> QED
      BY <2>1, ReturnFacts DEF Return, Making
  <1>10. CASE ReturnWord
    <2> DEFINE k == KeywordOrIdentifier(source_substring(source, start, curr))
    <2>1. k \in TokenKind /\ k # "Eof" /\ Return(k) /\ start < curr
      BY <1>10, Kinds DEF ReturnWord, Stops, Making, TokenKind
    <2> HIDE DEF k
    <2> QED
      BY <2>1, ReturnFacts DEF Return, Making
  <1> QED
    BY <1>1, <1>2, <1>3, <1>4, <1>5, <1>6, <1>7, <1>8, <1>9, <1>10 DEF Next, next_token

\* What a returned token is made of: its kind, and where it stops.
ReturnStep(k) ==
    /\ k \in TokenKind \ {"Invalid", "Eof"}
    /\ Return(k)
    /\ start < curr
    /\ pc \in {"dispatch", "number", "ident"}
    /\ \A j \in start + 1 .. curr : ~ is_whitespace(source[j])
    /\ curr < Len(source) =>
          /\ k = "Number" => ~ is_number(source[curr + 1])
          /\ k \in {"Fn", "Identifier"} => ~ is_ident_continue(source[curr + 1])

LEMMA ReturnSteps ==
    ASSUME IInv, ReturnOneChar \/ ReturnNumber \/ ReturnWord
    PROVE  \E k \in TokenKind : ReturnStep(k)
  <1> USE DEF IInv
  <1>1. CASE ReturnOneChar
    <2>1. /\ prev \in OneCharTokens /\ Return(OneCharKind(prev))
          /\ curr = start + 1 /\ prev = source[curr] /\ start < curr /\ pc = "dispatch"
      BY <1>1 DEF ReturnOneChar, Making
    <2>2. \A j \in start + 1 .. curr : ~ is_whitespace(source[j])
      BY <2>1, CharClasses, SourceFacts
    <2> QED
      BY <2>1, <2>2, Kinds DEF ReturnStep
  <1>2. CASE ReturnNumber
    <2>1. /\ Return("Number") /\ start < curr /\ pc = "number"
          /\ \A j \in start + 1 .. curr : is_number(source[j])
      BY <1>2 DEF ReturnNumber, Stops, Making
    <2>2. \A j \in start + 1 .. curr : ~ is_whitespace(source[j])
      BY <2>1, CharClasses
    <2>3. curr < Len(source) => ~ is_number(source[curr + 1])
      BY <1>2, SourceFacts DEF ReturnNumber, Stops, eof
    <2> QED
      BY <2>1, <2>2, <2>3 DEF ReturnStep, TokenKind
  <1>3. CASE ReturnWord
    <2> DEFINE k == KeywordOrIdentifier(source_substring(source, start, curr))
    <2>1. /\ Return(k) /\ start < curr /\ pc = "ident"
          /\ \A j \in start + 1 .. curr : is_ident_continue(source[j])
      BY <1>3 DEF ReturnWord, Stops, Making
    <2>2. \A j \in start + 1 .. curr : ~ is_whitespace(source[j])
      BY <2>1, CharClasses
    <2>3. curr < Len(source) => ~ is_ident_continue(source[curr + 1])
      BY <1>3, SourceFacts DEF ReturnWord, Stops, eof
    <2>4. k \in {"Fn", "Identifier"}
      BY Kinds
    <2> HIDE DEF k
    <2> QED
      BY <2>1, <2>2, <2>3, <2>4 DEF ReturnStep, TokenKind
  <1> QED
    BY <1>1, <1>2, <1>3

\* Every other step leaves the tokens alone, and the source is never written.
LEMMA OtherSteps ==
    ASSUME Next
    PROVE  /\ source' = source
           /\ \/ toks' = toks
              \/ ReturnOneChar \/ ReturnNumber \/ ReturnWord
  BY DEF Next, next_token, Call, EatBlank, EatDigit, EatIdent, Eat, ReturnEof, FirstChar,
         ReturnOneChar, multi_char_token_kind, ReturnNumber, ReturnWord, Return,
         next_char, cursor

\* The clause of TokensTile about one token, in terms of where the one before it ends.
Placed(src, t, from) ==
    /\ t.len > 0
    /\ \A j \in t.offset + 1 .. TokEnd(t) : ~ is_whitespace(src[j])
    /\ from <= t.offset
    /\ \A j \in from + 1 .. t.offset : is_whitespace(src[j])

LEMMA TokensTileAlt ==
    TokensTile <=>
      /\ \A i \in 1 .. Len(toks) : Placed(source, toks[i], IF i = 1 THEN 0 ELSE TokEnd(toks[i - 1]))
      /\ Covered <= Pending
      /\ \A j \in Covered + 1 .. Pending : is_whitespace(source[j])
  BY DEF TokensTile, Placed

LEMMA TileStep == ASSUME IInv, Next PROVE TokensTile'
  <1> USE DEF IInv
  <1>1. source' = source
    BY OtherSteps
  <1>2. CASE ReturnOneChar \/ ReturnNumber \/ ReturnWord
    <2>1. PICK k \in TokenKind : ReturnStep(k)
      BY <1>2, ReturnSteps
    <2>2. Return(k) /\ start < curr
      BY <2>1 DEF ReturnStep
    <2>3. /\ toks' # << >> /\ Len(toks') = Len(toks) + 1
          /\ \A i \in 1 .. Len(toks) : toks'[i] = toks[i]
          /\ toks'[Len(toks) + 1].offset = start
          /\ toks'[Len(toks) + 1].len = curr - start
          /\ Covered' = curr
      BY <2>2, ReturnFacts
    <2>4. Pending' = curr
      BY <2>2 DEF Return, Pending, cursor
    <2>5. Pending = start
      BY <2>1 DEF ReturnStep, Pending
    <2>6. Covered = IF Len(toks) = 0 THEN 0 ELSE TokEnd(toks[Len(toks)])
      BY SourceFacts, EmptySeq DEF Covered
    <2>7. ASSUME NEW i \in 1 .. Len(toks')
          PROVE  Placed(source', toks'[i], IF i = 1 THEN 0 ELSE TokEnd(toks'[i - 1]))
      <3>1. CASE i \in 1 .. Len(toks)
        <4>1. Placed(source, toks[i], IF i = 1 THEN 0 ELSE TokEnd(toks[i - 1]))
          BY <3>1, TokensTileAlt
        <4>2. toks'[i] = toks[i] /\ (i # 1 => toks'[i - 1] = toks[i - 1])
          BY <3>1, <2>3, SourceFacts
        <4> QED
          BY <4>1, <4>2, <1>1 DEF Placed, TokEnd
      <3>2. CASE i = Len(toks) + 1
        <4>1. toks'[i].offset = start /\ toks'[i].len = curr - start
          BY <3>2, <2>3
        <4>2. TokEnd(toks'[i]) = curr
          BY <4>1, SourceFacts DEF TokEnd
        <4>3. (IF i = 1 THEN 0 ELSE TokEnd(toks'[i - 1])) = Covered
          BY <3>2, <2>3, <2>6, SourceFacts
        <4>4. /\ Covered <= start
              /\ \A j \in Covered + 1 .. start : is_whitespace(source[j])
          BY <2>5, TokensTileAlt
        <4> QED
          BY <4>1, <4>2, <4>3, <4>4, <2>1, <1>1, SourceFacts DEF Placed, ReturnStep
      <3> QED
        BY <3>1, <3>2, <2>3, SourceFacts
    <2> QED
      BY <2>3, <2>4, <2>7, SourceFacts DEF TokensTile, Placed
  <1>3. CASE toks' = toks /\ ~ (ReturnOneChar \/ ReturnNumber \/ ReturnWord)
    <2>1. Covered' = Covered
      BY <1>3 DEF Covered, TokEnd
    <2>2. \/ Pending' = Pending
          \/ Pending' = Pending + 1 /\ is_whitespace(source[Pending + 1])
      <3>1. CASE EatBlank
        BY <3>1 DEF EatBlank, Eat, next_char, Pending
      <3>2. CASE Call \/ ReturnEof \/ multi_char_token_kind
        BY <3>2 DEF Call, ReturnEof, multi_char_token_kind, Pending, cursor
      <3>3. CASE FirstChar
        BY <3>3 DEF FirstChar, Stops, next_char, Pending
      <3>4. CASE EatDigit \/ EatIdent
        BY <3>4 DEF EatDigit, EatIdent, Eat, next_char, Pending
      <3> QED
        BY <1>3, <3>1, <3>2, <3>3, <3>4 DEF Next, next_token
    <2>3. Covered <= Pending /\ \A j \in Covered + 1 .. Pending : is_whitespace(source[j])
      BY TokensTileAlt
    <2>4. Pending \in Nat /\ Covered \in Nat
      BY SourceFacts, EmptySeq DEF Pending, Covered, TokEnd
    <2>5. Covered' <= Pending' /\ \A j \in Covered' + 1 .. Pending' : is_whitespace(source[j])
      BY <2>1, <2>2, <2>3, <2>4
    <2> QED
      BY <1>1, <1>3, <2>5 DEF TokensTile, TokEnd
  <1> QED
    BY <1>2, <1>3, OtherSteps

LEMMA LongestStep == ASSUME IInv, Next PROVE LongestMatch'
  <1> USE DEF IInv
  <1>1. source' = source
    BY OtherSteps
  <1>2. CASE toks' = toks
    BY <1>1, <1>2 DEF LongestMatch, TokEnd
  <1>3. CASE ReturnOneChar \/ ReturnNumber \/ ReturnWord
    <2>1. PICK k \in TokenKind : ReturnStep(k)
      BY <1>3, ReturnSteps
    <2>2. Return(k) /\ start < curr
      BY <2>1 DEF ReturnStep
    <2>3. /\ Len(toks') = Len(toks) + 1
          /\ \A i \in 1 .. Len(toks) : toks'[i] = toks[i]
          /\ toks'[Len(toks) + 1].kind = k
          /\ TokEnd(toks'[Len(toks) + 1]) = curr
      BY <2>2, ReturnFacts, SourceFacts DEF TokEnd
    <2>4. ASSUME NEW i \in 1 .. Len(toks'), TokEnd(toks'[i]) < Len(source)
          PROVE  LET next == source[TokEnd(toks'[i]) + 1]
                 IN  /\ toks'[i].kind = "Number" => ~ is_number(next)
                     /\ toks'[i].kind \in {"Fn", "Identifier"} => ~ is_ident_continue(next)
      <3>1. CASE i \in 1 .. Len(toks)
        BY <3>1, <2>3, <2>4 DEF LongestMatch
      <3>2. CASE i = Len(toks) + 1
        BY <3>2, <2>1, <2>3, <2>4 DEF ReturnStep
      <3> QED
        BY <3>1, <3>2, <2>3, SourceFacts
    <2> QED
      BY <1>1, <2>4 DEF LongestMatch, TokEnd
  <1> QED
    BY <1>2, <1>3, OtherSteps

LEMMA StutterIInv == ASSUME IInv, UNCHANGED vars PROVE IInv'
  BY DEF vars, IInv, TypeOK, Making, TokensTile, LongestMatch, Covered, Pending, TokEnd, eof

\* The cursor, the token in the making and the tokens returned stay consistent.
THEOREM Inductive == Spec => []IInv
  <1>1. IInv /\ [Next]_vars => IInv'
    BY TypeStep, MakingStep, TileStep, LongestStep, StutterIInv DEF IInv
  <1> QED
    BY InitIInv, <1>1, PTL DEF Spec

\* Every variable of the lexer keeps its type: the cursor never leaves the source.
THEOREM TypeCorrect == Spec => []TypeOK
  <1>1. IInv => TypeOK
    BY DEF IInv
  <1> QED
    BY <1>1, Inductive, PTL

\* next_token loses no character of the program and reads none twice, for every program.
THEOREM TokensTileTheSource == Spec => []TokensTile
  <1>1. IInv => TokensTile
    BY DEF IInv
  <1> QED
    BY <1>1, Inductive, PTL

\* No number and no word is cut short, for every program.
THEOREM TokensAreLongest == Spec => []LongestMatch
  <1>1. IInv => LongestMatch
    BY DEF IInv
  <1> QED
    BY <1>1, Inductive, PTL

\* A client may go on calling next_token after Eof: it gets Eof, and nothing else changes.
THEOREM EofStays == Spec => EofIsFinal
  <1>1. ASSUME IInv, [Next]_vars, tok.kind = "Eof"
        PROVE  tok' = EofToken /\ toks' = toks /\ pc' # "abort"
    <2>1. tok = EofToken /\ eof /\ pc \in {"idle", "blanks"}
      BY <1>1 DEF IInv, Making
    <2>2. CASE UNCHANGED vars
      BY <2>1, <2>2 DEF vars
    <2>3. CASE Next
      BY <2>1, <2>3 DEF Next, next_token, Call, EatBlank, EatDigit, EatIdent, Eat, ReturnEof,
         FirstChar, ReturnOneChar, multi_char_token_kind, ReturnNumber, ReturnWord, Stops,
         next_char
    <2> QED
      BY <1>1, <2>2, <2>3
  <1>2. IInv /\ [Next]_vars =>
           [tok.kind = "Eof" => tok' = EofToken /\ toks' = toks /\ pc' # "abort"]_vars
    BY <1>1
  <1> QED
    BY <1>2, Inductive, PTL DEF Spec, EofIsFinal

-----------------------------------------------------------------------------
(* What the tokens spell.                                                  *)

\* The characters from s to e are a token of kind k, and no longer one starts at s.
TokenOf(src, k, s, e) ==
    \/ e = s + 1 /\ src[e] \in OneCharTokens /\ k = OneCharKind(src[e])
    \/ /\ \A i \in s + 1 .. e : is_number(src[i])
       /\ e < Len(src) => ~ is_number(src[e + 1])
       /\ k = "Number"
    \/ /\ is_ident_start(src[s + 1])
       /\ \A i \in s + 1 .. e : is_ident_continue(src[i])
       /\ e < Len(src) => ~ is_ident_continue(src[e + 1])
       /\ k = KeywordOrIdentifier(source_substring(src, s, e))

LEMMA SpellingSteps ==
    ASSUME IInv, ReturnOneChar \/ ReturnNumber \/ ReturnWord
    PROVE  \E k \in TokenKind : ReturnStep(k) /\ TokenOf(source, k, start, curr)
  <1> USE DEF IInv
  <1>1. CASE ReturnOneChar
    <2>1. /\ prev \in OneCharTokens /\ Return(OneCharKind(prev))
          /\ curr = start + 1 /\ prev = source[curr] /\ start < curr /\ pc = "dispatch"
      BY <1>1 DEF ReturnOneChar, Making
    <2>2. ReturnStep(OneCharKind(prev))
      <3>1. \A j \in start + 1 .. curr : ~ is_whitespace(source[j])
        BY <2>1, CharClasses, SourceFacts
      <3> QED
        BY <2>1, <3>1, Kinds DEF ReturnStep
    <2> QED
      BY <2>1, <2>2, Kinds DEF TokenOf
  <1>2. CASE ReturnNumber
    <2>1. /\ Return("Number") /\ start < curr /\ pc = "number"
          /\ \A j \in start + 1 .. curr : is_number(source[j])
          /\ curr < Len(source) => ~ is_number(source[curr + 1])
      BY <1>2, SourceFacts DEF ReturnNumber, Stops, Making, eof
    <2>2. ReturnStep("Number")
      BY <2>1, CharClasses DEF ReturnStep, TokenKind
    <2> QED
      BY <2>1, <2>2 DEF TokenOf, TokenKind
  <1>3. CASE ReturnWord
    <2> DEFINE k == KeywordOrIdentifier(source_substring(source, start, curr))
    <2>1. /\ Return(k) /\ start < curr /\ pc = "ident"
          /\ is_ident_start(source[start + 1])
          /\ \A j \in start + 1 .. curr : is_ident_continue(source[j])
          /\ curr < Len(source) => ~ is_ident_continue(source[curr + 1])
      BY <1>3, SourceFacts DEF ReturnWord, Stops, Making, eof
    <2>2. TokenOf(source, k, start, curr)
      BY <2>1 DEF TokenOf
    <2>3. k \in {"Fn", "Identifier"}
      BY Kinds
    <2> HIDE DEF k
    <2>4. ReturnStep(k)
      BY <2>1, <2>3, CharClasses DEF ReturnStep, TokenKind
    <2> QED
      BY <2>2, <2>3, <2>4 DEF TokenKind
  <1> QED
    BY <1>1, <1>2, <1>3

\* Every token is one of the language and lies in the source, and after each the cursor
\* stands behind it.
Spelling ==
    /\ \A i \in 1 .. Len(toks) :
          /\ TokenOf(source, toks[i].kind, toks[i].offset, TokEnd(toks[i]))
          /\ TokEnd(toks[i]) <= Len(source)
    /\ pc = "idle" /\ tok.kind # "Eof" => Covered = curr

LEMMA SpellingStep == ASSUME IInv, Spelling, Next PROVE Spelling'
  <1>1. source' = source /\ Len(toks) \in Nat
    BY OtherSteps, SourceFacts DEF IInv
  <1>2. CASE ReturnOneChar \/ ReturnNumber \/ ReturnWord
    <2>1. PICK k \in TokenKind : ReturnStep(k) /\ TokenOf(source, k, start, curr)
      BY <1>2, SpellingSteps
    <2>2. Return(k) /\ start < curr /\ TypeOK
      BY <2>1 DEF ReturnStep, IInv
    <2>3. /\ tok'.kind = k /\ tok'.offset = start /\ tok'.len = curr - start
          /\ Len(toks') = Len(toks) + 1 /\ toks'[Len(toks) + 1] = tok'
          /\ \A i \in 1 .. Len(toks) : toks'[i] = toks[i]
          /\ Covered' = curr /\ curr' = curr
      BY <2>2, ReturnFacts DEF Return, cursor
    <2>4. tok'.offset + tok'.len = curr
      BY <2>2, <2>3, SourceFacts
    <2>5. ASSUME NEW i \in 1 .. Len(toks')
          PROVE  /\ TokenOf(source, toks'[i].kind, toks'[i].offset, TokEnd(toks'[i]))
                 /\ TokEnd(toks'[i]) <= Len(source)
      <3>1. CASE i \in 1 .. Len(toks)
        BY <2>3, <3>1 DEF Spelling
      <3>2. CASE i = Len(toks) + 1
        BY <2>1, <2>2, <2>3, <2>4, <3>2 DEF TokEnd, TypeOK
      <3> QED
        BY <1>1, <2>3, <3>1, <3>2
    <2> QED
      BY <1>1, <2>3, <2>5 DEF Spelling, TokEnd
  <1>3. CASE ~ (ReturnOneChar \/ ReturnNumber \/ ReturnWord)
    <2>1. toks' = toks
      BY <1>3, OtherSteps
    <2>2. pc' = "idle" => tok'.kind = "Eof"
      BY <1>3 DEF Next, next_token, Call, EatBlank, EatDigit, EatIdent, Eat, ReturnEof, FirstChar,
                  multi_char_token_kind, EofToken, gen
    <2> QED
      BY <1>1, <2>1, <2>2 DEF Spelling, TokEnd
  <1> QED
    BY <1>2, <1>3

\* The tokens spell what they say they are, for every program.
THEOREM TokensAreSpelled == Spec => []Spelling
  <1>1. ASSUME Init PROVE Spelling
    <2>1. Len(toks) = 0 /\ Covered = 0 /\ curr = 0
      BY <1>1, EmptySeq DEF Init, Covered
    <2> QED
      BY <2>1 DEF Spelling
  <1>2. IInv /\ Spelling /\ UNCHANGED vars => Spelling'
    BY DEF vars, Spelling, Covered, TokEnd
  <1> QED
    BY <1>1, <1>2, SpellingStep, Inductive, PTL DEF Spec

-----------------------------------------------------------------------------
(* Lexer implements TokenSpec.                                             *)

\* The two specifications speak of the same characters, tokens and keywords.
LEMMA SameChars ==
    /\ \A c : TS!is_number(c) <=> is_number(c)
    /\ \A c : TS!is_ident_start(c) <=> is_ident_start(c)
    /\ \A c : TS!is_ident_continue(c) <=> is_ident_continue(c)
    /\ \A c : TS!is_whitespace(c) <=> is_whitespace(c)
    /\ \A c : TS!StartsNothing(c) <=> StartsNothing(c)
    /\ \A c : TS!OneCharKind(c) = OneCharKind(c)
    /\ TS!OneCharTokens = OneCharTokens /\ TS!TokenKind = TokenKind
    /\ \A s, e : TS!KeywordOrIdentifier(TS!source_substring(source, s, e)) =
                 KeywordOrIdentifier(source_substring(source, s, e))
    /\ \A k, o, l : TS!gen(k, o, l) = gen(k, o, l)
  <1>1. \A c : TS!is_number(c) <=> is_number(c)
    BY DEF TS!is_number, is_number
  <1>2. \A c : TS!is_ident_start(c) <=> is_ident_start(c)
    BY DEF TS!is_ident_start, is_ident_start
  <1>3. \A c : TS!is_ident_continue(c) <=> is_ident_continue(c)
    BY <1>1, <1>2 DEF TS!is_ident_continue, is_ident_continue
  <1>4. \A c : TS!is_whitespace(c) <=> is_whitespace(c)
    BY DEF TS!is_whitespace, is_whitespace
  <1>5. TS!OneCharTokens = OneCharTokens /\ TS!TokenKind = TokenKind
    BY DEF TS!OneCharTokens, OneCharTokens, TS!TokenKind, TokenKind
  <1>6. \A c : TS!StartsNothing(c) <=> StartsNothing(c)
    BY <1>1, <1>2, <1>4, <1>5 DEF TS!StartsNothing, StartsNothing
  <1>7. \A c : TS!OneCharKind(c) = OneCharKind(c)
    BY DEF TS!OneCharKind, OneCharKind
  <1>8. \A s, e : TS!KeywordOrIdentifier(TS!source_substring(source, s, e)) =
                 KeywordOrIdentifier(source_substring(source, s, e))
    BY DEF TS!KeywordOrIdentifier, KeywordOrIdentifier, TS!source_substring, source_substring
  <1>9. \A k, o, l : TS!gen(k, o, l) = gen(k, o, l)
    BY DEF TS!gen, gen
  <1> QED
    BY <1>1, <1>2, <1>3, <1>4, <1>5, <1>6, <1>7, <1>8, <1>9

LEMMA SameTokens == \A k, s, e : TS!TokenAt(k, s, e) <=> TokenOf(source, k, s, e)
  BY SameChars DEF TS!TokenAt, TS!IsOneChar, TS!IsNumber, TS!IsWord, TokenOf

LEMMA MappedInit == Init => TS!Init
  <1> SUFFICES ASSUME Init PROVE TS!Init
    OBVIOUS
  <1>1. tok.kind = "Invalid" /\ pc = "idle"
    BY DEF Init, gen
  <1>2. Outcome = "running"
    BY <1>1 DEF Outcome
  <1> QED
    BY <1>2 DEF Init, TS!Init

LEMMA MappedEmit ==
    ASSUME IInv, ReturnOneChar \/ ReturnNumber \/ ReturnWord
    PROVE  TS!Emit
  <1> USE DEF IInv
  <1>1. PICK k \in TokenKind : ReturnStep(k) /\ TS!TokenAt(k, start, curr)
    BY SpellingSteps, SameTokens
  <1>2. Return(k) /\ start < curr /\ pc \in {"dispatch", "number", "ident"} /\ k # "Eof"
    BY <1>1 DEF ReturnStep
  <1>3. toks' = Append(toks, gen(k, start, curr - start)) /\ tok'.kind = k
    BY <1>2, ReturnFacts DEF Return
  <1>4. Outcome = "running" /\ Outcome' = "running" /\ source' = source
    <2>1. tok.kind # "Eof" /\ pc # "abort"
      BY <1>2 DEF Making
    <2> QED
      BY <1>2, <1>3, <2>1 DEF Outcome, Return, cursor
  <1>5. TS!End = Covered
    BY DEF TS!End, Covered, TokEnd
  <1>6. Pending = start
    BY <1>2 DEF Pending
  <1>7. Covered <= start /\ TS!Blank(TS!End, start)
    BY <1>5, <1>6, TokensTileAlt, SameChars DEF TS!Blank
  <1>8. Covered \in Nat
    BY SourceFacts, EmptySeq DEF Covered, TokEnd
  <1>9. curr <= Len(source)
    BY DEF TypeOK
  <1>10. start \in TS!End .. Len(source) /\ curr \in TS!End .. Len(source)
    BY <1>2, <1>5, <1>7, <1>8, <1>9, SourceFacts
  <1> QED
    BY <1>1, <1>2, <1>3, <1>4, <1>7, <1>10, SameChars DEF TS!Emit

LEMMA MappedStep == ASSUME IInv, [Next]_vars PROVE [TS!Next]_(TS!vars)
  <1> USE DEF IInv
  <1>1. CASE UNCHANGED vars
    BY <1>1 DEF vars, TS!vars, Outcome
  <1>2. CASE ReturnOneChar \/ ReturnNumber \/ ReturnWord
    BY <1>2, MappedEmit DEF TS!Next
  <1>3. CASE Call \/ EatBlank \/ EatDigit \/ EatIdent \/ FirstChar
    <2>1. source' = source /\ toks' = toks /\ tok' = tok /\ pc' # "abort" /\ pc # "abort"
      BY <1>3 DEF Call, EatBlank, EatDigit, EatIdent, Eat, FirstChar, Stops, next_char, cursor
    <2> QED
      BY <2>1 DEF TS!vars, Outcome
  <1>4. CASE ReturnEof
    <2>1. /\ source' = source /\ toks' = toks /\ Outcome' = "eof"
          /\ pc = "blanks" /\ eof
      BY <1>4 DEF ReturnEof, Outcome, cursor, EofToken, gen
    <2>2. CASE tok.kind = "Eof"
      BY <2>1, <2>2 DEF Outcome, TS!vars
    <2>3. CASE tok.kind # "Eof"
      <3>1. Outcome = "running"
        BY <2>1, <2>3 DEF Outcome
      <3>2. Pending = Len(source)
        BY <2>1, SourceFacts DEF Pending, eof, TypeOK
      <3>3. TS!Blank(TS!End, Len(source))
        BY <3>2, TokensTileAlt, SameChars DEF TS!Blank, TS!End, Covered, TokEnd
      <3> QED
        BY <2>1, <3>1, <3>3 DEF TS!Next, TS!Finish
    <2> QED
      BY <2>2, <2>3
  <1>5. CASE multi_char_token_kind
    <2>1. /\ source' = source /\ toks' = toks /\ tok' = tok /\ pc = "dispatch"
          /\ curr = start + 1 /\ prev = source[start + 1] /\ tok.kind # "Eof"
      BY <1>5 DEF multi_char_token_kind, Making, cursor
    <2>2. CASE pc' # "abort"
      BY <2>1, <2>2 DEF Outcome, TS!vars
    <2>3. CASE pc' = "abort"
      <3>1. StartsNothing(source[start + 1])
        BY <2>1, <2>3, <1>5 DEF multi_char_token_kind
      <3>2. Outcome = "running" /\ Outcome' = "abort"
        BY <2>1, <2>3 DEF Outcome
      <3>3. TS!End = Covered /\ Pending = start
        BY <2>1 DEF TS!End, Covered, TokEnd, Pending
      <3>4. TS!Blank(TS!End, start) /\ TS!End <= start
        BY <3>3, TokensTileAlt, SameChars DEF TS!Blank
      <3>5. TS!End \in Nat
        BY <3>3, SourceFacts, EmptySeq DEF Covered, TokEnd
      <3>6. start \in TS!End .. Len(source) - 1
        BY <2>1, <3>4, <3>5, SourceFacts DEF TypeOK
      <3> QED
        BY <2>1, <3>1, <3>2, <3>4, <3>6, SameChars DEF TS!Next, TS!Reject
    <2> QED
      BY <2>2, <2>3
  <1> QED
    BY <1>1, <1>2, <1>3, <1>4, <1>5 DEF Next, next_token

\* next_token is the abstract tokenizer: every program is cut into the tokens TokenSpec
\* allows, or refused at the character TokenSpec refuses.
THEOREM LexerImplementsTokenSpec == Spec => Tokenizes
  <1>1. IInv /\ [Next]_vars => [TS!Next]_(TS!vars)
    BY MappedStep
  <1> QED
    BY MappedInit, <1>1, Inductive, PTL DEF Spec, Tokenizes, TS!Spec
=============================================================================
