---------------------------- MODULE AsmCcProofs -----------------------------
(***************************************************************************)
(* Proofs about AsmCcLexer and AsmCcParser, for every set of programs.     *)
(* Of the lexer, for every order of next_token and peek_token: the queue   *)
(* holds one token at most, the stack is bounded by the lines read, and    *)
(* what is handed out is what AsmCcSpec promises.  Of the parser: it       *)
(* returns empty functions only, with the first instruction it stands, and *)
(* it refuses nothing that begins as a function does.                      *)
(***************************************************************************)
EXTENDS AsmCcParser, SequenceTheorems, FiniteSetTheorems, TLAPS

-----------------------------------------------------------------------------
(* Blanks and comments, in terms of a text that no step changes.           *)

InC(src, s, e) ==
    \E j \in s + 1 .. e : is_comment_start(src[j]) /\ \A l \in j .. e : src[l] # "\n"

GapOf(src, s, e) == \A i \in s + 1 .. e : is_whitespace(src[i]) \/ InC(src, s, i)

\* The characters from s to e are a longest token of kind k.
TokenOf(src, k, s, e) ==
    \/ e = s + 1 /\ src[e] \in PunctuationChars /\ k = PunctuationKind(src[e])
    \/ /\ is_decimal_digit_start(src[s + 1])
       /\ \A i \in s + 2 .. e : is_decimal_digit(src[i])
       /\ e < Len(src) => ~ is_decimal_digit(src[e + 1])
       /\ k = "Number"
    \/ /\ is_identifier_start(src[s + 1])
       /\ \A i \in s + 1 .. e : can_continue_identifier(src[i])
       /\ e < Len(src) => ~ can_continue_identifier(src[e + 1])
       /\ k = WordKind(substring(src, s, e))

EndOf(g) == IF g = << >> THEN 0 ELSE g[Len(g)].offset + g[Len(g)].len

\* The character classes of AsmCcSpec are those of the lexer.
LEMMA SpecChars ==
    /\ \A c : AS!is_comment_start(c) <=> is_comment_start(c)
    /\ \A c : AS!is_whitespace(c) <=> is_whitespace(c)
    /\ \A c : AS!is_decimal_digit(c) <=> is_decimal_digit(c)
    /\ \A c : AS!is_decimal_digit_start(c) <=> is_decimal_digit_start(c)
    /\ \A c : AS!is_identifier_start(c) <=> is_identifier_start(c)
    /\ \A c : AS!can_continue_identifier(c) <=> can_continue_identifier(c)
    /\ \A c : AS!Unknown(c) <=> Unknown(c)
    /\ AS!PunctuationChars = PunctuationChars
    /\ \A c : AS!PunctuationKind(c) = PunctuationKind(c)
    /\ \A w : AS!WordKind(w) = WordKind(w)
    /\ \A src, s, e : AS!substring(src, s, e) = substring(src, s, e)
    /\ \A k, s, n : AS!token(k, s, n) = token(k, s, n)
    /\ AS!TokenKind = TokenKind
  <1>1. \A c : AS!is_comment_start(c) <=> is_comment_start(c)
    BY DEF AS!is_comment_start, is_comment_start
  <1>2. \A c : AS!is_whitespace(c) <=> is_whitespace(c)
    BY DEF AS!is_whitespace, is_whitespace, AS!F!is_whitespace, F!is_whitespace
  <1>3. \A c : AS!is_decimal_digit(c) <=> is_decimal_digit(c)
    BY DEF AS!is_decimal_digit, is_decimal_digit, AS!F!is_number, F!is_number
  <1>4. \A c : AS!is_decimal_digit_start(c) <=> is_decimal_digit_start(c)
    BY <1>3 DEF AS!is_decimal_digit_start, is_decimal_digit_start
  <1>5. \A c : AS!is_identifier_start(c) <=> is_identifier_start(c)
    BY DEF AS!is_identifier_start, is_identifier_start, AS!F!is_ident_start, F!is_ident_start
  <1>6. \A c : AS!can_continue_identifier(c) <=> can_continue_identifier(c)
    BY DEF AS!can_continue_identifier, can_continue_identifier, AS!F!is_ident_continue,
           F!is_ident_continue, AS!F!is_ident_start, F!is_ident_start, AS!F!is_number, F!is_number
  <1>7. AS!PunctuationChars = PunctuationChars
    BY DEF AS!PunctuationChars, PunctuationChars, AS!F!OneCharTokens, F!OneCharTokens
  <1>8. \A c : AS!Unknown(c) <=> Unknown(c)
    BY <1>1, <1>2, <1>4, <1>5, <1>7 DEF AS!Unknown, Unknown
  <1>9. \A c : AS!PunctuationKind(c) = PunctuationKind(c)
    BY DEF AS!PunctuationKind, PunctuationKind, AS!F!OneCharKind, F!OneCharKind
  <1>10. \A w : AS!WordKind(w) = WordKind(w)
    BY DEF AS!WordKind, WordKind
  <1>11. AS!TokenKind = TokenKind
    BY DEF AS!TokenKind, TokenKind, AS!F!TokenKind, F!TokenKind
  <1> QED
    BY <1>1, <1>2, <1>3, <1>4, <1>5, <1>6, <1>7, <1>8, <1>9, <1>10, <1>11
       DEF AS!substring, substring, AS!token, token

LEMMA SpecTerms ==
    /\ AS!End = EndOf(given)
    /\ \A s, e : AS!Gap(s, e) <=> GapOf(source, s, e)
    /\ \A s, e : AS!InComment(s, e) <=> InC(source, s, e)
    /\ \A s : AS!Between(s) <=> GapOf(source, EndOf(given), s) /\ ~ InC(source, EndOf(given), s)
    /\ \A k, s, e : AS!TokenAt(k, s, e) <=> TokenOf(source, k, s, e)
  <1>1. AS!End = EndOf(given)
    BY DEF AS!End, EndOf
  <1>2. \A s, e : AS!InComment(s, e) <=> InC(source, s, e)
    BY SpecChars DEF AS!InComment, InC
  <1>3. \A s, e : AS!Gap(s, e) <=> GapOf(source, s, e)
    BY SpecChars, <1>2 DEF AS!Gap, GapOf
  <1>4. \A k, s, e : AS!TokenAt(k, s, e) <=> TokenOf(source, k, s, e)
    BY SpecChars DEF AS!TokenAt, AS!IsPunctuation, AS!IsNumber, AS!IsWord, TokenOf
  <1> QED
    BY <1>1, <1>2, <1>3, <1>4 DEF AS!Between

\* The classes fetch_token tells apart.
LEMMA CharClasses ==
    ASSUME NEW c
    PROVE  /\ is_comment_start(c) => ~ is_whitespace(c) /\ c # "\n"
           /\ is_identifier_start(c) => can_continue_identifier(c)
           /\ is_identifier_start(c) => ~ is_decimal_digit_start(c)
           /\ is_whitespace("\n")
  BY ZenonT(40) DEF is_comment_start, is_whitespace, F!is_whitespace, is_identifier_start,
         can_continue_identifier, F!is_ident_continue, F!is_ident_start,
         is_decimal_digit_start, is_decimal_digit, F!is_number

LEMMA TokenKinds ==
    /\ \A c \in PunctuationChars : PunctuationKind(c) \in TokenKind \ {"Eof", "Invalid"}
    /\ \A w : WordKind(w) \in TokenKind \ {"Eof", "Invalid"}
    /\ {"Eof", "Invalid", "Number"} \subseteq TokenKind
  BY DEF PunctuationChars, PunctuationKind, F!OneCharTokens, F!OneCharKind, WordKind,
         TokenKind, F!TokenKind

LEMMA EmptyGap ==
    ASSUME NEW src, NEW s \in Nat
    PROVE  GapOf(src, s, s) /\ ~ InC(src, s, s)
  BY DEF GapOf, InC

\* A blank behind a gap, unless it is inside of a comment.
LEMMA BlankStep ==
    ASSUME NEW src, NEW s \in Nat, NEW e \in Nat, s <= e, GapOf(src, s, e),
           is_whitespace(src[e + 1]), InC(src, s, e) => src[e + 1] = "\n"
    PROVE  GapOf(src, s, e + 1) /\ ~ InC(src, s, e + 1)
  <1>1. GapOf(src, s, e + 1)
    BY DEF GapOf
  <1>2. ~ is_comment_start(src[e + 1])
    BY CharClasses
  <1>3. ASSUME NEW j \in s + 1 .. e + 1, is_comment_start(src[j]),
               \A l \in j .. e + 1 : src[l] # "\n"
        PROVE  FALSE
    <2>1. j \in s + 1 .. e
      BY <1>2, <1>3
    <2>2. InC(src, s, e)
      BY <2>1, <1>3 DEF InC
    <2>3. src[e + 1] # "\n"
      BY <1>3, <2>1
    <2> QED
      BY <2>2, <2>3
  <1> QED
    BY <1>1, <1>3 DEF InC

\* A character of a comment, the first one included.
LEMMA CommentStep ==
    ASSUME NEW src, NEW s \in Nat, NEW e \in Nat, s <= e, GapOf(src, s, e),
           src[e + 1] # "\n", InC(src, s, e) \/ is_comment_start(src[e + 1])
    PROVE  GapOf(src, s, e + 1) /\ InC(src, s, e + 1)
  <1>1. InC(src, s, e + 1)
    <2>1. CASE is_comment_start(src[e + 1])
      BY <2>1 DEF InC
    <2>2. CASE InC(src, s, e)
      <3>1. PICK j \in s + 1 .. e : is_comment_start(src[j]) /\ \A l \in j .. e : src[l] # "\n"
        BY <2>2 DEF InC
      <3>2. \A l \in j .. e + 1 : src[l] # "\n"
        BY <3>1
      <3> QED
        BY <3>1, <3>2 DEF InC
    <2> QED
      BY <2>1, <2>2
  <1> QED
    BY <1>1 DEF GapOf

-----------------------------------------------------------------------------
(* The inductive invariant.                                                *)

Gap(e) == GapOf(source, EndOf(given), e)
Commented(e) == InC(source, EndOf(given), e)

\* Where fetch_token is in the text, and what the token in the making is.
Making ==
    /\ pc \in {"idle", "blanks"} /\ lookahead_toks = << >> =>
          /\ EndOf(given) <= curr /\ Gap(curr)
          /\ Commented(curr) => reached_eof \/ source[curr + 1] = "\n"
    /\ pc = "comment" =>
          /\ EndOf(given) <= curr /\ Gap(curr)
          /\ Commented(curr) \/ (~ reached_eof /\ is_comment_start(source[curr + 1]))
    /\ pc \in {"dispatch", "number", "word", "exit"} =>
          /\ EndOf(given) <= start /\ Gap(start) /\ ~ Commented(start)
          /\ start < curr
    /\ pc = "dispatch" => curr = start + 1
    /\ pc = "number" =>
          /\ is_decimal_digit_start(source[start + 1])
          /\ \A i \in start + 2 .. curr : is_decimal_digit(source[i])
    /\ pc = "word" =>
          /\ is_identifier_start(source[start + 1])
          /\ \A i \in start + 1 .. curr : can_continue_identifier(source[i])
    /\ pc = "exit" => Unknown(source[start + 1])

\* The token t can be handed out next: AsmCcSpec would.
Ready(t) ==
    IF t.kind = "Eof" THEN EndOf(given) <= curr /\ Gap(curr) /\ curr = Len(source)
    ELSE /\ EndOf(given) <= t.offset /\ t.len > 0
         /\ t.offset + t.len = curr
         /\ Gap(t.offset) /\ ~ Commented(t.offset)
         /\ TokenOf(source, t.kind, t.offset, curr)

Queued ==
    /\ OneAhead
    /\ lookahead_toks # << >> => Ready(lookahead_toks[1])
    /\ call = "peek" /\ pc = "idle" => lookahead_toks = << ret >>
    /\ ended =>
          /\ reached_eof /\ pc \in {"idle", "blanks"}
          /\ \A i \in 1 .. Len(lookahead_toks) : lookahead_toks[i].kind = "Eof"

IInv == TypeOK /\ EndOf(given) \in Nat /\ Making /\ Queued

LEMMA Facts ==
    ASSUME IInv
    PROVE  /\ source \in Seq(Chars) /\ Len(source) \in Nat
           /\ curr \in Nat /\ start \in Nat /\ curr <= Len(source) /\ start <= Len(source)
           /\ EndOf(given) \in Nat
           /\ \A t \in Token : t.kind \in TokenKind /\ t.offset \in Nat /\ t.len \in Nat
           /\ pc # "idle" => lookahead_toks = << >>
  <1>1. source \in Seq(Chars)
    BY SourcesAssumption DEF IInv, TypeOK
  <1>2. Len(source) \in Nat
    BY <1>1, LenProperties
  <1> QED
    BY <1>1, <1>2 DEF IInv, TypeOK, Queued, OneAhead, Token

LEMMA TokenFields ==
    ASSUME NEW k \in TokenKind, NEW s \in Nat, NEW n \in Nat
    PROVE  /\ token(k, s, n) \in Token
           /\ token(k, s, n).kind = k /\ token(k, s, n).offset = s /\ token(k, s, n).len = n
  BY DEF token, Token

\* The queue of one token, and none.
LEMMA OneTokenQueue ==
    ASSUME NEW t \in Token
    PROVE  /\ << t >> \in Seq(Token) /\ Len(<< t >>) = 1 /\ << t >>[1] = t
           /\ << t >> # << >> /\ Head(<< t >>) = t /\ Tail(<< t >>) = << >>
           /\ Append(<< >>, t) = << t >>
           /\ << >> \in Seq(Token) /\ Len(<< >>) = 0
  OBVIOUS

LEMMA SingletonQueue ==
    ASSUME NEW q \in Seq(Token), q # << >>, Len(q) <= 1
    PROVE  \E t \in Token : q = << t >>
  <1>1. Len(q) = 1
    <2>1. Len(q) \in Nat /\ (Len(q) = 0 <=> q = << >>)
      BY LenProperties, EmptySeq, Zenon
    <2>2. \A n \in Nat : n <= 1 /\ n # 0 => n = 1
      OBVIOUS
    <2> QED
      BY <2>1, <2>2, Zenon
  <1>2. q[1] \in Token
    BY <1>1, ElementOfSeq
  <1>3. \A i \in 1 .. Len(q) : q[i] = << q[1] >>[i]
    BY <1>1, <1>2, OneTokenQueue
  <1>4. << q[1] >> \in Seq(Token) /\ Len(<< q[1] >>) = Len(q)
    BY <1>1, <1>2, OneTokenQueue
  <1>5. \A r \in Seq(Token) :
          (Len(r) = Len(q) /\ \A i \in 1 .. Len(q) : q[i] = r[i]) => q = r
    BY SeqEqual
  <1>6. q = << q[1] >>
    BY <1>3, <1>4, <1>5, Zenon
  <1> QED
    BY <1>2, <1>6

LEMMA QueueShape ==
    ASSUME IInv, lookahead_toks # << >>
    PROVE  \E t \in Token : lookahead_toks = << t >> /\ Ready(t) /\ pc = "idle"
  <1>1. lookahead_toks \in Seq(Token) /\ Len(lookahead_toks) <= 1 /\ pc = "idle"
    BY DEF IInv, TypeOK, Queued, OneAhead
  <1>2. \E t \in Token : lookahead_toks = << t >>
    BY <1>1, SingletonQueue
  <1>3. PICK t \in Token : lookahead_toks = << t >>
    BY <1>2
  <1>4. Ready(t)
    BY <1>3, OneTokenQueue DEF IInv, Queued
  <1> QED
    BY <1>1, <1>3, <1>4

LEMMA EndOfAppend ==
    ASSUME NEW g \in Seq(Token), NEW t \in Token
    PROVE  Append(g, t) \in Seq(Token) /\ EndOf(Append(g, t)) = t.offset + t.len
  <1>1. Append(g, t) \in Seq(Token) /\ Len(Append(g, t)) = Len(g) + 1
        /\ Append(g, t)[Len(g) + 1] = t /\ Append(g, t) # << >>
    BY AppendProperties
  <1> QED
    BY <1>1 DEF EndOf

-----------------------------------------------------------------------------
(* Tokens on their way out.                                                *)

\* What fetch_token returns can be handed out.
LEMMA Returned ==
    ASSUME IInv, ReturnEof \/ Punctuation \/ ReturnNumber \/ ReturnWord
    PROVE  \E t \in Token : /\ Return(t) /\ Ready(t) /\ pc # "idle" /\ pc # "exit"
                            /\ ended => t.kind = "Eof"
  <1>1. CASE ReturnEof
    <2>1. token("Eof", curr, 0) \in Token /\ token("Eof", curr, 0).kind = "Eof"
      BY Facts, TokenKinds, TokenFields
    <2>2. EndOf(given) <= curr /\ Gap(curr) /\ curr = Len(source)
      BY <1>1, Facts DEF ReturnEof, reached_eof, IInv, Making
    <2>3. Ready(token("Eof", curr, 0))
      BY <2>1, <2>2 DEF Ready
    <2> QED
      BY <1>1, <2>1, <2>3 DEF ReturnEof
  <1>2. ASSUME NEW k \in TokenKind, k # "Eof", NEW n \in Nat, n = curr - start,
               pc \in {"dispatch", "number", "word"}, Return(token(k, start, n)),
               TokenOf(source, k, start, curr)
        PROVE  \E t \in Token : /\ Return(t) /\ Ready(t) /\ pc # "idle" /\ pc # "exit"
                                /\ ended => t.kind = "Eof"
    <2> DEFINE t == token(k, start, n)
    <2>1. t \in Token /\ t.kind = k /\ t.offset = start /\ t.len = n
      BY Facts, TokenFields
    <2>2. EndOf(given) <= start /\ Gap(start) /\ ~ Commented(start) /\ start < curr
      BY <1>2 DEF IInv, Making
    <2>3. n > 0 /\ start + n = curr
      BY <1>2, <2>2, Facts
    <2>4. Ready(t)
      BY <1>2, <2>1, <2>2, <2>3 DEF Ready
    <2>5. ~ ended
      BY <1>2 DEF IInv, Queued
    <2> HIDE DEF t
    <2> QED
      BY <1>2, <2>1, <2>4, <2>5 DEF t
  <1>3. CASE Punctuation
    <2>1. source[curr] \in PunctuationChars /\ pc = "dispatch" /\ curr = start + 1
      BY <1>3 DEF Punctuation, IInv, Making
    <2>2. PunctuationKind(source[curr]) \in TokenKind /\ PunctuationKind(source[curr]) # "Eof"
      BY <2>1, TokenKinds
    <2>3. TokenOf(source, PunctuationKind(source[curr]), start, curr)
      BY <2>1 DEF TokenOf
    <2>4. 1 = curr - start
      BY <2>1, Facts
    <2> QED
      BY <1>2, <1>3, <2>1, <2>2, <2>3, <2>4 DEF Punctuation
  <1>4. CASE ReturnNumber
    <2>1. /\ pc = "number" /\ start < curr
          /\ is_decimal_digit_start(source[start + 1])
          /\ \A i \in start + 2 .. curr : is_decimal_digit(source[i])
          /\ curr < Len(source) => ~ is_decimal_digit(source[curr + 1])
      BY <1>4, Facts DEF ReturnNumber, IInv, Making, reached_eof
    <2>2. TokenOf(source, "Number", start, curr)
      BY <2>1 DEF TokenOf
    <2>3. curr - start \in Nat
      BY <2>1, Facts
    <2> QED
      BY <1>2, <1>4, <2>1, <2>2, <2>3, TokenKinds DEF ReturnNumber
  <1>5. CASE ReturnWord
    <2> DEFINE k == WordKind(substring(source, start, curr))
    <2>1. /\ pc = "word" /\ start < curr
          /\ is_identifier_start(source[start + 1])
          /\ \A i \in start + 1 .. curr : can_continue_identifier(source[i])
          /\ curr < Len(source) => ~ can_continue_identifier(source[curr + 1])
      BY <1>5, Facts DEF ReturnWord, IInv, Making, reached_eof
    <2>2. k \in TokenKind /\ k # "Eof"
      BY TokenKinds
    <2>3. TokenOf(source, k, start, curr)
      BY <2>1 DEF TokenOf
    <2>4. curr - start \in Nat
      BY <2>1, Facts
    <2>5. Return(token(k, start, curr - start))
      BY <1>5 DEF ReturnWord
    <2> HIDE DEF k
    <2> QED
      BY <1>2, <2>1, <2>2, <2>3, <2>4, <2>5
  <1> QED
    BY <1>1, <1>3, <1>4, <1>5

\* After next_token nothing has been read behind what it handed out.
LEMMA HandOutStep ==
    ASSUME IInv, NEW t \in Token, Ready(t), HandOut(t), ended => t.kind = "Eof"
    PROVE  /\ ret' = t /\ given' \in Seq(Token) /\ ended' \in BOOLEAN
           /\ EndOf(given') \in Nat /\ EndOf(given') <= curr
           /\ GapOf(source, EndOf(given'), curr)
           /\ InC(source, EndOf(given'), curr) => reached_eof
           /\ ended' => reached_eof
  <1>1. given \in Seq(Token) /\ ended \in BOOLEAN /\ ret' = t
    BY DEF IInv, TypeOK, HandOut
  <1>2. CASE t.kind = "Eof"
    BY <1>1, <1>2, Facts DEF HandOut, Ready, Gap, reached_eof
  <1>3. CASE t.kind # "Eof"
    <2>1. t.offset + t.len = curr
      BY <1>3 DEF Ready
    <2>2. given' \in Seq(Token) /\ EndOf(given') = curr
      BY <1>1, <1>3, <2>1, EndOfAppend DEF HandOut
    <2>3. ended' = ended /\ ~ ended
      BY <1>3 DEF HandOut
    <2> QED
      BY <1>1, <2>2, <2>3, Facts, EmptyGap
  <1> QED
    BY <1>2, <1>3

-----------------------------------------------------------------------------
(* The invariant is inductive.                                             *)

LEMMA InitIInv == Init => IInv
  <1> SUFFICES ASSUME Init PROVE IInv
    OBVIOUS
  <1>1. source \in Seq(Chars) /\ Len(source) \in Nat
    BY SourcesAssumption, LenProperties DEF Init
  <1>2. TypeOK
    <2>1. token("Invalid", 0, 0) \in Token
      BY TokenKinds, TokenFields
    <2>2. << >> \in Seq(Token)
      BY EmptySeq
    <2>3. source \in Sources /\ curr \in 0 .. Len(source) /\ start \in 0 .. Len(source)
      BY <1>1 DEF Init
    <2>4. lookahead_toks \in Seq(Token) /\ given \in Seq(Token) /\ ret \in Token
      BY <2>1, <2>2, Zenon DEF Init
    <2>5. pc \in PC /\ call \in {"next", "peek"} /\ frames \in Nat /\ ended \in BOOLEAN
      BY DEF Init, PC
    <2> QED
      BY <2>3, <2>4, <2>5, Zenon DEF TypeOK
  <1>3. EndOf(given) = 0
    BY DEF Init, EndOf
  <1>4. Making
    BY <1>1, <1>3, EmptyGap DEF Init, Making, Gap, Commented
  <1>5. Queued
    BY <1>1, OneTokenQueue DEF Init, Queued, OneAhead
  <1> QED
    BY <1>2, <1>3, <1>4, <1>5 DEF IInv

\* A token goes from fetch_token to the client or to the queue.
LEMMA ReturnStep ==
    ASSUME IInv, NEW t \in Token, Return(t), Ready(t), pc # "idle", pc # "exit",
           ended => t.kind = "Eof"
    PROVE  IInv'
  <1>1. /\ pc' = "idle" /\ frames' = 0 /\ UNCHANGED <<source, curr, start, call>>
        /\ lookahead_toks = << >> /\ call \in {"next", "peek"}
    BY Facts DEF Return, IInv, TypeOK
  <1>2. CASE call = "next"
    <2>1. HandOut(t) /\ lookahead_toks' = << >>
      BY <1>1, <1>2 DEF Return
    <2>2. /\ ret' = t /\ given' \in Seq(Token) /\ ended' \in BOOLEAN
          /\ EndOf(given') \in Nat /\ EndOf(given') <= curr
          /\ GapOf(source, EndOf(given'), curr)
          /\ InC(source, EndOf(given'), curr) => reached_eof
          /\ ended' => reached_eof
      BY <2>1, HandOutStep
    <2>3. TypeOK'
      BY <1>1, <2>1, <2>2 DEF IInv, TypeOK, PC
    <2>4. Making'
      BY <1>1, <2>2 DEF Making, Gap, Commented, reached_eof
    <2>5. Queued'
      BY <1>1, <1>2, <2>1, <2>2, OneTokenQueue DEF Queued, OneAhead, reached_eof
    <2> QED
      BY <2>2, <2>3, <2>4, <2>5 DEF IInv
  <1>3. CASE call = "peek"
    <2>1. ret' = t /\ lookahead_toks' = << t >> /\ UNCHANGED <<given, ended>>
      BY <1>1, <1>3, OneTokenQueue DEF Return
    <2>2. TypeOK'
      BY <1>1, <2>1, OneTokenQueue DEF IInv, TypeOK, PC
    <2>3. Making'
      BY <1>1, <2>1, OneTokenQueue DEF Making
    <2>4. Ready(t)'
      BY <1>1, <2>1 DEF Ready, Gap, Commented
    <2>5. ended => reached_eof /\ t.kind = "Eof"
      BY DEF IInv, Queued
    <2>6. Queued'
      BY <1>1, <2>1, <2>4, <2>5, OneTokenQueue DEF Queued, OneAhead, reached_eof
    <2> QED
      BY <2>1, <2>2, <2>3, <2>6 DEF IInv
  <1> QED
    BY <1>1, <1>2, <1>3

\* A call that finds nothing looked ahead.
LEMMA FetchStep ==
    ASSUME IInv, NEW f \in {"next", "peek"}, Fetch(f)
    PROVE  IInv'
  <1>1. TypeOK'
    BY DEF Fetch, IInv, TypeOK, PC
  <1>2. Making'
    BY DEF Fetch, IInv, Making, Gap, Commented, reached_eof
  <1>3. Queued'
    BY OneTokenQueue DEF Fetch, IInv, Queued, OneAhead, reached_eof
  <1> QED
    BY <1>1, <1>2, <1>3 DEF IInv, Fetch

LEMMA NextTokenStep ==
    ASSUME IInv, next_token
    PROVE  IInv'
  <1>1. CASE Fetch("next")
    BY <1>1, FetchStep
  <1>2. CASE /\ pc = "idle" /\ lookahead_toks # << >> /\ call' = "next"
             /\ HandOut(Head(lookahead_toks)) /\ lookahead_toks' = Tail(lookahead_toks)
             /\ UNCHANGED scan
    <2>1. PICK t \in Token : lookahead_toks = << t >> /\ Ready(t) /\ pc = "idle"
      BY <1>2, QueueShape
    <2>2. HandOut(t) /\ lookahead_toks' = << >>
      BY <1>2, <2>1, OneTokenQueue
    <2>3. ended => t.kind = "Eof"
      BY <2>1, OneTokenQueue DEF IInv, Queued
    <2>4. /\ ret' = t /\ given' \in Seq(Token) /\ ended' \in BOOLEAN
          /\ EndOf(given') \in Nat /\ EndOf(given') <= curr
          /\ GapOf(source, EndOf(given'), curr)
          /\ InC(source, EndOf(given'), curr) => reached_eof
          /\ ended' => reached_eof
      BY <2>1, <2>2, <2>3, HandOutStep
    <2>5. UNCHANGED <<source, curr, pc, start, frames>>
      BY <1>2 DEF scan
    <2>6. TypeOK'
      BY <1>2, <2>2, <2>4, <2>5 DEF IInv, TypeOK
    <2>7. Making'
      BY <2>1, <2>4, <2>5 DEF Making, Gap, Commented, reached_eof
    <2>8. Queued'
      BY <1>2, <2>1, <2>2, <2>4, <2>5, OneTokenQueue DEF Queued, OneAhead, reached_eof
    <2> QED
      BY <2>4, <2>6, <2>7, <2>8 DEF IInv
  <1> QED
    BY <1>1, <1>2 DEF next_token

LEMMA PeekTokenStep ==
    ASSUME IInv, peek_token
    PROVE  IInv'
  <1>1. CASE Fetch("peek")
    BY <1>1, FetchStep
  <1>2. CASE /\ pc = "idle" /\ lookahead_toks # << >> /\ call' = "peek"
             /\ ret' = Head(lookahead_toks)
             /\ UNCHANGED <<scan, lookahead_toks, given, ended>>
    <2>1. PICK t \in Token : lookahead_toks = << t >> /\ Ready(t) /\ pc = "idle"
      BY <1>2, QueueShape
    <2>2. ret' = t /\ lookahead_toks' = << ret' >>
      BY <1>2, <2>1, OneTokenQueue
    <2>3. UNCHANGED <<source, curr, pc, start, frames, lookahead_toks, given, ended>>
      BY <1>2 DEF scan
    <2>4. TypeOK'
      BY <1>2, <2>1, <2>2, <2>3 DEF IInv, TypeOK
    <2>5. Making'
      BY <2>3 DEF IInv, Making, Gap, Commented, reached_eof
    <2>6. Ready(lookahead_toks[1])' <=> Ready(lookahead_toks[1])
      BY <2>3 DEF Ready, Gap, Commented
    <2>7. Queued'
      BY <1>2, <2>2, <2>3, <2>6 DEF IInv, Queued, OneAhead, reached_eof
    <2> QED
      BY <2>3, <2>4, <2>5, <2>7 DEF IInv
  <1> QED
    BY <1>1, <1>2 DEF peek_token

\* A step of fetch_token that returns nothing yet.
LEMMA ScanStep ==
    ASSUME IInv, UNCHANGED <<source, client>>, pc # "idle", pc' \in PC \ {"idle"},
           curr' \in 0 .. Len(source), start' \in 0 .. Len(source), frames' \in Nat,
           Making', ended => reached_eof' /\ pc' = "blanks"
    PROVE  IInv'
  <1>1. TypeOK'
    BY DEF IInv, TypeOK, client
  <1>2. Queued'
    BY Facts DEF IInv, Queued, OneAhead, client
  <1> QED
    BY <1>1, <1>2 DEF IInv, client

LEMMA BlanksStep ==
    ASSUME IInv, EatBlank \/ Comment \/ FirstChar
    PROVE  IInv'
  <1>1. /\ pc = "blanks" /\ curr < Len(source) /\ ~ reached_eof /\ ~ ended
        /\ UNCHANGED <<source, client>>
        /\ EndOf(given) <= curr /\ Gap(curr)
        /\ Commented(curr) => source[curr + 1] = "\n"
    BY Facts DEF EatBlank, Eat, Comment, FirstChar, reached_eof, IInv, Making, Queued
  <1>2. UNCHANGED given
    BY <1>1 DEF client
  <1>3. CASE EatBlank
    <2>1. curr' = curr + 1 /\ UNCHANGED <<pc, start, frames>>
      BY <1>3 DEF EatBlank, Eat
    <2>2. Gap(curr + 1) /\ ~ Commented(curr + 1)
      BY <1>1, <1>3, Facts, BlankStep DEF EatBlank, Gap, Commented
    <2>3. Making'
      BY <1>1, <1>2, <2>1, <2>2, Facts DEF Making, Gap, Commented
    <2> QED
      BY <1>1, <2>1, <2>3, Facts, ScanStep DEF IInv, TypeOK, PC
  <1>4. CASE Comment
    <2>1. pc' = "comment" /\ is_comment_start(source[curr + 1]) /\ UNCHANGED <<curr, start, frames>>
      BY <1>4 DEF Comment
    <2>2. Making'
      BY <1>1, <1>2, <2>1 DEF Making, Gap, Commented, reached_eof
    <2> QED
      BY <1>1, <2>1, <2>2, ScanStep DEF IInv, TypeOK, PC
  <1>5. CASE FirstChar
    <2>1. /\ start' = curr /\ curr' = curr + 1 /\ pc' = "dispatch" /\ UNCHANGED frames
          /\ ~ is_whitespace(source[curr + 1])
      BY <1>5 DEF FirstChar
    <2>2. ~ Commented(curr)
      BY <1>1, <2>1, CharClasses
    <2>3. Making'
      BY <1>1, <1>2, <2>1, <2>2, Facts DEF Making, Gap, Commented
    <2> QED
      BY <1>1, <2>1, <2>3, Facts, ScanStep DEF IInv, TypeOK, PC
  <1> QED
    BY <1>3, <1>4, <1>5

LEMMA CommentsStep ==
    ASSUME IInv, EatComment \/ CommentEnds
    PROVE  IInv'
  <1>1. /\ pc = "comment" /\ ~ ended /\ UNCHANGED <<source, client>>
        /\ EndOf(given) <= curr /\ Gap(curr)
        /\ Commented(curr) \/ (~ reached_eof /\ is_comment_start(source[curr + 1]))
    BY DEF EatComment, Eat, CommentEnds, IInv, Making, Queued
  <1>2. UNCHANGED given
    BY <1>1 DEF client
  <1>3. CASE EatComment
    <2>1. /\ curr' = curr + 1 /\ UNCHANGED <<pc, start, frames>>
          /\ curr < Len(source) /\ source[curr + 1] # "\n"
      BY <1>3, Facts DEF EatComment, Eat, reached_eof
    <2>2. Gap(curr + 1) /\ Commented(curr + 1)
      BY <1>1, <2>1, Facts, CommentStep DEF Gap, Commented
    <2>3. Making'
      BY <1>1, <1>2, <2>1, <2>2, Facts DEF Making, Gap, Commented
    <2> QED
      BY <1>1, <2>1, <2>3, Facts, ScanStep DEF IInv, TypeOK, PC
  <1>4. CASE CommentEnds
    <2>1. /\ pc' = "blanks" /\ frames' = frames + 1 /\ UNCHANGED <<curr, start>>
          /\ reached_eof \/ source[curr + 1] = "\n"
      BY <1>4 DEF CommentEnds
    <2>2. Making'
      BY <1>1, <1>2, <2>1 DEF Making, Gap, Commented, reached_eof
    <2> QED
      BY <1>1, <2>1, <2>2, ScanStep DEF IInv, TypeOK, PC
  <1> QED
    BY <1>3, <1>4

LEMMA TokenStep ==
    ASSUME IInv, Dispatch \/ EatDigit \/ EatWord
    PROVE  IInv'
  <1>1. /\ pc \in {"dispatch", "number", "word"} /\ ~ ended
        /\ UNCHANGED <<source, client>>
        /\ EndOf(given) <= start /\ Gap(start) /\ ~ Commented(start) /\ start < curr
    BY DEF Dispatch, EatDigit, EatWord, Eat, IInv, Making, Queued
  <1>2. UNCHANGED given
    BY <1>1 DEF client
  <1>3. CASE Dispatch
    <2>1. /\ pc' \in {"word", "number", "exit"} /\ UNCHANGED <<curr, start, frames>>
          /\ curr = start + 1
          /\ pc' = "word" => is_identifier_start(source[curr])
          /\ pc' = "number" => is_decimal_digit_start(source[curr])
          /\ pc' = "exit" => Unknown(source[curr])
      BY <1>3 DEF Dispatch, IInv, Making
    <2>2. pc' = "word" => \A i \in start + 1 .. curr : can_continue_identifier(source[i])
      BY <2>1, Facts, CharClasses
    <2>3. pc' = "number" => \A i \in start + 2 .. curr : is_decimal_digit(source[i])
      BY <2>1, Facts
    <2>4. Making'
      BY <1>1, <1>2, <2>1, <2>2, <2>3 DEF Making, Gap, Commented
    <2> QED
      BY <1>1, <2>1, <2>4, ScanStep DEF IInv, TypeOK, PC
  <1>4. CASE EatDigit
    <2>1. /\ pc = "number" /\ curr' = curr + 1 /\ UNCHANGED <<pc, start, frames>>
          /\ curr < Len(source) /\ is_decimal_digit(source[curr + 1])
          /\ is_decimal_digit_start(source[start + 1])
          /\ \A i \in start + 2 .. curr : is_decimal_digit(source[i])
      BY <1>4, Facts DEF EatDigit, Eat, reached_eof, IInv, Making
    <2>2. \A i \in start + 2 .. curr + 1 : is_decimal_digit(source[i])
      BY <2>1, Facts
    <2>3. Making'
      BY <1>1, <1>2, <2>1, <2>2, Facts DEF Making, Gap, Commented
    <2> QED
      BY <1>1, <2>1, <2>3, Facts, ScanStep DEF IInv, TypeOK, PC
  <1>5. CASE EatWord
    <2>1. /\ pc = "word" /\ curr' = curr + 1 /\ UNCHANGED <<pc, start, frames>>
          /\ curr < Len(source) /\ can_continue_identifier(source[curr + 1])
          /\ is_identifier_start(source[start + 1])
          /\ \A i \in start + 1 .. curr : can_continue_identifier(source[i])
      BY <1>5, Facts DEF EatWord, Eat, reached_eof, IInv, Making
    <2>2. \A i \in start + 1 .. curr + 1 : can_continue_identifier(source[i])
      BY <2>1, Facts
    <2>3. Making'
      BY <1>1, <1>2, <2>1, <2>2, Facts DEF Making, Gap, Commented
    <2> QED
      BY <1>1, <2>1, <2>3, Facts, ScanStep DEF IInv, TypeOK, PC
  <1> QED
    BY <1>3, <1>4, <1>5

LEMMA StepIInv == IInv /\ [Next]_vars => IInv'
  <1> SUFFICES ASSUME IInv, [Next]_vars PROVE IInv'
    OBVIOUS
  <1>1. CASE next_token
    BY <1>1, NextTokenStep
  <1>2. CASE peek_token
    BY <1>2, PeekTokenStep
  <1>3. CASE ReturnEof \/ Punctuation \/ ReturnNumber \/ ReturnWord
    BY <1>3, Returned, ReturnStep
  <1>4. CASE EatBlank \/ Comment \/ FirstChar
    BY <1>4, BlanksStep
  <1>5. CASE EatComment \/ CommentEnds
    BY <1>5, CommentsStep
  <1>6. CASE Dispatch \/ EatDigit \/ EatWord
    BY <1>6, TokenStep
  <1>7. CASE UNCHANGED vars
    <2>1. UNCHANGED <<source, curr, pc, start, frames, lookahead_toks, call, ret, given, ended>>
      BY <1>7 DEF vars, scan, client
    <2>2. TypeOK' /\ Making' /\ Queued'
      BY <2>1 DEF IInv, TypeOK, Making, Queued, OneAhead, Ready, Gap, Commented, reached_eof
    <2> QED
      BY <2>1, <2>2 DEF IInv
  <1> QED
    BY <1>1, <1>2, <1>3, <1>4, <1>5, <1>6, <1>7 DEF Next, fetch_token

LEMMA Inductive == Spec => []IInv
  BY InitIInv, StepIInv, PTL DEF Spec

-----------------------------------------------------------------------------
(* What follows from it.                                                   *)

\* Every variable keeps its type, whatever is read and in whatever order it is called.
THEOREM TypeCorrect == Spec => []TypeOK
  <1>1. IInv => TypeOK
    BY DEF IInv
  <1> QED
    BY <1>1, Inductive, PTL

\* The queue of lexer.hh never holds more than one token, and none while fetch_token runs.
THEOREM OneTokenAhead == Spec => []OneAhead
  <1>1. IInv => OneAhead
    BY DEF IInv, Queued
  <1> QED
    BY <1>1, Inductive, PTL

LEMMA PeekStep ==
    ASSUME IInv, [Next]_vars, call = "peek", pc = "idle"
    PROVE  ret' = ret /\ UNCHANGED scan
  <1>1. lookahead_toks = << ret >> /\ ret \in Token
    BY DEF IInv, TypeOK, Queued
  <1>2. lookahead_toks # << >> /\ Head(lookahead_toks) = ret
    BY <1>1, OneTokenQueue
  <1>3. CASE next_token
    BY <1>2, <1>3 DEF next_token, Fetch, HandOut
  <1>4. CASE peek_token
    BY <1>2, <1>4 DEF peek_token, Fetch
  <1>5. CASE fetch_token
    BY <1>5 DEF fetch_token, EatBlank, ReturnEof, Comment, EatComment, CommentEnds, FirstChar,
                Punctuation, Dispatch, EatDigit, ReturnNumber, EatWord, ReturnWord, Eat
  <1>6. CASE UNCHANGED vars
    BY <1>6 DEF vars, client
  <1> QED
    BY <1>3, <1>4, <1>5, <1>6 DEF Next

\* What peek_token returned, the next call returns, be it peek_token or next_token, and
\* nothing is read for it.
THEOREM PeekedIsNext == Spec => PeekIsNext
  <1>1. IInv /\ [Next]_vars => [call = "peek" /\ pc = "idle" => ret' = ret /\ UNCHANGED scan]_vars
    BY PeekStep
  <1> QED
    BY <1>1, Inductive, PTL DEF Spec, PeekIsNext

-----------------------------------------------------------------------------
(* The lexer implements AsmCcSpec.                                         *)

\* A token that is ready is one AsmCcSpec hands out or, Eof, the end of the program.
LEMMA HandOutRefines ==
    ASSUME IInv, NEW t \in Token, Ready(t), HandOut(t), ended => t.kind = "Eof",
           UNCHANGED source, pc # "exit", pc' # "exit"
    PROVE  AS!Next \/ UNCHANGED AS!vars
  <1>1. CASE t.kind = "Eof" /\ ended
    <2>1. UNCHANGED <<source, given>> /\ ended'
      BY <1>1 DEF HandOut
    <2> QED
      BY <1>1, <2>1 DEF AS!vars, Outcome
  <1>2. CASE t.kind = "Eof" /\ ~ ended
    <2>1. UNCHANGED <<source, given>> /\ ended'
      BY <1>2 DEF HandOut
    <2>2. GapOf(source, EndOf(given), Len(source))
      BY <1>2 DEF Ready, Gap
    <2>3. AS!Gap(AS!End, Len(source))
      BY <2>2, SpecTerms
    <2> QED
      BY <1>2, <2>1, <2>3 DEF AS!Next, AS!Finish, Outcome
  <1>3. CASE t.kind # "Eof"
    <2>1. UNCHANGED <<source, ended>> /\ ~ ended /\ given' = Append(given, t)
      BY <1>3 DEF HandOut
    <2> DEFINE s == t.offset
               e == curr
               k == t.kind
    <2>2. /\ EndOf(given) <= s /\ t.len > 0 /\ s + t.len = e
          /\ GapOf(source, EndOf(given), s) /\ ~ InC(source, EndOf(given), s)
          /\ TokenOf(source, k, s, e)
      BY <1>3 DEF Ready, Gap, Commented
    <2>3. /\ s \in EndOf(given) .. Len(source) /\ e \in EndOf(given) .. Len(source)
          /\ s < e /\ e - s = t.len /\ k \in TokenKind
      BY <2>2, Facts
    <2>4. t = token(k, s, e - s)
      BY <2>3 DEF token, Token
    <2>5. given' = Append(given, AS!token(k, s, e - s))
      BY <2>1, <2>4, SpecChars
    <2>6. AS!Between(s) /\ AS!TokenAt(k, s, e)
      BY <2>2, SpecTerms
    <2>7. /\ s \in AS!End .. Len(source) /\ e \in AS!End .. Len(source)
          /\ k \in AS!TokenKind
      BY <2>3, SpecTerms, SpecChars
    <2>8. Outcome = "running" /\ UNCHANGED Outcome
      BY <2>1 DEF Outcome
    <2> HIDE DEF s, e, k
    <2>9. AS!HandOut
      BY <2>1, <2>3, <2>5, <2>6, <2>7, <2>8 DEF AS!HandOut
    <2> QED
      BY <2>9 DEF AS!Next
  <1> QED
    BY <1>1, <1>2, <1>3

LEMMA ReturnRefines ==
    ASSUME IInv, ReturnEof \/ Punctuation \/ ReturnNumber \/ ReturnWord
    PROVE  AS!Next \/ UNCHANGED AS!vars
  <1>1. PICK t \in Token : /\ Return(t) /\ Ready(t) /\ pc # "idle" /\ pc # "exit"
                           /\ ended => t.kind = "Eof"
    BY Returned
  <1>2. CASE call = "next"
    BY <1>1, <1>2, HandOutRefines DEF Return
  <1>3. CASE call # "next"
    BY <1>1, <1>3 DEF Return, AS!vars, Outcome
  <1> QED
    BY <1>2, <1>3

LEMMA NextTokenRefines ==
    ASSUME IInv, next_token
    PROVE  AS!Next \/ UNCHANGED AS!vars
  <1>1. CASE Fetch("next")
    BY <1>1 DEF Fetch, AS!vars, Outcome
  <1>2. CASE ~ Fetch("next")
    <2>1. /\ lookahead_toks # << >> /\ HandOut(Head(lookahead_toks))
          /\ UNCHANGED <<source, pc>>
      BY <1>2 DEF next_token, scan
    <2>2. PICK t \in Token : lookahead_toks = << t >> /\ Ready(t) /\ pc = "idle"
      BY <2>1, QueueShape
    <2>3. HandOut(t)
      BY <2>1, <2>2, OneTokenQueue
    <2>4. ended => t.kind = "Eof"
      BY <2>2, OneTokenQueue DEF IInv, Queued
    <2> QED
      BY <2>1, <2>2, <2>3, <2>4, HandOutRefines
  <1> QED
    BY <1>1, <1>2

LEMMA DispatchRefines ==
    ASSUME IInv, Dispatch
    PROVE  AS!Next \/ UNCHANGED AS!vars
  <1>1. /\ pc = "dispatch" /\ ~ ended /\ UNCHANGED <<source, given, ended>>
        /\ EndOf(given) <= start /\ Gap(start) /\ ~ Commented(start)
        /\ start < curr /\ curr = start + 1
    BY DEF Dispatch, client, IInv, Making, Queued
  <1>2. CASE pc' # "exit"
    BY <1>1, <1>2 DEF AS!vars, Outcome
  <1>3. CASE pc' = "exit"
    <2>1. Unknown(source[start + 1])
      BY <1>1, <1>3 DEF Dispatch
    <2>2. start \in EndOf(given) .. Len(source) - 1
      BY <1>1, Facts
    <2>3. AS!Between(start) /\ AS!Unknown(source[start + 1])
      BY <1>1, <2>1, SpecTerms, SpecChars DEF Gap, Commented
    <2>4. start \in AS!End .. Len(source) - 1
      BY <2>2, SpecTerms
    <2> QED
      BY <1>1, <1>3, <2>3, <2>4 DEF AS!Next, AS!Refuse, Outcome
  <1> QED
    BY <1>2, <1>3

LEMMA QuietRefines ==
    ASSUME peek_token \/ EatBlank \/ Comment \/ FirstChar \/ EatComment \/ CommentEnds
              \/ EatDigit \/ EatWord \/ UNCHANGED vars
    PROVE  UNCHANGED AS!vars
  <1>1. CASE peek_token
    BY <1>1 DEF peek_token, Fetch, scan, AS!vars, Outcome
  <1>2. CASE EatBlank \/ Comment \/ FirstChar \/ EatComment \/ CommentEnds \/ EatDigit \/ EatWord
    <2>1. UNCHANGED <<source, client>> /\ pc # "exit" /\ pc' # "exit"
      BY <1>2 DEF EatBlank, Comment, FirstChar, EatComment, CommentEnds, EatDigit, EatWord, Eat
    <2> QED
      BY <2>1 DEF client, AS!vars, Outcome
  <1>3. CASE UNCHANGED vars
    BY <1>3 DEF vars, scan, client, AS!vars, Outcome
  <1> QED
    BY <1>1, <1>2, <1>3

LEMMA StepRefines == IInv /\ [Next]_vars => [AS!Next]_(AS!vars)
  <1> SUFFICES ASSUME IInv, [Next]_vars PROVE AS!Next \/ UNCHANGED AS!vars
    OBVIOUS
  <1> QED
    BY ReturnRefines, NextTokenRefines, DispatchRefines, QuietRefines DEF Next, fetch_token

\* next_token hands out the tokens of AsmCcSpec: the longest ones, in the order of the text,
\* without its blanks and comments, whatever peek_token was asked for in between.
THEOREM LexerImplementsAsmCcSpec == Spec => Tokenizes
  <1>1. Init => AS!Init
    BY DEF Init, AS!Init, Outcome
  <1> QED
    BY <1>1, StepRefines, Inductive, PTL DEF Spec, Tokenizes, AS!Spec

-----------------------------------------------------------------------------
(* What follows a place in the text is unique.                             *)

\* Follows of AsmCcParser, in terms of a text that no step changes.
FollowsOf(src, k, p, e) ==
    \E s \in p .. e - 1 : TokenOf(src, k, s, e) /\ GapOf(src, p, s) /\ ~ InC(src, p, s)

LEMMA FollowsTerms == \A k, p, e : Follows(k, p, e) <=> FollowsOf(source, k, p, e)
  BY SpecTerms DEF Follows, FollowsOf

\* The three classes a token begins with are apart from each other and from the rest.
LEMMA FirstChars ==
    ASSUME NEW c
    PROVE  /\ c \in PunctuationChars \/ is_decimal_digit_start(c) \/ is_identifier_start(c) =>
                 ~ is_whitespace(c) /\ ~ is_comment_start(c) /\ ~ Unknown(c)
           /\ c \in PunctuationChars => ~ is_decimal_digit_start(c) /\ ~ is_identifier_start(c)
           /\ is_decimal_digit_start(c) => ~ is_identifier_start(c)
  <1>1. c \in PunctuationChars => ~ is_whitespace(c) /\ ~ is_comment_start(c)
    BY ZenonT(40) DEF PunctuationChars, F!OneCharTokens, is_whitespace, F!is_whitespace,
                      is_comment_start
  <1>2. is_decimal_digit_start(c) => ~ is_whitespace(c) /\ ~ is_comment_start(c)
    BY ZenonT(40) DEF is_decimal_digit_start, is_decimal_digit, F!is_number, is_whitespace,
                      F!is_whitespace, is_comment_start
  <1>3. is_identifier_start(c) => ~ is_whitespace(c) /\ ~ is_comment_start(c)
    BY ZenonT(40) DEF is_identifier_start, F!is_ident_start, is_whitespace, F!is_whitespace,
                      is_comment_start
  <1>4. c \in PunctuationChars => ~ is_decimal_digit_start(c)
    BY ZenonT(40) DEF PunctuationChars, F!OneCharTokens, is_decimal_digit_start,
                      is_decimal_digit, F!is_number
  <1>5. c \in PunctuationChars => ~ is_identifier_start(c)
    BY ZenonT(40) DEF PunctuationChars, F!OneCharTokens, is_identifier_start, F!is_ident_start
  <1> QED
    BY <1>1, <1>2, <1>3, <1>4, <1>5, CharClasses DEF Unknown

\* No token begins with a blank, a comment or a character that fetch_token has no case for.
LEMMA TokenBegins ==
    ASSUME NEW src, NEW k, NEW s \in Nat, NEW e \in Nat, s < e, TokenOf(src, k, s, e)
    PROVE  /\ ~ is_whitespace(src[s + 1]) /\ ~ is_comment_start(src[s + 1])
           /\ ~ Unknown(src[s + 1])
  <1>1. \/ src[s + 1] \in PunctuationChars
        \/ is_decimal_digit_start(src[s + 1])
        \/ is_identifier_start(src[s + 1])
    BY DEF TokenOf
  <1> QED
    BY <1>1, FirstChars

\* Behind a gap that is not inside of a comment only a blank or a comment goes on with it.
LEMMA GapEnds ==
    ASSUME NEW src, NEW p \in Nat, NEW s \in Nat, NEW t \in Nat, p <= s, s < t,
           ~ InC(src, p, s), GapOf(src, p, t)
    PROVE  is_whitespace(src[s + 1]) \/ is_comment_start(src[s + 1])
  <1>1. is_whitespace(src[s + 1]) \/ InC(src, p, s + 1)
    <2>1. s + 1 \in p + 1 .. t
      OBVIOUS
    <2> QED
      BY <2>1 DEF GapOf
  <1>2. ASSUME InC(src, p, s + 1) PROVE is_comment_start(src[s + 1])
    <2>1. PICK j \in p + 1 .. s + 1 :
             is_comment_start(src[j]) /\ \A l \in j .. s + 1 : src[l] # "\n"
      BY <1>2 DEF InC
    <2>2. CASE j = s + 1
      BY <2>1, <2>2
    <2>3. CASE j # s + 1
      <3>1. j \in p + 1 .. s /\ \A l \in j .. s : l \in j .. s + 1
        BY <2>3
      <3> QED
        BY <2>1, <3>1 DEF InC
    <2> QED
      BY <2>2, <2>3
  <1> QED
    BY <1>1, <1>2

\* Two tokens that begin at one place are one.
LEMMA SameToken ==
    ASSUME NEW src, NEW k, NEW m, NEW s \in Nat, NEW e \in Nat, NEW f \in Nat,
           Len(src) \in Nat, s < e, s < f, e <= Len(src), f <= Len(src),
           TokenOf(src, k, s, e), TokenOf(src, m, s, f)
    PROVE  e = f /\ k = m
  <1> DEFINE c == src[s + 1]
  <1>1. /\ c \in PunctuationChars => ~ is_decimal_digit_start(c) /\ ~ is_identifier_start(c)
        /\ is_decimal_digit_start(c) => ~ is_identifier_start(c)
    BY FirstChars
  <1>2. CASE c \in PunctuationChars
    <2>1. /\ e = s + 1 /\ k = PunctuationKind(src[e])
          /\ f = s + 1 /\ m = PunctuationKind(src[f])
      BY <1>1, <1>2 DEF TokenOf
    <2> QED
      BY <2>1
  <1>3. CASE is_decimal_digit_start(c)
    <2>1. /\ k = "Number" /\ m = "Number"
          /\ \A i \in s + 2 .. e : is_decimal_digit(src[i])
          /\ \A i \in s + 2 .. f : is_decimal_digit(src[i])
          /\ e < Len(src) => ~ is_decimal_digit(src[e + 1])
          /\ f < Len(src) => ~ is_decimal_digit(src[f + 1])
      BY <1>1, <1>3 DEF TokenOf
    <2>2. ~ (e < f)
      <3>1. e < f => e + 1 \in s + 2 .. f
        OBVIOUS
      <3> QED
        BY <2>1, <3>1
    <2>3. ~ (f < e)
      <3>1. f < e => f + 1 \in s + 2 .. e
        OBVIOUS
      <3> QED
        BY <2>1, <3>1
    <2> QED
      BY <2>1, <2>2, <2>3
  <1>4. CASE is_identifier_start(c)
    <2>1. /\ k = WordKind(substring(src, s, e)) /\ m = WordKind(substring(src, s, f))
          /\ \A i \in s + 1 .. e : can_continue_identifier(src[i])
          /\ \A i \in s + 1 .. f : can_continue_identifier(src[i])
          /\ e < Len(src) => ~ can_continue_identifier(src[e + 1])
          /\ f < Len(src) => ~ can_continue_identifier(src[f + 1])
      BY <1>1, <1>4 DEF TokenOf
    <2>2. ~ (e < f)
      <3>1. e < f => e + 1 \in s + 1 .. f
        OBVIOUS
      <3> QED
        BY <2>1, <3>1
    <2>3. ~ (f < e)
      <3>1. f < e => f + 1 \in s + 1 .. e
        OBVIOUS
      <3> QED
        BY <2>1, <3>1
    <2>4. e = f
      BY <2>2, <2>3
    <2> QED
      BY <2>1, <2>4
  <1> QED
    BY <1>2, <1>3, <1>4 DEF TokenOf

\* The token behind a place, and its end, are the only ones.
LEMMA OneFollows ==
    ASSUME NEW src, NEW k, NEW m, NEW p \in Nat, NEW e \in Nat, NEW f \in Nat,
           Len(src) \in Nat, e <= Len(src), f <= Len(src),
           FollowsOf(src, k, p, e), FollowsOf(src, m, p, f)
    PROVE  e = f /\ k = m
  <1>1. PICK s \in p .. e - 1 : TokenOf(src, k, s, e) /\ GapOf(src, p, s) /\ ~ InC(src, p, s)
    BY DEF FollowsOf
  <1>2. PICK t \in p .. f - 1 : TokenOf(src, m, t, f) /\ GapOf(src, p, t) /\ ~ InC(src, p, t)
    BY DEF FollowsOf
  <1>3. s \in Nat /\ t \in Nat /\ s < e /\ t < f /\ p <= s /\ p <= t
    OBVIOUS
  <1>4. ~ (s < t)
    BY <1>1, <1>2, <1>3, TokenBegins, GapEnds
  <1>5. ~ (t < s)
    BY <1>1, <1>2, <1>3, TokenBegins, GapEnds
  <1>6. s = t
    BY <1>3, <1>4, <1>5
  <1> QED
    BY <1>1, <1>2, <1>3, <1>6, SameToken

\* Where a token follows, the program is not at its end ...
LEMMA NotAtEnd ==
    ASSUME NEW src, NEW k, NEW p \in Nat, NEW e \in Nat, Len(src) \in Nat, e <= Len(src),
           FollowsOf(src, k, p, e), GapOf(src, p, Len(src))
    PROVE  FALSE
  <1>1. PICK s \in p .. e - 1 : TokenOf(src, k, s, e) /\ GapOf(src, p, s) /\ ~ InC(src, p, s)
    BY DEF FollowsOf
  <1>2. s \in Nat /\ s < e /\ p <= s /\ s < Len(src)
    OBVIOUS
  <1> QED
    BY <1>1, <1>2, TokenBegins, GapEnds

\* ... and the next character that is no blank and in no comment is one fetch_token knows.
LEMMA NotUnknown ==
    ASSUME NEW src, NEW k, NEW p \in Nat, NEW e \in Nat, NEW t \in Nat, p <= t,
           FollowsOf(src, k, p, e), GapOf(src, p, t), ~ InC(src, p, t), Unknown(src[t + 1])
    PROVE  FALSE
  <1>1. PICK s \in p .. e - 1 : TokenOf(src, k, s, e) /\ GapOf(src, p, s) /\ ~ InC(src, p, s)
    BY DEF FollowsOf
  <1>2. s \in Nat /\ s < e /\ p <= s
    OBVIOUS
  <1>3. ~ is_whitespace(src[t + 1]) /\ ~ is_comment_start(src[t + 1])
    BY DEF Unknown
  <1>4. ~ (s < t)
    BY <1>1, <1>2, TokenBegins, GapEnds
  <1>5. ~ (t < s)
    BY <1>1, <1>2, <1>3, GapEnds
  <1>6. s = t
    BY <1>2, <1>4, <1>5
  <1> QED
    BY <1>1, <1>2, <1>6, TokenBegins

-----------------------------------------------------------------------------
(* The tokens handed out follow one another.                               *)

\* The offset just after the i-th token.
EndAt(i) == IF i = 0 THEN 0 ELSE given[i].offset + given[i].len

Chained ==
    \A i \in 1 .. Len(given) :
       /\ EndAt(i) \in 1 .. Len(source)
       /\ FollowsOf(source, given[i].kind, EndAt(i - 1), EndAt(i))

LEMMA EndOfGiven ==
    ASSUME given \in Seq(Token)
    PROVE  EndOf(given) = EndAt(Len(given))
  <1>1. Len(given) \in Nat /\ (Len(given) = 0 <=> given = << >>)
    BY LenProperties, EmptySeq, Zenon
  <1> QED
    BY <1>1 DEF EndOf, EndAt

LEMMA ChainedStep == IInv /\ Chained /\ [Next]_vars => Chained'
  <1> SUFFICES ASSUME IInv, Chained, [Next]_vars PROVE Chained'
    OBVIOUS
  <1>1. given \in Seq(Token) /\ Len(given) \in Nat /\ Len(source) \in Nat /\ EndOf(given) \in Nat
    BY LenProperties, Facts DEF IInv, TypeOK
  <1>2. [AS!Next]_(AS!vars)
    BY StepRefines
  <1>3. CASE AS!HandOut
    <2>1. PICK s \in AS!End .. Len(source), e \in AS!End .. Len(source), k \in AS!TokenKind :
             /\ s < e /\ AS!Between(s) /\ AS!TokenAt(k, s, e)
             /\ given' = Append(given, AS!token(k, s, e - s))
      BY <1>3 DEF AS!HandOut
    <2>2. source' = source
      BY <1>3 DEF AS!HandOut
    <2> DEFINE p == EndOf(given)  t == token(k, s, e - s)  n == Len(given)
    <2>3. /\ s \in Nat /\ e \in Nat /\ p \in Nat /\ p <= s /\ s < e /\ e <= Len(source)
          /\ k \in TokenKind
      BY <1>1, <2>1, SpecTerms, SpecChars
    <2>4. FollowsOf(source, k, p, e)
      <3>1. s \in p .. e - 1
        BY <2>3
      <3>2. TokenOf(source, k, s, e) /\ GapOf(source, p, s) /\ ~ InC(source, p, s)
        BY <2>1, SpecTerms
      <3> QED
        BY <3>1, <3>2 DEF FollowsOf
    <2>5. /\ t \in Token /\ t.kind = k /\ t.offset + t.len = e
      <3>1. e - s \in Nat
        BY <2>3
      <3>2. t \in Token /\ t.kind = k /\ t.offset = s /\ t.len = e - s
        BY <2>3, <3>1, TokenFields
      <3> QED
        BY <2>3, <3>2
    <2>6. given' = Append(given, t)
      BY <2>1, SpecChars
    <2>7. p = EndAt(n)
      BY <1>1, EndOfGiven
    <2> HIDE DEF t, p
    <2>8. /\ Len(given') = n + 1 /\ given'[n + 1] = t
          /\ \A i \in 1 .. n : given'[i] = given[i]
      BY <1>1, <2>5, <2>6, AppendProperties
    <2>9. /\ \A i \in 0 .. n : EndAt(i)' = EndAt(i)
          /\ \A i \in 1 .. n + 1 : i = n + 1 => EndAt(i)' = e
      <3>1. ASSUME NEW i \in 0 .. n PROVE EndAt(i)' = EndAt(i)
        <4>1. i = 0 \/ i \in 1 .. n
          BY <1>1
        <4> QED
          BY <2>8, <4>1 DEF EndAt
      <3>2. ASSUME NEW i \in 1 .. n + 1, i = n + 1 PROVE EndAt(i)' = e
        BY <2>5, <2>8, <3>2 DEF EndAt
      <3> QED
        BY <3>1, <3>2
    <2>10. ASSUME NEW i \in 1 .. n + 1
           PROVE  /\ EndAt(i)' \in 1 .. Len(source)
                  /\ FollowsOf(source, given'[i].kind, EndAt(i - 1)', EndAt(i)')
      <3>1. CASE i \in 1 .. n
        <4>1. i \in 0 .. n /\ i - 1 \in 0 .. n
          BY <1>1, <3>1
        <4> QED
          BY <2>8, <2>9, <3>1, <4>1 DEF Chained
      <3>2. CASE i = n + 1
        <4>1. i - 1 = n /\ n \in 0 .. n
          BY <1>1, <3>2
        <4>2. EndAt(i - 1)' = p /\ EndAt(i)' = e /\ given'[i].kind = k
          BY <2>5, <2>7, <2>8, <2>9, <3>2, <4>1
        <4> QED
          BY <2>3, <2>4, <4>2
      <3> QED
        BY <1>1, <3>1, <3>2
    <2> QED
      BY <2>2, <2>8, <2>10 DEF Chained
  <1>4. CASE AS!Finish \/ AS!Refuse \/ UNCHANGED AS!vars
    <2>1. UNCHANGED <<source, given>>
      BY <1>4 DEF AS!Finish, AS!Refuse, AS!vars
    <2> QED
      BY <2>1 DEF Chained, EndAt
  <1> QED
    BY <1>2, <1>3, <1>4 DEF AS!Next

\* The tokens handed out so far lie one behind the other in the text, each the only one that
\* can follow the one before it.
LEMMA GivenIsChained == Spec => []Chained
  <1>1. Init => Chained
    <2> SUFFICES ASSUME Init PROVE Chained
      OBVIOUS
    <2>1. Len(given) = 0
      BY EmptySeq DEF Init
    <2> QED
      BY <2>1 DEF Chained
  <1> QED
    BY <1>1, ChainedStep, Inductive, PTL DEF Spec

-----------------------------------------------------------------------------
(* The stack of fetch_token.                                               *)

LinesTo(src, n) == {i \in 1 .. n : src[i] = "\n"}

LEMMA LinesGrow ==
    ASSUME NEW src, NEW n \in Nat
    PROVE  /\ Cardinality(LinesTo(src, n)) \in Nat
           /\ Cardinality(LinesTo(src, n + 1)) \in Nat
           /\ Cardinality(LinesTo(src, n)) <= Cardinality(LinesTo(src, n + 1))
           /\ src[n + 1] = "\n" =>
                 Cardinality(LinesTo(src, n + 1)) = Cardinality(LinesTo(src, n)) + 1
  <1>1. IsFiniteSet(1 .. n)
    BY FS_Interval
  <1>2. IsFiniteSet(LinesTo(src, n))
    BY <1>1, FS_Subset DEF LinesTo
  <1>3. n + 1 \notin LinesTo(src, n)
    BY DEF LinesTo
  <1> DEFINE L == LinesTo(src, n)
  <1>4. /\ src[n + 1] = "\n" => LinesTo(src, n + 1) = L \cup {n + 1}
        /\ src[n + 1] # "\n" => LinesTo(src, n + 1) = L
    BY DEF LinesTo
  <1>5. IsFiniteSet(L) /\ n + 1 \notin L
    BY <1>2, <1>3
  <1> HIDE DEF L
  <1>6. Cardinality(L) \in Nat /\ Cardinality(L \cup {n + 1}) = Cardinality(L) + 1
    BY <1>5, FS_AddElement, FS_CardinalityType
  <1> QED
    BY <1>4, <1>6 DEF L

Lines == Cardinality(LinesTo(source, curr))

\* One more frame than lines only where the next character is the end of one, or there is none.
FramesInv ==
    \/ frames <= 1 + Lines
    \/ frames = 2 + Lines /\ pc = "blanks" /\ (reached_eof \/ source[curr + 1] = "\n")

LEMMA FramesStep == IInv /\ FramesInv /\ [Next]_vars => FramesInv'
  <1> SUFFICES ASSUME IInv, FramesInv, [Next]_vars PROVE FramesInv'
    OBVIOUS
  <1>1. /\ Lines \in Nat /\ Cardinality(LinesTo(source, curr + 1)) \in Nat
        /\ Lines <= Cardinality(LinesTo(source, curr + 1))
        /\ source[curr + 1] = "\n" => Cardinality(LinesTo(source, curr + 1)) = Lines + 1
        /\ frames \in Nat
    BY Facts, LinesGrow DEF Lines, IInv, TypeOK
  <1>2. CASE next_token \/ peek_token
    <2>1. UNCHANGED <<source, curr>>
      BY <1>2 DEF next_token, peek_token, Fetch, scan
    <2>2. UNCHANGED <<frames, pc>> \/ frames' = 1
      BY <1>2 DEF next_token, peek_token, Fetch, scan
    <2> QED
      BY <1>1, <2>1, <2>2 DEF FramesInv, Lines, reached_eof
  <1>3. CASE ReturnEof \/ Punctuation \/ ReturnNumber \/ ReturnWord
    <2>1. UNCHANGED <<source, curr>> /\ frames' = 0
      BY <1>3 DEF ReturnEof, Punctuation, ReturnNumber, ReturnWord, Return
    <2> QED
      BY <1>1, <2>1 DEF FramesInv, Lines
  <1>4. CASE EatBlank \/ FirstChar \/ EatComment \/ EatDigit \/ EatWord
    <2>1. UNCHANGED <<source, frames>> /\ curr' = curr + 1 /\ ~ reached_eof
      BY <1>4 DEF EatBlank, FirstChar, EatComment, EatDigit, EatWord, Eat
    <2>2. Lines' = Cardinality(LinesTo(source, curr + 1))
      BY <2>1 DEF Lines
    <2> QED
      BY <1>1, <2>1, <2>2 DEF FramesInv
  <1>5. CASE Comment
    <2>1. UNCHANGED <<source, curr, frames>>
      BY <1>5 DEF Comment
    <2>2. ~ reached_eof /\ source[curr + 1] # "\n"
      BY <1>5, CharClasses DEF Comment
    <2> QED
      BY <2>1, <2>2 DEF FramesInv, Lines
  <1>6. CASE CommentEnds
    <2>1. /\ UNCHANGED <<source, curr>> /\ pc = "comment" /\ pc' = "blanks"
          /\ frames' = frames + 1
          /\ reached_eof \/ source[curr + 1] = "\n"
      BY <1>6 DEF CommentEnds
    <2>2. frames <= 1 + Lines
      BY <2>1 DEF FramesInv
    <2>3. frames' <= 1 + Lines \/ frames' = 2 + Lines
      BY <1>1, <2>1, <2>2
    <2> QED
      BY <2>1, <2>3 DEF FramesInv, Lines, reached_eof
  <1>7. CASE Dispatch
    <2>1. UNCHANGED <<source, curr, frames>> /\ pc = "dispatch"
      BY <1>7 DEF Dispatch
    <2> QED
      BY <2>1 DEF FramesInv, Lines
  <1>8. CASE UNCHANGED vars
    BY <1>8 DEF vars, scan, FramesInv, Lines, reached_eof
  <1> QED
    BY <1>2, <1>3, <1>4, <1>5, <1>6, <1>7, <1>8 DEF Next, fetch_token

\* fetch_token calls itself once for a line with a comment and for nothing else: its stack
\* is bounded by the lines it has read, for every program.
THEOREM FramesPerLine == Spec => []FramesAreLines
  <1>1. Init => FramesInv
    <2> SUFFICES ASSUME Init PROVE FramesInv
      OBVIOUS
    <2>1. frames = 0 /\ curr = 0
      BY DEF Init
    <2>2. Lines \in Nat
      BY <2>1, LinesGrow DEF Lines
    <2> QED
      BY <2>1, <2>2 DEF FramesInv
  <1>2. IInv /\ FramesInv => FramesAreLines
    <2> SUFFICES ASSUME IInv, FramesInv PROVE FramesAreLines
      OBVIOUS
    <2>1. Lines \in Nat /\ frames \in Nat
      BY Facts, LinesGrow DEF Lines, IInv, TypeOK
    <2>2. Lines = Cardinality({i \in 1 .. curr : source[i] = "\n"})
      BY DEF Lines, LinesTo
    <2> QED
      BY <2>1, <2>2 DEF FramesInv, FramesAreLines
  <1> QED
    BY <1>1, <1>2, Inductive, FramesStep, PTL DEF Spec

-----------------------------------------------------------------------------
(* The parser is a client of the lexer.                                    *)

LEMMA ParserStepIsLexerStep == [ParserNext]_parserVars => [Next]_vars
  BY DEF ParserNext, Ask, Lex, consume_tok_pnc, BodyEnds, parse_instruction, Next, parserVars

\* parse_func_decl calls next_token and peek_token and nothing else of the lexer, so that all
\* that is proved of AsmCcLexer holds while it runs.
THEOREM ParserIsAClient == ParserSpec => Spec
  <1>1. ParserInit => Init
    BY DEF ParserInit
  <1> QED
    BY <1>1, ParserStepIsLexerStep, PTL DEF ParserSpec, Spec

LEMMA ParserLexes == ParserSpec => []IInv
  BY ParserIsAClient, Inductive, PTL

-----------------------------------------------------------------------------
(* Where the parser is.                                                    *)

\* The kinds up to the body, the body left out.
Taken == IF at <= 6 THEN at - 1 ELSE at - 2

\* The first n tokens handed out are those of an empty function.
Begun(g, n) == n <= Len(g) /\ \A i \in 1 .. n : g[i].kind = EmptyFunctionKinds[i]

\* The token that was peeked at and not taken.
Waiting ==
    /\ pc = "idle" /\ lookahead_toks # << >>
    /\ asked => ret = lookahead_toks[1]

WaitingBrace == lookahead_toks[1].kind = "RightBrace"

\* Another token than the header has here was taken, or the program was at its end.
Refused ==
    \/ Len(given) = at /\ given[at].kind # EmptyFunctionKinds[at]
    \/ Len(given) = at - 1 /\ ended

\* No token is looked ahead before the body.
Header ==
    /\ at \in 1 .. 5 /\ instrs = 0
    /\ lookahead_toks = << >>
    /\ ~ asked => pc = "idle" /\ (~ failed => Len(given) = at - 1)
    /\ asked =>
          /\ call = "next" /\ ~ failed
          /\ pc # "idle" => Len(given) = at - 1
          /\ pc = "idle" /\ ret.kind # "Eof" => Len(given) = at /\ given[at] = ret
          /\ pc = "idle" /\ ret.kind = "Eof" => Len(given) = at - 1 /\ ended
    /\ failed => Refused

\* Before the loop has looked at its first token, and after.
FirstPeek ==
    /\ at = 6 /\ instrs = 0 /\ Len(given) = 5 /\ ~ failed
    /\ \/ ~ asked /\ pc = "idle" /\ lookahead_toks = << >>
       \/ asked /\ call = "peek" /\ (pc # "idle" => lookahead_toks = << >>)

Body == at = 6 /\ Len(given) = 5 /\ ~ failed /\ Waiting /\ ~ WaitingBrace

Closing ==
    /\ at = 7 /\ instrs = 0 /\ ~ failed
    /\ \/ ~ asked /\ Len(given) = 5 /\ Waiting /\ WaitingBrace
       \/ /\ asked /\ pc = "idle" /\ lookahead_toks = << >>
          /\ Len(given) = 6 /\ given[6] = ret /\ ret.kind = "RightBrace"

Done ==
    /\ at = 8 /\ instrs = 0 /\ pc = "idle" /\ ~ failed
    /\ Len(given) = 6 /\ lookahead_toks = << >>

PInv ==
    /\ IInv
    /\ at \in 1 .. 8 /\ asked \in BOOLEAN /\ failed \in BOOLEAN /\ instrs \in Nat
    /\ Begun(given, Taken)
    /\ at > 2 => func_name = given[2]
    /\ Header \/ FirstPeek \/ Body \/ Closing \/ Done

LEMMA ScriptFacts ==
    ASSUME at \in 1 .. 8
    PROVE  /\ returned <=> at = 8
           /\ InBody <=> at = 6
           /\ at \in 1 .. 5 => Script[at] = EmptyFunctionKinds[at] /\ Script[at] # "Eof"
           /\ at = 7 => Script[at] = "RightBrace" /\ EmptyFunctionKinds[6] = "RightBrace"
           /\ at <= 7 => (Script[at] = "Identifier" <=> at = 2)
  BY DEF returned, InBody, Script, EmptyFunctionKinds

LEMMA BegunAppend ==
    ASSUME NEW g \in Seq(Token), NEW t \in Token, NEW n \in Nat, Begun(g, n)
    PROVE  /\ Append(g, t) \in Seq(Token) /\ Len(Append(g, t)) = Len(g) + 1
           /\ Append(g, t)[Len(g) + 1] = t
           /\ \A i \in 1 .. Len(g) : Append(g, t)[i] = g[i]
           /\ Begun(Append(g, t), n)
  <1>1. /\ Append(g, t) \in Seq(Token) /\ Len(Append(g, t)) = Len(g) + 1
        /\ Append(g, t)[Len(g) + 1] = t
        /\ \A i \in 1 .. Len(g) : Append(g, t)[i] = g[i]
    BY AppendProperties
  <1>2. Len(g) \in Nat
    BY LenProperties
  <1> QED
    BY <1>1, <1>2 DEF Begun

\* What a call of next_token does.
LEMMA NextCalled ==
    ASSUME IInv, next_token
    PROVE  /\ pc = "idle" /\ call' = "next"
           /\ lookahead_toks = << >> =>
                 pc' = "blanks" /\ UNCHANGED <<lookahead_toks, ret, given>>
           /\ lookahead_toks # << >> =>
                 /\ lookahead_toks[1] \in Token /\ ret' = lookahead_toks[1]
                 /\ lookahead_toks' = << >> /\ UNCHANGED pc
                 /\ lookahead_toks[1].kind # "Eof" => given' = Append(given, lookahead_toks[1])
  <1>1. CASE lookahead_toks = << >>
    BY <1>1 DEF next_token, Fetch
  <1>2. CASE lookahead_toks # << >>
    <2>1. PICK t \in Token : lookahead_toks = << t >> /\ Ready(t) /\ pc = "idle"
      BY <1>2, QueueShape
    <2>2. t = lookahead_toks[1] /\ t = Head(lookahead_toks) /\ Tail(lookahead_toks) = << >>
      BY <2>1, OneTokenQueue
    <2> QED
      BY <1>2, <2>1, <2>2 DEF next_token, Fetch, HandOut, scan
  <1> QED
    BY <1>1, <1>2

\* What a call of peek_token does.
LEMMA PeekCalled ==
    ASSUME IInv, peek_token
    PROVE  /\ pc = "idle" /\ call' = "peek" /\ UNCHANGED <<lookahead_toks, given>>
           /\ lookahead_toks = << >> => pc' = "blanks"
           /\ lookahead_toks # << >> => ret' = lookahead_toks[1] /\ UNCHANGED scan
  <1>1. CASE lookahead_toks = << >>
    BY <1>1 DEF peek_token, Fetch
  <1>2. CASE lookahead_toks # << >>
    <2>1. PICK t \in Token : lookahead_toks = << t >> /\ Ready(t) /\ pc = "idle"
      BY <1>2, QueueShape
    <2>2. t = lookahead_toks[1] /\ t = Head(lookahead_toks)
      BY <2>1, OneTokenQueue
    <2> QED
      BY <1>2, <2>1, <2>2 DEF peek_token, Fetch, scan
  <1> QED
    BY <1>1, <1>2

\* What a step of fetch_token does to its callers.
LEMMA Fetched ==
    ASSUME IInv, fetch_token
    PROVE  /\ pc # "idle" /\ lookahead_toks = << >> /\ UNCHANGED call
           /\ pc' # "idle" => UNCHANGED <<lookahead_toks, given>>
           /\ pc' = "idle" /\ call = "next" =>
                 /\ ret' \in Token /\ lookahead_toks' = << >>
                 /\ ret'.kind = "Eof" => UNCHANGED given /\ ended'
                 /\ ret'.kind # "Eof" => given' = Append(given, ret')
           /\ pc' = "idle" /\ call = "peek" => UNCHANGED given
  <1>1. CASE ReturnEof \/ Punctuation \/ ReturnNumber \/ ReturnWord
    <2>1. PICK t \in Token : Return(t) /\ Ready(t) /\ pc # "idle" /\ pc # "exit"
      BY <1>1, Returned
    <2>2. lookahead_toks = << >> /\ pc' = "idle" /\ UNCHANGED call /\ call \in {"next", "peek"}
      BY <2>1, Facts DEF Return, IInv, TypeOK
    <2> QED
      BY <2>1, <2>2 DEF Return, HandOut
  <1>2. CASE EatBlank \/ Comment \/ EatComment \/ CommentEnds \/ FirstChar \/ Dispatch
               \/ EatDigit \/ EatWord
    <2>1. UNCHANGED client /\ pc # "idle" /\ pc' # "idle"
      BY <1>2 DEF EatBlank, Comment, EatComment, CommentEnds, FirstChar, Dispatch, EatDigit,
                  EatWord, Eat
    <2> QED
      BY <2>1, Facts DEF client
  <1> QED
    BY <1>1, <1>2 DEF fetch_token

LEMMA PInvFacts ==
    ASSUME PInv
    PROVE  /\ at \in 1 .. 8 /\ asked \in BOOLEAN /\ failed \in BOOLEAN /\ instrs \in Nat
           /\ given \in Seq(Token) /\ Len(given) \in Nat /\ ret \in Token
           /\ Taken \in Nat
  BY LenProperties DEF PInv, IInv, TypeOK, Taken

\* The parser asks for a token of the header, which no token is looked ahead for.
LEMMA HeaderAsks ==
    ASSUME PInv, Header, Ask, IInv'
    PROVE  PInv'
  <1>1. at \in 1 .. 5 /\ ~ asked /\ ~ failed /\ next_token
    BY ScriptFacts DEF Ask, Running, Header
  <1>2. /\ pc' = "blanks" /\ call' = "next" /\ asked' = TRUE
        /\ UNCHANGED <<lookahead_toks, given, at, instrs, func_name, failed>>
    BY <1>1, NextCalled DEF PInv, Header, Ask
  <1>3. Header'
    BY <1>1, <1>2 DEF Header
  <1> QED
    BY <1>2, <1>3 DEF PInv, Taken

\* The lexer runs for the parser.
LEMMA HeaderLexes ==
    ASSUME PInv, Header, Lex, IInv'
    PROVE  PInv'
  <1>1. UNCHANGED <<at, asked, instrs, func_name, failed>> /\ fetch_token
    BY DEF Lex, decl
  <1>2. pc # "idle" /\ UNCHANGED call /\ asked /\ ~ failed /\ Len(given) = at - 1 /\ call = "next"
    BY <1>1, Fetched DEF PInv, Header
  <1>3. CASE pc' # "idle"
    <2>1. UNCHANGED <<lookahead_toks, given>>
      BY <1>1, <1>3, Fetched DEF PInv
    <2> QED
      BY <1>1, <1>2, <1>3, <2>1 DEF PInv, Header, Taken
  <1>4. CASE pc' = "idle"
    <2>1. /\ ret' \in Token /\ lookahead_toks' = << >>
          /\ ret'.kind = "Eof" => UNCHANGED given /\ ended'
          /\ ret'.kind # "Eof" => given' = Append(given, ret')
      BY <1>1, <1>2, <1>4, Fetched DEF PInv
    <2>2. CASE ret'.kind = "Eof"
      BY <1>1, <1>2, <1>4, <2>1, <2>2 DEF PInv, Header, Taken
    <2>3. CASE ret'.kind # "Eof"
      <3>1. /\ Len(given') = at /\ given'[at] = ret'
            /\ \A i \in 1 .. at - 1 : given'[i] = given[i]
            /\ Begun(given', Taken)
        <4>1. given \in Seq(Token) /\ ret' \in Token /\ Taken \in Nat /\ Begun(given, Taken)
              /\ given' = Append(given, ret')
          BY <2>1, <2>3, PInvFacts DEF PInv
        <4>2. /\ Len(given') = Len(given) + 1 /\ given'[Len(given) + 1] = ret'
              /\ \A i \in 1 .. Len(given) : given'[i] = given[i]
              /\ Begun(given', Taken)
          BY <4>1, BegunAppend
        <4>3. Len(given) + 1 = at
          BY <1>2, PInvFacts
        <4> QED
          BY <1>2, <4>2, <4>3
      <3>2. Taken' = Taken
        BY <1>1 DEF Taken
      <3>3. at > 2 => func_name' = given'[2]
        BY <1>1, <3>1, PInvFacts DEF PInv
      <3>4. Header'
        BY <1>1, <1>2, <1>4, <2>1, <3>1 DEF Header
      <3> QED
        BY <1>1, <3>1, <3>2, <3>3, <3>4 DEF PInv
    <2> QED
      BY <2>2, <2>3
  <1> QED
    BY <1>3, <1>4

\* It takes the token, or exits.
LEMMA HeaderConsumes ==
    ASSUME PInv, Header, consume_tok_pnc, IInv'
    PROVE  PInv'
  <1>1. /\ asked /\ pc = "idle" /\ at \in 1 .. 5 /\ asked' = FALSE /\ ~ failed
        /\ UNCHANGED <<pc, lookahead_toks, given, ended, instrs>>
        /\ Script[at] = EmptyFunctionKinds[at] /\ Script[at] # "Eof"
        /\ Script[at] = "Identifier" <=> at = 2
    BY ScriptFacts DEF consume_tok_pnc, Answered, Running, Header, vars, scan, client
  <1>2. CASE ret.kind = Script[at]
    <2>1. at' = at + 1 /\ Len(given) = at /\ given[at] = ret /\ UNCHANGED failed
      BY <1>1, <1>2 DEF consume_tok_pnc, Header
    <2>2. Taken = at - 1 /\ Taken' = at
      BY <1>1, <2>1 DEF Taken
    <2>3. Begun(given', Taken')
      <3>1. \A i \in 1 .. at - 1 : given[i].kind = EmptyFunctionKinds[i]
        BY <2>2 DEF PInv, Begun
      <3>2. given[at].kind = EmptyFunctionKinds[at]
        BY <1>1, <1>2, <2>1
      <3>3. \A i \in 1 .. at : i \in 1 .. at - 1 \/ i = at
        BY <1>1
      <3> QED
        BY <1>1, <2>1, <2>2, <3>1, <3>2, <3>3 DEF Begun
    <2>4. at' > 2 => func_name' = given'[2]
      BY <1>1, <1>2, <2>1, PInvFacts DEF consume_tok_pnc, PInv
    <2>5. Header' \/ FirstPeek'
      BY <1>1, <2>1 DEF Header, FirstPeek
    <2>6. at' \in 1 .. 8 /\ asked' \in BOOLEAN /\ failed' \in BOOLEAN /\ instrs' \in Nat
      <3>1. at' \in 1 .. 8 /\ instrs' \in Nat
        BY <1>1, <2>1, PInvFacts
      <3>2. asked' \in BOOLEAN /\ failed' \in BOOLEAN
        BY <1>1, <2>1, PInvFacts, Zenon
      <3> QED
        BY <3>1, <3>2
    <2> QED
      BY <2>3, <2>4, <2>5, <2>6 DEF PInv
  <1>3. CASE ret.kind # Script[at]
    <2>1. failed' = TRUE /\ UNCHANGED <<at, func_name>>
      BY <1>3 DEF consume_tok_pnc
    <2>2. Refused
      BY <1>1, <1>3 DEF Header, Refused
    <2>3. Refused' /\ Taken' = Taken
      BY <1>1, <2>1, <2>2 DEF Refused, Taken
    <2>4. Header'
      BY <1>1, <2>1, <2>3 DEF Header
    <2> QED
      BY <1>1, <2>1, <2>3, <2>4 DEF PInv
  <1> QED
    BY <1>2, <1>3

\* The loop peeks for the first time.
LEMMA FirstPeekStep ==
    ASSUME PInv, FirstPeek, ParserNext, IInv'
    PROVE  PInv'
  <1>1. at = 6 /\ InBody /\ Taken = 5
    BY ScriptFacts DEF FirstPeek, Taken
  <1>2. CASE Ask
    <2>1. peek_token /\ ~ asked /\ asked' = TRUE /\ UNCHANGED <<at, instrs, func_name, failed>>
      BY <1>1, <1>2 DEF Ask
    <2>2. UNCHANGED <<lookahead_toks, given>> /\ call' = "peek" /\ lookahead_toks = << >>
      BY <2>1, PeekCalled DEF PInv, FirstPeek
    <2>3. FirstPeek'
      BY <2>1, <2>2 DEF FirstPeek
    <2> QED
      BY <2>1, <2>2, <2>3 DEF PInv, Taken
  <1>3. CASE Lex
    <2>1. UNCHANGED <<at, asked, instrs, func_name, failed>> /\ fetch_token
      BY <1>3 DEF Lex, decl
    <2>2. /\ pc # "idle" /\ UNCHANGED call /\ asked /\ call = "peek" /\ UNCHANGED given
          /\ lookahead_toks = << >>
          /\ pc' # "idle" => UNCHANGED lookahead_toks
      BY <2>1, Fetched DEF PInv, FirstPeek
    <2>3. FirstPeek'
      BY <2>1, <2>2 DEF FirstPeek
    <2> QED
      BY <2>1, <2>2, <2>3 DEF PInv, Taken
  <1>4. CASE consume_tok_pnc
    BY <1>1, <1>4 DEF consume_tok_pnc
  <1>5. CASE BodyEnds \/ parse_instruction
    <2>1. pc = "idle" /\ asked /\ call = "peek" /\ Len(given) = 5 /\ ~ failed /\ instrs = 0
      BY <1>5 DEF BodyEnds, parse_instruction, Answered, FirstPeek
    <2>2. /\ UNCHANGED <<pc, lookahead_toks, given, ret, func_name, failed>> /\ asked' = FALSE
      BY <1>5 DEF BodyEnds, parse_instruction, vars, scan, client
    <2>3. lookahead_toks = << ret >> /\ ret \in Token
      BY <2>1, PInvFacts DEF PInv, IInv, Queued
    <2>4. lookahead_toks # << >> /\ lookahead_toks[1] = ret
      BY <2>3, OneTokenQueue
    <2>5. CASE BodyEnds
      <3>1. at' = 7 /\ UNCHANGED instrs /\ ret.kind = "RightBrace"
        BY <1>1, <2>5 DEF BodyEnds
      <3>2. Closing' /\ Taken' = 5
        BY <2>1, <2>2, <2>4, <3>1 DEF Closing, Waiting, WaitingBrace, Taken
      <3>3. asked' \in BOOLEAN /\ failed' \in BOOLEAN
        BY <2>2, PInvFacts, Zenon
      <3> QED
        BY <1>1, <2>1, <2>2, <3>1, <3>2, <3>3 DEF PInv
    <2>6. CASE parse_instruction
      <3>1. UNCHANGED at /\ instrs' \in Nat /\ ret.kind # "RightBrace"
        BY <2>6, PInvFacts, MaxBodyAssumption DEF parse_instruction
      <3>2. Body' /\ Taken' = 5
        BY <1>1, <2>1, <2>2, <2>4, <3>1 DEF Body, Waiting, WaitingBrace, Taken
      <3> QED
        BY <1>1, <2>1, <2>2, <3>1, <3>2 DEF PInv
    <2> QED
      BY <1>5, <2>5, <2>6
  <1> QED
    BY <1>2, <1>3, <1>4, <1>5 DEF ParserNext

\* The loop stands before a token that is not the brace: it can only ask again, and store
\* one instruction more.
LEMMA BodySteps ==
    ASSUME PInv, Body, ParserNext
    PROVE  /\ UNCHANGED <<scan, lookahead_toks, given, at, func_name, failed>>
           /\ instrs' \in Nat
           /\ \/ asked' = TRUE /\ ret' = lookahead_toks[1]
              \/ asked' = FALSE
  <1>1. at = 6 /\ InBody /\ pc = "idle" /\ lookahead_toks # << >>
    BY ScriptFacts DEF Body, Waiting
  <1>2. CASE Ask
    <2>1. peek_token /\ asked' = TRUE /\ UNCHANGED <<at, instrs, func_name, failed>>
      BY <1>1, <1>2 DEF Ask
    <2> QED
      BY <1>1, <2>1, PeekCalled, PInvFacts DEF PInv
  <1>3. CASE Lex
    BY <1>1, <1>3, Fetched DEF Lex, PInv
  <1>4. CASE consume_tok_pnc
    BY <1>1, <1>4 DEF consume_tok_pnc
  <1>5. CASE BodyEnds
    BY <1>5 DEF BodyEnds, Answered, Body, Waiting, WaitingBrace
  <1>6. CASE parse_instruction
    <2>1. UNCHANGED <<scan, lookahead_toks, given, at, func_name, failed>> /\ asked' = FALSE
      BY <1>6 DEF parse_instruction, vars, client
    <2>2. instrs' \in Nat
      BY <1>6, PInvFacts, MaxBodyAssumption DEF parse_instruction
    <2> QED
      BY <2>1, <2>2
  <1> QED
    BY <1>2, <1>3, <1>4, <1>5, <1>6 DEF ParserNext

LEMMA BodyStep ==
    ASSUME PInv, Body, ParserNext, IInv'
    PROVE  PInv'
  <1>1. /\ UNCHANGED <<pc, lookahead_toks, given, at, func_name, failed>>
        /\ instrs' \in Nat
        /\ \/ asked' = TRUE /\ ret' = lookahead_toks[1]
           \/ asked' = FALSE
    BY BodySteps DEF scan
  <1>2. Body'
    BY <1>1 DEF Body, Waiting, WaitingBrace
  <1>3. Taken' = Taken
    BY <1>1 DEF Taken
  <1> QED
    BY <1>1, <1>2, <1>3 DEF PInv

\* The brace that was peeked at is taken.
LEMMA ClosingStep ==
    ASSUME PInv, Closing, ParserNext, IInv'
    PROVE  PInv'
  <1>1. at = 7 /\ ~ InBody /\ Taken = 5 /\ pc = "idle" /\ ~ failed /\ instrs = 0
    BY ScriptFacts DEF Closing, Taken, Waiting
  <1>2. CASE Ask
    <2>1. next_token /\ ~ asked /\ asked' = TRUE /\ UNCHANGED <<at, instrs, func_name, failed>>
      BY <1>1, <1>2 DEF Ask
    <2>2. lookahead_toks # << >> /\ lookahead_toks[1].kind = "RightBrace" /\ Len(given) = 5
      BY <2>1 DEF Closing, Waiting, WaitingBrace
    <2>3. /\ lookahead_toks[1] \in Token /\ ret' = lookahead_toks[1]
          /\ lookahead_toks' = << >> /\ UNCHANGED pc
          /\ given' = Append(given, lookahead_toks[1])
      BY <2>1, <2>2, NextCalled DEF PInv
    <2>4. given \in Seq(Token) /\ 5 \in Nat /\ Begun(given, 5)
      BY <1>1, PInvFacts DEF PInv
    <2>5. /\ Len(given') = 6 /\ given'[6] = ret' /\ Begun(given', 5)
          /\ \A i \in 1 .. 5 : given'[i] = given[i]
      <3>1. /\ Len(given') = Len(given) + 1 /\ given'[Len(given) + 1] = ret'
            /\ \A i \in 1 .. Len(given) : given'[i] = given[i]
            /\ Begun(given', 5)
        BY <2>3, <2>4, BegunAppend
      <3> QED
        BY <2>2, <3>1
    <2>6. Closing' /\ Taken' = 5
      BY <1>1, <2>1, <2>2, <2>3, <2>5 DEF Closing, Taken
    <2>7. func_name' = given'[2]
      BY <1>1, <2>1, <2>5 DEF PInv
    <2> QED
      BY <1>1, <2>1, <2>5, <2>6, <2>7 DEF PInv
  <1>3. CASE Lex
    BY <1>1, <1>3, Fetched DEF Lex, PInv
  <1>4. CASE consume_tok_pnc
    <2>1. /\ asked /\ asked' = FALSE /\ Len(given) = 6 /\ given[6] = ret
          /\ ret.kind = "RightBrace" /\ lookahead_toks = << >> /\ Script[at] = "RightBrace"
          /\ EmptyFunctionKinds[6] = "RightBrace" /\ Script[at] # "Identifier"
      BY <1>1, <1>4, ScriptFacts DEF consume_tok_pnc, Answered, Closing
    <2>2. at' = 8 /\ UNCHANGED <<pc, failed, func_name, given, lookahead_toks, instrs>>
      BY <1>1, <1>4, <2>1 DEF consume_tok_pnc, vars, scan, client
    <2>3. Done' /\ Taken' = 6
      BY <1>1, <2>1, <2>2 DEF Done, Taken
    <2>4. Begun(given', 6)
      <3>1. \A i \in 1 .. 5 : given[i].kind = EmptyFunctionKinds[i]
        BY <1>1 DEF PInv, Begun
      <3>2. \A i \in 1 .. 6 : i \in 1 .. 5 \/ i = 6
        OBVIOUS
      <3>3. \A i \in 1 .. 6 : given[i].kind = EmptyFunctionKinds[i]
        BY <2>1, <3>1, <3>2
      <3>4. Begun(given, 6) /\ given' = given
        BY <2>1, <2>2, <3>3 DEF Begun
      <3> QED
        BY <3>4
    <2>5. func_name' = given'[2] /\ at' \in 1 .. 8 /\ instrs' \in Nat
      BY <1>1, <2>2 DEF PInv
    <2>6. asked' \in BOOLEAN /\ failed' \in BOOLEAN
      BY <2>1, <2>2, PInvFacts, Zenon
    <2> QED
      BY <2>3, <2>4, <2>5, <2>6 DEF PInv
  <1>5. CASE BodyEnds \/ parse_instruction
    BY <1>1, <1>5 DEF BodyEnds, parse_instruction
  <1> QED
    BY <1>2, <1>3, <1>4, <1>5 DEF ParserNext

LEMMA ParserStep == PInv /\ [ParserNext]_parserVars => PInv'
  <1> SUFFICES ASSUME PInv, [ParserNext]_parserVars PROVE PInv'
    OBVIOUS
  <1>1. IInv'
    BY ParserStepIsLexerStep, StepIInv DEF PInv
  <1>2. CASE ParserNext
    <2>1. CASE Header
      <3>1. ~ InBody
        BY <2>1, ScriptFacts DEF Header
      <3> QED
        BY <1>1, <1>2, <2>1, <3>1, HeaderAsks, HeaderLexes, HeaderConsumes
           DEF ParserNext, BodyEnds, parse_instruction
    <2>2. CASE FirstPeek
      BY <1>1, <1>2, <2>2, FirstPeekStep
    <2>3. CASE Body
      BY <1>1, <1>2, <2>3, BodyStep
    <2>4. CASE Closing
      BY <1>1, <1>2, <2>4, ClosingStep
    <2>5. CASE Done
      <3>1. ~ Running /\ pc = "idle"
        BY <2>5, ScriptFacts DEF Done, Running
      <3>2. Lex
        BY <1>2, <3>1 DEF ParserNext, Ask, consume_tok_pnc, BodyEnds, parse_instruction, Answered
      <3> QED
        BY <3>1, <3>2, Fetched DEF Lex, PInv
    <2> QED
      BY <2>1, <2>2, <2>3, <2>4, <2>5 DEF PInv
  <1>3. CASE UNCHANGED parserVars
    <2>1. UNCHANGED <<at, asked, instrs, func_name, failed, pc, call, ret, given, lookahead_toks,
                      ended>>
      BY <1>3 DEF parserVars, vars, decl, scan, client
    <2>2. UNCHANGED <<Taken, Header, FirstPeek, Body, Closing, Done>>
      BY <2>1 DEF Taken, Header, Refused, FirstPeek, Body, Closing, Done, Waiting, WaitingBrace
    <2> QED
      BY <1>1, <2>1, <2>2 DEF PInv
  <1> QED
    BY <1>2, <1>3

LEMMA ParserInductive == ParserSpec => []PInv
  <1>1. ParserInit => PInv
    <2> SUFFICES ASSUME ParserInit PROVE PInv
      OBVIOUS
    <2>1. Init /\ at = 1 /\ asked = FALSE /\ failed = FALSE /\ instrs = 0
      BY DEF ParserInit
    <2>2. IInv /\ pc = "idle" /\ lookahead_toks = << >> /\ given = << >> /\ Len(given) = 0
      BY <2>1, InitIInv, EmptySeq DEF Init
    <2>3. Taken = 0 /\ Begun(given, 0)
      BY <2>1, <2>2 DEF Taken, Begun
    <2>4. Header
      BY <2>1, <2>2 DEF Header
    <2>5. at \in 1 .. 8 /\ instrs \in Nat /\ ~ (at > 2)
      BY <2>1
    <2>6. asked \in BOOLEAN /\ failed \in BOOLEAN
      BY <2>1, Zenon
    <2> QED
      BY <2>2, <2>3, <2>4, <2>5, <2>6 DEF PInv
  <1> QED
    BY <1>1, ParserStep, PTL DEF ParserSpec

-----------------------------------------------------------------------------
(* What follows from it.                                                   *)

\* What parse_func_decl returns is an empty function with the name it was written under,
\* whatever the program is: six tokens were taken and none is looked ahead.
THEOREM ReturnsEmptyFunctions == ParserSpec => []ReturnedIsEmpty
  <1>1. PInv => ReturnedIsEmpty
    <2> SUFFICES ASSUME PInv, returned PROVE ReturnedIsEmpty
      BY DEF ReturnedIsEmpty
    <2>1. at = 8 /\ Taken = 6
      BY ScriptFacts DEF PInv, Taken
    <2>2. Done
      BY <2>1 DEF PInv, Header, FirstPeek, Body, Closing
    <2>3. Len(given) = 6 /\ \A i \in 1 .. 6 : given[i].kind = EmptyFunctionKinds[i]
      BY <2>1, <2>2 DEF Done, PInv, Begun
    <2>4. Kinds(given) = [i \in 1 .. 6 |-> EmptyFunctionKinds[i]]
      BY <2>3 DEF Kinds
    <2>5. EmptyFunctionKinds = [i \in 1 .. 6 |-> EmptyFunctionKinds[i]]
      BY DEF EmptyFunctionKinds
    <2> QED
      BY <2>1, <2>2, <2>4, <2>5 DEF ReturnedIsEmpty, Done, PInv
  <1> QED
    BY <1>1, ParserInductive, PTL

\* With one instruction in instrs the loop of parse_func_decl stands for ever: no later step
\* takes a token, moves the cursor, returns or exits.
THEOREM BodyNeverMoves == ParserSpec => BodyStandsStill
  <1> DEFINE Still == instrs > 0 =>
                         /\ UNCHANGED <<scan, lookahead_toks, given, at, func_name>>
                         /\ ~ returned' /\ ~ failed'
  <1>1. PInv /\ [ParserNext]_parserVars => [Still]_parserVars
    <2> SUFFICES ASSUME PInv, ParserNext, instrs > 0
                 PROVE  /\ UNCHANGED <<scan, lookahead_toks, given, at, func_name>>
                        /\ ~ returned' /\ ~ failed'
      OBVIOUS
    <2>1. Body
      BY DEF PInv, Header, FirstPeek, Closing, Done, ParserNext
    <2> QED
      BY <2>1, BodySteps DEF Body, returned, Script
  <1> QED
    BY <1>1, ParserInductive, PTL DEF ParserSpec, BodyStandsStill
\* A function that is written as one is never refused, whatever its body is: no token of its
\* header is mistaken, skipped over or cut short, with any blanks and comments in between.
THEOREM RefusesOnlyWrong == ParserSpec => []RefusedIsWrong
  <1>1. PInv /\ Chained => RefusedIsWrong
    <2> SUFFICES ASSUME PInv, Chained, failed \/ (pc = "exit" /\ ~ InBody), FunctionBegins
                 PROVE  FALSE
      BY DEF RefusedIsWrong
    <2>1. Header /\ at \in 1 .. 5
      BY ScriptFacts DEF PInv, Header, FirstPeek, Body, Closing, Done, Waiting
    <2>2. /\ Len(source) \in Nat /\ given \in Seq(Token) /\ Len(given) \in Nat
          /\ lookahead_toks = << >>
      BY <2>1, Facts, PInvFacts DEF PInv, Header
    <2>3. PICK q \in [0 .. 5 -> Nat] :
             /\ q[0] = 0
             /\ \A i \in 1 .. 5 : /\ q[i] <= Len(source)
                                  /\ FollowsOf(source, EmptyFunctionKinds[i], q[i - 1], q[i])
      <3> DEFINE Ends == 1 .. Len(source)
      <3>1. PICK e1 \in Ends, e2 \in Ends, e3 \in Ends, e4 \in Ends, e5 \in Ends :
               /\ Follows("Fn", 0, e1) /\ Follows("Identifier", e1, e2)
               /\ Follows("LeftParen", e2, e3) /\ Follows("RightParen", e3, e4)
               /\ Follows("LeftBrace", e4, e5)
        BY DEF FunctionBegins
      <3> DEFINE w == [i \in 0 .. 5 |-> IF i = 0 THEN 0 ELSE IF i = 1 THEN e1
                         ELSE IF i = 2 THEN e2 ELSE IF i = 3 THEN e3
                         ELSE IF i = 4 THEN e4 ELSE e5]
      <3>2. /\ w[0] = 0 /\ w[1] = e1 /\ w[2] = e2 /\ w[3] = e3 /\ w[4] = e4 /\ w[5] = e5
            /\ w \in [0 .. 5 -> Nat]
        OBVIOUS
      <3> HIDE DEF w
      <3>3. /\ FollowsOf(source, EmptyFunctionKinds[1], w[0], w[1])
            /\ FollowsOf(source, EmptyFunctionKinds[2], w[1], w[2])
            /\ FollowsOf(source, EmptyFunctionKinds[3], w[2], w[3])
            /\ FollowsOf(source, EmptyFunctionKinds[4], w[3], w[4])
            /\ FollowsOf(source, EmptyFunctionKinds[5], w[4], w[5])
        BY <3>1, <3>2, FollowsTerms DEF EmptyFunctionKinds
      <3>4. ASSUME NEW i \in 1 .. 5
            PROVE  /\ w[i] <= Len(source)
                   /\ FollowsOf(source, EmptyFunctionKinds[i], w[i - 1], w[i])
        <4>1. /\ 1 - 1 = 0 /\ 2 - 1 = 1 /\ 3 - 1 = 2 /\ 4 - 1 = 3 /\ 5 - 1 = 4
              /\ i \in {1, 2, 3, 4, 5}
          OBVIOUS
        <4>2. w[i] \in Ends
          BY <3>2, <4>1
        <4>3. w[i] <= Len(source)
          BY <2>2, <4>2
        <4> QED
          BY <3>3, <4>1, <4>3
      <3> QED
        BY <3>2, <3>4
    <2>4. ASSUME NEW i \in 1 .. 5, i <= Len(given), EndAt(i - 1) = q[i - 1]
          PROVE  EndAt(i) = q[i] /\ given[i].kind = EmptyFunctionKinds[i]
      <3>1. i \in 1 .. Len(given) /\ i - 1 \in 0 .. 5 /\ i \in 0 .. 5
        BY <2>2, <2>4
      <3>2. /\ FollowsOf(source, given[i].kind, q[i - 1], EndAt(i))
            /\ EndAt(i) \in Nat /\ EndAt(i) <= Len(source)
        BY <2>2, <2>4, <3>1 DEF Chained
      <3>3. /\ FollowsOf(source, EmptyFunctionKinds[i], q[i - 1], q[i])
            /\ q[i] <= Len(source) /\ q[i] \in Nat /\ q[i - 1] \in Nat
        BY <2>3, <3>1
      <3> QED
        BY <2>2, <3>2, <3>3, OneFollows
    <2>5. \A i \in 0 .. at - 1 : i <= Len(given) => EndAt(i) = q[i]
      <3>0. EndAt(0) = q[0]
        BY <2>3 DEF EndAt
      <3>1. 1 <= Len(given) => EndAt(1) = q[1]
        <4>1. 1 - 1 = 0 /\ 1 \in 1 .. 5
          OBVIOUS
        <4> QED
          BY <2>4, <3>0, <4>1
      <3>2. 2 <= Len(given) => EndAt(2) = q[2]
        <4>1. 2 - 1 = 1 /\ 2 \in 1 .. 5 /\ (2 <= Len(given) => 1 <= Len(given))
          BY <2>2
        <4> QED
          BY <2>4, <3>1, <4>1
      <3>3. 3 <= Len(given) => EndAt(3) = q[3]
        <4>1. 3 - 1 = 2 /\ 3 \in 1 .. 5 /\ (3 <= Len(given) => 2 <= Len(given))
          BY <2>2
        <4> QED
          BY <2>4, <3>2, <4>1
      <3>4. 4 <= Len(given) => EndAt(4) = q[4]
        <4>1. 4 - 1 = 3 /\ 4 \in 1 .. 5 /\ (4 <= Len(given) => 3 <= Len(given))
          BY <2>2
        <4> QED
          BY <2>4, <3>3, <4>1
      <3>5. \A i \in 0 .. at - 1 : i \in {0, 1, 2, 3, 4}
        BY <2>1
      <3> QED
        BY <3>0, <3>1, <3>2, <3>3, <3>4, <3>5
    <2>6. /\ at - 1 \in 0 .. at - 1 /\ at \in 1 .. 5 /\ at - 1 \in 0 .. 5 /\ at \in 0 .. 5
          /\ q[at - 1] \in Nat /\ q[at] \in Nat /\ q[at] <= Len(source)
          /\ FollowsOf(source, EmptyFunctionKinds[at], q[at - 1], q[at])
      BY <2>1, <2>3
    <2>7. CASE Len(given) = at
      <3>1. EndAt(at - 1) = q[at - 1]
        BY <2>5, <2>6, <2>7
      <3>2. given[at].kind = EmptyFunctionKinds[at]
        <4>1. at <= Len(given)
          BY <2>6, <2>7
        <4> QED
          BY <2>4, <2>6, <3>1, <4>1
      <3>3. pc = "idle"
        BY <2>1, <2>6, <2>7 DEF Header
      <3>4. failed
        BY <3>3
      <3> QED
        BY <2>1, <2>6, <2>7, <3>2, <3>4 DEF Header, Refused
    <2>8. CASE Len(given) = at - 1
      <3>1. EndOf(given) = q[at - 1]
        <4>1. at - 1 <= Len(given)
          BY <2>6, <2>8
        <4>2. EndAt(at - 1) = q[at - 1]
          BY <2>5, <2>6, <4>1
        <4> QED
          BY <2>2, <2>8, <4>2, EndOfGiven
      <3>2. CASE failed
        <4>1. ended /\ pc = "idle"
          BY <2>1, <2>6, <2>8, <3>2 DEF Header, Refused
        <4>2. GapOf(source, EndOf(given), curr) /\ curr = Len(source)
          BY <2>2, <4>1, Facts DEF PInv, IInv, Making, Queued, Gap, reached_eof
        <4> QED
          BY <2>2, <2>6, <3>1, <4>2, NotAtEnd
      <3>3. CASE pc = "exit"
        <4>1. /\ EndOf(given) <= start /\ start \in Nat /\ Unknown(source[start + 1])
              /\ GapOf(source, EndOf(given), start) /\ ~ InC(source, EndOf(given), start)
          BY <3>3, Facts DEF PInv, IInv, Making, Gap, Commented
        <4> QED
          BY <2>6, <3>1, <4>1, NotUnknown
      <3> QED
        BY <3>2, <3>3
    <2>9. Len(given) = at \/ Len(given) = at - 1
      BY <2>1 DEF Header, Refused
    <2> QED
      BY <2>7, <2>8, <2>9
  <1> QED
    BY <1>1, ParserInductive, ParserIsAClient, GivenIsChained, PTL
=============================================================================
