------------------------------- MODULE Lexer --------------------------------
(***************************************************************************)
(* fiskas/lexer.hh and fiskas/lexer.cc: a cursor over the source and       *)
(* next_token, one action per step of its loops.  The client (a parser, or *)
(* check_toks_eq of lexer_test.cc) calls next_token again and again, also  *)
(* after Eof.  A failed assertion or fiska_unreachable ends the process:   *)
(* pc = "abort".                                                           *)
(***************************************************************************)
EXTENDS LexerChars

CONSTANTS
    Chars,      \* the values of a char
    Sources     \* the programs considered

ASSUME SourcesAssumption == " " \in Chars /\ Sources \subseteq Seq(Chars)

VARIABLES
    source,     \* Cursor::source
    curr,       \* Cursor::pos()
    prev,       \* Cursor::prev, the last character eaten
    pc,         \* where next_token is; "idle" between two calls
    start,      \* start_offset
    tok,        \* the token the last call returned
    toks        \* every token returned so far, Eof excluded

cursor == <<source, curr, prev>>
vars == <<source, curr, prev, pc, start, tok, toks>>

PC == {"idle", "blanks", "dispatch", "number", "ident", "abort"}

TypeOK ==
    /\ source \in Sources
    /\ curr \in 0 .. Len(source)
    /\ prev \in Chars
    /\ pc \in PC
    /\ start \in 0 .. Len(source)
    /\ tok \in Token
    /\ toks \in Seq(Token)

-----------------------------------------------------------------------------
(* The cursor.                                                             *)

eof == curr >= Len(source)

next_char ==
    /\ ~ eof
    /\ prev' = source[curr + 1]
    /\ curr' = curr + 1
    /\ UNCHANGED source

Init ==
    /\ source \in Sources
    /\ curr = 0
    /\ prev = " "
    /\ pc = "idle"
    /\ start = 0
    /\ tok = gen("Invalid", 0, 0)
    /\ toks = << >>

-----------------------------------------------------------------------------
(* next_token.                                                             *)

\* One iteration of eat_while(p) at location loc: ~ eof and p(peek) is the guard.
Eat(loc, p(_)) ==
    /\ pc = loc
    /\ ~ eof
    /\ p(source[curr + 1])
    /\ next_char
    /\ UNCHANGED <<pc, start, tok, toks>>

\* eat_while(p) stops: nothing is left, or the next character is not p.
Stops(loc, p(_)) ==
    /\ pc = loc
    /\ ~ eof => ~ p(source[curr + 1])

Return(k) ==
    /\ tok' = gen(k, start, curr - start)
    /\ toks' = Append(toks, tok')
    /\ pc' = "idle"
    /\ UNCHANGED <<cursor, start>>

Call ==
    /\ pc = "idle"
    /\ pc' = "blanks"
    /\ UNCHANGED <<cursor, start, tok, toks>>

\* Mutant: the blank is looked at and left where it is.
LookAtBlank ==
    /\ pc = "blanks"
    /\ ~ eof
    /\ is_whitespace(source[curr + 1])
    /\ UNCHANGED vars

EatBlank == Eat("blanks", is_whitespace)

\* Mutant: Eof gets an offset.
ReturnEofHere ==
    /\ pc = "blanks"
    /\ eof
    /\ tok' = gen("Eof", curr, 0)
    /\ pc' = "idle"
    /\ UNCHANGED <<cursor, start, toks>>

ReturnEof ==
    /\ pc = "blanks"
    /\ eof
    /\ tok' = EofToken
    /\ pc' = "idle"
    /\ UNCHANGED <<cursor, start, toks>>

\* Mutant: start_offset is taken after the first character is eaten.
FirstCharThenStart ==
    /\ Stops("blanks", is_whitespace)
    /\ start' = curr + 1
    /\ next_char
    /\ pc' = "dispatch"
    /\ UNCHANGED <<tok, toks>>

FirstChar ==
    /\ Stops("blanks", is_whitespace)
    /\ start' = curr
    /\ next_char
    /\ pc' = "dispatch"
    /\ UNCHANGED <<tok, toks>>

ReturnOneChar ==
    /\ pc = "dispatch"
    /\ prev \in OneCharTokens
    /\ Return(OneCharKind(prev))

\* multi_char_token_kind decides on prev, the character just eaten.
multi_char_token_kind ==
    /\ pc = "dispatch"
    /\ prev \notin OneCharTokens
    /\ \/ is_number(prev) /\ pc' = "number"
       \/ is_ident_start(prev) /\ pc' = "ident"
       \/ StartsNothing(prev) /\ pc' = "abort"
    /\ UNCHANGED <<cursor, start, tok, toks>>

EatDigit == Eat("number", is_number)

ReturnNumber ==
    /\ Stops("number", is_number)
    /\ Return("Number")

EatIdent == Eat("ident", is_ident_continue)

\* Mutants: the word ends at the first character that does not start one; the keywords
\* are not looked up.
ReturnLetters ==
    /\ Stops("ident", is_ident_start)
    /\ Return(KeywordOrIdentifier(source_substring(source, start, curr)))

ReturnIdentifier ==
    /\ Stops("ident", is_ident_continue)
    /\ Return("Identifier")

ReturnWord ==
    /\ Stops("ident", is_ident_continue)
    /\ Return(KeywordOrIdentifier(source_substring(source, start, curr)))

next_token ==
    \/ EatBlank
    \/ ReturnEof
    \/ FirstChar
    \/ ReturnOneChar
    \/ multi_char_token_kind
    \/ EatDigit
    \/ ReturnNumber
    \/ EatIdent
    \/ ReturnWord

Next == Call \/ next_token

Spec == Init /\ [][Next]_vars

\* next_token is straight-line code: once called it runs.  The client asks for
\* the next token until it has seen Eof, as check_toks_eq does.
FairSpec == Spec /\ WF_vars(next_token) /\ WF_vars(tok.kind # "Eof" /\ Call)

-----------------------------------------------------------------------------
(* Correctness.                                                            *)

TokEnd(t) == t.offset + t.len

\* The offset up to which the source has been turned into tokens.
Covered == IF toks = << >> THEN 0 ELSE TokEnd(toks[Len(toks)])

\* Where the token in the making begins; the cursor when there is none.
Pending == IF pc \in {"dispatch", "number", "ident", "abort"} THEN start ELSE curr

\* The returned tokens lie in order, none is empty or overlaps the one before,
\* every character between two of them, or between the last one and the token in
\* the making, is blank, and no token holds a blank: next_token neither loses a
\* character of the program nor reads one twice.
TokensTile ==
    /\ \A i \in 1 .. Len(toks) :
          /\ toks[i].len > 0
          /\ \A j \in toks[i].offset + 1 .. TokEnd(toks[i]) : ~ is_whitespace(source[j])
          /\ LET from == IF i = 1 THEN 0 ELSE TokEnd(toks[i - 1])
             IN  /\ from <= toks[i].offset
                 /\ \A j \in from + 1 .. toks[i].offset : is_whitespace(source[j])
    /\ Covered <= Pending
    /\ \A j \in Covered + 1 .. Pending : is_whitespace(source[j])

\* A number or a word is never cut short: the character after it, if any, could
\* not have continued it, so two adjacent tokens are never one token of the language.
LongestMatch ==
    \A i \in 1 .. Len(toks) :
       TokEnd(toks[i]) < Len(source) =>
          LET next == source[TokEnd(toks[i]) + 1]
          IN  /\ toks[i].kind = "Number" => ~ is_number(next)
              /\ toks[i].kind \in {"Fn", "Identifier"} => ~ is_ident_continue(next)

\* Once a call has answered Eof every later call does, and no token is added.
EofIsFinal ==
    [][tok.kind = "Eof" => tok' = EofToken /\ toks' = toks /\ pc' # "abort"]_vars

\* Every program is lexed to its end or refused: no loop of next_token spins.
LexerEnds == <>(tok.kind = "Eof" \/ pc = "abort")

\* next_token implements the abstract tokenizer.
Outcome == IF pc = "abort" THEN "abort"
           ELSE IF tok.kind = "Eof" THEN "eof" ELSE "running"

TS == INSTANCE TokenSpec WITH outcome <- Outcome

Tokenizes == TS!Spec
=============================================================================
