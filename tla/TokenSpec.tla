----------------------------- MODULE TokenSpec ------------------------------
(***************************************************************************)
(* What Lexer::next_token promises to the parser, without a cursor: from   *)
(* left to right the source is cut into blanks and the longest possible    *)
(* tokens, until only blanks are left ("eof") or a character is met that   *)
(* no token starts with ("abort").                                         *)
(***************************************************************************)
EXTENDS LexerChars

CONSTANT Sources        \* the programs considered, a set of sequences

VARIABLES
    source,     \* the program text
    toks,       \* the tokens produced so far, Eof excluded
    outcome     \* "running", "eof" or "abort"

vars == <<source, toks, outcome>>

\* The offset just after the last token.
End == IF toks = << >> THEN 0
       ELSE toks[Len(toks)].offset + toks[Len(toks)].len

Blank(s, e) == \A i \in s + 1 .. e : is_whitespace(source[i])

\* The characters at offsets s .. e-1 are a token, and no longer one starts at s.
IsOneChar(s, e) == e = s + 1 /\ source[e] \in OneCharTokens

IsNumber(s, e) ==
    /\ \A i \in s + 1 .. e : is_number(source[i])
    /\ e < Len(source) => ~ is_number(source[e + 1])

IsWord(s, e) ==
    /\ is_ident_start(source[s + 1])
    /\ \A i \in s + 1 .. e : is_ident_continue(source[i])
    /\ e < Len(source) => ~ is_ident_continue(source[e + 1])

TokenAt(k, s, e) ==
    \/ IsOneChar(s, e) /\ k = OneCharKind(source[e])
    \/ IsNumber(s, e) /\ k = "Number"
    \/ IsWord(s, e) /\ k = KeywordOrIdentifier(source_substring(source, s, e))

-----------------------------------------------------------------------------
Init ==
    /\ source \in Sources
    /\ toks = << >>
    /\ outcome = "running"

Emit ==
    /\ outcome = "running"
    /\ \E s, e \in End .. Len(source), k \in TokenKind :
          /\ s < e
          /\ Blank(End, s)
          /\ TokenAt(k, s, e)
          /\ toks' = Append(toks, gen(k, s, e - s))
    /\ UNCHANGED <<source, outcome>>

Finish ==
    /\ outcome = "running"
    /\ Blank(End, Len(source))
    /\ outcome' = "eof"
    /\ UNCHANGED <<source, toks>>

Reject ==
    /\ outcome = "running"
    /\ \E s \in End .. Len(source) - 1 :
          Blank(End, s) /\ StartsNothing(source[s + 1])
    /\ outcome' = "abort"
    /\ UNCHANGED <<source, toks>>

Next == Emit \/ Finish \/ Reject

Spec == Init /\ [][Next]_vars

FairSpec == Spec /\ WF_vars(Next)
=============================================================================
