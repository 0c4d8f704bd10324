----------------------------- MODULE AsmCcSpec ------------------------------
(***************************************************************************)
(* What the retired lexer promises, whatever is peeked at: next_token      *)
(* hands out the longest tokens of the program from left to right, without *)
(* blanks and comments.  A comment goes from a '/' to the end of its line. *)
(***************************************************************************)
EXTENDS AsmCcChars

CONSTANT Sources        \* the programs considered

VARIABLES
    source,     \* file_content
    given,      \* the tokens handed out, Eof excluded
    outcome     \* "running", "eof" or "exit"

vars == <<source, given, outcome>>

\* The offset just after the last token.
End == IF given = << >> THEN 0
       ELSE given[Len(given)].offset + given[Len(given)].len

\* The character before offset e belongs to a comment that began at s or behind it.
InComment(s, e) ==
    \E j \in s + 1 .. e : is_comment_start(source[j]) /\ \A l \in j .. e : source[l] # "\n"

\* Nothing but blanks and comments from s to e.
Gap(s, e) == \A i \in s + 1 .. e : is_whitespace(source[i]) \/ InComment(s, i)

\* A token can begin at s.
Between(s) == Gap(End, s) /\ ~ InComment(End, s)

IsPunctuation(s, e) == e = s + 1 /\ source[e] \in PunctuationChars

IsNumber(s, e) ==
    /\ is_decimal_digit_start(source[s + 1])
    /\ \A i \in s + 2 .. e : is_decimal_digit(source[i])
    /\ e < Len(source) => ~ is_decimal_digit(source[e + 1])

IsWord(s, e) ==
    /\ is_identifier_start(source[s + 1])
    /\ \A i \in s + 1 .. e : can_continue_identifier(source[i])
    /\ e < Len(source) => ~ can_continue_identifier(source[e + 1])

TokenAt(k, s, e) ==
    \/ IsPunctuation(s, e) /\ k = PunctuationKind(source[e])
    \/ IsNumber(s, e) /\ k = "Number"
    \/ IsWord(s, e) /\ k = WordKind(substring(source, s, e))

-----------------------------------------------------------------------------
Init ==
    /\ source \in Sources
    /\ given = << >>
    /\ outcome = "running"

HandOut ==
    /\ outcome = "running"
    /\ \E s, e \in End .. Len(source), k \in TokenKind :
          /\ s < e
          /\ Between(s)
          /\ TokenAt(k, s, e)
          /\ given' = Append(given, token(k, s, e - s))
    /\ UNCHANGED <<source, outcome>>

Finish ==
    /\ outcome = "running"
    /\ Gap(End, Len(source))
    /\ outcome' = "eof"
    /\ UNCHANGED <<source, given>>

\* Also when the token is only peeked at.
Refuse ==
    /\ outcome = "running"
    /\ \E s \in End .. Len(source) - 1 : Between(s) /\ Unknown(source[s + 1])
    /\ outcome' = "exit"
    /\ UNCHANGED <<source, given>>

Next == HandOut \/ Finish \/ Refuse

Spec == Init /\ [][Next]_vars
=============================================================================
