----------------------------- MODULE AsmCcLexer -----------------------------
(***************************************************************************)
(* The retired lexer, cemetery/asm_cc/lexer.hh and                         *)
(* cemetery/asm_cc_lib/lexer.cc: a cursor and a queue of tokens looked     *)
(* ahead.  A client calls next_token and peek_token in any order; one      *)
(* action is one step of fetch_token, which calls itself behind a comment. *)
(* pc = "exit" is std::exit.                                               *)
(***************************************************************************)
EXTENDS AsmCcChars, FiniteSets

CONSTANTS
    Chars,      \* the values of a char
    Sources     \* the programs considered

ASSUME SourcesAssumption == Sources \subseteq Seq(Chars)

VARIABLES
    source,         \* file_content
    curr,           \* current_offset()
    lookahead_toks, \* the queue
    pc,             \* where fetch_token is; "idle" between two calls
    start,          \* where the token in the making begins
    call,           \* the member function called last
    frames,         \* how deep fetch_token has called itself
    ret,            \* what the last call returned
    given,          \* what next_token has returned so far, Eof excluded
    ended           \* next_token has returned Eof

scan == <<source, curr, pc, start, frames>>
client == <<lookahead_toks, call, ret, given, ended>>
vars == <<scan, client>>

PC == {"idle", "blanks", "comment", "dispatch", "number", "word", "exit"}

TypeOK ==
    /\ source \in Sources
    /\ curr \in 0 .. Len(source) /\ start \in 0 .. Len(source)
    /\ lookahead_toks \in Seq(Token) /\ given \in Seq(Token)
    /\ pc \in PC
    /\ call \in {"next", "peek"}
    /\ frames \in Nat
    /\ ret \in Token
    /\ ended \in BOOLEAN

Init ==
    /\ source \in Sources
    /\ curr = 0 /\ start = 0 /\ frames = 0
    /\ lookahead_toks = << >> /\ given = << >>
    /\ pc = "idle" /\ call = "next" /\ ended = FALSE
    /\ ret = token("Invalid", 0, 0)

reached_eof == curr >= Len(source)

-----------------------------------------------------------------------------
(* The calls.                                                              *)

\* next_token hands t out.
HandOut(t) ==
    /\ ret' = t
    /\ IF t.kind = "Eof" THEN ended' = TRUE /\ UNCHANGED given
                         ELSE given' = Append(given, t) /\ UNCHANGED ended

\* Both calls go to fetch_token when nothing was looked ahead.
Fetch(f) ==
    /\ pc = "idle" /\ lookahead_toks = << >>
    /\ call' = f
    /\ pc' = "blanks" /\ frames' = 1
    /\ UNCHANGED <<source, curr, start, lookahead_toks, ret, given, ended>>

\* Mutants: the queue is passed by; the token stays in the queue.
next_token_fetches ==
    /\ pc = "idle"
    /\ call' = "next"
    /\ pc' = "blanks" /\ frames' = 1
    /\ UNCHANGED <<source, curr, start, lookahead_toks, ret, given, ended>>

next_token_without_pop ==
    \/ Fetch("next")
    \/ /\ pc = "idle" /\ lookahead_toks # << >>
       /\ call' = "next"
       /\ HandOut(Head(lookahead_toks))
       /\ UNCHANGED <<scan, lookahead_toks>>

next_token ==
    \/ Fetch("next")
    \/ /\ pc = "idle" /\ lookahead_toks # << >>
       /\ call' = "next"
       /\ HandOut(Head(lookahead_toks))
       /\ lookahead_toks' = Tail(lookahead_toks)
       /\ UNCHANGED scan

\* Mutant: peek_token always fetches.
peek_token_again ==
    /\ pc = "idle"
    /\ call' = "peek"
    /\ pc' = "blanks" /\ frames' = 1
    /\ UNCHANGED <<source, curr, start, lookahead_toks, ret, given, ended>>

peek_token ==
    \/ Fetch("peek")
    \/ /\ pc = "idle" /\ lookahead_toks # << >>
       /\ call' = "peek"
       /\ ret' = Head(lookahead_toks)
       /\ UNCHANGED <<scan, lookahead_toks, given, ended>>

-----------------------------------------------------------------------------
(* fetch_token.                                                            *)

\* It returns, through all its frames, to the call that is running.
Return(t) ==
    /\ pc' = "idle" /\ frames' = 0
    /\ IF call = "next" THEN HandOut(t) /\ UNCHANGED lookahead_toks
       ELSE /\ ret' = t
            /\ lookahead_toks' = Append(lookahead_toks, t)
            /\ UNCHANGED <<given, ended>>
    /\ UNCHANGED <<source, curr, start, call>>

Eat(loc) ==
    /\ pc = loc
    /\ curr' = curr + 1
    /\ UNCHANGED <<source, pc, start, frames, client>>

EatBlank ==
    /\ ~ reached_eof /\ is_whitespace(source[curr + 1])
    /\ Eat("blanks")

ReturnEof ==
    /\ pc = "blanks" /\ reached_eof
    /\ Return(token("Eof", curr, 0))

\* The '/' is only peeked at: the loop over the line eats it.
Comment ==
    /\ pc = "blanks" /\ ~ reached_eof
    /\ is_comment_start(source[curr + 1])
    /\ pc' = "comment"
    /\ UNCHANGED <<source, curr, start, frames, client>>

EatComment ==
    /\ ~ reached_eof /\ source[curr + 1] # "\n"
    /\ Eat("comment")

\* Mutants: a comment needs an end of line; it is taken to end at a blank.
CommentNeedsLine ==
    /\ pc = "comment"
    /\ ~ reached_eof /\ source[curr + 1] = "\n"
    /\ pc' = "blanks" /\ frames' = frames + 1
    /\ UNCHANGED <<source, curr, start, client>>

CommentEndsAtBlank ==
    /\ pc = "comment"
    /\ ~ reached_eof => is_whitespace(source[curr + 1])
    /\ pc' = "blanks" /\ frames' = frames + 1
    /\ UNCHANGED <<source, curr, start, client>>

\* return fetch_token();
CommentEnds ==
    /\ pc = "comment"
    /\ ~ reached_eof => source[curr + 1] = "\n"
    /\ pc' = "blanks" /\ frames' = frames + 1
    /\ UNCHANGED <<source, curr, start, client>>

FirstChar ==
    /\ pc = "blanks" /\ ~ reached_eof
    /\ ~ is_whitespace(source[curr + 1]) /\ ~ is_comment_start(source[curr + 1])
    /\ start' = curr /\ curr' = curr + 1
    /\ pc' = "dispatch"
    /\ UNCHANGED <<source, frames, client>>

\* The switch on the character next_char_pnc returned.
Punctuation ==
    /\ pc = "dispatch" /\ source[curr] \in PunctuationChars
    /\ Return(token(PunctuationKind(source[curr]), start, 1))

Dispatch ==
    LET c == source[curr]
    IN  /\ pc = "dispatch" /\ c \notin PunctuationChars
        /\ \/ is_identifier_start(c) /\ pc' = "word"
           \/ is_decimal_digit_start(c) /\ pc' = "number"
           \/ Unknown(c) /\ pc' = "exit"
        /\ UNCHANGED <<source, curr, start, frames, client>>

EatDigit ==
    /\ ~ reached_eof /\ is_decimal_digit(source[curr + 1])
    /\ Eat("number")

ReturnNumber ==
    /\ pc = "number"
    /\ ~ reached_eof => ~ is_decimal_digit(source[curr + 1])
    /\ Return(token("Number", start, curr - start))

EatWord ==
    /\ ~ reached_eof /\ can_continue_identifier(source[curr + 1])
    /\ Eat("word")

ReturnWord ==
    /\ pc = "word"
    /\ ~ reached_eof => ~ can_continue_identifier(source[curr + 1])
    /\ Return(token(WordKind(substring(source, start, curr)), start, curr - start))

fetch_token ==
    \/ EatBlank \/ ReturnEof
    \/ Comment \/ EatComment \/ CommentEnds
    \/ FirstChar \/ Punctuation \/ Dispatch
    \/ EatDigit \/ ReturnNumber
    \/ EatWord \/ ReturnWord

Next == next_token \/ peek_token \/ fetch_token

Spec == Init /\ [][Next]_vars

\* fetch_token is straight-line code.  Nothing is assumed of the client.
FairSpec == Spec /\ WF_vars(fetch_token)

-----------------------------------------------------------------------------
(* Correctness.                                                            *)

\* The queue never holds more than one token: what is looked ahead is handed out before
\* anything is read behind it, and while fetch_token runs the queue is empty.
OneAhead ==
    /\ Len(lookahead_toks) <= 1
    /\ pc # "idle" => lookahead_toks = << >>

\* What peek_token showed is what the next call gives, be it peek_token or next_token, and
\* no character is read for it.
PeekIsNext == [][call = "peek" /\ pc = "idle" => ret' = ret /\ UNCHANGED scan]_vars

\* fetch_token calls itself once for every line with a comment and for nothing else, so
\* that the stack is bounded by the lines read.
FramesAreLines ==
    frames <= 2 + Cardinality({i \in 1 .. curr : source[i] = "\n"})

\* Every call returns, or the process ends.
CallsReturn == []<>(pc \in {"idle", "exit"})

\* Peeked at or not, the tokens handed out are those of AsmCcSpec.
Outcome == IF ended THEN "eof" ELSE IF pc = "exit" THEN "exit" ELSE "running"

AS == INSTANCE AsmCcSpec WITH outcome <- Outcome

Tokenizes == AS!Spec
=============================================================================
