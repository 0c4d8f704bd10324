----------------------------- MODULE MovParser ------------------------------
(***************************************************************************)
(* MovInstructionParser::parse over a Parser, which is a Lexer: it asks    *)
(* next_token for "(", a register, ",", a register, ")" and ";" in turn.   *)
(* A token of another kind (consume_pnc) or a name that is not in regnames *)
(* (next_register) ends the process, and so does a character the lexer     *)
(* refuses.                                                                *)
(***************************************************************************)
EXTENDS Lexer, MovSemantics

VARIABLES
    at,         \* the position in Script, Len(Script) + 1 once parse returned
    asked,      \* next_token was called and its token not looked at yet
    failed,     \* an assertion of the parser ended the process
    operands    \* the registers read so far

parser == <<at, asked, failed, operands>>
parserVars == <<vars, parser>>

NoReg == "none"

\* Mutant: the source is read first.
ScriptSourceFirst == <<"LeftParen", "src", "Comma", "dst", "RightParen", "SemiColon">>

\* The calls parse makes: a token kind for consume_pnc, an operand for next_register.
Script == <<"LeftParen", "dst", "Comma", "src", "RightParen", "SemiColon">>

parsed == at = Len(Script) + 1

ParserTypeOK ==
    /\ TypeOK
    /\ at \in 1 .. Len(Script) + 1
    /\ asked \in BOOLEAN
    /\ failed \in BOOLEAN
    /\ operands \in [{"dst", "src"} -> RegName \cup {NoReg}]

ParserInit ==
    /\ Init
    /\ at = 1
    /\ asked = FALSE
    /\ failed = FALSE
    /\ operands = [o \in {"dst", "src"} |-> NoReg]

\* Parser::next_token is called ...
Ask ==
    /\ ~ parsed /\ ~ failed /\ ~ asked
    /\ Call
    /\ asked' = TRUE
    /\ UNCHANGED <<at, failed, operands>>

\* ... and runs.
Lex ==
    /\ next_token
    /\ UNCHANGED parser

\* The token is there.
Answered == asked /\ ~ failed /\ pc = "idle"

Accept ==
    /\ at' = at + 1
    /\ asked' = FALSE
    /\ UNCHANGED <<vars, failed>>

Refuse ==
    /\ failed' = TRUE
    /\ UNCHANGED <<vars, at, asked, operands>>

\* Mutant: the kind of the token is not compared.
consume_any ==
    /\ Answered
    /\ Script[at] \in TokenKind
    /\ IF tok.kind # "Eof" THEN Accept /\ UNCHANGED operands ELSE Refuse

consume_pnc ==
    /\ Answered
    /\ Script[at] \in TokenKind
    /\ IF tok.kind = Script[at] THEN Accept /\ UNCHANGED operands ELSE Refuse

\* reg_name_of_str_pnc of the text of the token, whatever the kind of the token is.
next_register ==
    LET literal == source_substring(source, tok.offset, tok.offset + tok.len)
        found   == {r \in RegName : <<literal, r>> \in regnames}
    IN  /\ Answered
        /\ Script[at] \in {"dst", "src"}
        /\ \/ \E r \in found : Accept /\ operands' = [operands EXCEPT ![Script[at]] = r]
           \/ found = {} /\ Refuse

ParserNext == Ask \/ Lex \/ consume_pnc \/ next_register

ParserSpec == ParserInit /\ [][ParserNext]_parserVars

\* parse is a straight-line function: it runs until it returns or the process ends.
ParserFairSpec == ParserSpec /\ WF_parserVars(ParserNext)

-----------------------------------------------------------------------------
(* Correctness.                                                            *)

Piece(s, e) == SubSeq(source, s + 1, e)

\* From offset s up to e there is one c, and blanks.
Alone(c, s, e) ==
    \E k \in s + 1 .. e :
       source[k] = c /\ \A j \in (s + 1 .. e) \ {k} : is_whitespace(source[j])

\* The register names written in the first e characters: register, first offset, end.
Written(e) ==
    {<<x[1][2], x[2], x[2] + Len(x[1][1])>> : x \in
        {y \in regnames \X (0 .. e) :
            y[2] + Len(y[1][1]) <= e /\ Piece(y[2], y[2] + Len(y[1][1])) = y[1][1]}}

\* The source starts with the operands of mov(d, s); and they end at offset e.  Blanks
\* may stand between the tokens, not inside a name.
Reads(d, s, e) ==
    /\ source[e] = ";"
    /\ \E first, second \in Written(e) :
          /\ first[1] = d /\ second[1] = s
          /\ first[3] <= second[2]
          /\ Alone("(", 0, first[2])
          /\ Alone(",", first[3], second[2])
          /\ Alone(")", second[3], e - 1)

\* A parse that returns read exactly the operands of a mov: the destination is the first
\* name written, the source the second, and the cursor stands right after the ";".
ParsedIsWritten == parsed => Reads(operands["dst"], operands["src"], curr)

\* The same in terms of the tokens: one per call, none skipped, none read ahead, and each
\* operand is the register whose name its own token spells.
Matches(i) ==
    IF Script[i] \in TokenKind
    THEN toks[i].kind = Script[i]
    ELSE <<source_substring(source, toks[i].offset, TokEnd(toks[i])), operands[Script[i]]>>
            \in regnames

ParsedTokens == parsed => Len(toks) = Len(Script) /\ \A i \in 1 .. Len(Script) : Matches(i)

\* Only a program that does not start with the operands of a mov is refused.
RefusedIsWrong ==
    failed \/ pc = "abort" =>
       ~ \E e \in 1 .. Len(source) : \E n, m \in Written(e) : Reads(n[1], m[1], e)

\* parse never loops, also at the end of the program.
ParseEnds == <>(parsed \/ failed \/ pc = "abort")

\* encode() accepts every mov the parser can build, and the processor reads back from its
\* bytes the registers that were written in the program.
ParsedMovAssembles ==
    parsed =>
       LET d == operands["dst"]
           s == operands["src"]
       IN  /\ validate_semantics(d, s)
           /\ IsRex(encoding(d, s)[1])
           /\ Decode(encoding(d, s)) = <<d, s>>
=============================================================================
