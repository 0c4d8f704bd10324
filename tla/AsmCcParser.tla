---------------------------- MODULE AsmCcParser -----------------------------
(***************************************************************************)
(* cemetery/asm_cc_lib/parser.cc: Parser::parse_func_decl over the retired *)
(* lexer.  It consumes "fn", a name, "(", ")" and "{", and then calls      *)
(* parse_instruction until it peeks at "}".  All of the body of            *)
(* parse_instruction is commented out: it returns without taking a token.  *)
(***************************************************************************)
EXTENDS AsmCcLexer

CONSTANT MaxBody        \* instrs.size() is not told apart from MaxBody on

ASSUME MaxBodyAssumption == MaxBody \in Nat \ {0}

VARIABLES
    at,         \* the position in Script, Len(Script) + 1 once the call returned
    asked,      \* the lexer was called and what it gives not looked at yet
    instrs,     \* instrs.size()
    func_name,  \* the token of the name
    failed      \* std::exit in consume_tok_pnc

decl == <<at, asked, instrs, func_name, failed>>
parserVars == <<vars, decl>>

\* Mutant: a function without a name.
ScriptNoName == <<"Fn", "LeftParen", "RightParen", "LeftBrace", "body", "RightBrace">>

\* The kinds that are consumed in turn; "body" is the loop, which peeks.
Script == <<"Fn", "Identifier", "LeftParen", "RightParen", "LeftBrace", "body", "RightBrace">>

returned == at = Len(Script) + 1
InBody == ~ returned /\ Script[at] = "body"
Running == ~ returned /\ ~ failed

ParserInit ==
    /\ Init
    /\ at = 1 /\ asked = FALSE /\ failed = FALSE
    /\ instrs = 0
    /\ func_name = token("Invalid", 0, 0)

\* The lexer is called ...
Ask ==
    /\ Running /\ ~ asked
    /\ IF InBody THEN peek_token ELSE next_token
    /\ asked' = TRUE
    /\ UNCHANGED <<at, instrs, func_name, failed>>

\* ... and runs.
Lex ==
    /\ fetch_token
    /\ UNCHANGED decl

Answered == Running /\ asked /\ pc = "idle"

\* Mutant: the kind is not compared.
consume_any ==
    /\ Answered /\ ~ InBody
    /\ asked' = FALSE
    /\ at' = at + 1
    /\ func_name' = IF Script[at] = "Identifier" THEN ret ELSE func_name
    /\ UNCHANGED <<vars, instrs, failed>>

\* A token of another kind ends the process.
consume_tok_pnc ==
    /\ Answered /\ ~ InBody
    /\ asked' = FALSE
    /\ IF ret.kind = Script[at]
       THEN /\ at' = at + 1
            /\ func_name' = IF Script[at] = "Identifier" THEN ret ELSE func_name
            /\ UNCHANGED failed
       ELSE failed' = TRUE /\ UNCHANGED <<at, func_name>>
    /\ UNCHANGED <<vars, instrs>>

\* Mutant: the loop goes on behind the brace.
BodyGoesOn ==
    /\ Answered /\ InBody
    /\ ret.kind = "RightBrace"
    /\ asked' = FALSE
    /\ UNCHANGED <<vars, at, instrs, func_name, failed>>

BodyEnds ==
    /\ Answered /\ InBody
    /\ ret.kind = "RightBrace"
    /\ asked' = FALSE
    /\ at' = at + 1
    /\ UNCHANGED <<vars, instrs, func_name, failed>>

\* Mutant: the instruction takes the token that was peeked at.
parse_instruction_takes ==
    /\ Answered /\ InBody
    /\ ret.kind # "RightBrace"
    /\ next_token
    /\ asked' = FALSE
    /\ instrs' = IF instrs < MaxBody THEN instrs + 1 ELSE MaxBody
    /\ UNCHANGED <<at, func_name, failed>>

\* return Ret_Instruction{}; and the caller stores it.
parse_instruction ==
    /\ Answered /\ InBody
    /\ ret.kind # "RightBrace"
    /\ asked' = FALSE
    /\ instrs' = IF instrs < MaxBody THEN instrs + 1 ELSE MaxBody
    /\ UNCHANGED <<vars, at, func_name, failed>>

ParserNext == Ask \/ Lex \/ consume_tok_pnc \/ BodyEnds \/ parse_instruction

ParserSpec == ParserInit /\ [][ParserNext]_parserVars

\* The call is straight-line code.
ParserFairSpec == ParserSpec /\ WF_parserVars(ParserNext)

-----------------------------------------------------------------------------
(* Correctness.                                                            *)

Kinds(toks) == [i \in 1 .. Len(toks) |-> toks[i].kind]

\* The tokens of a function without instructions.
EmptyFunctionKinds ==
    <<"Fn", "Identifier", "LeftParen", "RightParen", "LeftBrace", "RightBrace">>

\* A function that is returned was written as an empty one, under the name it got: the
\* call took these six tokens and no other.
ReturnedIsEmpty ==
    returned =>
       /\ instrs = 0
       /\ Kinds(given) = EmptyFunctionKinds
       /\ func_name = given[2]
       /\ lookahead_toks = << >>

\* A token of kind k ends at e, with nothing but blanks and comments between it and p.
Follows(k, p, e) ==
    \E s \in p .. e - 1 : AS!TokenAt(k, s, e) /\ AS!Gap(p, s) /\ ~ AS!InComment(p, s)

\* The text begins as a function does, up to its brace.
FunctionBegins ==
    LET Ends == 1 .. Len(source)
    IN  \E e1 \in Ends : Follows("Fn", 0, e1)
           /\ \E e2 \in Ends : Follows("Identifier", e1, e2)
              /\ \E e3 \in Ends : Follows("LeftParen", e2, e3)
                 /\ \E e4 \in Ends : Follows("RightParen", e3, e4)
                    /\ \E e5 \in Ends : Follows("LeftBrace", e4, e5)

\* What is written as a function is taken up to its brace: only a character that no token
\* starts with ends the process, and only in the body.
RefusedIsWrong == failed \/ (pc = "exit" /\ ~ InBody) => ~ FunctionBegins

\* Once one instruction is stored nothing moves any more: no token is taken, the cursor
\* stands, the call neither returns nor exits.
BodyStandsStill ==
    [][instrs > 0 =>
          /\ UNCHANGED <<scan, lookahead_toks, given, at, func_name>>
          /\ ~ returned' /\ ~ failed']_parserVars

\* The call comes to an end, or the body is read for ever.
EndsOrBody == <>(returned \/ failed \/ pc = "exit") \/ <>[](InBody /\ instrs = MaxBody)

\* cemetery/asm_cc_lib/parser_test.cc:14-17, lines that are commented out there, takes the
\* function main of its program, which has one instruction, from parse_func_decl: the call
\* comes to an end.
FuncDeclIsParsed == <>(returned \/ failed \/ pc = "exit")
=============================================================================
