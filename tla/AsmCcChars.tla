----------------------------- MODULE AsmCcChars -----------------------------
(***************************************************************************)
(* The character classes and the tokens of the retired front end           *)
(* (cemetery/asm_cc).  Its letters, digits and blanks are those of the     *)
(* lexer that replaced it; it knows comments and negative numbers besides. *)
(***************************************************************************)
EXTENDS Naturals, Sequences

F == INSTANCE LexerChars

is_whitespace(c) == F!is_whitespace(c)

is_decimal_digit(c) == F!is_number(c)

is_decimal_digit_start(c) == is_decimal_digit(c) \/ c = "-"

is_identifier_start(c) == F!is_ident_start(c)

can_continue_identifier(c) == F!is_ident_continue(c)

is_comment_start(c) == c = "/"

PunctuationChars == F!OneCharTokens

PunctuationKind(c) == F!OneCharKind(c)

\* fetch_token has no case for the character: it prints it and exits.
Unknown(c) ==
    /\ ~ is_whitespace(c) /\ ~ is_comment_start(c)
    /\ c \notin PunctuationChars
    /\ ~ is_identifier_start(c) /\ ~ is_decimal_digit_start(c)

TokenKind == F!TokenKind \cup {"Mnemonic"}

\* The map keywords, and Identifier for what is not in it.
WordKind(literal) ==
    IF literal = <<"f", "n">> THEN "Fn"
    ELSE IF literal \in {<<"m", "o", "v">>, <<"r", "e", "t", "u", "r", "n">>} THEN "Mnemonic"
    ELSE "Identifier"

\* substring(beg, end)
substring(src, beg, end) == SubSeq(src, beg + 1, end)

\* The literal of the code is the text of these len characters; Eof has none.
Token == [kind : TokenKind, offset : Nat, len : Nat]

token(kind, offset, len) == [kind |-> kind, offset |-> offset, len |-> len]
=============================================================================
