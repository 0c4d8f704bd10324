----------------------------- MODULE LexerChars -----------------------------
(***************************************************************************)
(* The character classes and the token kinds of fiskas/lexer.hh.  A source *)
(* is a sequence of one-character strings; the offsets of the code count   *)
(* from 0, so the character at offset p is source[p + 1].                  *)
(***************************************************************************)
EXTENDS Naturals, Sequences

\* Mutant: c < '9'.
is_number_below_9(c) == c \in {"0", "1", "2", "3", "4", "5", "6", "7", "8"}

is_number(c) == c \in {"0", "1", "2", "3", "4", "5", "6", "7", "8", "9"}

is_ident_start(c) ==
    c \in {"a", "b", "c", "d", "e", "f", "g", "h", "i", "j", "k", "l", "m",
           "n", "o", "p", "q", "r", "s", "t", "u", "v", "w", "x", "y", "z",
           "A", "B", "C", "D", "E", "F", "G", "H", "I", "J", "K", "L", "M",
           "N", "O", "P", "Q", "R", "S", "T", "U", "V", "W", "X", "Y", "Z"}

is_ident_continue(c) == is_ident_start(c) \/ c = "_" \/ is_number(c)

is_whitespace(c) == c \in {"\n", " ", "\t", "\r"}

\* The characters that are a token by themselves, and the kind of each.
OneCharTokens == {"(", ")", "{", "}", ",", ";"}

OneCharKind(c) ==
    IF c = "(" THEN "LeftParen"
    ELSE IF c = ")" THEN "RightParen"
    ELSE IF c = "{" THEN "LeftBrace"
    ELSE IF c = "}" THEN "RightBrace"
    ELSE IF c = "," THEN "Comma"
    ELSE "SemiColon"

TokenKind == {"Invalid", "Eof", "LeftParen", "RightParen", "LeftBrace",
              "RightBrace", "SemiColon", "Comma", "Fn", "Number", "Identifier"}

\* A character no token starts with: not blank, and next_token has no case for it.
StartsNothing(c) ==
    /\ ~ is_whitespace(c)
    /\ c \notin OneCharTokens
    /\ ~ is_number(c)
    /\ ~ is_ident_start(c)

\* source_substring(s, e) and the lookup of an identifier in `keywords`.
source_substring(src, s, e) == [i \in 1 .. (e - s) |-> src[s + i]]

KeywordOrIdentifier(literal) ==
    IF literal = <<"f", "n">> THEN "Fn" ELSE "Identifier"

\* Token::gen(kind, offset, len).
Token == [kind : TokenKind, offset : Nat, len : Nat]

gen(k, offset, len) == [kind |-> k, offset |-> offset, len |-> len]

EofToken == gen("Eof", 0, 0)
=============================================================================
