------------------------------ MODULE MCLexer -------------------------------
(***************************************************************************)
(* Model checking of Lexer: every program of at most MaxLen characters of  *)
(* an alphabet with one member or more of each character class; and        *)
(* programs that begin with a comment.                                     *)
(***************************************************************************)
EXTENDS Lexer, SequencesExt

CONSTANT MaxLen

MCSources == BoundedSeq(Chars, MaxLen)

\* What the lexer takes without the comment, behind a one-line comment.
Commented == {<< >>, <<"f", "n">>, <<"f", " ", "n", "(", "1">>}

CommentChars == {"f", "n", "1", " ", "(", "/", "\n"}

CommentSources ==
    {<<"/", "/">> \o text \o <<"\n">> \o program :
        text \in BoundedSeq({"f", " ", "/"}, 2), program \in Commented}

\* test/function.asm++ line 1 says of a source: "One-line comments should be ignored."  So
\* a program is not refused for the one-line comment in front of it.
CommentsIgnored == pc # "abort"
=============================================================================
