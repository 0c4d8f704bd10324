---------------------------- MODULE MCAsmCcLexer ----------------------------
(***************************************************************************)
(* Model checking of AsmCcLexer: every program of at most MaxLen           *)
(* characters of the alphabet, and comments and keywords that need more.   *)
(***************************************************************************)
EXTENDS AsmCcLexer, SequencesExt

CONSTANTS Alphabet, MaxLen

Lines == {<<"/", "f">>, <<"/", "/", " ", "f">>, <<" ", "/">>, <<"f", "n">>, << >>}

Words == {<<"m", "o", "v">>, <<"m", "o", "v", "1">>, <<"r", "e", "t", "u", "r", "n">>,
          <<"f", "n", "f", "n">>}

MCSources ==
    BoundedSeq(Alphabet, MaxLen) \cup Words
    \cup {a \o <<"\n">> \o b \o <<"\n">> \o c : a, b, c \in Lines}

MCChars == Alphabet \cup {"\n", "/", "f", "n", " ", "m", "o", "v", "1", "r", "e", "t", "u"}
=============================================================================
