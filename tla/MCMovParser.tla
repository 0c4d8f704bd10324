----------------------------- MODULE MCMovParser ----------------------------
(***************************************************************************)
(* Model checking of MovParser: programs made of pieces of text.  Every    *)
(* program that differs from a well-formed one in at most two places, in   *)
(* what it is made of or in what is missing, and every pair of registers.  *)
(***************************************************************************)
EXTENDS MovParser, SequencesExt

Open == <<"(">>
Close == <<")">>
CommaText == <<",">>
Semi == <<";">>
Rax == <<"r", "a", "x">>
R8 == <<"r", "8">>

\* What can stand in the place of a piece: nothing, a blank before the other half of a
\* name, a keyword, a number, a name that is too long, a character nothing starts with.
Pieces == {<< >>, <<" ">>, Open, Close, CommaText, Semi, Rax, R8, <<"\n", "r", "8", "\t">>,
           <<"r", " ", "8">>, <<"f", "n">>, <<"8">>, <<"r", "8", "_">>, <<"R", "8">>, <<"/">>}

WellFormed == <<Open, Rax, CommaText, R8, Close, Semi>>

TwoFaults ==
    {FlattenSeq([WellFormed EXCEPT ![i] = p, ![j] = q]) :
        i \in 1 .. 6, j \in 1 .. 6, p \in Pieces, q \in Pieces}

AllPairs ==
    {FlattenSeq(<<Open, <<" ">>, n[1], CommaText, m[1], Close, <<" ">>, Semi, <<"r">>, n[1]>>) :
        n \in regnames, m \in regnames}

MCSources == TwoFaults \cup AllPairs

MCChars == {"(", ")", ",", ";", " ", "\n", "\t", "/", "_", "r", "a", "b", "c", "d", "x",
            "s", "i", "p", "f", "n", "R", "0", "1", "2", "3", "4", "5", "8", "9"}
=============================================================================
