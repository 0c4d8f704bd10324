--------------------------- MODULE MCAsmCcParser ----------------------------
(***************************************************************************)
(* Model checking of AsmCcParser: functions well written up to the brace,  *)
(* with blanks and comments in between and several bodies, and every       *)
(* program that differs from an empty function in at most two of its       *)
(* pieces.                                                                 *)
(***************************************************************************)
EXTENDS AsmCcParser, SequencesExt

Fn == <<"f", "n">>
Name == <<"m", "1">>

\* What can stand in the place of a piece.
Pieces == {<< >>, <<" ">>, Fn, Name, <<"(">>, <<")">>, <<"{">>, <<"}">>, <<"m", "o", "v">>,
           <<"/", "}", "\n">>, <<"/", "f">>, <<"-", "1">>, <<"_">>}

EmptyFunction == <<Fn, <<" ">>, Name, <<"(">>, <<")">>, <<"{">>, <<"}">>>>

TwoFaults ==
    {FlattenSeq([EmptyFunction EXCEPT ![i] = p, ![j] = q]) :
        i, j \in 1 .. Len(EmptyFunction), p, q \in Pieces}

Gaps == {<< >>, <<"\n", " ">>, <<" ", "/", "f", "n", "\n">>}

Bodies == {<< >>, <<"m", "o", "v", "(", "m", ",", "1", ")", ";">>, <<"{">>, <<"_">>, <<"/", "m">>}

\* Written as a function up to the brace.
WellBegun ==
    {FlattenSeq(<<g, Fn, <<" ">>, h, n, g, <<"(">>, h, <<")">>, g, <<"{">>, h, b, <<"}">>>>) :
        g, h \in Gaps, n \in {Name, <<"f", "n", "m">>, <<"m", "o", "v", "_">>}, b \in Bodies}

MCSources == TwoFaults \cup WellBegun

MCChars == {"f", "n", "m", "o", "v", "1", "(", ")", "{", "}", ",", ";", " ", "\n", "/", "-", "_"}

\* The program of parser_test.cc:6-12, with shorter words.
TestProgram ==
    {<<"\n", "/", "/", " ", "m", "\n", "f", "n", " ", "m", "(", ")", " ", "{", "\n",
       "m", "o", "v", "(", "m", ",", "1", ")", ";", "\n", "}", "\n">>}
=============================================================================
