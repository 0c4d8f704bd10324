----------------------------- MODULE MCElfWriters ---------------------------
(***************************************************************************)
(* Model checking of the three retired ELF writers side by side: their     *)
(* main for several functions, and every short program over two labels.    *)
(***************************************************************************)
EXTENDS ElfWriters, SequencesExt

CONSTANT MaxCalls

Main1 == INSTANCE ElfWriterV1
Main2 == INSTANCE ElfWriterV2
Main3 == INSTANCE ElfWriterV3

-----------------------------------------------------------------------------
(* The programs.                                                           *)

Texts == {<< >>, <<195>>, <<72, 199, 192, 123, 0, 0, 0, 195>>, <<127, 69, 76, 70>>}
Names == {<<116>>, <<116, 101, 115, 116, 95, 49>>, <<46, 116, 101, 120, 116>>}

Mains ==
    [v1 |-> {Main1!main(t) : t \in Texts},
     v2 |-> {Main2!main(t, n) : t \in Texts, n \in Names},
     v3 |-> {Main3!main(t, n) : t \in Texts, n \in Names}]

a == <<"a">>
b == <<"b">>

\* a labels one byte and b two; a fix may carry a value or a place, or be too wide.
Calls == {Value(<<7>>), Reloc(a, 1), Reloc(b, 2),
          Fix(a, 5, 1), Fix(a, Here, 1), Fix(a, 513, 2), Fix(b, 258, 2), Fix(b, Here, 2)}

ShortScripts == BoundedSeq(Calls, MaxCalls)

MCScripts == ShortScripts \cup UNION {Mains[w] : w \in DOMAIN Mains}

MCLabels == Main1!Labels \cup Main2!Labels \cup Main3!Labels \cup {a, b}

\* The mains make many more calls than the short programs.
IsMain == Len(script) > MaxCalls

\* The file may hold an object with another function, of an earlier run.
OldObject ==
    LET calls == Main3!main(<<72, 49, 192, 195>>, <<111, 108, 100>>)
    IN  Image(calls, LastFixes(calls, Puts(calls)))

MCOlds == {NoFile, OldObject}

\* Each is given its own main, and all short programs.
MCGiven(w, s) == Len(s) > MaxCalls => s \in Mains[w]

\* There is a file already under the mains and under programs of up to three calls.
MCInit == Init /\ (old = NoFile \/ IsMain \/ Len(script) <= 3)

MCSpec == MCInit /\ [][Next]_vars

-----------------------------------------------------------------------------
(* Correctness.                                                            *)

\* The file of each main is the object it means to write, with all names, types, offsets and
\* sizes in place, or, cut short, none, or it is untouched: what the relocations are for.
MainIsObject ==
    pc = "end" /\ IsMain /\ (file # old \/ outcome = "written") =>
       IF file # buffer THEN ~ Main3!Reader!IsObject(file)
       ELSE \A t \in Texts :
               /\ writer = "v1" /\ script = Main1!main(t) =>
                     Main1!HasText(file, t, <<Null, Text, SectionHeaderStrTab>>)
               /\ \A n \in Names :
                     \/ writer = "v2" /\ script = Main2!main(t, n)
                     \/ writer = "v3" /\ script = Main3!main(t, n)
                     => Main3!IsFunction(file, t, n)
=============================================================================
