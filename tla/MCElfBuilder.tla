---------------------------- MODULE MCElfBuilder ----------------------------
(***************************************************************************)
(* Model checking of ElfBuilder.                                           *)
(***************************************************************************)
EXTENDS ElfBuilder, FiniteSetsExt

SortedOrder == <<0, 1, 2, 3, 4, 5>>

\* Every iteration order.
AllOrders ==
    {o \in [1 .. 6 -> SectionType] : \A i, j \in 1 .. 6 : i # j => o[i] # o[j]}

SomeOrders == {<<0, 1, 2, 3, 4, 5>>, <<5, 4, 3, 2, 1, 0>>, <<2, 0, 5, 1, 4, 3>>}

\* The shape of Code::create_dummy_code: two functions in .text, a variable in .data.
DummyCode ==
    [text |-> <<72, 199, 192, 139, 1, 0, 0, 195, 72, 199, 192, 141, 1, 0, 0, 195>>,
     data |-> <<255, 255, 255, 127>>,
     symbols |-> <<[offset |-> 0, code_section |-> Text, name |-> <<116, 95, 49>>, value |-> 0],
                   [offset |-> 8, code_section |-> Text, name |-> <<116, 95, 50>>, value |-> 0],
                   [offset |-> 0, code_section |-> Data, name |-> <<103>>, value |-> 4]>>]

\* Short programs: empty sections, no symbol, nameless and equal and nested names.
Texts == {<< >>, <<195>>, <<127, 69, 76, 70>>}
Datas == {<< >>, <<0, 46, 0>>}
SmallSymbols ==
    {[offset |-> o, code_section |-> sec, name |-> n, value |-> 300] :
        o \in {0, 260}, sec \in {Text, Data}, n \in {<< >>, <<97>>, <<97, 98>>}}
SmallCodes ==
    {[text |-> t, data |-> d, symbols |-> s] :
        t \in Texts, d \in Datas,
        s \in {<< >>} \cup {<<a>> : a \in SmallSymbols}}
    \cup {[text |-> <<195>>, data |-> << >>, symbols |-> <<a, b>>] : a, b \in SmallSymbols}

MCCodes == {DummyCode} \cup SmallCodes

\* cemetery/main_v2.cc writes to the same path: the object it leaves there.
Earlier == INSTANCE ElfWriterV2

EarlierObject ==
    LET calls == Earlier!main(<<72, 49, 192, 195>>, <<111, 108, 100>>)
    IN  Earlier!Image(calls, Earlier!LastFixes(calls, Earlier!Puts(calls)))

ASSUME EarlierIsObject == Reader!IsObject(EarlierObject)

\* No file, an object with another program, and the ELF magic with nothing behind it.
MCOlds == {NoFile, EarlierObject, <<127, 69, 76, 70>>}

\* The dummy code under every order, the short programs under three, each of them over a
\* file that is there already under one.
MCInit ==
    /\ code \in MCCodes
    /\ order \in (IF code = DummyCode THEN AllOrders ELSE SomeOrders)
    /\ Init
    /\ file = NoFile \/ order = SortedOrder

MCSpec == MCInit /\ [][Next]_vars /\ WF_vars(Next)
=============================================================================
