----------------------------- MODULE FileProofs -----------------------------
(***************************************************************************)
(* What File::write guarantees for data of every length, however fwrite    *)
(* cuts it up and wherever the process dies, and what File::load may       *)
(* return of a file of any length that File::write is changing, whatever   *)
(* the size of a page and the order of the copy.                           *)
(***************************************************************************)
EXTENDS SharedFile, SequenceTheorems, TLAPS

(* Beginnings of a sequence; they are opaque outside these lemmas.         *)

LEMMA BeginningType ==
    ASSUME NEW s \in Seq(Nat), NEW k \in 0 .. Len(s)
    PROVE  /\ Beginning(s, k) \in Seq(Nat)
           /\ Len(Beginning(s, k)) = k
<1>1. Len(s) \in Nat /\ \A i \in 1 .. Len(s) : s[i] \in Nat
  BY LenProperties, ElementOfSeq
<1>2. 1 \in Int /\ k \in Int /\ \A i \in 1 .. k : s[i] \in Nat
  BY <1>1
<1>3. SubSeq(s, 1, k) \in Seq(Nat)
  BY <1>2, SubSeqProperties
<1>4. Len(SubSeq(s, 1, k)) = k
  BY <1>1, <1>2, SubSeqProperties
<1> QED BY <1>3, <1>4 DEF Beginning

LEMMA BeginningEnds ==
    ASSUME NEW s \in Seq(Nat)
    PROVE  Beginning(s, 0) = << >> /\ Beginning(s, Len(s)) = s
<1>1. SubSeq(s, 1, 0) = << >>
  BY SubSeqEmpty
<1>2. SubSeq(s, 1, Len(s)) = s
  BY SubSeqFull
<1> QED BY <1>1, <1>2 DEF Beginning

LEMMA BeginningOfBeginning ==
    ASSUME NEW s \in Seq(Nat), NEW k \in 0 .. Len(s), NEW n \in 0 .. k
    PROVE  Beginning(Beginning(s, k), n) = Beginning(s, n)
<1>0. Len(s) \in Nat
  BY LenProperties
<1>1. CASE n = 0
  <2>1. SubSeq(s, 1, 0) = << >> /\ SubSeq(SubSeq(s, 1, k), 1, 0) = << >>
    BY SubSeqEmpty
  <2> QED BY <1>1, <2>1 DEF Beginning
<1>2. CASE n # 0
  <2>1. /\ 1 \in 1 .. Len(s) /\ k \in 1 .. Len(s)
        /\ 1 \in 1 .. k - 1 + 1 /\ n \in 1 .. k - 1 + 1
    BY <1>0, <1>2
  <2>2. SubSeq(s, 1, k) \in Seq(Nat)
    BY BeginningType DEF Beginning
  <2>3. SubSeq(SubSeq(s, 1, k), 1, n) = SubSeq(s, 1 + 1 - 1, 1 + n - 1)
    BY <2>1, <2>2, SubSeqOfSubSeq
  <2>4. 1 + 1 - 1 = 1 /\ 1 + n - 1 = n
    OBVIOUS
  <2> QED BY <2>3, <2>4 DEF Beginning
<1> QED BY <1>1, <1>2

\* What fwrite takes continues the beginning it took before.
LEMMA BeginningGrows ==
    ASSUME NEW s \in Seq(Nat), NEW k \in Nat, NEW n \in Nat, k + n <= Len(s)
    PROVE  Beginning(s, k) \o SubSeq(s, k + 1, k + n) = Beginning(s, k + n)
<1>1. Len(s) \in Nat
  BY LenProperties
<1>2. 1 \in 1 .. Len(s) + 1 /\ k \in 1 - 1 .. Len(s) /\ k + n \in k .. Len(s)
  BY <1>1
<1> QED BY <1>2, ConcatAdjacentSubSeq DEF Beginning

-----------------------------------------------------------------------------
(* The invariant: where the loop is, what the stream has taken, and what   *)
(* of it is in the file.                                                   *)

Bookkeeping ==
    /\ data + size = Len(bytes)
    /\ written <= size
    /\ pc # "end" => outcome = "pending"

Taken ==
    /\ Len(stream) <= Len(bytes)
    /\ stream = Beginning(bytes, Len(stream))
    /\ pc \in {"fopen", "fwrite"} => Len(stream) = data
    /\ pc = "check" => Len(stream) = data + written
    /\ pc = "fclose" => Len(stream) = Len(bytes)

Flushed ==
    /\ pc = "fopen" => disk = old
    /\ pc \notin {"fopen", "end"} =>
           Len(disk) <= Len(stream) /\ disk = Beginning(bytes, Len(disk))
    /\ pc = "end" => FileIsBeginning

IInv == TypeOK /\ Bookkeeping /\ Taken /\ Flushed

LEMMA TypesOfTheCall ==
    ASSUME TypeOK
    PROVE  /\ bytes \in Seq(Nat) /\ old \in Seq(Nat) /\ Len(bytes) \in Nat
           /\ data \in Nat /\ size \in Nat /\ written \in Nat
           /\ stream \in Seq(Nat) /\ disk \in Seq(Nat)
           /\ Len(stream) \in Nat /\ Len(disk) \in Nat
<1>1. bytes \in Seq(Nat) /\ old \in Seq(Nat) /\ stream \in Seq(Nat) /\ disk \in Seq(Nat)
  BY DatasAssumption, OldsAssumption DEF TypeOK
<1>2. Len(bytes) \in Nat /\ Len(stream) \in Nat /\ Len(disk) \in Nat
  BY <1>1, LenProperties
<1> QED BY <1>1, <1>2 DEF TypeOK

\* What may be in the file of a stream that holds a beginning of the data.
LEMMA FlushedBeginning ==
    ASSUME NEW s \in Seq(Nat), NEW k \in 0 .. Len(s), NEW n \in 0 .. k,
           NEW d, d = Beginning(Beginning(s, k), n)
    PROVE  /\ d \in Seq(Nat)
           /\ Len(d) = n
           /\ d = Beginning(s, n)
<1>1. Len(s) \in Nat
  BY LenProperties
<1>2. n \in 0 .. Len(s)
  BY <1>1
<1>3. d = Beginning(s, n)
  BY BeginningOfBeginning
<1> QED BY <1>2, <1>3, BeginningType

LEMMA FlushStep ==
    ASSUME TypeOK, Flush,
           NEW k \in 0 .. Len(bytes), stream' = Beginning(bytes, k)
    PROVE  /\ disk' \in Seq(Nat)
           /\ Len(disk') \in 0 .. k
           /\ disk' = Beginning(bytes, Len(disk'))
<1>1. bytes \in Seq(Nat) /\ Len(bytes) \in Nat /\ Len(disk) \in Nat
  BY TypesOfTheCall
<1>2. Len(stream') = k
  BY <1>1, BeginningType
<1>3. PICK n \in Len(disk) .. k : disk' = Beginning(stream', n)
  BY <1>2 DEF Flush
<1>4. n \in 0 .. k
  BY <1>1, <1>3
<1>5. disk' = Beginning(Beginning(bytes, k), n)
  BY <1>3
<1>6. disk' \in Seq(Nat) /\ Len(disk') = n /\ disk' = Beginning(bytes, n)
  BY <1>1, <1>4, <1>5, FlushedBeginning
<1> QED BY <1>4, <1>6

LEMMA RestIsShorter ==
    ASSUME NEW d \in Nat, NEW z \in Nat, NEW w \in 0 .. z, NEW n, n = d + z
    PROVE  w \in Nat /\ d + w <= n /\ d + w \in 0 .. n
OBVIOUS

LEMMA OneByteLess ==
    ASSUME NEW d \in Nat, NEW z \in Nat, z >= 2, NEW n, d + z = n
    PROVE  /\ d + 1 \in 0 .. n /\ z - 1 \in 0 .. n
           /\ (d + 1) + (z - 1) = n /\ 1 <= z - 1
OBVIOUS

\* A call of fwrite leaves in the stream a longer beginning.
LEMMA TakenMore ==
    ASSUME IInv, Fwrite
    PROVE  /\ data + written' \in 0 .. Len(bytes)
           /\ written' \in 0 .. size
           /\ stream' = Beginning(bytes, data + written')
           /\ stream' \in Seq(Nat)
           /\ Len(stream') = data + written'
<1>1. /\ bytes \in Seq(Nat) /\ Len(bytes) \in Nat
      /\ data \in Nat /\ size \in Nat
  BY TypesOfTheCall DEF IInv
<1>2. written' \in 0 .. size /\ data + size = Len(bytes)
  BY DEF IInv, Bookkeeping, Fwrite
<1>3. written' \in Nat /\ data + written' <= Len(bytes) /\ data + written' \in 0 .. Len(bytes)
  BY <1>1, <1>2, RestIsShorter, Zenon
<1>4. stream = Beginning(bytes, data)
  BY DEF IInv, Taken, Fwrite
<1>5. stream' = Beginning(bytes, data) \o SubSeq(bytes, data + 1, data + written')
  BY <1>4 DEF Fwrite
<1>6. stream' = Beginning(bytes, data + written')
  BY <1>1, <1>3, <1>5, BeginningGrows
<1> QED BY <1>1, <1>2, <1>3, <1>6, BeginningType

\* At the end the file holds what it held, or a beginning of the data.
LEMMA AnyBeginningWillDo ==
    ASSUME bytes' = bytes, NEW n \in 0 .. Len(bytes), disk' = Beginning(bytes, n)
    PROVE  FileIsBeginning'
BY DEF FileIsBeginning

LEMMA StopsWithABeginning ==
    ASSUME IInv, pc # "end", UNCHANGED <<bytes, old, disk>>
    PROVE  FileIsBeginning'
<1>1. CASE pc = "fopen"
  BY <1>1 DEF IInv, Flushed, FileIsBeginning
<1>2. CASE pc # "fopen"
  <2>1. Len(disk) <= Len(stream) /\ disk = Beginning(bytes, Len(disk)) /\ Len(stream) <= Len(bytes)
    BY <1>2 DEF IInv, Flushed, Taken
  <2>2. Len(disk) \in Nat /\ Len(stream) \in Nat /\ Len(bytes) \in Nat
    BY TypesOfTheCall DEF IInv
  <2>3. Len(disk) \in 0 .. Len(bytes)
    BY <2>1, <2>2
  <2> QED BY <2>1, <2>3, AnyBeginningWillDo
<1> QED BY <1>1, <1>2

LEMMA Start == Init => IInv
<1> SUFFICES ASSUME Init PROVE IInv
  OBVIOUS
<1>1. bytes \in Seq(Nat) /\ old \in Seq(Nat)
  BY DatasAssumption, OldsAssumption DEF Init
<1>2. Len(bytes) \in Nat
  BY <1>1, LenProperties
<1>3. stream = << >> /\ << >> \in Seq(Nat) /\ Len(stream) = 0
  BY DEF Init
<1>4. TypeOK
  BY <1>1, <1>2, <1>3 DEF Init, TypeOK, PC
<1>5. Bookkeeping
  BY <1>2 DEF Init, Bookkeeping
<1>6. stream = Beginning(bytes, Len(stream))
  BY <1>1, <1>3, BeginningEnds
<1>7. Taken
  BY <1>2, <1>3, <1>6 DEF Init, Taken
<1>8. Flushed
  BY DEF Init, Flushed
<1> QED BY <1>4, <1>5, <1>7, <1>8 DEF IInv

LEMMA Step == IInv /\ [Next]_vars => IInv'
<1> SUFFICES ASSUME IInv, [Next]_vars PROVE IInv'
  OBVIOUS
<1>0. /\ bytes \in Seq(Nat) /\ old \in Seq(Nat) /\ Len(bytes) \in Nat
      /\ data \in Nat /\ size \in Nat /\ written \in Nat
      /\ stream \in Seq(Nat) /\ disk \in Seq(Nat)
      /\ Len(stream) \in Nat /\ Len(disk) \in Nat
  BY TypesOfTheCall DEF IInv
<1>1. CASE Fopen
  <2>1. disk' = << >> /\ << >> \in Seq(Nat) /\ Len(disk') = 0
    BY <1>1 DEF Fopen
  <2>2. TypeOK' /\ Bookkeeping'
    BY <1>1, <2>1 DEF IInv, TypeOK, Bookkeeping, Fopen, PC
  <2>3. Taken'
    BY <1>1 DEF IInv, Taken, Fopen
  <2>4. disk' = Beginning(bytes, Len(disk'))
    BY <1>0, <2>1, BeginningEnds
  <2>5. Flushed'
    BY <1>0, <1>1, <2>1, <2>4 DEF Flushed, Fopen
  <2> QED BY <2>2, <2>3, <2>5 DEF IInv
<1>2. CASE FopenFails
  <2>1. TypeOK' /\ Bookkeeping' /\ Taken'
    BY <1>2 DEF IInv, TypeOK, Bookkeeping, Taken, FopenFails, PC
  <2>2. FileIsBeginning'
    BY <1>2, StopsWithABeginning DEF FopenFails
  <2>3. Flushed'
    BY <1>2, <2>2 DEF Flushed, FopenFails
  <2> QED BY <2>1, <2>3 DEF IInv
<1>3. CASE Fwrite
  <2>1. /\ data + written' \in 0 .. Len(bytes)
        /\ written' \in 0 .. size
        /\ stream' = Beginning(bytes, data + written')
        /\ stream' \in Seq(Nat)
        /\ Len(stream') = data + written'
    BY <1>3, TakenMore
  <2>2. Flush
    BY <1>3 DEF Fwrite
  <2>3. /\ disk' \in Seq(Nat)
        /\ Len(disk') \in 0 .. data + written'
        /\ disk' = Beginning(bytes, Len(disk'))
    BY <2>1, <2>2, FlushStep DEF IInv
  <2>4. pc' = "check" /\ UNCHANGED <<bytes, old, data, size, outcome>> /\ pc = "fwrite"
    BY <1>3 DEF Fwrite
  <2>5. written' \in 0 .. Len(bytes)
    BY <1>0, <2>1 DEF IInv, TypeOK
  <2>6. TypeOK'
    BY <2>1, <2>3, <2>4, <2>5 DEF IInv, TypeOK, PC
  <2>7. Bookkeeping'
    BY <1>0, <2>1, <2>4 DEF IInv, Bookkeeping
  <2>8. Taken'
    <3>1. Len(stream') <= Len(bytes)
      BY <1>0, <2>1, RestIsShorter DEF IInv, Bookkeeping
    <3>2. stream' = Beginning(bytes', Len(stream')) /\ Len(stream') = data' + written'
      BY <2>1, <2>4, Zenon
    <3>3. pc' \notin {"fopen", "fwrite"} /\ pc' # "fclose"
      BY <2>4
    <3> QED BY <2>4, <3>1, <3>2, <3>3 DEF Taken
  <2>9. Flushed'
    BY <1>0, <2>1, <2>3, <2>4 DEF Flushed
  <2> QED BY <2>6, <2>7, <2>8, <2>9 DEF IInv
<1>4. CASE Complete
  <2>1. TypeOK' /\ Bookkeeping'
    BY <1>4 DEF IInv, TypeOK, Bookkeeping, Complete, PC
  <2>2. Taken'
    BY <1>4 DEF IInv, Taken, Bookkeeping, Complete
  <2>3. Flushed'
    BY <1>4 DEF IInv, Flushed, Complete
  <2> QED BY <2>1, <2>2, <2>3 DEF IInv
<1>5. CASE Retry
  <2>1. /\ pc = "check" /\ pc' = "fwrite" /\ written = 1 /\ written # size
        /\ data' = data + 1 /\ size' = size - 1
        /\ UNCHANGED <<bytes, old, written, stream, disk, outcome>>
    BY <1>5 DEF Retry
  <2>2. written <= size /\ data + size = Len(bytes)
    BY DEF IInv, Bookkeeping
  <2>3. size >= 2
    BY <1>0, <2>1, <2>2
  <2>4. /\ data' \in 0 .. Len(bytes) /\ size' \in 0 .. Len(bytes)
        /\ data' + size' = Len(bytes) /\ 1 <= size'
    BY <1>0, <2>1, <2>2, <2>3, OneByteLess
  <2>5. TypeOK'
    BY <2>1, <2>4 DEF IInv, TypeOK, PC
  <2>6. Bookkeeping'
    BY <2>1, <2>4 DEF IInv, Bookkeeping
  <2>7. Taken'
    BY <2>1 DEF IInv, Taken
  <2>8. Flushed'
    BY <2>1 DEF IInv, Flushed
  <2> QED BY <2>5, <2>6, <2>7, <2>8 DEF IInv
<1>6. CASE AssertFails
  BY <1>6 DEF IInv, TypeOK, Bookkeeping, Taken, Flushed, AssertFails, PC
<1>7. CASE Fclose
  <2>1. /\ pc = "fclose" /\ pc' = "end"
        /\ UNCHANGED <<bytes, old, data, size, written, stream>>
        /\ outcome' \in {"written", "lost"}
    BY <1>7 DEF Fclose
  <2>2. stream = Beginning(bytes, Len(bytes)) /\ Len(bytes) \in 0 .. Len(bytes)
    BY <1>0, <2>1 DEF IInv, Taken
  <2>3. disk' \in Seq(Nat) /\ FileIsBeginning'
    <3>1. CASE disk' = stream
      BY <1>0, <2>1, <2>2, <3>1, AnyBeginningWillDo
    <3>2. CASE Flush
      <4>1. /\ disk' \in Seq(Nat)
            /\ Len(disk') \in 0 .. Len(bytes)
            /\ disk' = Beginning(bytes, Len(disk'))
        BY <2>1, <2>2, <3>2, FlushStep DEF IInv
      <4> QED BY <2>1, <4>1, AnyBeginningWillDo
    <3> QED BY <1>7, <3>1, <3>2 DEF Fclose
  <2>4. TypeOK' /\ Bookkeeping' /\ Taken'
    BY <2>1, <2>3 DEF IInv, TypeOK, Bookkeeping, Taken, PC
  <2>5. Flushed'
    BY <2>1, <2>3 DEF Flushed
  <2> QED BY <2>4, <2>5 DEF IInv
<1>8. CASE Exit
  <2>1. /\ pc = "exit" /\ pc' = "end" /\ outcome' = "abort" /\ Flush
        /\ UNCHANGED <<bytes, old, data, size, written, stream>>
    BY <1>8 DEF Exit
  <2>2. stream = Beginning(bytes, Len(stream)) /\ Len(stream) \in 0 .. Len(bytes)
    BY <1>0 DEF IInv, Taken
  <2>3. /\ disk' \in Seq(Nat)
        /\ Len(disk') \in 0 .. Len(stream)
        /\ disk' = Beginning(bytes, Len(disk'))
    BY <2>1, <2>2, FlushStep DEF IInv
  <2>4. Len(disk') \in 0 .. Len(bytes)
    BY <1>0, <2>2, <2>3
  <2>5. FileIsBeginning'
    BY <2>1, <2>3, <2>4, AnyBeginningWillDo
  <2>6. TypeOK' /\ Bookkeeping' /\ Taken'
    BY <2>1, <2>3 DEF IInv, TypeOK, Bookkeeping, Taken, PC
  <2>7. Flushed'
    BY <2>1, <2>5 DEF Flushed
  <2> QED BY <2>6, <2>7 DEF IInv
<1>9. CASE Killed
  <2>1. /\ pc # "end" /\ pc' = "end" /\ outcome' = "abort"
        /\ UNCHANGED <<bytes, old, data, size, written, stream, disk>>
    BY <1>9 DEF Killed
  <2>2. FileIsBeginning'
    BY <2>1, StopsWithABeginning
  <2>3. TypeOK' /\ Bookkeeping' /\ Taken'
    BY <2>1 DEF IInv, TypeOK, Bookkeeping, Taken, PC
  <2>4. Flushed'
    BY <2>1, <2>2 DEF Flushed
  <2> QED BY <2>3, <2>4 DEF IInv
<1>10. CASE UNCHANGED vars
  BY <1>10 DEF vars, IInv, TypeOK, Bookkeeping, Taken, Flushed, FileIsBeginning
<1> QED BY <1>1, <1>2, <1>3, <1>4, <1>5, <1>6, <1>7, <1>8, <1>9, <1>10 DEF Next

-----------------------------------------------------------------------------
(* Theorems.                                                               *)

\* Every reachable state has the invariant.
THEOREM Inductive == Spec => []IInv
<1> QED BY Start, Step, PTL DEF Spec

\* The loop of File::write keeps its variables in their types.
THEOREM TypeCorrect == Spec => []TypeOK
<1>1. IInv => TypeOK
  BY DEF IInv
<1> QED BY <1>1, Inductive, PTL

\* For data of every length and every cut of fwrite: the loop skips, repeats and reorders
\* no byte, and hands the whole of the data to fclose.
THEOREM StreamKeepsItsOrder == Spec => []StreamIsBeginning
<1>1. IInv => StreamIsBeginning
  <2> SUFFICES ASSUME IInv PROVE StreamIsBeginning
    OBVIOUS
  <2>1. bytes \in Seq(Nat)
    BY TypesOfTheCall DEF IInv
  <2>2. pc = "fclose" => stream = bytes
    <3>1. Beginning(bytes, Len(bytes)) = bytes
      BY <2>1, BeginningEnds
    <3>2. pc = "fclose" => stream = Beginning(bytes, Len(bytes))
      BY DEF IInv, Taken
    <3> QED BY <3>1, <3>2
  <2> QED BY <2>2 DEF IInv, Taken, Bookkeeping, StreamIsBeginning
<1> QED BY <1>1, Inductive, PTL

\* Wherever the process is killed, the file holds what it held, or a beginning of the data.
THEOREM FileKeepsABeginning == Spec => []FileIsBeginning
<1>1. IInv => FileIsBeginning
  <2> SUFFICES ASSUME IInv PROVE FileIsBeginning
    OBVIOUS
  <2>1. CASE pc = "fopen"
    BY <2>1 DEF IInv, Flushed, FileIsBeginning
  <2>2. CASE pc = "end"
    BY <2>2 DEF IInv, Flushed
  <2>3. CASE pc \notin {"fopen", "end"}
    <3>1. Len(disk) <= Len(stream) /\ disk = Beginning(bytes, Len(disk)) /\ Len(stream) <= Len(bytes)
      BY <2>3 DEF IInv, Flushed, Taken
    <3>2. Len(disk) \in Nat /\ Len(stream) \in Nat /\ Len(bytes) \in Nat
      BY TypesOfTheCall DEF IInv
    <3>3. Len(disk) \in 0 .. Len(bytes)
      BY <3>1, <3>2
    <3> QED BY <3>1, <3>3 DEF FileIsBeginning
  <2> QED BY <2>1, <2>2, <2>3
<1> QED BY <1>1, Inductive, PTL

\* Every round that goes back to fwrite has less to write.
THEOREM LoopShrinks == Spec => RoundsShrink
<1>1. IInv /\ [Next]_vars => [pc = "check" /\ pc' = "fwrite" => size' < size]_vars
  <2> SUFFICES ASSUME IInv, [Next]_vars, pc = "check", pc' = "fwrite"
               PROVE  size' < size
    BY DEF vars
  <2>1. size' = size - 1
    BY DEF Next, vars, Fopen, FopenFails, Fwrite, Complete, Retry, AssertFails, Fclose, Exit, Killed
  <2>2. size \in Nat
    BY TypesOfTheCall DEF IInv
  <2> QED BY <2>1, <2>2
<1> QED BY <1>1, Inductive, PTL DEF Spec, RoundsShrink

-----------------------------------------------------------------------------
(* File::write keeps the promise of FileSpec.                              *)

LEMMA EndsWithACut ==
    ASSUME IInv, NEW n \in 0 .. Len(bytes), disk' = Beginning(bytes, n),
           pc # "end", pc' = "end", bytes' = bytes, outcome' \in {"lost", "abort"}
    PROVE  Promise!Write
<1>1. bytes \in Datas /\ Len(bytes) \in Nat
  BY TypesOfTheCall DEF IInv, TypeOK
<1>2. n \in Cuts
  <2>1. \A k \in 0 .. Len(bytes) : k \in Cuts
    BY <1>1, DatasAssumption, Zenon
  <2> QED BY <2>1, Zenon
<1>3. n <= Len(bytes)
  BY <1>1
<1>4. outcome = "pending"
  BY DEF IInv, Bookkeeping
<1>5. Promise!Fail
  BY <1>2, <1>3 DEF Promise!Fail, Promise!Beginning, Beginning
<1> QED BY <1>4, <1>5 DEF Promise!Write

LEMMA FlushedAtTheEnd ==
    ASSUME IInv, Flush, UNCHANGED <<bytes, stream>>
    PROVE  \E n \in 0 .. Len(bytes) : disk' = Beginning(bytes, n)
<1>1. Len(stream) \in Nat /\ Len(bytes) \in Nat
  BY TypesOfTheCall DEF IInv
<1>2. stream' = Beginning(bytes, Len(stream)) /\ Len(stream) \in 0 .. Len(bytes)
  BY <1>1 DEF IInv, Taken
<1>3. Len(disk') \in 0 .. Len(stream) /\ disk' = Beginning(bytes, Len(disk'))
  BY <1>2, FlushStep DEF IInv
<1>4. Len(disk') \in 0 .. Len(bytes)
  <2>1. \A b \in Nat : \A k \in 0 .. b : \A n \in 0 .. k : n \in 0 .. b
    OBVIOUS
  <2> QED BY <1>1, <1>2, <1>3, <2>1, Zenon
<1> QED BY <1>3, <1>4

LEMMA StepKeepsPromise ==
    ASSUME IInv, IInv', [Next]_vars
    PROVE  [Promise!Write]_<<bytes, IF pc = "end" THEN disk ELSE old, outcome>>
<1>1. CASE UNCHANGED vars
  BY <1>1 DEF vars
<1>2. CASE Fopen \/ Fwrite \/ Complete \/ Retry \/ AssertFails
  BY <1>2 DEF Fopen, Fwrite, Complete, Retry, AssertFails
<1>3. ASSUME pc # "end", pc' = "end", UNCHANGED <<bytes, old, disk>>, outcome' = "abort"
      PROVE  Promise!Write
  <2>1. outcome = "pending"
    BY <1>3 DEF IInv, Bookkeeping
  <2>2. FileIsBeginning'
    BY <1>3 DEF IInv, Flushed
  <2>3. CASE disk' = old
    BY <1>3, <2>1, <2>3 DEF Promise!Write, Promise!Refuse
  <2>4. CASE disk' # old
    <3>1. PICK n \in 0 .. Len(bytes) : disk' = Beginning(bytes, n)
      BY <1>3, <2>2, <2>4 DEF FileIsBeginning
    <3> QED BY <1>3, <3>1, EndsWithACut
  <2> QED BY <2>3, <2>4
<1>4. CASE FopenFails
  BY <1>3, <1>4 DEF FopenFails
<1>5. CASE Killed
  BY <1>3, <1>5 DEF Killed
<1>6. CASE Exit
  <2>1. PICK n \in 0 .. Len(bytes) : disk' = Beginning(bytes, n)
    BY <1>6, FlushedAtTheEnd DEF Exit
  <2> QED BY <1>6, <2>1, EndsWithACut DEF Exit
<1>7. CASE Fclose
  <2>1. CASE disk' = stream /\ outcome' = "written"
    <3>1. Beginning(bytes, Len(bytes)) = bytes
      BY TypesOfTheCall, BeginningEnds DEF IInv
    <3>2. stream = bytes
      BY <1>7, <3>1 DEF IInv, Taken, Fclose
    <3>3. outcome = "pending"
      BY <1>7 DEF IInv, Bookkeeping, Fclose
    <3> QED BY <1>7, <2>1, <3>2, <3>3 DEF Fclose, Promise!Write, Promise!Succeed
  <2>2. CASE Flush /\ outcome' = "lost"
    <3>1. PICK n \in 0 .. Len(bytes) : disk' = Beginning(bytes, n)
      BY <1>7, <2>2, FlushedAtTheEnd DEF Fclose
    <3> QED BY <1>7, <2>2, <3>1, EndsWithACut DEF Fclose
  <2> QED BY <1>7, <2>1, <2>2 DEF Fclose
<1> QED BY <1>1, <1>2, <1>4, <1>5, <1>6, <1>7 DEF Next

\* For data of every length: seen from outside, File::write is one step, that leaves the
\* data, or ends the process or loses the error and leaves a beginning of the data or what
\* the file held.
THEOREM WriteKeepsPromise == Spec => KeepsPromise
<1>1. Init => outcome = "pending"
  BY DEF Init
<1> QED BY <1>1, Inductive, StepKeepsPromise, PTL DEF Spec, KeepsPromise, Promise!Spec

-----------------------------------------------------------------------------
(* A load while the file is written.                                       *)

\* What fstat found, and what of it still holds.
Measured ==
    /\ st_size \in Nat
    /\ step \in {"mmap", "memcpy", "returned"} => found \in Seq(Nat) /\ st_size = Len(found)
    /\ step \in {"memcpy", "returned"} => st_size > 0
    /\ ~ moved /\ step \in {"mmap", "memcpy"} => disk = found

\* The bytes that are copied.
Copied ==
    /\ content = [k \in DOMAIN content |-> content[k]]
    /\ DOMAIN content \subseteq 1 .. st_size
    /\ step \in {"open", "fstat", "mmap"} => DOMAIN content = {}
    /\ step = "returned" => DOMAIN content = 1 .. st_size
    /\ ~ moved => \A k \in DOMAIN content : content[k] = found[k]
    /\ \A k \in DOMAIN content : OldOrNew(k, content[k])

LInv == Measured /\ Copied

\* Whoever loads the file, File::write does what it does alone.
LEMMA WriterIsFileWrite == SharedSpec => Spec
<1>1. SharedInit => Init
  BY DEF SharedInit
<1>2. [SharedNext]_sharedVars => [Next]_vars
  BY DEF SharedNext, Writes, Loads, sharedVars
<1> QED BY <1>1, <1>2, PTL DEF SharedSpec, Spec

LEMMA CallIsFixed == [Next]_vars => UNCHANGED <<bytes, old>>
  BY DEF Next, vars, Fopen, FopenFails, Fwrite, Complete, Retry, AssertFails, Fclose, Exit, Killed

\* What is read from the file was in the old file or is in the new.
LEMMA DiskIsOldOrNew ==
    ASSUME IInv, FileIsBeginning, NEW k \in 1 .. Len(disk)
    PROVE  OldOrNew(k, disk[k])
<1>1. bytes \in Seq(Nat)
  BY TypesOfTheCall DEF IInv
<1>2. CASE disk = old
  <2>1. k \in Int /\ k <= Len(old)
    BY <1>2
  <2> QED BY <1>2, <2>1 DEF OldOrNew
<1>3. ASSUME NEW n \in 0 .. Len(bytes), disk = Beginning(bytes, n) PROVE OldOrNew(k, disk[k])
  <2>1. Len(bytes) \in Nat /\ Len(disk) = n
    BY <1>1, <1>3, BeginningType, LenProperties
  <2>2. k \in 1 .. n /\ k <= Len(bytes)
    BY <2>1
  <2>3. Beginning(bytes, n)[k] = bytes[k]
    <3>1. n \in Nat /\ \A i \in 1 .. n : bytes[i] \in Nat
      BY <1>1, <2>1, ElementOfSeq
    <3> QED BY <2>2, <3>1 DEF Beginning
  <2> QED BY <1>3, <2>2, <2>3 DEF OldOrNew
<1> QED BY <1>2, <1>3 DEF FileIsBeginning

LEMMA LoadStart == SharedInit => LInv
<1> SUFFICES ASSUME SharedInit PROVE LInv
  OBVIOUS
<1>1. step = "open" /\ st_size = 0 /\ content = << >> /\ moved = FALSE
  BY DEF SharedInit, Load!Init
<1>2. DOMAIN content = {} /\ content = [k \in DOMAIN content |-> content[k]]
  BY <1>1
<1> QED BY <1>1, <1>2 DEF LInv, Measured, Copied

LEMMA WritesStep == ASSUME LInv, Writes PROVE LInv'
<1>1. UNCHANGED <<step, st_size, content, found>> /\ UNCHANGED <<bytes, old>>
  BY CallIsFixed DEF Writes, reader
<1>2. /\ ~ moved' => ~ moved
      /\ ~ moved' /\ step # "returned" => disk' = disk
  BY DEF Writes
<1>3. Measured'
  BY <1>1, <1>2 DEF LInv, Measured
<1>4. Copied'
  BY <1>1, <1>2 DEF LInv, Copied, OldOrNew
<1> QED BY <1>3, <1>4 DEF LInv

LEMMA LoadsStep == ASSUME IInv, FileIsBeginning, LInv, Loads PROVE LInv'
<1>1. UNCHANGED <<bytes, old, disk>> /\ disk \in Seq(Nat) /\ Len(disk) \in Nat
  BY TypesOfTheCall DEF Loads, vars, IInv
<1>2. step # "fstat" => UNCHANGED <<found, moved>>
  BY DEF Loads, history
<1>3. CASE Load!CallFails
  <2>1. step \in {"open", "fstat", "mmap"} /\ step' = "died" /\ UNCHANGED <<st_size, content>>
    BY <1>3 DEF Load!CallFails
  <2> QED BY <2>1, <1>1 DEF LInv, Measured, Copied
<1>4. CASE Load!Open
  <2>1. step = "open" /\ step' = "fstat" /\ UNCHANGED <<st_size, content>>
    BY <1>4 DEF Load!Open
  <2> QED BY <2>1, <1>1 DEF LInv, Measured, Copied
<1>5. CASE Load!Fstat
  <2>1. /\ step = "fstat" /\ step' = "mmap" /\ st_size' = Len(disk) /\ UNCHANGED content
        /\ found' = disk /\ moved' = FALSE
    BY <1>5 DEF Load!Fstat, Loads
  <2> QED BY <2>1, <1>1 DEF LInv, Measured, Copied
<1>6. CASE Load!Mmap
  <2>1. step = "mmap" /\ step' = "memcpy" /\ st_size > 0 /\ UNCHANGED <<st_size, content>>
    BY <1>6 DEF Load!Mmap
  <2> QED BY <2>1, <1>1, <1>2 DEF LInv, Measured, Copied, OldOrNew
<1>7. CASE Load!Memcpy
  <2>1. PICK k \in 1 .. st_size \ DOMAIN content :
          content' = [b \in DOMAIN content \cup {k} |->
                        IF b # k THEN content[b] ELSE IF k <= Len(disk) THEN disk[k] ELSE 0]
    BY <1>7 DEF Load!Memcpy, Load!Uncopied
  <2>2. step = "memcpy" /\ UNCHANGED <<step, st_size>> /\ UNCHANGED <<found, moved>>
    BY <1>2, <1>7 DEF Load!Memcpy
  <2>3. Measured'
    BY <1>1, <2>2 DEF LInv, Measured
  <2>4. /\ DOMAIN content' = DOMAIN content \cup {k}
        /\ \A b \in DOMAIN content : content'[b] = content[b]
        /\ content'[k] = IF k <= Len(disk) THEN disk[k] ELSE 0
        /\ content' = [b \in DOMAIN content' |-> content'[b]]
    BY <2>1
  <2>5. OldOrNew(k, content'[k])
    <3>1. CASE k <= Len(disk)
      <4>1. k \in 1 .. Len(disk)
        BY <1>1, <2>1, <3>1 DEF LInv, Measured
      <4> QED BY <2>4, <3>1, <4>1, DiskIsOldOrNew
    <3>2. CASE ~ (k <= Len(disk))
      BY <2>4, <3>2 DEF OldOrNew
    <3> QED BY <3>1, <3>2
  <2>6. ~ moved => content'[k] = found[k]
    <3>1. ~ moved => disk = found /\ k <= Len(disk)
      BY <2>1, <2>2 DEF LInv, Measured
    <3> QED BY <2>4, <3>1
  <2>7. Copied'
    BY <1>1, <2>1, <2>2, <2>4, <2>5, <2>6 DEF LInv, Copied, OldOrNew
  <2> QED BY <2>3, <2>7 DEF LInv
<1>8. CASE Load!MemcpyDies
  <2>1. step = "memcpy" /\ step' = "died" /\ UNCHANGED <<st_size, content>>
    BY <1>8 DEF Load!MemcpyDies
  <2> QED BY <2>1, <1>1, <1>2 DEF LInv, Measured, Copied, OldOrNew
<1>9. CASE Load!Return
  <2>1. /\ step = "memcpy" /\ step' = "returned" /\ UNCHANGED <<st_size, content>>
        /\ 1 .. st_size \ DOMAIN content = {}
    BY <1>9 DEF Load!Return, Load!Uncopied
  <2> QED BY <2>1, <1>1, <1>2 DEF LInv, Measured, Copied, OldOrNew
<1> QED BY <1>3, <1>4, <1>5, <1>6, <1>7, <1>8, <1>9 DEF Loads, Load!Next

LEMMA LoadStutters == ASSUME LInv, UNCHANGED sharedVars PROVE LInv'
  BY DEF LInv, Measured, Copied, OldOrNew, sharedVars, vars, reader, history

\* For files of every length, pages of every size and every order of the copy: a load that
\* nobody disturbs returns the file, and one that is overtaken nothing but bytes that were in
\* their places, and zeros.
THEOREM LoadReturnsTheFile == SharedSpec => []LoadedIsFile
<1>1. SharedSpec => []IInv /\ []FileIsBeginning
  BY WriterIsFileWrite, Inductive, FileKeepsABeginning, PTL
<1>2. IInv /\ FileIsBeginning /\ LInv /\ [SharedNext]_sharedVars => LInv'
  BY WritesStep, LoadsStep, LoadStutters DEF SharedNext
<1>3. LInv => LoadedIsFile
  <2> SUFFICES ASSUME LInv, step = "returned"
               PROVE  /\ DOMAIN content = 1 .. Len(found) /\ found # << >>
                      /\ ~ moved => content = found
                      /\ \A k \in DOMAIN content : OldOrNew(k, content[k])
    BY DEF LoadedIsFile
  <2>1. found \in Seq(Nat) /\ DOMAIN content = 1 .. Len(found) /\ Len(found) > 0
    BY DEF LInv, Measured, Copied
  <2>2. found # << >>
    BY <2>1
  <2>3. ~ moved => content = found
    <3>1. found = [k \in 1 .. Len(found) |-> found[k]]
      BY <2>1
    <3>2. content = [k \in 1 .. Len(found) |-> content[k]]
      BY <2>1 DEF LInv, Copied
    <3> QED BY <2>1, <3>1, <3>2 DEF LInv, Copied
  <2> QED BY <2>1, <2>2, <2>3 DEF LInv, Copied
<1> QED BY LoadStart, <1>1, <1>2, <1>3, PTL DEF SharedSpec
=============================================================================
