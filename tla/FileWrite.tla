----------------------------- MODULE FileWrite ------------------------------
(***************************************************************************)
(* include/base.hh: File::write, over the C library's streams.  fwrite may *)
(* take fewer bytes than it is given, and the bytes it took may stay in    *)
(* the stream until fclose or exit.  The process may be killed in between. *)
(***************************************************************************)
EXTENDS Integers, Sequences

CONSTANTS
    Datas,      \* the data File::write is called with
    Olds,       \* what the file may hold before
    Cuts        \* every length of a beginning of the data

ASSUME DatasAssumption ==
    \A d \in Datas : d \in Seq(Nat) /\ \A n \in 0 .. Len(d) : n \in Cuts

ASSUME OldsAssumption == Olds \subseteq Seq(Nat)

VARIABLES
    bytes,      \* the data of the call
    old,        \* what the file held before the call
    pc,         \* where File::write is
    data,       \* how far the parameter data has moved into bytes
    size,       \* the parameter size
    written,    \* the local variable of the loop
    stream,     \* the bytes fwrite has taken
    disk,       \* the content of the file
    outcome     \* what the call came to

vars == <<bytes, old, pc, data, size, written, stream, disk, outcome>>

PC == {"fopen", "fwrite", "check", "fclose", "exit", "end"}

Init ==
    /\ bytes \in Datas
    /\ old \in Olds
    /\ pc = "fopen"
    /\ data = 0
    /\ size = Len(bytes)
    /\ written = 0
    /\ stream = << >>
    /\ disk = old
    /\ outcome = "pending"

Beginning(s, n) == SubSeq(s, 1, n)

\* Some of the stream reaches the file; what is there stays.
Flush == \E n \in Len(disk) .. Len(stream') : disk' = Beginning(stream', n)

\* Mutant: std::fopen(path, "ab").
FopenAppends ==
    /\ pc = "fopen"
    /\ stream' = old
    /\ pc' = "fwrite"
    /\ UNCHANGED <<bytes, old, data, size, written, disk, outcome>>

\* std::fopen(path, "wb") empties the file.
Fopen ==
    /\ pc = "fopen"
    /\ disk' = << >>
    /\ pc' = "fwrite"
    /\ UNCHANGED <<bytes, old, data, size, written, stream, outcome>>

\* fiska_assert(file, ...)
FopenFails ==
    /\ pc = "fopen"
    /\ outcome' = "abort"
    /\ pc' = "end"
    /\ UNCHANGED <<bytes, old, data, size, written, stream, disk>>

\* std::fwrite(data, 1, size, file)
Fwrite ==
    /\ pc = "fwrite"
    /\ written' \in 0 .. size
    /\ stream' = stream \o SubSeq(bytes, data + 1, data + written')
    /\ Flush
    /\ pc' = "check"
    /\ UNCHANGED <<bytes, old, data, size, outcome>>

\* written == size: break.
Complete ==
    /\ pc = "check"
    /\ written = size
    /\ pc' = "fclose"
    /\ UNCHANGED <<bytes, old, data, size, written, stream, disk, outcome>>

\* Mutant: data stays where it is.
RetrySameData ==
    /\ pc = "check"
    /\ written # size
    /\ written = 1
    /\ size' = size - written
    /\ pc' = "fwrite"
    /\ UNCHANGED <<bytes, old, data, written, stream, disk, outcome>>

\* The rest of the data again, behind the byte that was written.
Retry ==
    /\ pc = "check"
    /\ written # size
    /\ written = 1
    /\ data' = data + written
    /\ size' = size - written
    /\ pc' = "fwrite"
    /\ UNCHANGED <<bytes, old, written, stream, disk, outcome>>

\* Mutant: nobody looks at a write of no byte.
AssertFailsAboveOne ==
    /\ pc = "check"
    /\ written # size
    /\ written > 1
    /\ pc' = "exit"
    /\ UNCHANGED <<bytes, old, data, size, written, stream, disk, outcome>>

\* fiska_assert(written == 1, "Failed to write byte to file: {}", ...)
AssertFails ==
    /\ pc = "check"
    /\ written # size
    /\ written # 1
    /\ pc' = "exit"
    /\ UNCHANGED <<bytes, old, data, size, written, stream, disk, outcome>>

\* std::fclose(file), whose result is not looked at.
Fclose ==
    /\ pc = "fclose"
    /\ pc' = "end"
    /\ UNCHANGED <<bytes, old, data, size, written, stream>>
    /\ \/ disk' = stream /\ outcome' = "written"
       \/ Flush /\ outcome' = "lost"

\* Mutant: the error is reported as a success.
ExitQuietly ==
    /\ pc = "exit"
    /\ pc' = "end"
    /\ outcome' = "written"
    /\ UNCHANGED <<bytes, old, data, size, written, stream>>
    /\ Flush

\* std::exit(1) closes the streams that are open.
Exit ==
    /\ pc = "exit"
    /\ pc' = "end"
    /\ outcome' = "abort"
    /\ UNCHANGED <<bytes, old, data, size, written, stream>>
    /\ Flush

\* The process is killed: what is in the stream is gone.
Killed ==
    /\ pc # "end"
    /\ pc' = "end"
    /\ outcome' = "abort"
    /\ UNCHANGED <<bytes, old, data, size, written, stream, disk>>

Next ==
    \/ Fopen
    \/ FopenFails
    \/ Fwrite
    \/ Complete
    \/ Retry
    \/ AssertFails
    \/ Fclose
    \/ Exit
    \/ Killed

Spec == Init /\ [][Next]_vars

\* The calls of the library return; nobody need kill the process.
Fairness ==
    WF_vars(Fopen \/ FopenFails \/ Fwrite \/ Complete \/ Retry \/ AssertFails \/ Fclose \/ Exit)

-----------------------------------------------------------------------------
(* Correctness.                                                            *)

TypeOK ==
    /\ bytes \in Datas /\ old \in Olds
    /\ pc \in PC
    /\ data \in 0 .. Len(bytes) /\ size \in 0 .. Len(bytes) /\ written \in 0 .. Len(bytes)
    /\ stream \in Seq(Nat) /\ disk \in Seq(Nat)
    /\ outcome \in {"pending", "written", "lost", "abort"}

\* No round of the loop skips, repeats or reorders a byte: what the stream has taken is a
\* beginning of the data, the parameters point behind it, and it is whole when the loop
\* gives the stream to fclose.
StreamIsBeginning ==
    /\ stream = Beginning(bytes, Len(stream))
    /\ pc = "fwrite" => Len(stream) = data /\ data + size = Len(bytes)
    /\ pc = "fclose" => stream = bytes

\* The file holds what it held before, or a beginning of the data.
FileIsBeginning ==
    disk = old \/ \E n \in 0 .. Len(bytes) : disk = Beginning(bytes, n)

\* The loop ends: each round that does not end it shortens what is left to write.
RoundsShrink == [][pc = "check" /\ pc' = "fwrite" => size' < size]_vars

\* The call comes to its end, however often fwrite takes one byte only.
WriteEnds == <>(pc = "end")

\* File::write keeps the promise of FileSpec, in one step: its last.
Promise == INSTANCE FileSpec WITH
    data <- bytes, disk <- IF pc = "end" THEN disk ELSE old

KeepsPromise == Promise!Spec
=============================================================================
