------------------------------ MODULE FileLoad ------------------------------
(***************************************************************************)
(* include/base.hh: File::load, over the system calls of Linux.  The size  *)
(* is asked for once; the mapping then shows the file as it is when each   *)
(* byte is copied, zeros from its end to the end of that page, and nothing *)
(* beyond.  Somebody else may write the file meanwhile.                    *)
(***************************************************************************)
EXTENDS Integers, Sequences

CONSTANT PageSize       \* a number above 0

VARIABLES
    step,       \* where File::load is
    st_size,    \* of file_stat
    content,    \* the bytes of the vector that are copied, by their place
    disk        \* the content of the file

vars == <<step, st_size, content, disk>>

Init ==
    /\ step = "open"
    /\ st_size = 0
    /\ content = << >>

\* fiska_assert(fd >= 0, ...) and fiska_assert(fstat(fd, &file_stat) >= 0, ...)
CallFails ==
    /\ step \in {"open", "fstat", "mmap"}
    /\ step' = "died"
    /\ UNCHANGED <<st_size, content, disk>>

Open ==
    /\ step = "open"
    /\ step' = "fstat"
    /\ UNCHANGED <<st_size, content, disk>>

\* Mutant: the size is that of the mapping.
FstatPages ==
    /\ step = "fstat"
    /\ st_size' = ((Len(disk) + PageSize - 1) \div PageSize) * PageSize
    /\ step' = "mmap"
    /\ UNCHANGED <<content, disk>>

Fstat ==
    /\ step = "fstat"
    /\ st_size' = Len(disk)
    /\ step' = "mmap"
    /\ UNCHANGED <<content, disk>>

\* A length of 0 is MAP_FAILED: then only CallFails is left.
Mmap ==
    /\ step = "mmap"
    /\ st_size > 0
    /\ step' = "memcpy"
    /\ UNCHANGED <<st_size, content, disk>>

\* memcpy takes the bytes in the order it likes.
Uncopied == 1 .. st_size \ DOMAIN content

\* The pages behind the end of the file cannot be read.
Mapped(k) == (k - 1) \div PageSize <= (Len(disk) - 1) \div PageSize

Memcpy ==
    /\ step = "memcpy"
    /\ \E k \in Uncopied :
          /\ Mapped(k)
          /\ content' = [b \in DOMAIN content \cup {k} |->
                            IF b # k THEN content[b] ELSE IF k <= Len(disk) THEN disk[k] ELSE 0]
    /\ UNCHANGED <<step, st_size, disk>>

\* SIGBUS
MemcpyDies ==
    /\ step = "memcpy"
    /\ \E k \in Uncopied : ~ Mapped(k)
    /\ step' = "died"
    /\ UNCHANGED <<st_size, content, disk>>

\* close, munmap and return.
Return ==
    /\ step = "memcpy" /\ Uncopied = {}
    /\ step' = "returned"
    /\ UNCHANGED <<st_size, content, disk>>

Next ==
    \/ CallFails \/ Open \/ Fstat \/ Mmap
    \/ Memcpy \/ MemcpyDies \/ Return
=============================================================================
