---------------------------- MODULE MCFileWrite -----------------------------
(***************************************************************************)
(* Model checking of FileWrite.                                            *)
(***************************************************************************)
EXTENDS FileWrite

\* Data of up to five bytes: repeated bytes, so that a skipped one may go unnoticed, and
\* distinct ones, so that it may not.
MCDatas == {<< >>, <<7>>, <<1, 1, 1>>, <<1, 2, 1, 2>>, <<1, 2, 3, 4, 5>>}

\* An empty file, a beginning of some data, and a longer file.
MCOlds == {<< >>, <<1, 2>>, <<9, 9, 9, 9, 9, 9>>}
=============================================================================
