------------------------------ MODULE MCFileIO ------------------------------
(***************************************************************************)
(* Small instances of FileIO for TLC.                                      *)
(***************************************************************************)
EXTENDS FileIO

\* A client's data that reads as the offset of page 1, the worst a page can
\* hold where a link is expected ...
LinkLikeData == {PAGESIZE}

\* ... and data that reads as no offset a file can have, as text does: behind
\* the last block, and negative but not the end of a list.
TextData == {(MaxSize * PAGESIZE + 1) * PAGESIZE, EMPTY_LIST - 1}

\* Clients with and without a source, and with one always.
AnySource == Data \cup {NULL}

=============================================================================
