--------------------------- MODULE MCLibraryStart ---------------------------
(* Constants with which TLC checks LibraryStart.                           *)
EXTENDS LibraryStart

CONSTANTS main, t1, t2

MCThreads == {main, t1, t2}
=============================================================================
