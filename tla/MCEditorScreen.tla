--------------------------- MODULE MCEditorScreen ---------------------------
(***************************************************************************)
(* EditorScreen for TLC: two heights, a bar of 1.                          *)
(***************************************************************************)
EXTENDS EditorScreen

MCHeights == {2, 3}

=============================================================================
