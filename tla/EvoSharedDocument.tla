------------------------- MODULE EvoSharedDocument -------------------------
(***************************************************************************)
(* The editor implements SharedDocument for every device that joined the   *)
(* session: the copy is sideString, the view is the text view, and a user  *)
(* has changes under way while BRCounter is positive.  The device that     *)
(* created the session is left out: the lobby drops the events that arrive *)
(* before its editor opens (missed), so its copy may skip versions.        *)
(***************************************************************************)
EXTENDS EvoEditor

Joiners == Clients \ {Creator}

OfJoiners(f) == [c \in Joiners |-> f[c]]

Waiting == [c \in Joiners |-> BRCounter[c] > 0]

Shared == INSTANCE SharedDocument WITH
    Peers <- Joiners,
    Text <- Seq(Char),
    Blank <- <<>>,
    at <- OfJoiners(executed),
    copy <- OfJoiners(sideString),
    view <- OfJoiners(myText),
    dirty <- Waiting

\* Every step of the editor is a step SharedDocument allows, or none: events
\* are merged one by one in the session's order into a copy that never
\* diverges, and the view leaves the copy only for the user's own edits.
SharedSpec == Shared!Spec

=============================================================================
