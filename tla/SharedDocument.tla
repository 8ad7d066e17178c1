-------------------------- MODULE SharedDocument ---------------------------
(***************************************************************************)
(* What the shared editor promises, without messages, counters, positions  *)
(* or threads.  There is one sequence of published texts.  Every peer      *)
(* keeps a copy that is always one of them and goes through them one by    *)
(* one, in order, skipping none; its view is the copy, except while its    *)
(* user's own changes are on the way ("dirty"), when only the user changes *)
(* the view.                                                               *)
(***************************************************************************)
EXTENDS Integers, Sequences

CONSTANTS Peers, Text, Blank

VARIABLES
    versions,       \* the published texts, the blank one first
    at,             \* how many of them came after Blank in a peer's copy
    copy,           \* each peer's copy of the document
    view,           \* what each peer's user sees
    dirty           \* is some change of the user still on its way

vars == <<versions, at, copy, view, dirty>>

Init ==
    /\ versions = <<Blank>>
    /\ at = [p \in Peers |-> 0]
    /\ copy = [p \in Peers |-> Blank]
    /\ view = [p \in Peers |-> Blank]
    /\ dirty = [p \in Peers |-> FALSE]

\* the service publishes the next text
Publish ==
    /\ Len(versions') = Len(versions) + 1
    /\ versions'[Len(versions')] \in Text
    /\ versions' = Append(versions, versions'[Len(versions')])
    /\ UNCHANGED <<at, copy, view, dirty>>

\* the user changes the view; the change has to travel
Edit(p) ==
    /\ view'[p] \in Text
    /\ view' = [view EXCEPT ![p] = view'[p]]
    /\ dirty' = [dirty EXCEPT ![p] = TRUE]
    /\ UNCHANGED <<versions, at, copy>>

\* the copy becomes the next published text
Advance(p) ==
    /\ at[p] + 1 < Len(versions)
    /\ at' = [at EXCEPT ![p] = @ + 1]
    /\ copy' = [copy EXCEPT ![p] = versions[at[p] + 2]]
    /\ \/ /\ dirty[p]
          /\ UNCHANGED <<view, dirty>>
       \/ /\ dirty' = [dirty EXCEPT ![p] = FALSE]
          /\ view' = [view EXCEPT ![p] = versions[at[p] + 2]]
    /\ UNCHANGED versions

\* the peer starts again with nothing
Restart(p) ==
    /\ at' = [at EXCEPT ![p] = 0]
    /\ copy' = [copy EXCEPT ![p] = Blank]
    /\ view' = [view EXCEPT ![p] = Blank]
    /\ dirty' = [dirty EXCEPT ![p] = FALSE]
    /\ UNCHANGED versions

Next == Publish \/ \E p \in Peers : Edit(p) \/ Advance(p) \/ Restart(p)

Spec == Init /\ [][Next]_vars

=============================================================================
