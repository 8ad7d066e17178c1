----------------------------- MODULE EvoClaims -----------------------------
(***************************************************************************)
(* What comments of the source say of the editor and the code does not do. *)
(* A run refutes each; README.md tells how.                                *)
(***************************************************************************)
EXTENDS EvoEditor

Editing(c) == phase[c] = "editing"

\* ViewController.mm:162 and 186: textSize is "the former size of the text in
\* the textview", updated "everytime the text changes".
TextSizeIsFormerSize ==
    \A c \in Clients : Editing(c) => textSize[c] = Len(myText[c])

\* ViewController.mm:514: "Use a counter for the number of self broadcasts
\* and self receives", so that it is 0 again when every one came back.
CounterIsUnderWay ==
    \A c \in Clients : Editing(c) =>
        BRCounter[c] = Cardinality(OwnPending(c)) + Cardinality(OwnUnread(c))

\* ViewController.mm:517, rule 6: "Treat the receiving of other member
\* broadcasts as normal when counter is 0, just immediately alter original
\* string and the side string".  On a device that got every event of the
\* session no such broadcast raises.
BroadcastsAreNormal ==
    \A c \in Clients : phase[c] = "crashed" /\ missed[c] = 0 /\ BRCounter[c] = 0 =>
        IsSelf(c, log[executed[c] + 1])

\* a session in which nobody but c has said anything, and all is delivered
Alone(c) == pending = {} /\ \A i \in 1..Len(log) : IsSelf(c, log[i])

\* ViewController.mm:554: "Delete is at end": a branch for the end takes away
\* what was deleted there and no more, so that what a lone user made of the
\* text is what stands there when his broadcasts have all come back.
EchoKeepsText ==
    [][\A c \in Clients :
          Editing(c) /\ Editing(c)' /\ Alone(c) /\ executed'[c] = Len(log)
          /\ executed'[c] > executed[c]
          => myText'[c] = myText[c]]_vars

=============================================================================
