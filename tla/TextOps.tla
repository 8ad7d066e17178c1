------------------------------ MODULE TextOps ------------------------------
(***************************************************************************)
(* The string operations of the editor, EECS441P1/ViewController.mm.  A    *)
(* text is the sequence of its UTF-16 units, the unit every NSString       *)
(* index counts.  insertSide and insertMain (and deleteSide, deleteMain)   *)
(* are the same function of their text, so each pair is one operator here. *)
(*                                                                         *)
(* substringToIndex: and substringFromIndex: raise NSRangeException when   *)
(* the index is past the end of the string, and nothing catches it: the    *)
(* Fits operators say when no such call raises.                            *)
(***************************************************************************)
EXTENDS Integers, Sequences

\* [s substringToIndex:n] and [s substringFromIndex:n]
Take(s, n) == SubSeq(s, 1, n)
Drop(s, n) == SubSeq(s, n + 1, Len(s))

\* what the text view does when the user replaces m units at p by w
Splice(s, p, m, w) == Take(s, p) \o w \o Drop(s, p + m)

(***************************************************************************)
(* Insert: the location is the sender's caret AFTER the insertion, so the  *)
(* text goes in at location - numChars.  The branches for the start and    *)
(* the end of the text compute what the branch for the middle would.       *)
(***************************************************************************)
InsertFits(s, location, numChars) == location - numChars \in 0..Len(s)

InsertText(s, text, location, numChars) ==
    Splice(s, location - numChars, 0, text)

(***************************************************************************)
(* Delete: the location is the sender's caret, where the deleted units     *)
(* began.  The branch for "the end" is taken when exactly one unit would   *)
(* remain after the deleted ones, and drops that unit too.                 *)
(***************************************************************************)
DeleteFits(s, location, numChars) == location + numChars <= Len(s)

DeleteText(s, location, numChars) ==
    IF location # 0 /\ location = Len(s) - numChars - 1
    THEN Take(s, location)
    ELSE Splice(s, location, numChars, <<>>)

\* abs(self.textSize - [text length])
Distance(m, n) == IF m < n THEN n - m ELSE m - n

=============================================================================
