---------------------------- MODULE MCEvoEditor ----------------------------
(***************************************************************************)
(* Values for the constants of EvoEditor.                                  *)
(***************************************************************************)
EXTENDS EvoSharedDocument, EvoClaims

\* a plain letter, a letter outside ASCII, and half of a surrogate pair
Letter == "x"
Wide == "w"
Half == "h"

Plain == {Letter}
PlainDecode == [ch \in Plain |-> <<ch>>]

\* the two bytes of a letter outside ASCII come back as two other letters
Mixed == {Letter, Wide, Half}
MixedEncodable == {Letter, Wide}
MixedDecode == [ch \in MixedEncodable |->
                   IF ch = Wide THEN <<Letter, Letter>> ELSE <<ch>>]

\* a keystroke or a deletion
Keys == {<<>>, <<Letter>>}
\* also a paste of two letters
Pastes == Keys \union {<<Letter, Letter>>}
\* also other letters, and an emoji, two halves of a surrogate pair
MixedInputs == {<<>>, <<Letter>>, <<Wide>>, <<Letter, Wide>>, <<Half, Half>>}

=============================================================================
