------------------------------ MODULE MCLobby ------------------------------
(***************************************************************************)
(* Lobby for TLC.  Names and slots are interchangeable.  Each device may   *)
(* have a call under way in every slot, but not all devices at once.       *)
(***************************************************************************)
EXTENDS Lobby, TLC

CONSTANT MaxUnderWay    \* bound: calls under way on all devices

Symmetric == Permutations(Names) \union Permutations(Slots)

FewCalls == Cardinality({<<d, k>> \in Devices \X UNION {calls[d] : d \in Devices} :
                            k \in calls[d]}) <= MaxUnderWay

=============================================================================
