------------------------------- MODULE MCRelay -------------------------------
(* The relay with clients that write what they like, a second request on    *)
(* one connection included.  MaxIn and MaxOut bound the frames a connection *)
(* has under way in each direction.                                         *)
EXTENDS Relay, TLC

CONSTANTS MaxIn, MaxOut

MCFrames == {[type |-> "StartDuel"]}
MCOuts   == {<<>>} \cup {<<f>> : f \in RequestFrames \cup MCFrames}
AnyNames == Permutations(Conn) \cup Permutations(Code)

InBounds ==
    \A c \in Conn : Len(toServer[c]) <= MaxIn /\ Len(toClient[c]) <= MaxOut
=============================================================================
