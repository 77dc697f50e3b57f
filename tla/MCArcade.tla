------------------------------ MODULE MCArcade ------------------------------
(* TLC instance of Arcade: an archetype with a super rare and a rare card,   *)
(* and a wheel that pays credits or a bonus pack.                            *)
EXTENDS Arcade, TLC
CONSTANTS alpha, super, rare
MCNames == Permutations(Name)
MCRarity == [c \in Card |-> IF c = super THEN 2 ELSE 1]
MCKeys == [c \in Card |-> {alpha}]
MCPrizes == {[sr |-> 1, nr |-> 1, packs |-> 0], [sr |-> 0, nr |-> 0, packs |-> 1]}
=============================================================================
