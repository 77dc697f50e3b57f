--------------------------- MODULE MCDeckBuilder ---------------------------
(* TLC instance of DeckBuilder: a main-deck card and an extra-deck card.     *)
(* The clipboard may hold a deck over every limit, with an extra-deck card   *)
(* in the main deck.                                                         *)
EXTENDS DeckBuilder
CONSTANTS a, x
MCCode == [c \in Card |-> CASE c = a -> 89631139 [] c = x -> 1861629]
MCRank == [c \in Card |-> CASE c = a -> 1 [] c = x -> 0]
MCOwned == [c \in Card |-> IF c = x THEN 0 ELSE 1]
MCDeck(m, e, sd) == [z \in Zone |-> CASE z = "main" -> m [] z = "extra" -> e [] z = "side" -> sd]
MCShared == {MCDeck(<<a, a, x, a>>, <<x>>, <<a>>), NoCards}
MCStarter == MCDeck(<<a>>, <<x>>, <<>>)
MCFileOf == [n \in 1..Formats |-> IF n = 3 THEN 1 ELSE n]
MCLimits == {[c \in Card |-> Copies], [c \in Card |-> IF c = a THEN 1 ELSE Copies]}
=============================================================================
