----------------------------- MODULE MCGroupDuel -----------------------------
(* TLC instance of GroupDuel: two named members who may each host.  Nothing  *)
(* tells them apart, so states that only swap them are the same.             *)
EXTENDS GroupDuel, TLC
CONSTANTS ann, bob
MCMember == {ann, bob}
Swapped == Permutations(MCMember)
=============================================================================
