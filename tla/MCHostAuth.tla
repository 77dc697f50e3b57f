----------------------------- MODULE MCHostAuth -----------------------------
(* Model values and symmetry for checking HostAuth on small instances. *)
EXTENDS HostAuth, TLC

MCSymmetry == Permutations(Shapes \ MultiPicks) \cup Permutations(MultiPicks)
                \cup Permutations(Choices) \cup Permutations(Coarse)
=============================================================================
