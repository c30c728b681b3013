--------------------------- MODULE MCProfileSetup ---------------------------
(* ProfileSetup for TLC: the bounds are set in the configurations. *)
EXTENDS ProfileSetup, TLC

Symmetry == Permutations(Requests) \union Permutations(Profiles)
=============================================================================
