------------------------ MODULE MCWeeklyPublication ------------------------
(***************************************************************************)
(* Instances of WeeklyPublication for TLC.                                 *)
(***************************************************************************)
EXTENDS WeeklyPublication, TLC

Symmetry == Permutations(Jobs) \cup Permutations(Bundles) \cup Permutations(Profiles)
=============================================================================
