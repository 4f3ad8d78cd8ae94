---------------------------- MODULE MCTutorView ----------------------------
(* Instance of TutorView for TLC. *)
EXTENDS TutorView, TLC

Symmetry == Permutations(Views) \cup Permutations(Slots)
=============================================================================
