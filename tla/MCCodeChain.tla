---------------------------- MODULE MCCodeChain ----------------------------
(* Instances of the Code Tutor. *)
EXTENDS CodeChain, TLC

Symmetry == Permutations(Slots) \cup Permutations(Steps) \cup Permutations(Views)

WeakOrNone ==
  {[st |-> "weak", failed |-> FALSE], [st |-> "none", failed |-> TRUE]}

=============================================================================
