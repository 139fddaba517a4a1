------------------------------ MODULE MCNafath ------------------------------
(* Instances of Nafath for model checking.                                 *)
EXTENDS Nafath, TLC

Symmetry == Permutations(RequestIds) \cup Permutations(NationalIds) \cup Permutations(Users)
                \cup Permutations(Handlers)
=============================================================================
