------------------------------ MODULE MCJobEngine ------------------------------
EXTENDS JobEngineProperties, TLC
Symmetry == Permutations(Launch) \cup Permutations(Id)

(* One thing goes wrong: a statement fails, or a `kill` cannot be started, *)
(* or the server dies.                                                     *)
OneMishap == Len(faults) + misses + (gen - 1) <= 1
=============================================================================
