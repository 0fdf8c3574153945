--------------------------- MODULE MCLazyInstance ---------------------------
(* Instances of LazyInstance for TLC.                                      *)
EXTENDS LazyInstance, TLC

(* Tasks, and objects, differ only in their names.                         *)
TaskSymmetry == Permutations(Tasks)
ActorSymmetry == Permutations(Tasks) \cup Permutations(Insts)
=============================================================================
