----------------------------- MODULE MCQuarantine -----------------------------
(* Instances of Quarantine for TLC. *)
EXTENDS Quarantine, TLC

CONSTANTS p1, p2, r1, r2, path1, path2, dir1, dir2, spare

OneHome   == r1 :> path1
OneTarget == r1 :> dir1
TwoHomes   == r1 :> path1 @@ r2 :> path2
TwoTargets == r1 :> dir1 @@ r2 :> dir2
OnePlan == {{r1, r2}}
TwoPlans == {{r1}, {r2}}
SingleItem == {{r1}}
Symmetry == Permutations(Procs)
===============================================================================
