-------------------------- MODULE MCIndexGeneration --------------------------
(* Values of the constants of IndexGeneration for TLC.                     *)
EXTENDS IndexGeneration, TLC

CONSTANTS f1, f2, a, b, z, p1, p2, w1, w2

\* One process with one worker.
OneWorker == w1 :> p1
\* Two processes with one worker each.
TwoProcesses == w1 :> p1 @@ w2 :> p2
\* One process in which two goroutines run commands.
OneProcess == w1 :> p1 @@ w2 :> p1

SameVersion == [p \in Projects |-> CHOOSE v \in Versions : TRUE]
\* The second process runs an upgraded binary.
Upgraded == p1 :> "v1" @@ p2 :> "v2"

FileSymmetry == Permutations(Files) \cup Permutations(Indexable)
=============================================================================
