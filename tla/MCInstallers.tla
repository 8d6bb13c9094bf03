---------------------------- MODULE MCInstallers ----------------------------
(***************************************************************************)
(* The two installers of internal/setup.  They share no file, so a         *)
(* behaviour explores one of them and leaves the other one's variables at  *)
(* their initial values.                                                   *)
(***************************************************************************)
EXTENDS SetupTransaction, UserInstall, TLC

CONSTANTS c1, c2, k1, k2, agents, helix, skill, old, top, omp, prowl,
          a, b, l, claude

VARIABLE which   \* the installer this behaviour explores

MCFolder == [p \in Paths |-> IF p \in {agents, helix} THEN top ELSE omp]
MCAbove  == top :> {} @@ omp :> {omp} @@ prowl :> {prowl}
MCKind   == Restrict(agents :> "block" @@ helix :> "seed" @@ skill :> "whole" @@
                     old :> "retired", Paths)
MCSelections == {SelectSeq(<<agents, helix>>, LAMBDA p : p \in Paths), <<skill, old>>}

\* Two versions that differ in one asset of Claude's and agree on OMP's.
MCClient == a :> claude @@ b :> omp @@ l :> claude
MCBody   == [v \in Versions |-> [x \in Assets |-> IF x = b THEN "same" ELSE v]]

InstallersInit ==
    /\ Init /\ UserInit
    /\ \/ which = "project" /\ \A x \in Assets : file[x] = NoFile
       \/ which = "user" /\ dirs = Dirs /\ \A p \in Paths : files[p] = Absent

InstallersNext ==
    /\ \/ which = "project" /\ Next /\ UNCHANGED userVars
       \/ which = "user" /\ UserNext /\ UNCHANGED vars
    /\ UNCHANGED which

InstallersSpec == InstallersInit /\ [][InstallersNext]_<<vars, userVars, which>>

ProcessSymmetry ==
    Permutations(Callers) \cup Permutations(Keys) \cup Permutations(Installers)
=============================================================================
