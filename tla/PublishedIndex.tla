---------------------------- MODULE PublishedIndex ----------------------------
(***************************************************************************)
(* What the index promises its readers, without walks, locks, transactions *)
(* and crashes: one generation at a time, replaced as a whole by another   *)
(* consistent one and never under a reader, withheld after a failure.      *)
(***************************************************************************)
CONSTANTS
    Readers,
    Consistent(_)  \* may this generation be published?

VARIABLES
    gen,        \* the current generation
    available,  \* may a reader be admitted?
    reading,    \* readers inside a logical read
    seen        \* the generations each of them has seen in it

vars == <<gen, available, reading, seen>>

Init ==
    /\ Consistent(gen)
    /\ reading = {}
    /\ seen = [r \in Readers |-> {}]

\* The whole generation is replaced, between logical reads.
Publish ==
    /\ reading = {}
    /\ Consistent(gen')
    /\ available' = TRUE
    /\ UNCHANGED <<reading, seen>>

Withhold ==
    /\ reading = {}
    /\ available' = FALSE
    /\ UNCHANGED <<gen, reading, seen>>

Admit(r) ==
    /\ available
    /\ r \notin reading
    /\ reading' = reading \cup {r}
    /\ UNCHANGED <<gen, available, seen>>

Read(r) ==
    /\ r \in reading
    /\ seen' = [seen EXCEPT ![r] = @ \cup {gen}]
    /\ UNCHANGED <<gen, available, reading>>

\* Readers end: one that is done, or all those of a process that is killed.
Leave(S) ==
    /\ reading' = reading \ S
    /\ seen' = [r \in Readers |-> IF r \in S THEN {} ELSE seen[r]]
    /\ UNCHANGED <<gen, available>>

Next ==
    \/ Publish
    \/ Withhold
    \/ \E r \in Readers : Admit(r) \/ Read(r)
    \/ \E S \in SUBSET Readers : Leave(S)

Spec == Init /\ [][Next]_vars
=============================================================================
