--------------------------- MODULE PlanStoreProofs ---------------------------
(* Theorems about PlanStore, for any clients, plans, reviews, stripes and   *)
(* collisions, and for any retention and bounds.                            *)
EXTENDS PlanStore, FiniteSetTheorems, WellFoundedInduction, TLAPS

LEMMA AbsentTyped == Absent \in Directory /\ Idle \in Client
BY StoreAssumption DEF Absent, Directory, Idle, Client, Steps

-----------------------------------------------------------------------------
LEMMA InitTyped == Init => TypeOK
BY StoreAssumption, AbsentTyped DEF Init, TypeOK

LEMMA BecomesTyped ==
    ASSUME TypeOK, NEW c \in Clients, NEW k \in Client, Becomes(c, k)
    PROVE  client' \in [Clients -> Client]
BY DEF TypeOK, Becomes

LEMMA RolledBackTyped ==
    ASSUME NEW k \in Client
    PROVE  [k EXCEPT !.pc = "failed", !.lease = "filled", !.tmp = Absent] \in Client
BY AbsentTyped DEF Client, Steps

LEMMA UnlockedTyped ==
    ASSUME TypeOK, NEW c \in Clients, Unlocked(c)
    PROVE  /\ storeLock' \in Clients \cup {None}
           /\ stripeLock' \in [Stripes -> Clients \cup {None}]
BY DEF TypeOK, Unlocked

LEMMA StepTyped == TypeOK /\ [Next]_vars => TypeOK'
<1> SUFFICES ASSUME TypeOK, [Next]_vars PROVE TypeOK'
  OBVIOUS
<1> USE StoreAssumption, AbsentTyped, UnlockedTyped, BecomesTyped DEF TypeOK
<1>1. ASSUME NEW c \in Clients, NEW p \in Plans, StartSave(c, p) PROVE TypeOK'
  <2>1. [Idle EXCEPT !.pc = "store", !.plan = p, !.review = ReviewOf[p], !.lease = "filled"] \in Client
    BY DEF Client, Steps, Idle
  <2> QED
    BY <1>1, <2>1 DEF StartSave
<1>2. ASSUME NEW c \in Clients, StartPrune(c) PROVE TypeOK'
  <2>1. [client[c] EXCEPT !.pc = "store"] \in Client
    BY DEF Client, Steps
  <2> QED
    BY <1>2, <2>1 DEF StartPrune
<1>3. ASSUME NEW c \in Clients, LockStore(c) PROVE TypeOK'
  <2>1. [client[c] EXCEPT !.pc = IF client[c].plan = None THEN "list" ELSE "check"] \in Client
    BY DEF Client, Steps
  <2> QED
    BY <1>3, <2>1 DEF LockStore
<1>4. ASSUME NEW c \in Clients, Refuse(c) PROVE TypeOK'
  <2>1. [client[c] EXCEPT !.pc = "failed"] \in Client
    BY DEF Client, Steps
  <2> QED
    BY <1>4, <2>1 DEF Refuse
<1>5. ASSUME NEW c \in Clients, Reuse(c) PROVE TypeOK'
  <2>1. [client[c] EXCEPT !.pc = "saved", !.lease = "released"] \in Client
    BY DEF Client, Steps
  <2> QED
    BY <1>5, <2>1 DEF Reuse
<1>6. ASSUME NEW c \in Clients, CreateTemp(c) PROVE TypeOK'
  <2>1. Draft(client[c].plan) \in Directory
    BY <1>6 DEF CreateTemp, Draft, Directory, Client
  <2>2. [client[c] EXCEPT !.pc = "lease", !.tmp = Draft(client[c].plan)] \in Client
    BY <2>1 DEF Client, Steps
  <2> QED
    BY <1>6, <2>1, <2>2 DEF CreateTemp
<1>7. ASSUME NEW c \in Clients, ConsumeLease(c) PROVE TypeOK'
  <2>1. [client[c].tmp EXCEPT !.snapshot = TRUE] \in Directory
    BY <1>7 DEF Client, Directory
  <2>2. [client[c] EXCEPT !.pc = "publish", !.lease = "moved", !.tmp = [client[c].tmp EXCEPT !.snapshot = TRUE]] \in Client
    BY <2>1 DEF Client, Steps
  <2> QED
    BY <1>7, <2>1, <2>2 DEF ConsumeLease
<1>8. ASSUME NEW c \in Clients, Publish(c) PROVE TypeOK'
  <2>1. [client[c] EXCEPT !.pc = "list", !.tmp = Absent] \in Client
    BY DEF Client, Steps
  <2>2. client[c].tmp \in Directory
    BY DEF Client
  <2>3. dirs' \in [Reviews -> Directory]
    BY <1>8, <2>2 DEF Publish
  <2>4. client' \in [Clients -> Client]
    BY <1>8, <2>1 DEF Publish
  <2> QED
    BY <1>8, <2>3, <2>4 DEF Publish
<1>9. ASSUME NEW c \in Clients, PublishFails(c) PROVE TypeOK'
  <2>1. [client[c] EXCEPT !.pc = "failed", !.lease = "filled", !.tmp = Absent] \in Client
    BY <1>9, RolledBackTyped
  <2>2. [client[c] EXCEPT !.pc = "failed"] \in Client
    BY DEF Client, Steps
  <2>3. client' \in [Clients -> Client]
    BY <1>9, <2>1, <2>2, BecomesTyped DEF PublishFails
  <2> QED
    BY <1>9, <2>3 DEF PublishFails
<1>10. ASSUME NEW c \in Clients, ReleaseLease(c) PROVE TypeOK'
  BY <1>10 DEF ReleaseLease
<1>11. ASSUME NEW c \in Clients, FinishSave(c) PROVE TypeOK'
  BY <1>11 DEF FinishSave
<1>12. ASSUME NEW c \in Clients, ListReviews(c) PROVE TypeOK'
  <2>1. Outdated \subseteq Reviews
    BY <1>12 DEF Outdated
  <2>2. [client[c] EXCEPT !.pc = "prune", !.victims = Outdated] \in Client
    BY <2>1 DEF Client, Steps
  <2> QED
    BY <1>12, <2>1, <2>2 DEF ListReviews
<1>13. ASSUME NEW c \in Clients, NEW v \in client[c].victims, DeleteReview(c, v) PROVE TypeOK'
  <2>1. [client[c] EXCEPT !.pc = "remove", !.victim = v, !.victims = client[c].victims \ {v}] \in Client
    BY DEF Client, Steps
  <2> QED
    BY <1>13, <2>1 DEF DeleteReview
<1>14. ASSUME NEW c \in Clients, NEW v \in client[c].victims, SkipLocked(c, v) PROVE TypeOK'
  <2>1. [client[c] EXCEPT !.victims = client[c].victims \ {v}, !.skipped = TRUE] \in Client
    BY DEF Client, Steps
  <2> QED
    BY <1>14, <2>1 DEF SkipLocked
<1>15. ASSUME NEW c \in Clients, RemoveEntry(c) PROVE TypeOK'
  <2> DEFINE v == client[c].victim
  <2>1. CASE v \in Reviews
    <3>1. /\ [dirs[v] EXCEPT !.manifest = None] \in Directory
          /\ [dirs[v] EXCEPT !.snapshot = FALSE] \in Directory
      BY <2>1 DEF Directory
    <3> QED
      BY <1>15, <2>1, <3>1 DEF RemoveEntry
  <2>2. CASE v \notin Reviews
    BY <1>15, <2>2 DEF RemoveEntry
  <2> QED
    BY <2>1, <2>2
<1>16. ASSUME NEW c \in Clients, RemoveDir(c) PROVE TypeOK'
  <2>1. [client[c] EXCEPT !.pc = "prune", !.victim = None] \in Client
    BY DEF Client, Steps
  <2> QED
    BY <1>16, <2>1 DEF RemoveDir
<1>17. ASSUME NEW c \in Clients, EndPrune(c) PROVE TypeOK'
  <2>1. [client[c] EXCEPT !.pc = "pruned"] \in Client
    BY DEF Client, Steps
  <2> QED
    BY <1>17, <2>1 DEF EndPrune
<1>18. ASSUME NEW c \in Clients, PruneFails(c) PROVE TypeOK'
  <2>1. [client[c] EXCEPT !.pc = "saved", !.victims = {}, !.victim = None] \in Client
    BY DEF Client, Steps
  <2> QED
    BY <1>18, <2>1 DEF PruneFails
<1>19. ASSUME NEW c \in Clients, NEW r \in Reviews, StartRead(c, r) PROVE TypeOK'
  <2>1. [client[c] EXCEPT !.pc = "stripe", !.review = r] \in Client
    BY DEF Client, Steps
  <2> QED
    BY <1>19, <2>1 DEF StartRead
<1>20. ASSUME NEW c \in Clients, LockReview(c) PROVE TypeOK'
  <2>1. [client[c] EXCEPT !.pc = "load"] \in Client
    BY DEF Client, Steps
  <2> QED
    BY <1>20, <2>1 DEF LockReview
<1>21. ASSUME NEW c \in Clients, LoadManifest(c) PROVE TypeOK'
  <2>1. Dir(c).manifest \in Plans
    BY <1>21 DEF LoadManifest
  <2>2. [client[c] EXCEPT !.pc = "verify", !.plan = Dir(c).manifest,
               !.todo = {q \in Reviews \ {client[c].review} : dirs[q].exists}] \in Client
    BY <2>1 DEF Client, Steps
  <2> QED
    BY <1>21, <2>1, <2>2 DEF LoadManifest
<1>22. ASSUME NEW c \in Clients, VerifySibling(c) PROVE TypeOK'
  <2>1. PICK q \in client[c].todo :
          Becomes(c, [client[c] EXCEPT !.todo = client[c].todo \ {q},
                                       !.seen = client[c].seen \cup ({dirs[q].manifest} \cap Plans)])
    BY <1>22 DEF VerifySibling
  <2>2. [client[c] EXCEPT !.todo = client[c].todo \ {q},
                          !.seen = client[c].seen \cup ({dirs[q].manifest} \cap Plans)] \in Client
    BY DEF Client, Steps
  <2> QED
    BY <1>22, <2>1, <2>2 DEF VerifySibling
<1>23. ASSUME NEW c \in Clients, UsePlan(c) PROVE TypeOK'
  <2>1. [client[c] EXCEPT !.pc = "use", !.seen = {}] \in Client
    BY DEF Client, Steps
  <2> QED
    BY <1>23, <2>1 DEF UsePlan
<1>24. ASSUME NEW c \in Clients, EndRead(c) PROVE TypeOK'
  BY <1>24 DEF EndRead
<1>25. ASSUME NEW c \in Clients, Crash(c) PROVE TypeOK'
  BY <1>25 DEF Crash
<1>26. ASSUME Tick PROVE TypeOK'
  BY <1>26 DEF Tick
<1>27. ASSUME NEW r \in Reviews, Damage(r) PROVE TypeOK'
  BY <1>27 DEF Damage, Readable, Directory
<1>28. CASE UNCHANGED vars
  BY <1>28 DEF vars
<1> QED
  BY <1>1, <1>2, <1>3, <1>4, <1>5, <1>6, <1>7, <1>8, <1>9, <1>10, <1>11, <1>12, <1>13, <1>14, <1>15, <1>16, <1>17, <1>18, <1>19, <1>20, <1>21, <1>22, <1>23, <1>24, <1>25, <1>26, <1>27, <1>28 DEF Next
-----------------------------------------------------------------------------
LEMMA OtherClients ==
    ASSUME TypeOK, NEW c \in Clients, NEW k, Becomes(c, k)
    PROVE  \A d \in Clients : client'[d] = IF d = c THEN k ELSE client[d]
BY DEF TypeOK, Becomes

(* A client between locking the store and releasing it holds the lock. *)
UnderStore == {"check", "lease", "publish", "list", "prune", "remove", "saved", "pruned"}
HoldsStore(c) == client[c].pc \in UnderStore => storeLock = c
StoreInv == \A c \in Clients : HoldsStore(c)

LEMMA StepStore == TypeOK /\ StoreInv /\ [Next]_vars => StoreInv'
<1> SUFFICES ASSUME TypeOK, StoreInv, [Next]_vars, NEW d \in Clients PROVE HoldsStore(d)'
  BY DEF StoreInv
<1>0. HoldsStore(d) /\ client[d] \in Client
  BY DEF StoreInv, TypeOK
<1> USE StoreAssumption, <1>0 DEF HoldsStore, UnderStore, At, Idle
<1>1. ASSUME NEW c \in Clients, NEW p \in Plans, StartSave(c, p) PROVE HoldsStore(d)'
  <2>1. CASE d # c
    <3>1. client'[d] = client[d]
      BY <1>1, <2>1, OtherClients DEF StartSave
    <3> QED
      BY <1>1, <2>1, <3>1 DEF StartSave, Unlocked, Client
  <2>2. CASE d = c
    <3>1. client'[d] = [Idle EXCEPT !.pc = "store", !.plan = p, !.review = ReviewOf[p], !.lease = "filled"]
      BY <1>1, <2>2, OtherClients DEF StartSave
    <3> QED
      BY <1>1, <2>2, <3>1 DEF StartSave, Unlocked, Client
  <2> QED
    BY <2>1, <2>2
<1>2. ASSUME NEW c \in Clients, StartPrune(c) PROVE HoldsStore(d)'
  <2>1. CASE d # c
    <3>1. client'[d] = client[d]
      BY <1>2, <2>1, OtherClients DEF StartPrune
    <3> QED
      BY <1>2, <2>1, <3>1 DEF StartPrune, Unlocked, Client
  <2>2. CASE d = c
    <3>1. client'[d] = [client[c] EXCEPT !.pc = "store"]
      BY <1>2, <2>2, OtherClients DEF StartPrune
    <3> QED
      BY <1>2, <2>2, <3>1 DEF StartPrune, Unlocked, Client
  <2> QED
    BY <2>1, <2>2
<1>3. ASSUME NEW c \in Clients, LockStore(c) PROVE HoldsStore(d)'
  <2>1. CASE d # c
    <3>1. client'[d] = client[d]
      BY <1>3, <2>1, OtherClients DEF LockStore
    <3> QED
      BY <1>3, <2>1, <3>1 DEF LockStore, Unlocked, Client
  <2>2. CASE d = c
    <3>1. client'[d] = [client[c] EXCEPT !.pc = IF client[c].plan = None THEN "list" ELSE "check"]
      BY <1>3, <2>2, OtherClients DEF LockStore
    <3> QED
      BY <1>3, <2>2, <3>1 DEF LockStore, Unlocked, Client
  <2> QED
    BY <2>1, <2>2
<1>4. ASSUME NEW c \in Clients, Refuse(c) PROVE HoldsStore(d)'
  <2>1. CASE d # c
    <3>1. client'[d] = client[d]
      BY <1>4, <2>1, OtherClients DEF Refuse
    <3> QED
      BY <1>4, <2>1, <3>1 DEF Refuse, Unlocked, Client
  <2>2. CASE d = c
    <3>1. client'[d] = [client[c] EXCEPT !.pc = "failed"]
      BY <1>4, <2>2, OtherClients DEF Refuse
    <3> QED
      BY <1>4, <2>2, <3>1 DEF Refuse, Unlocked, Client
  <2> QED
    BY <2>1, <2>2
<1>5. ASSUME NEW c \in Clients, Reuse(c) PROVE HoldsStore(d)'
  <2>1. CASE d # c
    <3>1. client'[d] = client[d]
      BY <1>5, <2>1, OtherClients DEF Reuse
    <3> QED
      BY <1>5, <2>1, <3>1 DEF Reuse, Unlocked, Client
  <2>2. CASE d = c
    <3>1. client'[d] = [client[c] EXCEPT !.pc = "saved", !.lease = "released"]
      BY <1>5, <2>2, OtherClients DEF Reuse
    <3> QED
      BY <1>5, <2>2, <3>1 DEF Reuse, Unlocked, Client
  <2> QED
    BY <2>1, <2>2
<1>6. ASSUME NEW c \in Clients, CreateTemp(c) PROVE HoldsStore(d)'
  <2>1. CASE d # c
    <3>1. client'[d] = client[d]
      BY <1>6, <2>1, OtherClients DEF CreateTemp
    <3> QED
      BY <1>6, <2>1, <3>1 DEF CreateTemp, Unlocked, Client
  <2>2. CASE d = c
    <3>1. client'[d] = [client[c] EXCEPT !.pc = "lease", !.tmp = Draft(client[c].plan)]
      BY <1>6, <2>2, OtherClients DEF CreateTemp
    <3> QED
      BY <1>6, <2>2, <3>1 DEF CreateTemp, Unlocked, Client
  <2> QED
    BY <2>1, <2>2
<1>7. ASSUME NEW c \in Clients, ConsumeLease(c) PROVE HoldsStore(d)'
  <2>1. CASE d # c
    <3>1. client'[d] = client[d]
      BY <1>7, <2>1, OtherClients DEF ConsumeLease
    <3> QED
      BY <1>7, <2>1, <3>1 DEF ConsumeLease, Unlocked, Client
  <2>2. CASE d = c
    <3>1. client'[d] = [client[c] EXCEPT !.pc = "publish", !.lease = "moved", !.tmp = [client[c].tmp EXCEPT !.snapshot = TRUE]]
      BY <1>7, <2>2, OtherClients DEF ConsumeLease
    <3> QED
      BY <1>7, <2>2, <3>1 DEF ConsumeLease, Unlocked, Client
  <2> QED
    BY <2>1, <2>2
<1>8. ASSUME NEW c \in Clients, Publish(c) PROVE HoldsStore(d)'
  <2>1. CASE d # c
    <3>1. client'[d] = client[d]
      BY <1>8, <2>1, OtherClients DEF Publish
    <3> QED
      BY <1>8, <2>1, <3>1 DEF Publish, Unlocked, Client
  <2>2. CASE d = c
    <3>1. client'[d] = [client[c] EXCEPT !.pc = "list", !.tmp = Absent]
      BY <1>8, <2>2, OtherClients DEF Publish
    <3> QED
      BY <1>8, <2>2, <3>1 DEF Publish, Unlocked, Client
  <2> QED
    BY <2>1, <2>2
<1>9. ASSUME NEW c \in Clients, PublishFails(c) PROVE HoldsStore(d)'
  <2>1. CASE d # c
    <3>1. client'[d] = client[d]
      BY <1>9, <2>1, OtherClients DEF PublishFails
    <3> QED
      BY <1>9, <2>1, <3>1 DEF PublishFails, Unlocked, Client
  <2>2. CASE d = c
    <3>1. \/ client'[d] = [client[c] EXCEPT !.pc = "failed", !.lease = "filled", !.tmp = Absent]
          \/ client'[d] = [client[c] EXCEPT !.pc = "failed"]
      BY <1>9, <2>2, OtherClients DEF PublishFails
    <3>2. client'[d].pc = "failed"
      BY <2>2, <3>1 DEF Client
    <3> QED
      BY <3>2
  <2> QED
    BY <2>1, <2>2
<1>10. ASSUME NEW c \in Clients, ReleaseLease(c) PROVE HoldsStore(d)'
  <2>1. CASE d # c
    <3>1. client'[d] = client[d]
      BY <1>10, <2>1, OtherClients DEF ReleaseLease
    <3> QED
      BY <1>10, <2>1, <3>1 DEF ReleaseLease, Unlocked, Client
  <2>2. CASE d = c
    <3>1. client'[d] = Idle
      BY <1>10, <2>2, OtherClients DEF ReleaseLease
    <3> QED
      BY <1>10, <2>2, <3>1 DEF ReleaseLease, Unlocked, Client
  <2> QED
    BY <2>1, <2>2
<1>11. ASSUME NEW c \in Clients, FinishSave(c) PROVE HoldsStore(d)'
  <2>1. CASE d # c
    <3>1. client'[d] = client[d]
      BY <1>11, <2>1, OtherClients DEF FinishSave
    <3> QED
      BY <1>11, <2>1, <3>1 DEF FinishSave, Unlocked, Client
  <2>2. CASE d = c
    <3>1. client'[d] = Idle
      BY <1>11, <2>2, OtherClients DEF FinishSave
    <3> QED
      BY <1>11, <2>2, <3>1 DEF FinishSave, Unlocked, Client
  <2> QED
    BY <2>1, <2>2
<1>12. ASSUME NEW c \in Clients, ListReviews(c) PROVE HoldsStore(d)'
  <2>1. CASE d # c
    <3>1. client'[d] = client[d]
      BY <1>12, <2>1, OtherClients DEF ListReviews
    <3> QED
      BY <1>12, <2>1, <3>1 DEF ListReviews, Unlocked, Client
  <2>2. CASE d = c
    <3>1. client'[d] = [client[c] EXCEPT !.pc = "prune", !.victims = Outdated]
      BY <1>12, <2>2, OtherClients DEF ListReviews
    <3> QED
      BY <1>12, <2>2, <3>1 DEF ListReviews, Unlocked, Client
  <2> QED
    BY <2>1, <2>2
<1>13. ASSUME NEW c \in Clients, NEW v \in client[c].victims, DeleteReview(c, v) PROVE HoldsStore(d)'
  <2>1. CASE d # c
    <3>1. client'[d] = client[d]
      BY <1>13, <2>1, OtherClients DEF DeleteReview
    <3> QED
      BY <1>13, <2>1, <3>1 DEF DeleteReview, Unlocked, Client
  <2>2. CASE d = c
    <3>1. client'[d] = [client[c] EXCEPT !.pc = "remove", !.victim = v, !.victims = client[c].victims \ {v}]
      BY <1>13, <2>2, OtherClients DEF DeleteReview
    <3> QED
      BY <1>13, <2>2, <3>1 DEF DeleteReview, Unlocked, Client
  <2> QED
    BY <2>1, <2>2
<1>14. ASSUME NEW c \in Clients, NEW v \in client[c].victims, SkipLocked(c, v) PROVE HoldsStore(d)'
  <2>1. CASE d # c
    <3>1. client'[d] = client[d]
      BY <1>14, <2>1, OtherClients DEF SkipLocked
    <3> QED
      BY <1>14, <2>1, <3>1 DEF SkipLocked, Unlocked, Client
  <2>2. CASE d = c
    <3>1. client'[d] = [client[c] EXCEPT !.victims = client[c].victims \ {v}, !.skipped = TRUE]
      BY <1>14, <2>2, OtherClients DEF SkipLocked
    <3> QED
      BY <1>14, <2>2, <3>1 DEF SkipLocked, Unlocked, Client
  <2> QED
    BY <2>1, <2>2
<1>15. ASSUME NEW c \in Clients, RemoveEntry(c) PROVE HoldsStore(d)'
  BY <1>15 DEF RemoveEntry, Unlocked, Client
<1>16. ASSUME NEW c \in Clients, RemoveDir(c) PROVE HoldsStore(d)'
  <2>1. CASE d # c
    <3>1. client'[d] = client[d]
      BY <1>16, <2>1, OtherClients DEF RemoveDir
    <3> QED
      BY <1>16, <2>1, <3>1 DEF RemoveDir, Unlocked, Client
  <2>2. CASE d = c
    <3>1. client'[d] = [client[c] EXCEPT !.pc = "prune", !.victim = None]
      BY <1>16, <2>2, OtherClients DEF RemoveDir
    <3> QED
      BY <1>16, <2>2, <3>1 DEF RemoveDir, Unlocked, Client
  <2> QED
    BY <2>1, <2>2
<1>17. ASSUME NEW c \in Clients, EndPrune(c) PROVE HoldsStore(d)'
  <2>1. CASE d # c
    <3>1. client'[d] = client[d]
      BY <1>17, <2>1, OtherClients DEF EndPrune
    <3> QED
      BY <1>17, <2>1, <3>1 DEF EndPrune, Unlocked, Client
  <2>2. CASE d = c
    <3>1. client'[d] = [client[c] EXCEPT !.pc = "pruned"]
      BY <1>17, <2>2, OtherClients DEF EndPrune
    <3> QED
      BY <1>17, <2>2, <3>1 DEF EndPrune, Unlocked, Client
  <2> QED
    BY <2>1, <2>2
<1>18. ASSUME NEW c \in Clients, PruneFails(c) PROVE HoldsStore(d)'
  <2>1. CASE d # c
    <3>1. client'[d] = client[d]
      BY <1>18, <2>1, OtherClients DEF PruneFails
    <3> QED
      BY <1>18, <2>1, <3>1 DEF PruneFails, Unlocked, Client
  <2>2. CASE d = c
    <3>1. client'[d] = [client[c] EXCEPT !.pc = "saved", !.victims = {}, !.victim = None]
      BY <1>18, <2>2, OtherClients DEF PruneFails
    <3> QED
      BY <1>18, <2>2, <3>1 DEF PruneFails, Unlocked, Client
  <2> QED
    BY <2>1, <2>2
<1>19. ASSUME NEW c \in Clients, NEW r \in Reviews, StartRead(c, r) PROVE HoldsStore(d)'
  <2>1. CASE d # c
    <3>1. client'[d] = client[d]
      BY <1>19, <2>1, OtherClients DEF StartRead
    <3> QED
      BY <1>19, <2>1, <3>1 DEF StartRead, Unlocked, Client
  <2>2. CASE d = c
    <3>1. client'[d] = [client[c] EXCEPT !.pc = "stripe", !.review = r]
      BY <1>19, <2>2, OtherClients DEF StartRead
    <3> QED
      BY <1>19, <2>2, <3>1 DEF StartRead, Unlocked, Client
  <2> QED
    BY <2>1, <2>2
<1>20. ASSUME NEW c \in Clients, LockReview(c) PROVE HoldsStore(d)'
  <2>1. CASE d # c
    <3>1. client'[d] = client[d]
      BY <1>20, <2>1, OtherClients DEF LockReview
    <3> QED
      BY <1>20, <2>1, <3>1 DEF LockReview, Unlocked, Client
  <2>2. CASE d = c
    <3>1. client'[d] = [client[c] EXCEPT !.pc = "load"] \/ client'[d] = Idle
      BY <1>20, <2>2, OtherClients DEF LockReview
    <3> QED
      BY <1>20, <2>2, <3>1 DEF LockReview, Unlocked, Client
  <2> QED
    BY <2>1, <2>2
<1>21. ASSUME NEW c \in Clients, LoadManifest(c) PROVE HoldsStore(d)'
  <2>1. CASE d # c
    <3>1. client'[d] = client[d]
      BY <1>21, <2>1, OtherClients DEF LoadManifest
    <3> QED
      BY <1>21, <2>1, <3>1 DEF LoadManifest, Unlocked, Client
  <2>2. CASE d = c
    <3>1. client'[d] = [client[c] EXCEPT !.pc = "verify", !.plan = Dir(c).manifest,
               !.todo = {q \in Reviews \ {client[c].review} : dirs[q].exists}]
      BY <1>21, <2>2, OtherClients DEF LoadManifest
    <3> QED
      BY <1>21, <2>2, <3>1 DEF LoadManifest, Unlocked, Client
  <2> QED
    BY <2>1, <2>2
<1>22. ASSUME NEW c \in Clients, VerifySibling(c) PROVE HoldsStore(d)'
  <2>1. PICK q \in client[c].todo : Becomes(c, [client[c] EXCEPT !.todo = client[c].todo \ {q},
                                    !.seen = client[c].seen \cup ({dirs[q].manifest} \cap Plans)])
    BY <1>22 DEF VerifySibling
  <2>2. CASE d # c
    <3>1. client'[d] = client[d]
      BY <1>22, <2>2, <2>1, OtherClients DEF VerifySibling
    <3> QED
      BY <1>22, <2>2, <3>1 DEF VerifySibling, Unlocked, Client
  <2>3. CASE d = c
    <3>1. client'[d] = [client[c] EXCEPT !.todo = client[c].todo \ {q},
                                    !.seen = client[c].seen \cup ({dirs[q].manifest} \cap Plans)]
      BY <1>22, <2>3, <2>1, OtherClients DEF VerifySibling
    <3> QED
      BY <1>22, <2>3, <3>1 DEF VerifySibling, Unlocked, Client
  <2> QED
    BY <2>2, <2>3
<1>23. ASSUME NEW c \in Clients, UsePlan(c) PROVE HoldsStore(d)'
  <2>1. CASE d # c
    <3>1. client'[d] = client[d]
      BY <1>23, <2>1, OtherClients DEF UsePlan
    <3> QED
      BY <1>23, <2>1, <3>1 DEF UsePlan, Unlocked, Client
  <2>2. CASE d = c
    <3>1. client'[d] = [client[c] EXCEPT !.pc = "use", !.seen = {}]
      BY <1>23, <2>2, OtherClients DEF UsePlan
    <3> QED
      BY <1>23, <2>2, <3>1 DEF UsePlan, Unlocked, Client
  <2> QED
    BY <2>1, <2>2
<1>24. ASSUME NEW c \in Clients, EndRead(c) PROVE HoldsStore(d)'
  <2>1. CASE d # c
    <3>1. client'[d] = client[d]
      BY <1>24, <2>1, OtherClients DEF EndRead
    <3> QED
      BY <1>24, <2>1, <3>1 DEF EndRead, Unlocked, Client
  <2>2. CASE d = c
    <3>1. client'[d] = Idle
      BY <1>24, <2>2, OtherClients DEF EndRead
    <3> QED
      BY <1>24, <2>2, <3>1 DEF EndRead, Unlocked, Client
  <2> QED
    BY <2>1, <2>2
<1>25. ASSUME NEW c \in Clients, Crash(c) PROVE HoldsStore(d)'
  <2>1. CASE d # c
    <3>1. client'[d] = client[d]
      BY <1>25, <2>1, OtherClients DEF Crash
    <3> QED
      BY <1>25, <2>1, <3>1 DEF Crash, Unlocked, Client
  <2>2. CASE d = c
    <3>1. client'[d] = Idle
      BY <1>25, <2>2, OtherClients DEF Crash
    <3> QED
      BY <1>25, <2>2, <3>1 DEF Crash, Unlocked, Client
  <2> QED
    BY <2>1, <2>2
<1>26. ASSUME Tick PROVE HoldsStore(d)'
  BY <1>26 DEF Tick, Unlocked, Client
<1>27. ASSUME NEW r \in Reviews, Damage(r) PROVE HoldsStore(d)'
  BY <1>27 DEF Damage, Unlocked, Client
<1>28. CASE UNCHANGED vars
  BY <1>28 DEF vars
<1> QED
  BY <1>1, <1>2, <1>3, <1>4, <1>5, <1>6, <1>7, <1>8, <1>9, <1>10, <1>11, <1>12, <1>13, <1>14, <1>15, <1>16, <1>17, <1>18, <1>19, <1>20, <1>21, <1>22, <1>23, <1>24, <1>25, <1>26, <1>27, <1>28 DEF Next

(* A client that reads or removes a review holds the stripe of the review. *)
HoldsStripe(c) ==
    /\ client[c].pc \in {"load", "verify", "use"} =>
         client[c].review \in Reviews /\ stripeLock[StripeOf[client[c].review]] = c
    /\ client[c].pc = "stripe" => client[c].review \in Reviews
    /\ client[c].pc = "remove" =>
         client[c].victim \in Reviews /\ stripeLock[StripeOf[client[c].victim]] = c
StripeInv == \A c \in Clients : HoldsStripe(c)

LEMMA StepStripe == TypeOK /\ StripeInv /\ [Next]_vars => StripeInv'
<1> SUFFICES ASSUME TypeOK, StripeInv, [Next]_vars, NEW d \in Clients PROVE HoldsStripe(d)'
  BY DEF StripeInv
<1>0. /\ HoldsStripe(d) /\ client[d] \in Client
      /\ \A r \in Reviews : StripeOf[r] \in Stripes
      /\ stripeLock \in [Stripes -> Clients \cup {None}]
  BY StoreAssumption DEF StripeInv, TypeOK
<1> USE StoreAssumption, <1>0 DEF HoldsStripe, At, Idle
<1>1. ASSUME NEW c \in Clients, NEW p \in Plans, StartSave(c, p) PROVE HoldsStripe(d)'
  <2>1. CASE d # c
    <3>1. client'[d] = client[d]
      BY <1>1, <2>1, OtherClients DEF StartSave
    <3> QED
      BY <1>1, <2>1, <3>1 DEF StartSave, Unlocked, Client
  <2>2. CASE d = c
    <3>1. client'[d] = [Idle EXCEPT !.pc = "store", !.plan = p, !.review = ReviewOf[p], !.lease = "filled"]
      BY <1>1, <2>2, OtherClients DEF StartSave
    <3> QED
      BY <1>1, <2>2, <3>1 DEF StartSave, Unlocked, Client
  <2> QED
    BY <2>1, <2>2
<1>2. ASSUME NEW c \in Clients, StartPrune(c) PROVE HoldsStripe(d)'
  <2>1. CASE d # c
    <3>1. client'[d] = client[d]
      BY <1>2, <2>1, OtherClients DEF StartPrune
    <3> QED
      BY <1>2, <2>1, <3>1 DEF StartPrune, Unlocked, Client
  <2>2. CASE d = c
    <3>1. client'[d] = [client[c] EXCEPT !.pc = "store"]
      BY <1>2, <2>2, OtherClients DEF StartPrune
    <3> QED
      BY <1>2, <2>2, <3>1 DEF StartPrune, Unlocked, Client
  <2> QED
    BY <2>1, <2>2
<1>3. ASSUME NEW c \in Clients, LockStore(c) PROVE HoldsStripe(d)'
  <2>1. CASE d # c
    <3>1. client'[d] = client[d]
      BY <1>3, <2>1, OtherClients DEF LockStore
    <3> QED
      BY <1>3, <2>1, <3>1 DEF LockStore, Unlocked, Client
  <2>2. CASE d = c
    <3>1. client'[d] = [client[c] EXCEPT !.pc = IF client[c].plan = None THEN "list" ELSE "check"]
      BY <1>3, <2>2, OtherClients DEF LockStore
    <3> QED
      BY <1>3, <2>2, <3>1 DEF LockStore, Unlocked, Client
  <2> QED
    BY <2>1, <2>2
<1>4. ASSUME NEW c \in Clients, Refuse(c) PROVE HoldsStripe(d)'
  <2>1. CASE d # c
    <3>1. client'[d] = client[d]
      BY <1>4, <2>1, OtherClients DEF Refuse
    <3> QED
      BY <1>4, <2>1, <3>1 DEF Refuse, Unlocked, Client
  <2>2. CASE d = c
    <3>1. client'[d] = [client[c] EXCEPT !.pc = "failed"]
      BY <1>4, <2>2, OtherClients DEF Refuse
    <3> QED
      BY <1>4, <2>2, <3>1 DEF Refuse, Unlocked, Client
  <2> QED
    BY <2>1, <2>2
<1>5. ASSUME NEW c \in Clients, Reuse(c) PROVE HoldsStripe(d)'
  <2>1. CASE d # c
    <3>1. client'[d] = client[d]
      BY <1>5, <2>1, OtherClients DEF Reuse
    <3> QED
      BY <1>5, <2>1, <3>1 DEF Reuse, Unlocked, Client
  <2>2. CASE d = c
    <3>1. client'[d] = [client[c] EXCEPT !.pc = "saved", !.lease = "released"]
      BY <1>5, <2>2, OtherClients DEF Reuse
    <3> QED
      BY <1>5, <2>2, <3>1 DEF Reuse, Unlocked, Client
  <2> QED
    BY <2>1, <2>2
<1>6. ASSUME NEW c \in Clients, CreateTemp(c) PROVE HoldsStripe(d)'
  <2>1. CASE d # c
    <3>1. client'[d] = client[d]
      BY <1>6, <2>1, OtherClients DEF CreateTemp
    <3> QED
      BY <1>6, <2>1, <3>1 DEF CreateTemp, Unlocked, Client
  <2>2. CASE d = c
    <3>1. client'[d] = [client[c] EXCEPT !.pc = "lease", !.tmp = Draft(client[c].plan)]
      BY <1>6, <2>2, OtherClients DEF CreateTemp
    <3> QED
      BY <1>6, <2>2, <3>1 DEF CreateTemp, Unlocked, Client
  <2> QED
    BY <2>1, <2>2
<1>7. ASSUME NEW c \in Clients, ConsumeLease(c) PROVE HoldsStripe(d)'
  <2>1. CASE d # c
    <3>1. client'[d] = client[d]
      BY <1>7, <2>1, OtherClients DEF ConsumeLease
    <3> QED
      BY <1>7, <2>1, <3>1 DEF ConsumeLease, Unlocked, Client
  <2>2. CASE d = c
    <3>1. client'[d] = [client[c] EXCEPT !.pc = "publish", !.lease = "moved", !.tmp = [client[c].tmp EXCEPT !.snapshot = TRUE]]
      BY <1>7, <2>2, OtherClients DEF ConsumeLease
    <3> QED
      BY <1>7, <2>2, <3>1 DEF ConsumeLease, Unlocked, Client
  <2> QED
    BY <2>1, <2>2
<1>8. ASSUME NEW c \in Clients, Publish(c) PROVE HoldsStripe(d)'
  <2>1. CASE d # c
    <3>1. client'[d] = client[d]
      BY <1>8, <2>1, OtherClients DEF Publish
    <3> QED
      BY <1>8, <2>1, <3>1 DEF Publish, Unlocked, Client
  <2>2. CASE d = c
    <3>1. client'[d] = [client[c] EXCEPT !.pc = "list", !.tmp = Absent]
      BY <1>8, <2>2, OtherClients DEF Publish
    <3> QED
      BY <1>8, <2>2, <3>1 DEF Publish, Unlocked, Client
  <2> QED
    BY <2>1, <2>2
<1>9. ASSUME NEW c \in Clients, PublishFails(c) PROVE HoldsStripe(d)'
  <2>1. CASE d # c
    <3>1. client'[d] = client[d]
      BY <1>9, <2>1, OtherClients DEF PublishFails
    <3> QED
      BY <1>9, <2>1, <3>1 DEF PublishFails, Unlocked, Client
  <2>2. CASE d = c
    <3>1. client'[d] = [client[c] EXCEPT !.pc = "failed", !.lease = "filled", !.tmp = Absent] \/ client'[d] = [client[c] EXCEPT !.pc = "failed"]
      BY <1>9, <2>2, OtherClients DEF PublishFails
    <3> QED
      BY <1>9, <2>2, <3>1 DEF PublishFails, Unlocked, Client
  <2> QED
    BY <2>1, <2>2
<1>10. ASSUME NEW c \in Clients, ReleaseLease(c) PROVE HoldsStripe(d)'
  <2>1. CASE d # c
    <3>1. client'[d] = client[d]
      BY <1>10, <2>1, OtherClients DEF ReleaseLease
    <3> QED
      BY <1>10, <2>1, <3>1 DEF ReleaseLease, Unlocked, Client
  <2>2. CASE d = c
    <3>1. client'[d] = Idle
      BY <1>10, <2>2, OtherClients DEF ReleaseLease
    <3> QED
      BY <1>10, <2>2, <3>1 DEF ReleaseLease, Unlocked, Client
  <2> QED
    BY <2>1, <2>2
<1>11. ASSUME NEW c \in Clients, FinishSave(c) PROVE HoldsStripe(d)'
  <2>1. CASE d # c
    <3>1. client'[d] = client[d]
      BY <1>11, <2>1, OtherClients DEF FinishSave
    <3> QED
      BY <1>11, <2>1, <3>1 DEF FinishSave, Unlocked, Client
  <2>2. CASE d = c
    <3>1. client'[d] = Idle
      BY <1>11, <2>2, OtherClients DEF FinishSave
    <3> QED
      BY <1>11, <2>2, <3>1 DEF FinishSave, Unlocked, Client
  <2> QED
    BY <2>1, <2>2
<1>12. ASSUME NEW c \in Clients, ListReviews(c) PROVE HoldsStripe(d)'
  <2>1. CASE d # c
    <3>1. client'[d] = client[d]
      BY <1>12, <2>1, OtherClients DEF ListReviews
    <3> QED
      BY <1>12, <2>1, <3>1 DEF ListReviews, Unlocked, Client
  <2>2. CASE d = c
    <3>1. client'[d] = [client[c] EXCEPT !.pc = "prune", !.victims = Outdated]
      BY <1>12, <2>2, OtherClients DEF ListReviews
    <3> QED
      BY <1>12, <2>2, <3>1 DEF ListReviews, Unlocked, Client
  <2> QED
    BY <2>1, <2>2
<1>13. ASSUME NEW c \in Clients, NEW v \in client[c].victims, DeleteReview(c, v) PROVE HoldsStripe(d)'
  <2>1. CASE d # c
    <3>1. client'[d] = client[d]
      BY <1>13, <2>1, OtherClients DEF DeleteReview
    <3> QED
      BY <1>13, <2>1, <3>1 DEF DeleteReview, Unlocked, Client
  <2>2. CASE d = c
    <3>1. client'[d] = [client[c] EXCEPT !.pc = "remove", !.victim = v, !.victims = client[c].victims \ {v}]
      BY <1>13, <2>2, OtherClients DEF DeleteReview
    <3> QED
      BY <1>13, <2>2, <3>1 DEF DeleteReview, Unlocked, Client
  <2> QED
    BY <2>1, <2>2
<1>14. ASSUME NEW c \in Clients, NEW v \in client[c].victims, SkipLocked(c, v) PROVE HoldsStripe(d)'
  <2>1. CASE d # c
    <3>1. client'[d] = client[d]
      BY <1>14, <2>1, OtherClients DEF SkipLocked
    <3> QED
      BY <1>14, <2>1, <3>1 DEF SkipLocked, Unlocked, Client
  <2>2. CASE d = c
    <3>1. client'[d] = [client[c] EXCEPT !.victims = client[c].victims \ {v}, !.skipped = TRUE]
      BY <1>14, <2>2, OtherClients DEF SkipLocked
    <3> QED
      BY <1>14, <2>2, <3>1 DEF SkipLocked, Unlocked, Client
  <2> QED
    BY <2>1, <2>2
<1>15. ASSUME NEW c \in Clients, RemoveEntry(c) PROVE HoldsStripe(d)'
  BY <1>15 DEF RemoveEntry, Unlocked, Client
<1>16. ASSUME NEW c \in Clients, RemoveDir(c) PROVE HoldsStripe(d)'
  <2>0. client[c].victim \in Reviews /\ stripeLock[StripeOf[client[c].victim]] = c
    BY <1>16 DEF RemoveDir, StripeInv
  <2>1. CASE d # c
    <3>1. client'[d] = client[d]
      BY <1>16, <2>1, OtherClients DEF RemoveDir
    <3> QED
      BY <1>16, <2>0, <2>1, <3>1 DEF RemoveDir
  <2>2. CASE d = c
    <3>1. client'[d] = [client[c] EXCEPT !.pc = "prune", !.victim = None]
      BY <1>16, <2>2, OtherClients DEF RemoveDir
    <3> QED
      BY <2>2, <3>1 DEF Client
  <2> QED
    BY <2>1, <2>2
<1>17. ASSUME NEW c \in Clients, EndPrune(c) PROVE HoldsStripe(d)'
  <2>1. CASE d # c
    <3>1. client'[d] = client[d]
      BY <1>17, <2>1, OtherClients DEF EndPrune
    <3> QED
      BY <1>17, <2>1, <3>1 DEF EndPrune, Unlocked, Client
  <2>2. CASE d = c
    <3>1. client'[d] = [client[c] EXCEPT !.pc = "pruned"]
      BY <1>17, <2>2, OtherClients DEF EndPrune
    <3> QED
      BY <1>17, <2>2, <3>1 DEF EndPrune, Unlocked, Client
  <2> QED
    BY <2>1, <2>2
<1>18. ASSUME NEW c \in Clients, PruneFails(c) PROVE HoldsStripe(d)'
  <2>1. CASE d # c
    <3>1. client'[d] = client[d]
      BY <1>18, <2>1, OtherClients DEF PruneFails
    <3> QED
      BY <1>18, <2>1, <3>1 DEF PruneFails, Unlocked, Client
  <2>2. CASE d = c
    <3>1. client'[d] = [client[c] EXCEPT !.pc = "saved", !.victims = {}, !.victim = None]
      BY <1>18, <2>2, OtherClients DEF PruneFails
    <3> QED
      BY <1>18, <2>2, <3>1 DEF PruneFails, Unlocked, Client
  <2> QED
    BY <2>1, <2>2
<1>19. ASSUME NEW c \in Clients, NEW r \in Reviews, StartRead(c, r) PROVE HoldsStripe(d)'
  <2>1. CASE d # c
    <3>1. client'[d] = client[d]
      BY <1>19, <2>1, OtherClients DEF StartRead
    <3> QED
      BY <1>19, <2>1, <3>1 DEF StartRead, Unlocked, Client
  <2>2. CASE d = c
    <3>1. client'[d] = [client[c] EXCEPT !.pc = "stripe", !.review = r]
      BY <1>19, <2>2, OtherClients DEF StartRead
    <3> QED
      BY <1>19, <2>2, <3>1 DEF StartRead, Unlocked, Client
  <2> QED
    BY <2>1, <2>2
<1>20. ASSUME NEW c \in Clients, LockReview(c) PROVE HoldsStripe(d)'
  <2>1. CASE ~Dir(c).exists
    <3>1. client'[d] = client[d] \/ client'[d].pc = "idle"
      BY <1>20, <2>1, OtherClients DEF LockReview
    <3> QED
      BY <1>20, <2>1, <3>1 DEF LockReview
  <2>2. CASE Dir(c).exists
    <3>1. client'[d] = IF d = c THEN [client[c] EXCEPT !.pc = "load"] ELSE client[d]
      BY <1>20, <2>2, OtherClients DEF LockReview
    <3>2. stripeLock' = [stripeLock EXCEPT ![StripeOf[client[c].review]] = c]
      BY <1>20, <2>2 DEF LockReview
    <3>3. CASE d # c
      BY <1>20, <3>1, <3>2, <3>3 DEF LockReview
    <3>4. CASE d = c
      <4>1. client'[d].pc = "load" /\ client'[d].review = client[d].review
        BY <3>1, <3>4 DEF Client
      <4> QED
        BY <1>20, <3>2, <3>4, <4>1 DEF LockReview
    <3> QED
      BY <3>3, <3>4
  <2> QED
    BY <2>1, <2>2
<1>21. ASSUME NEW c \in Clients, LoadManifest(c) PROVE HoldsStripe(d)'
  <2>1. CASE d # c
    <3>1. client'[d] = client[d]
      BY <1>21, <2>1, OtherClients DEF LoadManifest
    <3> QED
      BY <1>21, <2>1, <3>1 DEF LoadManifest, Unlocked, Client
  <2>2. CASE d = c
    <3>1. client'[d] = [client[c] EXCEPT !.pc = "verify", !.plan = Dir(c).manifest,
               !.todo = {q \in Reviews \ {client[c].review} : dirs[q].exists}]
      BY <1>21, <2>2, OtherClients DEF LoadManifest
    <3> QED
      BY <1>21, <2>2, <3>1 DEF LoadManifest, Unlocked, Client
  <2> QED
    BY <2>1, <2>2
<1>22. ASSUME NEW c \in Clients, VerifySibling(c) PROVE HoldsStripe(d)'
  <2>1. PICK q \in client[c].todo : Becomes(c, [client[c] EXCEPT !.todo = client[c].todo \ {q},
                                    !.seen = client[c].seen \cup ({dirs[q].manifest} \cap Plans)])
    BY <1>22 DEF VerifySibling
  <2>2. CASE d # c
    <3>1. client'[d] = client[d]
      BY <1>22, <2>2, <2>1, OtherClients DEF VerifySibling
    <3> QED
      BY <1>22, <2>2, <3>1 DEF VerifySibling, Unlocked, Client
  <2>3. CASE d = c
    <3>1. client'[d] = [client[c] EXCEPT !.todo = client[c].todo \ {q},
                                    !.seen = client[c].seen \cup ({dirs[q].manifest} \cap Plans)]
      BY <1>22, <2>3, <2>1, OtherClients DEF VerifySibling
    <3> QED
      BY <1>22, <2>3, <3>1 DEF VerifySibling, Unlocked, Client
  <2> QED
    BY <2>2, <2>3
<1>23. ASSUME NEW c \in Clients, UsePlan(c) PROVE HoldsStripe(d)'
  <2>1. CASE d # c
    <3>1. client'[d] = client[d]
      BY <1>23, <2>1, OtherClients DEF UsePlan
    <3> QED
      BY <1>23, <2>1, <3>1 DEF UsePlan, Unlocked, Client
  <2>2. CASE d = c
    <3>1. client'[d] = [client[c] EXCEPT !.pc = "use", !.seen = {}]
      BY <1>23, <2>2, OtherClients DEF UsePlan
    <3> QED
      BY <1>23, <2>2, <3>1 DEF UsePlan, Unlocked, Client
  <2> QED
    BY <2>1, <2>2
<1>24. ASSUME NEW c \in Clients, EndRead(c) PROVE HoldsStripe(d)'
  <2>1. CASE d # c
    <3>1. client'[d] = client[d]
      BY <1>24, <2>1, OtherClients DEF EndRead
    <3> QED
      BY <1>24, <2>1, <3>1 DEF EndRead, Unlocked, Client
  <2>2. CASE d = c
    <3>1. client'[d] = Idle
      BY <1>24, <2>2, OtherClients DEF EndRead
    <3> QED
      BY <1>24, <2>2, <3>1 DEF EndRead, Unlocked, Client
  <2> QED
    BY <2>1, <2>2
<1>25. ASSUME NEW c \in Clients, Crash(c) PROVE HoldsStripe(d)'
  <2>1. CASE d # c
    <3>1. client'[d] = client[d]
      BY <1>25, <2>1, OtherClients DEF Crash
    <3> QED
      BY <1>25, <2>1, <3>1 DEF Crash, Unlocked, Client
  <2>2. CASE d = c
    <3>1. client'[d] = Idle
      BY <1>25, <2>2, OtherClients DEF Crash
    <3> QED
      BY <1>25, <2>2, <3>1 DEF Crash, Unlocked, Client
  <2> QED
    BY <2>1, <2>2
<1>26. ASSUME Tick PROVE HoldsStripe(d)'
  BY <1>26 DEF Tick, Unlocked, Client
<1>27. ASSUME NEW r \in Reviews, Damage(r) PROVE HoldsStripe(d)'
  BY <1>27 DEF Damage, Unlocked, Client
<1>28. CASE UNCHANGED vars
  BY <1>28 DEF vars
<1> QED
  BY <1>1, <1>2, <1>3, <1>4, <1>5, <1>6, <1>7, <1>8, <1>9, <1>10, <1>11, <1>12, <1>13, <1>14, <1>15, <1>16, <1>17, <1>18, <1>19, <1>20, <1>21, <1>22, <1>23, <1>24, <1>25, <1>26, <1>27, <1>28 DEF Next

(* A reader past LoadManifest finds the manifest it loaded, or its damage.   *)
KeepsPlan(c) ==
    client[c].pc \in {"verify", "use"} =>
      client[c].plan \in Plans /\ dirs[client[c].review].manifest \in {client[c].plan, Damaged}
ReadInv == \A c \in Clients : KeepsPlan(c)

LEMMA StepRead == TypeOK /\ StripeInv /\ ReadInv /\ [Next]_vars => ReadInv'
<1> SUFFICES ASSUME TypeOK, StripeInv, ReadInv, [Next]_vars, NEW d \in Clients PROVE KeepsPlan(d)'
  BY DEF ReadInv
<1>0. /\ KeepsPlan(d) /\ HoldsStripe(d) /\ client[d] \in Client
      /\ dirs \in [Reviews -> Directory]
  BY DEF StripeInv, ReadInv, TypeOK
<1> USE StoreAssumption, <1>0 DEF KeepsPlan, At, Idle
<1>1. ASSUME NEW c \in Clients, NEW p \in Plans, StartSave(c, p) PROVE KeepsPlan(d)'
  <2>1. CASE d # c
    <3>1. client'[d] = client[d]
      BY <1>1, <2>1, OtherClients DEF StartSave
    <3> QED
      BY <1>1, <2>1, <3>1 DEF StartSave, Client, Dir
  <2>2. CASE d = c
    <3>1. client'[d] = [Idle EXCEPT !.pc = "store", !.plan = p, !.review = ReviewOf[p], !.lease = "filled"]
      BY <1>1, <2>2, OtherClients DEF StartSave
    <3> QED
      BY <1>1, <2>2, <3>1 DEF StartSave, Client, Dir
  <2> QED
    BY <2>1, <2>2
<1>2. ASSUME NEW c \in Clients, StartPrune(c) PROVE KeepsPlan(d)'
  <2>1. CASE d # c
    <3>1. client'[d] = client[d]
      BY <1>2, <2>1, OtherClients DEF StartPrune
    <3> QED
      BY <1>2, <2>1, <3>1 DEF StartPrune, Client, Dir
  <2>2. CASE d = c
    <3>1. client'[d] = [client[c] EXCEPT !.pc = "store"]
      BY <1>2, <2>2, OtherClients DEF StartPrune
    <3> QED
      BY <1>2, <2>2, <3>1 DEF StartPrune, Client, Dir
  <2> QED
    BY <2>1, <2>2
<1>3. ASSUME NEW c \in Clients, LockStore(c) PROVE KeepsPlan(d)'
  <2>1. CASE d # c
    <3>1. client'[d] = client[d]
      BY <1>3, <2>1, OtherClients DEF LockStore
    <3> QED
      BY <1>3, <2>1, <3>1 DEF LockStore, Client, Dir
  <2>2. CASE d = c
    <3>1. client'[d] = [client[c] EXCEPT !.pc = IF client[c].plan = None THEN "list" ELSE "check"]
      BY <1>3, <2>2, OtherClients DEF LockStore
    <3> QED
      BY <1>3, <2>2, <3>1 DEF LockStore, Client, Dir
  <2> QED
    BY <2>1, <2>2
<1>4. ASSUME NEW c \in Clients, Refuse(c) PROVE KeepsPlan(d)'
  <2>1. CASE d # c
    <3>1. client'[d] = client[d]
      BY <1>4, <2>1, OtherClients DEF Refuse
    <3> QED
      BY <1>4, <2>1, <3>1 DEF Refuse, Client, Dir
  <2>2. CASE d = c
    <3>1. client'[d] = [client[c] EXCEPT !.pc = "failed"]
      BY <1>4, <2>2, OtherClients DEF Refuse
    <3> QED
      BY <1>4, <2>2, <3>1 DEF Refuse, Client, Dir
  <2> QED
    BY <2>1, <2>2
<1>5. ASSUME NEW c \in Clients, Reuse(c) PROVE KeepsPlan(d)'
  <2>1. CASE d # c
    <3>1. client'[d] = client[d]
      BY <1>5, <2>1, OtherClients DEF Reuse
    <3> QED
      BY <1>5, <2>1, <3>1 DEF Reuse, Client, Dir
  <2>2. CASE d = c
    <3>1. client'[d] = [client[c] EXCEPT !.pc = "saved", !.lease = "released"]
      BY <1>5, <2>2, OtherClients DEF Reuse
    <3> QED
      BY <1>5, <2>2, <3>1 DEF Reuse, Client, Dir
  <2> QED
    BY <2>1, <2>2
<1>6. ASSUME NEW c \in Clients, CreateTemp(c) PROVE KeepsPlan(d)'
  <2>1. CASE d # c
    <3>1. client'[d] = client[d]
      BY <1>6, <2>1, OtherClients DEF CreateTemp
    <3> QED
      BY <1>6, <2>1, <3>1 DEF CreateTemp, Client, Dir
  <2>2. CASE d = c
    <3>1. client'[d] = [client[c] EXCEPT !.pc = "lease", !.tmp = Draft(client[c].plan)]
      BY <1>6, <2>2, OtherClients DEF CreateTemp
    <3> QED
      BY <1>6, <2>2, <3>1 DEF CreateTemp, Client, Dir
  <2> QED
    BY <2>1, <2>2
<1>7. ASSUME NEW c \in Clients, ConsumeLease(c) PROVE KeepsPlan(d)'
  <2>1. CASE d # c
    <3>1. client'[d] = client[d]
      BY <1>7, <2>1, OtherClients DEF ConsumeLease
    <3> QED
      BY <1>7, <2>1, <3>1 DEF ConsumeLease, Client, Dir
  <2>2. CASE d = c
    <3>1. client'[d] = [client[c] EXCEPT !.pc = "publish", !.lease = "moved", !.tmp = [client[c].tmp EXCEPT !.snapshot = TRUE]]
      BY <1>7, <2>2, OtherClients DEF ConsumeLease
    <3> QED
      BY <1>7, <2>2, <3>1 DEF ConsumeLease, Client, Dir
  <2> QED
    BY <2>1, <2>2
<1>8. ASSUME NEW c \in Clients, Publish(c) PROVE KeepsPlan(d)'
  <2>1. client'[d].pc \in {"verify", "use"} => client'[d] = client[d]
    <3>1. client'[d] = IF d = c THEN [client[c] EXCEPT !.pc = "list", !.tmp = Absent] ELSE client[d]
      BY <1>8, OtherClients DEF Publish
    <3> QED
      BY <3>1 DEF Client
  <2>2. \A q \in Reviews : dirs[q].manifest # None => dirs'[q] = dirs[q]
    BY <1>8 DEF Publish, Empty, Dir
  <2> QED
    BY <2>1, <2>2 DEF HoldsStripe
<1>9. ASSUME NEW c \in Clients, PublishFails(c) PROVE KeepsPlan(d)'
  <2>1. CASE d # c
    <3>1. client'[d] = client[d]
      BY <1>9, <2>1, OtherClients DEF PublishFails
    <3> QED
      BY <1>9, <2>1, <3>1 DEF PublishFails, Client, Dir
  <2>2. CASE d = c
    <3>1. \/ client'[d] = [client[c] EXCEPT !.pc = "failed", !.lease = "filled", !.tmp = Absent]
          \/ client'[d] = [client[c] EXCEPT !.pc = "failed"]
      BY <1>9, <2>2, OtherClients DEF PublishFails
    <3>2. client'[d].pc = "failed"
      BY <2>2, <3>1 DEF Client
    <3> QED
      BY <3>2
  <2> QED
    BY <2>1, <2>2
<1>10. ASSUME NEW c \in Clients, ReleaseLease(c) PROVE KeepsPlan(d)'
  <2>1. CASE d # c
    <3>1. client'[d] = client[d]
      BY <1>10, <2>1, OtherClients DEF ReleaseLease
    <3> QED
      BY <1>10, <2>1, <3>1 DEF ReleaseLease, Client, Dir
  <2>2. CASE d = c
    <3>1. client'[d] = Idle
      BY <1>10, <2>2, OtherClients DEF ReleaseLease
    <3> QED
      BY <1>10, <2>2, <3>1 DEF ReleaseLease, Client, Dir
  <2> QED
    BY <2>1, <2>2
<1>11. ASSUME NEW c \in Clients, FinishSave(c) PROVE KeepsPlan(d)'
  <2>1. CASE d # c
    <3>1. client'[d] = client[d]
      BY <1>11, <2>1, OtherClients DEF FinishSave
    <3> QED
      BY <1>11, <2>1, <3>1 DEF FinishSave, Client, Dir
  <2>2. CASE d = c
    <3>1. client'[d] = Idle
      BY <1>11, <2>2, OtherClients DEF FinishSave
    <3> QED
      BY <1>11, <2>2, <3>1 DEF FinishSave, Client, Dir
  <2> QED
    BY <2>1, <2>2
<1>12. ASSUME NEW c \in Clients, ListReviews(c) PROVE KeepsPlan(d)'
  <2>1. CASE d # c
    <3>1. client'[d] = client[d]
      BY <1>12, <2>1, OtherClients DEF ListReviews
    <3> QED
      BY <1>12, <2>1, <3>1 DEF ListReviews, Client, Dir
  <2>2. CASE d = c
    <3>1. client'[d] = [client[c] EXCEPT !.pc = "prune", !.victims = Outdated]
      BY <1>12, <2>2, OtherClients DEF ListReviews
    <3> QED
      BY <1>12, <2>2, <3>1 DEF ListReviews, Client, Dir
  <2> QED
    BY <2>1, <2>2
<1>13. ASSUME NEW c \in Clients, NEW v \in client[c].victims, DeleteReview(c, v) PROVE KeepsPlan(d)'
  <2>1. CASE d # c
    <3>1. client'[d] = client[d]
      BY <1>13, <2>1, OtherClients DEF DeleteReview
    <3> QED
      BY <1>13, <2>1, <3>1 DEF DeleteReview, Client, Dir
  <2>2. CASE d = c
    <3>1. client'[d] = [client[c] EXCEPT !.pc = "remove", !.victim = v, !.victims = client[c].victims \ {v}]
      BY <1>13, <2>2, OtherClients DEF DeleteReview
    <3> QED
      BY <1>13, <2>2, <3>1 DEF DeleteReview, Client, Dir
  <2> QED
    BY <2>1, <2>2
<1>14. ASSUME NEW c \in Clients, NEW v \in client[c].victims, SkipLocked(c, v) PROVE KeepsPlan(d)'
  <2>1. CASE d # c
    <3>1. client'[d] = client[d]
      BY <1>14, <2>1, OtherClients DEF SkipLocked
    <3> QED
      BY <1>14, <2>1, <3>1 DEF SkipLocked, Client, Dir
  <2>2. CASE d = c
    <3>1. client'[d] = [client[c] EXCEPT !.victims = client[c].victims \ {v}, !.skipped = TRUE]
      BY <1>14, <2>2, OtherClients DEF SkipLocked
    <3> QED
      BY <1>14, <2>2, <3>1 DEF SkipLocked, Client, Dir
  <2> QED
    BY <2>1, <2>2
<1>15. ASSUME NEW c \in Clients, RemoveEntry(c) PROVE KeepsPlan(d)'
  <2>1. client[c].victim \in Reviews /\ stripeLock[StripeOf[client[c].victim]] = c
    BY <1>15 DEF RemoveEntry, StripeInv, HoldsStripe
  <2>2. client' = client
    BY <1>15 DEF RemoveEntry
  <2>3. CASE client[d].pc \in {"verify", "use"}
    <3>1. client[d].review \in Reviews /\ client[d].review # client[c].victim
      BY <1>15, <2>1, <2>3 DEF RemoveEntry, HoldsStripe
    <3>2. dirs'[client[d].review] = dirs[client[d].review]
      BY <1>15, <3>1 DEF RemoveEntry
    <3> QED
      BY <2>2, <3>2
  <2> QED
    BY <2>2, <2>3
<1>16. ASSUME NEW c \in Clients, RemoveDir(c) PROVE KeepsPlan(d)'
  <2>1. client'[d].pc \in {"verify", "use"} => client'[d] = client[d]
    <3>1. client'[d] = IF d = c THEN [client[c] EXCEPT !.pc = "prune", !.victim = None] ELSE client[d]
      BY <1>16, OtherClients DEF RemoveDir
    <3> QED
      BY <3>1 DEF Client
  <2>2. \A q \in Reviews : dirs[q].manifest # None => dirs'[q] = dirs[q]
    BY <1>16 DEF RemoveDir, Empty
  <2> QED
    BY <2>1, <2>2 DEF HoldsStripe
<1>17. ASSUME NEW c \in Clients, EndPrune(c) PROVE KeepsPlan(d)'
  <2>1. CASE d # c
    <3>1. client'[d] = client[d]
      BY <1>17, <2>1, OtherClients DEF EndPrune
    <3> QED
      BY <1>17, <2>1, <3>1 DEF EndPrune, Client, Dir
  <2>2. CASE d = c
    <3>1. client'[d] = [client[c] EXCEPT !.pc = "pruned"]
      BY <1>17, <2>2, OtherClients DEF EndPrune
    <3> QED
      BY <1>17, <2>2, <3>1 DEF EndPrune, Client, Dir
  <2> QED
    BY <2>1, <2>2
<1>18. ASSUME NEW c \in Clients, PruneFails(c) PROVE KeepsPlan(d)'
  <2>1. CASE d # c
    <3>1. client'[d] = client[d]
      BY <1>18, <2>1, OtherClients DEF PruneFails
    <3> QED
      BY <1>18, <2>1, <3>1 DEF PruneFails, Client, Dir
  <2>2. CASE d = c
    <3>1. client'[d] = [client[c] EXCEPT !.pc = "saved", !.victims = {}, !.victim = None]
      BY <1>18, <2>2, OtherClients DEF PruneFails
    <3> QED
      BY <1>18, <2>2, <3>1 DEF PruneFails, Client, Dir
  <2> QED
    BY <2>1, <2>2
<1>19. ASSUME NEW c \in Clients, NEW r \in Reviews, StartRead(c, r) PROVE KeepsPlan(d)'
  <2>1. CASE d # c
    <3>1. client'[d] = client[d]
      BY <1>19, <2>1, OtherClients DEF StartRead
    <3> QED
      BY <1>19, <2>1, <3>1 DEF StartRead, Client, Dir
  <2>2. CASE d = c
    <3>1. client'[d] = [client[c] EXCEPT !.pc = "stripe", !.review = r]
      BY <1>19, <2>2, OtherClients DEF StartRead
    <3> QED
      BY <1>19, <2>2, <3>1 DEF StartRead, Client, Dir
  <2> QED
    BY <2>1, <2>2
<1>20. ASSUME NEW c \in Clients, LockReview(c) PROVE KeepsPlan(d)'
  <2>1. CASE d # c
    <3>1. client'[d] = client[d]
      BY <1>20, <2>1, OtherClients DEF LockReview
    <3> QED
      BY <1>20, <2>1, <3>1 DEF LockReview, Client, Dir
  <2>2. CASE d = c
    <3>1. client'[d] = [client[c] EXCEPT !.pc = "load"] \/ client'[d] = Idle
      BY <1>20, <2>2, OtherClients DEF LockReview
    <3> QED
      BY <1>20, <2>2, <3>1 DEF LockReview, Client, Dir
  <2> QED
    BY <2>1, <2>2
<1>21. ASSUME NEW c \in Clients, LoadManifest(c) PROVE KeepsPlan(d)'
  <2>1. CASE d # c
    <3>1. client'[d] = client[d]
      BY <1>21, <2>1, OtherClients DEF LoadManifest
    <3> QED
      BY <1>21, <2>1, <3>1 DEF LoadManifest, Client, Dir
  <2>2. CASE d = c
    <3>1. client'[d] = [client[c] EXCEPT !.pc = "verify", !.plan = Dir(c).manifest,
               !.todo = {q \in Reviews \ {client[c].review} : dirs[q].exists}]
      BY <1>21, <2>2, OtherClients DEF LoadManifest
    <3> QED
      BY <1>21, <2>2, <3>1 DEF LoadManifest, Client, Dir
  <2> QED
    BY <2>1, <2>2
<1>22. ASSUME NEW c \in Clients, VerifySibling(c) PROVE KeepsPlan(d)'
  <2>1. PICK q \in client[c].todo : Becomes(c, [client[c] EXCEPT !.todo = client[c].todo \ {q},
                                    !.seen = client[c].seen \cup ({dirs[q].manifest} \cap Plans)])
    BY <1>22 DEF VerifySibling
  <2>2. CASE d # c
    <3>1. client'[d] = client[d]
      BY <1>22, <2>2, <2>1, OtherClients DEF VerifySibling
    <3> QED
      BY <1>22, <2>2, <3>1 DEF VerifySibling, Client, Dir
  <2>3. CASE d = c
    <3>1. client'[d] = [client[c] EXCEPT !.todo = client[c].todo \ {q},
                                    !.seen = client[c].seen \cup ({dirs[q].manifest} \cap Plans)]
      BY <1>22, <2>3, <2>1, OtherClients DEF VerifySibling
    <3> QED
      BY <1>22, <2>3, <3>1 DEF VerifySibling, Client, Dir
  <2> QED
    BY <2>2, <2>3
<1>23. ASSUME NEW c \in Clients, UsePlan(c) PROVE KeepsPlan(d)'
  <2>1. CASE d # c
    <3>1. client'[d] = client[d]
      BY <1>23, <2>1, OtherClients DEF UsePlan
    <3> QED
      BY <1>23, <2>1, <3>1 DEF UsePlan, Client, Dir
  <2>2. CASE d = c
    <3>1. client'[d] = [client[c] EXCEPT !.pc = "use", !.seen = {}]
      BY <1>23, <2>2, OtherClients DEF UsePlan
    <3> QED
      BY <1>23, <2>2, <3>1 DEF UsePlan, Client, Dir
  <2> QED
    BY <2>1, <2>2
<1>24. ASSUME NEW c \in Clients, EndRead(c) PROVE KeepsPlan(d)'
  <2>1. CASE d # c
    <3>1. client'[d] = client[d]
      BY <1>24, <2>1, OtherClients DEF EndRead
    <3> QED
      BY <1>24, <2>1, <3>1 DEF EndRead, Client, Dir
  <2>2. CASE d = c
    <3>1. client'[d] = Idle
      BY <1>24, <2>2, OtherClients DEF EndRead
    <3> QED
      BY <1>24, <2>2, <3>1 DEF EndRead, Client, Dir
  <2> QED
    BY <2>1, <2>2
<1>25. ASSUME NEW c \in Clients, Crash(c) PROVE KeepsPlan(d)'
  <2>1. CASE d # c
    <3>1. client'[d] = client[d]
      BY <1>25, <2>1, OtherClients DEF Crash
    <3> QED
      BY <1>25, <2>1, <3>1 DEF Crash, Client, Dir
  <2>2. CASE d = c
    <3>1. client'[d] = Idle
      BY <1>25, <2>2, OtherClients DEF Crash
    <3> QED
      BY <1>25, <2>2, <3>1 DEF Crash, Client, Dir
  <2> QED
    BY <2>1, <2>2
<1>26. ASSUME Tick PROVE KeepsPlan(d)'
  BY <1>26 DEF Tick, Client, Dir
<1>27. ASSUME NEW r \in Reviews, Damage(r) PROVE KeepsPlan(d)'
  <2>1. client' = client /\ \A q \in Reviews : dirs'[q].manifest \in {dirs[q].manifest, Damaged}
    BY <1>27 DEF Damage, Directory
  <2> QED
    BY <2>1 DEF HoldsStripe
<1>28. CASE UNCHANGED vars
  BY <1>28 DEF vars
<1> QED
  BY <1>1, <1>2, <1>3, <1>4, <1>5, <1>6, <1>7, <1>8, <1>9, <1>10, <1>11, <1>12, <1>13, <1>14, <1>15, <1>16, <1>17, <1>18, <1>19, <1>20, <1>21, <1>22, <1>23, <1>24, <1>25, <1>26, <1>27, <1>28 DEF Next

(* The registry check of a plan that is about to be published still holds:  *)
(* it was made under the store lock, which nobody else took since.           *)
Checked(c) ==
    client[c].pc \in {"lease", "publish"} =>
      /\ client[c].tmp.manifest = client[c].plan
      /\ Consistent(Siblings(client[c].review) \cup {client[c].plan})
SaveInv == \A c \in Clients : Checked(c)

LEMMA ConsistentSubset ==
    ASSUME NEW P, NEW Q, P \subseteq Q, Consistent(Q)
    PROVE  Consistent(P)
BY DEF Consistent

(* Where no plan becomes readable, a check stays valid. *)
LEMMA CheckedStays ==
    ASSUME NEW d \in Clients, Checked(d),
           \A q \in Reviews : dirs'[q].manifest \in Plans => dirs'[q].manifest = dirs[q].manifest,
           client'[d].pc \in {"lease", "publish"} =>
             /\ client[d].pc \in {"lease", "publish"}
             /\ client'[d].plan = client[d].plan /\ client'[d].review = client[d].review
             /\ client'[d].tmp.manifest = client[d].tmp.manifest
    PROVE  Checked(d)'
<1>1. SUFFICES ASSUME client'[d].pc \in {"lease", "publish"}
               PROVE  Consistent(Siblings(client[d].review)' \cup {client[d].plan})
  BY DEF Checked, Siblings, Consistent
<1>2. Siblings(client[d].review)' \subseteq Siblings(client[d].review)
  <2> SUFFICES ASSUME NEW m \in Siblings(client[d].review)' PROVE m \in Siblings(client[d].review)
    OBVIOUS
  <2>1. PICK q \in Reviews : q # client'[d].review /\ dirs'[q].manifest \in Plans /\ m = dirs'[q].manifest
    BY DEF Siblings, Readable
  <2> QED
    BY <1>1, <2>1 DEF Siblings, Readable
<1> QED
  BY <1>1, <1>2, ConsistentSubset DEF Checked

LEMMA StepSave == TypeOK /\ StoreInv /\ SaveInv /\ [Next]_vars => SaveInv'
<1> SUFFICES ASSUME TypeOK, StoreInv, SaveInv, [Next]_vars, NEW d \in Clients PROVE Checked(d)'
  BY DEF SaveInv
<1>0. Checked(d) /\ client[d] \in Client /\ dirs \in [Reviews -> Directory]
  BY DEF SaveInv, TypeOK
<1> USE StoreAssumption, <1>0 DEF At, Idle
<1>1. ASSUME NEW c \in Clients, NEW p \in Plans, StartSave(c, p) PROVE Checked(d)'
  <2>1. client'[d] = (IF d = c THEN [Idle EXCEPT !.pc = "store", !.plan = p, !.review = ReviewOf[p], !.lease = "filled"] ELSE client[d])
    BY <1>1, OtherClients DEF StartSave
  <2>2. client'[d].pc \in {"lease", "publish"} =>
          /\ client[d].pc \in {"lease", "publish"}
          /\ client'[d].plan = client[d].plan /\ client'[d].review = client[d].review
          /\ client'[d].tmp.manifest = client[d].tmp.manifest
    BY <1>1, <2>1 DEF StartSave, Client
  <2>3. \A x \in Reviews : dirs'[x].manifest \in Plans => dirs'[x].manifest = dirs[x].manifest
    BY <1>1 DEF StartSave, Absent
  <2> QED
    BY <2>2, <2>3, CheckedStays
<1>2. ASSUME NEW c \in Clients, StartPrune(c) PROVE Checked(d)'
  <2>1. client'[d] = (IF d = c THEN [client[c] EXCEPT !.pc = "store"] ELSE client[d])
    BY <1>2, OtherClients DEF StartPrune
  <2>2. client'[d].pc \in {"lease", "publish"} =>
          /\ client[d].pc \in {"lease", "publish"}
          /\ client'[d].plan = client[d].plan /\ client'[d].review = client[d].review
          /\ client'[d].tmp.manifest = client[d].tmp.manifest
    BY <1>2, <2>1 DEF StartPrune, Client
  <2>3. \A x \in Reviews : dirs'[x].manifest \in Plans => dirs'[x].manifest = dirs[x].manifest
    BY <1>2 DEF StartPrune, Absent
  <2> QED
    BY <2>2, <2>3, CheckedStays
<1>3. ASSUME NEW c \in Clients, LockStore(c) PROVE Checked(d)'
  <2>1. client'[d] = (IF d = c THEN [client[c] EXCEPT !.pc = IF client[c].plan = None THEN "list" ELSE "check"] ELSE client[d])
    BY <1>3, OtherClients DEF LockStore
  <2>2. client'[d].pc \in {"lease", "publish"} =>
          /\ client[d].pc \in {"lease", "publish"}
          /\ client'[d].plan = client[d].plan /\ client'[d].review = client[d].review
          /\ client'[d].tmp.manifest = client[d].tmp.manifest
    BY <1>3, <2>1 DEF LockStore, Client
  <2>3. \A x \in Reviews : dirs'[x].manifest \in Plans => dirs'[x].manifest = dirs[x].manifest
    BY <1>3 DEF LockStore, Absent
  <2> QED
    BY <2>2, <2>3, CheckedStays
<1>4. ASSUME NEW c \in Clients, Refuse(c) PROVE Checked(d)'
  <2>1. client'[d] = (IF d = c THEN [client[c] EXCEPT !.pc = "failed"] ELSE client[d])
    BY <1>4, OtherClients DEF Refuse
  <2>2. client'[d].pc \in {"lease", "publish"} =>
          /\ client[d].pc \in {"lease", "publish"}
          /\ client'[d].plan = client[d].plan /\ client'[d].review = client[d].review
          /\ client'[d].tmp.manifest = client[d].tmp.manifest
    BY <1>4, <2>1 DEF Refuse, Client
  <2>3. \A x \in Reviews : dirs'[x].manifest \in Plans => dirs'[x].manifest = dirs[x].manifest
    BY <1>4 DEF Refuse, Absent
  <2> QED
    BY <2>2, <2>3, CheckedStays
<1>5. ASSUME NEW c \in Clients, Reuse(c) PROVE Checked(d)'
  <2>1. client'[d] = (IF d = c THEN [client[c] EXCEPT !.pc = "saved", !.lease = "released"] ELSE client[d])
    BY <1>5, OtherClients DEF Reuse
  <2>2. client'[d].pc \in {"lease", "publish"} =>
          /\ client[d].pc \in {"lease", "publish"}
          /\ client'[d].plan = client[d].plan /\ client'[d].review = client[d].review
          /\ client'[d].tmp.manifest = client[d].tmp.manifest
    BY <1>5, <2>1 DEF Reuse, Client
  <2>3. \A x \in Reviews : dirs'[x].manifest \in Plans => dirs'[x].manifest = dirs[x].manifest
    BY <1>5 DEF Reuse, Absent
  <2> QED
    BY <2>2, <2>3, CheckedStays
<1>6. ASSUME NEW c \in Clients, CreateTemp(c) PROVE Checked(d)'
  <2>1. client'[d] = IF d = c THEN [client[c] EXCEPT !.pc = "lease", !.tmp = Draft(client[c].plan)] ELSE client[d]
    BY <1>6, OtherClients DEF CreateTemp
  <2>2. dirs' = dirs
    BY <1>6 DEF CreateTemp
  <2>3. CASE d # c
    BY <2>1, <2>2, <2>3, CheckedStays
  <2>4. CASE d = c
    <3>1. /\ client'[d].plan = client[d].plan /\ client'[d].review = client[d].review
          /\ client'[d].tmp.manifest = client[d].plan
      BY <2>1, <2>4 DEF Client, Draft
    <3>2. Siblings(client[d].review)' = Siblings(client[d].review)
      BY <2>2, <3>1 DEF Siblings, Readable
    <3> QED
      BY <1>6, <2>4, <3>1, <3>2 DEF CreateTemp, Checked, Consistent
  <2> QED
    BY <2>3, <2>4
<1>7. ASSUME NEW c \in Clients, ConsumeLease(c) PROVE Checked(d)'
  <2>1. client'[d] = (IF d = c THEN [client[c] EXCEPT !.pc = "publish", !.lease = "moved", !.tmp = [client[c].tmp EXCEPT !.snapshot = TRUE]] ELSE client[d])
    BY <1>7, OtherClients DEF ConsumeLease
  <2>2. client'[d].pc \in {"lease", "publish"} =>
          /\ client[d].pc \in {"lease", "publish"}
          /\ client'[d].plan = client[d].plan /\ client'[d].review = client[d].review
          /\ client'[d].tmp.manifest = client[d].tmp.manifest
    BY <1>7, <2>1 DEF ConsumeLease, Client
  <2>3. \A x \in Reviews : dirs'[x].manifest \in Plans => dirs'[x].manifest = dirs[x].manifest
    BY <1>7 DEF ConsumeLease, Absent
  <2> QED
    BY <2>2, <2>3, CheckedStays
<1>8. ASSUME NEW c \in Clients, Publish(c) PROVE Checked(d)'
  <2>1. client'[d] = IF d = c THEN [client[c] EXCEPT !.pc = "list", !.tmp = Absent] ELSE client[d]
    BY <1>8, OtherClients DEF Publish
  <2>2. client'[d].pc \notin {"lease", "publish"}
    <3>1. CASE d = c
      BY <2>1, <3>1 DEF Client
    <3>2. CASE d # c
      BY <1>8, <2>1, <3>2 DEF Publish, StoreInv, HoldsStore, UnderStore
    <3> QED
      BY <3>1, <3>2
  <2> QED
    BY <2>2 DEF Checked
<1>9. ASSUME NEW c \in Clients, PublishFails(c) PROVE Checked(d)'
  <2>1. d # c => client'[d] = client[d]
    BY <1>9, OtherClients DEF PublishFails
  <2>2. d = c => client'[d].pc = "failed"
    <3>1. d = c => \/ client'[d] = [client[c] EXCEPT !.pc = "failed", !.lease = "filled", !.tmp = Absent]
                   \/ client'[d] = [client[c] EXCEPT !.pc = "failed"]
      BY <1>9, OtherClients DEF PublishFails
    <3> QED
      BY <3>1 DEF Client
  <2>3. dirs' = dirs
    BY <1>9 DEF PublishFails
  <2> QED
    BY <2>1, <2>2, <2>3, CheckedStays
<1>10. ASSUME NEW c \in Clients, ReleaseLease(c) PROVE Checked(d)'
  <2>1. client'[d] = (IF d = c THEN Idle ELSE client[d])
    BY <1>10, OtherClients DEF ReleaseLease
  <2>2. client'[d].pc \in {"lease", "publish"} =>
          /\ client[d].pc \in {"lease", "publish"}
          /\ client'[d].plan = client[d].plan /\ client'[d].review = client[d].review
          /\ client'[d].tmp.manifest = client[d].tmp.manifest
    BY <1>10, <2>1 DEF ReleaseLease, Client
  <2>3. \A x \in Reviews : dirs'[x].manifest \in Plans => dirs'[x].manifest = dirs[x].manifest
    BY <1>10 DEF ReleaseLease, Absent
  <2> QED
    BY <2>2, <2>3, CheckedStays
<1>11. ASSUME NEW c \in Clients, FinishSave(c) PROVE Checked(d)'
  <2>1. client'[d] = (IF d = c THEN Idle ELSE client[d])
    BY <1>11, OtherClients DEF FinishSave
  <2>2. client'[d].pc \in {"lease", "publish"} =>
          /\ client[d].pc \in {"lease", "publish"}
          /\ client'[d].plan = client[d].plan /\ client'[d].review = client[d].review
          /\ client'[d].tmp.manifest = client[d].tmp.manifest
    BY <1>11, <2>1 DEF FinishSave, Client
  <2>3. \A x \in Reviews : dirs'[x].manifest \in Plans => dirs'[x].manifest = dirs[x].manifest
    BY <1>11 DEF FinishSave, Absent
  <2> QED
    BY <2>2, <2>3, CheckedStays
<1>12. ASSUME NEW c \in Clients, ListReviews(c) PROVE Checked(d)'
  <2>1. client'[d] = (IF d = c THEN [client[c] EXCEPT !.pc = "prune", !.victims = Outdated] ELSE client[d])
    BY <1>12, OtherClients DEF ListReviews
  <2>2. client'[d].pc \in {"lease", "publish"} =>
          /\ client[d].pc \in {"lease", "publish"}
          /\ client'[d].plan = client[d].plan /\ client'[d].review = client[d].review
          /\ client'[d].tmp.manifest = client[d].tmp.manifest
    BY <1>12, <2>1 DEF ListReviews, Client
  <2>3. \A x \in Reviews : dirs'[x].manifest \in Plans => dirs'[x].manifest = dirs[x].manifest
    BY <1>12 DEF ListReviews, Absent
  <2> QED
    BY <2>2, <2>3, CheckedStays
<1>13. ASSUME NEW c \in Clients, NEW v \in client[c].victims, DeleteReview(c, v) PROVE Checked(d)'
  <2>1. client'[d] = (IF d = c THEN [client[c] EXCEPT !.pc = "remove", !.victim = v, !.victims = client[c].victims \ {v}] ELSE client[d])
    BY <1>13, OtherClients DEF DeleteReview
  <2>2. client'[d].pc \in {"lease", "publish"} =>
          /\ client[d].pc \in {"lease", "publish"}
          /\ client'[d].plan = client[d].plan /\ client'[d].review = client[d].review
          /\ client'[d].tmp.manifest = client[d].tmp.manifest
    BY <1>13, <2>1 DEF DeleteReview, Client
  <2>3. \A x \in Reviews : dirs'[x].manifest \in Plans => dirs'[x].manifest = dirs[x].manifest
    BY <1>13 DEF DeleteReview, Absent
  <2> QED
    BY <2>2, <2>3, CheckedStays
<1>14. ASSUME NEW c \in Clients, NEW v \in client[c].victims, SkipLocked(c, v) PROVE Checked(d)'
  <2>1. client'[d] = (IF d = c THEN [client[c] EXCEPT !.victims = client[c].victims \ {v}, !.skipped = TRUE] ELSE client[d])
    BY <1>14, OtherClients DEF SkipLocked
  <2>2. client'[d].pc \in {"lease", "publish"} =>
          /\ client[d].pc \in {"lease", "publish"}
          /\ client'[d].plan = client[d].plan /\ client'[d].review = client[d].review
          /\ client'[d].tmp.manifest = client[d].tmp.manifest
    BY <1>14, <2>1 DEF SkipLocked, Client
  <2>3. \A x \in Reviews : dirs'[x].manifest \in Plans => dirs'[x].manifest = dirs[x].manifest
    BY <1>14 DEF SkipLocked, Absent
  <2> QED
    BY <2>2, <2>3, CheckedStays
<1>15. ASSUME NEW c \in Clients, RemoveEntry(c) PROVE Checked(d)'
  <2>1. client' = client
    BY <1>15 DEF RemoveEntry
  <2>2. \A x \in Reviews : dirs'[x].manifest \in Plans => dirs'[x].manifest = dirs[x].manifest
    BY <1>15 DEF RemoveEntry, Directory
  <2> QED
    BY <2>1, <2>2, CheckedStays
<1>16. ASSUME NEW c \in Clients, RemoveDir(c) PROVE Checked(d)'
  <2>1. client'[d] = (IF d = c THEN [client[c] EXCEPT !.pc = "prune", !.victim = None] ELSE client[d])
    BY <1>16, OtherClients DEF RemoveDir
  <2>2. client'[d].pc \in {"lease", "publish"} =>
          /\ client[d].pc \in {"lease", "publish"}
          /\ client'[d].plan = client[d].plan /\ client'[d].review = client[d].review
          /\ client'[d].tmp.manifest = client[d].tmp.manifest
    BY <1>16, <2>1 DEF RemoveDir, Client
  <2>3. \A x \in Reviews : dirs'[x].manifest \in Plans => dirs'[x].manifest = dirs[x].manifest
    BY <1>16 DEF RemoveDir, Absent
  <2> QED
    BY <2>2, <2>3, CheckedStays
<1>17. ASSUME NEW c \in Clients, EndPrune(c) PROVE Checked(d)'
  <2>1. client'[d] = (IF d = c THEN [client[c] EXCEPT !.pc = "pruned"] ELSE client[d])
    BY <1>17, OtherClients DEF EndPrune
  <2>2. client'[d].pc \in {"lease", "publish"} =>
          /\ client[d].pc \in {"lease", "publish"}
          /\ client'[d].plan = client[d].plan /\ client'[d].review = client[d].review
          /\ client'[d].tmp.manifest = client[d].tmp.manifest
    BY <1>17, <2>1 DEF EndPrune, Client
  <2>3. \A x \in Reviews : dirs'[x].manifest \in Plans => dirs'[x].manifest = dirs[x].manifest
    BY <1>17 DEF EndPrune, Absent
  <2> QED
    BY <2>2, <2>3, CheckedStays
<1>18. ASSUME NEW c \in Clients, PruneFails(c) PROVE Checked(d)'
  <2>1. client'[d] = (IF d = c THEN [client[c] EXCEPT !.pc = "saved", !.victims = {}, !.victim = None] ELSE client[d])
    BY <1>18, OtherClients DEF PruneFails
  <2>2. client'[d].pc \in {"lease", "publish"} =>
          /\ client[d].pc \in {"lease", "publish"}
          /\ client'[d].plan = client[d].plan /\ client'[d].review = client[d].review
          /\ client'[d].tmp.manifest = client[d].tmp.manifest
    BY <1>18, <2>1 DEF PruneFails, Client
  <2>3. \A x \in Reviews : dirs'[x].manifest \in Plans => dirs'[x].manifest = dirs[x].manifest
    BY <1>18 DEF PruneFails, Absent
  <2> QED
    BY <2>2, <2>3, CheckedStays
<1>19. ASSUME NEW c \in Clients, NEW r \in Reviews, StartRead(c, r) PROVE Checked(d)'
  <2>1. client'[d] = (IF d = c THEN [client[c] EXCEPT !.pc = "stripe", !.review = r] ELSE client[d])
    BY <1>19, OtherClients DEF StartRead
  <2>2. client'[d].pc \in {"lease", "publish"} =>
          /\ client[d].pc \in {"lease", "publish"}
          /\ client'[d].plan = client[d].plan /\ client'[d].review = client[d].review
          /\ client'[d].tmp.manifest = client[d].tmp.manifest
    BY <1>19, <2>1 DEF StartRead, Client
  <2>3. \A x \in Reviews : dirs'[x].manifest \in Plans => dirs'[x].manifest = dirs[x].manifest
    BY <1>19 DEF StartRead, Absent
  <2> QED
    BY <2>2, <2>3, CheckedStays
<1>20. ASSUME NEW c \in Clients, LockReview(c) PROVE Checked(d)'
  <2>1. client'[d] = (IF d = c THEN [client[c] EXCEPT !.pc = "load"] ELSE client[d]) \/ client'[d] = (IF d = c THEN Idle ELSE client[d])
    BY <1>20, OtherClients DEF LockReview
  <2>2. client'[d].pc \in {"lease", "publish"} =>
          /\ client[d].pc \in {"lease", "publish"}
          /\ client'[d].plan = client[d].plan /\ client'[d].review = client[d].review
          /\ client'[d].tmp.manifest = client[d].tmp.manifest
    BY <1>20, <2>1 DEF LockReview, Client
  <2>3. \A x \in Reviews : dirs'[x].manifest \in Plans => dirs'[x].manifest = dirs[x].manifest
    BY <1>20 DEF LockReview, Absent
  <2> QED
    BY <2>2, <2>3, CheckedStays
<1>21. ASSUME NEW c \in Clients, LoadManifest(c) PROVE Checked(d)'
  <2>1. client'[d] = (IF d = c THEN [client[c] EXCEPT !.pc = "verify", !.plan = Dir(c).manifest,
               !.todo = {q \in Reviews \ {client[c].review} : dirs[q].exists}] ELSE client[d])
    BY <1>21, OtherClients DEF LoadManifest
  <2>2. client'[d].pc \in {"lease", "publish"} =>
          /\ client[d].pc \in {"lease", "publish"}
          /\ client'[d].plan = client[d].plan /\ client'[d].review = client[d].review
          /\ client'[d].tmp.manifest = client[d].tmp.manifest
    BY <1>21, <2>1 DEF LoadManifest, Client
  <2>3. \A x \in Reviews : dirs'[x].manifest \in Plans => dirs'[x].manifest = dirs[x].manifest
    BY <1>21 DEF LoadManifest, Absent
  <2> QED
    BY <2>2, <2>3, CheckedStays
<1>22. ASSUME NEW c \in Clients, VerifySibling(c) PROVE Checked(d)'
  <2>0. PICK q \in client[c].todo : Becomes(c, [client[c] EXCEPT !.todo = client[c].todo \ {q},
                !.seen = client[c].seen \cup ({dirs[q].manifest} \cap Plans)])
    BY <1>22 DEF VerifySibling
  <2>1. client'[d] = (IF d = c THEN [client[c] EXCEPT !.todo = client[c].todo \ {q},
                !.seen = client[c].seen \cup ({dirs[q].manifest} \cap Plans)] ELSE client[d])
    BY <1>22, <2>0, OtherClients DEF VerifySibling
  <2>2. client'[d].pc \in {"lease", "publish"} =>
          /\ client[d].pc \in {"lease", "publish"}
          /\ client'[d].plan = client[d].plan /\ client'[d].review = client[d].review
          /\ client'[d].tmp.manifest = client[d].tmp.manifest
    BY <1>22, <2>1 DEF VerifySibling, Client
  <2>3. \A x \in Reviews : dirs'[x].manifest \in Plans => dirs'[x].manifest = dirs[x].manifest
    BY <1>22 DEF VerifySibling, Absent
  <2> QED
    BY <2>2, <2>3, CheckedStays
<1>23. ASSUME NEW c \in Clients, UsePlan(c) PROVE Checked(d)'
  <2>1. client'[d] = (IF d = c THEN [client[c] EXCEPT !.pc = "use", !.seen = {}] ELSE client[d])
    BY <1>23, OtherClients DEF UsePlan
  <2>2. client'[d].pc \in {"lease", "publish"} =>
          /\ client[d].pc \in {"lease", "publish"}
          /\ client'[d].plan = client[d].plan /\ client'[d].review = client[d].review
          /\ client'[d].tmp.manifest = client[d].tmp.manifest
    BY <1>23, <2>1 DEF UsePlan, Client
  <2>3. \A x \in Reviews : dirs'[x].manifest \in Plans => dirs'[x].manifest = dirs[x].manifest
    BY <1>23 DEF UsePlan, Absent
  <2> QED
    BY <2>2, <2>3, CheckedStays
<1>24. ASSUME NEW c \in Clients, EndRead(c) PROVE Checked(d)'
  <2>1. client'[d] = (IF d = c THEN Idle ELSE client[d])
    BY <1>24, OtherClients DEF EndRead
  <2>2. client'[d].pc \in {"lease", "publish"} =>
          /\ client[d].pc \in {"lease", "publish"}
          /\ client'[d].plan = client[d].plan /\ client'[d].review = client[d].review
          /\ client'[d].tmp.manifest = client[d].tmp.manifest
    BY <1>24, <2>1 DEF EndRead, Client
  <2>3. \A x \in Reviews : dirs'[x].manifest \in Plans => dirs'[x].manifest = dirs[x].manifest
    BY <1>24 DEF EndRead, Absent
  <2> QED
    BY <2>2, <2>3, CheckedStays
<1>25. ASSUME NEW c \in Clients, Crash(c) PROVE Checked(d)'
  <2>1. client'[d] = (IF d = c THEN Idle ELSE client[d])
    BY <1>25, OtherClients DEF Crash
  <2>2. client'[d].pc \in {"lease", "publish"} =>
          /\ client[d].pc \in {"lease", "publish"}
          /\ client'[d].plan = client[d].plan /\ client'[d].review = client[d].review
          /\ client'[d].tmp.manifest = client[d].tmp.manifest
    BY <1>25, <2>1 DEF Crash, Client
  <2>3. \A x \in Reviews : dirs'[x].manifest \in Plans => dirs'[x].manifest = dirs[x].manifest
    BY <1>25 DEF Crash, Absent
  <2> QED
    BY <2>2, <2>3, CheckedStays
<1>26. ASSUME Tick PROVE Checked(d)'
  <2>1. client' = client
    BY <1>26 DEF Tick
  <2>2. \A x \in Reviews : dirs'[x].manifest \in Plans => dirs'[x].manifest = dirs[x].manifest
    BY <1>26 DEF Tick, Directory
  <2> QED
    BY <2>1, <2>2, CheckedStays
<1>27. ASSUME NEW r \in Reviews, Damage(r) PROVE Checked(d)'
  <2>1. client' = client
    BY <1>27 DEF Damage
  <2>2. \A x \in Reviews : dirs'[x].manifest \in Plans => dirs'[x].manifest = dirs[x].manifest
    BY <1>27 DEF Damage, Directory
  <2> QED
    BY <2>1, <2>2, CheckedStays
<1>28. CASE UNCHANGED vars
  BY <1>28, CheckedStays DEF vars
<1> QED
  BY <1>1, <1>2, <1>3, <1>4, <1>5, <1>6, <1>7, <1>8, <1>9, <1>10, <1>11, <1>12, <1>13, <1>14, <1>15, <1>16, <1>17, <1>18, <1>19, <1>20, <1>21, <1>22, <1>23, <1>24, <1>25, <1>26, <1>27, <1>28 DEF Next

LEMMA StepNoCollision == TypeOK /\ SaveInv /\ NoCollision /\ [Next]_vars => NoCollision'
<1> SUFFICES ASSUME TypeOK, SaveInv, NoCollision, [Next]_vars PROVE NoCollision'
  OBVIOUS
<1> USE StoreAssumption
<1> DEFINE plans == {dirs[r].manifest : r \in {r \in Reviews : Readable(r)}}
<1>1. CASE \A q \in Reviews : dirs'[q].manifest \in Plans => dirs'[q].manifest = dirs[q].manifest
  <2>1. plans' \subseteq plans
    <3> SUFFICES ASSUME NEW m \in plans' PROVE m \in plans
      OBVIOUS
    <3>1. PICK q \in Reviews : dirs'[q].manifest \in Plans /\ m = dirs'[q].manifest
      BY DEF Readable
    <3> QED
      BY <1>1, <3>1 DEF Readable
  <2> QED
    BY <2>1, ConsistentSubset DEF NoCollision, Consistent
<1>2. ASSUME NEW c \in Clients, Publish(c) PROVE NoCollision'
  <2> DEFINE s == client[c].review
  <2>1. /\ client[c].tmp.manifest = client[c].plan
        /\ Consistent(Siblings(s) \cup {client[c].plan})
    BY <1>2 DEF Publish, At, SaveInv, Checked
  <2>2. \A q \in Reviews : dirs'[q].manifest = IF q = s THEN client[c].plan ELSE dirs[q].manifest
    BY <1>2, <2>1 DEF Publish, TypeOK
  <2>3. plans' \subseteq Siblings(s) \cup {client[c].plan}
    <3> SUFFICES ASSUME NEW m \in plans' PROVE m \in Siblings(s) \cup {client[c].plan}
      OBVIOUS
    <3>1. PICK q \in Reviews : dirs'[q].manifest \in Plans /\ m = dirs'[q].manifest
      BY DEF Readable
    <3> QED
      BY <2>2, <3>1 DEF Siblings, Readable
  <2> QED
    BY <2>1, <2>3 DEF NoCollision, Consistent
<1>3. ASSUME NEW c \in Clients, RemoveEntry(c) \/ RemoveDir(c) PROVE NoCollision'
  BY <1>1, <1>3 DEF RemoveEntry, RemoveDir, Absent, TypeOK, Directory
<1>4. ASSUME NEW r \in Reviews, Damage(r) PROVE NoCollision'
  BY <1>1, <1>4 DEF Damage, TypeOK, Directory
<1>5. CASE UNCHANGED dirs
  BY <1>1, <1>5
<1> QED
  BY <1>2, <1>3, <1>4, <1>5
  DEF Next, vars, StartSave, StartPrune, LockStore, Refuse, Reuse, CreateTemp, ConsumeLease,
      PublishFails, ReleaseLease, FinishSave, ListReviews, DeleteReview, SkipLocked, EndPrune,
      PruneFails, StartRead, LockReview, LoadManifest, VerifySibling, UsePlan, EndRead, Crash, Tick

-----------------------------------------------------------------------------
(* Where the snapshot of a saver is, at every step of Save. *)
Leased(c) ==
    /\ client[c].pc = "idle" => client[c].plan = None
    /\ client[c].pc \in {"store", "check", "lease"} =>
         client[c].plan = None \/ (client[c].lease = "filled" /\ client[c].tmp.snapshot = FALSE)
    /\ client[c].pc = "publish" => client[c].lease = "moved" /\ client[c].tmp.snapshot = TRUE
    /\ client[c].pc = "failed" =>
         \/ client[c].plan = None
         \/ client[c].lease = "filled" /\ client[c].tmp.snapshot = FALSE
         \/ client[c].lease = "moved" /\ client[c].tmp.snapshot = TRUE
LeaseInv == \A c \in Clients : Leased(c)

LEMMA StepLease == TypeOK /\ LeaseInv /\ [Next]_vars => LeaseInv'
<1> SUFFICES ASSUME TypeOK, LeaseInv, [Next]_vars, NEW d \in Clients PROVE Leased(d)'
  BY DEF LeaseInv
<1>0. Leased(d) /\ client[d] \in Client
  BY DEF LeaseInv, TypeOK
<1> USE StoreAssumption, <1>0 DEF Leased, At, Idle
<1>1. ASSUME NEW c \in Clients, NEW p \in Plans, StartSave(c, p) PROVE Leased(d)'
  <2>1. CASE d # c
    <3>1. client'[d] = client[d]
      BY <1>1, <2>1, OtherClients DEF StartSave
    <3> QED
      BY <1>1, <2>1, <3>1 DEF StartSave, Client, Absent
  <2>2. CASE d = c
    <3>1. client'[d] = [Idle EXCEPT !.pc = "store", !.plan = p, !.review = ReviewOf[p], !.lease = "filled"]
      BY <1>1, <2>2, OtherClients DEF StartSave
    <3> QED
      BY <1>1, <2>2, <3>1 DEF StartSave, Client, Absent
  <2> QED
    BY <2>1, <2>2
<1>2. ASSUME NEW c \in Clients, StartPrune(c) PROVE Leased(d)'
  <2>1. client'[d] = IF d = c THEN [client[c] EXCEPT !.pc = "store"] ELSE client[d]
    BY <1>2, OtherClients DEF StartPrune
  <2>2. CASE d # c
    BY <2>1, <2>2
  <2>3. CASE d = c
    <3>1. client'[d].pc = "store" /\ client'[d].plan = client[d].plan
      BY <2>1, <2>3 DEF Client
    <3>2. client[d].pc = "idle"
      BY <1>2, <2>3 DEF StartPrune
    <3>3. client[d].plan = None
      BY <3>2
    <3> QED
      BY <3>1, <3>3
  <2> QED
    BY <2>2, <2>3
<1>3. ASSUME NEW c \in Clients, LockStore(c) PROVE Leased(d)'
  <2>1. CASE d # c
    <3>1. client'[d] = client[d]
      BY <1>3, <2>1, OtherClients DEF LockStore
    <3> QED
      BY <1>3, <2>1, <3>1 DEF LockStore, Client, Absent
  <2>2. CASE d = c
    <3>1. client'[d] = [client[c] EXCEPT !.pc = IF client[c].plan = None THEN "list" ELSE "check"]
      BY <1>3, <2>2, OtherClients DEF LockStore
    <3> QED
      BY <1>3, <2>2, <3>1 DEF LockStore, Client, Absent
  <2> QED
    BY <2>1, <2>2
<1>4. ASSUME NEW c \in Clients, Refuse(c) PROVE Leased(d)'
  <2>1. CASE d # c
    <3>1. client'[d] = client[d]
      BY <1>4, <2>1, OtherClients DEF Refuse
    <3> QED
      BY <1>4, <2>1, <3>1 DEF Refuse, Client, Absent
  <2>2. CASE d = c
    <3>1. client'[d] = [client[c] EXCEPT !.pc = "failed"]
      BY <1>4, <2>2, OtherClients DEF Refuse
    <3> QED
      BY <1>4, <2>2, <3>1 DEF Refuse, Client, Absent
  <2> QED
    BY <2>1, <2>2
<1>5. ASSUME NEW c \in Clients, Reuse(c) PROVE Leased(d)'
  <2>1. CASE d # c
    <3>1. client'[d] = client[d]
      BY <1>5, <2>1, OtherClients DEF Reuse
    <3> QED
      BY <1>5, <2>1, <3>1 DEF Reuse, Client, Absent
  <2>2. CASE d = c
    <3>1. client'[d] = [client[c] EXCEPT !.pc = "saved", !.lease = "released"]
      BY <1>5, <2>2, OtherClients DEF Reuse
    <3> QED
      BY <1>5, <2>2, <3>1 DEF Reuse, Client, Absent
  <2> QED
    BY <2>1, <2>2
<1>6. ASSUME NEW c \in Clients, CreateTemp(c) PROVE Leased(d)'
  <2>1. CASE d # c
    <3>1. client'[d] = client[d]
      BY <1>6, <2>1, OtherClients DEF CreateTemp
    <3> QED
      BY <1>6, <2>1, <3>1 DEF CreateTemp, Client, Draft
  <2>2. CASE d = c
    <3>1. client'[d] = [client[c] EXCEPT !.pc = "lease", !.tmp = Draft(client[c].plan)]
      BY <1>6, <2>2, OtherClients DEF CreateTemp
    <3> QED
      BY <1>6, <2>2, <3>1 DEF CreateTemp, Client, Draft
  <2> QED
    BY <2>1, <2>2
<1>7. ASSUME NEW c \in Clients, ConsumeLease(c) PROVE Leased(d)'
  <2>1. CASE d # c
    <3>1. client'[d] = client[d]
      BY <1>7, <2>1, OtherClients DEF ConsumeLease
    <3> QED
      BY <1>7, <2>1, <3>1 DEF ConsumeLease, Client, Directory
  <2>2. CASE d = c
    <3>1. client'[d] = [client[c] EXCEPT !.pc = "publish", !.lease = "moved", !.tmp = [client[c].tmp EXCEPT !.snapshot = TRUE]]
      BY <1>7, <2>2, OtherClients DEF ConsumeLease
    <3> QED
      BY <1>7, <2>2, <3>1 DEF ConsumeLease, Client, Directory
  <2> QED
    BY <2>1, <2>2
<1>8. ASSUME NEW c \in Clients, Publish(c) PROVE Leased(d)'
  <2>1. CASE d # c
    <3>1. client'[d] = client[d]
      BY <1>8, <2>1, OtherClients DEF Publish
    <3> QED
      BY <1>8, <2>1, <3>1 DEF Publish, Client, Absent
  <2>2. CASE d = c
    <3>1. client'[d] = [client[c] EXCEPT !.pc = "list", !.tmp = Absent]
      BY <1>8, <2>2, OtherClients DEF Publish
    <3> QED
      BY <1>8, <2>2, <3>1 DEF Publish, Client, Absent
  <2> QED
    BY <2>1, <2>2
<1>9. ASSUME NEW c \in Clients, PublishFails(c) PROVE Leased(d)'
  <2>1. CASE d # c
    <3>1. client'[d] = client[d]
      BY <1>9, <2>1, OtherClients DEF PublishFails
    <3> QED
      BY <3>1
  <2>2. CASE d = c
    <3>1. CASE client'[d] = [client[c] EXCEPT !.pc = "failed", !.lease = "filled", !.tmp = Absent]
      <4>1. client'[d].pc = "failed" /\ client'[d].lease = "filled" /\ client'[d].tmp.snapshot = FALSE
        BY <2>2, <3>1 DEF Client, Absent
      <4> QED
        BY <4>1
    <3>2. CASE client[c].tmp.snapshot /\ client'[d] = [client[c] EXCEPT !.pc = "failed"]
      <4>1. client'[d].pc = "failed" /\ client'[d].lease = client[d].lease /\ client'[d].plan = client[d].plan
            /\ client'[d].tmp = client[d].tmp
        BY <2>2, <3>2 DEF Client
      <4> QED
        BY <1>9, <2>2, <3>2, <4>1 DEF PublishFails
    <3> QED
      BY <1>9, <2>2, <3>1, <3>2, OtherClients DEF PublishFails
  <2> QED
    BY <2>1, <2>2
<1>10. ASSUME NEW c \in Clients, ReleaseLease(c) PROVE Leased(d)'
  <2>1. CASE d # c
    <3>1. client'[d] = client[d]
      BY <1>10, <2>1, OtherClients DEF ReleaseLease
    <3> QED
      BY <1>10, <2>1, <3>1 DEF ReleaseLease, Client, Absent
  <2>2. CASE d = c
    <3>1. client'[d] = Idle
      BY <1>10, <2>2, OtherClients DEF ReleaseLease
    <3> QED
      BY <1>10, <2>2, <3>1 DEF ReleaseLease, Client, Absent
  <2> QED
    BY <2>1, <2>2
<1>11. ASSUME NEW c \in Clients, FinishSave(c) PROVE Leased(d)'
  <2>1. CASE d # c
    <3>1. client'[d] = client[d]
      BY <1>11, <2>1, OtherClients DEF FinishSave
    <3> QED
      BY <1>11, <2>1, <3>1 DEF FinishSave, Client, Absent
  <2>2. CASE d = c
    <3>1. client'[d] = Idle
      BY <1>11, <2>2, OtherClients DEF FinishSave
    <3> QED
      BY <1>11, <2>2, <3>1 DEF FinishSave, Client, Absent
  <2> QED
    BY <2>1, <2>2
<1>12. ASSUME NEW c \in Clients, ListReviews(c) PROVE Leased(d)'
  <2>1. CASE d # c
    <3>1. client'[d] = client[d]
      BY <1>12, <2>1, OtherClients DEF ListReviews
    <3> QED
      BY <1>12, <2>1, <3>1 DEF ListReviews, Client, Absent
  <2>2. CASE d = c
    <3>1. client'[d] = [client[c] EXCEPT !.pc = "prune", !.victims = Outdated]
      BY <1>12, <2>2, OtherClients DEF ListReviews
    <3> QED
      BY <1>12, <2>2, <3>1 DEF ListReviews, Client, Absent
  <2> QED
    BY <2>1, <2>2
<1>13. ASSUME NEW c \in Clients, NEW v \in client[c].victims, DeleteReview(c, v) PROVE Leased(d)'
  <2>1. CASE d # c
    <3>1. client'[d] = client[d]
      BY <1>13, <2>1, OtherClients DEF DeleteReview
    <3> QED
      BY <1>13, <2>1, <3>1 DEF DeleteReview, Client, Absent
  <2>2. CASE d = c
    <3>1. client'[d] = [client[c] EXCEPT !.pc = "remove", !.victim = v, !.victims = client[c].victims \ {v}]
      BY <1>13, <2>2, OtherClients DEF DeleteReview
    <3> QED
      BY <1>13, <2>2, <3>1 DEF DeleteReview, Client, Absent
  <2> QED
    BY <2>1, <2>2
<1>14. ASSUME NEW c \in Clients, NEW v \in client[c].victims, SkipLocked(c, v) PROVE Leased(d)'
  <2>1. CASE d # c
    <3>1. client'[d] = client[d]
      BY <1>14, <2>1, OtherClients DEF SkipLocked
    <3> QED
      BY <1>14, <2>1, <3>1 DEF SkipLocked, Client, Absent
  <2>2. CASE d = c
    <3>1. client'[d] = [client[c] EXCEPT !.victims = client[c].victims \ {v}, !.skipped = TRUE]
      BY <1>14, <2>2, OtherClients DEF SkipLocked
    <3> QED
      BY <1>14, <2>2, <3>1 DEF SkipLocked, Client, Absent
  <2> QED
    BY <2>1, <2>2
<1>15. ASSUME NEW c \in Clients, RemoveEntry(c) PROVE Leased(d)'
  BY <1>15 DEF RemoveEntry, Client, Absent
<1>16. ASSUME NEW c \in Clients, RemoveDir(c) PROVE Leased(d)'
  <2>1. CASE d # c
    <3>1. client'[d] = client[d]
      BY <1>16, <2>1, OtherClients DEF RemoveDir
    <3> QED
      BY <1>16, <2>1, <3>1 DEF RemoveDir, Client, Absent
  <2>2. CASE d = c
    <3>1. client'[d] = [client[c] EXCEPT !.pc = "prune", !.victim = None]
      BY <1>16, <2>2, OtherClients DEF RemoveDir
    <3> QED
      BY <1>16, <2>2, <3>1 DEF RemoveDir, Client, Absent
  <2> QED
    BY <2>1, <2>2
<1>17. ASSUME NEW c \in Clients, EndPrune(c) PROVE Leased(d)'
  <2>1. CASE d # c
    <3>1. client'[d] = client[d]
      BY <1>17, <2>1, OtherClients DEF EndPrune
    <3> QED
      BY <1>17, <2>1, <3>1 DEF EndPrune, Client, Absent
  <2>2. CASE d = c
    <3>1. client'[d] = [client[c] EXCEPT !.pc = "pruned"]
      BY <1>17, <2>2, OtherClients DEF EndPrune
    <3> QED
      BY <1>17, <2>2, <3>1 DEF EndPrune, Client, Absent
  <2> QED
    BY <2>1, <2>2
<1>18. ASSUME NEW c \in Clients, PruneFails(c) PROVE Leased(d)'
  <2>1. CASE d # c
    <3>1. client'[d] = client[d]
      BY <1>18, <2>1, OtherClients DEF PruneFails
    <3> QED
      BY <1>18, <2>1, <3>1 DEF PruneFails, Client, Absent
  <2>2. CASE d = c
    <3>1. client'[d] = [client[c] EXCEPT !.pc = "saved", !.victims = {}, !.victim = None]
      BY <1>18, <2>2, OtherClients DEF PruneFails
    <3> QED
      BY <1>18, <2>2, <3>1 DEF PruneFails, Client, Absent
  <2> QED
    BY <2>1, <2>2
<1>19. ASSUME NEW c \in Clients, NEW r \in Reviews, StartRead(c, r) PROVE Leased(d)'
  <2>1. CASE d # c
    <3>1. client'[d] = client[d]
      BY <1>19, <2>1, OtherClients DEF StartRead
    <3> QED
      BY <1>19, <2>1, <3>1 DEF StartRead, Client, Absent
  <2>2. CASE d = c
    <3>1. client'[d] = [client[c] EXCEPT !.pc = "stripe", !.review = r]
      BY <1>19, <2>2, OtherClients DEF StartRead
    <3> QED
      BY <1>19, <2>2, <3>1 DEF StartRead, Client, Absent
  <2> QED
    BY <2>1, <2>2
<1>20. ASSUME NEW c \in Clients, LockReview(c) PROVE Leased(d)'
  <2>1. CASE d # c
    <3>1. client'[d] = client[d]
      BY <1>20, <2>1, OtherClients DEF LockReview
    <3> QED
      BY <1>20, <2>1, <3>1 DEF LockReview, Client, Absent
  <2>2. CASE d = c
    <3>1. client'[d] = [client[c] EXCEPT !.pc = "load"] \/ client'[d] = Idle
      BY <1>20, <2>2, OtherClients DEF LockReview
    <3> QED
      BY <1>20, <2>2, <3>1 DEF LockReview, Client, Absent
  <2> QED
    BY <2>1, <2>2
<1>21. ASSUME NEW c \in Clients, LoadManifest(c) PROVE Leased(d)'
  <2>1. CASE d # c
    <3>1. client'[d] = client[d]
      BY <1>21, <2>1, OtherClients DEF LoadManifest
    <3> QED
      BY <1>21, <2>1, <3>1 DEF LoadManifest, Client, Absent
  <2>2. CASE d = c
    <3>1. client'[d] = [client[c] EXCEPT !.pc = "verify", !.plan = Dir(c).manifest,
               !.todo = {q \in Reviews \ {client[c].review} : dirs[q].exists}]
      BY <1>21, <2>2, OtherClients DEF LoadManifest
    <3> QED
      BY <1>21, <2>2, <3>1 DEF LoadManifest, Client, Absent
  <2> QED
    BY <2>1, <2>2
<1>22. ASSUME NEW c \in Clients, VerifySibling(c) PROVE Leased(d)'
  <2>1. PICK q \in client[c].todo : Becomes(c, [client[c] EXCEPT !.todo = client[c].todo \ {q},
                                    !.seen = client[c].seen \cup ({dirs[q].manifest} \cap Plans)])
    BY <1>22 DEF VerifySibling
  <2>2. CASE d # c
    <3>1. client'[d] = client[d]
      BY <1>22, <2>2, <2>1, OtherClients DEF VerifySibling
    <3> QED
      BY <1>22, <2>2, <3>1 DEF VerifySibling, Client, Absent
  <2>3. CASE d = c
    <3>1. client'[d] = [client[c] EXCEPT !.todo = client[c].todo \ {q},
                                    !.seen = client[c].seen \cup ({dirs[q].manifest} \cap Plans)]
      BY <1>22, <2>3, <2>1, OtherClients DEF VerifySibling
    <3> QED
      BY <1>22, <2>3, <3>1 DEF VerifySibling, Client, Absent
  <2> QED
    BY <2>2, <2>3
<1>23. ASSUME NEW c \in Clients, UsePlan(c) PROVE Leased(d)'
  <2>1. CASE d # c
    <3>1. client'[d] = client[d]
      BY <1>23, <2>1, OtherClients DEF UsePlan
    <3> QED
      BY <1>23, <2>1, <3>1 DEF UsePlan, Client, Absent
  <2>2. CASE d = c
    <3>1. client'[d] = [client[c] EXCEPT !.pc = "use", !.seen = {}]
      BY <1>23, <2>2, OtherClients DEF UsePlan
    <3> QED
      BY <1>23, <2>2, <3>1 DEF UsePlan, Client, Absent
  <2> QED
    BY <2>1, <2>2
<1>24. ASSUME NEW c \in Clients, EndRead(c) PROVE Leased(d)'
  <2>1. CASE d # c
    <3>1. client'[d] = client[d]
      BY <1>24, <2>1, OtherClients DEF EndRead
    <3> QED
      BY <1>24, <2>1, <3>1 DEF EndRead, Client, Absent
  <2>2. CASE d = c
    <3>1. client'[d] = Idle
      BY <1>24, <2>2, OtherClients DEF EndRead
    <3> QED
      BY <1>24, <2>2, <3>1 DEF EndRead, Client, Absent
  <2> QED
    BY <2>1, <2>2
<1>25. ASSUME NEW c \in Clients, Crash(c) PROVE Leased(d)'
  <2>1. CASE d # c
    <3>1. client'[d] = client[d]
      BY <1>25, <2>1, OtherClients DEF Crash
    <3> QED
      BY <1>25, <2>1, <3>1 DEF Crash, Client, Absent
  <2>2. CASE d = c
    <3>1. client'[d] = Idle
      BY <1>25, <2>2, OtherClients DEF Crash
    <3> QED
      BY <1>25, <2>2, <3>1 DEF Crash, Client, Absent
  <2> QED
    BY <2>1, <2>2
<1>26. ASSUME Tick PROVE Leased(d)'
  BY <1>26 DEF Tick, Client, Absent
<1>27. ASSUME NEW r \in Reviews, Damage(r) PROVE Leased(d)'
  BY <1>27 DEF Damage, Client, Absent
<1>28. CASE UNCHANGED vars
  BY <1>28 DEF vars
<1> QED
  BY <1>1, <1>2, <1>3, <1>4, <1>5, <1>6, <1>7, <1>8, <1>9, <1>10, <1>11, <1>12, <1>13, <1>14, <1>15, <1>16, <1>17, <1>18, <1>19, <1>20, <1>21, <1>22, <1>23, <1>24, <1>25, <1>26, <1>27, <1>28 DEF Next

-----------------------------------------------------------------------------
IInv == TypeOK /\ StoreInv /\ StripeInv /\ ReadInv /\ SaveInv /\ NoCollision /\ LeaseInv

LEMMA InitIInv == Init => IInv
<1> SUFFICES ASSUME Init PROVE IInv
  OBVIOUS
<1>1. TypeOK
  BY InitTyped
<1>2. \A c \in Clients : client[c].pc = "idle" /\ client[c].plan = None
  BY DEF Init, Idle
<1>3. NoCollision
  <2>1. \A r \in Reviews : ~Readable(r)
    BY StoreAssumption DEF Init, Absent, Readable
  <2>2. PICK P : P = {dirs[r].manifest : r \in {r \in Reviews : Readable(r)}}
    OBVIOUS
  <2>3. P = {}
    BY <2>1, <2>2
  <2>4. \A pair \in Clash : pair # {}
    BY StoreAssumption
  <2> QED
    BY <2>2, <2>3, <2>4 DEF NoCollision, Consistent
<1> QED
  BY <1>1, <1>2, <1>3
  DEF IInv, StoreInv, HoldsStore, UnderStore, StripeInv, HoldsStripe, ReadInv, KeepsPlan,
      SaveInv, Checked, LeaseInv, Leased

LEMMA StepIInv == IInv /\ [Next]_vars => IInv'
BY StepTyped, StepStore, StepStripe, StepRead, StepSave, StepNoCollision, StepLease DEF IInv

LEMMA SpecIInv == Spec => []IInv
BY InitIInv, StepIInv, PTL DEF Spec

(* Every reachable state of the store is typed. *)
THEOREM TypeCorrect == Spec => []TypeOK
<1>1. IInv => TypeOK
  BY DEF IInv
<1> QED
  BY <1>1, SpecIInv, PTL

(* A plan that a caller loaded under LockReview stays until the caller       *)
(* releases the lock: deleteReview tries the same stripe and the rename of   *)
(* publish replaces no directory that holds a manifest.                      *)
THEOREM LoadedPlansKept == Spec => []LoadedPlanKept
<1>1. IInv => LoadedPlanKept
  BY DEF IInv, ReadInv, KeepsPlan, LoadedPlanKept, At, Dir
<1> QED
  BY <1>1, SpecIInv, PTL

(* The readable plans of the shared domain never collide: Save checks the    *)
(* registry and publishes under one holding of the store lock.               *)
THEOREM NoCollisions == Spec => []NoCollision
<1>1. IInv => NoCollision
  BY DEF IInv
<1> QED
  BY <1>1, SpecIInv, PTL

(* A failed Save never loses the caller's snapshot. *)
THEOREM SnapshotsKept == Spec => []SoleSnapshotKept
<1>1. IInv => SoleSnapshotKept
  <2> SUFFICES ASSUME IInv, NEW c \in Clients, At(c, "failed"), client[c].plan # None
               PROVE  (client[c].lease = "filled") # client[c].tmp.snapshot
    BY DEF SoleSnapshotKept
  <2>1. \/ client[c].lease = "filled" /\ client[c].tmp.snapshot = FALSE
        \/ client[c].lease = "moved" /\ client[c].tmp.snapshot = TRUE
    BY DEF IInv, LeaseInv, Leased, At
  <2> QED
    BY <2>1
<1> QED
  BY <1>1, SpecIInv, PTL
-----------------------------------------------------------------------------
(* Retention.  What the pruner of the store lock still has to delete is past *)
(* the age, or enough plans at least as new are not marked for deletion.     *)
Filled == {r \in Reviews : dirs[r].manifest # None}
FiniteInv == IsFiniteSet(Filled)

Pruning(c) == client[c].pc \in {"prune", "remove"}
InHand(c) == IF client[c].pc = "remove" THEN {client[c].victim} ELSE {}
Marked(c) == client[c].victims \cup InHand(c)
Expired(v) == dirs[v].created + RetentionAge < clock
Suffices(K, v) ==
  Cardinality(K) >= RetentionCount /\ \A q \in K : dirs[q].created >= dirs[v].created
Due(v, M) == Expired(v) \/ \E K \in SUBSET (Filled \ M) : Suffices(K, v)
DueAll(c) ==
  Pruning(c) => /\ Marked(c) \subseteq Reviews
                /\ client[c].victims \cap InHand(c) = {}
                /\ \A v \in Marked(c) : Due(v, Marked(c))
RetentionInv == \A c \in Clients : DueAll(c)

(* The steps that write a directory.                                         *)
Writes(c) == Publish(c) \/ RemoveEntry(c) \/ RemoveDir(c)

LEMMA DirsStep ==
  ASSUME [Next]_vars
  PROVE  \/ dirs' = dirs
         \/ \E c \in Clients : Writes(c)
         \/ \E r \in Reviews : Damage(r)
BY DEF Next, vars, Writes, StartSave, StartRead, StartPrune, LockStore, Refuse, Reuse, CreateTemp, ConsumeLease, PublishFails, ReleaseLease, FinishSave, ListReviews, EndPrune, PruneFails, LockReview, LoadManifest, VerifySibling, UsePlan, EndRead, Crash, DeleteReview, SkipLocked, Tick

(* What a step may do to the pruning of a client.                            *)
PruneStep(c) ==
  \/ client'[c] = client[c]
  \/ ListReviews(c)
  \/ \E v \in client[c].victims : DeleteReview(c, v)
  \/ \E v \in client[c].victims : SkipLocked(c, v)
  \/ RemoveDir(c)

LEMMA PruneSteps ==
  ASSUME TypeOK, [Next]_vars, NEW d \in Clients, Pruning(d)'
  PROVE  PruneStep(d)
<1> DEFINE Goal == \/ client'[d] = client[d]
                   \/ ListReviews(d)
                   \/ \E v \in client[d].victims : DeleteReview(d, v)
                   \/ \E v \in client[d].victims : SkipLocked(d, v)
                   \/ RemoveDir(d)
<1>0. \A c \in Clients : client[c] \in Client
  BY DEF TypeOK
<1>1. ASSUME NEW c \in Clients, NEW p \in Plans, StartSave(c, p) PROVE Goal
  <2>1. c # d => client'[d] = client[d]
    BY <1>1, OtherClients DEF StartSave
  <2>2. c = d => client'[d] = [Idle EXCEPT !.pc = "store", !.plan = p, !.review = ReviewOf[p], !.lease = "filled"]
    BY <1>1, OtherClients DEF StartSave
  <2>3. c = d => ~Pruning(d)'
    BY <1>0, <1>1, <2>2 DEF Client, Idle, Pruning
  <2> QED
    BY <2>1, <2>3
<1>2. ASSUME NEW c \in Clients, NEW r \in Reviews, StartRead(c, r) PROVE Goal
  <2>1. c # d => client'[d] = client[d]
    BY <1>2, OtherClients DEF StartRead
  <2>2. c = d => client'[d] = [client[c] EXCEPT !.pc = "stripe", !.review = r]
    BY <1>2, OtherClients DEF StartRead
  <2>3. c = d => ~Pruning(d)'
    BY <1>0, <1>2, <2>2 DEF Client, Idle, Pruning
  <2> QED
    BY <2>1, <2>3
<1>3. ASSUME NEW c \in Clients, StartPrune(c) PROVE Goal
  <2>1. c # d => client'[d] = client[d]
    BY <1>3, OtherClients DEF StartPrune
  <2>2. c = d => client'[d] = [client[c] EXCEPT !.pc = "store"]
    BY <1>3, OtherClients DEF StartPrune
  <2>3. c = d => ~Pruning(d)'
    BY <1>0, <1>3, <2>2 DEF Client, Idle, Pruning
  <2> QED
    BY <2>1, <2>3
<1>4. ASSUME NEW c \in Clients, LockStore(c) PROVE Goal
  <2>1. c # d => client'[d] = client[d]
    BY <1>4, OtherClients DEF LockStore
  <2>2. c = d => client'[d] = [client[c] EXCEPT !.pc = IF client[c].plan = None THEN "list" ELSE "check"]
    BY <1>4, OtherClients DEF LockStore
  <2>3. c = d => ~Pruning(d)'
    BY <1>0, <1>4, <2>2 DEF Client, Idle, Pruning
  <2> QED
    BY <2>1, <2>3
<1>5. ASSUME NEW c \in Clients, Refuse(c) PROVE Goal
  <2>1. c # d => client'[d] = client[d]
    BY <1>5, OtherClients DEF Refuse
  <2>2. c = d => client'[d] = [client[c] EXCEPT !.pc = "failed"]
    BY <1>5, OtherClients DEF Refuse
  <2>3. c = d => ~Pruning(d)'
    BY <1>0, <1>5, <2>2 DEF Client, Idle, Pruning
  <2> QED
    BY <2>1, <2>3
<1>6. ASSUME NEW c \in Clients, Reuse(c) PROVE Goal
  <2>1. c # d => client'[d] = client[d]
    BY <1>6, OtherClients DEF Reuse
  <2>2. c = d => client'[d] = [client[c] EXCEPT !.pc = "saved", !.lease = "released"]
    BY <1>6, OtherClients DEF Reuse
  <2>3. c = d => ~Pruning(d)'
    BY <1>0, <1>6, <2>2 DEF Client, Idle, Pruning
  <2> QED
    BY <2>1, <2>3
<1>7. ASSUME NEW c \in Clients, CreateTemp(c) PROVE Goal
  <2>1. c # d => client'[d] = client[d]
    BY <1>7, OtherClients DEF CreateTemp
  <2>2. c = d => client'[d] = [client[c] EXCEPT !.pc = "lease", !.tmp = Draft(client[c].plan)]
    BY <1>7, OtherClients DEF CreateTemp
  <2>3. c = d => ~Pruning(d)'
    BY <1>0, <1>7, <2>2 DEF Client, Idle, Pruning
  <2> QED
    BY <2>1, <2>3
<1>8. ASSUME NEW c \in Clients, ConsumeLease(c) PROVE Goal
  <2>1. c # d => client'[d] = client[d]
    BY <1>8, OtherClients DEF ConsumeLease
  <2>2. c = d => client'[d] = [client[c] EXCEPT !.pc = "publish", !.lease = "moved", !.tmp = [client[c].tmp EXCEPT !.snapshot = TRUE]]
    BY <1>8, OtherClients DEF ConsumeLease
  <2>3. c = d => ~Pruning(d)'
    BY <1>0, <1>8, <2>2 DEF Client, Idle, Pruning
  <2> QED
    BY <2>1, <2>3
<1>9. ASSUME NEW c \in Clients, Publish(c) PROVE Goal
  <2>1. c # d => client'[d] = client[d]
    BY <1>9, OtherClients DEF Publish
  <2>2. c = d => client'[d] = [client[c] EXCEPT !.pc = "list", !.tmp = Absent]
    BY <1>9, OtherClients DEF Publish
  <2>3. c = d => ~Pruning(d)'
    BY <1>0, <1>9, <2>2 DEF Client, Idle, Pruning
  <2> QED
    BY <2>1, <2>3
<1>10. ASSUME NEW c \in Clients, PublishFails(c) PROVE Goal
  <2>1. c # d => client'[d] = client[d]
    BY <1>10, OtherClients DEF PublishFails
  <2>2. c = d => client'[d] \in {[client[c] EXCEPT !.pc = "failed", !.lease = "filled", !.tmp = Absent],
                                     [client[c] EXCEPT !.pc = "failed"]}
    BY <1>10, OtherClients DEF PublishFails
  <2>3. c = d => client'[d].pc = "failed"
    BY <1>0, <1>10, <2>2 DEF Client
  <2> QED
    BY <2>1, <2>3 DEF Pruning
<1>11. ASSUME NEW c \in Clients, ReleaseLease(c) PROVE Goal
  <2>1. c # d => client'[d] = client[d]
    BY <1>11, OtherClients DEF ReleaseLease
  <2>2. c = d => client'[d] = Idle
    BY <1>11, OtherClients DEF ReleaseLease
  <2>3. c = d => ~Pruning(d)'
    BY <1>0, <1>11, <2>2 DEF Client, Idle, Pruning
  <2> QED
    BY <2>1, <2>3
<1>12. ASSUME NEW c \in Clients, FinishSave(c) PROVE Goal
  <2>1. c # d => client'[d] = client[d]
    BY <1>12, OtherClients DEF FinishSave
  <2>2. c = d => client'[d] = Idle
    BY <1>12, OtherClients DEF FinishSave
  <2>3. c = d => ~Pruning(d)'
    BY <1>0, <1>12, <2>2 DEF Client, Idle, Pruning
  <2> QED
    BY <2>1, <2>3
<1>13. ASSUME NEW c \in Clients, ListReviews(c) PROVE Goal
  <2>1. c = d \/ client'[d] = client[d]
    BY <1>13, OtherClients DEF ListReviews
  <2> QED
    BY <1>13, <2>1
<1>14. ASSUME NEW c \in Clients, RemoveEntry(c) PROVE Goal
  BY <1>14 DEF RemoveEntry
<1>15. ASSUME NEW c \in Clients, RemoveDir(c) PROVE Goal
  <2>1. c = d \/ client'[d] = client[d]
    BY <1>15, OtherClients DEF RemoveDir
  <2> QED
    BY <1>15, <2>1
<1>16. ASSUME NEW c \in Clients, EndPrune(c) PROVE Goal
  <2>1. c # d => client'[d] = client[d]
    BY <1>16, OtherClients DEF EndPrune
  <2>2. c = d => client'[d] = [client[c] EXCEPT !.pc = "pruned"]
    BY <1>16, OtherClients DEF EndPrune
  <2>3. c = d => ~Pruning(d)'
    BY <1>0, <1>16, <2>2 DEF Client, Idle, Pruning
  <2> QED
    BY <2>1, <2>3
<1>17. ASSUME NEW c \in Clients, PruneFails(c) PROVE Goal
  <2>1. c # d => client'[d] = client[d]
    BY <1>17, OtherClients DEF PruneFails
  <2>2. c = d => client'[d] = [client[c] EXCEPT !.pc = "saved", !.victims = {}, !.victim = None]
    BY <1>17, OtherClients DEF PruneFails
  <2>3. c = d => ~Pruning(d)'
    BY <1>0, <1>17, <2>2 DEF Client, Idle, Pruning
  <2> QED
    BY <2>1, <2>3
<1>18. ASSUME NEW c \in Clients, LockReview(c) PROVE Goal
  <2>1. c # d => client'[d] = client[d]
    BY <1>18, OtherClients DEF LockReview
  <2>2. c = d => client'[d] \in {Idle, [client[c] EXCEPT !.pc = "load"]}
    BY <1>18, OtherClients DEF LockReview
  <2>3. c = d => client'[d].pc \in {"idle", "load"}
    BY <1>0, <1>18, <2>2 DEF Client, Idle
  <2> QED
    BY <2>1, <2>3 DEF Pruning
<1>19. ASSUME NEW c \in Clients, LoadManifest(c) PROVE Goal
  <2>1. c # d => client'[d] = client[d]
    BY <1>19, OtherClients DEF LoadManifest
  <2>2. c = d => client'[d] = [client[c] EXCEPT !.pc = "verify", !.plan = Dir(c).manifest,
                  !.todo = {q \in Reviews \ {client[c].review} : dirs[q].exists}]
    BY <1>19, OtherClients DEF LoadManifest
  <2>3. c = d => ~Pruning(d)'
    BY <1>0, <1>19, <2>2 DEF Client, Idle, Pruning
  <2> QED
    BY <2>1, <2>3
<1>20. ASSUME NEW c \in Clients, VerifySibling(c) PROVE Goal
  <2>1. PICK q \in client[c].todo :
          /\ client[c].pc = "verify"
          /\ Becomes(c, [client[c] EXCEPT !.todo = client[c].todo \ {q},
                                          !.seen = client[c].seen \cup ({dirs[q].manifest} \cap Plans)])
    BY <1>20 DEF VerifySibling, At
  <2>2. c # d => client'[d] = client[d]
    BY <2>1, OtherClients
  <2>3. c = d => client'[d] = [client[c] EXCEPT !.todo = client[c].todo \ {q},
                                               !.seen = client[c].seen \cup ({dirs[q].manifest} \cap Plans)]
    BY <2>1, OtherClients
  <2>4. c = d => client'[d].pc = "verify"
    BY <1>0, <2>1, <2>3 DEF Client
  <2> QED
    BY <2>2, <2>4 DEF Pruning
<1>21. ASSUME NEW c \in Clients, UsePlan(c) PROVE Goal
  <2>1. c # d => client'[d] = client[d]
    BY <1>21, OtherClients DEF UsePlan
  <2>2. c = d => client'[d] = [client[c] EXCEPT !.pc = "use", !.seen = {}]
    BY <1>21, OtherClients DEF UsePlan
  <2>3. c = d => ~Pruning(d)'
    BY <1>0, <1>21, <2>2 DEF Client, Idle, Pruning
  <2> QED
    BY <2>1, <2>3
<1>22. ASSUME NEW c \in Clients, EndRead(c) PROVE Goal
  <2>1. c # d => client'[d] = client[d]
    BY <1>22, OtherClients DEF EndRead
  <2>2. c = d => client'[d] = Idle
    BY <1>22, OtherClients DEF EndRead
  <2>3. c = d => ~Pruning(d)'
    BY <1>0, <1>22, <2>2 DEF Client, Idle, Pruning
  <2> QED
    BY <2>1, <2>3
<1>23. ASSUME NEW c \in Clients, Crash(c) PROVE Goal
  <2>1. c # d => client'[d] = client[d]
    BY <1>23, OtherClients DEF Crash
  <2>2. c = d => client'[d] = Idle
    BY <1>23, OtherClients DEF Crash
  <2>3. c = d => ~Pruning(d)'
    BY <1>0, <1>23, <2>2 DEF Client, Idle, Pruning
  <2> QED
    BY <2>1, <2>3
<1>24. ASSUME NEW c \in Clients, NEW v \in client[c].victims, DeleteReview(c, v) PROVE Goal
  <2>1. c = d \/ client'[d] = client[d]
    BY <1>24, OtherClients DEF DeleteReview
  <2> QED
    BY <1>24, <2>1
<1>25. ASSUME NEW c \in Clients, NEW v \in client[c].victims, SkipLocked(c, v) PROVE Goal
  <2>1. c = d \/ client'[d] = client[d]
    BY <1>25, OtherClients DEF SkipLocked
  <2> QED
    BY <1>25, <2>1
<1>26. ASSUME Tick PROVE Goal
  BY <1>26 DEF Tick
<1>27. ASSUME NEW r \in Reviews, Damage(r) PROVE Goal
  BY <1>27 DEF Damage
<1>28. ASSUME UNCHANGED vars PROVE Goal
  BY <1>28 DEF vars
<1> QED
  BY <1>1, <1>2, <1>3, <1>4, <1>5, <1>6, <1>7, <1>8, <1>9, <1>10, <1>11, <1>12, <1>13, <1>14, <1>15, <1>16, <1>17, <1>18, <1>19, <1>20, <1>21, <1>22, <1>23, <1>24, <1>25, <1>26, <1>27, <1>28 DEF Next, PruneStep

(* Manifests appear one at a time: a finite domain stays finite.             *)
LEMMA StepFinite == TypeOK /\ FiniteInv /\ [Next]_vars => FiniteInv'
<1> SUFFICES ASSUME TypeOK, FiniteInv, [Next]_vars PROVE FiniteInv'
  OBVIOUS
<1>1. ASSUME NEW r, Filled' \subseteq Filled \cup {r} PROVE FiniteInv'
  <2>1. IsFiniteSet(Filled \cup {r})
    BY FS_AddElement DEF FiniteInv
  <2> QED
    BY <1>1, <2>1, FS_Subset DEF FiniteInv
<1>2. CASE dirs' = dirs
  BY <1>1, <1>2 DEF Filled
<1>3. ASSUME NEW c \in Clients, Publish(c) PROVE FiniteInv'
  <2>1. Filled' \subseteq Filled \cup {client[c].review}
    BY <1>3 DEF Filled, Publish, TypeOK
  <2> QED
    BY <1>1, <2>1
<1>4. ASSUME NEW c \in Clients, RemoveEntry(c) PROVE FiniteInv'
  <2>1. Filled' \subseteq Filled \cup {client[c].victim}
    BY <1>4 DEF Filled, RemoveEntry, TypeOK
  <2> QED
    BY <1>1, <2>1
<1>5. ASSUME NEW c \in Clients, RemoveDir(c) PROVE FiniteInv'
  <2>1. Filled' \subseteq Filled \cup {client[c].victim}
    BY <1>5 DEF Filled, RemoveDir, TypeOK
  <2> QED
    BY <1>1, <2>1
<1>6. ASSUME NEW r \in Reviews, Damage(r) PROVE FiniteInv'
  <2>1. Filled' \subseteq Filled \cup {r}
    BY <1>6 DEF Filled, Damage, TypeOK
  <2> QED
    BY <1>1, <2>1
<1> QED
  BY <1>2, <1>3, <1>4, <1>5, <1>6, DirsStep DEF Writes

(* While c prunes, only what c has marked loses its manifest or its time.    *)
LEMMA PrunerAlone ==
  ASSUME TypeOK, StoreInv, [Next]_vars, NEW d \in Clients, Pruning(d), DueAll(d)
  PROVE  /\ \A q \in Reviews \ Marked(d) : /\ dirs'[q].created = dirs[q].created
                                           /\ dirs[q].manifest # None => dirs'[q].manifest # None
         /\ \A v \in client[d].victims : dirs'[v] = dirs[v] \/ dirs'[v].created = dirs[v].created
         /\ ~RemoveDir(d) => \A v \in Reviews : dirs'[v].created = dirs[v].created
<1> DEFINE Goal == /\ \A q \in Reviews \ Marked(d) : /\ dirs'[q].created = dirs[q].created
                                                     /\ dirs[q].manifest # None => dirs'[q].manifest # None
                   /\ \A v \in client[d].victims : dirs'[v] = dirs[v] \/ dirs'[v].created = dirs[v].created
                   /\ ~RemoveDir(d) => \A v \in Reviews : dirs'[v].created = dirs[v].created
<1>1. CASE dirs' = dirs
  BY <1>1
<1>2. ASSUME NEW c \in Clients, Writes(c), c # d PROVE FALSE
  <2>1. client[c].pc \in UnderStore
    BY <1>2 DEF Writes, Publish, RemoveEntry, RemoveDir, At, UnderStore
  <2> QED
    BY <1>2, <2>1 DEF StoreInv, HoldsStore, UnderStore, Pruning
<1>3. ~Publish(d)
  BY DEF Publish, At, Pruning
<1>4. CASE RemoveEntry(d)
  <2> DEFINE v == client[d].victim
  <2>1. v \in Reviews /\ v \in Marked(d) /\ v \notin client[d].victims
    BY <1>4 DEF RemoveEntry, At, Marked, InHand, DueAll
  <2>2. \/ dirs' = [dirs EXCEPT ![v].manifest = None]
        \/ dirs' = [dirs EXCEPT ![v].snapshot = FALSE]
    BY <1>4 DEF RemoveEntry
  <2>3. \A q \in Reviews : dirs'[q].created = dirs[q].created /\ (q # v => dirs'[q] = dirs[q])
    BY <2>1, <2>2 DEF TypeOK, Directory
  <2> QED
    BY <2>1, <2>3 DEF DueAll, Marked
<1>5. CASE RemoveDir(d)
  <2> DEFINE v == client[d].victim
  <2>1. v \in Reviews /\ v \in Marked(d) /\ v \notin client[d].victims
    BY <1>5 DEF RemoveDir, At, Marked, InHand, DueAll
  <2>2. \A q \in Reviews : q # v => dirs'[q] = dirs[q]
    BY <1>5, <2>1 DEF RemoveDir, TypeOK
  <2> QED
    BY <1>5, <2>1, <2>2 DEF DueAll, Marked
<1>6. ASSUME NEW r \in Reviews, Damage(r) PROVE Goal
  <2>1. \A q \in Reviews : /\ dirs'[q].created = dirs[q].created
                           /\ dirs'[q] = dirs[q] \/ dirs'[q].manifest = Damaged
    BY <1>6 DEF Damage, TypeOK, Directory
  <2> QED
    BY <2>1, StoreAssumption DEF DueAll, Marked
<1> QED
  BY <1>1, <1>2, <1>3, <1>4, <1>5, <1>6, DirsStep DEF Writes

LEMMA ClockStep == TypeOK /\ [Next]_vars => clock' \in Nat /\ clock <= clock'
<1> SUFFICES ASSUME TypeOK, [Next]_vars PROVE clock' \in Nat /\ clock <= clock'
  OBVIOUS
<1>1. clock \in Nat
  BY StoreAssumption DEF TypeOK
<1>2. clock' = clock \/ Tick
  BY DEF Next, vars, StartSave, StartRead, StartPrune, LockStore, Refuse, Reuse, CreateTemp, ConsumeLease, Publish, PublishFails, ReleaseLease, FinishSave, ListReviews, RemoveEntry, RemoveDir, EndPrune, PruneFails, LockReview, LoadManifest, VerifySibling, UsePlan, EndRead, Crash, DeleteReview, SkipLocked, Damage
<1> QED
  BY <1>1, <1>2 DEF Tick

(* What is due stays due: the plans that outlive it are not marked.          *)
LEMMA DueStays ==
  ASSUME TypeOK, TypeOK', StoreInv, [Next]_vars,
         NEW d \in Clients, Pruning(d), DueAll(d), Marked(d)' \subseteq Marked(d),
         NEW v \in Marked(d)', dirs'[v].created = dirs[v].created
  PROVE  Due(v, Marked(d))'
<1>1. v \in Reviews /\ Due(v, Marked(d))
  BY DEF DueAll
<1>2. dirs[v].created \in Nat /\ clock \in Nat
  BY <1>1, StoreAssumption DEF TypeOK, Directory
<1>3. CASE Expired(v)
  <2>1. Expired(v)'
    BY <1>2, <1>3, ClockStep, StoreAssumption DEF Expired
  <2> QED
    BY <2>1 DEF Due
<1>4. CASE ~Expired(v)
  <2>1. PICK K \in SUBSET (Filled \ Marked(d)) : Suffices(K, v)
    BY <1>1, <1>4 DEF Due
  <2>2. \A q \in K : q \in Reviews \ Marked(d) /\ dirs[q].manifest # None
    BY <2>1 DEF Filled
  <2>3. \A q \in K : dirs'[q].created = dirs[q].created /\ dirs'[q].manifest # None
    BY <2>2, PrunerAlone
  <2>4. K \in SUBSET (Filled' \ Marked(d)')
    BY <2>2, <2>3 DEF Filled
  <2>5. Suffices(K, v)'
    BY <2>1, <2>3 DEF Suffices
  <2> QED
    BY <2>4, <2>5 DEF Due
<1> QED
  BY <1>3, <1>4

\* A set of natural numbers has a least member.
LEMMA Least ==
  ASSUME NEW S \in SUBSET Nat, S # {}
  PROVE  \E i \in S : \A j \in S : i <= j
<1> DEFINE R == {p \in Nat \X Nat : p[1] < p[2]}
<1>1. IsWellFoundedOn(R, Nat)
  BY NatLessThanWellFounded DEF OpToRel
<1> HIDE DEF R
<1>2. PICK i \in S : \A j \in S : ~(<<j, i>> \in R)
  BY <1>1, WFMin
<1>3. ASSUME NEW j \in S PROVE i <= j
  <2>1. i \in Nat /\ j \in Nat /\ ~(<<j, i>> \in R)
    BY <1>2
  <2> QED
    BY <2>1 DEF R
<1> QED
  BY <1>3

(* The order of retention is a strict order, and ranks fall along it.        *)
Ahead(r) == {q \in Reviews : Readable(q) /\ Newer(q, r)}

LEMMA TimesTyped == TypeOK => clock \in Nat /\ \A r \in Reviews : dirs[r].created \in Nat
BY StoreAssumption DEF TypeOK, Directory

LEMMA NewerOrder ==
  ASSUME TypeOK
  PROVE  /\ \A r \in Reviews : ~Newer(r, r)
         /\ \A p, q, r \in Reviews : Newer(p, q) /\ Newer(q, r) => Newer(p, r)
         /\ \A q, r \in Reviews : Newer(q, r) => dirs[q].created >= dirs[r].created
<1>1. \A r \in Reviews : r \in Nat /\ dirs[r].created \in Nat
  BY StoreAssumption, TimesTyped
<1> QED
  BY <1>1 DEF Newer

LEMMA RankFalls ==
  ASSUME TypeOK, FiniteInv, NEW r \in Reviews
  PROVE  /\ Rank(r) = Cardinality(Ahead(r)) /\ Rank(r) \in Nat
         /\ \A q \in Ahead(r) : Rank(q) < Rank(r)
<1>1. ASSUME NEW p \in Reviews
      PROVE  IsFiniteSet(Ahead(p)) /\ Rank(p) = Cardinality(Ahead(p)) /\ Rank(p) \in Nat
  <2>1. Ahead(p) \subseteq Filled
    BY StoreAssumption DEF Ahead, Filled, Readable
  <2>2. IsFiniteSet(Ahead(p))
    BY <2>1, FS_Subset DEF FiniteInv
  <2>3. Rank(p) = Cardinality(Ahead(p))
    BY DEF Rank, Ahead
  <2> QED
    BY <2>2, <2>3, FS_CardinalityType
<1>2. ASSUME NEW q \in Ahead(r) PROVE Rank(q) < Rank(r)
  <2>1. q \in Reviews /\ Newer(q, r)
    BY DEF Ahead
  <2>2. Ahead(q) \subseteq Ahead(r) /\ q \notin Ahead(q)
    BY <2>1, NewerOrder DEF Ahead
  <2>3. Cardinality(Ahead(q)) <= Cardinality(Ahead(r)) /\ Cardinality(Ahead(q)) # Cardinality(Ahead(r))
    BY <1>1, <2>2, FS_Subset
  <2> QED
    BY <1>1, <2>1, <2>3
<1> QED
  BY <1>1, <1>2

(* Retention keeps enough: of the plans it drops for their rank, each has    *)
(* RetentionCount plans at least as new that it does not drop.               *)
LEMMA EnoughKept ==
  ASSUME TypeOK, FiniteInv, NEW v \in Outdated
  PROVE  Due(v, Outdated)
<1> SUFFICES ASSUME ~Expired(v)
             PROVE  \E K \in SUBSET (Filled \ Outdated) : Suffices(K, v)
  BY DEF Due
<1> DEFINE C == {r \in Reviews : (r = v \/ Newer(r, v)) /\ Rank(r) >= RetentionCount}
           N == {Rank(r) : r \in C}
<1>1. v \in C
  BY DEF Outdated, Expired
<1>2. N \in SUBSET Nat /\ N # {}
  BY <1>1, RankFalls
<1>3. PICK n \in N : \A m \in N : n <= m
  BY <1>2, Least
<1>4. PICK r \in C : Rank(r) = n
  BY <1>3
<1>5. Suffices(Ahead(r), v)
  <2>1. Cardinality(Ahead(r)) >= RetentionCount
    BY <1>4, RankFalls
  <2>2. \A q \in Ahead(r) : Newer(q, v)
    BY <1>1, <1>4, NewerOrder DEF Ahead
  <2> QED
    BY <1>1, <2>1, <2>2, NewerOrder DEF Suffices, Ahead
<1>6. ASSUME NEW q \in Ahead(r) PROVE q \in Filled \ Outdated
  <2>1. q \in Reviews /\ Readable(q) /\ Newer(q, v)
    BY <1>1, <1>4, NewerOrder DEF Ahead
  <2>2. Rank(q) < n /\ Rank(q) \in Nat /\ n \in Nat
    BY <1>4, <2>1, RankFalls
  <2>3. ~(Rank(q) >= RetentionCount)
    <3>1. SUFFICES ASSUME Rank(q) >= RetentionCount PROVE FALSE
      OBVIOUS
    <3>2. q \in C
      BY <2>1, <3>1
    <3>3. n <= Rank(q)
      BY <1>3, <3>2
    <3> QED
      BY <2>2, <3>3
  <2>4. ~(dirs[q].created + RetentionAge < clock)
    <3>1. dirs[q].created >= dirs[v].created
      BY <1>1, <2>1, NewerOrder
    <3>2. dirs[q].created \in Nat /\ dirs[v].created \in Nat /\ clock \in Nat
      BY <1>1, <2>1, TimesTyped
    <3> QED
      BY <3>1, <3>2, StoreAssumption DEF Expired
  <2> QED
    BY <2>1, <2>3, <2>4, StoreAssumption DEF Filled, Readable, Outdated
<1> QED
  BY <1>5, <1>6

LEMMA StepRetention ==
  TypeOK /\ TypeOK' /\ StoreInv /\ FiniteInv /\ RetentionInv /\ [Next]_vars => RetentionInv'
<1> SUFFICES ASSUME TypeOK, TypeOK', StoreInv, FiniteInv, RetentionInv, [Next]_vars,
                    NEW d \in Clients, Pruning(d)'
             PROVE  /\ Marked(d)' \subseteq Reviews
                    /\ client'[d].victims \cap InHand(d)' = {}
                    /\ \A v \in Marked(d)' : Due(v, Marked(d))'
  BY DEF RetentionInv, DueAll
<1>0. DueAll(d) /\ client[d] \in Client
  BY DEF RetentionInv, TypeOK
<1>1. ASSUME Pruning(d), Marked(d)' \subseteq Marked(d), ~RemoveDir(d)
      PROVE  \A v \in Marked(d)' : Due(v, Marked(d))'
  <2> TAKE v \in Marked(d)'
  <2>1. v \in Reviews
    BY <1>0, <1>1 DEF DueAll
  <2>2. dirs'[v].created = dirs[v].created
    BY <1>0, <1>1, <2>1, PrunerAlone
  <2> QED
    BY <1>0, <1>1, <2>2, DueStays
<1>2. CASE client'[d] = client[d]
  <2>1. Pruning(d) /\ Marked(d)' = Marked(d) /\ InHand(d)' = InHand(d)
    BY <1>2 DEF Pruning, Marked, InHand
  <2>2. ~RemoveDir(d)
    <3>1. ASSUME RemoveDir(d) PROVE FALSE
      <4>1. client'[d] = [client[d] EXCEPT !.pc = "prune", !.victim = None]
        BY <3>1, OtherClients DEF RemoveDir
      <4>2. client'[d].pc = "prune" /\ client[d].pc = "remove"
        BY <1>0, <3>1, <4>1 DEF RemoveDir, At, Client
      <4> QED
        BY <1>2, <4>2
    <3> QED
      BY <3>1
  <2>3. \A v \in Marked(d)' : Due(v, Marked(d))'
    BY <1>1, <2>1, <2>2
  <2> QED
    BY <1>0, <1>2, <2>1, <2>3 DEF DueAll
<1>3. CASE ListReviews(d)
  <2>1. client'[d] = [client[d] EXCEPT !.pc = "prune", !.victims = Outdated]
    BY <1>3, OtherClients DEF ListReviews
  <2>2. client'[d].pc = "prune" /\ client'[d].victims = Outdated
    BY <1>0, <2>1 DEF Client
  <2>3. InHand(d)' = {} /\ Marked(d)' = Outdated
    BY <2>2 DEF InHand, Marked
  <2>4. UNCHANGED <<dirs, clock>>
    BY <1>3 DEF ListReviews
  <2>5. ASSUME NEW v \in Outdated PROVE Due(v, Marked(d))'
    <3>1. Due(v, Outdated)
      BY EnoughKept
    <3> QED
      BY <2>3, <2>4, <3>1 DEF Due, Expired, Suffices, Filled
  <2>6. Outdated \subseteq Reviews
    BY DEF Outdated
  <2> QED
    BY <2>3, <2>5, <2>6
<1>4. ASSUME NEW v \in client[d].victims, DeleteReview(d, v)
      PROVE  /\ Marked(d)' \subseteq Marked(d) /\ Pruning(d) /\ ~RemoveDir(d)
             /\ client'[d].victims \cap InHand(d)' = {}
  <2>1. client'[d] = [client[d] EXCEPT !.pc = "remove", !.victim = v, !.victims = client[d].victims \ {v}]
    BY <1>4, OtherClients DEF DeleteReview
  <2>2. client'[d].pc = "remove" /\ client'[d].victim = v /\ client'[d].victims = client[d].victims \ {v}
    BY <1>0, <2>1 DEF Client
  <2>3. client[d].pc = "prune"
    BY <1>4 DEF DeleteReview, At
  <2> QED
    BY <1>4, <2>2, <2>3 DEF Marked, InHand, Pruning, RemoveDir, At
<1>5. ASSUME NEW v \in client[d].victims, SkipLocked(d, v)
      PROVE  /\ Marked(d)' \subseteq Marked(d) /\ Pruning(d) /\ ~RemoveDir(d)
             /\ client'[d].victims \cap InHand(d)' = {}
  <2>1. client'[d] = [client[d] EXCEPT !.victims = client[d].victims \ {v}, !.skipped = TRUE]
    BY <1>5, OtherClients DEF SkipLocked
  <2>2. client[d].pc = "prune"
    BY <1>5 DEF SkipLocked, At
  <2>3. client'[d].pc = "prune" /\ client'[d].victims = client[d].victims \ {v}
    BY <1>0, <2>1, <2>2 DEF Client
  <2> QED
    BY <2>2, <2>3 DEF Marked, InHand, Pruning, RemoveDir, At
<1>6. CASE RemoveDir(d)
  <2>1. client'[d] = [client[d] EXCEPT !.pc = "prune", !.victim = None]
    BY <1>6, OtherClients DEF RemoveDir
  <2>2. client'[d].pc = "prune" /\ client'[d].victims = client[d].victims
    BY <1>0, <2>1 DEF Client
  <2>3. Pruning(d)
    BY <1>6 DEF RemoveDir, At, Pruning
  <2>4. Marked(d)' = client[d].victims /\ InHand(d)' = {} /\ Marked(d)' \subseteq Marked(d)
    BY <2>2 DEF Marked, InHand
  <2>5. \A v \in client[d].victims : dirs'[v].created = dirs[v].created
    BY <1>0, <2>3, PrunerAlone
  <2>6. \A v \in Marked(d)' : Due(v, Marked(d))'
    BY <1>0, <2>3, <2>4, <2>5, DueStays
  <2> QED
    BY <1>0, <2>3, <2>4, <2>6 DEF DueAll
<1>7. PruneStep(d)
  BY PruneSteps
<1>8. Pruning(d) => Marked(d) \subseteq Reviews
  BY <1>0 DEF DueAll
<1> QED
  BY <1>1, <1>2, <1>3, <1>4, <1>5, <1>6, <1>7, <1>8 DEF PruneStep

RetainedInv == IInv /\ FiniteInv /\ RetentionInv

LEMMA SpecRetained == Spec => []RetainedInv
<1>1. Init => RetainedInv
  <2> SUFFICES ASSUME Init PROVE FiniteInv /\ RetentionInv
    BY InitIInv DEF RetainedInv
  <2>1. Filled = {}
    BY DEF Init, Filled, Absent
  <2>2. \A c \in Clients : ~Pruning(c)
    BY DEF Init, Idle, Pruning
  <2> QED
    BY <2>1, <2>2, FS_EmptySet DEF FiniteInv, RetentionInv, DueAll
<1>2. RetainedInv /\ [Next]_vars => RetainedInv'
  BY StepIInv, StepFinite, StepRetention DEF RetainedInv, IInv
<1> QED
  BY <1>1, <1>2, PTL DEF Spec

(* The step that removes a readable manifest is the pruner's.                *)
LEMMA DeletionDue ==
  ASSUME RetainedInv, [Next]_vars, NEW r \in Reviews, Readable(r), dirs'[r].manifest = None
  PROVE  \/ dirs[r].created + RetentionAge < clock
         \/ Cardinality({q \in Reviews \ {r} : /\ dirs[q].manifest # None
                                                /\ dirs[q].created >= dirs[r].created}) >= RetentionCount
<1> USE DEF RetainedInv, IInv
<1>1. PICK d \in Clients : RemoveEntry(d) /\ client[d].victim = r
  <2>1. dirs[r].manifest # None /\ dirs[r].manifest \in Plans
    BY StoreAssumption DEF Readable
  <2>2. dirs' # dirs
    BY <2>1
  <2>3. ASSUME NEW c \in Clients, Publish(c) PROVE FALSE
    <3>1. r = client[c].review \/ dirs'[r] = dirs[r]
      BY <2>3 DEF Publish, TypeOK
    <3>2. r = client[c].review
      BY <2>1, <3>1
    <3> QED
      BY <2>1, <2>3, <3>2 DEF Publish, Empty, Dir
  <2>4. ASSUME NEW c \in Clients, RemoveDir(c) PROVE FALSE
    <3>1. r = client[c].victim \/ dirs'[r] = dirs[r]
      BY <2>4 DEF RemoveDir, TypeOK
    <3> QED
      BY <2>1, <2>4, <3>1 DEF RemoveDir, Empty
  <2>5. ASSUME NEW q \in Reviews, Damage(q) PROVE FALSE
    BY <2>1, <2>5, StoreAssumption DEF Damage, TypeOK, Directory
  <2>6. ASSUME NEW c \in Clients, RemoveEntry(c), client[c].victim # r PROVE FALSE
    <3>1. dirs'[r] = dirs[r]
      BY <2>6 DEF RemoveEntry, TypeOK
    <3> QED
      BY <2>1, <3>1
  <2> QED
    BY <2>2, <2>3, <2>4, <2>5, <2>6, DirsStep DEF Writes
<1>2. r \in Marked(d) /\ Due(r, Marked(d))
  BY <1>1 DEF RemoveEntry, At, Marked, InHand, RetentionInv, DueAll, Pruning
<1>3. CASE ~Expired(r)
  <2> DEFINE Newest == {q \in Reviews \ {r} : dirs[q].manifest # None /\ dirs[q].created >= dirs[r].created}
  <2>1. PICK K \in SUBSET (Filled \ Marked(d)) : Suffices(K, r)
    BY <1>2, <1>3 DEF Due
  <2>2. K \subseteq Newest /\ Newest \subseteq Filled
    BY <1>2, <2>1 DEF Suffices, Filled
  <2>3. IsFiniteSet(Newest) /\ Cardinality(K) <= Cardinality(Newest)
    BY <2>2, FS_Subset DEF FiniteInv
  <2>4. IsFiniteSet(K)
    BY <2>2, <2>3, FS_Subset
  <2>5. Cardinality(Newest) \in Nat /\ Cardinality(K) \in Nat /\ Cardinality(K) >= RetentionCount
    BY <2>1, <2>3, <2>4, FS_CardinalityType DEF Suffices
  <2> QED
    BY <2>3, <2>5, StoreAssumption
<1> QED
  BY <1>3 DEF Expired

(* Retention deletes a plan only when it is past the age or RetentionCount   *)
(* other plans at least as new are still there, whatever saves, prunings,    *)
(* damages and crashes interleave: pruneLocked sorts once and removes one    *)
(* review after another, and no removal makes a later one wrong.             *)
THEOREM ExpiryOnly == Spec => OnlyExpiredDeleted
<1>1. RetainedInv /\ [Next]_vars =>
        [\A r \in Reviews :
           Readable(r) /\ dirs'[r].manifest = None =>
             \/ dirs[r].created + RetentionAge < clock
             \/ Cardinality({q \in Reviews \ {r} : /\ dirs[q].manifest # None
                                                    /\ dirs[q].created >= dirs[r].created}) >= RetentionCount]_vars
  BY DeletionDue
<1> QED
  BY <1>1, SpecRetained, PTL DEF Spec, OnlyExpiredDeleted
=============================================================================
