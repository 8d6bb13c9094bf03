----------------------------- MODULE PlanStore -----------------------------
(***************************************************************************)
(* The store of review plans below the Git common directory                *)
(* (internal/review/persist.go), which every linked worktree and process   *)
(* shares.  Clients save plans, read plans they hold by a review lock, and *)
(* prune; the disk is a directory per review.                              *)
(*                                                                         *)
(* A plan stands for its full identity digest.  ReviewOf is its public     *)
(* review id, a prefix of the digest that two plans may share; Clash holds *)
(* the pairs of plans whose public content ids collide.  A crashed client  *)
(* leaves its lease and its temporary directory behind: no operation ever  *)
(* looks at them again, so the model forgets them.                         *)
(***************************************************************************)
EXTENDS Naturals, FiniteSets

CONSTANTS Clients,         \* processes and goroutines that use the store
          Plans, Reviews,  \* reviews are numbers: retention breaks ties by id
          ReviewOf,        \* [Plans -> Reviews]
          Clash,           \* sets of two plans with colliding content ids
          Stripes, StripeOf,
          RetentionAge, RetentionCount,
          MaxTime, MaxCalls, MaxDamage,  \* bounds of the runs
          None, Damaged

ASSUME StoreAssumption ==
  /\ Reviews \subseteq Nat
  /\ ReviewOf \in [Plans -> Reviews]
  /\ StripeOf \in [Reviews -> Stripes]
  /\ RetentionCount \in Nat /\ RetentionAge \in Nat
  /\ MaxTime \in Nat /\ MaxCalls \in Nat /\ MaxDamage \in Nat
  /\ {None, Damaged} \cap Plans = {} /\ None # Damaged
  /\ None \notin Clients /\ None \notin Reviews
  /\ {} \notin Clash

VARIABLES dirs,        \* the review directories
          storeLock,   \* the holder of prowl/.lock
          stripeLock,  \* the holders of the striped review locks
          clock, damages, calls,
          client       \* what each client is doing

vars == <<dirs, storeLock, stripeLock, clock, damages, calls, client>>

Directory == [exists : BOOLEAN, manifest : Plans \cup {None, Damaged},
              created : 0..MaxTime, snapshot : BOOLEAN]
Absent == [exists |-> FALSE, manifest |-> None, created |-> 0, snapshot |-> FALSE]

Draft(p) == [exists |-> TRUE, manifest |-> p, created |-> clock, snapshot |-> FALSE]

Steps == {"idle", "store", "check", "lease", "publish", "list", "prune", "remove",
          "saved", "pruned", "failed", "stripe", "load", "verify", "use"}
Client == [pc : Steps, plan : Plans \cup {None}, review : Reviews \cup {None},
           lease : {"none", "filled", "moved", "released"}, tmp : Directory,
           victims : SUBSET Reviews, victim : Reviews \cup {None}, skipped : BOOLEAN,
           seen : SUBSET Plans, todo : SUBSET Reviews]
Idle == [pc |-> "idle", plan |-> None, review |-> None, lease |-> "none", tmp |-> Absent,
         victims |-> {}, victim |-> None, skipped |-> FALSE, seen |-> {}, todo |-> {}]

Init ==
  /\ dirs = [r \in Reviews |-> Absent]
  /\ storeLock = None
  /\ stripeLock = [s \in Stripes |-> None]
  /\ clock = 0 /\ damages = 0 /\ calls = 0
  /\ client = [c \in Clients |-> Idle]

At(c, pc) == client[c].pc = pc
Dir(c) == dirs[client[c].review]
Readable(r) == dirs[r].manifest \in Plans
Empty(d) == d.manifest = None /\ ~d.snapshot

(* Client c becomes the record k. *)
Becomes(c, k) == client' = [client EXCEPT ![c] = k]

(* The locks c holds, given back. *)
Unlocked(c) ==
  /\ storeLock' = IF storeLock = c THEN None ELSE storeLock
  /\ stripeLock' = [s \in Stripes |-> IF stripeLock[s] = c THEN None ELSE stripeLock[s]]

(* The collision registry accepts a set of plans. *)
Consistent(P) == \A pair \in Clash : ~(pair \subseteq P)
Siblings(r) == {dirs[q].manifest : q \in {q \in Reviews \ {r} : Readable(q)}}
-----------------------------------------------------------------------------
(* Save *)

(* The caller has leased a snapshot directory and filled it. *)
StartSave(c, p) ==
  /\ At(c, "idle") /\ calls < MaxCalls
  /\ Becomes(c, [Idle EXCEPT !.pc = "store", !.plan = p, !.review = ReviewOf[p], !.lease = "filled"])
  /\ calls' = calls + 1
  /\ UNCHANGED <<dirs, storeLock, stripeLock, clock, damages>>

StartPrune(c) ==
  /\ At(c, "idle") /\ calls < MaxCalls
  /\ Becomes(c, [client[c] EXCEPT !.pc = "store"])
  /\ calls' = calls + 1
  /\ UNCHANGED <<dirs, storeLock, stripeLock, clock, damages>>

(* Mutant of LockStore: the lock file is taken in shared mode. *)
LockStoreShared(c) ==
  /\ At(c, "store")
  /\ storeLock' = c
  /\ Becomes(c, [client[c] EXCEPT !.pc = IF client[c].plan = None THEN "list" ELSE "check"])
  /\ UNCHANGED <<dirs, stripeLock, clock, damages, calls>>

LockStore(c) ==
  /\ At(c, "store") /\ storeLock = None
  /\ storeLock' = c
  /\ Becomes(c, [client[c] EXCEPT !.pc = IF client[c].plan = None THEN "list" ELSE "check"])
  /\ UNCHANGED <<dirs, stripeLock, clock, damages, calls>>

(* Any refusal before something was written: the lock timed out, the        *)
(* manifest is damaged or belongs to another plan, the registry collides,   *)
(* an I/O error.                                                            *)
Refuse(c) ==
  /\ client[c].pc \in {"store", "check"}
  /\ Becomes(c, [client[c] EXCEPT !.pc = "failed"])
  /\ Unlocked(c)
  /\ UNCHANGED <<dirs, clock, damages, calls>>

(* The identical plan is there: the incoming lease is deleted. *)
Reuse(c) ==
  /\ At(c, "check") /\ Dir(c).manifest = client[c].plan
  /\ Consistent(Siblings(client[c].review) \cup {client[c].plan})
  /\ Becomes(c, [client[c] EXCEPT !.pc = "saved", !.lease = "released"])
  /\ UNCHANGED <<dirs, storeLock, stripeLock, clock, damages, calls>>

CreateTemp(c) ==
  /\ At(c, "check") /\ Dir(c).manifest = None
  /\ Consistent(Siblings(client[c].review) \cup {client[c].plan})
  /\ Becomes(c, [client[c] EXCEPT !.pc = "lease", !.tmp = Draft(client[c].plan)])
  /\ UNCHANGED <<dirs, storeLock, stripeLock, clock, damages, calls>>

ConsumeLease(c) ==
  /\ At(c, "lease")
  /\ Becomes(c, [client[c] EXCEPT !.pc = "publish", !.lease = "moved", !.tmp = [client[c].tmp EXCEPT !.snapshot = TRUE]])
  /\ UNCHANGED <<dirs, storeLock, stripeLock, clock, damages, calls>>

(* The rename replaces a missing or an empty directory and no other. *)
Publish(c) ==
  /\ At(c, "publish") /\ Empty(Dir(c))
  /\ dirs' = [dirs EXCEPT ![client[c].review] = client[c].tmp]
  /\ Becomes(c, [client[c] EXCEPT !.pc = "list", !.tmp = Absent])
  /\ UNCHANGED <<storeLock, stripeLock, clock, damages, calls>>

(* The temporary tree is removed whether or not the snapshot left it. *)
(* Mutant of PublishFails: the moved snapshot is not given back. *)
PublishFailsForgetful(c) ==
  /\ client[c].pc \in {"lease", "publish"}
  /\ \/ Becomes(c, [client[c] EXCEPT !.pc = "failed", !.lease = "filled", !.tmp = Absent])
     \/ client[c].tmp.snapshot /\ Becomes(c, [client[c] EXCEPT !.pc = "failed", !.tmp = Absent])
  /\ Unlocked(c)
  /\ UNCHANGED <<dirs, clock, damages, calls>>

(* The lease is restored and the temporary tree removed; when the restore   *)
(* fails too, the tree keeps the only copy of the snapshot.                 *)
PublishFails(c) ==
  /\ client[c].pc \in {"lease", "publish"}
  /\ \/ Becomes(c, [client[c] EXCEPT !.pc = "failed", !.lease = "filled", !.tmp = Absent])
     \/ client[c].tmp.snapshot /\ Becomes(c, [client[c] EXCEPT !.pc = "failed"])
  /\ Unlocked(c)
  /\ UNCHANGED <<dirs, clock, damages, calls>>

(* The caller of a failed Save releases its lease. *)
ReleaseLease(c) ==
  /\ At(c, "failed")
  /\ Becomes(c, Idle)
  /\ UNCHANGED <<dirs, storeLock, stripeLock, clock, damages, calls>>

FinishSave(c) ==
  /\ client[c].pc \in {"saved", "pruned"}
  /\ Becomes(c, Idle)
  /\ Unlocked(c)
  /\ UNCHANGED <<dirs, clock, damages, calls>>
-----------------------------------------------------------------------------
(* Retention, under the store lock *)

(* Mutant of Newer: the oldest plans are kept. *)
NewerReversed(q, r) == dirs[q].created < dirs[r].created \/ (dirs[q].created = dirs[r].created /\ q < r)
(* The order of retention: creation time, then id. *)
Newer(q, r) == dirs[q].created > dirs[r].created \/ (dirs[q].created = dirs[r].created /\ q < r)
Rank(r) == Cardinality({q \in Reviews : Readable(q) /\ Newer(q, r)})
IsNewest(v, V) == v \in V /\ \A w \in V \ {v} : Newer(v, w)

Outdated == {r \in Reviews : /\ Readable(r)
                             /\ dirs[r].created + RetentionAge < clock \/ Rank(r) >= RetentionCount}

(* The manifests are read and sorted; what is unreadable is left alone. *)
ListReviews(c) ==
  /\ At(c, "list")
  /\ Becomes(c, [client[c] EXCEPT !.pc = "prune", !.victims = Outdated])
  /\ UNCHANGED <<dirs, storeLock, stripeLock, clock, damages, calls>>

(* Mutant of DeleteReview: the stripe is not tried. *)
DeleteReviewUnlocked(c, v) ==
  /\ At(c, "prune") /\ IsNewest(v, client[c].victims)
  /\ Becomes(c, [client[c] EXCEPT !.pc = "remove", !.victim = v, !.victims = client[c].victims \ {v}])
  /\ stripeLock' = [stripeLock EXCEPT ![StripeOf[v]] = c]
  /\ UNCHANGED <<dirs, storeLock, clock, damages, calls>>

(* TryLock, and the review is removed while its stripe is held. *)
DeleteReview(c, v) ==
  /\ At(c, "prune") /\ IsNewest(v, client[c].victims)
  /\ stripeLock[StripeOf[v]] = None
  /\ Becomes(c, [client[c] EXCEPT !.pc = "remove", !.victim = v, !.victims = client[c].victims \ {v}])
  /\ stripeLock' = [stripeLock EXCEPT ![StripeOf[v]] = c]
  /\ UNCHANGED <<dirs, storeLock, clock, damages, calls>>

SkipLocked(c, v) ==
  /\ At(c, "prune") /\ IsNewest(v, client[c].victims)
  /\ stripeLock[StripeOf[v]] # None
  /\ Becomes(c, [client[c] EXCEPT !.victims = client[c].victims \ {v}, !.skipped = TRUE])
  /\ UNCHANGED <<dirs, storeLock, stripeLock, clock, damages, calls>>

(* RemoveAll unlinks the entries in the order the directory lists them. *)
RemoveEntry(c) ==
  LET v == client[c].victim IN
  /\ At(c, "remove")
  /\ \/ dirs[v].manifest # None /\ dirs' = [dirs EXCEPT ![v].manifest = None]
     \/ dirs[v].snapshot /\ dirs' = [dirs EXCEPT ![v].snapshot = FALSE]
  /\ UNCHANGED <<storeLock, stripeLock, clock, damages, calls, client>>

RemoveDir(c) ==
  LET v == client[c].victim IN
  /\ At(c, "remove") /\ Empty(dirs[v])
  /\ dirs' = [dirs EXCEPT ![v] = Absent]
  /\ stripeLock' = [stripeLock EXCEPT ![StripeOf[v]] = None]
  /\ Becomes(c, [client[c] EXCEPT !.pc = "prune", !.victim = None])
  /\ UNCHANGED <<storeLock, clock, damages, calls>>

EndPrune(c) ==
  /\ At(c, "prune") /\ client[c].victims = {}
  /\ Becomes(c, [client[c] EXCEPT !.pc = "pruned"])
  /\ UNCHANGED <<dirs, storeLock, stripeLock, clock, damages, calls>>

(* An error or a cancelled context ends the pruning; it is only a warning. *)
PruneFails(c) ==
  /\ client[c].pc \in {"list", "prune", "remove"}
  /\ Becomes(c, [client[c] EXCEPT !.pc = "saved", !.victims = {}, !.victim = None])
  /\ stripeLock' = [s \in Stripes |-> IF stripeLock[s] = c THEN None ELSE stripeLock[s]]
  /\ UNCHANGED <<dirs, storeLock, clock, damages, calls>>
-----------------------------------------------------------------------------
(* Readers: LockReview, Load and the use of the loaded plan *)

StartRead(c, r) ==
  /\ At(c, "idle") /\ calls < MaxCalls
  /\ Becomes(c, [client[c] EXCEPT !.pc = "stripe", !.review = r])
  /\ calls' = calls + 1
  /\ UNCHANGED <<dirs, storeLock, stripeLock, clock, damages>>

(* The lock comes first and the existence check second. *)
LockReview(c) ==
  LET s == StripeOf[client[c].review] IN
  /\ At(c, "stripe") /\ stripeLock[s] = None
  /\ IF Dir(c).exists
       THEN /\ stripeLock' = [stripeLock EXCEPT ![s] = c]
            /\ Becomes(c, [client[c] EXCEPT !.pc = "load"])
       ELSE /\ Becomes(c, Idle)
            /\ UNCHANGED stripeLock
  /\ UNCHANGED <<dirs, storeLock, clock, damages, calls>>

LoadManifest(c) ==
  /\ At(c, "load") /\ Dir(c).manifest \in Plans
  /\ Becomes(c, [client[c] EXCEPT !.pc = "verify", !.plan = Dir(c).manifest,
                  !.todo = {q \in Reviews \ {client[c].review} : dirs[q].exists}])
  /\ UNCHANGED <<dirs, storeLock, stripeLock, clock, damages, calls>>

(* Mutant of VerifySibling: an unreadable manifest enters the registry. *)
VerifySiblingUnread(c) ==
  \E q \in client[c].todo :
    /\ At(c, "verify")
    /\ Consistent(client[c].seen \cup {dirs[q].manifest})
    /\ Becomes(c, [client[c] EXCEPT !.todo = client[c].todo \ {q},
                                    !.seen = client[c].seen \cup {dirs[q].manifest}])
    /\ UNCHANGED <<dirs, storeLock, stripeLock, clock, damages, calls>>

(* The siblings are read one by one and without the store lock; one that    *)
(* cannot be read is skipped.                                               *)
VerifySibling(c) ==
  \E q \in client[c].todo :
    LET found == client[c].seen \cup ({dirs[q].manifest} \cap Plans) IN
    /\ At(c, "verify") /\ Consistent(found)
    /\ Becomes(c, [client[c] EXCEPT !.todo = client[c].todo \ {q}, !.seen = found])
    /\ UNCHANGED <<dirs, storeLock, stripeLock, clock, damages, calls>>

UsePlan(c) ==
  /\ At(c, "verify") /\ client[c].todo = {}
  /\ Consistent(client[c].seen \cup {client[c].plan})
  /\ Becomes(c, [client[c] EXCEPT !.pc = "use", !.seen = {}])
  /\ UNCHANGED <<dirs, storeLock, stripeLock, clock, damages, calls>>

(* The plan has been used, or something failed: the lock is released. *)
EndRead(c) ==
  /\ client[c].pc \in {"stripe", "load", "verify", "use"}
  /\ Becomes(c, Idle)
  /\ Unlocked(c)
  /\ UNCHANGED <<dirs, clock, damages, calls>>
-----------------------------------------------------------------------------
(* The environment *)

Crash(c) ==
  /\ ~At(c, "idle")
  /\ Becomes(c, Idle)
  /\ Unlocked(c)
  /\ UNCHANGED <<dirs, clock, damages, calls>>

Tick ==
  /\ clock < MaxTime /\ clock' = clock + 1
  /\ UNCHANGED <<dirs, storeLock, stripeLock, damages, calls, client>>

Damage(r) ==
  /\ Readable(r) /\ damages < MaxDamage
  /\ dirs' = [dirs EXCEPT ![r].manifest = Damaged]
  /\ damages' = damages + 1
  /\ UNCHANGED <<storeLock, stripeLock, clock, calls, client>>

Next ==
  \/ \E c \in Clients :
       \/ \E p \in Plans : StartSave(c, p)
       \/ \E r \in Reviews : StartRead(c, r)
       \/ StartPrune(c) \/ LockStore(c) \/ Refuse(c) \/ Reuse(c) \/ CreateTemp(c)
       \/ ConsumeLease(c) \/ Publish(c) \/ PublishFails(c) \/ ReleaseLease(c) \/ FinishSave(c)
       \/ \E v \in client[c].victims : DeleteReview(c, v) \/ SkipLocked(c, v)
       \/ ListReviews(c) \/ RemoveEntry(c) \/ RemoveDir(c)
       \/ EndPrune(c) \/ PruneFails(c)
       \/ LockReview(c) \/ LoadManifest(c) \/ VerifySibling(c) \/ UsePlan(c) \/ EndRead(c)
       \/ Crash(c)
  \/ Tick
  \/ \E r \in Reviews : Damage(r)

Spec == Init /\ [][Next]_vars
-----------------------------------------------------------------------------
(* Every variable has its type; a lock has one of the clients as a holder.  *)
(* A reader's registry holds plans only, never the mark of a manifest that  *)
(* buildDomainRegistry could not read.                                      *)
TypeOK ==
  /\ dirs \in [Reviews -> Directory]
  /\ storeLock \in Clients \cup {None}
  /\ stripeLock \in [Stripes -> Clients \cup {None}]
  /\ clock \in 0..MaxTime /\ damages \in 0..MaxDamage /\ calls \in 0..MaxCalls
  /\ client \in [Clients -> Client]

(* While a caller uses a plan it loaded under LockReview, no pruning, in    *)
(* this or another process, removes the plan and no Save replaces it.       *)
LoadedPlanKept ==
  \A c \in Clients : At(c, "use") => Dir(c).manifest \in {client[c].plan, Damaged}

(* publish: after a failed Save the snapshot is in the caller's lease, or,  *)
(* when moving it back failed too, in the temporary tree that is kept.      *)
SoleSnapshotKept ==
  \A c \in Clients : At(c, "failed") /\ client[c].plan # None =>
    (client[c].lease = "filled") # client[c].tmp.snapshot

(* Save admits a plan only if no public content id of it means something    *)
(* else in a readable plan of any worktree: the domain stays free of        *)
(* collisions although savers, pruners and readers interleave.              *)
NoCollision == Consistent({dirs[r].manifest : r \in {r \in Reviews : Readable(r)}})

(* pruneLocked removes a plan only when it is past the retention age or     *)
(* RetentionCount other plans are at least as new.                          *)
OnlyExpiredDeleted ==
  [][\A r \in Reviews :
       Readable(r) /\ dirs'[r].manifest = None =>
         \/ dirs[r].created + RetentionAge < clock
         \/ Cardinality({q \in Reviews \ {r} : /\ dirs[q].manifest # None
                                                /\ dirs[q].created >= dirs[r].created}) >= RetentionCount]_vars

=============================================================================
