\* The store: two clients, three calls in all, a clock of two ticks and one damaged
\* manifest.  The planner: one plan and one use of it, two edits.
\* The reports: diffs of three files, one slip of the reviewer.
CONSTANTS
  Clients = {c1, c2}
  Plans = {p1, p2, p3, p4}
  Reviews = {1, 2, 3}
  Stripes = {s1, s2}
  p1 = p1
  p2 = p2
  p3 = p3
  p4 = p4
  s1 = s1
  s2 = s2
  ReviewOf <- MCReviewOf
  Clash <- MCClash
  StripeOf <- MCStripeOf
  RetentionAge = 1
  RetentionCount = 1
  MaxTime = 2
  MaxCalls = 3
  MaxDamage = 1
  None = None
  Damaged = Damaged
  h1 = h1
  h2 = h2
  Gone = Gone
  Null = Null
  Files = {1, 2, 3}
  Walked = {1, 2}
  Texts = {0, 1}
  Commits = {h1, h2}
  Tree <- MCTree
  Beginnings <- MCBeginnings
  MaxEdits = 2
  MaxPlans = 1
  MaxUses = 1
  MaxFiles = 3
  MaxSlips = 1
SPECIFICATION ReviewSpec
SYMMETRY Symmetry
CHECK_DEADLOCK FALSE
INVARIANTS LoadedPlanKept SoleSnapshotKept NoCollision PlanIsOneInstant ReviewCovers CaptureExact
PROPERTIES OnlyExpiredDeleted UseIsCurrent
