\* Committed plans while an editor acts twice; the store is at rest.
CONSTANTS
  Clients = {c1}
  Plans = {p1, p2, p3, p4}
  Reviews = {1, 2, 3}
  Stripes = {s1, s2}
  p1 = p1
  p2 = p2
  p3 = p3
  p4 = p4
  s1 = s1
  s2 = s2
  ReviewOf <- MCReviewOf
  Clash <- MCClash
  StripeOf <- MCStripeOf
  RetentionAge = 1
  RetentionCount = 1
  MaxTime = 2
  MaxCalls = 0
  MaxDamage = 0
  None = None
  Damaged = Damaged
  h1 = h1
  h2 = h2
  Gone = Gone
  Null = Null
  Files = {1, 2, 3}
  Walked = {1, 2}
  Texts = {0, 1}
  Commits = {h1, h2}
  Tree <- MCTree
  Beginnings <- MCBeginnings
  MaxEdits = 2
  MaxPlans = 1
  MaxUses = 0
  MaxFiles = 1
  MaxSlips = 0
SPECIFICATION ReviewSpec
SYMMETRY Symmetry
CHECK_DEADLOCK FALSE
INVARIANT RowsOfHead
