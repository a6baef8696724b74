\* One request at a time.
SPECIFICATION Spec
CONSTANTS
  b1 = b1
  b2 = b2
  c1 = c1
  c2 = c2
  c3 = c3
  p1 = p1
  u1 = u1
  u2 = u2
  w1 = w1
  w2 = w2
  d = d
  BoardIds = {b1, b2}
  ColumnIds = {c1, c2, c3, c4, c5}
  ProcessIds = {p1}
  Users = {u1}
  Kinds = {"applied", "hr_screen", "technical", "custom"}
  Applied = "applied"
  DefaultKinds <- MCAllDefaultKinds
  Details = {d}
  Orders <- MCOrders
  MaxSort = 2
  Workers = {w1}
  Workload <- MCColumns
  Seed <- MCBoards
  None = None
  Unset = Unset
INVARIANT BackfillsLegacyBoards
