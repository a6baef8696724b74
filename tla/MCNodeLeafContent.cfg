\* A create and an upsert at a time.
SPECIFICATION Spec
CONSTANTS
  n1 = n1
  n2 = n2
  n3 = n3
  u1 = u1
  u2 = u2
  a = a
  b = b
  en = en
  ru = ru
  w1 = w1
  w2 = w2
  NodeIds = {n1, n2, n3}
  Users = {u1}
  Titles = {a, b}
  Languages = {en, ru}
  MaxSort = 1
  None = None
  Orders <- MCOrders
  Workers = {w1, w2}
  Workload <- MCCreatesAndUpserts
  Seed <- MCTwoRoots
INVARIANT LeafContent
