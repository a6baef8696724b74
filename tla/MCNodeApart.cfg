\* Two requests at a time, of two users, that do not move or fill the same nodes.
SPECIFICATION Spec
CONSTANTS
  n1 = n1
  n2 = n2
  n3 = n3
  u1 = u1
  u2 = u2
  a = a
  b = b
  en = en
  ru = ru
  w1 = w1
  w2 = w2
  NodeIds = {n1, n2, n3, n4}
  Users = {u1, u2}
  Titles = {a, b}
  Languages = {en, ru}
  MaxSort = 1
  None = None
  Orders <- MCOrders
  Workers = {w1, w2}
  Workload <- MCApart
  Seed <- MCTwoUsers
INVARIANTS Acyclic LeafContent OwnerConsistent
PROPERTIES TenantIsolation ColumnsAsRequested
