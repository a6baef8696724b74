SPECIFICATION Spec
CONSTANTS
  NodeIds = {n1, n2, n3, n4}
  Users = {u1, u2}
  Titles = {a, b}
  Languages = {en, ru}
  MaxSort = 1
  None = None
  Orders <- MCOrders
  Seed <- MCEmpty
SYMMETRY MCSymmetry
INVARIANTS TypeOK Acyclic LeafContent OwnerConsistent EveryNodeIsShown
PROPERTIES TenantIsolation LastTranslationKept
