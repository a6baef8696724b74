\* One request at a time, of one user.
SPECIFICATION FairSpec
CONSTANTS
  n1 = n1
  n2 = n2
  n3 = n3
  w1 = w1
  w2 = w2
  u1 = u1
  u2 = u2
  a = a
  b = b
  en = en
  ru = ru
  NodeIds = {n1, n2, n3}
  Users = {u1}
  Titles = {a, b}
  Languages = {en, ru}
  MaxSort = 1
  None = None
  Orders <- MCOrders
  Workers = {w1}
  Workload <- MCAnything
  Seed <- MCTwoRoots
INVARIANTS TypeOK ChecksCoverTitles
PROPERTIES ImplementsTree RequestsEnd ReorderTakesEffect
