\* Three requests at a time that share two connections.
SPECIFICATION FairSpec
CONSTANTS
  Columns = {c1, c2}
  Siblings = {n1, n2}
  Workers = {w1, w2, w3}
  PoolSize = 1
  MaxOverflow = 1
  None = None
INVARIANT TypeOK
PROPERTIES ColumnsInOneOrder RequestsEnd
