\* From the empty database, two ids and at most four rows: two users that have a current CV each.
SPECIFICATION Spec
CONSTANTS
  Ids = {i1, i2}
  MaxRows = 4
  None = None
INVARIANTS RowsFit SchemaIsOfRevision OnlyUnownedRowsBlock LatestHasModels
PROPERTY MigrationsKeepRows
