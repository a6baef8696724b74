\* Two requests at a time, of two users, with two CVs.
SPECIFICATION FairSpec
CONSTANTS
  CvIds = {c1, c2}
  Users = {u1, u2}
  Workers = {w1, w2}
  None = None
INVARIANTS TypeOK OrphansAccounted DanglingAccounted
PROPERTIES CurrentKept ImplementsShelf RequestsEnd
