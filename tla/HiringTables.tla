---------------------------- MODULE HiringTables ----------------------------
(***************************************************************************)
(* The tables of boards, their step columns, the hiring processes on them   *)
(* and the cell a process has in a column; the payloads of requests, and    *)
(* what the helpers compute from rows.                                      *)
(*                                                                          *)
(* Titles, notes, dates and the order of boards and of processes are        *)
(* abstracted away.                                                         *)
(***************************************************************************)
EXTENDS Integers, Sequences, FiniteSets, FiniteSetsExt

CONSTANTS BoardIds, ColumnIds, ProcessIds,
          Users,
          Kinds,         \* ALLOWED_STEP_KINDS
          Applied,       \* the kind "applied"
          DefaultKinds,  \* DEFAULT_BOARD_COLUMN_KINDS
          Details,       \* the texts of offers
          Orders,        \* the lists of ids a reorder payload may carry
          MaxSort,       \* the largest value of the Integer column sort_order
          Seed,          \* the databases the behaviours start from
          None,          \* SQL NULL, and no value
          Unset          \* a field the client left out

ASSUME HiringAssumption ==
  /\ DefaultKinds \in Seq(Kinds) /\ IsInjective(DefaultKinds)
  /\ Applied \in Range(DefaultKinds)
  /\ Orders \subseteq Seq(ColumnIds) \ {<<>>}
  /\ MaxSort \in Nat
  /\ {None, Unset} \cap (Details \cup Kinds) = {}
  /\ None # Unset

VARIABLES boards,   \* hiring_board: id -> owner
          cols,     \* hiring_board_column: id -> [board, owner, kind, sort]
          procs,    \* hiring_process: id -> [board, owner, result, details]
          cells     \* hiring_step_value: <<process, column>> -> status

db == <<boards, cols, procs, cells>>

\* "in_progress" stands for every result that is neither an offer nor a
\* rejection, "passed" for every status but failed.
Results == {"in_progress", "offer", "rejected"}
Statuses == {"passed", "failed"}

Column == [board : BoardIds, owner : Users, kind : Kinds, sort : 0 .. MaxSort]
Process == [board : BoardIds, owner : Users, result : Results, details : Details \cup {None}]

\* The payloads of api/hiring.py that schemas/requests/hiring.py and the
\* validate_* helpers accept.
BoardRequest == [op : {"get", "rename", "delete"}, user : Users, board : BoardIds]
NewBoardRequest == [op : {"new"}, user : Users]
AddColumnRequest == [op : {"add"}, user : Users, board : BoardIds, kind : Kinds]
DropColumnRequest == [op : {"drop"}, user : Users, board : BoardIds, column : ColumnIds]
ReorderRequest == [op : {"reorder"}, user : Users, board : BoardIds, ids : Orders]
NewProcessRequest == [op : {"process"}, user : Users, board : BoardIds, result : Results,
                      details : Details \cup {None}]
UpdateRequest == [op : {"update"}, user : Users, process : ProcessIds,
                  result : Results \cup {Unset}, details : Details \cup {None, Unset}]
DropProcessRequest == [op : {"remove"}, user : Users, process : ProcessIds]
CellRequest == [op : {"cell"}, user : Users, process : ProcessIds, column : ColumnIds,
                status : Statuses]

Request == BoardRequest \cup NewBoardRequest \cup AddColumnRequest \cup DropColumnRequest
             \cup ReorderRequest \cup NewProcessRequest \cup UpdateRequest
             \cup DropProcessRequest \cup CellRequest

-----------------------------------------------------------------------------
(* Tables *)

ColumnsOf(b) == {c \in DOMAIN cols : cols[c].board = b}
KindsOf(C) == {cols[c].kind : c \in C}

\* ensure_missing_default_columns: the kinds to add to a board with columns C.
Missing(C) ==
  IF Applied \in KindsOf(C) THEN Range(DefaultKinds) \ KindsOf(C) ELSE {}

\* The default column of kind k is left of that of kind l.
Before(k, l) ==
  \E i, j \in DOMAIN DefaultKinds : i < j /\ DefaultKinds[i] = k /\ DefaultKinds[j] = l

\* The foreign keys, and sort_order fits its column.
Storable(bs, cs, ps, xs) ==
  /\ \A c \in DOMAIN cs : cs[c].board \in DOMAIN bs /\ cs[c].sort \in 0 .. MaxSort
  /\ \A p \in DOMAIN ps : ps[p].board \in DOMAIN bs
  /\ \A x \in DOMAIN xs : x[1] \in DOMAIN ps /\ x[2] \in DOMAIN cs

\* What is left of columns, processes and cells when the foreign keys cascade.
OnBoards(rows, bs) == Restrict(rows, {r \in DOMAIN rows : rows[r].board \in DOMAIN bs})
InTables(xs, cs, ps) ==
  Restrict(xs, {x \in DOMAIN xs : x[1] \in DOMAIN ps /\ x[2] \in DOMAIN cs})

\* The table with row r stored under i.
Put(t, i, r) == [j \in DOMAIN t \cup {i} |-> IF j = i THEN r ELSE t[j]]

\* The columns with new ones, one of each kind in DOMAIN ids, from position sort
\* on: ids[k] is the column of kind k.
WithColumns(cs, ids, b, u, sort) ==
  LET KindOf(c) == CHOOSE k \in DOMAIN ids : ids[k] = c
      Left(c) == {k \in DOMAIN ids : Before(k, KindOf(c))}
  IN [c \in DOMAIN cs \cup Range(ids) |->
        IF c \in Range(ids)
        THEN [board |-> b, owner |-> u, kind |-> KindOf(c), sort |-> sort + Cardinality(Left(c))]
        ELSE cs[c]]

\* The tables hold rows of the right shape.
IsTable(t, ids, Rows) == DOMAIN t \subseteq ids /\ t \in [DOMAIN t -> Rows]

Typed(bs, cs, ps, xs) ==
  /\ IsTable(bs, BoardIds, Users)
  /\ IsTable(cs, ColumnIds, Column)
  /\ IsTable(ps, ProcessIds, Process)
  /\ IsTable(xs, ProcessIds \X ColumnIds, Statuses)

\* A cell joins a process and a column of one board, and what is on a board
\* belongs to the owner of the board.
Joined(bs, cs, ps, xs) ==
  /\ \A x \in DOMAIN xs : ps[x[1]].board = cs[x[2]].board
  /\ \A c \in DOMAIN cs : cs[c].owner = bs[cs[c].board]
  /\ \A p \in DOMAIN ps : ps[p].owner = bs[ps[p].board]

ASSUME SeedAssumption ==
  \A s \in Seed : /\ Typed(s.boards, s.cols, s.procs, s.cells)
                  /\ Storable(s.boards, s.cols, s.procs, s.cells)
                  /\ Joined(s.boards, s.cols, s.procs, s.cells)

-----------------------------------------------------------------------------
(* Rows of processes *)

\* resolve_offer_details, and the end of apply_process_updates.
OfferDetails(result, details) == IF result = "offer" THEN details ELSE None

\* Mutated form: only the result that was sent decides about the details.
UpdatedAsSent(row, r) ==
  LET result == IF r.result = Unset THEN row.result ELSE r.result
      details == IF r.details = Unset THEN row.details ELSE r.details
  IN [row EXCEPT !.result = result,
                 !.details = IF r.result = Unset THEN details ELSE OfferDetails(result, details)]

\* apply_process_updates.
Updated(row, r) ==
  LET result == IF r.result = Unset THEN row.result ELSE r.result
      details == IF r.details = Unset THEN row.details ELSE r.details
  IN [row EXCEPT !.result = result, !.details = OfferDetails(result, details)]

\* Mutated form: only a process in progress is rejected.
RejectedInProgress(row, kind, status) ==
  IF status = "failed" /\ kind # Applied /\ row.result = "in_progress"
  THEN [row EXCEPT !.result = "rejected", !.details = None]
  ELSE row

\* apply_rejected_on_failed_step.
Rejected(row, kind, status) ==
  IF status = "failed" /\ kind # Applied
  THEN [row EXCEPT !.result = "rejected", !.details = None]
  ELSE row
=============================================================================
