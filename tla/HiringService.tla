---------------------------- MODULE HiringService ----------------------------
(***************************************************************************)
(* HiringService: boards, their step columns, the hiring processes on them  *)
(* and the cell a process has in a column.                                  *)
(*                                                                          *)
(* As in NodeService, a query is one step and the writes of a transaction   *)
(* with their commit are one step; a write that the database refuses        *)
(* answers 500.  Most methods call get_board before their own work and      *)
(* again after their commit, and get_board writes: it adds the default      *)
(* columns that a board with an Applied column lacks.                       *)
(***************************************************************************)
EXTENDS HiringTables

CONSTANTS Workers,   \* the requests served at the same time
          Workload   \* Workload[w]: the payloads w may be sent

ASSUME WorkloadAssumption == Workload \in [Workers -> SUBSET Request]

VARIABLE session   \* session[w]: the request w serves and what it has read

vars == <<boards, cols, procs, cells, session>>

-----------------------------------------------------------------------------
(* Sessions *)

\* pc names the next statement, board the board of the request, own tells that
\* its own work is committed, columns are the ids of the columns found, missing the
\* kinds to add, sort the position to insert at, process and column the rows
\* loaded, cell whether the cell is stored.
Idle == [pc |-> "idle", req |-> None, board |-> None, own |-> FALSE, columns |-> {},
         missing |-> {}, sort |-> 0, process |-> None, column |-> None, cell |-> FALSE]

Init ==
  /\ \E s \in Seed : /\ boards = s.boards
                     /\ cols = s.cols
                     /\ procs = s.procs
                     /\ cells = s.cells
  /\ session = [w \in Workers |-> Idle]

Continue(w, s) == session' = [session EXCEPT ![w] = s] /\ UNCHANGED db

\* The request ends: answered, refused or failed; get_session rolls back.
Answer(w) == Continue(w, Idle)

\* Mutated form: a schema without its constraints.
CommitUnchecked(w, bs, cs, ps, xs, s) ==
  /\ boards' = bs /\ cols' = cs /\ procs' = ps /\ cells' = xs
  /\ session' = [session EXCEPT ![w] = s]

\* The commit of these tables by w, which goes on in session s.
Commit(w, bs, cs, ps, xs, s) ==
  IF Storable(bs, cs, ps, xs)
  THEN /\ boards' = bs /\ cols' = cs /\ procs' = ps /\ cells' = xs
       /\ session' = [session EXCEPT ![w] = s]
  ELSE Answer(w)

\* The own work of the request is committed; get_board answers.
ThenBoard(s, b) == [Idle EXCEPT !.pc = "board", !.req = s.req, !.board = b, !.own = TRUE]

\* The ids a session has seen.  uuid4 repeats no id: an id is given out again
\* only when no request under way knows it.
Seen(s) ==
  LET r == s.req IN
  {s.board} \cup s.columns
    \cup (IF s.pc = "idle" THEN {}
          ELSE CASE r.op \in {"update", "remove"} -> {r.process}
                 [] r.op = "cell" -> {r.process, r.column}
                 [] r.op = "drop" -> {r.column}
                 [] r.op = "reorder" -> Range(r.ids)
                 [] OTHER -> {})

Fresh(ids, t) == ids \ (DOMAIN t \cup UNION {Seen(session[w]) : w \in Workers})

\* Ids for new columns of the kinds K.
NewColumnIds(K) == {f \in [K -> Fresh(ColumnIds, cols)] : IsInjective(f)}

-----------------------------------------------------------------------------
(* get_board and the first query of a request *)

Start(w) ==
  /\ session[w].pc = "idle"
  /\ \E r \in Workload[w] :
       Continue(w, CASE r.op = "new" -> [Idle EXCEPT !.pc = "write", !.req = r]
                     [] r.op \in {"update", "remove", "cell"} ->
                          [Idle EXCEPT !.pc = "process", !.req = r]
                     [] OTHER -> [Idle EXCEPT !.pc = "board", !.req = r, !.board = r.board])

\* get_board_by_id: the board, the first time and after the default columns
\* were added.
ReadBoard(w) ==
  LET s == session[w] IN
  /\ s.pc \in {"board", "reboard"}
  /\ IF s.board \in DOMAIN boards /\ boards[s.board] = s.req.user
     THEN Continue(w, [s EXCEPT !.pc = IF s.pc = "board" THEN "columns" ELSE "recolumns"])
     ELSE Answer(w)

\* Mutated form: a reorder may name other columns than those of the board.
LoadedUnchecked(s, C) ==
  IF s.own \/ s.req.op = "get"
  THEN [s EXCEPT !.pc = "answer", !.columns = C]
  ELSE [s EXCEPT !.pc = CASE s.req.op = "add" -> "max"
                          [] s.req.op = "drop" -> "column"
                          [] OTHER -> "write"]

\* get_board returns, with the columns C; reorder_columns validates.
Loaded(s, C) ==
  LET r == s.req go(pc) == [s EXCEPT !.pc = pc] IN
  IF s.own \/ r.op = "get"
  THEN [s EXCEPT !.pc = "answer", !.columns = C]
  ELSE CASE r.op = "add" -> go("max")
         [] r.op = "drop" -> go("column")
         [] r.op = "reorder" ->
              IF IsInjective(r.ids) /\ Range(r.ids) = C THEN go("write") ELSE Idle
         [] OTHER -> go("write")

\* Mutated form: after its own work a request answers the board as it is.
ReadColumnsOnly(w) ==
  LET s == session[w]
      C == ColumnsOf(s.board)
  IN
  /\ s.pc \in {"columns", "recolumns"}
  /\ Continue(w, IF s.pc = "columns" /\ ~ s.own /\ Missing(C) # {}
                 THEN [s EXCEPT !.pc = "fillmax", !.missing = Missing(C), !.columns = C]
                 ELSE Loaded(s, C))

\* get_board_by_id: the columns of the board (selectinload).
ReadColumns(w) ==
  LET s == session[w]
      C == ColumnsOf(s.board)
  IN
  /\ s.pc \in {"columns", "recolumns"}
  /\ Continue(w, IF s.pc = "columns" /\ Missing(C) # {}
                 THEN [s EXCEPT !.pc = "fillmax", !.missing = Missing(C), !.columns = C]
                 ELSE Loaded(s, C))

\* build_board_detail: the request answers the board as it was loaded.
Respond(w) == session[w].pc = "answer" /\ Answer(w)

\* Mutated form: the number of columns is the next position.
NextByCount(u, b) == Cardinality(ColumnsOf(b))

\* get_next_column_sort_order.
NextColumnSort(u, b) ==
  Max({cols[c].sort : c \in {c \in ColumnsOf(b) : cols[c].owner = u}} \cup {-1}) + 1

ReadMaxSort(w) ==
  LET s == session[w] IN
  /\ s.pc \in {"fillmax", "max"}
  /\ Continue(w, [s EXCEPT !.pc = IF s.pc = "max" THEN "write" ELSE "fill",
                           !.sort = NextColumnSort(s.req.user, s.board)])

\* ensure_missing_default_columns and the commit of get_board.  Bound of the
\* model, here and in the other inserts: without enough free ids they fail.
Backfill(w) ==
  LET s == session[w] IN
  /\ s.pc = "fill"
  /\ \/ NewColumnIds(s.missing) = {} /\ Answer(w)
     \/ \E ids \in NewColumnIds(s.missing) :
          Commit(w, boards, WithColumns(cols, ids, s.board, s.req.user, s.sort), procs, cells,
                 [s EXCEPT !.pc = "reboard", !.sort = 0, !.columns = {}, !.missing = {}])

-----------------------------------------------------------------------------
(* Boards and columns *)

CreateBoard(w) ==
  LET s == session[w]
      new == Fresh(BoardIds, boards)
      ids == NewColumnIds(Range(DefaultKinds))
  IN
  /\ s.pc = "write" /\ s.req.op = "new"
  /\ \/ (new = {} \/ ids = {}) /\ Answer(w)
     \/ \E b \in new, f \in ids :
          Commit(w, Put(boards, b, s.req.user), WithColumns(cols, f, b, s.req.user, 0),
                 procs, cells, ThenBoard(s, b))

\* update_board writes the title only; it fails when the row is gone.
UpdateBoard(w) ==
  LET s == session[w] IN
  /\ s.pc = "write" /\ s.req.op = "rename"
  /\ IF s.board \in DOMAIN boards THEN Continue(w, ThenBoard(s, s.board)) ELSE Answer(w)

DeleteBoard(w) ==
  LET s == session[w]
      bs == Restrict(boards, DOMAIN boards \ {s.board})
      cs == OnBoards(cols, bs)
      ps == OnBoards(procs, bs)
  IN
  /\ s.pc = "write" /\ s.req.op = "delete"
  /\ Commit(w, bs, cs, ps, InTables(cells, cs, ps), Idle)

AddColumn(w) ==
  LET s == session[w] r == s.req IN
  /\ s.pc = "write" /\ r.op = "add"
  /\ \/ NewColumnIds({r.kind}) = {} /\ Answer(w)
     \/ \E ids \in NewColumnIds({r.kind}) :
          Commit(w, boards, WithColumns(cols, ids, s.board, r.user, s.sort), procs, cells,
                 ThenBoard(s, s.board))

\* get_column_for_board.
ReadColumn(w) ==
  LET s == session[w] r == s.req IN
  /\ s.pc = "column" /\ r.op = "drop"
  /\ IF r.column \in DOMAIN cols /\ cols[r.column].owner = r.user
          /\ cols[r.column].board = s.board
     THEN Continue(w, [s EXCEPT !.pc = "write"])
     ELSE Answer(w)

DeleteColumn(w) ==
  LET s == session[w]
      cs == Restrict(cols, DOMAIN cols \ {s.req.column})
  IN
  /\ s.pc = "write" /\ s.req.op = "drop"
  /\ Commit(w, boards, cs, procs, InTables(cells, cs, procs), ThenBoard(s, s.board))

\* One UPDATE for each id; one that meets no row changes nothing.
ReorderColumns(w) ==
  LET s == session[w] r == s.req IN
  /\ s.pc = "write" /\ r.op = "reorder"
  /\ Commit(w, boards,
            [c \in DOMAIN cols |->
               IF c \in Range(r.ids) /\ cols[c].board = s.board
               THEN [cols[c] EXCEPT !.sort = (CHOOSE i \in DOMAIN r.ids : r.ids[i] = c) - 1]
               ELSE cols[c]],
            procs, cells, ThenBoard(s, s.board))

-----------------------------------------------------------------------------
(* Processes and cells *)

CreateProcess(w) ==
  LET s == session[w] r == s.req IN
  /\ s.pc = "write" /\ r.op = "process"
  /\ \/ Fresh(ProcessIds, procs) = {} /\ Answer(w)
     \/ \E p \in Fresh(ProcessIds, procs) :
          Commit(w, boards, cols,
                 Put(procs, p, [board |-> s.board, owner |-> r.user, result |-> r.result,
                                details |-> OfferDetails(r.result, r.details)]),
                 cells, ThenBoard(s, s.board))

\* get_process_or_raise.
ReadProcess(w) ==
  LET s == session[w] r == s.req IN
  /\ s.pc = "process"
  /\ IF r.process \in DOMAIN procs /\ procs[r.process].owner = r.user
     THEN Continue(w, [s EXCEPT !.pc = IF r.op = "cell" THEN "column" ELSE "write",
                                !.process = procs[r.process]])
     ELSE Answer(w)

\* The processes once save_process has written what changed between the loaded
\* row old and new.
Saved(p, old, new) ==
  [procs EXCEPT ![p] = [f \in DOMAIN @ |-> IF new[f] = old[f] THEN @[f] ELSE new[f]]]

\* update_process fails, at the UPDATE or at the refresh, when the row is gone.
UpdateProcess(w) ==
  LET s == session[w] r == s.req IN
  /\ s.pc = "write" /\ r.op = "update"
  /\ IF r.process \in DOMAIN procs
     THEN Commit(w, boards, cols, Saved(r.process, s.process, Updated(s.process, r)), cells, Idle)
     ELSE Answer(w)

DeleteProcess(w) ==
  LET s == session[w]
      ps == Restrict(procs, DOMAIN procs \ {s.req.process})
  IN
  /\ s.pc = "write" /\ s.req.op = "remove"
  /\ Commit(w, boards, cols, ps, InTables(cells, cols, ps), Idle)

\* Mutated form: the board of the column is not looked at.
ReadAnyStep(w) ==
  LET s == session[w] r == s.req IN
  /\ s.pc = "column" /\ r.op = "cell"
  /\ IF r.column \in DOMAIN cols /\ cols[r.column].owner = r.user
     THEN Continue(w, [s EXCEPT !.pc = "cell", !.column = cols[r.column]])
     ELSE Answer(w)

\* ensure_step_belongs_to_process.
ReadStep(w) ==
  LET s == session[w] r == s.req IN
  /\ s.pc = "column" /\ r.op = "cell"
  /\ IF r.column \in DOMAIN cols /\ cols[r.column].owner = r.user
          /\ cols[r.column].board = s.process.board
     THEN Continue(w, [s EXCEPT !.pc = "cell", !.column = cols[r.column]])
     ELSE Answer(w)

\* get_step_value.
ReadCell(w) ==
  LET s == session[w] IN
  /\ s.pc = "cell"
  /\ Continue(w, [s EXCEPT !.pc = "write",
                           !.cell = <<s.req.process, s.req.column>> \in DOMAIN cells])

\* upsert_step_value and save_process: INSERT of a new cell, which fails when
\* it is stored by now (uq_hiring_step_value_process_column), or UPDATE of a
\* loaded one, which fails when it is gone.
UpsertStepValue(w) ==
  LET s == session[w]
      r == s.req
      x == <<r.process, r.column>>
  IN
  /\ s.pc = "write" /\ r.op = "cell"
  /\ IF (x \in DOMAIN cells) = s.cell /\ r.process \in DOMAIN procs
     THEN Commit(w, boards, cols,
                 Saved(r.process, s.process, Rejected(s.process, s.column.kind, r.status)),
                 Put(cells, x, r.status), Idle)
     ELSE Answer(w)

-----------------------------------------------------------------------------

\* The request dies: a deadlock victim, a lost connection, a restart.
Abort(w) == session[w].pc # "idle" /\ Answer(w)

Next ==
  \E w \in Workers :
    \/ Start(w) \/ ReadBoard(w) \/ ReadColumns(w) \/ Respond(w) \/ ReadMaxSort(w) \/ Backfill(w)
    \/ CreateBoard(w) \/ UpdateBoard(w) \/ DeleteBoard(w)
    \/ AddColumn(w) \/ ReadColumn(w) \/ DeleteColumn(w) \/ ReorderColumns(w)
    \/ CreateProcess(w) \/ ReadProcess(w) \/ UpdateProcess(w) \/ DeleteProcess(w)
    \/ ReadStep(w) \/ ReadCell(w) \/ UpsertStepValue(w) \/ Abort(w)

Spec == Init /\ [][Next]_vars

-----------------------------------------------------------------------------
(* Properties *)

\* The tables hold rows of the right shape and every reference is to a row; no
\* cascade of a delete leaves a column, process or cell behind.
TypeOK ==
  /\ Typed(boards, cols, procs, cells)
  /\ Storable(boards, cols, procs, cells)
  /\ \A w \in Workers : session[w].req \in Request \cup {None}

\* A cell joins a process and a column of one board, so the board shows it, and
\* what is on a board belongs to the owner of the board.
CellsOnOneBoard == Joined(boards, cols, procs, cells)

\* A process has offer details only while its result is an offer.
DetailsOnlyWithOffer ==
  \A p \in DOMAIN procs : procs[p].details # None => procs[p].result = "offer"

\* The columns of a board have distinct positions, so that the table is shown
\* in the order the user gave it.
ColumnsOrdered ==
  \A c, d \in DOMAIN cols :
    c # d /\ cols[c].board = cols[d].board => cols[c].sort # cols[d].sort

\* A step that fails, other than Applied, rejects the process, whatever its
\* result was.
FailedStepRejects ==
  [][\A w \in Workers :
       /\ session[w].pc = "write"
       /\ session[w].req.op = "cell"
       /\ session[w].req.status = "failed"
       /\ session[w].column.kind # Applied
       /\ session'[w] = Idle
       /\ db' # db
       => procs'[session[w].req.process].result = "rejected"]_vars

\* A board with an Applied column is answered with every default column.
AnswersShowDefaults ==
  \A w \in Workers : session[w].pc = "answer" =>
    LET kinds == KindsOf(session[w].columns) IN
    Applied \in kinds => Range(DefaultKinds) \subseteq kinds

Board == INSTANCE HiringBoard

\* The request of w, or the get_board that it calls, takes effect in its own step.
TakesEffect(w) ==
  LET s == session[w] IN
  /\ session'[w] # s
  /\ \/ s.pc = "write" /\ Board!Step(s.req)
     \/ s.pc = "fill" /\ Board!GetBoard(s.req, s.board)

\* As long as no two requests under way are on one board or write one process,
\* what a request read statements ago is still stored when it commits, so that
\* every request does at once, and for its own payload and caller, all that
\* HiringBoard says it does.  (Board!Spec asks for the step of some request.)
ImplementsBoard ==
  /\ Board!Init
  /\ [][\E w \in Workers : TakesEffect(w)]_db

\* Default columns are added only to boards that have nothing but Applied.
BackfillsLegacyBoards ==
  \A w \in Workers : session[w].pc = "fill" => KindsOf(session[w].columns) = {Applied}
=============================================================================
