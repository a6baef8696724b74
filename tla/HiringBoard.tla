---------------------------- MODULE HiringBoard ----------------------------
(***************************************************************************)
(* What HiringService promises of the boards of a user: each request takes  *)
(* effect in one step, on the tables of that moment, or not at all, and     *)
(* only on what belongs to the caller.  The statements of a request, what   *)
(* it has read before and the requests that run in between are hidden.      *)
(***************************************************************************)
EXTENDS HiringTables

Init ==
  \E s \in Seed : boards = s.boards /\ cols = s.cols /\ procs = s.procs /\ cells = s.cells

\* The tables become these, which the schema accepts.
Become(bs, cs, ps, xs) ==
  /\ boards' = bs /\ cols' = cs /\ procs' = ps /\ cells' = xs
  /\ Storable(bs, cs, ps, xs)

\* The board, and the process, of a request are the caller's.
OwnsBoard(r) == r.board \in DOMAIN boards /\ boards[r.board] = r.user
OwnsProcess(r) == r.process \in DOMAIN procs /\ procs[r.process].owner = r.user

\* Columns of the kinds K are put right of every column of board b.
AddColumns(b, K) ==
  \E ids \in [K -> ColumnIds \ DOMAIN cols], sort \in 0 .. MaxSort :
    /\ IsInjective(ids)
    /\ \A c \in ColumnsOf(b) : cols[c].sort < sort
    /\ Become(boards, WithColumns(cols, ids, b, boards[b], sort), procs, cells)

\* get_board, of a request for board b or the one that created it: a board with an
\* Applied column gets the default columns it lacks.
GetBoard(r, b) ==
  /\ r.op \notin {"update", "remove", "cell"}
  /\ r.op # "new" => b = r.board
  /\ b \in DOMAIN boards /\ boards[b] = r.user
  /\ Missing(ColumnsOf(b)) # {}
  /\ AddColumns(b, Missing(ColumnsOf(b)))

\* A new board has the default columns, in their order.
CreateBoard(r) ==
  /\ r.op = "new"
  /\ \E b \in BoardIds \ DOMAIN boards, ids \in [Range(DefaultKinds) -> ColumnIds \ DOMAIN cols] :
       /\ IsInjective(ids)
       /\ Become(Put(boards, b, r.user), WithColumns(cols, ids, b, r.user, 0), procs, cells)

\* A board goes with everything on it.
DeleteBoard(r) ==
  LET bs == Restrict(boards, DOMAIN boards \ {r.board})
      cs == OnBoards(cols, bs)
      ps == OnBoards(procs, bs)
  IN
  /\ r.op = "delete"
  /\ OwnsBoard(r)
  /\ Become(bs, cs, ps, InTables(cells, cs, ps))

AddColumn(r) == r.op = "add" /\ OwnsBoard(r) /\ AddColumns(r.board, {r.kind})

\* A column goes with its cells.
DeleteColumn(r) ==
  LET cs == Restrict(cols, DOMAIN cols \ {r.column}) IN
  /\ r.op = "drop"
  /\ OwnsBoard(r)
  /\ r.column \in ColumnsOf(r.board)
  /\ Become(boards, cs, procs, InTables(cells, cs, procs))

\* The columns of the board get the order of the payload, which names them all.
ReorderColumns(r) ==
  /\ r.op = "reorder"
  /\ OwnsBoard(r)
  /\ IsInjective(r.ids) /\ Range(r.ids) = ColumnsOf(r.board)
  /\ Become(boards,
            [c \in DOMAIN cols |->
               IF c \in Range(r.ids)
               THEN [cols[c] EXCEPT !.sort = (CHOOSE i \in DOMAIN r.ids : r.ids[i] = c) - 1]
               ELSE cols[c]],
            procs, cells)

CreateProcess(r) ==
  /\ r.op = "process"
  /\ OwnsBoard(r)
  /\ \E p \in ProcessIds \ DOMAIN procs :
       Become(boards, cols,
              Put(procs, p, [board |-> r.board, owner |-> r.user, result |-> r.result,
                             details |-> OfferDetails(r.result, r.details)]),
              cells)

\* The patch is applied to the process as it is stored.
UpdateProcess(r) ==
  /\ r.op = "update"
  /\ OwnsProcess(r)
  /\ Become(boards, cols, Put(procs, r.process, Updated(procs[r.process], r)), cells)

DeleteProcess(r) ==
  LET ps == Restrict(procs, DOMAIN procs \ {r.process}) IN
  /\ r.op = "remove"
  /\ OwnsProcess(r)
  /\ Become(boards, cols, ps, InTables(cells, cols, ps))

\* A cell in a column of the process's board; a failed step rejects the process.
UpsertStepValue(r) ==
  /\ r.op = "cell"
  /\ OwnsProcess(r)
  /\ r.column \in ColumnsOf(procs[r.process].board)
  /\ Become(boards, cols,
            Put(procs, r.process, Rejected(procs[r.process], cols[r.column].kind, r.status)),
            Put(cells, <<r.process, r.column>>, r.status))

\* A request that only reads, is refused or dies.
ChangeNothing == UNCHANGED db

\* The request r takes effect.
Step(r) ==
  \/ CreateBoard(r) \/ DeleteBoard(r)
  \/ AddColumn(r) \/ DeleteColumn(r) \/ ReorderColumns(r)
  \/ CreateProcess(r) \/ UpdateProcess(r) \/ DeleteProcess(r) \/ UpsertStepValue(r)

Next ==
  \/ ChangeNothing
  \/ \E r \in Request : Step(r) \/ \E b \in BoardIds : GetBoard(r, b)

Spec == Init /\ [][Next]_db
=============================================================================
