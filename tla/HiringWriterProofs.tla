------------------------- MODULE HiringWriterProofs -------------------------
(***************************************************************************)
(* What HiringService keeps when the requests under way at one time write   *)
(* different processes, or are on different boards.                         *)
(*                                                                          *)
(* The service decides by rows it read statements ago and takes no lock, so *)
(* two updates of a process at a time, or two requests that position the    *)
(* columns of a board, can undo each other.  While they keep apart, what a  *)
(* session has read is still stored when it commits: the process it has     *)
(* loaded (Current), and the columns it has counted, compared and filled up *)
(* (Counted). Each request then takes effect at once: HiringService         *)
(* implements HiringBoard.                                                  *)
(***************************************************************************)
EXTENDS HiringProofs, FiniteSetTheorems, WellFoundedInduction

-----------------------------------------------------------------------------
(* Steps *)

Step(w) ==
  \/ Start(w) \/ ReadBoard(w) \/ ReadColumns(w) \/ Respond(w) \/ ReadMaxSort(w) \/ Backfill(w)
  \/ CreateBoard(w) \/ UpdateBoard(w) \/ DeleteBoard(w)
  \/ AddColumn(w) \/ ReadColumn(w) \/ DeleteColumn(w) \/ ReorderColumns(w)
  \/ CreateProcess(w) \/ ReadProcess(w) \/ UpdateProcess(w) \/ DeleteProcess(w)
  \/ ReadStep(w) \/ ReadCell(w) \/ UpsertStepValue(w) \/ Abort(w)

\* Only the session of w changes, to s.
Goes(w, s) == session'[w] = s /\ \A v \in Workers \ {w} : session'[v] = session[v]

\* The request ends, and nothing is written.
Ends(w) == Goes(w, Idle) /\ UNCHANGED <<boards, cols, procs, cells>>

LEMMA IdleFields ==
  /\ Shape(Idle) /\ Idle.pc = "idle" /\ Idle.req = None /\ Idle.own = FALSE
  BY DEF Idle, Shape

LEMMA Reads ==
  ASSUME IInv, NEW w \in Workers, NEW s, Continue(w, s)
  PROVE  Goes(w, s) /\ UNCHANGED <<boards, cols, procs, cells>>
<1>1. session' = [v \in Workers |-> IF v = w THEN s ELSE session[v]]
  BY DEF Continue, IInv
<1> QED
  BY <1>1 DEF Continue, Goes, db

LEMMA Answers ==
  ASSUME IInv, NEW w \in Workers, Answer(w)
  PROVE  Ends(w)
  BY Reads DEF Answer, Ends

LEMMA Commits ==
  ASSUME IInv, NEW w \in Workers, NEW bs, NEW cs, NEW ps, NEW xs, NEW s,
         Commit(w, bs, cs, ps, xs, s)
  PROVE  \/ Ends(w)
         \/ /\ Goes(w, s) /\ Storable(bs, cs, ps, xs)
            /\ boards' = bs /\ cols' = cs /\ procs' = ps /\ cells' = xs
<1>1. CASE Storable(bs, cs, ps, xs)
  <2>1. session' = [v \in Workers |-> IF v = w THEN s ELSE session[v]]
    BY <1>1 DEF Commit, IInv
  <2> QED
    BY <1>1, <2>1 DEF Commit, Goes
<1>2. CASE ~ Storable(bs, cs, ps, xs)
  BY <1>2, Answers DEF Commit
<1> QED
  BY <1>1, <1>2

LEMMA ThenBoardFields ==
  ASSUME NEW s, NEW b
  PROVE  LET t == ThenBoard(s, b) IN
         t.pc = "board" /\ t.req = s.req /\ t.board = b /\ t.own = TRUE
  BY DEF ThenBoard, Idle

\* A step of w goes on with the request of w or one that w is sent.
Asks(w) ==
  LET s == session[w] t == session'[w] IN
  /\ \A v \in Workers \ {w} : session'[v] = session[v]
  /\ \/ t = Idle
     \/ s.pc # "idle" /\ t.req = s.req
     \/ s.pc = "idle" /\ t.req \in Workload[w]

LEMMA LoadedAsks ==
  ASSUME NEW s, NEW C, Shape(s)
  PROVE  Loaded(s, C) = Idle \/ Loaded(s, C).req = s.req
<1>1. \A pc : [s EXCEPT !.pc = pc].req = s.req /\ [s EXCEPT !.pc = pc, !.columns = C].req = s.req
  BY DEF Shape
<1> QED
  BY <1>1 DEF Loaded

LEMMA StepAsks ==
  ASSUME IInv, NEW w \in Workers, Step(w)
  PROVE  Asks(w)
<1> DEFINE s == session[w]
           r == s.req
<1>1. ASSUME Ends(w) PROVE Asks(w)
  BY <1>1 DEF Ends, Goes, Asks
<1>2. ASSUME NEW t, Goes(w, t), s.pc # "idle", t.req = r PROVE Asks(w)
  BY <1>2 DEF Goes, Asks
<1>3. ASSUME NEW t, Continue(w, t), s.pc # "idle", t.req = r PROVE Asks(w)
  BY <1>2, <1>3, Reads
<1>4. ASSUME NEW bs, NEW cs, NEW ps, NEW xs, NEW t, Commit(w, bs, cs, ps, xs, t),
             s.pc # "idle", t = Idle \/ t.req = r
      PROVE  Asks(w)
  <2>1. Ends(w) \/ Goes(w, t)
    BY <1>4, Commits
  <2> QED
    BY <1>1, <1>2, <1>4, <2>1 DEF Goes, Asks
<1>5. s.pc # "idle" => Shape(s)
  BY AtStatement
<1>6. ASSUME NEW b PROVE ThenBoard(s, b).req = r
  BY ThenBoardFields
<1>7. CASE Start(w)
  <2>1. PICK x \in Workload[w] :
          Continue(w, CASE x.op = "new" -> [Idle EXCEPT !.pc = "write", !.req = x]
                        [] x.op \in {"update", "remove", "cell"} ->
                             [Idle EXCEPT !.pc = "process", !.req = x]
                        [] OTHER -> [Idle EXCEPT !.pc = "board", !.req = x, !.board = x.board])
    BY <1>7 DEF Start
  <2> DEFINE create == [Idle EXCEPT !.pc = "write", !.req = x]
             process == [Idle EXCEPT !.pc = "process", !.req = x]
             board == [Idle EXCEPT !.pc = "board", !.req = x, !.board = x.board]
  <2>2. create.req = x /\ process.req = x /\ board.req = x
    BY DEF Idle
  <2>3. Continue(w, create) \/ Continue(w, process) \/ Continue(w, board)
    BY <2>1
  <2> HIDE DEF create, process, board
  <2> QED
    BY <1>7, <2>2, <2>3, Reads DEF Start, Goes, Asks
<1>8. CASE ReadBoard(w)
  <2> DEFINE t == [s EXCEPT !.pc = IF s.pc = "board" THEN "columns" ELSE "recolumns"]
  <2>1. s.pc # "idle" /\ (Continue(w, t) \/ Answer(w))
    BY <1>8 DEF ReadBoard
  <2>2. t.req = r
    BY <1>5, <2>1 DEF Shape
  <2> HIDE DEF t
  <2> QED
    BY <1>1, <1>3, <2>1, <2>2, Answers
<1>9. CASE ReadColumns(w)
  <2> DEFINE C == ColumnsOf(s.board)
             t == [s EXCEPT !.pc = "fillmax", !.missing = Missing(C), !.columns = C]
  <2>1. s.pc # "idle" /\ (Continue(w, t) \/ Continue(w, Loaded(s, C)))
    BY <1>9 DEF ReadColumns
  <2>2. t.req = r /\ (Loaded(s, C) = Idle \/ Loaded(s, C).req = r)
    BY <1>5, <2>1, LoadedAsks DEF Shape
  <2> HIDE DEF t, C
  <2> QED
    BY <1>1, <1>3, <2>1, <2>2, Answers DEF Answer
<1>10. CASE Respond(w) \/ Abort(w)
  BY <1>1, <1>10, Answers DEF Respond, Abort
<1>11. CASE ReadMaxSort(w)
  <2> DEFINE t == [s EXCEPT !.pc = IF s.pc = "max" THEN "write" ELSE "fill",
                            !.sort = NextColumnSort(s.req.user, s.board)]
  <2>1. s.pc # "idle" /\ Continue(w, t)
    BY <1>11 DEF ReadMaxSort
  <2>2. t.req = r
    BY <1>5, <2>1 DEF Shape
  <2> HIDE DEF t
  <2> QED
    BY <1>3, <2>1, <2>2
<1>12. CASE Backfill(w)
  <2> DEFINE t == [s EXCEPT !.pc = "reboard", !.sort = 0, !.columns = {}, !.missing = {}]
  <2>1. s.pc # "idle"
    BY <1>12 DEF Backfill
  <2>2. t.req = r
    BY <1>5, <2>1 DEF Shape
  <2>3. Answer(w) \/ \E cs : Commit(w, boards, cs, procs, cells, t)
    BY <1>12 DEF Backfill
  <2> HIDE DEF t
  <2> QED
    BY <1>1, <1>4, <2>1, <2>2, <2>3, Answers
<1>13. CASE CreateBoard(w)
  <2>1. /\ s.pc # "idle"
        /\ Answer(w) \/ \E b, bs, cs : Commit(w, bs, cs, procs, cells, ThenBoard(s, b))
    BY <1>13 DEF CreateBoard
  <2> QED
    BY <1>1, <1>4, <1>6, <2>1, Answers
<1>14. CASE UpdateBoard(w)
  <2>1. s.pc # "idle" /\ (Answer(w) \/ Continue(w, ThenBoard(s, s.board)))
    BY <1>14 DEF UpdateBoard
  <2> QED
    BY <1>1, <1>3, <1>6, <2>1, Answers
<1>15. CASE DeleteBoard(w) \/ DeleteProcess(w)
  <2>1. s.pc # "idle" /\ \E bs, cs, ps, xs : Commit(w, bs, cs, ps, xs, Idle)
    BY <1>15 DEF DeleteBoard, DeleteProcess
  <2> QED
    BY <1>4, <2>1
<1>16. CASE AddColumn(w)
  <2>1. /\ s.pc # "idle"
        /\ Answer(w) \/ \E cs : Commit(w, boards, cs, procs, cells, ThenBoard(s, s.board))
    BY <1>16 DEF AddColumn
  <2> QED
    BY <1>1, <1>4, <1>6, <2>1, Answers
<1>17. CASE DeleteColumn(w) \/ ReorderColumns(w)
  <2>1. s.pc # "idle" /\ \E cs, xs : Commit(w, boards, cs, procs, xs, ThenBoard(s, s.board))
    BY <1>17 DEF DeleteColumn, ReorderColumns
  <2> QED
    BY <1>4, <1>6, <2>1
<1>18. CASE CreateProcess(w)
  <2>1. /\ s.pc # "idle"
        /\ Answer(w) \/ \E ps : Commit(w, boards, cols, ps, cells, ThenBoard(s, s.board))
    BY <1>18 DEF CreateProcess
  <2> QED
    BY <1>1, <1>4, <1>6, <2>1, Answers
<1>19. CASE ReadProcess(w) \/ ReadColumn(w) \/ ReadStep(w) \/ ReadCell(w)
  <2> DEFINE loaded(pc) == [s EXCEPT !.pc = pc, !.process = procs[r.process]]
             found == [s EXCEPT !.pc = "write"]
             step == [s EXCEPT !.pc = "cell", !.column = cols[r.column]]
             cell == [s EXCEPT !.pc = "write", !.cell = <<r.process, r.column>> \in DOMAIN cells]
  <2>1. s.pc # "idle"
    BY <1>19 DEF ReadProcess, ReadColumn, ReadStep, ReadCell
  <2>2. found.req = r /\ step.req = r /\ cell.req = r /\ \A pc : loaded(pc).req = r
    BY <1>5, <2>1 DEF Shape
  <2>3. \/ Answer(w) \/ Continue(w, found) \/ Continue(w, step) \/ Continue(w, cell)
        \/ \E pc : Continue(w, loaded(pc))
    BY <1>19 DEF ReadProcess, ReadColumn, ReadStep, ReadCell
  <2> HIDE DEF loaded, found, step, cell
  <2> QED
    BY <1>1, <1>3, <2>1, <2>2, <2>3, Answers
<1>20. CASE UpdateProcess(w) \/ UpsertStepValue(w)
  <2>1. s.pc # "idle" /\ (Answer(w) \/ \E ps, xs : Commit(w, boards, cols, ps, xs, Idle))
    BY <1>20 DEF UpdateProcess, UpsertStepValue
  <2> QED
    BY <1>1, <1>4, <2>1, Answers
<1> QED
  BY <1>7, <1>8, <1>9, <1>10, <1>11, <1>12, <1>13, <1>14, <1>15, <1>16, <1>17, <1>18, <1>19,
     <1>20 DEF Step

-----------------------------------------------------------------------------
(* Requests that write different processes *)

\* A request under way at w updates a process or writes a cell of it.
WritesProcess(w) == session[w].pc # "idle" /\ session[w].req.op \in {"update", "cell"}

\* No two requests under way write the same process.
ProcessesApart ==
  \A v \in Workers : \A w \in Workers \ {v} :
    WritesProcess(v) /\ WritesProcess(w) => session[v].req.process # session[w].req.process

\* The process that the session s has loaded is stored as it was, if it still is.
Current(s) ==
  s.pc \in {"column", "cell", "write"} /\ s.req.op \in {"update", "cell"} =>
    (s.req.process \in DOMAIN procs => procs[s.req.process] = s.process)

OfferOnly(row) == row.details # None => row.result = "offer"

\* Processes are only added and removed.
Gently(ps) ==
  \A p \in DOMAIN ps :
    \/ p \in DOMAIN procs /\ ps[p] = procs[p]
    \/ p \notin Known /\ OfferOnly(ps[p])

LEMMA OthersAreGentle ==
  ASSUME IInv, NEW w \in Workers, Step(w),
         ~ WritesProcess(w)
  PROVE  Gently(procs')
<1> DEFINE s == session[w]
           r == s.req
<1>1. CASE procs' = procs
  BY <1>1 DEF Gently
<1>2. CASE DeleteBoard(w) /\ procs' # procs
  <2> DEFINE bs == Restrict(boards, DOMAIN boards \ {s.board})
             ps == OnBoards(procs, bs)
  <2>1. PICK cs, xs : Commit(w, bs, cs, ps, xs, Idle)
    BY <1>2 DEF DeleteBoard
  <2>2. procs' = ps
    BY <1>2, <2>1, Commits DEF Ends
  <2>3. DOMAIN ps \subseteq DOMAIN procs /\ \A p \in DOMAIN ps : ps[p] = procs[p]
    BY DEF OnBoards, Restrict
  <2> HIDE DEF ps
  <2> QED
    BY <2>2, <2>3 DEF Gently
<1>3. CASE CreateProcess(w) /\ procs' # procs
  <2> DEFINE row == [board |-> s.board, owner |-> r.user, result |-> r.result,
                     details |-> OfferDetails(r.result, r.details)]
  <2>1. PICK p \in Fresh(ProcessIds, procs) :
          procs' = Put(procs, p, row)
    <3>1. \/ Answer(w)
          \/ \E p \in Fresh(ProcessIds, procs) :
               Commit(w, boards, cols, Put(procs, p, row), cells, ThenBoard(s, s.board))
      BY <1>3 DEF CreateProcess
    <3> HIDE DEF row
    <3> QED
      BY <1>3, <3>1, Answers, Commits DEF Ends
  <2>2. OfferOnly(row)
    BY DEF OfferOnly, OfferDetails
  <2>3. p \notin Known
    BY DEF Fresh, Known
  <2> HIDE DEF row
  <2> QED
    BY <2>1, <2>2, <2>3 DEF Gently, Put
<1>4. CASE DeleteProcess(w) /\ procs' # procs
  <2> DEFINE ps == Restrict(procs, DOMAIN procs \ {r.process})
  <2>1. Commit(w, boards, cols, ps, InTables(cells, cols, ps), Idle)
    BY <1>4 DEF DeleteProcess
  <2>2. procs' = ps
    BY <1>4, <2>1, Commits DEF Ends
  <2>3. DOMAIN ps \subseteq DOMAIN procs /\ \A p \in DOMAIN ps : ps[p] = procs[p]
    BY DEF Restrict
  <2> HIDE DEF ps
  <2> QED
    BY <2>2, <2>3 DEF Gently
<1>5. ~ UpdateProcess(w) /\ ~ UpsertStepValue(w)
  BY DEF UpdateProcess, UpsertStepValue, WritesProcess
<1>6. \/ Start(w) \/ ReadBoard(w) \/ ReadColumns(w) \/ Respond(w) \/ ReadMaxSort(w)
      \/ ReadColumn(w) \/ ReadProcess(w) \/ ReadStep(w) \/ ReadCell(w) \/ Abort(w)
      \/ UpdateBoard(w)
      => procs' = procs
  BY DEF Start, ReadBoard, ReadColumns, Respond, ReadMaxSort, ReadColumn, ReadProcess, ReadStep,
         ReadCell, Abort, UpdateBoard, Answer, Continue, db
<1>7. ASSUME NEW bs, NEW cs, NEW xs, NEW t, Commit(w, bs, cs, procs, xs, t) PROVE procs' = procs
  BY <1>7, Commits DEF Ends
<1>8. Backfill(w) \/ CreateBoard(w) \/ AddColumn(w) \/ DeleteColumn(w) \/ ReorderColumns(w)
      => procs' = procs
  <2>1. CASE Answer(w)
    BY <2>1, Answers DEF Ends
  <2>2. Backfill(w) \/ CreateBoard(w) \/ AddColumn(w) \/ DeleteColumn(w) \/ ReorderColumns(w)
        => Answer(w) \/ \E bs, cs, xs, t : Commit(w, bs, cs, procs, xs, t)
    BY DEF Backfill, CreateBoard, AddColumn, DeleteColumn, ReorderColumns
  <2> QED
    BY <1>7, <2>1, <2>2
<1> QED
  BY <1>1, <1>2, <1>3, <1>4, <1>5, <1>6, <1>8 DEF Step

LEMMA OnlySavesWrite ==
  ASSUME IInv, NEW w \in Workers, Step(w), WritesProcess(w)
  PROVE  procs' = procs \/ UpdateProcess(w) \/ UpsertStepValue(w)
<1> DEFINE s == session[w]
           r == s.req
<1>1. s.pc # "idle" /\ r.op \in {"update", "cell"} /\ r.op \in Ops(s.pc)
  BY AtStatement DEF WritesProcess
<1>2. ReadProcess(w) \/ ReadStep(w) \/ ReadCell(w) \/ Abort(w) => procs' = procs
  BY DEF ReadProcess, ReadStep, ReadCell, Abort, Answer, Continue, db
<1> QED
  BY <1>1, <1>2
  DEF Step, Start, ReadBoard, ReadColumns, Respond, ReadMaxSort, Backfill, CreateBoard,
      UpdateBoard, DeleteBoard, AddColumn, ReadColumn, DeleteColumn, ReorderColumns,
      CreateProcess, DeleteProcess, Ops, BoardOps

\* What save_process writes to a process that is stored as it was loaded.
LEMMA SavedIsPut ==
  ASSUME NEW p \in DOMAIN procs, NEW new \in Process, procs[p] \in Process
  PROVE  Saved(p, procs[p], new) = Put(procs, p, new)
<1> DEFINE row == [f \in DOMAIN procs[p] |-> IF new[f] = procs[p][f] THEN procs[p][f] ELSE new[f]]
<1>1. Saved(p, procs[p], new) = [q \in DOMAIN procs |-> IF q = p THEN row ELSE procs[q]]
  BY DEF Saved
<1>2. /\ DOMAIN procs[p] = {"board", "owner", "result", "details"}
      /\ new = [f \in {"board", "owner", "result", "details"} |-> new[f]]
  BY DEF Process
<1>3. row = new /\ DOMAIN procs \cup {p} = DOMAIN procs
  BY <1>2
<1> HIDE DEF row
<1> QED
  BY <1>1, <1>3 DEF Put

\* The row that a session makes of the process it has loaded.
NewRow(s) ==
  IF s.req.op = "update" THEN Updated(s.process, s.req)
  ELSE Rejected(s.process, s.column.kind, s.req.status)

LEMMA NewRowType ==
  ASSUME IInv, NEW w \in Workers, session[w].pc = "write", session[w].req.op \in {"update", "cell"}
  PROVE  session[w].process \in Process /\ NewRow(session[w]) \in Process
<1> DEFINE s == session[w]
           r == s.req
<1>1. Sound(boards, cols, procs, s) /\ r \in Request
  BY AtStatement
<1>2. s.process \in Process
  BY <1>1 DEF Sound, KnowsProcess
<1>3. CASE r.op = "update"
  <2>1. r.result \in Results \cup {Unset} /\ r.details \in Details \cup {None, Unset}
    BY <1>1, <1>3, RequestTypes DEF UpdateRequest
  <2> QED
    BY <1>2, <1>3, <2>1 DEF NewRow, Updated, OfferDetails, Process
<1>4. CASE r.op = "cell"
  BY <1>2, <1>4 DEF NewRow, Rejected, Process, Results
<1> QED
  BY <1>2, <1>3, <1>4

\* What a request commits that writes the process it has loaded.
LEMMA WriterSaves ==
  ASSUME IInv, NEW w \in Workers, Current(session[w]), UpdateProcess(w) \/ UpsertStepValue(w)
  PROVE  LET s == session[w] p == s.req.process IN
         \/ Ends(w)
         \/ /\ Goes(w, Idle)
            /\ p \in DOMAIN procs /\ s.process = procs[p]
            /\ DOMAIN procs' = DOMAIN procs /\ procs'[p] = NewRow(s)
            /\ \A q \in DOMAIN procs \ {p} : procs'[q] = procs[q]
<1> DEFINE s == session[w]
           p == s.req.process
           new == NewRow(s)
<1>1. s.pc = "write" /\ s.req.op \in {"update", "cell"}
  BY DEF UpdateProcess, UpsertStepValue
<1>2. s.process \in Process /\ new \in Process
  BY <1>1, NewRowType
<1>3. CASE Answer(w)
  BY <1>3, Answers
<1>4. CASE p \in DOMAIN procs /\ ~ Answer(w)
  <2>1. \E xs : Commit(w, boards, cols, Saved(p, s.process, new), xs, Idle)
    BY <1>1, <1>4 DEF UpdateProcess, UpsertStepValue, NewRow
  <2>2. s.process = procs[p]
    BY <1>1, <1>4 DEF Current
  <2> HIDE DEF new
  <2>3. Ends(w) \/ (Goes(w, Idle) /\ procs' = Saved(p, procs[p], new))
    BY <2>1, <2>2, Commits
  <2>4. Saved(p, procs[p], new) = Put(procs, p, new)
    BY <1>2, <1>4, <2>2, SavedIsPut
  <2> QED
    BY <1>4, <2>2, <2>3, <2>4 DEF new, Put
<1> QED
  BY <1>3, <1>4 DEF UpdateProcess, UpsertStepValue

\* The loaded process stays current while the request looks for the column and the
\* cell, and while others add, remove and write other processes.
LEMMA CurrentKept ==
  ASSUME IInv, ProcessesApart, \A v \in Workers : Current(session[v]),
         NEW m \in Workers, NEW w \in Workers, Step(w)
  PROVE  Current(session[m])'
<1> DEFINE s == session[m]
           r == s.req
           s2 == session'[m]
<1> SUFFICES ASSUME s2.pc \in {"column", "cell", "write"}, s2.req.op \in {"update", "cell"},
                    s2.req.process \in DOMAIN procs'
             PROVE  procs'[s2.req.process] = s2.process
  BY DEF Current
<1>1. CASE w # m
  <2>1. s2 = s /\ s.pc # "idle"
    BY <1>1, StepAsks DEF Asks
  <2>2. s2.req.process \in Known
    BY <2>1, SeenIds DEF Known
  <2>3. CASE ~ WritesProcess(w)
    <3>1. Gently(procs')
      BY <2>3, OthersAreGentle
    <3> QED
      BY <2>1, <2>2, <3>1 DEF Gently, Current
  <2>4. CASE WritesProcess(w)
    <3>1. r.process # session[w].req.process
      BY <1>1, <2>1, <2>4 DEF ProcessesApart, WritesProcess
    <3>2. r.process \in DOMAIN procs /\ procs'[r.process] = procs[r.process]
      BY <2>1, <2>4, <3>1, OnlySavesWrite, WriterSaves DEF Ends
    <3> QED
      BY <2>1, <3>2 DEF Current
  <2> QED
    BY <2>3, <2>4
<1>2. CASE w = m
  <2>1. ~ Ends(m)
    BY IdleFields DEF Ends, Goes
  <2>2. s.pc # "idle" => Shape(s) /\ r.op \in Ops(s.pc)
    BY AtStatement
  <2>3. CASE Start(w)
    <3>1. PICK x \in Workload[w] :
            Continue(w, CASE x.op = "new" -> [Idle EXCEPT !.pc = "write", !.req = x]
                          [] x.op \in {"update", "remove", "cell"} ->
                               [Idle EXCEPT !.pc = "process", !.req = x]
                          [] OTHER -> [Idle EXCEPT !.pc = "board", !.req = x, !.board = x.board])
      BY <2>3 DEF Start
    <3> DEFINE create == [Idle EXCEPT !.pc = "write", !.req = x]
               process == [Idle EXCEPT !.pc = "process", !.req = x]
               board == [Idle EXCEPT !.pc = "board", !.req = x, !.board = x.board]
    <3>2. /\ create.req = x /\ process.pc = "process" /\ board.pc = "board"
      BY DEF Idle
    <3>3. \/ Continue(w, create) /\ x.op = "new"
          \/ Continue(w, process)
          \/ Continue(w, board)
      BY <3>1
    <3> HIDE DEF create, process, board
    <3> QED
      BY <1>2, <3>2, <3>3, Reads DEF Goes
  <2>4. CASE ReadProcess(w)
    <3> DEFINE t == [s EXCEPT !.pc = IF r.op = "cell" THEN "column" ELSE "write",
                              !.process = procs[r.process]]
    <3>1. Continue(w, t) \/ Answer(w)
      BY <1>2, <2>4 DEF ReadProcess
    <3>2. t.req = r /\ t.process = procs[r.process]
      BY <1>2, <2>2, <2>4 DEF ReadProcess, Shape
    <3> HIDE DEF t
    <3> QED
      BY <1>2, <2>1, <3>1, <3>2, Reads, Answers DEF Goes
  <2>5. CASE ReadStep(w) \/ ReadCell(w)
    <3> DEFINE step == [s EXCEPT !.pc = "cell", !.column = cols[r.column]]
               cell == [s EXCEPT !.pc = "write", !.cell = <<r.process, r.column>> \in DOMAIN cells]
    <3>1. /\ s.pc \in {"column", "cell"}
          /\ Continue(w, step) \/ Continue(w, cell) \/ Answer(w)
      BY <1>2, <2>5 DEF ReadStep, ReadCell
    <3>2. /\ step.req = r /\ step.process = s.process
          /\ cell.req = r /\ cell.process = s.process
      BY <2>2, <3>1 DEF Shape
    <3> HIDE DEF step, cell
    <3> QED
      BY <1>2, <2>1, <3>1, <3>2, Reads, Answers DEF Goes, Current
  <2>6. CASE UpdateProcess(w) \/ UpsertStepValue(w)
    BY <1>2, <2>6, WriterSaves, IdleFields DEF Goes, Ends
  <2>7. CASE ~ (Start(w) \/ ReadProcess(w) \/ ReadStep(w) \/ ReadCell(w) \/ UpdateProcess(w)
                \/ UpsertStepValue(w))
    <3>1. s.pc # "idle" /\ s2.req = r
      BY <1>2, <2>1, <2>7, StepAsks, IdleFields DEF Step, Asks, ReadBoard, ReadColumns, Respond,
         ReadMaxSort, Backfill, CreateBoard, UpdateBoard, DeleteBoard, AddColumn, ReadColumn,
         DeleteColumn, ReorderColumns, CreateProcess, DeleteProcess, Abort
    <3>2. r.op \in BoardOps \cup {"remove"}
      BY <1>2, <2>1, <2>2, <2>7, <3>1, Answers
      DEF Step, ReadBoard, ReadColumns, Respond, ReadMaxSort, Backfill, CreateBoard, UpdateBoard,
          DeleteBoard, AddColumn, ReadColumn, DeleteColumn, ReorderColumns, CreateProcess,
          DeleteProcess, Abort, Ops, BoardOps
    <3> QED
      BY <3>1, <3>2 DEF BoardOps
  <2> QED
    BY <2>3, <2>4, <2>5, <2>6, <2>7
<1> QED
  BY <1>1, <1>2

LEMMA OfferKept ==
  ASSUME IInv, DetailsOnlyWithOffer, NEW w \in Workers, Current(session[w]), Step(w)
  PROVE  DetailsOnlyWithOffer'
<1> DEFINE s == session[w]
           r == s.req
<1>1. \A p \in DOMAIN procs : OfferOnly(procs[p])
  BY DEF DetailsOnlyWithOffer, OfferOnly
<1> SUFFICES \A p \in DOMAIN procs' : OfferOnly(procs'[p])
  BY DEF DetailsOnlyWithOffer, OfferOnly
<1>2. CASE Gently(procs')
  BY <1>1, <1>2 DEF Gently
<1>3. CASE ~ Gently(procs')
  <2>1. WritesProcess(w) /\ procs' # procs
    BY <1>3, OthersAreGentle DEF Gently
  <2>2. UpdateProcess(w) \/ UpsertStepValue(w)
    BY <2>1, OnlySavesWrite
  <2> DEFINE new == NewRow(s)
  <2>3. /\ r.process \in DOMAIN procs /\ s.process = procs[r.process]
        /\ DOMAIN procs' = DOMAIN procs /\ procs'[r.process] = new
        /\ \A q \in DOMAIN procs \ {r.process} : procs'[q] = procs[q]
    BY <2>1, <2>2, WriterSaves DEF Ends
  <2>4. s.process \in Process
    BY <2>3 DEF IInv, Typed, IsTable
  <2>5. OfferOnly(new)
    BY <1>1, <2>3, <2>4 DEF NewRow, OfferOnly, Updated, Rejected, OfferDetails, Process
  <2> HIDE DEF new
  <2> QED
    BY <1>1, <2>3, <2>5
<1> QED
  BY <1>2, <1>3

\* However many requests run at the same time, a process has offer details only
\* while its result is an offer, as long as no two requests under way write the
\* same process: apply_process_updates and apply_rejected_on_failed_step then decide
\* by the result that is stored, although others add and remove processes, columns
\* and boards in between.
THEOREM DetailsWhenProcessesApart ==
  ASSUME \A d \in Seed : \A p \in DOMAIN d.procs :
           d.procs[p].details # None => d.procs[p].result = "offer"
  PROVE  Spec /\ []ProcessesApart => []DetailsOnlyWithOffer
<1> DEFINE PInv == DetailsOnlyWithOffer /\ \A v \in Workers : Current(session[v])
<1>1. Init => PInv
  <2> SUFFICES ASSUME Init PROVE PInv
    OBVIOUS
  <2>1. \A w \in Workers : session[w] = Idle
    BY DEF Init
  <2> QED
    BY <2>1, IdleFields DEF Init, DetailsOnlyWithOffer, Current
<1>2. IInv /\ PInv /\ ProcessesApart /\ [Next]_vars => PInv'
  <2> SUFFICES ASSUME IInv, PInv, ProcessesApart, [Next]_vars PROVE PInv'
    OBVIOUS
  <2>1. CASE Next
    <3>1. PICK w \in Workers : Step(w)
      BY <2>1 DEF Next, Step
    <3>2. DetailsOnlyWithOffer'
      BY <3>1, OfferKept
    <3>3. (\A v \in Workers : Current(session[v]))'
      BY <3>1, CurrentKept
    <3> QED
      BY <3>2, <3>3
  <2>2. CASE UNCHANGED vars
    BY <2>2 DEF vars, DetailsOnlyWithOffer, Current
  <2> QED
    BY <2>1, <2>2
<1>3. PInv => DetailsOnlyWithOffer
  OBVIOUS
<1> QED
  BY <1>1, <1>2, <1>3, InitIsSound, Invariance, PTL DEF Spec

\* Under the same condition, a step that fails, other than Applied, leaves the
\* process rejected, whatever its result was: save_process writes the columns
\* that differ from what was loaded, and what was loaded is still stored.
THEOREM FailureRejectsWhenProcessesApart ==
  Spec /\ []ProcessesApart => FailedStepRejects
<1> DEFINE PInv == \A v \in Workers : Current(session[v])
           Rejects == \A w \in Workers :
                        /\ session[w].pc = "write"
                        /\ session[w].req.op = "cell"
                        /\ session[w].req.status = "failed"
                        /\ session[w].column.kind # Applied
                        /\ session'[w] = Idle
                        /\ db' # db
                        => procs'[session[w].req.process].result = "rejected"
<1>1. Init => PInv
  <2> SUFFICES ASSUME Init PROVE PInv
    OBVIOUS
  <2>1. \A w \in Workers : session[w] = Idle
    BY DEF Init
  <2> QED
    BY <2>1, IdleFields DEF Current
<1>2. IInv /\ PInv /\ ProcessesApart /\ [Next]_vars => PInv' /\ [Rejects]_vars
  <2> SUFFICES ASSUME IInv, PInv, ProcessesApart, [Next]_vars PROVE PInv' /\ [Rejects]_vars
    OBVIOUS
  <2>1. CASE Next
    <3>1. PICK v \in Workers : Step(v)
      BY <2>1 DEF Next, Step
    <3>2. ASSUME NEW w \in Workers, session[w].pc = "write", session[w].req.op = "cell",
                 session[w].req.status = "failed", session[w].column.kind # Applied,
                 session'[w] = Idle, db' # db
          PROVE  procs'[session[w].req.process].result = "rejected"
      <4>1. w = v
        BY <3>1, <3>2, StepAsks, IdleFields DEF Asks
      <4>2. UpsertStepValue(w)
        BY <3>1, <3>2, <4>1
        DEF Step, Start, ReadBoard, ReadColumns, Respond, ReadMaxSort, Backfill, CreateBoard,
            UpdateBoard, DeleteBoard, AddColumn, ReadColumn, DeleteColumn, ReorderColumns,
            CreateProcess, DeleteProcess, ReadProcess, UpdateProcess, ReadStep, ReadCell, Abort,
            Answer, Continue
      <4> DEFINE new == NewRow(session[w])
      <4>3. procs'[session[w].req.process] = new /\ session[w].process \in Process
        BY <3>2, <4>2, WriterSaves DEF Ends, db, IInv, Typed, IsTable
      <4>4. new.result = "rejected"
        BY <3>2, <4>3 DEF NewRow, Rejected, Process
      <4> QED
        BY <4>3, <4>4
    <3>3. PInv'
      BY <3>1, CurrentKept
    <3> QED
      BY <3>2, <3>3
  <2>2. CASE UNCHANGED vars
    BY <2>2 DEF vars, Current
  <2> QED
    BY <2>1, <2>2
<1>3. [Rejects]_vars =>
        [\A w \in Workers :
           /\ session[w].pc = "write"
           /\ session[w].req.op = "cell"
           /\ session[w].req.status = "failed"
           /\ session[w].column.kind # Applied
           /\ session'[w] = Idle
           /\ db' # db
           => procs'[session[w].req.process].result = "rejected"]_vars
  OBVIOUS
<1> HIDE DEF Rejects
<1> QED
  BY <1>1, <1>2, <1>3, InitIsSound, Invariance, PTL DEF Spec, FailedStepRejects

-----------------------------------------------------------------------------
(* Requests that are on different boards *)

\* A request under way at w is on a board, session[w].board.
HasBoard(w) ==
  LET s == session[w] IN
  s.pc # "idle" /\ s.req.op \in BoardOps /\ ~ (s.pc = "write" /\ s.req.op = "new")

\* No two requests under way are on the same board.
BoardsApart ==
  \A v \in Workers : \A w \in Workers \ {v} :
    HasBoard(v) /\ HasBoard(w) => session[v].board # session[w].board

\* What the session s has read of the columns of its board is still so.
Counted(s) ==
  LET C == ColumnsOf(s.board) IN
  /\ s.pc \in {"fillmax", "fill"} => s.missing = Missing(C)
  /\ s.pc = "fill" \/ (s.pc = "write" /\ s.req.op = "add") =>
       s.sort \in Nat /\ \A c \in C : cols[c].sort < s.sort
  /\ s.pc = "write" /\ s.req.op = "reorder" => IsInjective(s.req.ids) /\ Range(s.req.ids) = C
  /\ s.pc \in {"reboard", "recolumns"} => Missing(C) = {}
  /\ s.pc = "answer" => s.columns = C /\ Missing(C) = {}

\* A step leaves the columns of board b as they are.
Leaves(b) ==
  /\ \A c \in ColumnsOf(b) : c \in DOMAIN cols' /\ cols'[c] = cols[c]
  /\ \A c \in DOMAIN cols' : cols'[c].board = b => c \in ColumnsOf(b)

\* The greatest element of a set of integers between -1 and m.
LEMMA MaxOfBounded ==
  ASSUME NEW m \in Nat, NEW S, S \subseteq -1 .. m, S # {}
  PROVE  Max(S) \in S /\ \A y \in S : y <= Max(S)
<1>1. \A y \in S : y \in Int /\ m - y \in Nat
  OBVIOUS
<1> DEFINE gaps == {m - y : y \in S}
           less == OpToRel(<, Nat)
<1>2. IsWellFoundedOn(less, Nat)
  BY NatLessThanWellFounded
<1>3. less = {ss \in Nat \X Nat : ss[1] < ss[2]}
  BY DEF OpToRel
<1> HIDE DEF less
<1>4. gaps \subseteq Nat /\ gaps # {}
  BY <1>1
<1>5. PICK g \in gaps : \A h \in gaps : ~ (<<h, g>> \in less)
  BY <1>2, <1>4, WFMin
<1>6. PICK x \in S : g = m - x
  OBVIOUS
<1>7. \A y \in S : ~ (m - y < m - x)
  BY <1>3, <1>4, <1>5, <1>6
<1>8. ASSUME NEW y \in S PROVE x >= y
  <2>1. x \in Int /\ y \in Int /\ ~ (m - y < m - x)
    BY <1>1, <1>7
  <2> HIDE DEF gaps
  <2> QED
    BY <2>1
<1> QED
  BY <1>1, <1>8 DEF Max

\* get_next_column_sort_order answers a position behind every column of the
\* caller's board.
LEMMA NextIsBehind ==
  ASSUME IInv, NEW u, NEW b, b \in DOMAIN boards => boards[b] = u
  PROVE  /\ NextColumnSort(u, b) \in Nat
         /\ \A c \in ColumnsOf(b) : cols[c].sort < NextColumnSort(u, b)
<1> DEFINE own == {c \in ColumnsOf(b) : cols[c].owner = u}
           S == {cols[c].sort : c \in own} \cup {-1}
<1>1. \A c \in DOMAIN cols : /\ cols[c].board \in DOMAIN boards /\ cols[c].sort \in 0 .. MaxSort
                             /\ cols[c].owner = boards[cols[c].board]
  BY DEF IInv, Storable, CellsOnOneBoard, Joined
<1>2. own = ColumnsOf(b)
  BY <1>1 DEF ColumnsOf
<1>3. MaxSort \in Nat
  BY HiringAssumption
<1>4. S \subseteq -1 .. MaxSort /\ S # {}
  BY <1>1, <1>3 DEF ColumnsOf
<1>5. Max(S) \in S /\ \A y \in S : y <= Max(S)
  BY <1>3, <1>4, MaxOfBounded
<1>6. Max(S) + 1 \in Nat /\ Max(S) \in Int /\ NextColumnSort(u, b) = Max(S) + 1
  BY <1>3, <1>4, <1>5 DEF NextColumnSort
<1>7. ASSUME NEW c \in ColumnsOf(b) PROVE cols[c].sort \in S /\ cols[c].sort \in Int
  BY <1>1, <1>2 DEF ColumnsOf
<1> HIDE DEF S
<1>8. ASSUME NEW c \in ColumnsOf(b) PROVE cols[c].sort < Max(S) + 1
  BY <1>5, <1>6, <1>7
<1> QED
  BY <1>6, <1>8

\* The default columns are in one order.
LEMMA BeforeIsOrder ==
  /\ \A k \in Range(DefaultKinds) : \A l \in Range(DefaultKinds) :
       k # l => Before(k, l) \/ Before(l, k)
  /\ \A k : ~ Before(k, k)
  /\ \A j, k, l : Before(j, k) /\ Before(k, l) => Before(j, l)
<1>1. /\ DOMAIN DefaultKinds \subseteq Int
      /\ \A i, j \in DOMAIN DefaultKinds : DefaultKinds[i] = DefaultKinds[j] => i = j
  BY HiringAssumption DEF IsInjective
<1>2. ASSUME NEW k \in Range(DefaultKinds), NEW l \in Range(DefaultKinds), k # l
      PROVE  Before(k, l) \/ Before(l, k)
  <2>1. PICK i \in DOMAIN DefaultKinds : DefaultKinds[i] = k
    BY DEF Range
  <2>2. PICK j \in DOMAIN DefaultKinds : DefaultKinds[j] = l
    BY DEF Range
  <2>3. i < j \/ j < i
    BY <1>1, <1>2, <2>1, <2>2
  <2> QED
    BY <2>1, <2>2, <2>3 DEF Before
<1>3. ASSUME NEW k, Before(k, k) PROVE FALSE
  <2>1. PICK i, j \in DOMAIN DefaultKinds :
          i < j /\ DefaultKinds[i] = k /\ DefaultKinds[j] = k
    BY <1>3 DEF Before
  <2> QED
    BY <1>1, <2>1
<1>4. ASSUME NEW j, NEW k, NEW l, Before(j, k), Before(k, l) PROVE Before(j, l)
  <2>1. PICK a, b \in DOMAIN DefaultKinds :
          a < b /\ DefaultKinds[a] = j /\ DefaultKinds[b] = k
    BY <1>4 DEF Before
  <2>2. PICK c, d \in DOMAIN DefaultKinds :
          c < d /\ DefaultKinds[c] = k /\ DefaultKinds[d] = l
    BY <1>4 DEF Before
  <2>3. b = c /\ a \in Int /\ b \in Int /\ d \in Int
    BY <1>1, <2>1, <2>2
  <2>4. a < d
    BY <2>1, <2>2, <2>3
  <2> QED
    BY <2>1, <2>2, <2>4 DEF Before
<1> QED
  BY <1>2, <1>3, <1>4

LEMMA DefaultsAreFinite == IsFiniteSet(Range(DefaultKinds))
<1>1. DefaultKinds \in Seq(Range(DefaultKinds))
  BY HiringAssumption DEF Range
<1>2. \A k \in Range(DefaultKinds) : \E n \in 1 .. Len(DefaultKinds) : DefaultKinds[n] = k
  BY HiringAssumption DEF Range
<1> QED
  BY <1>1, <1>2 DEF IsFiniteSet

\* The kinds of K whose default columns are left of that of kind k.
LeftOf(K, k) == {j \in K : Before(j, k)}

\* The columns new are the stored ones and one of each kind k of K, ids[k] on
\* board b, the leftmost at position sort.
Rows(new, ids, K, b, sort) ==
  /\ DOMAIN new = DOMAIN cols \cup Range(ids)
  /\ \A k \in K : ids[k] \in Range(ids) /\ ids[k] \notin DOMAIN cols
  /\ \A c \in Range(ids) : \E k \in K : c = ids[k]
  /\ \A c \in DOMAIN cols : new[c] = cols[c]
  /\ \A k \in K : /\ new[ids[k]].board = b /\ new[ids[k]].kind = k
                  /\ new[ids[k]].sort = sort + Cardinality(LeftOf(K, k))

LEMMA NewRows ==
  ASSUME NEW K, NEW ids \in NewColumnIds(K), NEW b, NEW u, NEW sort
  PROVE  Rows(WithColumns(cols, ids, b, u, sort), ids, K, b, sort)
<1> DEFINE new == WithColumns(cols, ids, b, u, sort)
           KindOf(c) == CHOOSE k \in DOMAIN ids : ids[k] = c
           row(c) == [board |-> b, owner |-> u, kind |-> KindOf(c),
                      sort |-> sort + Cardinality({k \in DOMAIN ids : Before(k, KindOf(c))})]
<1>1. ids \in [K -> Fresh(ColumnIds, cols)] /\ IsInjective(ids)
  BY DEF NewColumnIds
<1>2. DOMAIN ids = K /\ \A k \in K : ids[k] \notin DOMAIN cols
  BY <1>1 DEF Fresh
<1>3. /\ \A k \in K : ids[k] \in Range(ids)
      /\ \A c \in Range(ids) : \E k \in K : c = ids[k]
  BY <1>2 DEF Range
<1>4. new = [c \in DOMAIN cols \cup Range(ids) |-> IF c \in Range(ids) THEN row(c) ELSE cols[c]]
  BY DEF WithColumns
<1>5. ASSUME NEW k \in K PROVE KindOf(ids[k]) = k
  BY <1>1, <1>2 DEF IsInjective
<1>6. ASSUME NEW k \in K
      PROVE  /\ row(ids[k]).board = b /\ row(ids[k]).kind = k
             /\ row(ids[k]).sort = sort + Cardinality(LeftOf(K, k))
  BY <1>2, <1>5 DEF LeftOf
<1> HIDE DEF row, KindOf, new
<1>7. \A k \in K : new[ids[k]] = row(ids[k])
  BY <1>3, <1>4
<1>8. \A c \in DOMAIN cols : new[c] = cols[c]
  BY <1>2, <1>3, <1>4
<1>9. DOMAIN new = DOMAIN cols \cup Range(ids)
  BY <1>3, <1>4
<1>10. Rows(new, ids, K, b, sort)
  BY <1>2, <1>3, <1>6, <1>7, <1>8, <1>9 DEF Rows
<1> QED
  BY <1>10 DEF new

LEMMA OnlyTheseWriteColumns ==
  ASSUME IInv, NEW w \in Workers, Step(w)
  PROVE  \/ cols' = cols
         \/ Backfill(w) \/ CreateBoard(w) \/ DeleteBoard(w) \/ AddColumn(w) \/ DeleteColumn(w)
         \/ ReorderColumns(w)
<1>1. \/ Start(w) \/ ReadBoard(w) \/ ReadColumns(w) \/ Respond(w) \/ ReadMaxSort(w)
      \/ UpdateBoard(w) \/ ReadColumn(w) \/ ReadProcess(w) \/ ReadStep(w) \/ ReadCell(w)
      \/ Abort(w)
      => cols' = cols
  BY DEF Start, ReadBoard, ReadColumns, Respond, ReadMaxSort, UpdateBoard, ReadColumn,
         ReadProcess, ReadStep, ReadCell, Abort, Answer, Continue, db
<1>2. CreateProcess(w) \/ UpdateProcess(w) \/ DeleteProcess(w) \/ UpsertStepValue(w)
      => cols' = cols
  <2>1. CreateProcess(w) \/ UpdateProcess(w) \/ DeleteProcess(w) \/ UpsertStepValue(w)
        => Answer(w) \/ \E ps, xs, t : Commit(w, boards, cols, ps, xs, t)
    BY DEF CreateProcess, UpdateProcess, DeleteProcess, UpsertStepValue
  <2> QED
    BY <2>1, Answers, Commits DEF Ends
<1> QED
  BY <1>1, <1>2 DEF Step

LEMMA UntouchedStay ==
  ASSUME cols' = cols, NEW b
  PROVE  Leaves(b)
  BY DEF Leaves, ColumnsOf

\* A request changes the columns of no board but its own and the one it creates.
LEMMA OtherBoardsStay ==
  ASSUME IInv, NEW w \in Workers, Step(w), NEW b \in Known,
         HasBoard(w) => session[w].board # b
  PROVE  Leaves(b)
<1> DEFINE s == session[w]
           r == s.req
<1>1. CASE cols' = cols
  BY <1>1, UntouchedStay
<1>2. CASE cols' # cols
  <2>1. ~ Ends(w)
    BY <1>2 DEF Ends
  <2>2. ASSUME NEW own, own # b, NEW bs, NEW ps, NEW xs, NEW t, NEW K, NEW ids \in NewColumnIds(K),
               NEW u, NEW sort, Commit(w, bs, WithColumns(cols, ids, own, u, sort), ps, xs, t)
        PROVE  Leaves(b)
    <3>1. cols' = WithColumns(cols, ids, own, u, sort)
      BY <2>1, <2>2, Commits
    <3>2. Rows(WithColumns(cols, ids, own, u, sort), ids, K, own, sort)
      BY NewRows
    <3>3. Rows(cols', ids, K, own, sort)
      BY <3>1, <3>2
    <3> QED
      BY <2>2, <3>3 DEF Rows, Leaves, ColumnsOf
  <2>3. CASE Backfill(w) \/ AddColumn(w)
    <3>1. s.board # b
      BY <2>3, AtStatement DEF HasBoard, Backfill, AddColumn, Ops, BoardOps
    <3>2. PICK own, u, sort : own = s.board /\ u = r.user /\ sort = s.sort
      OBVIOUS
    <3>3. PICK K, ids, t : /\ ids \in NewColumnIds(K)
                           /\ Commit(w, boards, WithColumns(cols, ids, own, u, sort), procs, cells, t)
      BY <2>1, <2>3, <3>2, Answers DEF Backfill, AddColumn
    <3> QED
      BY <2>2, <3>1, <3>2, <3>3
  <2>4. CASE CreateBoard(w)
    <3>1. PICK own, ids, u, t :
            /\ own \in Fresh(BoardIds, boards) /\ ids \in NewColumnIds(Range(DefaultKinds))
            /\ Commit(w, Put(boards, own, u), WithColumns(cols, ids, own, u, 0), procs, cells, t)
      BY <2>1, <2>4, Answers DEF CreateBoard
    <3>2. own # b
      BY <3>1 DEF Fresh, Known
    <3> QED
      BY <2>2, <3>1, <3>2
  <2>5. CASE DeleteBoard(w)
    <3> DEFINE bs == Restrict(boards, DOMAIN boards \ {s.board})
               cs == OnBoards(cols, bs)
    <3>1. s.board # b
      BY <2>5 DEF HasBoard, DeleteBoard, BoardOps
    <3>2. PICK ps, xs, t : Commit(w, bs, cs, ps, xs, t)
      BY <2>5 DEF DeleteBoard
    <3>3. DOMAIN bs = DOMAIN boards \ {s.board}
      BY DEF Restrict
    <3>4. /\ DOMAIN cs = {c \in DOMAIN cols : cols[c].board \in DOMAIN bs}
          /\ \A c \in DOMAIN cs : cs[c] = cols[c]
      BY DEF OnBoards, Restrict
    <3>5. \A c \in DOMAIN cols : cols[c].board \in DOMAIN boards
      BY DEF IInv, Storable
    <3> HIDE DEF bs, cs
    <3>6. cols' = cs
      BY <2>1, <3>2, Commits
    <3> QED
      BY <3>1, <3>3, <3>4, <3>5, <3>6 DEF Leaves, ColumnsOf
  <2>6. CASE DeleteColumn(w)
    <3> DEFINE cs == Restrict(cols, DOMAIN cols \ {r.column})
    <3>1. s.board # b
      BY <2>6 DEF HasBoard, DeleteColumn, BoardOps
    <3>2. r.column \in DOMAIN cols => cols[r.column].board = s.board
      BY <2>6, AtStatement DEF DeleteColumn, Sound, KnowsColumn
    <3>3. PICK xs, t : Commit(w, boards, cs, procs, xs, t)
      BY <2>6 DEF DeleteColumn
    <3>4. DOMAIN cs = DOMAIN cols \ {r.column} /\ \A c \in DOMAIN cs : cs[c] = cols[c]
      BY DEF Restrict
    <3> HIDE DEF cs
    <3>5. cols' = cs
      BY <2>1, <3>3, Commits
    <3> QED
      BY <3>1, <3>2, <3>4, <3>5 DEF Leaves, ColumnsOf
  <2>7. CASE ReorderColumns(w)
    <3> DEFINE cs == [c \in DOMAIN cols |->
                        IF c \in Range(r.ids) /\ cols[c].board = s.board
                        THEN [cols[c] EXCEPT !.sort = (CHOOSE i \in DOMAIN r.ids : r.ids[i] = c) - 1]
                        ELSE cols[c]]
    <3>1. s.board # b
      BY <2>7 DEF HasBoard, ReorderColumns, BoardOps
    <3>2. Commit(w, boards, cs, procs, cells, ThenBoard(s, s.board))
      BY <2>7 DEF ReorderColumns
    <3>3. DOMAIN cs = DOMAIN cols /\ \A c \in ColumnsOf(b) : cs[c] = cols[c]
      BY <3>1 DEF ColumnsOf
    <3>4. ASSUME NEW c \in DOMAIN cols PROVE cs[c].board = cols[c].board
      <4>1. cols[c] \in Column
        BY DEF IInv, Typed, IsTable
      <4>2. \A n : [cols[c] EXCEPT !.sort = n].board = cols[c].board
        BY <4>1 DEF Column
      <4> QED
        BY <4>2
    <3> HIDE DEF cs
    <3>5. cols' = cs
      BY <2>1, <3>2, Commits
    <3> QED
      BY <3>3, <3>4, <3>5 DEF Leaves, ColumnsOf
  <2> QED
    BY <1>2, <2>3, <2>4, <2>5, <2>6, <2>7, OnlyTheseWriteColumns
<1> QED
  BY <1>1, <1>2

\* New columns of kinds that have an order, behind the columns of the board, keep
\* the positions on each board distinct.
LEMMA AddKeepsOrder ==
  ASSUME IInv, ColumnsOrdered, NEW K, NEW ids \in NewColumnIds(K), NEW b, NEW u, NEW sort \in Int,
         K \subseteq Range(DefaultKinds) \/ \E k : K = {k},
         \A c \in ColumnsOf(b) : cols[c].sort < sort,
         cols' = WithColumns(cols, ids, b, u, sort)
  PROVE  ColumnsOrdered'
<1>1. /\ DOMAIN cols' = DOMAIN cols \cup Range(ids)
      /\ \A k \in K : ids[k] \in Range(ids)
      /\ \A c \in Range(ids) : \E k \in K : c = ids[k]
      /\ \A k \in K : ids[k] \notin DOMAIN cols
      /\ \A c \in DOMAIN cols : cols'[c] = cols[c]
      /\ \A k \in K : /\ cols'[ids[k]].board = b /\ cols'[ids[k]].kind = k
                      /\ cols'[ids[k]].sort = sort + Cardinality(LeftOf(K, k))
  <2>1. Rows(WithColumns(cols, ids, b, u, sort), ids, K, b, sort)
    BY NewRows
  <2>2. Rows(cols', ids, K, b, sort)
    BY <2>1
  <2> QED
    BY <2>2 DEF Rows
<1>2. IsFiniteSet(K)
  <2>1. CASE K \subseteq Range(DefaultKinds)
    BY <2>1, DefaultsAreFinite, FS_Subset
  <2>2. CASE \E k : K = {k}
    BY <2>2, FS_Singleton
  <2> QED
    BY <2>1, <2>2
<1>3. \A k \in K : \A l \in K : k # l => Before(k, l) \/ Before(l, k)
  BY BeforeIsOrder
<1>4. ASSUME NEW k \in K PROVE IsFiniteSet(LeftOf(K, k)) /\ Cardinality(LeftOf(K, k)) \in Nat
  <2>1. IsFiniteSet(LeftOf(K, k))
    BY <1>2, FS_Subset DEF LeftOf
  <2> QED
    BY <2>1, FS_CardinalityType
<1>5. ASSUME NEW k \in K, NEW l \in K, Before(k, l)
      PROVE  Cardinality(LeftOf(K, k)) # Cardinality(LeftOf(K, l))
  <2>1. LeftOf(K, k) \in SUBSET LeftOf(K, l) /\ k \in LeftOf(K, l) /\ k \notin LeftOf(K, k)
    BY <1>5, BeforeIsOrder DEF LeftOf
  <2>2. IsFiniteSet(LeftOf(K, l))
    BY <1>4
  <2> QED
    BY <2>1, <2>2, FS_Subset
<1>6. \A k \in K : \A l \in K : k # l => Cardinality(LeftOf(K, k)) # Cardinality(LeftOf(K, l))
  BY <1>3, <1>5
<1>7. \A k \in K : Cardinality(LeftOf(K, k)) \in Nat
  BY <1>4
<1>8. \A c \in DOMAIN cols : cols[c].sort \in Int
  BY DEF IInv, Storable
<1> SUFFICES ASSUME NEW c \in DOMAIN cols', NEW d \in DOMAIN cols', c # d,
                    cols'[c].board = cols'[d].board
             PROVE  cols'[c].sort # cols'[d].sort
  BY DEF ColumnsOrdered
<1>9. CASE c \in DOMAIN cols /\ d \in DOMAIN cols
  BY <1>1, <1>9 DEF ColumnsOrdered
<1>10. CASE c \notin DOMAIN cols /\ d \notin DOMAIN cols
  <2>1. PICK k \in K : c = ids[k]
    BY <1>1, <1>10
  <2>2. PICK l \in K : d = ids[l]
    BY <1>1, <1>10
  <2>3. Cardinality(LeftOf(K, k)) # Cardinality(LeftOf(K, l))
    BY <1>6, <2>1, <2>2
  <2> QED
    BY <1>1, <1>7, <2>1, <2>2, <2>3
<1>11. ASSUME NEW x \in DOMAIN cols, NEW k \in K, cols'[x].board = cols'[ids[k]].board
       PROVE  cols'[x].sort < cols'[ids[k]].sort
  <2>1. x \in ColumnsOf(b)
    BY <1>1, <1>11 DEF ColumnsOf
  <2>2. cols[x].sort < sort /\ cols[x].sort \in Int /\ Cardinality(LeftOf(K, k)) \in Nat
    BY <1>7, <1>8, <2>1
  <2> QED
    BY <1>1, <2>2
<1>12. \A x \in DOMAIN cols' : cols'[x].sort \in Int
  BY <1>1, <1>7, <1>8
<1>13. CASE c \in DOMAIN cols /\ d \notin DOMAIN cols
  <2>1. PICK k \in K : d = ids[k]
    BY <1>1, <1>13
  <2> QED
    BY <1>11, <1>12, <1>13, <2>1
<1>14. CASE c \notin DOMAIN cols /\ d \in DOMAIN cols
  <2>1. PICK k \in K : c = ids[k]
    BY <1>1, <1>14
  <2> QED
    BY <1>11, <1>12, <1>14, <2>1
<1> QED
  BY <1>9, <1>10, <1>13, <1>14

\* With the columns of the missing kinds a board misses none.
LEMMA AddFills ==
  ASSUME NEW b, NEW ids \in NewColumnIds(Missing(ColumnsOf(b))), NEW u, NEW sort,
         cols' = WithColumns(cols, ids, b, u, sort)
  PROVE  Missing(ColumnsOf(b))' = {}
<1> DEFINE K == Missing(ColumnsOf(b))
           old == KindsOf(ColumnsOf(b))
<1>1. /\ DOMAIN cols' = DOMAIN cols \cup Range(ids)
      /\ \A k \in K : ids[k] \in Range(ids)
      /\ \A c \in Range(ids) : \E k \in K : c = ids[k]
      /\ \A c \in DOMAIN cols : cols'[c] = cols[c]
      /\ \A k \in K : cols'[ids[k]].board = b /\ cols'[ids[k]].kind = k
  <2>1. Rows(WithColumns(cols, ids, b, u, sort), ids, K, b, sort)
    BY NewRows
  <2>2. Rows(cols', ids, K, b, sort)
    BY <2>1
  <2> QED
    BY <2>2 DEF Rows
<1>2. K = IF Applied \in old THEN Range(DefaultKinds) \ old ELSE {}
  BY DEF Missing
<1> HIDE DEF K
<1>3. KindsOf(ColumnsOf(b))' = old \cup K
  <2>1. ASSUME NEW k \in K PROVE k \in KindsOf(ColumnsOf(b))'
    BY <1>1 DEF KindsOf, ColumnsOf
  <2>2. ASSUME NEW k \in old PROVE k \in KindsOf(ColumnsOf(b))'
    BY <1>1 DEF KindsOf, ColumnsOf
  <2>3. ASSUME NEW k \in KindsOf(ColumnsOf(b))' PROVE k \in old \cup K
    BY <1>1 DEF KindsOf, ColumnsOf
  <2> HIDE DEF old
  <2> QED
    BY <2>1, <2>2, <2>3
<1> HIDE DEF old
<1> QED
  BY <1>2, <1>3 DEF Missing

LEMMA SameColumns ==
  ASSUME NEW m, NEW s, Counted(s), Leaves(s.board), session'[m] = s
  PROVE  Counted(session[m])'
<1>1. ColumnsOf(session[m].board)' = {c \in DOMAIN cols' : cols'[c].board = s.board}
  BY DEF ColumnsOf
<1>2. /\ {c \in DOMAIN cols' : cols'[c].board = s.board} = ColumnsOf(s.board)
      /\ \A c \in ColumnsOf(s.board) : cols'[c] = cols[c]
  BY DEF ColumnsOf, Leaves
<1>3. ColumnsOf(session[m].board)' = ColumnsOf(s.board)
  BY <1>1, <1>2
<1>4. Missing(ColumnsOf(session[m].board))' = Missing(ColumnsOf(s.board))
  <2>1. KindsOf(ColumnsOf(session[m].board))' = KindsOf(ColumnsOf(s.board))
    BY <1>2, <1>3 DEF KindsOf
  <2> QED
    BY <2>1 DEF Missing
<1> DEFINE C == ColumnsOf(s.board)
           M == Missing(C)
<1>5. /\ s.pc \in {"fillmax", "fill"} => s.missing = M
      /\ (s.pc = "fill" \/ (s.pc = "write" /\ s.req.op = "add")) =>
           s.sort \in Nat /\ \A c \in C : cols[c].sort < s.sort
      /\ (s.pc = "write" /\ s.req.op = "reorder") =>
           IsInjective(s.req.ids) /\ Range(s.req.ids) = C
      /\ s.pc \in {"reboard", "recolumns"} => M = {}
      /\ s.pc = "answer" => s.columns = C /\ M = {}
  BY DEF Counted
<1> HIDE DEF C, M
<1> QED
  BY <1>2, <1>3, <1>4, <1>5 DEF Counted, C, M

\* Statements of m at which nothing has been counted yet.
LEMMA Quiet ==
  ASSUME NEW m, session'[m].pc \in {"idle", "board", "columns", "max", "column", "process", "cell"}
                \/ (session'[m].pc = "write" /\ session'[m].req.op \notin {"add", "reorder"})
  PROVE  Counted(session[m])'
  BY DEF Counted

LEMMA LoadedIsCounted ==
  ASSUME NEW s, Shape(s), s.pc \in {"columns", "recolumns"}, s.req.op \in BoardOps,
         Missing(ColumnsOf(s.board)) = {}
  PROVE  Counted(Loaded(s, ColumnsOf(s.board)))
<1> DEFINE r == s.req
           C == ColumnsOf(s.board)
           t(pc) == [s EXCEPT !.pc = pc]
           answer == [s EXCEPT !.pc = "answer", !.columns = C]
<1>1. \A pc : t(pc).pc = pc /\ t(pc).req = r /\ t(pc).board = s.board
  BY DEF Shape
<1>2. answer.pc = "answer" /\ answer.req = r /\ answer.board = s.board /\ answer.columns = C
  BY DEF Shape
<1>3. Missing(C) = {}
  OBVIOUS
<1>4. Counted(answer)
  BY <1>2, <1>3 DEF Counted
<1>5. Counted(Idle)
  BY IdleFields DEF Counted
<1>6. Counted(t("max")) /\ Counted(t("column"))
  BY <1>1 DEF Counted
<1>7. r.op \notin {"add", "reorder"} => Counted(t("write"))
  <2>1. t("write").pc = "write" /\ t("write").req = r
    BY <1>1
  <2> HIDE DEF t
  <2> QED
    BY <2>1 DEF Counted
<1>8. IsInjective(r.ids) /\ Range(r.ids) = C /\ r.op = "reorder" => Counted(t("write"))
  <2>1. t("write").pc = "write" /\ t("write").req = r /\ t("write").board = s.board
    BY <1>1
  <2> HIDE DEF t
  <2> QED
    BY <2>1 DEF Counted
<1>9. \/ Loaded(s, C) \in {answer, Idle, t("max"), t("column")}
      \/ Loaded(s, C) = t("write") /\ r.op \notin {"add", "reorder"}
      \/ Loaded(s, C) = t("write") /\ r.op = "reorder" /\ IsInjective(r.ids) /\ Range(r.ids) = C
  BY DEF Loaded
<1> HIDE DEF answer, t, C
<1>10. Counted(Loaded(s, C))
  BY <1>4, <1>5, <1>6, <1>7, <1>8, <1>9
<1> QED
  BY <1>10 DEF C

\* What m has counted is so while m is at its statements.
LEMMA WriterCounts ==
  ASSUME IInv, NEW m \in Workers, Counted(session[m]), Step(m)
  PROVE  Counted(session[m])'
<1> DEFINE s == session[m]
           r == s.req
           C == ColumnsOf(s.board)
<1>1. ASSUME Ends(m) PROVE Counted(session[m])'
  BY <1>1, IdleFields, Quiet DEF Ends, Goes
<1>2. ASSUME NEW t, Continue(m, t), Counted(t) PROVE Counted(session[m])'
  BY <1>2, Reads, SameColumns, UntouchedStay DEF Goes
<1>3. ASSUME NEW t, Continue(m, t),
             \/ t.pc \in {"idle", "board", "columns", "column", "process", "cell"}
             \/ t.pc = "write" /\ t.req.op \notin {"add", "reorder"}
      PROVE  Counted(session[m])'
  BY <1>3, Reads, Quiet DEF Goes
<1>4. ASSUME NEW bs, NEW cs, NEW ps, NEW xs, NEW t, Commit(m, bs, cs, ps, xs, t),
             t.pc \in {"idle", "board"}
      PROVE  Counted(session[m])'
  BY <1>1, <1>4, Commits, Quiet DEF Goes
<1>5. s.pc # "idle" => Shape(s) /\ r.op \in Ops(s.pc)
  BY AtStatement
<1>6. ASSUME NEW b PROVE ThenBoard(s, b).pc = "board"
  BY ThenBoardFields
<1>7. CASE Start(m)
  <2>1. PICK x \in Workload[m] :
          Continue(m, CASE x.op = "new" -> [Idle EXCEPT !.pc = "write", !.req = x]
                        [] x.op \in {"update", "remove", "cell"} ->
                             [Idle EXCEPT !.pc = "process", !.req = x]
                        [] OTHER -> [Idle EXCEPT !.pc = "board", !.req = x, !.board = x.board])
    BY <1>7 DEF Start
  <2> DEFINE create == [Idle EXCEPT !.pc = "write", !.req = x]
             process == [Idle EXCEPT !.pc = "process", !.req = x]
             board == [Idle EXCEPT !.pc = "board", !.req = x, !.board = x.board]
  <2>2. /\ create.pc = "write" /\ create.req = x
        /\ process.pc = "process" /\ board.pc = "board"
    BY DEF Idle
  <2>3. \/ Continue(m, create) /\ x.op = "new"
        \/ Continue(m, process)
        \/ Continue(m, board)
    BY <2>1
  <2> HIDE DEF create, process, board
  <2> QED
    BY <1>3, <2>2, <2>3
<1>8. CASE ReadBoard(m)
  <2> DEFINE t(pc) == [s EXCEPT !.pc = pc]
  <2>1. s.pc \in {"board", "reboard"} /\ Shape(s)
    BY <1>5, <1>8 DEF ReadBoard
  <2>2. \/ Answer(m)
        \/ s.pc = "board" /\ Continue(m, t("columns"))
        \/ s.pc = "reboard" /\ Continue(m, t("recolumns"))
    BY <1>8 DEF ReadBoard
  <2>3. t("columns").pc = "columns" /\ t("recolumns").pc = "recolumns" /\ t("recolumns").board = s.board
    BY <2>1 DEF Shape
  <2> HIDE DEF t
  <2>4. s.pc = "reboard" => Counted(t("recolumns"))
    BY <2>3 DEF Counted
  <2> QED
    BY <1>1, <1>2, <1>3, <2>2, <2>3, <2>4, Answers
<1>9. CASE ReadColumns(m)
  <2> DEFINE t == [s EXCEPT !.pc = "fillmax", !.missing = Missing(C), !.columns = C]
  <2>1. s.pc \in {"columns", "recolumns"} /\ Shape(s) /\ r.op \in BoardOps
    BY <1>5, <1>9 DEF ReadColumns, Ops
  <2>2. t.pc = "fillmax" /\ t.board = s.board /\ t.missing = Missing(C)
    BY <2>1 DEF Shape
  <2>3. \/ Continue(m, t)
        \/ (s.pc = "recolumns" \/ Missing(C) = {}) /\ Continue(m, Loaded(s, C))
    BY <1>9, <2>1 DEF ReadColumns
  <2> HIDE DEF t
  <2>4. Counted(t)
    BY <2>2 DEF Counted
  <2>5. s.pc = "recolumns" => Missing(C) = {}
    BY DEF Counted
  <2>6. Missing(C) = {} => Counted(Loaded(s, C))
    BY <2>1, LoadedIsCounted
  <2> QED
    BY <1>2, <2>3, <2>4, <2>5, <2>6
<1>10. CASE ReadMaxSort(m)
  <2> DEFINE next == NextColumnSort(r.user, s.board)
             t(pc) == [s EXCEPT !.pc = pc, !.sort = next]
  <2>1. s.pc \in {"fillmax", "max"} /\ Shape(s)
    BY <1>5, <1>10 DEF ReadMaxSort
  <2>2. \/ s.pc = "max" /\ r.op = "add" /\ Continue(m, t("write"))
        \/ s.pc = "fillmax" /\ Continue(m, t("fill"))
    BY <1>5, <1>10, <2>1 DEF ReadMaxSort, Ops
  <2>3. \A pc : /\ t(pc).pc = pc /\ t(pc).board = s.board /\ t(pc).req = r /\ t(pc).sort = next
                /\ t(pc).missing = s.missing
    BY <2>1 DEF Shape
  <2>4. next \in Nat /\ \A c \in C : cols[c].sort < next
    <3>1. s.board \in DOMAIN boards => boards[s.board] = r.user
      BY <2>1 DEF IInv, Sound, AtBoard
    <3> QED
      BY <3>1, NextIsBehind
  <2> HIDE DEF t, next
  <2>5. r.op = "add" => Counted(t("write"))
    BY <2>3, <2>4 DEF Counted
  <2>6. s.pc = "fillmax" => Counted(t("fill"))
    BY <2>3, <2>4 DEF Counted
  <2> QED
    BY <1>2, <2>2, <2>5, <2>6
<1>11. CASE Backfill(m)
  <2> DEFINE t == [s EXCEPT !.pc = "reboard", !.sort = 0, !.columns = {}, !.missing = {}]
  <2>1. s.pc = "fill" /\ Shape(s)
    BY <1>5, <1>11 DEF Backfill
  <2>2. t.pc = "reboard" /\ t.board = s.board
    BY <2>1 DEF Shape
  <2>3. s.missing = Missing(C)
    BY <2>1 DEF Counted
  <2>4. \/ Answer(m)
        \/ \E ids \in NewColumnIds(Missing(C)) :
             Commit(m, boards, WithColumns(cols, ids, s.board, r.user, s.sort), procs, cells, t)
    BY <1>11, <2>3 DEF Backfill
  <2> HIDE DEF t
  <2>5. CASE Answer(m)
    BY <1>1, <2>5, Answers
  <2>6. CASE ~ Answer(m) /\ ~ Ends(m)
    <3>1. PICK b, u, sort : b = s.board /\ u = r.user /\ sort = s.sort
      OBVIOUS
    <3>2. PICK ids \in NewColumnIds(Missing(ColumnsOf(b))) :
            Commit(m, boards, WithColumns(cols, ids, b, u, sort), procs, cells, t)
      BY <2>4, <2>6, <3>1
    <3>3. session'[m] = t /\ cols' = WithColumns(cols, ids, b, u, sort)
      BY <2>6, <3>2, Commits DEF Goes
    <3>4. Missing(ColumnsOf(b))' = {}
      BY <3>3, AddFills
    <3>5. session'[m].board = b /\ session'[m].pc = "reboard"
      BY <2>2, <3>1, <3>3
    <3> QED
      BY <3>4, <3>5 DEF Counted
  <2> QED
    BY <1>1, <2>5, <2>6
<1>12. CASE Respond(m) \/ Abort(m)
  BY <1>1, <1>12, Answers DEF Respond, Abort
<1>13. CASE UpdateBoard(m)
  <2>1. Answer(m) \/ Continue(m, ThenBoard(s, s.board))
    BY <1>13 DEF UpdateBoard
  <2> QED
    BY <1>1, <1>3, <1>6, <2>1, Answers
<1>14. CASE CreateBoard(m) \/ DeleteBoard(m) \/ AddColumn(m) \/ DeleteColumn(m) \/ ReorderColumns(m)
            \/ CreateProcess(m) \/ UpdateProcess(m) \/ DeleteProcess(m) \/ UpsertStepValue(m)
  <2>1. \/ Answer(m)
        \/ \E bs, cs, ps, xs, b : \/ Commit(m, bs, cs, ps, xs, ThenBoard(s, b))
                                  \/ Commit(m, bs, cs, ps, xs, Idle)
    BY <1>14 DEF CreateBoard, DeleteBoard, AddColumn, DeleteColumn, ReorderColumns, CreateProcess,
                 UpdateProcess, DeleteProcess, UpsertStepValue
  <2> QED
    BY <1>1, <1>4, <1>6, <2>1, Answers, IdleFields
<1>15. CASE ReadColumn(m) \/ ReadProcess(m) \/ ReadStep(m) \/ ReadCell(m)
  <2> DEFINE loaded(pc) == [s EXCEPT !.pc = pc, !.process = procs[r.process]]
             found == [s EXCEPT !.pc = "write"]
             step == [s EXCEPT !.pc = "cell", !.column = cols[r.column]]
             cell == [s EXCEPT !.pc = "write", !.cell = <<r.process, r.column>> \in DOMAIN cells]
  <2>1. Shape(s) /\ r.op \in {"drop", "update", "remove", "cell"}
    BY <1>5, <1>15 DEF ReadProcess, ReadColumn, ReadStep, ReadCell, Ops
  <2>2. /\ found.pc = "write" /\ found.req = r /\ step.pc = "cell"
        /\ cell.pc = "write" /\ cell.req = r
        /\ \A pc : loaded(pc).pc = pc /\ loaded(pc).req = r
    BY <2>1 DEF Shape
  <2>3. \/ Answer(m) \/ Continue(m, found) \/ Continue(m, step) \/ Continue(m, cell)
        \/ Continue(m, loaded("column")) \/ Continue(m, loaded("write"))
    BY <1>15 DEF ReadProcess, ReadColumn, ReadStep, ReadCell
  <2> HIDE DEF loaded, found, step, cell
  <2> QED
    BY <1>1, <1>3, <2>1, <2>2, <2>3, Answers
<1> QED
  BY <1>7, <1>8, <1>9, <1>10, <1>11, <1>12, <1>13, <1>14, <1>15 DEF Step

LEMMA CountedKept ==
  ASSUME IInv, BoardsApart, NEW m \in Workers, Counted(session[m]), NEW w \in Workers, Step(w)
  PROVE  Counted(session[m])'
<1>1. CASE w = m
  BY <1>1, WriterCounts
<1>2. CASE w # m
  <2> DEFINE s == session[m]
  <2>1. session'[m] = s
    BY <1>2, StepAsks DEF Asks
  <2>2. CASE HasBoard(m)
    <3>1. s.board \in Known
      BY <2>2, SeenIds DEF HasBoard, Known
    <3>2. HasBoard(w) => session[w].board # s.board
      BY <1>2, <2>2 DEF BoardsApart
    <3>3. Leaves(s.board)
      BY <3>1, <3>2, OtherBoardsStay
    <3> QED
      BY <2>1, <3>3, SameColumns
  <2>3. CASE ~ HasBoard(m)
    <3>1. \/ s.pc \in {"idle", "process", "column", "cell"}
          \/ s.pc = "write" /\ s.req.op \notin {"add", "reorder"}
      BY <2>3, AtStatement DEF HasBoard, Ops, BoardOps
    <3> QED
      BY <2>1, <3>1, Quiet
  <2> QED
    BY <2>2, <2>3
<1> QED
  BY <1>1, <1>2

LEMMA CountedStutters ==
  ASSUME UNCHANGED vars, \A v \in Workers : Counted(session[v])
  PROVE  \A v \in Workers : Counted(session[v])'
<1> SUFFICES ASSUME NEW v \in Workers PROVE Counted(session[v])'
  OBVIOUS
<1>1. Leaves(session[v].board) /\ session'[v] = session[v]
  BY UntouchedStay DEF vars
<1> QED
  BY <1>1, SameColumns

\* reorder_columns numbers the columns of the board by their place in the payload.
LEMMA ReorderKeepsOrder ==
  ASSUME IInv, ColumnsOrdered, NEW m \in Workers, Counted(session[m]), ReorderColumns(m)
  PROVE  ColumnsOrdered'
<1> DEFINE s == session[m]
           ids == s.req.ids
           C == ColumnsOf(s.board)
           place(c) == CHOOSE i \in DOMAIN ids : ids[i] = c
           new == [c \in DOMAIN cols |->
                     IF c \in Range(ids) /\ cols[c].board = s.board
                     THEN [cols[c] EXCEPT !.sort = place(c) - 1]
                     ELSE cols[c]]
<1>1. s.pc = "write" /\ s.req.op = "reorder"
  BY DEF ReorderColumns
<1>2. IsInjective(ids) /\ Range(ids) = C
  BY <1>1 DEF Counted
<1>3. DOMAIN ids \subseteq Int
  <2>1. s.req \in Request
    BY <1>1, AtStatement
  <2>2. ids \in Seq(ColumnIds)
    BY <1>1, <2>1, HiringAssumption
    DEF Request, BoardRequest, NewBoardRequest, AddColumnRequest, DropColumnRequest,
        ReorderRequest, NewProcessRequest, UpdateRequest, DropProcessRequest, CellRequest
  <2> QED
    BY <2>2
<1>4. Commit(m, boards, new, procs, cells, ThenBoard(s, s.board))
  BY DEF ReorderColumns
<1>5. cols' = cols \/ cols' = new
  <2> HIDE DEF new
  <2> QED
    BY <1>4, Commits DEF Ends
<1>6. ASSUME NEW c \in C PROVE place(c) \in DOMAIN ids /\ ids[place(c)] = c
  <2>1. \E i \in DOMAIN ids : ids[i] = c
    BY <1>2 DEF Range
  <2> QED
    BY <2>1
<1>7. \A c \in DOMAIN cols : cols[c] \in Column
  BY DEF IInv, Typed, IsTable
<1>8. ASSUME NEW c \in DOMAIN cols
      PROVE  /\ new[c].board = cols[c].board
             /\ c \in C => new[c].sort = place(c) - 1
             /\ c \notin C => new[c].sort = cols[c].sort
  <2>1. CASE c \in C
    <3>1. new[c] = [cols[c] EXCEPT !.sort = place(c) - 1]
      BY <1>2, <2>1 DEF ColumnsOf
    <3> HIDE DEF place, new
    <3> QED
      BY <1>7, <2>1, <3>1 DEF Column
  <2>2. CASE c \notin C
    <3>1. new[c] = cols[c]
      BY <2>2 DEF ColumnsOf
    <3> QED
      BY <2>2, <3>1
  <2> QED
    BY <2>1, <2>2
<1>9. DOMAIN new = DOMAIN cols
  OBVIOUS
<1> HIDE DEF place, new
<1>10. ASSUME NEW c \in DOMAIN cols, NEW d \in DOMAIN cols, c # d, new[c].board = new[d].board
       PROVE  new[c].sort # new[d].sort
  <2>1. c \in C <=> d \in C
    BY <1>8, <1>10 DEF ColumnsOf
  <2>2. CASE c \in C
    <3>1. place(c) # place(d) /\ place(c) \in Int /\ place(d) \in Int
      BY <1>3, <1>6, <1>10, <2>1, <2>2
    <3> QED
      BY <1>8, <2>1, <2>2, <3>1
  <2>3. CASE c \notin C
    BY <1>8, <1>10, <2>1, <2>3 DEF ColumnsOrdered
  <2> QED
    BY <2>2, <2>3
<1> QED
  BY <1>5, <1>9, <1>10 DEF ColumnsOrdered

LEMMA OrderKept ==
  ASSUME IInv, ColumnsOrdered, NEW w \in Workers, Counted(session[w]), Step(w)
  PROVE  ColumnsOrdered'
<1> DEFINE s == session[w]
           r == s.req
<1>1. CASE cols' = cols
  BY <1>1 DEF ColumnsOrdered
<1>2. CASE cols' # cols
  <2>1. ~ Ends(w)
    BY <1>2 DEF Ends
  <2>2. CASE Backfill(w) \/ AddColumn(w)
    <3>1. PICK b, u, sort : b = s.board /\ u = r.user /\ sort = s.sort
      OBVIOUS
    <3>2. PICK K, ids, t :
            /\ ids \in NewColumnIds(K)
            /\ K \subseteq Range(DefaultKinds) \/ \E k : K = {k}
            /\ Commit(w, boards, WithColumns(cols, ids, b, u, sort), procs, cells, t)
      <4>1. CASE Backfill(w)
        <5>1. s.missing \subseteq Range(DefaultKinds)
          BY <4>1 DEF Backfill, Counted, Missing
        <5> QED
          BY <2>1, <3>1, <4>1, <5>1, Answers DEF Backfill
      <4>2. CASE AddColumn(w)
        BY <2>1, <3>1, <4>2, Answers DEF AddColumn
      <4> QED
        BY <2>2, <4>1, <4>2
    <3>3. cols' = WithColumns(cols, ids, b, u, sort)
      BY <2>1, <3>2, Commits
    <3>4. sort \in Int /\ \A c \in ColumnsOf(b) : cols[c].sort < sort
      BY <2>2, <3>1 DEF Counted, Backfill, AddColumn
    <3> QED
      BY <3>2, <3>3, <3>4, AddKeepsOrder
  <2>3. CASE CreateBoard(w)
    <3>1. PICK b, ids, u, t :
            /\ b \in Fresh(BoardIds, boards) /\ ids \in NewColumnIds(Range(DefaultKinds))
            /\ Commit(w, Put(boards, b, u), WithColumns(cols, ids, b, u, 0), procs, cells, t)
      BY <2>1, <2>3, Answers DEF CreateBoard
    <3>2. cols' = WithColumns(cols, ids, b, u, 0)
      BY <2>1, <3>1, Commits
    <3>3. ColumnsOf(b) = {}
      BY <3>1 DEF ColumnsOf, Fresh, IInv, Storable
    <3> QED
      BY <3>1, <3>2, <3>3, AddKeepsOrder
  <2>4. CASE DeleteBoard(w) \/ DeleteColumn(w)
    <3>1. PICK cs : /\ \E bs, ps, xs, t : Commit(w, bs, cs, ps, xs, t)
                    /\ DOMAIN cs \subseteq DOMAIN cols /\ \A c \in DOMAIN cs : cs[c] = cols[c]
      BY <2>4 DEF DeleteBoard, DeleteColumn, OnBoards, Restrict
    <3>2. cols' = cs
      BY <2>1, <3>1, Commits
    <3> QED
      BY <3>1, <3>2 DEF ColumnsOrdered
  <2>5. CASE ReorderColumns(w)
    BY <2>5, ReorderKeepsOrder
  <2> QED
    BY <1>2, <2>2, <2>3, <2>4, <2>5, OnlyTheseWriteColumns
<1> QED
  BY <1>1, <1>2

\* However many requests run at the same time, the columns of a board keep distinct
\* positions as long as no two requests under way are on the same board:
\* get_next_column_sort_order then answers a position that is still the last when
\* the column is added, the default columns are added behind one another, and
\* reorder_columns numbers every column of the board.
THEOREM OrderWhenBoardsApart ==
  ASSUME \A d \in Seed : \A b, c \in DOMAIN d.cols :
           b # c /\ d.cols[b].board = d.cols[c].board => d.cols[b].sort # d.cols[c].sort
  PROVE  Spec /\ []BoardsApart => []ColumnsOrdered
<1> DEFINE PInv == ColumnsOrdered /\ \A v \in Workers : Counted(session[v])
<1>1. Init => PInv
  <2> SUFFICES ASSUME Init PROVE PInv
    OBVIOUS
  <2>1. \A w \in Workers : session[w] = Idle
    BY DEF Init
  <2>2. ColumnsOrdered
    BY DEF Init, ColumnsOrdered
  <2> QED
    BY <2>1, <2>2, IdleFields DEF Counted
<1>2. IInv /\ PInv /\ BoardsApart /\ [Next]_vars => PInv'
  <2> SUFFICES ASSUME IInv, PInv, BoardsApart, [Next]_vars PROVE PInv'
    OBVIOUS
  <2>1. CASE Next
    <3>1. PICK w \in Workers : Step(w)
      BY <2>1 DEF Next, Step
    <3>2. ColumnsOrdered'
      BY <3>1, OrderKept
    <3>3. \A v \in Workers : Counted(session[v])'
      BY <3>1, CountedKept
    <3> QED
      BY <3>2, <3>3
  <2>2. CASE UNCHANGED vars
    <3>1. \A v \in Workers : Counted(session[v])'
      BY <2>2, CountedStutters
    <3> QED
      BY <2>2, <3>1 DEF vars, ColumnsOrdered
  <2> QED
    BY <2>1, <2>2
<1>3. PInv => ColumnsOrdered
  OBVIOUS
<1> QED
  BY <1>1, <1>2, <1>3, InitIsSound, Invariance, PTL DEF Spec

\* Under the same condition get_board answers a board that has an Applied column
\* with every default column: what ensure_missing_default_columns found missing
\* it has added, and the board is loaded again before the answer.
THEOREM DefaultsShownWhenBoardsApart ==
  Spec /\ []BoardsApart => []AnswersShowDefaults
<1> DEFINE PInv == \A v \in Workers : Counted(session[v])
<1>1. Init => PInv
  <2> SUFFICES ASSUME Init PROVE PInv
    OBVIOUS
  <2>1. \A w \in Workers : session[w] = Idle
    BY DEF Init
  <2> QED
    BY <2>1, IdleFields DEF Counted
<1>2. IInv /\ PInv /\ BoardsApart /\ [Next]_vars => PInv'
  <2> SUFFICES ASSUME IInv, PInv, BoardsApart, [Next]_vars PROVE PInv'
    OBVIOUS
  <2>1. CASE Next
    <3>1. PICK w \in Workers : Step(w)
      BY <2>1 DEF Next, Step
    <3>2. \A v \in Workers : Counted(session[v])'
      BY <3>1, CountedKept
    <3> QED
      BY <3>2
  <2>2. CASE UNCHANGED vars
    BY <2>2, CountedStutters
  <2> QED
    BY <2>1, <2>2
<1>3. IInv /\ PInv => AnswersShowDefaults
  <2> SUFFICES ASSUME IInv, PInv, NEW w \in Workers, session[w].pc = "answer",
                      Applied \in KindsOf(session[w].columns)
               PROVE  Range(DefaultKinds) \subseteq KindsOf(session[w].columns)
    BY DEF AnswersShowDefaults
  <2>1. session[w].columns = ColumnsOf(session[w].board) /\ Missing(session[w].columns) = {}
    BY DEF Counted
  <2> QED
    BY <2>1 DEF Missing
<1> QED
  BY <1>1, <1>2, <1>3, InitIsSound, Invariance, PTL DEF Spec

-----------------------------------------------------------------------------
(* Every request takes effect at once *)

\* HiringBoard computes with the tables what HiringService does.
LEMMA BoardOperators ==
  ASSUME NEW bs, NEW cs, NEW ps, NEW xs, NEW C, NEW i, NEW r, NEW f, NEW u, NEW n, NEW k, NEW st
  PROVE  /\ Board!Storable(bs, cs, ps, xs) <=> Storable(bs, cs, ps, xs)
         /\ Board!Restrict(cs, C) = Restrict(cs, C)
         /\ Board!OnBoards(cs, bs) = OnBoards(cs, bs)
         /\ Board!InTables(xs, cs, ps) = InTables(xs, cs, ps)
         /\ Board!Put(cs, i, r) = Put(cs, i, r)
         /\ Board!Range(f) = Range(f)
         /\ Board!IsInjective(f) <=> IsInjective(f)
         /\ Board!ColumnsOf(i) = ColumnsOf(i)
         /\ Board!Missing(C) = Missing(C)
         /\ Board!WithColumns(cs, f, i, u, n) = WithColumns(cs, f, i, u, n)
         /\ Board!OfferDetails(k, st) = OfferDetails(k, st)
         /\ Board!Updated(i, r) = Updated(i, r)
         /\ Board!Rejected(i, k, st) = Rejected(i, k, st)
<1>1. \A g : Board!Range(g) = Range(g)
  BY DEF Board!Range, Range
<1>2. \A g, D : Board!Restrict(g, D) = Restrict(g, D)
  BY DEF Board!Restrict, Restrict
<1>3. Board!Storable(bs, cs, ps, xs) <=> Storable(bs, cs, ps, xs)
  BY DEF Board!Storable, Storable
<1>4. /\ Board!OnBoards(cs, bs) = OnBoards(cs, bs)
      /\ Board!InTables(xs, cs, ps) = InTables(xs, cs, ps)
  BY <1>2 DEF Board!OnBoards, OnBoards, Board!InTables, InTables
<1>5. Board!Put(cs, i, r) = Put(cs, i, r)
  BY DEF Board!Put, Put
<1>6. Board!IsInjective(f) <=> IsInjective(f)
  BY DEF Board!IsInjective, IsInjective
<1>7. Board!ColumnsOf(i) = ColumnsOf(i)
  BY DEF Board!ColumnsOf, ColumnsOf
<1>8. Board!Missing(C) = Missing(C)
  <2>1. Board!KindsOf(C) = KindsOf(C)
    BY DEF Board!KindsOf, KindsOf
  <2> QED
    BY <1>1, <2>1 DEF Board!Missing, Missing
<1>9. Board!WithColumns(cs, f, i, u, n) = WithColumns(cs, f, i, u, n)
  <2>1. \A j, l : Board!Before(j, l) <=> Before(j, l)
    BY DEF Board!Before, Before
  <2>2. \A D : Board!Cardinality(D) = Cardinality(D)
    BY DEF Board!Cardinality, Cardinality
  <2> QED
    BY <1>1, <2>1, <2>2 DEF Board!WithColumns, WithColumns
<1>10. Board!OfferDetails(k, st) = OfferDetails(k, st)
  BY DEF Board!OfferDetails, OfferDetails
<1>11. Board!Updated(i, r) = Updated(i, r)
  BY DEF Board!Updated, Updated, Board!OfferDetails, OfferDetails
<1>12. Board!Rejected(i, k, st) = Rejected(i, k, st)
  BY DEF Board!Rejected, Rejected
<1> QED
  BY <1>1, <1>2, <1>3, <1>4, <1>5, <1>6, <1>7, <1>8, <1>9, <1>10, <1>11, <1>12

\* A commit changes nothing, or the tables become what is committed.
LEMMA Becomes ==
  ASSUME IInv, NEW w \in Workers, NEW bs, NEW cs, NEW ps, NEW xs, NEW s,
         Commit(w, bs, cs, ps, xs, s)
  PROVE  UNCHANGED db \/ Board!Become(bs, cs, ps, xs)
<1>1. Board!Storable(bs, cs, ps, xs) <=> Storable(bs, cs, ps, xs)
  BY BoardOperators
<1> QED
  BY <1>1, Commits DEF Ends, db, Board!Become

LEMMA AnswerChangesNothing ==
  ASSUME NEW w, Answer(w)
  PROVE  UNCHANGED db
  BY DEF Answer, Continue

\* Nothing is removed when the row to delete is gone.
LEMMA NothingToDelete ==
  ASSUME IInv, NEW i
  PROVE  /\ i \notin DOMAIN boards => Restrict(boards, DOMAIN boards \ {i}) = boards
         /\ i \notin DOMAIN cols => Restrict(cols, DOMAIN cols \ {i}) = cols
         /\ i \notin DOMAIN procs => Restrict(procs, DOMAIN procs \ {i}) = procs
         /\ OnBoards(cols, boards) = cols
         /\ OnBoards(procs, boards) = procs
         /\ InTables(cells, cols, procs) = cells
<1>1. Typed(boards, cols, procs, cells) /\ Storable(boards, cols, procs, cells)
  BY DEF IInv
<1>2. ASSUME NEW t, t = [j \in DOMAIN t |-> t[j]], NEW D, D = DOMAIN t PROVE Restrict(t, D) = t
  BY <1>2 DEF Restrict
<1>3. /\ boards = [b \in DOMAIN boards |-> boards[b]]
      /\ cols = [c \in DOMAIN cols |-> cols[c]]
      /\ procs = [p \in DOMAIN procs |-> procs[p]]
      /\ cells = [x \in DOMAIN cells |-> cells[x]]
  BY <1>1 DEF Typed, IsTable
<1>4. ASSUME NEW t, t = [j \in DOMAIN t |-> t[j]], i \notin DOMAIN t
      PROVE  Restrict(t, DOMAIN t \ {i}) = t
  <2>1. DOMAIN t \ {i} = DOMAIN t
    BY <1>4
  <2> QED
    BY <1>2, <1>4, <2>1
<1>5. i \notin DOMAIN boards => Restrict(boards, DOMAIN boards \ {i}) = boards
  BY <1>3, <1>4
<1>6. /\ i \notin DOMAIN cols => Restrict(cols, DOMAIN cols \ {i}) = cols
      /\ i \notin DOMAIN procs => Restrict(procs, DOMAIN procs \ {i}) = procs
  BY <1>3, <1>4
<1>7. {c \in DOMAIN cols : cols[c].board \in DOMAIN boards} = DOMAIN cols
  BY <1>1 DEF Storable
<1>8. {p \in DOMAIN procs : procs[p].board \in DOMAIN boards} = DOMAIN procs
  BY <1>1 DEF Storable
<1>9. {x \in DOMAIN cells : x[1] \in DOMAIN procs /\ x[2] \in DOMAIN cols} = DOMAIN cells
  BY <1>1 DEF Storable
<1>10. OnBoards(cols, boards) = cols
  BY <1>2, <1>3, <1>7 DEF OnBoards
<1>11. OnBoards(procs, boards) = procs
  BY <1>2, <1>3, <1>8 DEF OnBoards
<1>12. InTables(cells, cols, procs) = cells
  BY <1>2, <1>3, <1>9 DEF InTables
<1> QED
  BY <1>5, <1>6, <1>10, <1>11, <1>12

\* The board of a request that is about to write is the caller's.
LEMMA OwnerOfBoard ==
  ASSUME IInv, NEW w \in Workers, session[w].pc = "write",
         session[w].req.op \in {"add", "drop", "delete", "reorder", "process"},
         session[w].board \in DOMAIN boards
  PROVE  Board!OwnsBoard(session[w].req) /\ session[w].board = session[w].req.board
<1> DEFINE s == session[w]
<1>1. Sound(boards, cols, procs, s) /\ s.board = s.req.board
  BY AtStatement DEF BoardOps
<1>2. boards[s.board] = s.req.user
  BY <1>1 DEF Sound, AtBoard
<1> QED
  BY <1>1, <1>2 DEF Board!OwnsBoard

\* Columns that were counted to come last still do.
LEMMA AddsColumns ==
  ASSUME IInv, NEW w \in Workers, NEW K, NEW k \in K, IsFiniteSet(K), NEW ids \in NewColumnIds(K),
         NEW b, NEW u, b \in DOMAIN boards => boards[b] = u,
         NEW sort \in Nat, \A c \in ColumnsOf(b) : cols[c].sort < sort, NEW t,
         Commit(w, boards, WithColumns(cols, ids, b, u, sort), procs, cells, t)
  PROVE  UNCHANGED db \/ (b \in DOMAIN boards /\ Board!AddColumns(b, K))
<1> DEFINE new == WithColumns(cols, ids, b, u, sort)
<1>1. Rows(new, ids, K, b, sort)
  BY NewRows
<1>2. Commit(w, boards, new, procs, cells, t)
  OBVIOUS
<1>3. new = Board!WithColumns(cols, ids, b, u, sort)
  BY BoardOperators
<1> HIDE DEF new
<1> SUFFICES ASSUME ~ UNCHANGED db
             PROVE  b \in DOMAIN boards /\ Board!AddColumns(b, K)
  OBVIOUS
<1>4. Board!Become(boards, new, procs, cells) /\ Storable(boards, new, procs, cells)
  <2>1. Board!Become(boards, new, procs, cells)
    BY <1>2, Becomes
  <2>2. Board!Storable(boards, new, procs, cells) <=> Storable(boards, new, procs, cells)
    BY BoardOperators
  <2> QED
    BY <2>1, <2>2 DEF Board!Become
<1>5. ids[k] \in DOMAIN new /\ new[ids[k]].board = b
      /\ new[ids[k]].sort = sort + Cardinality(LeftOf(K, k))
  BY <1>1 DEF Rows
<1>6. b \in DOMAIN boards /\ sort + Cardinality(LeftOf(K, k)) \in 0 .. MaxSort
  BY <1>4, <1>5 DEF Storable
<1>7. Cardinality(LeftOf(K, k)) \in Nat
  BY FS_Subset, FS_CardinalityType DEF LeftOf
<1>8. sort \in 0 .. MaxSort
  BY <1>6, <1>7, HiringAssumption
<1>9. ids \in [K -> ColumnIds \ DOMAIN cols] /\ Board!IsInjective(ids)
  BY BoardOperators DEF NewColumnIds, Fresh
<1>10. \A c \in Board!ColumnsOf(b) : cols[c].sort < sort
  BY BoardOperators
<1>11. Board!Become(boards, Board!WithColumns(cols, ids, b, boards[b], sort), procs, cells)
  BY <1>3, <1>4, <1>6
<1> QED
  BY <1>6, <1>8, <1>9, <1>10, <1>11 DEF Board!AddColumns

LEMMA BackfillIsGetBoard ==
  ASSUME IInv, NEW w \in Workers, Counted(session[w]), Backfill(w)
  PROVE  UNCHANGED db \/ Board!GetBoard(session[w].req, session[w].board)
<1> DEFINE s == session[w]
<1>1. s.pc = "fill"
  BY DEF Backfill
<1>2. /\ s.missing = Missing(ColumnsOf(s.board)) /\ s.missing # {}
      /\ s.board \in DOMAIN boards => boards[s.board] = s.req.user
  BY <1>1, AtStatement DEF Counted, Sound, AtBoard, KnowsKinds
<1>11. s.req.op \in BoardOps /\ (s.req.op # "new" => s.board = s.req.board)
  BY <1>1, AtStatement DEF Ops
<1>3. s.sort \in Nat /\ \A c \in ColumnsOf(s.board) : cols[c].sort < s.sort
  BY <1>1 DEF Counted
<1>4. IsFiniteSet(s.missing)
  BY <1>2, DefaultsAreFinite, FS_Subset DEF Missing
<1> SUFFICES ASSUME ~ UNCHANGED db
             PROVE  Board!GetBoard(s.req, s.board)
  OBVIOUS
<1>5. PICK k \in s.missing : TRUE
  BY <1>2
<1>6. PICK b, K, u, sort : b = s.board /\ K = s.missing /\ u = s.req.user /\ sort = s.sort
  OBVIOUS
<1>7. PICK ids, t : /\ ids \in NewColumnIds(K)
                    /\ Commit(w, boards, WithColumns(cols, ids, b, u, sort), procs, cells, t)
  BY <1>6, AnswerChangesNothing DEF Backfill
<1>8. b \in DOMAIN boards /\ Board!AddColumns(b, K)
  BY <1>2, <1>3, <1>4, <1>5, <1>6, <1>7, AddsColumns
<1>9. boards[b] = s.req.user
  BY <1>2, <1>6, <1>8
<1>10. K = Board!Missing(Board!ColumnsOf(b)) /\ K # {}
  BY <1>2, <1>6, BoardOperators
<1> QED
  BY <1>6, <1>8, <1>9, <1>10, <1>11 DEF Board!GetBoard, BoardOps

LEMMA AddColumnIsAddColumn ==
  ASSUME IInv, NEW w \in Workers, Counted(session[w]), AddColumn(w)
  PROVE  UNCHANGED db \/ Board!AddColumn(session[w].req)
<1> DEFINE s == session[w]
<1>1. s.pc = "write" /\ s.req.op = "add"
  BY DEF AddColumn
<1>2. s.sort \in Nat /\ \A c \in ColumnsOf(s.board) : cols[c].sort < s.sort
  BY <1>1 DEF Counted
<1>3. s.board \in DOMAIN boards => boards[s.board] = s.req.user
  BY <1>1, AtStatement DEF Sound, AtBoard
<1> SUFFICES ASSUME ~ UNCHANGED db
             PROVE  Board!AddColumn(s.req)
  OBVIOUS
<1>4. PICK b, K, u, sort, k :
        b = s.board /\ K = {k} /\ u = s.req.user /\ sort = s.sort /\ k = s.req.kind
  OBVIOUS
<1>5. PICK ids, t : /\ ids \in NewColumnIds(K)
                    /\ Commit(w, boards, WithColumns(cols, ids, b, u, sort), procs, cells, t)
  BY <1>4, AnswerChangesNothing DEF AddColumn
<1>6. b \in DOMAIN boards /\ Board!AddColumns(b, K)
  BY <1>2, <1>3, <1>4, <1>5, FS_Singleton, AddsColumns
<1>7. Board!OwnsBoard(s.req) /\ s.board = s.req.board
  BY <1>1, <1>4, <1>6, OwnerOfBoard
<1> QED
  BY <1>1, <1>4, <1>6, <1>7 DEF Board!AddColumn

LEMMA CreateBoardIsCreateBoard ==
  ASSUME IInv, NEW w \in Workers, CreateBoard(w)
  PROVE  UNCHANGED db \/ Board!CreateBoard(session[w].req)
<1> SUFFICES ASSUME ~ UNCHANGED db
             PROVE  Board!CreateBoard(session[w].req)
  OBVIOUS
<1>1. session[w].req.op = "new"
  BY DEF CreateBoard
<1>2. PICK u : u = session[w].req.user
  OBVIOUS
<1>3. PICK b, ids, t :
        /\ b \in Fresh(BoardIds, boards) /\ ids \in NewColumnIds(Range(DefaultKinds))
        /\ Commit(w, Put(boards, b, u), WithColumns(cols, ids, b, u, 0), procs, cells, t)
  BY <1>2, AnswerChangesNothing DEF CreateBoard
<1>4. Board!Become(Put(boards, b, u), WithColumns(cols, ids, b, u, 0), procs, cells)
  BY <1>3, Becomes
<1>5. Board!Become(Board!Put(boards, b, u), Board!WithColumns(cols, ids, b, u, 0), procs, cells)
  BY <1>4, BoardOperators
<1>6. b \in BoardIds \ DOMAIN boards
  BY <1>3 DEF Fresh
<1>7. /\ ids \in [Board!Range(DefaultKinds) -> ColumnIds \ DOMAIN cols]
      /\ Board!IsInjective(ids)
  BY <1>3, BoardOperators DEF NewColumnIds, Fresh
<1> QED
  BY <1>1, <1>2, <1>5, <1>6, <1>7 DEF Board!CreateBoard

LEMMA BecomesWhatItIs ==
  ASSUME Board!Become(boards, cols, procs, cells)
  PROVE  UNCHANGED db
  BY DEF Board!Become, db

LEMMA DeleteBoardIsDeleteBoard ==
  ASSUME IInv, NEW w \in Workers, DeleteBoard(w)
  PROVE  UNCHANGED db \/ Board!DeleteBoard(session[w].req)
<1> DEFINE s == session[w]
           bs == Restrict(boards, DOMAIN boards \ {s.board})
           cs == OnBoards(cols, bs)
           ps == OnBoards(procs, bs)
           xs == InTables(cells, cs, ps)
<1>1. s.pc = "write" /\ s.req.op = "delete" /\ Commit(w, bs, cs, ps, xs, Idle)
  BY DEF DeleteBoard
<1>2. CASE s.board \notin DOMAIN boards
  <2>1. bs = boards
    BY <1>2, NothingToDelete
  <2>2. cs = cols /\ ps = procs
    BY <2>1, NothingToDelete
  <2>3. xs = cells
    BY <2>2, NothingToDelete
  <2> HIDE DEF bs, cs, ps, xs
  <2>4. Commit(w, boards, cols, procs, cells, Idle)
    BY <1>1, <2>1, <2>2, <2>3
  <2> QED
    BY <2>4, Becomes, BecomesWhatItIs
<1>3. CASE s.board \in DOMAIN boards
  <2>1. Board!OwnsBoard(s.req) /\ s.board = s.req.board
    BY <1>1, <1>3, OwnerOfBoard
  <2>2. bs = Board!Restrict(boards, DOMAIN boards \ {s.req.board})
    BY <2>1, BoardOperators
  <2> HIDE DEF bs
  <2>3. cs = Board!OnBoards(cols, bs) /\ ps = Board!OnBoards(procs, bs)
    BY BoardOperators
  <2> HIDE DEF cs, ps
  <2>4. xs = Board!InTables(cells, cs, ps)
    BY BoardOperators
  <2> HIDE DEF xs
  <2>5. UNCHANGED db \/ Board!Become(bs, cs, ps, xs)
    BY <1>1, Becomes
  <2> QED
    BY <1>1, <2>1, <2>2, <2>3, <2>4, <2>5 DEF Board!DeleteBoard
<1> QED
  BY <1>2, <1>3

LEMMA DeleteColumnIsDeleteColumn ==
  ASSUME IInv, NEW w \in Workers, DeleteColumn(w)
  PROVE  UNCHANGED db \/ Board!DeleteColumn(session[w].req)
<1> DEFINE s == session[w]
           c == s.req.column
           cs == Restrict(cols, DOMAIN cols \ {c})
           xs == InTables(cells, cs, procs)
<1>1. /\ s.pc = "write" /\ s.req.op = "drop"
      /\ Commit(w, boards, cs, procs, xs, ThenBoard(s, s.board))
  BY DEF DeleteColumn
<1>2. CASE c \notin DOMAIN cols
  <2>1. cs = cols
    BY <1>2, NothingToDelete
  <2>2. xs = cells
    BY <2>1, NothingToDelete
  <2> HIDE DEF cs, xs
  <2>3. Commit(w, boards, cols, procs, cells, ThenBoard(s, s.board))
    BY <1>1, <2>1, <2>2
  <2> QED
    BY <2>3, Becomes, BecomesWhatItIs
<1>3. CASE c \in DOMAIN cols
  <2>1. cols[c].board = s.board
    BY <1>1, <1>3, AtStatement DEF Sound, KnowsColumn
  <2>2. s.board \in DOMAIN boards
    BY <1>3, <2>1 DEF IInv, Storable
  <2>3. Board!OwnsBoard(s.req) /\ s.board = s.req.board
    BY <1>1, <2>2, OwnerOfBoard
  <2>4. c \in Board!ColumnsOf(s.req.board)
    BY <1>3, <2>1, <2>3, BoardOperators DEF ColumnsOf
  <2>5. cs = Board!Restrict(cols, DOMAIN cols \ {c})
    BY BoardOperators
  <2> HIDE DEF cs
  <2>6. xs = Board!InTables(cells, cs, procs)
    BY BoardOperators
  <2> HIDE DEF xs
  <2>7. UNCHANGED db \/ Board!Become(boards, cs, procs, xs)
    BY <1>1, Becomes
  <2> QED
    BY <1>1, <2>3, <2>4, <2>5, <2>6, <2>7 DEF Board!DeleteColumn
<1> QED
  BY <1>2, <1>3

LEMMA ReorderColumnsIsReorderColumns ==
  ASSUME IInv, NEW w \in Workers, Counted(session[w]), ReorderColumns(w)
  PROVE  UNCHANGED db \/ Board!ReorderColumns(session[w].req)
<1> DEFINE s == session[w]
           ids == s.req.ids
           placed(c) == [cols[c] EXCEPT !.sort = (CHOOSE i \in DOMAIN ids : ids[i] = c) - 1]
           new == [c \in DOMAIN cols |->
                     IF c \in Range(ids) /\ cols[c].board = s.board THEN placed(c) ELSE cols[c]]
           next == [c \in DOMAIN cols |-> IF c \in Board!Range(ids) THEN placed(c) ELSE cols[c]]
<1>1. /\ s.pc = "write" /\ s.req.op = "reorder"
      /\ Commit(w, boards, new, procs, cells, ThenBoard(s, s.board))
  BY DEF ReorderColumns
<1>2. IsInjective(ids) /\ Range(ids) = ColumnsOf(s.board)
  BY <1>1 DEF Counted
<1>3. s.board \in DOMAIN boards
  <2>1. ids \in Orders
    BY <1>1, AtStatement
    DEF Request, BoardRequest, NewBoardRequest, AddColumnRequest, DropColumnRequest,
        ReorderRequest, NewProcessRequest, UpdateRequest, DropProcessRequest, CellRequest
  <2>2. ids \in Seq(ColumnIds) /\ ids # <<>>
    BY <2>1, HiringAssumption
  <2>3. 1 \in DOMAIN ids
    BY <2>2
  <2>4. ids[1] \in ColumnsOf(s.board)
    BY <1>2, <2>3 DEF Range
  <2> QED
    BY <2>4 DEF ColumnsOf, IInv, Storable
<1>4. Board!OwnsBoard(s.req) /\ s.board = s.req.board
  BY <1>1, <1>3, OwnerOfBoard
<1>5. /\ Board!IsInjective(ids) /\ Board!Range(ids) = Range(ids)
      /\ Board!Range(ids) = Board!ColumnsOf(s.req.board)
  BY <1>2, <1>4, BoardOperators
<1> HIDE DEF placed
<1>6. new = next
  BY <1>2, <1>5 DEF ColumnsOf
<1> HIDE DEF new
<1>7. UNCHANGED db \/ Board!Become(boards, next, procs, cells)
  BY <1>1, <1>6, Becomes
<1> QED
  BY <1>1, <1>4, <1>5, <1>7 DEF Board!ReorderColumns, placed

LEMMA CreateProcessIsCreateProcess ==
  ASSUME IInv, NEW w \in Workers, CreateProcess(w)
  PROVE  UNCHANGED db \/ Board!CreateProcess(session[w].req)
<1> DEFINE s == session[w]
           r == s.req
           row == [board |-> s.board, owner |-> r.user, result |-> r.result,
                   details |-> OfferDetails(r.result, r.details)]
<1>1. s.pc = "write" /\ r.op = "process"
  BY DEF CreateProcess
<1> SUFFICES ASSUME ~ UNCHANGED db
             PROVE  Board!CreateProcess(r)
  OBVIOUS
<1>2. PICK p, t : /\ p \in Fresh(ProcessIds, procs)
                  /\ Commit(w, boards, cols, Put(procs, p, row), cells, t)
  BY AnswerChangesNothing DEF CreateProcess
<1>3. row.board = s.board
  OBVIOUS
<1>4. s.board \in DOMAIN boards
  <2> HIDE DEF row
  <2>1. Board!Become(boards, cols, Put(procs, p, row), cells)
    BY <1>2, Becomes
  <2>2. Storable(boards, cols, Put(procs, p, row), cells)
    BY <2>1, BoardOperators DEF Board!Become
  <2> QED
    BY <1>3, <2>2 DEF Storable, Put
<1>5. Board!OwnsBoard(r) /\ s.board = r.board
  BY <1>1, <1>4, OwnerOfBoard
<1>6. row = [board |-> r.board, owner |-> r.user, result |-> r.result,
             details |-> Board!OfferDetails(r.result, r.details)]
  BY <1>5, BoardOperators
<1> HIDE DEF row
<1>7. Board!Become(boards, cols, Put(procs, p, row), cells)
  BY <1>2, Becomes
<1>8. Board!Become(boards, cols, Board!Put(procs, p, row), cells)
  BY <1>7, BoardOperators
<1>9. p \in ProcessIds \ DOMAIN procs
  BY <1>2 DEF Fresh
<1> QED
  BY <1>1, <1>5, <1>6, <1>8, <1>9 DEF Board!CreateProcess

\* The process of a request that is about to write is the caller's.
LEMMA OwnerOfProcess ==
  ASSUME IInv, NEW w \in Workers, session[w].pc = "write",
         session[w].req.op \in {"update", "remove", "cell"},
         session[w].req.process \in DOMAIN procs
  PROVE  Board!OwnsProcess(session[w].req)
  BY AtStatement DEF Sound, KnowsProcess, Board!OwnsProcess

LEMMA DeleteProcessIsDeleteProcess ==
  ASSUME IInv, NEW w \in Workers, DeleteProcess(w)
  PROVE  UNCHANGED db \/ Board!DeleteProcess(session[w].req)
<1> DEFINE s == session[w]
           p == s.req.process
           ps == Restrict(procs, DOMAIN procs \ {p})
           xs == InTables(cells, cols, ps)
<1>1. s.pc = "write" /\ s.req.op = "remove" /\ Commit(w, boards, cols, ps, xs, Idle)
  BY DEF DeleteProcess
<1>2. CASE p \notin DOMAIN procs
  <2>1. ps = procs
    BY <1>2, NothingToDelete
  <2>2. xs = cells
    BY <2>1, NothingToDelete
  <2> HIDE DEF ps, xs
  <2>3. Commit(w, boards, cols, procs, cells, Idle)
    BY <1>1, <2>1, <2>2
  <2> QED
    BY <2>3, Becomes, BecomesWhatItIs
<1>3. CASE p \in DOMAIN procs
  <2>1. Board!OwnsProcess(s.req)
    BY <1>1, <1>3, OwnerOfProcess
  <2>2. ps = Board!Restrict(procs, DOMAIN procs \ {p})
    BY BoardOperators
  <2> HIDE DEF ps
  <2>3. xs = Board!InTables(cells, cols, ps)
    BY BoardOperators
  <2> HIDE DEF xs
  <2>4. UNCHANGED db \/ Board!Become(boards, cols, ps, xs)
    BY <1>1, Becomes
  <2> QED
    BY <1>1, <2>1, <2>2, <2>3, <2>4 DEF Board!DeleteProcess
<1> QED
  BY <1>2, <1>3

\* What was loaded is still stored, so save_process writes the new row.
LEMMA UpdateProcessIsUpdateProcess ==
  ASSUME IInv, NEW w \in Workers, Current(session[w]), UpdateProcess(w)
  PROVE  UNCHANGED db \/ Board!UpdateProcess(session[w].req)
<1> DEFINE s == session[w]
           r == s.req
           p == r.process
<1>1. s.pc = "write" /\ r.op = "update"
  BY DEF UpdateProcess
<1> SUFFICES ASSUME ~ UNCHANGED db
             PROVE  Board!UpdateProcess(r)
  OBVIOUS
<1>2. /\ p \in DOMAIN procs
      /\ Commit(w, boards, cols, Saved(p, s.process, Updated(s.process, r)), cells, Idle)
  BY AnswerChangesNothing DEF UpdateProcess
<1>3. procs[p] = s.process
  BY <1>1, <1>2 DEF Current
<1>4. s.process \in Process /\ Updated(s.process, r) \in Process
  BY <1>1, NewRowType DEF NewRow
<1>5. Saved(p, s.process, Updated(s.process, r)) = Put(procs, p, Updated(procs[p], r))
  BY <1>2, <1>3, <1>4, SavedIsPut
<1>6. Put(procs, p, Updated(procs[p], r)) = Board!Put(procs, p, Board!Updated(procs[p], r))
  <2>1. Updated(procs[p], r) = Board!Updated(procs[p], r)
    BY BoardOperators
  <2> QED
    BY <2>1, BoardOperators
<1>7. Board!Become(boards, cols, Board!Put(procs, p, Board!Updated(procs[p], r)), cells)
  BY <1>2, <1>5, <1>6, Becomes
<1> QED
  BY <1>1, <1>2, <1>7, OwnerOfProcess DEF Board!UpdateProcess

LEMMA UpsertStepValueIsUpsertStepValue ==
  ASSUME IInv, NEW w \in Workers, Current(session[w]), UpsertStepValue(w)
  PROVE  UNCHANGED db \/ Board!UpsertStepValue(session[w].req)
<1> DEFINE s == session[w]
           r == s.req
           p == r.process
           c == r.column
           x == <<p, c>>
           new == Rejected(s.process, s.column.kind, r.status)
<1>1. s.pc = "write" /\ r.op = "cell"
  BY DEF UpsertStepValue
<1> SUFFICES ASSUME ~ UNCHANGED db
             PROVE  Board!UpsertStepValue(r)
  OBVIOUS
<1>2. /\ p \in DOMAIN procs
      /\ Commit(w, boards, cols, Saved(p, s.process, new), Put(cells, x, r.status), Idle)
  BY AnswerChangesNothing DEF UpsertStepValue
<1>3. procs[p] = s.process
  BY <1>1, <1>2 DEF Current
<1>4. s.process \in Process /\ new \in Process
  BY <1>1, NewRowType DEF NewRow
<1> HIDE DEF new
<1>5. Saved(p, s.process, new) = Put(procs, p, new)
  BY <1>2, <1>3, <1>4, SavedIsPut
<1>6. Board!Become(boards, cols, Put(procs, p, new), Put(cells, x, r.status))
  BY <1>2, <1>5, Becomes
<1>7. c \in DOMAIN cols
  <2> HIDE DEF x
  <2>1. Storable(boards, cols, Put(procs, p, new), Put(cells, x, r.status))
    BY <1>6, BoardOperators DEF Board!Become
  <2>2. x \in DOMAIN Put(cells, x, r.status)
    BY DEF Put
  <2>3. x[2] \in DOMAIN cols
    BY <2>1, <2>2 DEF Storable
  <2> QED
    BY <2>3 DEF x
<1>8. cols[c].board = procs[p].board /\ cols[c].kind = s.column.kind
  BY <1>1, <1>3, <1>7, AtStatement DEF Sound, KnowsColumn
<1>9. c \in Board!ColumnsOf(procs[p].board)
  BY <1>7, <1>8, BoardOperators DEF ColumnsOf
<1>10. new = Board!Rejected(procs[p], cols[c].kind, r.status)
  BY <1>3, <1>8, BoardOperators DEF new
<1>11. Board!Become(boards, cols, Board!Put(procs, p, new), Board!Put(cells, x, r.status))
  BY <1>6, BoardOperators
<1> QED
  BY <1>1, <1>2, <1>9, <1>10, <1>11, OwnerOfProcess DEF Board!UpsertStepValue

\* A write is the last statement of its transaction.
LEMMA WriteMovesOn ==
  ASSUME IInv, NEW w \in Workers, session[w].pc \in {"fill", "write"}, Step(w)
  PROVE  session'[w] # session[w]
<1> DEFINE s == session[w]
<1>1. ASSUME NEW t, Goes(w, t), t.pc # s.pc PROVE session'[w] # s
  BY <1>1 DEF Goes
<1>2. ASSUME NEW t, Continue(w, t), t.pc # s.pc PROVE session'[w] # s
  BY <1>1, <1>2, Reads
<1>3. ASSUME NEW bs, NEW cs, NEW ps, NEW xs, NEW t, Commit(w, bs, cs, ps, xs, t), t.pc # s.pc
      PROVE  session'[w] # s
  BY <1>1, <1>3, IdleFields, Commits DEF Ends
<1>4. ASSUME Answer(w) PROVE session'[w] # s
  BY <1>2, <1>4, IdleFields DEF Answer
<1>5. \A b : ThenBoard(s, b).pc = "board"
  BY DEF ThenBoard, Idle
<1>6. CASE Backfill(w)
  <2> DEFINE t == [s EXCEPT !.pc = "reboard", !.sort = 0, !.columns = {}, !.missing = {}]
  <2>1. t.pc = "reboard"
    BY AtStatement DEF Shape
  <2>2. s.pc = "fill" /\ (Answer(w) \/ \E cs : Commit(w, boards, cs, procs, cells, t))
    BY <1>6 DEF Backfill
  <2> HIDE DEF t
  <2> QED
    BY <1>3, <1>4, <2>1, <2>2
<1>7. CASE CreateBoard(w) \/ AddColumn(w) \/ CreateProcess(w)
  <2>1. \/ Answer(w)
        \/ \E bs, cs, ps, b : Commit(w, bs, cs, ps, cells, ThenBoard(s, b))
    BY <1>7 DEF CreateBoard, AddColumn, CreateProcess
  <2> QED
    BY <1>3, <1>4, <1>5, <2>1
<1>8. CASE UpdateBoard(w)
  BY <1>2, <1>4, <1>5, <1>8 DEF UpdateBoard
<1>9. CASE DeleteColumn(w) \/ ReorderColumns(w)
  BY <1>3, <1>5, <1>9 DEF DeleteColumn, ReorderColumns
<1>10. CASE DeleteBoard(w) \/ DeleteProcess(w)
  BY <1>3, <1>10, IdleFields DEF DeleteBoard, DeleteProcess
<1>11. CASE UpdateProcess(w) \/ UpsertStepValue(w)
  BY <1>3, <1>4, <1>11, IdleFields DEF UpdateProcess, UpsertStepValue
<1>12. CASE Abort(w)
  BY <1>4, <1>12 DEF Abort
<1> QED
  BY <1>6, <1>7, <1>8, <1>9, <1>10, <1>11, <1>12
  DEF Step, Start, ReadBoard, ReadColumns, Respond, ReadMaxSort, ReadColumn, ReadProcess,
      ReadStep, ReadCell

\* What was read is still stored, so each step of a request changes no table or does
\* all that the request does.
LEMMA StepIsBoardStep ==
  ASSUME IInv, NEW w \in Workers, Counted(session[w]), Current(session[w]), Step(w)
  PROVE  [TakesEffect(w)]_db
<1> DEFINE r == session[w].req
<1>1. \/ Start(w) \/ ReadBoard(w) \/ ReadColumns(w) \/ Respond(w) \/ ReadMaxSort(w)
      \/ UpdateBoard(w) \/ ReadColumn(w) \/ ReadProcess(w) \/ ReadStep(w) \/ ReadCell(w)
      \/ Abort(w)
      => UNCHANGED db
  BY DEF Start, ReadBoard, ReadColumns, Respond, ReadMaxSort, UpdateBoard, ReadColumn,
         ReadProcess, ReadStep, ReadCell, Abort, Answer, Continue
<1>2. CASE Backfill(w)
  <2>1. session[w].pc = "fill"
    BY <1>2 DEF Backfill
  <2>2. session'[w] # session[w]
    BY <2>1, WriteMovesOn
  <2> QED
    BY <1>2, <2>1, <2>2, BackfillIsGetBoard DEF TakesEffect
<1>3. CASE \/ CreateBoard(w) \/ DeleteBoard(w) \/ AddColumn(w) \/ DeleteColumn(w)
           \/ ReorderColumns(w) \/ CreateProcess(w) \/ UpdateProcess(w) \/ DeleteProcess(w)
           \/ UpsertStepValue(w)
  <2>1. session[w].pc = "write"
    BY <1>3 DEF CreateBoard, DeleteBoard, AddColumn, DeleteColumn, ReorderColumns, CreateProcess,
                UpdateProcess, DeleteProcess, UpsertStepValue
  <2>2. session'[w] # session[w]
    BY <2>1, WriteMovesOn
  <2>3. UNCHANGED db \/ Board!Step(r)
    BY <1>3, CreateBoardIsCreateBoard, DeleteBoardIsDeleteBoard, AddColumnIsAddColumn,
       DeleteColumnIsDeleteColumn, ReorderColumnsIsReorderColumns, CreateProcessIsCreateProcess,
       UpdateProcessIsUpdateProcess, DeleteProcessIsDeleteProcess, UpsertStepValueIsUpsertStepValue
    DEF Board!Step
  <2> QED
    BY <2>1, <2>2, <2>3 DEF TakesEffect
<1> QED
  BY <1>1, <1>2, <1>3 DEF Step

\* However many requests run at the same time, HiringService behaves as if each took
\* effect at once, on the tables of that moment, for its own payload and only on the
\* caller's rows, as long as no two requests under way are on the same board or write
\* the same process: what the methods of hiring_service.py read before their writes is
\* then still stored when they commit.
THEOREM BoardIsImplemented ==
  Spec /\ []BoardsApart /\ []ProcessesApart => ImplementsBoard
<1> DEFINE PInv == \A v \in Workers : Counted(session[v]) /\ Current(session[v])
           Effect == \E w \in Workers : TakesEffect(w)
<1>1. Init => PInv /\ Board!Init
  <2> SUFFICES ASSUME Init PROVE PInv /\ Board!Init
    OBVIOUS
  <2>1. \A w \in Workers : session[w] = Idle
    BY DEF Init
  <2>2. PInv
    BY <2>1, IdleFields DEF Counted, Current
  <2>3. Board!Init
    BY DEF Init, Board!Init
  <2> QED
    BY <2>2, <2>3
<1>2. IInv /\ PInv /\ BoardsApart /\ ProcessesApart /\ [Next]_vars => PInv' /\ [Effect]_db
  <2> SUFFICES ASSUME IInv, PInv, BoardsApart, ProcessesApart, [Next]_vars
               PROVE  PInv' /\ [Effect]_db
    OBVIOUS
  <2>1. CASE Next
    <3>1. PICK w \in Workers : Step(w)
      BY <2>1 DEF Next, Step
    <3>2. \A v \in Workers : Counted(session[v])'
      BY <3>1, CountedKept
    <3>3. \A v \in Workers : Current(session[v])'
      BY <3>1, CurrentKept
    <3>4. [Effect]_db
      BY <3>1, StepIsBoardStep
    <3> QED
      BY <3>2, <3>3, <3>4
  <2>2. CASE UNCHANGED vars
    <3>1. \A v \in Workers : Counted(session[v])'
      BY <2>2, CountedStutters
    <3>2. \A v \in Workers : Current(session[v])'
      BY <2>2 DEF vars, Current
    <3>3. UNCHANGED db
      BY <2>2 DEF vars, db
    <3> QED
      BY <3>1, <3>2, <3>3
  <2> QED
    BY <2>1, <2>2
<1> QED
  BY <1>1, <1>2, InitIsSound, Invariance, PTL DEF Spec, ImplementsBoard
=============================================================================
