---------------------------- MODULE HiringProofs ----------------------------
(***************************************************************************)
(* The tables of HiringService stay consistent for every set of boards,     *)
(* columns, processes and users, and any number of requests at a time.      *)
(*                                                                          *)
(* A request stores a column, a process or a cell on what it looked up      *)
(* statements ago.  By then it may be gone, and the foreign keys refuse the *)
(* write; but as long as it is stored, it is on the board and has the owner *)
(* it had.  The invariant says so of the board a session is on (AtBoard),   *)
(* of the process (KnowsProcess) and the column (KnowsColumn) it has loaded.*)
(* It holds because no id is given out while a session knows it.            *)
(***************************************************************************)
EXTENDS HiringService, TLAPS

BoardOps == {"get", "rename", "delete", "new", "add", "drop", "reorder", "process"}

\* The requests that get to a statement.
Ops(pc) ==
  CASE pc \in {"board", "reboard", "columns", "recolumns", "fillmax", "fill", "answer"} -> BoardOps
    [] pc = "max" -> {"add"}
    [] pc = "column" -> {"drop", "cell"}
    [] pc = "process" -> {"update", "remove", "cell"}
    [] pc = "cell" -> {"cell"}
    [] pc = "write" -> BoardOps \cup {"update", "remove", "cell"}
    [] OTHER -> {}

Shape(s) ==
  DOMAIN s = {"pc", "req", "board", "own", "columns", "missing", "sort", "process", "column",
              "cell"}

Phase(s) ==
  \/ s.pc = "idle" /\ s.req = None
  \/ /\ s.pc # "idle"
     /\ s.req \in Request
     /\ s.req.op \in Ops(s.pc)
     /\ s.req.op \in BoardOps \ {"new"} => s.board = s.req.board

\* The board is the caller's, as long as it is stored.
AtBoard(bs, s) ==
  /\ \/ s.pc \in {"columns", "recolumns", "fillmax", "max", "fill"}
     \/ /\ s.pc \in {"column", "write"}
        /\ s.req.op \in {"add", "drop", "delete", "reorder", "process"}
  /\ s.board \in DOMAIN bs
  => bs[s.board] = s.req.user

\* The process is the caller's and on the board it was loaded with, as long as it
\* is stored.
KnowsProcess(ps, s) ==
  s.pc \in {"column", "cell", "write"} /\ s.req.op \in {"update", "remove", "cell"} =>
    /\ s.process \in Process
    /\ s.req.process \in DOMAIN ps => /\ ps[s.req.process].board = s.process.board
                                     /\ ps[s.req.process].owner = s.req.user

\* The column is on the board of the process and of the kind it was loaded with, or
\* on the board of the request that drops it, as long as it is stored.
KnowsColumn(cs, s) ==
  s.pc \in {"cell", "write"} /\ s.req.op \in {"cell", "drop"} /\ s.req.column \in DOMAIN cs =>
    /\ s.req.op = "drop" => cs[s.req.column].board = s.board
    /\ s.req.op = "cell" => /\ cs[s.req.column].board = s.process.board
                            /\ cs[s.req.column].kind = s.column.kind

KnowsKinds(s) == s.pc \in {"fillmax", "fill"} => s.missing \subseteq Kinds /\ s.missing # {}

Sound(bs, cs, ps, s) ==
  /\ Shape(s) /\ Phase(s) /\ KnowsKinds(s)
  /\ AtBoard(bs, s) /\ KnowsProcess(ps, s) /\ KnowsColumn(cs, s)

IInv ==
  /\ Typed(boards, cols, procs, cells)
  /\ Storable(boards, cols, procs, cells)
  /\ CellsOnOneBoard
  /\ session = [w \in Workers |-> session[w]]
  /\ \A w \in Workers : Sound(boards, cols, procs, session[w])

-----------------------------------------------------------------------------
(* Payloads *)

LEMMA RequestTypes ==
  ASSUME NEW r \in Request
  PROVE  /\ r.user \in Users
         /\ r.op = "add" => r \in AddColumnRequest
         /\ r.op = "process" => r \in NewProcessRequest
         /\ r.op = "update" => r \in UpdateRequest
         /\ r.op = "cell" => r \in CellRequest
         /\ r.op \in BoardOps \cup {"update", "remove", "cell"}
  BY DEF Request, BoardRequest, NewBoardRequest, AddColumnRequest, DropColumnRequest,
         ReorderRequest, NewProcessRequest, UpdateRequest, DropProcessRequest, CellRequest, BoardOps

LEMMA PayloadTypes ==
  ASSUME NEW w \in Workers, NEW r \in Workload[w]
  PROVE  r \in Request
  BY WorkloadAssumption

LEMMA DefaultsAreKinds == Range(DefaultKinds) \subseteq Kinds
  BY HiringAssumption DEF Range

-----------------------------------------------------------------------------
(* Sessions *)

Known == UNION {Seen(session[w]) : w \in Workers}

LEMMA IdleIsSound ==
  ASSUME NEW bs, NEW cs, NEW ps
  PROVE  Sound(bs, cs, ps, Idle)
<1>1. Shape(Idle) /\ Idle.pc = "idle" /\ Idle.req = None
  BY DEF Idle, Shape
<1> QED
  BY <1>1 DEF Sound, Phase, KnowsKinds, AtBoard, KnowsProcess, KnowsColumn

\* What a session relies on is about ids it has seen.
LEMMA SeenIds ==
  ASSUME NEW s, s.pc # "idle"
  PROVE  /\ s.board \in Seen(s)
         /\ s.req.op \in {"update", "remove", "cell"} => s.req.process \in Seen(s)
         /\ s.req.op \in {"cell", "drop"} => s.req.column \in Seen(s)
  BY DEF Seen

\* Of the ids in S, those that are stored were stored and are what they were.
Keeps(S, bs, cs, ps, bs2, cs2, ps2) ==
  /\ \A b \in S \cap DOMAIN bs2 : b \in DOMAIN bs /\ bs2[b] = bs[b]
  /\ \A c \in S \cap DOMAIN cs2 :
       c \in DOMAIN cs /\ cs2[c].board = cs[c].board /\ cs2[c].kind = cs[c].kind
  /\ \A p \in S \cap DOMAIN ps2 :
       p \in DOMAIN ps /\ ps2[p].board = ps[p].board /\ ps2[p].owner = ps[p].owner

LEMMA SoundStays ==
  ASSUME NEW S, NEW bs, NEW cs, NEW ps, NEW bs2, NEW cs2, NEW ps2, NEW s,
         Sound(bs, cs, ps, s), Seen(s) \subseteq S, Keeps(S, bs, cs, ps, bs2, cs2, ps2)
  PROVE  Sound(bs2, cs2, ps2, s)
<1>1. AtBoard(bs2, s)
  BY SeenIds DEF Sound, AtBoard, Keeps
<1>2. KnowsProcess(ps2, s)
  BY SeenIds DEF Sound, KnowsProcess, Keeps
<1>3. KnowsColumn(cs2, s)
  BY SeenIds DEF Sound, KnowsColumn, Keeps
<1> QED
  BY <1>1, <1>2, <1>3 DEF Sound

LEMMA ReadKeeps ==
  ASSUME IInv, NEW w \in Workers, NEW s, Continue(w, s), Sound(boards, cols, procs, s)
  PROVE  IInv'
<1>1. /\ session' = [v \in Workers |-> IF v = w THEN s ELSE session[v]]
      /\ UNCHANGED <<boards, cols, procs, cells>>
  BY DEF Continue, db, IInv
<1>2. \A v \in Workers : Sound(boards, cols, procs, session'[v])
  BY <1>1 DEF IInv
<1>3. (\A v \in Workers : Sound(boards, cols, procs, session[v]))'
  BY <1>1, <1>2
<1>4. (session = [v \in Workers |-> session[v]])'
  BY <1>1
<1>5. (Typed(boards, cols, procs, cells) /\ Storable(boards, cols, procs, cells))'
  BY <1>1 DEF IInv
<1>6. CellsOnOneBoard'
  BY <1>1 DEF IInv, CellsOnOneBoard
<1> QED
  BY <1>3, <1>4, <1>5, <1>6 DEF IInv

LEMMA AnswerKeeps ==
  ASSUME IInv, NEW w \in Workers, Answer(w)
  PROVE  IInv'
  BY IdleIsSound, ReadKeeps DEF Answer

\* A worker that runs a statement serves a request that gets to it.
LEMMA AtStatement ==
  ASSUME IInv, NEW w \in Workers, session[w].pc # "idle"
  PROVE  /\ Sound(boards, cols, procs, session[w])
         /\ Shape(session[w])
         /\ session[w].req \in Request
         /\ session[w].req.op \in Ops(session[w].pc)
         /\ session[w].req.op \in BoardOps \ {"new"} => session[w].board = session[w].req.board
  BY DEF IInv, Sound, Phase

\* What makes tables that are committed, and the session that goes on, good
\* successors.
Allowed(bs, cs, ps, xs, s) ==
  /\ Typed(bs, cs, ps, xs)
  /\ Joined(bs, cs, ps, xs)
  /\ Keeps(Known, boards, cols, procs, bs, cs, ps)
  /\ Sound(bs, cs, ps, s)

LEMMA CommitKeeps ==
  ASSUME IInv, NEW w \in Workers, NEW bs, NEW cs, NEW ps, NEW xs, NEW s,
         Commit(w, bs, cs, ps, xs, s),
         Storable(bs, cs, ps, xs) => Allowed(bs, cs, ps, xs, s)
  PROVE  IInv'
<1>1. CASE ~ Storable(bs, cs, ps, xs)
  BY <1>1, AnswerKeeps DEF Commit
<1>2. CASE Storable(bs, cs, ps, xs)
  <2>1. /\ boards' = bs /\ cols' = cs /\ procs' = ps /\ cells' = xs
        /\ session' = [v \in Workers |-> IF v = w THEN s ELSE session[v]]
    BY <1>2 DEF Commit, IInv
  <2>2. \A v \in Workers : Sound(bs, cs, ps, session'[v])
    <3> SUFFICES ASSUME NEW v \in Workers PROVE Sound(bs, cs, ps, session'[v])
      OBVIOUS
    <3>1. CASE v = w
      BY <1>2, <2>1, <3>1 DEF Allowed
    <3>2. CASE v # w
      <4>1. Seen(session[v]) \subseteq Known
        BY DEF Known
      <4>2. Sound(boards, cols, procs, session[v])
        BY DEF IInv
      <4>3. Sound(bs, cs, ps, session[v])
        BY <1>2, <4>1, <4>2, SoundStays DEF Allowed
      <4> QED
        BY <2>1, <3>2, <4>3
    <3> QED
      BY <3>1, <3>2
  <2>3. (\A v \in Workers : Sound(boards, cols, procs, session[v]))'
    BY <2>1, <2>2
  <2>4. (session = [v \in Workers |-> session[v]])'
    BY <2>1
  <2>5. (Typed(boards, cols, procs, cells) /\ Storable(boards, cols, procs, cells))'
    BY <1>2, <2>1 DEF Allowed
  <2>6. CellsOnOneBoard'
    BY <1>2, <2>1 DEF Allowed, CellsOnOneBoard
  <2> QED
    BY <2>3, <2>4, <2>5, <2>6 DEF IInv
<1> QED
  BY <1>1, <1>2

-----------------------------------------------------------------------------
(* Statements that read *)

\* A session that serves a board, and one that serves a process.
LEMMA OnBoard ==
  ASSUME NEW bs, NEW cs, NEW ps, NEW t, Shape(t), t.pc # "idle", t.req \in Request,
         t.req.op \in Ops(t.pc) \cap BoardOps, KnowsKinds(t), AtBoard(bs, t),
         t.req.op # "new" => t.board = t.req.board, t.pc = "write" => t.req.op # "drop"
  PROVE  Sound(bs, cs, ps, t)
  BY DEF Sound, Phase, KnowsProcess, KnowsColumn, BoardOps, Ops

LEMMA OnProcess ==
  ASSUME NEW bs, NEW cs, NEW ps, NEW t, Shape(t), t.pc \in {"process", "column", "cell", "write"},
         t.req \in Request, t.req.op \in Ops(t.pc) \cap {"update", "remove", "cell"},
         KnowsProcess(ps, t), KnowsColumn(cs, t)
  PROVE  Sound(bs, cs, ps, t)
  BY DEF Sound, Phase, KnowsKinds, AtBoard, BoardOps

LEMMA ThenBoardIsSound ==
  ASSUME NEW bs, NEW cs, NEW ps, NEW s, NEW b, s.req \in Request, s.req.op \in BoardOps,
         s.req.op # "new" => b = s.req.board
  PROVE  Sound(bs, cs, ps, ThenBoard(s, b))
<1> DEFINE t == ThenBoard(s, b)
<1>1. Shape(t) /\ t.pc = "board" /\ t.req = s.req /\ t.board = b
  BY DEF ThenBoard, Idle, Shape
<1> HIDE DEF t
<1>2. KnowsKinds(t) /\ AtBoard(bs, t)
  BY <1>1 DEF KnowsKinds, AtBoard
<1>3. Sound(bs, cs, ps, t)
  BY <1>1, <1>2, OnBoard DEF Ops
<1> QED
  BY <1>3 DEF t

LEMMA StartKeeps ==
  ASSUME IInv, NEW w \in Workers, Start(w)
  PROVE  IInv'
<1>1. PICK r \in Workload[w] :
        Continue(w, CASE r.op = "new" -> [Idle EXCEPT !.pc = "write", !.req = r]
                      [] r.op \in {"update", "remove", "cell"} ->
                           [Idle EXCEPT !.pc = "process", !.req = r]
                      [] OTHER -> [Idle EXCEPT !.pc = "board", !.req = r, !.board = r.board])
  BY DEF Start
<1>2. r \in Request
  BY <1>1, PayloadTypes
<1>3. r.op \in BoardOps \cup {"update", "remove", "cell"}
  BY <1>2, RequestTypes
<1> DEFINE create == [Idle EXCEPT !.pc = "write", !.req = r]
           process == [Idle EXCEPT !.pc = "process", !.req = r]
           board == [Idle EXCEPT !.pc = "board", !.req = r, !.board = r.board]
<1>4. CASE r.op = "new"
  <2>1. Shape(create) /\ create.pc = "write" /\ create.req = r
    BY DEF Idle, Shape
  <2>2. Continue(w, create)
    BY <1>1, <1>4
  <2> HIDE DEF create
  <2>3. KnowsKinds(create) /\ AtBoard(boards, create)
    BY <1>4, <2>1 DEF KnowsKinds, AtBoard
  <2>4. Sound(boards, cols, procs, create)
    BY <1>2, <1>4, <2>1, <2>3, OnBoard DEF Ops, BoardOps
  <2> QED
    BY <2>2, <2>4, ReadKeeps
<1>5. CASE r.op \in {"update", "remove", "cell"}
  <2>1. Shape(process) /\ process.pc = "process" /\ process.req = r
    BY DEF Idle, Shape
  <2>2. Continue(w, process)
    BY <1>1, <1>5
  <2> HIDE DEF process
  <2>3. KnowsProcess(procs, process) /\ KnowsColumn(cols, process)
    BY <2>1 DEF KnowsProcess, KnowsColumn
  <2>4. Sound(boards, cols, procs, process)
    BY <1>2, <1>5, <2>1, <2>3, OnProcess DEF Ops
  <2> QED
    BY <2>2, <2>4, ReadKeeps
<1>6. CASE r.op \notin {"new", "update", "remove", "cell"}
  <2>1. Shape(board) /\ board.pc = "board" /\ board.req = r /\ board.board = r.board
    BY DEF Idle, Shape
  <2>2. Continue(w, board)
    BY <1>1, <1>6
  <2> HIDE DEF board
  <2>3. KnowsKinds(board) /\ AtBoard(boards, board)
    BY <2>1 DEF KnowsKinds, AtBoard
  <2>4. Sound(boards, cols, procs, board)
    BY <1>2, <1>3, <1>6, <2>1, <2>3, OnBoard DEF Ops
  <2> QED
    BY <2>2, <2>4, ReadKeeps
<1> QED
  BY <1>4, <1>5, <1>6

LEMMA ReadBoardKeeps ==
  ASSUME IInv, NEW w \in Workers, ReadBoard(w)
  PROVE  IInv'
<1> DEFINE s == session[w]
           t == [s EXCEPT !.pc = IF s.pc = "board" THEN "columns" ELSE "recolumns"]
<1>1. s.pc \in {"board", "reboard"}
  BY DEF ReadBoard
<1>2. /\ Shape(s) /\ s.req \in Request /\ s.req.op \in BoardOps
      /\ s.req.op # "new" => s.board = s.req.board
  BY <1>1, AtStatement DEF Ops
<1>3. CASE ~ (s.board \in DOMAIN boards /\ boards[s.board] = s.req.user)
  BY <1>3, AnswerKeeps DEF ReadBoard
<1>4. CASE s.board \in DOMAIN boards /\ boards[s.board] = s.req.user
  <2>1. Continue(w, t)
    BY <1>4 DEF ReadBoard
  <2>2. /\ Shape(t) /\ t.pc \in {"columns", "recolumns"} /\ t.req = s.req
        /\ t.board = s.board
    BY <1>2 DEF Shape
  <2> HIDE DEF t
  <2>3. KnowsKinds(t) /\ AtBoard(boards, t)
    BY <1>4, <2>2 DEF KnowsKinds, AtBoard
  <2>4. Sound(boards, cols, procs, t)
    BY <1>2, <2>2, <2>3, OnBoard DEF Ops
  <2> QED
    BY <2>1, <2>4, ReadKeeps
<1> QED
  BY <1>3, <1>4

LEMMA LoadedIsSound ==
  ASSUME NEW bs, NEW cs, NEW ps, NEW s, NEW C, Sound(bs, cs, ps, s),
         s.pc \in {"columns", "recolumns"}
  PROVE  Sound(bs, cs, ps, Loaded(s, C))
<1>1. /\ Shape(s) /\ s.req \in Request /\ s.req.op \in BoardOps
      /\ s.req.op # "new" => s.board = s.req.board
      /\ s.board \in DOMAIN bs => bs[s.board] = s.req.user
  BY DEF Sound, Phase, Ops, AtBoard
<1>2. ASSUME NEW pc \in {"max", "column", "write"}, s.req.op \in Ops(pc),
             pc = "write" => s.req.op # "drop"
      PROVE  Sound(bs, cs, ps, [s EXCEPT !.pc = pc])
  <2> DEFINE t == [s EXCEPT !.pc = pc]
  <2>1. Shape(t) /\ t.pc = pc /\ t.req = s.req /\ t.board = s.board
    BY <1>1 DEF Shape
  <2> HIDE DEF t
  <2>2. KnowsKinds(t) /\ AtBoard(bs, t)
    BY <1>1, <1>2, <2>1 DEF KnowsKinds, AtBoard
  <2>3. Sound(bs, cs, ps, t)
    BY <1>1, <1>2, <2>1, <2>2, OnBoard
  <2> QED
    BY <2>3 DEF t
<1>3. CASE s.own \/ s.req.op = "get"
  <2> DEFINE t == [s EXCEPT !.pc = "answer", !.columns = C]
  <2>1. Loaded(s, C) = t
    BY <1>3 DEF Loaded
  <2>2. Shape(t) /\ t.pc = "answer" /\ t.req = s.req /\ t.board = s.board
    BY <1>1 DEF Shape
  <2> HIDE DEF t
  <2>3. KnowsKinds(t) /\ AtBoard(bs, t)
    BY <2>2 DEF KnowsKinds, AtBoard
  <2>4. Sound(bs, cs, ps, t)
    BY <1>1, <2>2, <2>3, OnBoard DEF Ops
  <2> QED
    BY <2>1, <2>4
<1>4. CASE ~ (s.own \/ s.req.op = "get")
  <2>1. CASE s.req.op = "add"
    BY <1>2, <1>4, <2>1 DEF Loaded, Ops
  <2>2. CASE s.req.op = "drop"
    BY <1>2, <1>4, <2>2 DEF Loaded, Ops
  <2>3. CASE s.req.op = "reorder"
    <3>1. Loaded(s, C) = Idle \/ Loaded(s, C) = [s EXCEPT !.pc = "write"]
      BY <1>4, <2>3 DEF Loaded
    <3> QED
      BY <1>1, <1>2, <2>3, <3>1, IdleIsSound DEF Ops
  <2>4. CASE s.req.op \notin {"add", "drop", "reorder"}
    <3>1. Loaded(s, C) = [s EXCEPT !.pc = "write"]
      BY <1>4, <2>4 DEF Loaded
    <3> QED
      BY <1>1, <1>2, <2>4, <3>1 DEF Ops
  <2> QED
    BY <2>1, <2>2, <2>3, <2>4
<1> QED
  BY <1>3, <1>4

LEMMA ReadColumnsKeeps ==
  ASSUME IInv, NEW w \in Workers, ReadColumns(w)
  PROVE  IInv'
<1> DEFINE s == session[w]
           C == ColumnsOf(s.board)
           t == [s EXCEPT !.pc = "fillmax", !.missing = Missing(C), !.columns = C]
<1>1. s.pc \in {"columns", "recolumns"}
  BY DEF ReadColumns
<1>2. /\ Sound(boards, cols, procs, s) /\ Shape(s)
      /\ s.req \in Request /\ s.req.op \in BoardOps
      /\ s.req.op # "new" => s.board = s.req.board
  BY <1>1, AtStatement DEF Ops
<1>3. CASE s.pc = "columns" /\ Missing(C) # {}
  <2>1. Continue(w, t)
    BY <1>3 DEF ReadColumns
  <2>2. /\ Shape(t) /\ t.pc = "fillmax" /\ t.req = s.req /\ t.board = s.board
        /\ t.missing = Missing(C)
    BY <1>2 DEF Shape
  <2>3. Missing(C) \subseteq Kinds
    BY DefaultsAreKinds DEF Missing
  <2> HIDE DEF t
  <2>4. KnowsKinds(t)
    BY <1>3, <2>2, <2>3 DEF KnowsKinds
  <2>5. AtBoard(boards, t)
    BY <1>2, <1>3, <2>2 DEF AtBoard, Sound
  <2>6. Sound(boards, cols, procs, t)
    BY <1>2, <2>2, <2>4, <2>5, OnBoard DEF Ops
  <2> QED
    BY <2>1, <2>6, ReadKeeps
<1>4. CASE ~ (s.pc = "columns" /\ Missing(C) # {})
  <2>1. Continue(w, Loaded(s, C))
    BY <1>4 DEF ReadColumns
  <2> QED
    BY <1>1, <1>2, <2>1, LoadedIsSound, ReadKeeps
<1> QED
  BY <1>3, <1>4

LEMMA ReadMaxSortKeeps ==
  ASSUME IInv, NEW w \in Workers, ReadMaxSort(w)
  PROVE  IInv'
<1> DEFINE s == session[w]
           t == [s EXCEPT !.pc = IF s.pc = "max" THEN "write" ELSE "fill",
                          !.sort = NextColumnSort(s.req.user, s.board)]
<1>1. s.pc \in {"fillmax", "max"} /\ Continue(w, t)
  BY DEF ReadMaxSort
<1>2. Sound(boards, cols, procs, s) /\ Shape(s)
  BY <1>1, AtStatement
<1>3. /\ s.req \in Request /\ s.req.op \in BoardOps
      /\ s.req.op # "new" => s.board = s.req.board
      /\ s.pc = "max" => s.req.op = "add"
  BY <1>1, AtStatement DEF Ops, BoardOps
<1>4. /\ Shape(t) /\ t.req = s.req /\ t.board = s.board /\ t.missing = s.missing
      /\ t.pc = IF s.pc = "max" THEN "write" ELSE "fill"
  BY <1>2 DEF Shape
<1> HIDE DEF t
<1>5. KnowsKinds(t)
  BY <1>1, <1>2, <1>4 DEF KnowsKinds, Sound
<1>6. AtBoard(boards, t)
  BY <1>1, <1>2, <1>3, <1>4 DEF AtBoard, Sound
<1>7. Sound(boards, cols, procs, t)
  BY <1>3, <1>4, <1>5, <1>6, OnBoard DEF Ops
<1> QED
  BY <1>1, <1>7, ReadKeeps

LEMMA ReadColumnKeeps ==
  ASSUME IInv, NEW w \in Workers, ReadColumn(w)
  PROVE  IInv'
<1> DEFINE s == session[w]
           t == [s EXCEPT !.pc = "write"]
<1>1. s.pc = "column" /\ s.req.op = "drop"
  BY DEF ReadColumn
<1>2. Sound(boards, cols, procs, s) /\ Shape(s) /\ s.req \in Request
  BY <1>1, AtStatement
<1>3. /\ Shape(t) /\ t.pc = "write" /\ t.req = s.req /\ t.board = s.board
  BY <1>2 DEF Shape
<1>4. Answer(w) \/ (Continue(w, t) /\ cols[s.req.column].board = s.board)
  BY DEF ReadColumn
<1> HIDE DEF t
<1>5. KnowsKinds(t) /\ AtBoard(boards, t) /\ KnowsProcess(procs, t)
  BY <1>1, <1>2, <1>3 DEF Sound, KnowsKinds, AtBoard, KnowsProcess
<1>6. cols[s.req.column].board = s.board => Sound(boards, cols, procs, t)
  BY <1>1, <1>2, <1>3, <1>5 DEF Sound, Phase, KnowsColumn, Ops, BoardOps
<1> QED
  BY <1>4, <1>6, ReadKeeps, AnswerKeeps

LEMMA ReadProcessKeeps ==
  ASSUME IInv, NEW w \in Workers, ReadProcess(w)
  PROVE  IInv'
<1> DEFINE s == session[w]
           t == [s EXCEPT !.pc = IF s.req.op = "cell" THEN "column" ELSE "write",
                          !.process = procs[s.req.process]]
<1>1. s.pc = "process"
  BY DEF ReadProcess
<1>2. Shape(s) /\ s.req \in Request /\ s.req.op \in {"update", "remove", "cell"}
  BY <1>1, AtStatement DEF Ops
<1>3. CASE s.req.process \notin DOMAIN procs \/ procs[s.req.process].owner # s.req.user
  BY <1>3, AnswerKeeps DEF ReadProcess
<1>4. CASE s.req.process \in DOMAIN procs /\ procs[s.req.process].owner = s.req.user
  <2>1. Continue(w, t)
    BY <1>4 DEF ReadProcess
  <2>2. /\ Shape(t) /\ t.req = s.req /\ t.process = procs[s.req.process]
        /\ t.pc = IF s.req.op = "cell" THEN "column" ELSE "write"
    BY <1>2 DEF Shape
  <2>3. procs[s.req.process] \in Process
    BY <1>4 DEF IInv, Typed, IsTable
  <2> HIDE DEF t
  <2>4. KnowsProcess(procs, t)
    BY <1>4, <2>2, <2>3 DEF KnowsProcess
  <2>5. KnowsColumn(cols, t)
    BY <1>2, <2>2 DEF KnowsColumn
  <2>6. Sound(boards, cols, procs, t)
    BY <1>2, <2>2, <2>4, <2>5, OnProcess DEF Ops
  <2> QED
    BY <2>1, <2>6, ReadKeeps
<1> QED
  BY <1>3, <1>4

LEMMA ReadStepKeeps ==
  ASSUME IInv, NEW w \in Workers, ReadStep(w)
  PROVE  IInv'
<1> DEFINE s == session[w]
           t == [s EXCEPT !.pc = "cell", !.column = cols[s.req.column]]
<1>1. s.pc = "column" /\ s.req.op = "cell"
  BY DEF ReadStep
<1>2. Sound(boards, cols, procs, s) /\ Shape(s) /\ s.req \in Request
  BY <1>1, AtStatement
<1>3. CASE ~ (/\ s.req.column \in DOMAIN cols /\ cols[s.req.column].owner = s.req.user
              /\ cols[s.req.column].board = s.process.board)
  BY <1>3, AnswerKeeps DEF ReadStep
<1>4. CASE /\ s.req.column \in DOMAIN cols /\ cols[s.req.column].owner = s.req.user
           /\ cols[s.req.column].board = s.process.board
  <2>1. Continue(w, t)
    BY <1>4 DEF ReadStep
  <2>2. /\ Shape(t) /\ t.pc = "cell" /\ t.req = s.req /\ t.process = s.process
        /\ t.column = cols[s.req.column]
    BY <1>2 DEF Shape
  <2> HIDE DEF t
  <2>3. KnowsProcess(procs, t)
    BY <1>1, <1>2, <2>2 DEF KnowsProcess, Sound
  <2>4. KnowsColumn(cols, t)
    BY <1>1, <1>4, <2>2 DEF KnowsColumn
  <2>5. Sound(boards, cols, procs, t)
    BY <1>1, <1>2, <2>2, <2>3, <2>4, OnProcess DEF Ops
  <2> QED
    BY <2>1, <2>5, ReadKeeps
<1> QED
  BY <1>3, <1>4

LEMMA ReadCellKeeps ==
  ASSUME IInv, NEW w \in Workers, ReadCell(w)
  PROVE  IInv'
<1> DEFINE s == session[w]
           t == [s EXCEPT !.pc = "write",
                          !.cell = <<s.req.process, s.req.column>> \in DOMAIN cells]
<1>1. s.pc = "cell" /\ Continue(w, t)
  BY DEF ReadCell
<1>2. /\ Sound(boards, cols, procs, s) /\ Shape(s) /\ s.req \in Request
      /\ s.req.op = "cell"
  BY <1>1, AtStatement DEF Ops
<1>3. /\ Shape(t) /\ t.pc = "write" /\ t.req = s.req /\ t.process = s.process
      /\ t.column = s.column
  BY <1>2 DEF Shape
<1> HIDE DEF t
<1>4. KnowsProcess(procs, t) /\ KnowsColumn(cols, t)
  BY <1>1, <1>2, <1>3 DEF KnowsProcess, KnowsColumn, Sound
<1>5. Sound(boards, cols, procs, t)
  BY <1>2, <1>3, <1>4, OnProcess DEF Ops
<1> QED
  BY <1>1, <1>5, ReadKeeps

-----------------------------------------------------------------------------
(* New columns *)

\* The table new is cs with columns of the kinds K on board b, under ids.
Adds(cs, new, ids, b, u, K) ==
  /\ Range(ids) \subseteq ColumnIds
  /\ Range(ids) \cap (DOMAIN cs \cup Known) = {}
  /\ new = [c \in DOMAIN cs \cup Range(ids) |-> new[c]]
  /\ \A c \in DOMAIN cs : new[c] = cs[c]
  /\ \A c \in Range(ids) : \E k \in K : \E i :
       new[c] = [board |-> b, owner |-> u, kind |-> k, sort |-> i]

LEMMA NewColumns ==
  ASSUME NEW K, NEW ids \in NewColumnIds(K), NEW b, NEW u, NEW sort
  PROVE  Adds(cols, WithColumns(cols, ids, b, u, sort), ids, b, u, K)
<1> DEFINE new == WithColumns(cols, ids, b, u, sort)
           KindOf(c) == CHOOSE k \in DOMAIN ids : ids[k] = c
           SortOf(c) == sort + Cardinality({k \in DOMAIN ids : Before(k, KindOf(c))})
<1>1. ids \in [K -> Fresh(ColumnIds, cols)]
  BY DEF NewColumnIds
<1>2. /\ Fresh(ColumnIds, cols) \subseteq ColumnIds
      /\ Fresh(ColumnIds, cols) \cap (DOMAIN cols \cup Known) = {}
  BY DEF Fresh, Known
<1>3. Range(ids) \subseteq Fresh(ColumnIds, cols)
  BY <1>1 DEF Range
<1>4. new = [c \in DOMAIN cols \cup Range(ids) |->
               IF c \in Range(ids)
               THEN [board |-> b, owner |-> u, kind |-> KindOf(c), sort |-> SortOf(c)]
               ELSE cols[c]]
  BY DEF WithColumns
<1>5. ASSUME NEW c \in Range(ids) PROVE KindOf(c) \in K
  BY <1>1, <1>5 DEF Range
<1> HIDE DEF new, KindOf, SortOf
<1>6. ASSUME NEW c \in Range(ids)
      PROVE  \E k \in K : \E i : new[c] = [board |-> b, owner |-> u, kind |-> k, sort |-> i]
  <2>1. new[c] = [board |-> b, owner |-> u, kind |-> KindOf(c), sort |-> SortOf(c)]
    BY <1>4, <1>6
  <2> QED
    BY <1>5, <1>6, <2>1
<1>7. \A c \in DOMAIN cols : new[c] = cols[c]
  BY <1>2, <1>3, <1>4
<1>8. new = [c \in DOMAIN cols \cup Range(ids) |-> new[c]]
  BY <1>4
<1>9. Adds(cols, new, ids, b, u, K)
  BY <1>2, <1>3, <1>6, <1>7, <1>8 DEF Adds
<1> QED
  BY <1>9 DEF new

LEMMA NewColumnsAllowed ==
  ASSUME IInv, NEW K, K \subseteq Kinds, NEW ids \in NewColumnIds(K),
         NEW b, NEW u \in Users, NEW sort, NEW bs, NEW t,
         IsTable(bs, BoardIds, Users),
         \A x \in DOMAIN boards : x \in DOMAIN bs /\ bs[x] = boards[x],
         \A x \in DOMAIN bs \cap Known : x \in DOMAIN boards,
         b \in DOMAIN bs => bs[b] = u,
         Storable(bs, WithColumns(cols, ids, b, u, sort), procs, cells),
         Sound(bs, WithColumns(cols, ids, b, u, sort), procs, t)
  PROVE  Allowed(bs, WithColumns(cols, ids, b, u, sort), procs, cells, t)
<1> DEFINE new == WithColumns(cols, ids, b, u, sort)
<1>1. Adds(cols, new, ids, b, u, K)
  BY NewColumns
<1>2. Storable(bs, new, procs, cells) /\ Sound(bs, new, procs, t)
  OBVIOUS
<1> HIDE DEF new
<1>3. /\ Range(ids) \subseteq ColumnIds
      /\ Range(ids) \cap (DOMAIN cols \cup Known) = {}
      /\ new = [c \in DOMAIN cols \cup Range(ids) |-> new[c]]
      /\ DOMAIN new = DOMAIN cols \cup Range(ids)
      /\ \A c \in DOMAIN cols : new[c] = cols[c]
  BY <1>1 DEF Adds
<1>4. \A c \in Range(ids) : \E k \in K : \E i :
         new[c] = [board |-> b, owner |-> u, kind |-> k, sort |-> i]
  BY <1>1 DEF Adds
<1>5. /\ Typed(boards, cols, procs, cells)
      /\ Storable(boards, cols, procs, cells)
      /\ Joined(boards, cols, procs, cells)
  BY DEF IInv, CellsOnOneBoard
<1>6. IsTable(new, ColumnIds, Column)
  <2>1. ASSUME NEW c \in DOMAIN cols PROVE new[c] \in Column
    BY <1>3, <1>5 DEF Typed, IsTable
  <2>2. ASSUME NEW c \in Range(ids) PROVE new[c] \in Column
    <3>1. PICK k, i :
            k \in Kinds /\ new[c] = [board |-> b, owner |-> u, kind |-> k, sort |-> i]
      BY <1>4, <2>2
    <3>2. new[c].board \in BoardIds /\ new[c].sort \in 0 .. MaxSort
      BY <1>3, <1>2, <2>2 DEF Storable, IsTable
    <3> QED
      BY <3>1, <3>2 DEF Column
  <2>3. DOMAIN new \subseteq ColumnIds
    BY <1>3, <1>5 DEF Typed, IsTable
  <2> QED
    BY <1>3, <2>1, <2>2, <2>3 DEF IsTable
<1>7. Typed(bs, new, procs, cells)
  BY <1>5, <1>6 DEF Typed
<1>8. Joined(bs, new, procs, cells)
  <2>1. \A x \in DOMAIN cells : procs[x[1]].board = new[x[2]].board
    BY <1>3, <1>5 DEF Storable, Joined
  <2>2. ASSUME NEW c \in DOMAIN cols PROVE new[c].owner = bs[new[c].board]
    BY <1>3, <1>5 DEF Storable, Joined
  <2>3. ASSUME NEW c \in Range(ids) PROVE new[c].owner = bs[new[c].board]
    <3>1. new[c].board \in DOMAIN bs
      BY <1>3, <1>2, <2>3 DEF Storable
    <3>2. PICK k, i :
            k \in K /\ new[c] = [board |-> b, owner |-> u, kind |-> k, sort |-> i]
      BY <1>4, <2>3
    <3> QED
      BY <3>1, <3>2
  <2>4. \A p \in DOMAIN procs : procs[p].owner = bs[procs[p].board]
    BY <1>5 DEF Storable, Joined
  <2> QED
    BY <1>3, <2>1, <2>2, <2>3, <2>4 DEF Joined
<1>9. Keeps(Known, boards, cols, procs, bs, new, procs)
  BY <1>3 DEF Keeps
<1>10. Allowed(bs, new, procs, cells, t)
  BY <1>2, <1>7, <1>8, <1>9 DEF Allowed
<1> QED
  BY <1>10 DEF new

LEMMA BackfillKeeps ==
  ASSUME IInv, NEW w \in Workers, Backfill(w)
  PROVE  IInv'
<1> DEFINE s == session[w]
           t == [s EXCEPT !.pc = "reboard", !.sort = 0, !.columns = {}, !.missing = {}]
           New(ids) == WithColumns(cols, ids, s.board, s.req.user, s.sort)
<1>1. s.pc = "fill"
  BY DEF Backfill
<1>2. /\ Sound(boards, cols, procs, s) /\ Shape(s)
      /\ s.req \in Request /\ s.req.op \in BoardOps
      /\ s.req.op # "new" => s.board = s.req.board
  BY <1>1, AtStatement DEF Ops
<1>3. CASE Answer(w)
  BY <1>3, AnswerKeeps
<1>4. CASE ~ Answer(w)
  <2>1. PICK ids \in NewColumnIds(s.missing) : Commit(w, boards, New(ids), procs, cells, t)
    BY <1>4 DEF Backfill
  <2>2. Shape(t) /\ t.pc = "reboard" /\ t.req = s.req /\ t.board = s.board
    BY <1>2 DEF Shape
  <2> HIDE DEF t
  <2>3. KnowsKinds(t) /\ AtBoard(boards, t)
    BY <2>2 DEF KnowsKinds, AtBoard
  <2>4. Sound(boards, New(ids), procs, t)
    BY <1>2, <2>2, <2>3, OnBoard DEF Ops
  <2>5. /\ s.missing \subseteq Kinds /\ s.req.user \in Users
        /\ s.board \in DOMAIN boards => boards[s.board] = s.req.user
    BY <1>1, <1>2, RequestTypes DEF Sound, KnowsKinds, AtBoard
  <2>6. IsTable(boards, BoardIds, Users)
    BY DEF IInv, Typed
  <2>7. Storable(boards, New(ids), procs, cells) => Allowed(boards, New(ids), procs, cells, t)
    BY <2>4, <2>5, <2>6, NewColumnsAllowed
  <2> QED
    BY <2>1, <2>7, CommitKeeps
<1> QED
  BY <1>3, <1>4

LEMMA AddColumnKeeps ==
  ASSUME IInv, NEW w \in Workers, AddColumn(w)
  PROVE  IInv'
<1> DEFINE s == session[w]
           t == ThenBoard(s, s.board)
           New(ids) == WithColumns(cols, ids, s.board, s.req.user, s.sort)
<1>1. s.pc = "write" /\ s.req.op = "add"
  BY DEF AddColumn
<1>2. Sound(boards, cols, procs, s) /\ s.req \in Request
  BY <1>1, AtStatement
<1>3. CASE Answer(w)
  BY <1>3, AnswerKeeps
<1>4. CASE ~ Answer(w)
  <2>1. PICK ids \in NewColumnIds({s.req.kind}) :
          Commit(w, boards, New(ids), procs, cells, t)
    BY <1>4 DEF AddColumn
  <2>2. Sound(boards, New(ids), procs, t)
    BY <1>1, <1>2, AtStatement, ThenBoardIsSound DEF BoardOps
  <2>3. /\ {s.req.kind} \subseteq Kinds /\ s.req.user \in Users
        /\ s.board \in DOMAIN boards => boards[s.board] = s.req.user
    BY <1>1, <1>2, RequestTypes DEF Sound, AtBoard, AddColumnRequest
  <2>4. IsTable(boards, BoardIds, Users)
    BY DEF IInv, Typed
  <2> HIDE DEF t
  <2>5. Storable(boards, New(ids), procs, cells) => Allowed(boards, New(ids), procs, cells, t)
    BY <2>2, <2>3, <2>4, NewColumnsAllowed
  <2> QED
    BY <2>1, <2>5, CommitKeeps
<1> QED
  BY <1>3, <1>4

LEMMA CreateBoardKeeps ==
  ASSUME IInv, NEW w \in Workers, CreateBoard(w)
  PROVE  IInv'
<1> DEFINE s == session[w]
           u == s.req.user
<1>1. s.pc = "write" /\ s.req.op = "new"
  BY DEF CreateBoard
<1>2. s.req \in Request /\ u \in Users
  BY <1>1, AtStatement, RequestTypes
<1>3. CASE Answer(w)
  BY <1>3, AnswerKeeps
<1>4. CASE ~ Answer(w)
  <2>1. PICK b \in Fresh(BoardIds, boards), ids \in NewColumnIds(Range(DefaultKinds)) :
          Commit(w, Put(boards, b, u), WithColumns(cols, ids, b, u, 0), procs, cells,
                 ThenBoard(s, b))
    BY <1>4 DEF CreateBoard
  <2> DEFINE bs == Put(boards, b, u)
             t == ThenBoard(s, b)
             new == WithColumns(cols, ids, b, u, 0)
  <2>2. b \in BoardIds /\ b \notin DOMAIN boards /\ b \notin Known
    BY DEF Fresh, Known
  <2>3. IsTable(boards, BoardIds, Users)
    BY DEF IInv, Typed
  <2>4. /\ IsTable(bs, BoardIds, Users)
        /\ \A x \in DOMAIN boards : x \in DOMAIN bs /\ bs[x] = boards[x]
        /\ \A x \in DOMAIN bs \cap Known : x \in DOMAIN boards
        /\ bs[b] = u
    BY <1>2, <2>2, <2>3 DEF Put, IsTable
  <2>5. Sound(bs, new, procs, t)
    BY <1>1, <1>2, ThenBoardIsSound DEF BoardOps
  <2>6. Commit(w, bs, new, procs, cells, t)
    BY <2>1
  <2> HIDE DEF bs, t
  <2>7. Storable(bs, new, procs, cells) => Allowed(bs, new, procs, cells, t)
    BY <1>2, <2>4, <2>5, DefaultsAreKinds, NewColumnsAllowed
  <2> HIDE DEF new
  <2> QED
    BY <2>6, <2>7, CommitKeeps
<1> QED
  BY <1>3, <1>4

-----------------------------------------------------------------------------
(* Rows that go *)

\* The table new has some of the rows of the table old.
Part(new, old) == DOMAIN new \subseteq DOMAIN old /\ new = [i \in DOMAIN new |-> old[i]]

\* Tables with fewer rows, as far as the foreign keys allow them.
LEMMA DeleteAllowed ==
  ASSUME IInv, NEW bs, NEW cs, NEW ps, NEW xs, NEW t,
         Part(bs, boards), Part(cs, cols), Part(ps, procs), Part(xs, cells),
         Storable(bs, cs, ps, xs), Sound(bs, cs, ps, t)
  PROVE  Allowed(bs, cs, ps, xs, t)
<1>1. Typed(boards, cols, procs, cells) /\ Joined(boards, cols, procs, cells)
  BY DEF IInv, CellsOnOneBoard
<1>2. Typed(bs, cs, ps, xs)
  <2>1. ASSUME NEW new, NEW old, NEW ids, NEW R, Part(new, old), IsTable(old, ids, R)
        PROVE  IsTable(new, ids, R)
    BY <2>1 DEF Part, IsTable
  <2> QED
    BY <1>1, <2>1 DEF Typed
<1>3. Joined(bs, cs, ps, xs)
  BY <1>1 DEF Joined, Storable, Part
<1>4. Keeps(Known, boards, cols, procs, bs, cs, ps)
  BY DEF Keeps, Part
<1> QED
  BY <1>2, <1>3, <1>4 DEF Allowed

\* What is left of a table, and of the cells, holds rows that were there.
LEMMA Restricted ==
  ASSUME NEW t, NEW bs, NEW S
  PROVE  Part(OnBoards(t, bs), t) /\ Part(Restrict(t, DOMAIN t \ S), t)
  BY DEF OnBoards, Restrict, Part

LEMMA CellsLeft ==
  ASSUME NEW xs, NEW cs, NEW ps
  PROVE  Part(InTables(xs, cs, ps), xs)
  BY DEF InTables, Restrict, Part

LEMMA Whole ==
  ASSUME IInv
  PROVE  Part(boards, boards) /\ Part(cols, cols) /\ Part(procs, procs) /\ Part(cells, cells)
  BY DEF IInv, Typed, IsTable, Part

LEMMA DeleteBoardKeeps ==
  ASSUME IInv, NEW w \in Workers, DeleteBoard(w)
  PROVE  IInv'
<1> DEFINE bs == Restrict(boards, DOMAIN boards \ {session[w].board})
           cs == OnBoards(cols, bs)
           ps == OnBoards(procs, bs)
           xs == InTables(cells, cs, ps)
<1>1. Commit(w, bs, cs, ps, xs, Idle)
  BY DEF DeleteBoard
<1>2. Part(bs, boards)
  BY Restricted
<1> HIDE DEF bs
<1>3. Part(cs, cols) /\ Part(ps, procs)
  BY Restricted
<1> HIDE DEF cs, ps
<1>4. Part(xs, cells)
  BY CellsLeft
<1> HIDE DEF xs
<1>5. Storable(bs, cs, ps, xs) => Allowed(bs, cs, ps, xs, Idle)
  BY <1>2, <1>3, <1>4, IdleIsSound, DeleteAllowed
<1> QED
  BY <1>1, <1>5, CommitKeeps

LEMMA DeleteColumnKeeps ==
  ASSUME IInv, NEW w \in Workers, DeleteColumn(w)
  PROVE  IInv'
<1> DEFINE s == session[w]
           cs == Restrict(cols, DOMAIN cols \ {s.req.column})
           xs == InTables(cells, cs, procs)
           t == ThenBoard(s, s.board)
<1>1. Commit(w, boards, cs, procs, xs, t) /\ s.pc = "write" /\ s.req.op = "drop"
  BY DEF DeleteColumn
<1>2. Sound(boards, cs, procs, t)
  BY <1>1, AtStatement, ThenBoardIsSound DEF BoardOps
<1> HIDE DEF t
<1>3. Part(cs, cols)
  BY Restricted
<1> HIDE DEF cs
<1>4. Part(xs, cells)
  BY CellsLeft
<1> HIDE DEF xs
<1>5. Storable(boards, cs, procs, xs) => Allowed(boards, cs, procs, xs, t)
  BY <1>2, <1>3, <1>4, Whole, DeleteAllowed
<1> QED
  BY <1>1, <1>5, CommitKeeps

LEMMA DeleteProcessKeeps ==
  ASSUME IInv, NEW w \in Workers, DeleteProcess(w)
  PROVE  IInv'
<1> DEFINE ps == Restrict(procs, DOMAIN procs \ {session[w].req.process})
           xs == InTables(cells, cols, ps)
<1>1. Commit(w, boards, cols, ps, xs, Idle)
  BY DEF DeleteProcess
<1>2. Part(ps, procs)
  BY Restricted
<1> HIDE DEF ps
<1>3. Part(xs, cells)
  BY CellsLeft
<1> HIDE DEF xs
<1>4. Storable(boards, cols, ps, xs) => Allowed(boards, cols, ps, xs, Idle)
  BY <1>2, <1>3, IdleIsSound, Whole, DeleteAllowed
<1> QED
  BY <1>1, <1>4, CommitKeeps

-----------------------------------------------------------------------------
(* Rows that change *)

LEMMA UpdateBoardKeeps ==
  ASSUME IInv, NEW w \in Workers, UpdateBoard(w)
  PROVE  IInv'
<1> DEFINE s == session[w]
           t == ThenBoard(s, s.board)
<1>1. /\ s.pc = "write" /\ s.req.op = "rename"
      /\ Continue(w, t) \/ Answer(w)
  BY DEF UpdateBoard
<1>2. Sound(boards, cols, procs, t)
  BY <1>1, AtStatement, ThenBoardIsSound DEF BoardOps
<1> HIDE DEF t
<1> QED
  BY <1>1, <1>2, ReadKeeps, AnswerKeeps

LEMMA ReorderColumnsKeeps ==
  ASSUME IInv, NEW w \in Workers, ReorderColumns(w)
  PROVE  IInv'
<1> DEFINE s == session[w]
           t == ThenBoard(s, s.board)
           Place(c) == (CHOOSE i \in DOMAIN s.req.ids : s.req.ids[i] = c) - 1
           cs == [c \in DOMAIN cols |->
                    IF c \in Range(s.req.ids) /\ cols[c].board = s.board
                    THEN [cols[c] EXCEPT !.sort = Place(c)]
                    ELSE cols[c]]
<1>1. s.pc = "write" /\ s.req.op = "reorder" /\ Commit(w, boards, cs, procs, cells, t)
  BY DEF ReorderColumns
<1>2. Sound(boards, cs, procs, t)
  BY <1>1, AtStatement, ThenBoardIsSound DEF BoardOps
<1>3. /\ Typed(boards, cols, procs, cells)
      /\ Storable(boards, cols, procs, cells)
      /\ Joined(boards, cols, procs, cells)
  BY DEF IInv, CellsOnOneBoard
<1> HIDE DEF t, Place
<1>4. ASSUME NEW c \in DOMAIN cols
      PROVE  /\ cs[c].board = cols[c].board /\ cs[c].owner = cols[c].owner
             /\ cs[c].kind = cols[c].kind
             /\ cs[c].sort \in 0 .. MaxSort => cs[c] \in Column
  <2>1. cols[c] \in Column
    BY <1>3, <1>4 DEF Typed, IsTable
  <2>2. cs[c] = cols[c] \/ cs[c] = [cols[c] EXCEPT !.sort = Place(c)]
    BY <1>4
  <2> HIDE DEF cs
  <2> QED
    BY <2>1, <2>2 DEF Column
<1>5. DOMAIN cs = DOMAIN cols /\ cs = [c \in DOMAIN cols |-> cs[c]]
  OBVIOUS
<1> HIDE DEF cs
<1>6. ASSUME Storable(boards, cs, procs, cells)
      PROVE  Allowed(boards, cs, procs, cells, t)
  <2>1. IsTable(cs, ColumnIds, Column)
    BY <1>3, <1>4, <1>5, <1>6 DEF Storable, Typed, IsTable
  <2>2. Typed(boards, cs, procs, cells)
    BY <1>3, <2>1 DEF Typed
  <2>3. Joined(boards, cs, procs, cells)
    BY <1>3, <1>4, <1>5 DEF Joined, Storable
  <2>4. Keeps(Known, boards, cols, procs, boards, cs, procs)
    BY <1>4, <1>5 DEF Keeps
  <2> QED
    BY <1>2, <2>2, <2>3, <2>4 DEF Allowed
<1> QED
  BY <1>1, <1>6, CommitKeeps

-----------------------------------------------------------------------------
(* Processes and cells *)

\* The tables with other processes and cells, the processes on their boards.
LEMMA ProcessesAllowed ==
  ASSUME IInv, NEW ps, NEW xs, NEW t,
         Storable(boards, cols, ps, xs),
         IsTable(ps, ProcessIds, Process), IsTable(xs, ProcessIds \X ColumnIds, Statuses),
         \A p \in DOMAIN ps : ps[p].owner = boards[ps[p].board],
         \A x \in DOMAIN xs : ps[x[1]].board = cols[x[2]].board,
         \A p \in DOMAIN ps \cap Known : /\ p \in DOMAIN procs /\ ps[p].board = procs[p].board
                                        /\ ps[p].owner = procs[p].owner,
         Sound(boards, cols, ps, t)
  PROVE  Allowed(boards, cols, ps, xs, t)
<1>1. Typed(boards, cols, ps, xs)
  BY DEF IInv, Typed
<1>2. Joined(boards, cols, ps, xs)
  BY DEF IInv, CellsOnOneBoard, Joined
<1>3. Keeps(Known, boards, cols, procs, boards, cols, ps)
  BY DEF Keeps
<1> QED
  BY <1>1, <1>2, <1>3 DEF Allowed

LEMMA CreateProcessKeeps ==
  ASSUME IInv, NEW w \in Workers, CreateProcess(w)
  PROVE  IInv'
<1> DEFINE s == session[w]
           r == s.req
           t == ThenBoard(s, s.board)
           row == [board |-> s.board, owner |-> r.user, result |-> r.result,
                   details |-> OfferDetails(r.result, r.details)]
<1>1. s.pc = "write" /\ r.op = "process"
  BY DEF CreateProcess
<1>2. Sound(boards, cols, procs, s) /\ r \in Request
  BY <1>1, AtStatement
<1>3. /\ r.user \in Users /\ r.result \in Results /\ r.details \in Details \cup {None}
      /\ s.board \in DOMAIN boards => boards[s.board] = r.user
  BY <1>1, <1>2, RequestTypes DEF Sound, AtBoard, NewProcessRequest
<1>4. CASE Answer(w)
  BY <1>4, AnswerKeeps
<1>5. CASE ~ Answer(w)
  <2>1. PICK p \in Fresh(ProcessIds, procs) : Commit(w, boards, cols, Put(procs, p, row), cells, t)
    BY <1>5 DEF CreateProcess
  <2> DEFINE ps == Put(procs, p, row)
  <2>2. p \in ProcessIds /\ p \notin DOMAIN procs /\ p \notin Known
    BY DEF Fresh, Known
  <2>3. Sound(boards, cols, ps, t)
    BY <1>1, <1>2, AtStatement, ThenBoardIsSound DEF BoardOps
  <2>4. /\ row.board = s.board /\ row.owner = r.user
        /\ s.board \in BoardIds => row \in Process
    BY <1>3 DEF OfferDetails, Process
  <2> HIDE DEF t, row
  <2>5. /\ DOMAIN ps = DOMAIN procs \cup {p} /\ ps = [q \in DOMAIN ps |-> ps[q]]
        /\ ps[p] = row
        /\ \A q \in DOMAIN procs : ps[q] = procs[q]
    BY <2>2 DEF Put
  <2>6. Commit(w, boards, cols, ps, cells, t)
    BY <2>1
  <2> HIDE DEF ps
  <2>7. ASSUME Storable(boards, cols, ps, cells)
        PROVE  Allowed(boards, cols, ps, cells, t)
    <3>1. s.board \in DOMAIN boards
      BY <2>4, <2>5, <2>7 DEF Storable
    <3>2. /\ Typed(boards, cols, procs, cells)
          /\ Storable(boards, cols, procs, cells)
          /\ Joined(boards, cols, procs, cells)
      BY DEF IInv, CellsOnOneBoard
    <3>3. IsTable(ps, ProcessIds, Process) /\ IsTable(cells, ProcessIds \X ColumnIds, Statuses)
      BY <2>2, <2>4, <2>5, <3>1, <3>2 DEF IsTable, Typed
    <3>4. \A q \in DOMAIN ps : ps[q].owner = boards[ps[q].board]
      BY <1>3, <2>4, <2>5, <3>1, <3>2 DEF Joined
    <3>5. \A x \in DOMAIN cells : ps[x[1]].board = cols[x[2]].board
      BY <2>5, <3>2 DEF Joined, Storable
    <3>6. \A q \in DOMAIN ps \cap Known : q \in DOMAIN procs /\ ps[q] = procs[q]
      BY <2>2, <2>5
    <3> QED
      BY <2>3, <2>7, <3>3, <3>4, <3>5, <3>6, ProcessesAllowed
  <2> QED
    BY <2>6, <2>7, CommitKeeps
<1> QED
  BY <1>4, <1>5

\* save_process moves no process.
LEMMA SavedTypes ==
  ASSUME NEW p \in DOMAIN procs, procs[p] \in Process, NEW old \in Process, NEW new \in Process,
         new.board = old.board, new.owner = old.owner
  PROVE  /\ Saved(p, old, new) = [q \in DOMAIN procs |-> Saved(p, old, new)[q]]
         /\ \A q \in DOMAIN procs : q # p => Saved(p, old, new)[q] = procs[q]
         /\ Saved(p, old, new)[p] \in Process
         /\ Saved(p, old, new)[p].board = procs[p].board
         /\ Saved(p, old, new)[p].owner = procs[p].owner
<1> DEFINE row == [f \in DOMAIN procs[p] |-> IF new[f] = old[f] THEN procs[p][f] ELSE new[f]]
<1>1. Saved(p, old, new) = [q \in DOMAIN procs |-> IF q = p THEN row ELSE procs[q]]
  BY DEF Saved
<1>2. DOMAIN procs[p] = {"board", "owner", "result", "details"}
  BY DEF Process
<1>3. row = [board |-> procs[p].board, owner |-> procs[p].owner,
             result |-> IF new.result = old.result THEN procs[p].result ELSE new.result,
             details |-> IF new.details = old.details THEN procs[p].details ELSE new.details]
  BY <1>2
<1> HIDE DEF row
<1>4. row \in Process /\ row.board = procs[p].board /\ row.owner = procs[p].owner
  BY <1>3 DEF Process
<1> QED
  BY <1>1, <1>4

LEMMA SavedAllowed ==
  ASSUME IInv, NEW p \in DOMAIN procs, NEW old \in Process, NEW new \in Process,
         new.board = old.board, new.owner = old.owner, NEW xs,
         Storable(boards, cols, Saved(p, old, new), xs),
         IsTable(xs, ProcessIds \X ColumnIds, Statuses),
         \A x \in DOMAIN xs : procs[x[1]].board = cols[x[2]].board
  PROVE  Allowed(boards, cols, Saved(p, old, new), xs, Idle)
<1> DEFINE ps == Saved(p, old, new)
<1>1. Typed(boards, cols, procs, cells) /\ Joined(boards, cols, procs, cells)
  BY DEF IInv, CellsOnOneBoard
<1>2. procs[p] \in Process
  BY <1>1 DEF Typed, IsTable
<1>3. /\ ps = [q \in DOMAIN procs |-> ps[q]] /\ DOMAIN ps = DOMAIN procs
      /\ \A q \in DOMAIN procs : q # p => ps[q] = procs[q]
      /\ ps[p] \in Process
      /\ ps[p].board = procs[p].board
      /\ ps[p].owner = procs[p].owner
  BY <1>2, SavedTypes
<1>4. Storable(boards, cols, ps, xs)
  OBVIOUS
<1>5. Sound(boards, cols, ps, Idle)
  BY IdleIsSound
<1> HIDE DEF ps
<1>6. IsTable(ps, ProcessIds, Process)
  BY <1>1, <1>3 DEF Typed, IsTable
<1>7. \A q \in DOMAIN ps : ps[q].owner = boards[ps[q].board]
  BY <1>1, <1>3 DEF Joined
<1>8. \A x \in DOMAIN xs : ps[x[1]].board = cols[x[2]].board
  BY <1>3, <1>4 DEF Storable
<1>9. \A q \in DOMAIN ps \cap Known : /\ q \in DOMAIN procs /\ ps[q].board = procs[q].board
                                      /\ ps[q].owner = procs[q].owner
  BY <1>3
<1>10. Allowed(boards, cols, ps, xs, Idle)
  BY <1>4, <1>5, <1>6, <1>7, <1>8, <1>9, ProcessesAllowed
<1> QED
  BY <1>10 DEF ps

LEMMA UpdateProcessKeeps ==
  ASSUME IInv, NEW w \in Workers, UpdateProcess(w)
  PROVE  IInv'
<1> DEFINE s == session[w]
           r == s.req
           new == Updated(s.process, r)
           ps == Saved(r.process, s.process, new)
<1>1. s.pc = "write" /\ r.op = "update"
  BY DEF UpdateProcess
<1>2. Sound(boards, cols, procs, s) /\ r \in Request
  BY <1>1, AtStatement
<1>3. /\ r.result \in Results \cup {Unset} /\ r.details \in Details \cup {None, Unset}
      /\ s.process \in Process
  BY <1>1, <1>2, RequestTypes DEF Sound, KnowsProcess, UpdateRequest
<1>4. new \in Process /\ new.board = s.process.board /\ new.owner = s.process.owner
  BY <1>3 DEF Updated, OfferDetails, Process
<1>5. CASE r.process \notin DOMAIN procs
  BY <1>5, AnswerKeeps DEF UpdateProcess
<1>6. CASE r.process \in DOMAIN procs
  <2>1. Commit(w, boards, cols, ps, cells, Idle)
    BY <1>6 DEF UpdateProcess
  <2> HIDE DEF new
  <2>2. /\ IsTable(cells, ProcessIds \X ColumnIds, Statuses)
        /\ \A x \in DOMAIN cells : procs[x[1]].board = cols[x[2]].board
    BY DEF IInv, CellsOnOneBoard, Typed, Joined
  <2>3. Storable(boards, cols, ps, cells) => Allowed(boards, cols, ps, cells, Idle)
    BY <1>3, <1>4, <1>6, <2>2, SavedAllowed
  <2> QED
    BY <2>1, <2>3, CommitKeeps
<1> QED
  BY <1>5, <1>6

LEMMA UpsertStepValueKeeps ==
  ASSUME IInv, NEW w \in Workers, UpsertStepValue(w)
  PROVE  IInv'
<1> DEFINE s == session[w]
           r == s.req
           x == <<r.process, r.column>>
           new == Rejected(s.process, s.column.kind, r.status)
           ps == Saved(r.process, s.process, new)
           xs == Put(cells, x, r.status)
<1>1. s.pc = "write" /\ r.op = "cell"
  BY DEF UpsertStepValue
<1>2. Sound(boards, cols, procs, s) /\ r \in Request
  BY <1>1, AtStatement
<1>3. /\ r.process \in ProcessIds /\ r.column \in ColumnIds /\ r.status \in Statuses
      /\ s.process \in Process
      /\ r.process \in DOMAIN procs => procs[r.process].board = s.process.board
      /\ r.column \in DOMAIN cols => cols[r.column].board = s.process.board
  BY <1>1, <1>2, RequestTypes DEF Sound, KnowsProcess, KnowsColumn, CellRequest
<1>4. new \in Process /\ new.board = s.process.board /\ new.owner = s.process.owner
  BY <1>3 DEF Rejected, Process, Results
<1>5. CASE ~ ((x \in DOMAIN cells) = s.cell /\ r.process \in DOMAIN procs)
  BY <1>5, AnswerKeeps DEF UpsertStepValue
<1>6. CASE (x \in DOMAIN cells) = s.cell /\ r.process \in DOMAIN procs
  <2>1. Commit(w, boards, cols, ps, xs, Idle)
    BY <1>6 DEF UpsertStepValue
  <2>2. /\ DOMAIN xs = DOMAIN cells \cup {x} /\ xs = [y \in DOMAIN xs |-> xs[y]]
        /\ xs[x] = r.status
        /\ \A y \in DOMAIN cells : y # x => xs[y] = cells[y]
    BY DEF Put
  <2>3. x \in ProcessIds \X ColumnIds /\ x[1] = r.process /\ x[2] = r.column
    BY <1>3
  <2> HIDE DEF new, xs, x
  <2>4. ASSUME Storable(boards, cols, ps, xs)
        PROVE  Allowed(boards, cols, ps, xs, Idle)
    <3>1. Typed(boards, cols, procs, cells) /\ Joined(boards, cols, procs, cells)
      BY DEF IInv, CellsOnOneBoard
    <3>2. IsTable(xs, ProcessIds \X ColumnIds, Statuses)
      BY <1>3, <2>2, <2>3, <3>1 DEF IsTable, Typed
    <3>3. x \in DOMAIN xs /\ r.column \in DOMAIN cols
      BY <2>2, <2>3, <2>4 DEF Storable
    <3>4. \A y \in DOMAIN xs : procs[y[1]].board = cols[y[2]].board
      BY <1>3, <1>6, <2>2, <2>3, <3>1, <3>3 DEF Joined
    <3> QED
      BY <1>3, <1>4, <1>6, <2>4, <3>2, <3>4, SavedAllowed
  <2> HIDE DEF ps
  <2> QED
    BY <2>1, <2>4, CommitKeeps
<1> QED
  BY <1>5, <1>6

-----------------------------------------------------------------------------
(* The theorems *)

LEMMA InitIsSound ==
  ASSUME Init
  PROVE  IInv
<1>1. PICK s \in Seed : boards = s.boards /\ cols = s.cols /\ procs = s.procs /\ cells = s.cells
  BY DEF Init
<1>2. /\ Typed(boards, cols, procs, cells)
      /\ Storable(boards, cols, procs, cells)
      /\ Joined(boards, cols, procs, cells)
  BY <1>1, SeedAssumption
<1>3. /\ session = [w \in Workers |-> session[w]]
      /\ \A w \in Workers : session[w] = Idle
  BY DEF Init
<1>4. \A w \in Workers : Sound(boards, cols, procs, session[w])
  BY <1>3, IdleIsSound
<1> QED
  BY <1>2, <1>3, <1>4 DEF IInv, CellsOnOneBoard

LEMMA StutterKeeps ==
  ASSUME IInv, UNCHANGED vars
  PROVE  IInv'
<1>1. /\ boards' = boards /\ cols' = cols /\ procs' = procs /\ cells' = cells
      /\ session' = session
  BY DEF vars
<1>2. (Typed(boards, cols, procs, cells) /\ Storable(boards, cols, procs, cells))'
  BY <1>1 DEF IInv
<1>3. CellsOnOneBoard'
  BY <1>1 DEF IInv, CellsOnOneBoard
<1>4. (session = [w \in Workers |-> session[w]])'
  BY <1>1 DEF IInv
<1>5. (\A w \in Workers : Sound(boards, cols, procs, session[w]))'
  BY <1>1 DEF IInv
<1> QED
  BY <1>2, <1>3, <1>4, <1>5 DEF IInv

LEMMA StepKeeps ==
  ASSUME IInv, [Next]_vars
  PROVE  IInv'
<1>1. CASE UNCHANGED vars
  BY <1>1, StutterKeeps
<1>2. CASE Next
  <2>1. PICK w \in Workers :
          \/ Start(w) \/ ReadBoard(w) \/ ReadColumns(w) \/ Respond(w) \/ ReadMaxSort(w)
          \/ Backfill(w) \/ CreateBoard(w) \/ UpdateBoard(w) \/ DeleteBoard(w)
          \/ AddColumn(w) \/ ReadColumn(w) \/ DeleteColumn(w) \/ ReorderColumns(w)
          \/ CreateProcess(w) \/ ReadProcess(w) \/ UpdateProcess(w) \/ DeleteProcess(w)
          \/ ReadStep(w) \/ ReadCell(w) \/ UpsertStepValue(w) \/ Abort(w)
    BY <1>2 DEF Next
  <2>2. CASE \/ Start(w) \/ ReadBoard(w) \/ ReadColumns(w) \/ ReadMaxSort(w) \/ Backfill(w)
             \/ CreateBoard(w) \/ UpdateBoard(w) \/ DeleteBoard(w)
    BY <2>2, StartKeeps, ReadBoardKeeps, ReadColumnsKeeps, ReadMaxSortKeeps, BackfillKeeps,
       CreateBoardKeeps, UpdateBoardKeeps, DeleteBoardKeeps
  <2>3. CASE \/ AddColumn(w) \/ ReadColumn(w) \/ DeleteColumn(w) \/ ReorderColumns(w)
             \/ CreateProcess(w) \/ ReadProcess(w) \/ UpdateProcess(w) \/ DeleteProcess(w)
    BY <2>3, AddColumnKeeps, ReadColumnKeeps, DeleteColumnKeeps, ReorderColumnsKeeps,
       CreateProcessKeeps, ReadProcessKeeps, UpdateProcessKeeps, DeleteProcessKeeps
  <2>4. CASE ReadStep(w) \/ ReadCell(w) \/ UpsertStepValue(w)
    BY <2>4, ReadStepKeeps, ReadCellKeeps, UpsertStepValueKeeps
  <2>5. CASE Respond(w) \/ Abort(w)
    BY <2>5, AnswerKeeps DEF Respond, Abort
  <2> QED
    BY <2>1, <2>2, <2>3, <2>4, <2>5
<1> QED
  BY <1>1, <1>2

LEMMA Invariance == Spec => []IInv
<1>1. Init => IInv
  BY InitIsSound
<1>2. IInv /\ [Next]_vars => IInv'
  BY StepKeeps
<1> QED
  BY <1>1, <1>2, PTL DEF Spec

\* Every reference of a stored column, process or cell is to a stored row of the
\* right shape, at every moment of any number of concurrent requests: the
\* statements of HiringRepository and the cascades of models/hiring.py leave no
\* row behind.
THEOREM TypeCorrect == Spec => []TypeOK
<1>1. IInv => TypeOK
  BY DEF IInv, TypeOK, Sound, Phase
<1> QED
  BY <1>1, Invariance, PTL

\* ensure_step_belongs_to_process compares rows that other requests may delete
\* before the cell is written; no interleaving stores a cell that joins two
\* boards, or a row of one user on a board of another.
THEOREM CellsShareABoard == Spec => []CellsOnOneBoard
<1>1. IInv => CellsOnOneBoard
  BY DEF IInv
<1> QED
  BY <1>1, Invariance, PTL
=============================================================================
