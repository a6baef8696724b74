-------------------------- MODULE MCHiringService --------------------------
(* Small instances of HiringService. *)
EXTENDS HiringService, TLC

CONSTANTS b1, b2, c1, c2, c3, p1, u1, u2, w1, w2, d

\* The default columns, cut to two, and all three.
MCDefaultKinds == <<"applied", "hr_screen">>
MCAllDefaultKinds == <<"applied", "hr_screen", "technical">>

\* Reorders name two columns.
MCOrders == [1 .. 2 -> ColumnIds]

\* b1 is a legacy board that only has Applied, with a process that got an
\* offer; b2, of the same user, has a column of its own.
MCBoards ==
  {[boards |-> b1 :> u1 @@ b2 :> u1,
    cols |-> c1 :> [board |-> b1, owner |-> u1, kind |-> "applied", sort |-> 0]
               @@ c2 :> [board |-> b2, owner |-> u1, kind |-> "custom", sort |-> 0],
    procs |-> p1 :> [board |-> b1, owner |-> u1, result |-> "offer", details |-> d],
    cells |-> <<>>]}

\* Updates of processes and cells.  c2 is a column of the other board.
Processes ==
  {r \in Request :
     CASE r.user = u2 -> r.op = "cell" /\ r.column = c1
       [] r.op = "update" -> \/ r.result = Unset /\ r.details = d
                             \/ r.result \in {"offer", "in_progress"} /\ r.details = Unset
       [] r.op = "cell" -> r.status = "failed" \/ r.column = c3
       [] r.op = "remove" -> TRUE
       [] OTHER -> FALSE}

\* Changes of boards and columns, on b1.  The user u2 tries to add to the board
\* of u1.
Boards ==
  {r \in Request :
     CASE r.user = u2 -> r.op = "process" /\ r.board = b1 /\ r.result = "offer"
       [] r.op \in {"get", "rename", "delete"} -> r.board = b1
       [] r.op = "add" -> r.board = b1 /\ r.kind = "custom"
       [] r.op = "drop" -> r.board = b1
       [] r.op = "reorder" -> r.board = b1
       [] r.op = "process" -> r.board = b1 /\ r.details = d /\ r.result # "rejected"
       [] r.op = "new" -> TRUE
       [] OTHER -> FALSE}

\* Nothing but the requests for one board that are not about processes.
Columns == {r \in Boards : r.op # "process"}

\* w1 writes processes and cells, w2 boards and columns.
MCTwoWriters == [w \in Workers |-> IF w = w1 THEN Processes ELSE Boards]

MCColumns == [w \in Workers |-> Columns]
=============================================================================
