------------------------------ MODULE Database ------------------------------
(***************************************************************************)
(* Database: one session per request, and the pool of connections and the   *)
(* row locks that the requests share.                                       *)
(*                                                                          *)
(* A session takes a connection from the pool at its first statement, also  *)
(* the first one after a commit, and gives it back at the commit and when   *)
(* the request ends.  The two reorders lock the rows they update in the     *)
(* order the client sends, so that they can wait for each other in a circle;*)
(* PostgreSQL then makes a victim of one.  A preview of a CV holds its      *)
(* connection over a call to the object store.  The reorders stand for all  *)
(* methods that write several rows, the preview for all that call the store.*)
(***************************************************************************)
EXTENDS Integers, Sequences, FiniteSets

CONSTANTS Columns,      \* the columns of one board
          Siblings,     \* the children of one node
          Workers,      \* the requests served at the same time
          PoolSize, MaxOverflow,
          None          \* no request

\* DatabaseSettings: pool_size > 0, max_overflow >= 0.
ASSUME DatabaseAssumption ==
  /\ PoolSize \in Nat \ {0} /\ MaxOverflow \in Nat
  /\ IsFiniteSet(Columns) /\ IsFiniteSet(Siblings) /\ IsFiniteSet(Workers)
  /\ Columns \cap Siblings = {}

VARIABLES place,    \* the sort_order of the columns and the nodes
          free,     \* the connections that nobody holds, opened or not
          held,     \* the requests that hold one
          session   \* session[w]: the request w serves

vars == <<place, free, held, session>>

PoolLimit == PoolSize + MaxOverflow

\* The lists that name each row of S once, as validate_column_reorder demands.
Orders(S) == {o \in [1 .. Cardinality(S) -> S] : \A i, j \in DOMAIN o : o[i] = o[j] => i = j}

\* The sort_order that the list o gives to c.
Position(o, c) == (CHOOSE i \in DOMAIN o : o[i] = c) - 1

Request ==
  [op : {"columns"}, order : Orders(Columns)] \cup [op : {"siblings"}, order : Orders(Siblings)]
    \cup [op : {"preview"}]

\* pc names the next statement or call, row counts the rows gone through, and
\* loaded are the positions of the nodes that load_reorder_nodes returned.
Idle == [pc |-> "idle", req |-> None, row |-> 0, loaded |-> [c \in {} |-> 0]]

\* Columns and children get their positions as they are created.
Init ==
  /\ \E o \in Orders(Columns), q \in Orders(Siblings) :
       place = [c \in Columns \cup Siblings |-> Position(IF c \in Columns THEN o ELSE q, c)]
  /\ free = PoolLimit
  /\ held = {}
  /\ session = [w \in Workers |-> Idle]

-----------------------------------------------------------------------------
(* Row locks *)

\* The ORM writes no row of a node that has its position as it was loaded; the
\* columns are updated unconditionally.
Skips(s, i) == s.req.op = "siblings" /\ s.loaded[s.req.order[i]] = i - 1

\* The rows a transaction has written, which it keeps locked.
Written(s) ==
  IF s.pc = "update" THEN {s.req.order[i] : i \in {j \in 1 .. s.row : ~ Skips(s, j)}} ELSE {}

\* w waits for a row that v has written.
WaitsFor(w, v) ==
  LET s == session[w] IN
  /\ v # w /\ s.pc = "update" /\ s.row < Len(s.req.order)
  /\ ~ Skips(s, s.row + 1)
  /\ s.req.order[s.row + 1] \in Written(session[v])

\* w is part of a circle of transactions that wait for each other.
InDeadlock(w) ==
  \E S \in SUBSET Workers :
    /\ w \in S
    /\ \A v \in S : (\E x \in S : WaitsFor(v, x)) /\ \E x \in S : WaitsFor(x, v)

-----------------------------------------------------------------------------
(* Sessions *)

Go(w, s) == session' = [session EXCEPT ![w] = s]

\* Mutated form: a session that is not closed.
KeepConnection(w) == UNCHANGED <<held, free>>

\* The connection of w, if it has one, goes back to the pool.
Release(w) ==
  /\ held' = held \ {w}
  /\ free' = IF w \in held THEN free + 1 ELSE free

\* The request ends, or fails: what it has not committed is rolled back.
Close(w) == Go(w, Idle) /\ Release(w)

\* A request arrives.
Arrive(w) ==
  /\ session[w].pc = "idle"
  /\ \E r \in Request : Go(w, [Idle EXCEPT !.pc = "load", !.req = r])
  /\ UNCHANGED <<place, free, held>>

Unconnected(w) == session[w].pc \in {"load", "reload"} /\ w \notin held

\* The next statement finds a connection in the pool, or one it may open.
Connect(w) ==
  /\ Unconnected(w)
  /\ free > 0
  /\ free' = free - 1
  /\ held' = held \cup {w}
  /\ UNCHANGED <<place, session>>

\* The pool has had no connection for too long.
GiveUp(w) ==
  /\ Unconnected(w)
  /\ free = 0
  /\ Close(w)
  /\ UNCHANGED place

\* get_board; load_reorder_nodes and validate_reorder; get_cv.
Load(w) ==
  LET s == session[w] IN
  /\ s.pc = "load" /\ w \in held
  /\ Go(w, [s EXCEPT !.pc = IF s.req.op = "preview" THEN "call" ELSE "update",
                     !.loaded = IF s.req.op = "siblings" THEN [n \in Siblings |-> place[n]]
                                ELSE @])
  /\ UNCHANGED <<place, free, held>>

\* Mutated form: each UPDATE is committed on its own.
UpdateAtOnce(w) ==
  LET s == session[w] IN
  /\ s.pc = "update" /\ s.row < Len(s.req.order)
  /\ ~ \E v \in Workers : WaitsFor(w, v)
  /\ place' = [place EXCEPT ![s.req.order[s.row + 1]] = s.row]
  /\ Go(w, [s EXCEPT !.row = @ + 1])
  /\ UNCHANGED <<free, held>>

\* The UPDATE of the next row, which may have to wait for it.
Update(w) ==
  LET s == session[w] IN
  /\ s.pc = "update" /\ s.row < Len(s.req.order)
  /\ ~ \E v \in Workers : WaitsFor(w, v)
  /\ Go(w, [s EXCEPT !.row = @ + 1])
  /\ UNCHANGED <<place, free, held>>

\* The rows get the positions of the list.  reorder_columns goes on to read the
\* board.
Commit(w) ==
  LET s == session[w] o == s.req.order IN
  /\ s.pc = "update" /\ s.row = Len(o)
  /\ place' = [c \in DOMAIN place |->
                 IF c \in Written(s) THEN Position(o, c) ELSE place[c]]
  /\ Go(w, IF s.req.op = "columns" THEN [s EXCEPT !.pc = "reload", !.row = 0] ELSE Idle)
  /\ Release(w)

\* get_board after the commit, for the answer.
Reload(w) ==
  /\ session[w].pc = "reload" /\ w \in held
  /\ Close(w)
  /\ UNCHANGED place

\* get_object returns or raises.
GetObject(w) ==
  /\ session[w].pc = "call"
  /\ Close(w)
  /\ UNCHANGED place

-----------------------------------------------------------------------------
(* Faults *)

\* PostgreSQL ends one of the transactions that wait for each other.
Victim(w) ==
  /\ InDeadlock(w)
  /\ Close(w)
  /\ UNCHANGED place

\* A statement or the commit fails; get_session rolls back.
StatementFails(w) ==
  /\ w \in held /\ session[w].pc # "call"
  /\ Close(w)
  /\ UNCHANGED place

\* The process is restarted, with a new pool.
Restart ==
  /\ session' = [w \in Workers |-> Idle]
  /\ held' = {}
  /\ free' = PoolLimit
  /\ UNCHANGED place

-----------------------------------------------------------------------------

Statement(w) == Connect(w) \/ Load(w) \/ Update(w) \/ Commit(w) \/ Reload(w) \/ GetObject(w)

Next ==
  \/ \E w \in Workers : \/ Arrive(w) \/ Statement(w) \/ GiveUp(w)
                        \/ Victim(w) \/ StatementFails(w)
  \/ Restart

Spec == Init /\ [][Next]_vars

\* The pool and the row locks serve those that wait in their turn, statements
\* and calls return, and PostgreSQL looks for deadlocks.  Nobody need give up,
\* fail or restart.
FairSpec ==
  /\ Spec
  /\ \A w \in Workers : SF_vars(Statement(w))
  /\ WF_vars(\E w \in Workers : Victim(w))

-----------------------------------------------------------------------------
(* Properties *)

\* Sessions have their shapes, and every connection is in the pool or with one
\* request under way: none is lost by a failure, none is given back twice.
TypeOK ==
  /\ place \in [Columns \cup Siblings -> Nat]
  /\ held \subseteq {w \in Workers : session[w].pc # "idle"}
  /\ free \in Nat /\ free + Cardinality(held) = PoolLimit
  /\ \A w \in Workers :
       LET s == session[w] IN
       /\ s.pc \in {"idle", "load", "update", "reload", "call"}
       /\ IF s.pc = "idle" THEN s = Idle ELSE s.req \in Request
       /\ s.pc = "update" => s.row \in 0 .. Len(s.req.order)
       /\ s.pc \in {"update", "call"} => w \in held

\* The order of the columns is at any time the order one request sent: two
\* reorders at a time, deadlocks and failures never leave a mixture.
ColumnsInOneOrder ==
  [][(\E c \in Columns : place'[c] # place[c]) =>
       \E w \in Workers :
         /\ session[w].pc = "update" /\ session[w].req.op = "columns"
         /\ \A i \in DOMAIN session[w].req.order : place'[session[w].req.order[i]] = i - 1]_vars

\* Every request ends without anybody giving up: a request that waits for a
\* connection holds no lock, one that waits for a row does not wait for ever,
\* and no connection is lost.
RequestsEnd == \A w \in Workers : session[w].pc # "idle" ~> session[w].pc = "idle"
=============================================================================
