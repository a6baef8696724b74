--------------------------- MODULE DatabaseProofs ---------------------------
(***************************************************************************)
(* Database for any number of requests, columns, nodes and connections: no  *)
(* connection is lost, and the columns have the order of one request.       *)
(*                                                                          *)
(* The inductive invariant adds to TypeOK that a request that updates rows  *)
(* is one of the two reorders, so that it has a list to go through, and     *)
(* starts at its first row.                                                 *)
(***************************************************************************)
EXTENDS Database, FiniteSetTheorems, TLAPS

Reordering(s) ==
  /\ s.pc = "update" => s.req.op \in {"columns", "siblings"}
  /\ s.pc = "load" => s.row = 0

IInv ==
  /\ TypeOK
  /\ session = [w \in Workers |-> session[w]]
  /\ \A w \in Workers : /\ DOMAIN session[w] = {"pc", "req", "row", "loaded"}
                        /\ Reordering(session[w])

-----------------------------------------------------------------------------
(* Lists of rows *)

\* The request of a reorder carries a list of the rows of its table.
LEMMA ReorderRequests ==
  ASSUME NEW r \in Request
  PROVE  /\ r.op = "columns" => r.order \in Orders(Columns)
         /\ r.op = "siblings" => r.order \in Orders(Siblings)
         /\ r.op \in {"columns", "siblings", "preview"}
  BY DEF Request

\* A list names every row once, at the position it gives it.
LEMMA ListsNameAll ==
  ASSUME NEW S, IsFiniteSet(S), NEW o \in Orders(S)
  PROVE  /\ o \in Seq(S) /\ Len(o) = Cardinality(S) /\ Cardinality(S) \in Nat
         /\ DOMAIN o = 1 .. Len(o)
         /\ \A i \in DOMAIN o : o[i] \in S /\ Position(o, o[i]) = i - 1
         /\ \A c \in S : Position(o, c) \in Nat
<1> DEFINE n == Cardinality(S)
<1>1. n \in Nat
  BY FS_CardinalityType
<1>2. /\ o \in [1 .. n -> S]
      /\ \A i, j \in DOMAIN o : o[i] = o[j] => i = j
  BY DEF Orders
<1>3. o \in Seq(S) /\ Len(o) = n /\ DOMAIN o = 1 .. n
  BY <1>1, <1>2
<1>4. \A i \in DOMAIN o : Position(o, o[i]) = i - 1
  BY <1>2, <1>3 DEF Position
<1>5. \A c \in S : \E i \in DOMAIN o : o[i] = c
  <2>1. o \in Injection(1 .. n, S)
    BY <1>2, <1>3 DEF Injection, IsInjective
  <2>2. Cardinality(1 .. n) = n
    BY <1>1, FS_Interval
  <2>3. o \in Surjection(1 .. n, S)
    BY <2>1, <2>2, FS_Injection
  <2> QED
    BY <1>3, <2>3 DEF Surjection
<1>6. \A c \in S : Position(o, c) \in Nat
  BY <1>1, <1>3, <1>4, <1>5
<1> QED
  BY <1>1, <1>2, <1>3, <1>4, <1>6

-----------------------------------------------------------------------------
(* Each step keeps the invariant *)

LEMMA PoolLimitIsNatural == PoolLimit \in Nat
  BY DatabaseAssumption DEF PoolLimit

\* A connection given back is counted once.
LEMMA ReleaseCounts ==
  ASSUME IInv, NEW w \in Workers, Release(w)
  PROVE  /\ held' = held \ {w}
         /\ free' \in Nat /\ free' + Cardinality(held') = PoolLimit
<1>1. IsFiniteSet(held) /\ free \in Nat /\ free + Cardinality(held) = PoolLimit
  BY FS_Subset, DatabaseAssumption DEF IInv, TypeOK
<1>2. Cardinality(held) \in Nat
  BY <1>1, FS_CardinalityType
<1>3. Cardinality(held \ {w}) = IF w \in held THEN Cardinality(held) - 1 ELSE Cardinality(held)
  BY <1>1, FS_RemoveElement
<1> QED
  BY <1>1, <1>2, <1>3 DEF Release

\* A session that gives its connection back goes on to the reload, or ends.
LEMMA ReleaseKeeps ==
  ASSUME IInv, NEW w \in Workers, NEW s, Go(w, s), Release(w),
         place' \in [Columns \cup Siblings -> Nat],
         DOMAIN s = {"pc", "req", "row", "loaded"},
         s = Idle \/ (s.pc = "reload" /\ s.req \in Request)
  PROVE  IInv'
<1>1. /\ session'[w] = s
      /\ \A v \in Workers \ {w} : session'[v] = session[v]
      /\ session' = [v \in Workers |-> session'[v]]
  BY DEF IInv, Go
<1>2. /\ held' = held \ {w}
      /\ free' \in Nat /\ free' + Cardinality(held') = PoolLimit
  BY ReleaseCounts
<1>3. \/ s.pc = "idle" /\ s = Idle
      \/ s.pc = "reload" /\ s.req \in Request
  BY DEF Idle
<1>4. \A v \in Workers :
        LET t == session'[v] IN
        /\ t.pc \in {"idle", "load", "update", "reload", "call"}
        /\ IF t.pc = "idle" THEN t = Idle ELSE t.req \in Request
        /\ t.pc = "update" => t.row \in 0 .. Len(t.req.order)
        /\ t.pc \in {"update", "call"} => v \in held'
        /\ DOMAIN t = {"pc", "req", "row", "loaded"}
        /\ Reordering(t)
  BY <1>1, <1>2, <1>3 DEF IInv, TypeOK, Reordering
<1>5. held' \subseteq {v \in Workers : session'[v].pc # "idle"}
  BY <1>1, <1>2 DEF IInv, TypeOK
<1>6. TypeOK'
  BY <1>2, <1>4, <1>5 DEF TypeOK, PoolLimit
<1> QED
  BY <1>1, <1>4, <1>6 DEF IInv, Reordering

LEMMA CloseKeeps ==
  ASSUME IInv, NEW w \in Workers, Close(w), place' \in [Columns \cup Siblings -> Nat]
  PROVE  IInv'
<1>1. DOMAIN Idle = {"pc", "req", "row", "loaded"}
  BY DEF Idle
<1> QED
  BY <1>1, ReleaseKeeps DEF Close

\* A session that goes on, with the same connection or none.
LEMMA GoKeeps ==
  ASSUME IInv, NEW w \in Workers, NEW s, Go(w, s), UNCHANGED <<place, free, held>>,
         DOMAIN s = {"pc", "req", "row", "loaded"},
         s.pc \in {"load", "update", "call"}, s.req \in Request, Reordering(s),
         s.pc = "update" => s.row \in 0 .. Len(s.req.order),
         s.pc \in {"update", "call"} => w \in held
  PROVE  IInv'
<1>1. /\ session'[w] = s
      /\ \A v \in Workers \ {w} : session'[v] = session[v]
      /\ session' = [v \in Workers |-> session'[v]]
  BY DEF IInv, Go
<1>2. \A v \in Workers :
        LET t == session'[v] IN
        /\ t.pc \in {"idle", "load", "update", "reload", "call"}
        /\ IF t.pc = "idle" THEN t = Idle ELSE t.req \in Request
        /\ t.pc = "update" => t.row \in 0 .. Len(t.req.order)
        /\ t.pc \in {"update", "call"} => v \in held'
        /\ DOMAIN t = {"pc", "req", "row", "loaded"}
        /\ Reordering(t)
  BY <1>1 DEF IInv, TypeOK, Reordering
<1>3. held' \subseteq {v \in Workers : session'[v].pc # "idle"}
  BY <1>1 DEF IInv, TypeOK
<1>4. TypeOK'
  BY <1>2, <1>3 DEF IInv, TypeOK, PoolLimit
<1> QED
  BY <1>1, <1>2, <1>4 DEF IInv, Reordering

LEMMA ArriveKeeps ==
  ASSUME IInv, NEW w \in Workers, Arrive(w)
  PROVE  IInv'
<1>1. PICK r \in Request : Go(w, [Idle EXCEPT !.pc = "load", !.req = r])
  BY DEF Arrive
<1> DEFINE s == [Idle EXCEPT !.pc = "load", !.req = r]
<1>2. DOMAIN s = {"pc", "req", "row", "loaded"} /\ s.pc = "load" /\ s.req = r /\ s.row = 0
  BY DEF Idle
<1>3. Go(w, s) /\ UNCHANGED <<place, free, held>>
  BY <1>1 DEF Arrive
<1> HIDE DEF s
<1> QED
  BY <1>2, <1>3, GoKeeps DEF Reordering

LEMMA ConnectKeeps ==
  ASSUME IInv, NEW w \in Workers, Connect(w)
  PROVE  IInv'
<1>1. IsFiniteSet(held) /\ free \in Nat /\ free + Cardinality(held) = PoolLimit
  BY FS_Subset, DatabaseAssumption DEF IInv, TypeOK
<1>2. Cardinality(held) \in Nat
  BY <1>1, FS_CardinalityType
<1>3. Cardinality(held \cup {w}) = Cardinality(held) + 1
  BY <1>1, FS_AddElement DEF Connect, Unconnected
<1>4. free' \in Nat /\ free' + Cardinality(held') = PoolLimit
  BY <1>1, <1>2, <1>3 DEF Connect
<1>5. held' = held \cup {w} /\ session' = session /\ place' = place /\ session[w].pc # "idle"
  BY DEF Connect, Unconnected
<1>6. TypeOK'
  BY <1>4, <1>5 DEF IInv, TypeOK, PoolLimit
<1> QED
  BY <1>5, <1>6 DEF IInv, Reordering

LEMMA LoadKeeps ==
  ASSUME IInv, NEW w \in Workers, Load(w)
  PROVE  IInv'
<1> DEFINE r == session[w].req
           pc == IF r.op = "preview" THEN "call" ELSE "update"
           L == IF r.op = "siblings" THEN [n \in Siblings |-> place[n]] ELSE session[w].loaded
           s == [session[w] EXCEPT !.pc = pc, !.loaded = L]
<1>1. Go(w, s) /\ UNCHANGED <<place, free, held>> /\ w \in held /\ session[w].pc = "load"
  BY DEF Load
<1>2. /\ r \in Request /\ session[w].row = 0
      /\ DOMAIN session[w] = {"pc", "req", "row", "loaded"}
  BY <1>1 DEF IInv, TypeOK, Reordering
<1>3. /\ DOMAIN s = {"pc", "req", "row", "loaded"}
      /\ s.pc = pc /\ s.req = r /\ s.row = 0
  BY <1>2
<1>4. s.pc = "update" => s.req.op \in {"columns", "siblings"} /\ 0 \in 0 .. Len(s.req.order)
  BY <1>2, <1>3, ReorderRequests, ListsNameAll, DatabaseAssumption
<1>5. s.pc \in {"update", "call"}
  BY <1>3
<1> HIDE DEF s
<1> QED
  BY <1>1, <1>2, <1>3, <1>4, <1>5, GoKeeps DEF Reordering

LEMMA UpdateKeeps ==
  ASSUME IInv, NEW w \in Workers, Update(w)
  PROVE  IInv'
<1> DEFINE s == [session[w] EXCEPT !.row = @ + 1]
<1>1. /\ Go(w, s) /\ UNCHANGED <<place, free, held>>
      /\ session[w].pc = "update" /\ session[w].row < Len(session[w].req.order)
  BY DEF Update
<1>2. /\ DOMAIN session[w] = {"pc", "req", "row", "loaded"}
      /\ session[w].req \in Request /\ w \in held /\ Reordering(session[w])
      /\ session[w].row \in 0 .. Len(session[w].req.order)
  BY <1>1 DEF IInv, TypeOK
<1>3. Len(session[w].req.order) \in Nat
  BY <1>1, <1>2, ReorderRequests, ListsNameAll, DatabaseAssumption DEF Reordering
<1>4. /\ DOMAIN s = {"pc", "req", "row", "loaded"}
      /\ s.pc = "update" /\ s.req = session[w].req /\ s.row \in 0 .. Len(s.req.order)
  BY <1>1, <1>2, <1>3
<1>5. Reordering(s)
  BY <1>1, <1>2, <1>4 DEF Reordering
<1> HIDE DEF s
<1> QED
  BY <1>1, <1>2, <1>4, <1>5, GoKeeps

\* What a reorder writes: the list's rows, at their positions, and nothing else.
LEMMA CommitWrites ==
  ASSUME IInv, NEW w \in Workers, Commit(w)
  PROVE  /\ place' \in [Columns \cup Siblings -> Nat]
         /\ session[w].pc = "update"
         /\ \/ /\ session[w].req.op = "columns"
               /\ \A i \in DOMAIN session[w].req.order : place'[session[w].req.order[i]] = i - 1
            \/ \A c \in Columns : place'[c] = place[c]
<1> DEFINE s == session[w]
           o == s.req.order
           S == IF s.req.op = "columns" THEN Columns ELSE Siblings
<1>1. /\ s.pc = "update" /\ s.row = Len(o)
      /\ place' = [c \in DOMAIN place |->
                     IF c \in Written(s) THEN Position(o, c) ELSE place[c]]
  BY DEF Commit
<1>2. /\ s.req \in Request /\ s.req.op \in {"columns", "siblings"}
      /\ place \in [Columns \cup Siblings -> Nat]
  BY <1>1 DEF IInv, TypeOK, Reordering
<1>3. o \in Orders(S) /\ IsFiniteSet(S)
  BY <1>2, ReorderRequests, DatabaseAssumption
<1>4. /\ Len(o) \in Nat /\ DOMAIN o = 1 .. Len(o)
      /\ \A i \in DOMAIN o : o[i] \in S /\ Position(o, o[i]) = i - 1
      /\ \A c \in S : Position(o, c) \in Nat
  BY <1>3, ListsNameAll
<1>5. Written(s) \subseteq S
  BY <1>1, <1>4 DEF Written
<1>6. place' \in [Columns \cup Siblings -> Nat]
  BY <1>1, <1>2, <1>4, <1>5
<1>7. CASE s.req.op = "columns"
  <2>1. \A i \in DOMAIN o : o[i] \in Written(s) /\ o[i] \in DOMAIN place
    BY <1>1, <1>2, <1>4, <1>7 DEF Written, Skips
  <2> QED
    BY <1>1, <1>4, <1>6, <1>7, <2>1
<1>8. CASE s.req.op = "siblings"
  BY <1>1, <1>2, <1>5, <1>6, <1>8, DatabaseAssumption
<1> QED
  BY <1>2, <1>7, <1>8

LEMMA CommitKeeps ==
  ASSUME IInv, NEW w \in Workers, Commit(w)
  PROVE  IInv'
<1> DEFINE s == session[w]
           t == IF s.req.op = "columns" THEN [s EXCEPT !.pc = "reload", !.row = 0] ELSE Idle
<1>1. Go(w, t) /\ Release(w) /\ s.pc = "update"
  BY DEF Commit
<1>2. s.req \in Request /\ DOMAIN s = {"pc", "req", "row", "loaded"}
  BY <1>1 DEF IInv, TypeOK
<1>3. DOMAIN t = {"pc", "req", "row", "loaded"}
  BY <1>2 DEF Idle
<1>4. t = Idle \/ (t.pc = "reload" /\ t.req \in Request)
  BY <1>2
<1> HIDE DEF t
<1> QED
  BY <1>1, <1>3, <1>4, CommitWrites, ReleaseKeeps

\* A new pool has all its connections.
LEMMA RestartKeeps == IInv /\ Restart => IInv'
<1> SUFFICES ASSUME IInv, Restart PROVE IInv'
  OBVIOUS
<1>1. Idle.pc = "idle" /\ DOMAIN Idle = {"pc", "req", "row", "loaded"}
  BY DEF Idle
<1>2. /\ held' = {} /\ free' = PoolLimit /\ place' = place
      /\ session' = [v \in Workers |-> session'[v]]
      /\ \A v \in Workers : session'[v] = Idle
  BY DEF Restart
<1>3. free' \in Nat /\ free' + Cardinality(held') = PoolLimit
  BY <1>2, PoolLimitIsNatural, FS_EmptySet
<1>4. TypeOK'
  BY <1>1, <1>2, <1>3 DEF IInv, TypeOK, PoolLimit
<1> QED
  BY <1>1, <1>2, <1>4 DEF IInv, Reordering

LEMMA Initially == Init => IInv
<1> SUFFICES ASSUME Init PROVE IInv
  OBVIOUS
<1>1. Idle.pc = "idle" /\ DOMAIN Idle = {"pc", "req", "row", "loaded"}
  BY DEF Idle
<1>2. place \in [Columns \cup Siblings -> Nat]
  <2>1. PICK o \in Orders(Columns), q \in Orders(Siblings) :
          place = [c \in Columns \cup Siblings |-> Position(IF c \in Columns THEN o ELSE q, c)]
    BY DEF Init
  <2>2. /\ \A c \in Columns : Position(o, c) \in Nat
        /\ \A c \in Siblings : Position(q, c) \in Nat
    BY ListsNameAll, DatabaseAssumption
  <2>3. \A c \in Columns \cup Siblings : Position(IF c \in Columns THEN o ELSE q, c) \in Nat
    BY <2>2
  <2> QED
    BY <2>1, <2>3
<1>3. free \in Nat /\ free + Cardinality(held) = PoolLimit
  BY PoolLimitIsNatural, FS_EmptySet DEF Init
<1>4. \A v \in Workers : session[v] = Idle
  BY DEF Init
<1>5. TypeOK
  BY <1>1, <1>2, <1>3, <1>4 DEF Init, TypeOK
<1> QED
  BY <1>1, <1>4, <1>5 DEF Init, IInv, Reordering

LEMMA NextKeeps == IInv /\ [Next]_vars => IInv'
<1> SUFFICES ASSUME IInv, [Next]_vars PROVE IInv'
  OBVIOUS
<1>1. ASSUME NEW w \in Workers,
             \/ GiveUp(w) \/ Reload(w) \/ GetObject(w) \/ Victim(w) \/ StatementFails(w)
      PROVE  IInv'
  <2>1. Close(w) /\ place' = place
    BY <1>1 DEF GiveUp, Reload, GetObject, Victim, StatementFails
  <2> QED
    BY <2>1, CloseKeeps DEF IInv, TypeOK
<1>2. CASE UNCHANGED vars
  BY <1>2 DEF vars, IInv, TypeOK, Reordering, PoolLimit
<1> QED
  BY <1>1, <1>2, ArriveKeeps, ConnectKeeps, LoadKeeps, UpdateKeeps, CommitKeeps, RestartKeeps
     DEF Next, Statement

\* The inductive invariant holds of every behaviour.
LEMMA Invariance == Spec => []IInv
  BY Initially, NextKeeps, PTL DEF Spec

\* For any pool and any number of requests, every connection is in the pool or
\* with one request under way.
THEOREM TypeCorrect == Spec => []TypeOK
  BY Invariance, PTL DEF IInv

\* The columns never have an order that mixes those of two requests.
THEOREM ColumnsStayInOneOrder == Spec => ColumnsInOneOrder
<1> DEFINE Whole ==
             (\E c \in Columns : place'[c] # place[c]) =>
               \E w \in Workers :
                 /\ session[w].pc = "update" /\ session[w].req.op = "columns"
                 /\ \A i \in DOMAIN session[w].req.order :
                      place'[session[w].req.order[i]] = i - 1
<1>1. ASSUME IInv, [Next]_vars PROVE [Whole]_vars
  <2>1. CASE place' = place
    BY <2>1
  <2>2. CASE \E w \in Workers : Commit(w)
    BY <1>1, <2>2, CommitWrites
  <2>3. place' = place \/ \E w \in Workers : Commit(w)
    BY <1>1 DEF vars, Next, Statement, Arrive, Connect, GiveUp, Load, Update, Reload,
                GetObject, Victim, StatementFails, Restart
  <2> QED
    BY <2>1, <2>2, <2>3
<1> QED
  BY <1>1, Invariance, PTL DEF Spec, ColumnsInOneOrder
=============================================================================
