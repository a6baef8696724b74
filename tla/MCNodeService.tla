--------------------------- MODULE MCNodeService ---------------------------
(* Small instances of NodeService: seeds and workloads of its runs. *)
EXTENDS NodeService, TLC

CONSTANTS n1, n2, n3, w1, w2, u1, u2, a, b, en, ru

MCOrders == UNION {[1 .. k -> NodeIds] : k \in 1 .. 2}

Stored(owner, parent, title, sort) ==
  [owner |-> owner, parent |-> parent, title |-> title, sort |-> sort]

\* Two roots of one user; a third id is free.
MCTwoRoots ==
  {[nodes |-> (n1 :> Stored(u1, None, a, 0)) @@ (n2 :> Stored(u1, None, b, 1)),
    tr |-> {}]}

\* Every method.  A sort_order is given by a patch only, and is 0; a create
\* answers in one language only, and one stored node gets more; a reorder names
\* two nodes.
MCRequest ==
  {r \in Request :
     CASE r.op = "create" -> r.sort = None /\ r.lang # ru
       [] r.op = "update" -> (r.title = None) # (r.sort = None) /\ r.sort \in {None, 0}
       [] r.op = "move" -> r.sort = None
       [] r.op \in {"upsert", "untranslate"} -> r.node = n2
       [] r.op = "reorder" -> Len(r.ids) = 2
       [] OTHER -> TRUE}

MCAnything == [w \in Workers |-> MCRequest]

\* A leaf of one user that stores two answers.
MCTwoAnswers ==
  {[nodes |-> n1 :> Stored(u1, None, a, 0) @@ n2 :> Stored(u1, n1, a, 0),
    tr |-> {<<n2, en>>, <<n2, ru>>}]}

\* One user has a chain of two nodes, another a root.
MCTwoUsers ==
  {[nodes |-> (n1 :> Stored(u1, None, a, 0)) @@ (n2 :> Stored(u1, n1, a, 0))
                @@ (n3 :> Stored(u2, None, b, 0)),
    tr |-> {<<n3, en>>}]}

\* No two workers move nodes of one user, or answer a node and give it a child: for
\* u1, w1 moves, reorders the nodes n1, n2 and n4, and answers n2 in en, while w2
\* creates, renames, sorts and deletes, but creates nothing under n2.  The second
\* user tries a create and a move, also under the nodes of the first, all through w2.
MCApart ==
  [w \in Workers |->
     {r \in MCRequest :
        /\ r.op \in IF w = w1 THEN {"move", "reorder", "upsert"}
                              ELSE {"create", "update", "delete", "move"}
        /\ r.op = "create" => r.title = b /\ r.lang = None /\ r.parent # n2
        /\ r.op = "update" => r.title \in {b, None}
        /\ r.op = "upsert" => r.lang = en
        /\ r.op = "reorder" => n3 \notin Range(r.ids) /\ r.parent \in {None, n1}
        /\ w = w1 \/ r.op \notin {"create", "move"} => r.user = u1
        /\ w = w2 /\ r.op = "move" => r.user = u2 /\ r.node = n3 /\ r.parent # n2
        /\ r.op = "create" /\ r.user = u2 => r.parent # None}]

Moves == {r \in MCRequest : r.op = "move"}
CreatesAndUpserts == {r \in Request : \/ r.op = "create" /\ r.sort = None
                                      \/ r.op = "upsert"}
Creates == {r \in MCRequest : r.op = "create"}

Untranslates == {r \in MCRequest : r.op = "untranslate"}

MCMoves == [w \in Workers |-> Moves]
MCCreatesAndUpserts == [w \in Workers |-> CreatesAndUpserts]
MCCreates == [w \in Workers |-> Creates]
MCUntranslates == [w \in Workers |-> Untranslates]

=============================================================================
