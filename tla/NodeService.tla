----------------------------- MODULE NodeService -----------------------------
(***************************************************************************)
(* NodeService as the database sees it: requests that run at the same time, *)
(* each in a session of its own, one SQL statement after another.           *)
(*                                                                          *)
(* Under READ COMMITTED a statement reads what is committed when it starts, *)
(* so each query of a request is one step and sees the changes that other   *)
(* requests committed since the last.  The writes of a request and its      *)
(* commit are one step: row locks, unique indexes and foreign keys make     *)
(* another writer of the same rows wait, so the tables change at the commit *)
(* and the constraints are judged against it.  A write that the database    *)
(* refuses rolls back and answers 500.                                      *)
(*                                                                          *)
(* The session of a worker holds what the service keeps between statements: *)
(* the rows and translations it has loaded, the sort_order it computed.     *)
(***************************************************************************)
EXTENDS NodeRepo

CONSTANTS Workers,   \* the requests served at the same time
          Workload,  \* Workload[w]: the payloads w may be sent
          Seed       \* the databases the behaviours start from

VARIABLES nodes,    \* the table nodes
          tr,       \* the table node_translations, as pairs <<node, language>>
          used,     \* the ids ever given to a node: uuid4 repeats none
          session   \* session[w]: the request w serves and what it has read

vars == <<nodes, tr, used, session>>

Tree == INSTANCE NodeTree

ASSUME WorkloadAssumption ==
  /\ Workload \in [Workers -> SUBSET Request]
  /\ \A s \in Seed : Tree!GoodDatabase(s)

\* No request is being served.  Otherwise pc names the next statement, held the
\* rows loaded (the identity map), langs the translations loaded with the node
\* or parent, sort the computed sort_order, at the position in a reorder and
\* row the translation to delete.
Idle == [pc |-> "idle", req |-> None, held |-> <<>>, langs |-> {}, sort |-> None,
         at |-> 1, row |-> None]

Init ==
  /\ \E s \in Seed : nodes = s.nodes /\ tr = s.tr /\ used = DOMAIN s.nodes
  /\ session = [w \in Workers |-> Idle]

-----------------------------------------------------------------------------
(* Steps of a session *)

\* A statement that writes nothing, after which the session of w is s.
Continue(w, s) ==
  session' = [session EXCEPT ![w] = s] /\ UNCHANGED <<nodes, tr, used>>

\* The request ends: answered, refused or failed; get_session rolls back.
Answer(w) == Continue(w, Idle)

\* A translation row that another request has deleted is gone for good: the
\* row of a later upsert has another id.
Forget(s, x) == IF s.row \in x THEN s ELSE [s EXCEPT !.row = None]

\* Mutated form: a schema without its constraints.
CommitUnchecked(w, t, x, s) ==
  /\ nodes' = t
  /\ tr' = x
  /\ used' = used \cup DOMAIN t
  /\ session' = [session EXCEPT ![w] = s]

\* The commit of tables t and x by w, which goes on in session s.
Commit(w, t, x, s) ==
  IF Storable(t, x)
  THEN /\ nodes' = t
       /\ tr' = x
       /\ used' = used \cup DOMAIN t
       /\ session' = [v \in Workers |-> IF v = w THEN s ELSE Forget(session[v], x)]
  ELSE Answer(w)

\* After its commit, a request other than a reorder or delete reads its node.
Reloading == [Idle EXCEPT !.pc = "reload"]

AfterParent(r) == IF r.op = "reorder" THEN "nodes" ELSE "title"

AfterTitle(r) == IF r.op # "update" /\ r.sort = None THEN "max" ELSE "write"

AfterLoad(r) ==
  CASE r.op = "update" -> IF r.title = None THEN "write" ELSE "title"
    [] r.op = "move" -> IF r.parent = None THEN "title" ELSE "descend"
    [] r.op = "upsert" -> "children"
    [] r.op = "untranslate" -> "translation"
    [] r.op = "delete" -> "write"

First(r) ==
  CASE r.op = "create" -> IF r.parent = None THEN "title" ELSE "parent"
    [] r.op = "reorder" -> IF r.parent = None THEN "nodes" ELSE "parent"
    [] OTHER -> "load"

-----------------------------------------------------------------------------
(* The statements *)

\* The ids a payload names.
Named(r) ==
  CASE r.op = "create" -> {r.parent} \ {None}
    [] r.op = "move" -> {r.node, r.parent} \ {None}
    [] r.op = "reorder" -> (Range(r.ids) \cup {r.parent}) \ {None}
    [] OTHER -> {r.node}

\* A request arrives.  Clients learn the id of a node from the answer to its
\* create, so none names an id before.  ensure_unique_reorder_ids needs no
\* statement.
Start(w) ==
  /\ session[w].pc = "idle"
  /\ \E r \in Workload[w] :
       /\ Named(r) \subseteq used
       /\ r.op = "reorder" => IsInjective(r.ids)
       /\ Continue(w, [Idle EXCEPT !.pc = First(r), !.req = r])

\* Mutated form: get_node finds the nodes of other users.
LoadAnyones(w) ==
  LET s == session[w] r == s.req IN
  /\ s.pc = "load"
  /\ IF r.node \in DOMAIN nodes
     THEN Continue(w, [s EXCEPT !.pc = AfterLoad(r),
                                !.held = [n \in {r.node} |-> nodes[n]],
                                !.langs = Langs(tr, r.node)])
     ELSE Answer(w)

\* get_node.
Load(w) ==
  LET s == session[w] r == s.req IN
  /\ s.pc = "load"
  /\ IF r.node \in Owned(nodes, r.user)
     THEN Continue(w, [s EXCEPT !.pc = AfterLoad(r),
                                !.held = [n \in {r.node} |-> nodes[n]],
                                !.langs = Langs(tr, r.node)])
     ELSE Answer(w)

\* Mutated form: a node that stores an answer may get children.
ReadAnyParent(w) ==
  LET s == session[w] r == s.req IN
  /\ s.pc = "parent"
  /\ IF r.parent \in Owned(nodes, r.user)
     THEN Continue(w, [s EXCEPT !.pc = AfterParent(r), !.langs = Langs(tr, r.parent)])
     ELSE Answer(w)

\* get_existing_parent and, but for a reorder, ensure_parent_allows_children.
ReadParent(w) ==
  LET s == session[w] r == s.req IN
  /\ s.pc = "parent"
  /\ IF /\ r.parent \in Owned(nodes, r.user)
        /\ r.op # "reorder" => ~ HasContent(tr, r.parent)
     THEN Continue(w, [s EXCEPT !.pc = AfterParent(r), !.langs = Langs(tr, r.parent)])
     ELSE Answer(w)

\* Mutated form: the title is looked for where a moved node was.
OldParent(s) == IF s.req.op = "create" THEN s.req.parent ELSE s.held[s.req.node].parent

\* The parent whose children must not have the title.
NewParent(s) == IF s.req.op = "update" THEN s.held[s.req.node].parent ELSE s.req.parent

\* ensure_unique_sibling_title: of the new parent and title.
ReadTitle(w) ==
  LET s == session[w]
      r == s.req
      title == IF r.op = "move" THEN s.held[r.node].title ELSE r.title
      except == IF r.op = "create" THEN {} ELSE {r.node}
  IN
  /\ s.pc = "title"
  /\ IF TitleTaken(nodes, r.user, NewParent(s), title, except)
     THEN Answer(w)
     ELSE Continue(w, [s EXCEPT !.pc = AfterTitle(r),
                                !.sort = IF r.op = "update" THEN None ELSE r.sort])

\* get_max_sort_order.
ReadMaxSort(w) ==
  LET s == session[w] r == s.req IN
  /\ s.pc = "max"
  /\ Continue(w, [s EXCEPT !.pc = "write",
                           !.sort = MaxSortOrder(nodes, r.user, r.parent) + 1])

\* is_self_or_descendant, of the moved node or of the next node of a reorder.
\* On a cycle of parents it may never return.
Descend(w) ==
  LET s == session[w]
      r == s.req
      n == IF r.op = "move" THEN r.node ELSE r.ids[s.at]
  IN
  /\ s.pc = "descend"
  /\ ~ QueryDiverges(nodes, r.user, n, r.parent)
  /\ IF IsSelfOrDescendant(nodes, r.user, n, r.parent)
     THEN Answer(w)
     ELSE Continue(w, IF r.op = "move" THEN [s EXCEPT !.pc = "parent"]
                      ELSE IF s.at < Len(r.ids) THEN [s EXCEPT !.at = @ + 1]
                      ELSE [s EXCEPT !.pc = "write"])

\* has_children, before an upsert.
ReadChildren(w) ==
  LET s == session[w] r == s.req IN
  /\ s.pc = "children"
  /\ IF HasChildren(nodes, r.user, r.node)
     THEN Answer(w)
     ELSE Continue(w, [s EXCEPT !.pc = "write"])

\* Mutated form: one translation is enough.
ReadOneTranslation(w) ==
  LET s == session[w] r == s.req IN
  /\ s.pc = "translation"
  /\ IF <<r.node, r.lang>> \in tr
     THEN Continue(w, [s EXCEPT !.pc = "write", !.row = <<r.node, r.lang>>])
     ELSE Answer(w)

\* get_translation; the translations counted are those loaded with the node.
ReadTranslation(w) ==
  LET s == session[w] r == s.req IN
  /\ s.pc = "translation"
  /\ IF <<r.node, r.lang>> \in tr /\ Cardinality(s.langs) > 1
     THEN Continue(w, [s EXCEPT !.pc = "write", !.row = <<r.node, r.lang>>])
     ELSE Answer(w)

\* load_reorder_nodes, and the check that their titles differ.
LoadNodes(w) ==
  LET s == session[w] r == s.req IN
  /\ s.pc = "nodes"
  /\ IF /\ Range(r.ids) \subseteq Owned(nodes, r.user)
        /\ \A i, j \in DOMAIN r.ids :
             i # j => nodes[r.ids[i]].title # nodes[r.ids[j]].title
     THEN Continue(w, [s EXCEPT !.pc = "siblings",
                                !.held = [n \in Range(r.ids) |-> nodes[n]]])
     ELSE Answer(w)

\* list_children, and the check of the answers loaded with the parent.
ReadSiblings(w) ==
  LET s == session[w] r == s.req IN
  /\ s.pc = "siblings"
  /\ IF \/ \E n \in DOMAIN s.held :
             TitleTaken(nodes, r.user, r.parent, s.held[n].title, DOMAIN s.held)
        \/ s.langs # {} /\ \E n \in DOMAIN s.held : s.held[n].parent # r.parent
     THEN Answer(w)
     ELSE Continue(w, [s EXCEPT !.pc = IF r.parent = None THEN "write" ELSE "descend"])

-----------------------------------------------------------------------------
(* The writes *)

\* Bound of the model: a create that finds every id used fails.
WriteCreate(w) ==
  LET s == session[w] r == s.req IN
  /\ s.pc = "write" /\ r.op = "create"
  /\ \/ NodeIds \subseteq used /\ Answer(w)
     \/ \E n \in NodeIds \ used :
          Commit(w,
                 Put(nodes, n, [owner |-> r.user, parent |-> r.parent,
                                title |-> r.title, sort |-> s.sort]),
                 tr \cup {<<n, l>> : l \in {r.lang} \ {None}},
                 Reloading)

\* Mutated form: the UPDATE writes the sort_order, whether it changed or not.
WithSortOrder(row, old, new) ==
  [f \in DOMAIN row |-> IF f # "sort" /\ new[f] = old[f] THEN row[f] ELSE new[f]]

\* The UPDATE of a row that was loaded as old and assigned new: only the
\* columns that changed are written.
ChangedColumns(row, old, new) ==
  [f \in DOMAIN row |-> IF new[f] = old[f] THEN row[f] ELSE new[f]]

\* Flush and commit of the held rows, assigned new[n].  No UPDATE is sent for a
\* row without a change; an UPDATE that meets no row fails (StaleDataError).
Save(w, new, s) ==
  LET held == session[w].held
      dirty == {n \in DOMAIN held : new[n] # held[n]}
  IN
  IF dirty \subseteq DOMAIN nodes
  THEN Commit(w, [n \in DOMAIN nodes |->
                    IF n \in dirty THEN ChangedColumns(nodes[n], held[n], new[n])
                                   ELSE nodes[n]],
              tr, s)
  ELSE Answer(w)

WriteUpdate(w) ==
  LET s == session[w] r == s.req IN
  /\ s.pc = "write" /\ r.op = "update"
  /\ Save(w, [n \in {r.node} |->
                [s.held[n] EXCEPT !.title = IF r.title = None THEN @ ELSE r.title,
                                  !.sort = IF r.sort = None THEN @ ELSE r.sort]],
          Reloading)

WriteMove(w) ==
  LET s == session[w] r == s.req IN
  /\ s.pc = "write" /\ r.op = "move"
  /\ Save(w, [n \in {r.node} |-> [s.held[n] EXCEPT !.parent = r.parent, !.sort = s.sort]],
          Reloading)

\* apply_reorder.
WriteReorder(w) ==
  LET s == session[w] r == s.req IN
  /\ s.pc = "write" /\ r.op = "reorder"
  /\ Save(w, Tree!Reordered(s.held, r.parent, r.ids), Idle)

WriteTranslation(w) ==
  LET s == session[w] r == s.req IN
  /\ s.pc = "write" /\ r.op = "upsert"
  /\ Commit(w, nodes, tr \cup {<<r.node, r.lang>>}, Reloading)

\* A DELETE that meets no row only warns.
DeleteTranslation(w) ==
  LET s == session[w] IN
  /\ s.pc = "write" /\ s.req.op = "untranslate"
  /\ Commit(w, nodes, tr \ {s.row}, Reloading)

DeleteNode(w) ==
  LET s == session[w]
      gone == IF s.req.node \in DOMAIN nodes THEN Deleted(nodes, s.req.node) ELSE {}
  IN
  /\ s.pc = "write" /\ s.req.op = "delete"
  /\ Commit(w, Without(nodes, gone), WithoutContent(tr, gone), Idle)

\* get_node after the commit; it answers 404 when the node is gone already.
Reload(w) == session[w].pc = "reload" /\ Answer(w)

\* The request dies: a deadlock victim, a lost connection, a restart.
Abort(w) == session[w].pc # "idle" /\ Answer(w)

Statement(w) ==
  \/ Load(w) \/ ReadParent(w) \/ ReadTitle(w) \/ ReadMaxSort(w) \/ Descend(w)
  \/ ReadChildren(w) \/ ReadTranslation(w) \/ LoadNodes(w) \/ ReadSiblings(w)
  \/ WriteCreate(w) \/ WriteUpdate(w) \/ WriteMove(w) \/ WriteReorder(w)
  \/ WriteTranslation(w) \/ DeleteTranslation(w) \/ DeleteNode(w) \/ Reload(w)

Next == \E w \in Workers : Start(w) \/ Statement(w) \/ Abort(w)

Spec == Init /\ [][Next]_vars

\* The event loop resumes a request whose statement has returned.
FairSpec == Spec /\ \A w \in Workers : WF_vars(Statement(w))
-----------------------------------------------------------------------------
(* Properties *)

IsSession(s) ==
  /\ s.pc \in {"idle", "load", "parent", "title", "max", "descend", "children",
               "translation", "nodes", "siblings", "write", "reload"}
  /\ IF s.pc \in {"idle", "reload"} THEN s.req = None /\ s.at = 1
     ELSE /\ s.req \in Request
          /\ s.at \in 1 .. IF s.req.op = "reorder" THEN Len(s.req.ids) ELSE 1
  /\ Tree!Table(s.held)
  /\ s.langs \subseteq Languages
  /\ s.sort \in 0 .. MaxSort + 1 \cup {None}
  /\ s.row \in (NodeIds \X Languages) \cup {None}

\* The tables satisfy every constraint of the database, stored ids were given
\* out once, and a session holds what its request may load.
TypeOK ==
  /\ Tree!TypeOK
  /\ DOMAIN nodes \subseteq used
  /\ \A w \in Workers : IsSession(session[w])

\* Served one at a time, the requests do what NodeTree says: whatever a request
\* changes is the step of NodeTree for its own payload.  (Tree!Spec asks for the
\* step of some payload.)
ImplementsTree ==
  /\ Tree!Init
  /\ [][\E w \in Workers :
          session[w].pc = "write" /\ Tree!Step(session[w].req)]_<<nodes, tr>>

\* A request ends: no statement of NodeService waits for another for ever, and
\* the recursive query returns as long as the tree has no cycle.
RequestsEnd == \A w \in Workers : session[w].pc # "idle" ~> session[w].pc = "idle"

\* The places <<parent, title>> that the write of w takes.
Places(w) ==
  LET s == session[w] r == s.req IN
  CASE r.op = "create" -> {<<r.parent, r.title>>}
    [] r.op = "update" -> {<<s.held[n].parent,
                             IF r.title = None THEN s.held[n].title ELSE r.title>> :
                             n \in DOMAIN s.held}
    [] r.op \in {"move", "reorder"} ->
         {<<r.parent, s.held[n].title>> : n \in DOMAIN s.held}
    [] OTHER -> {}

\* A request that passed the checks of the service meets no unique index: a
\* title that is taken is refused as DuplicateNodeTitleError (409), it does not
\* fail in the database (500).
ChecksCoverTitles ==
  \A w \in Workers : session[w].pc = "write" =>
    \A n \in DOMAIN nodes \ DOMAIN session[w].held :
      <<nodes[n].parent, nodes[n].title>> \notin Places(w)

\* No request makes a node its own ancestor.
Acyclic == Tree!Acyclic

\* A node that stores an answer has no children.
LeafContent == Tree!LeafContent

\* The parent of a node belongs to the owner of the node.
OwnerConsistent == Tree!OwnerConsistent

\* A commit changes the rows of one user only.
TenantIsolation == [][\E u \in Users : Tree!ChangesOnly(u)]_<<nodes, tr>>

Writes(w, n, ops) ==
  /\ session[w].pc = "write"
  /\ session[w].req.op \in ops
  /\ n \in DOMAIN session[w].held

\* The write of w puts row n at k: the position in its payload, the index in the
\* order of its payload or, for a move without one, the next that it computed.
PutsAt(w, n, k) ==
  LET s == session[w] r == s.req IN
  \/ Writes(w, n, {"update"}) /\ r.sort = k
  \/ Writes(w, n, {"move"}) /\ s.sort = k /\ r.sort \in {None, k}
  \/ Writes(w, n, {"reorder"}) /\ \E i \in DOMAIN r.ids : r.ids[i] = n /\ k = i - 1

\* A commit changes only what its request asked for: a title changes by a rename
\* to that title, a parent by a move or reorder to that parent and a sort_order by
\* a patch, move or reorder that gives the row this position.  So no request
\* writes back a column of a row it read before another renamed, moved or
\* reordered it.
ColumnsAsRequested ==
  [][\A n \in DOMAIN nodes \cap DOMAIN nodes' :
       /\ nodes'[n].title # nodes[n].title =>
            \E w \in Workers : /\ Writes(w, n, {"update"})
                               /\ session[w].req.title = nodes'[n].title
       /\ nodes'[n].parent # nodes[n].parent =>
            \E w \in Workers : /\ Writes(w, n, {"move", "reorder"})
                               /\ session[w].req.parent = nodes'[n].parent
       /\ nodes'[n].sort # nodes[n].sort =>
            \E w \in Workers : PutsAt(w, n, nodes'[n].sort)]_vars

\* A reorder that changes anything leaves its nodes under the parent and in the
\* order it was given.
ReorderTakesEffect ==
  [][\A w \in Workers :
       /\ session[w].pc = "write"
       /\ session[w].req.op = "reorder"
       /\ session'[w] = Idle
       /\ nodes' # nodes
       => LET r == session[w].req IN
          \A i \in DOMAIN r.ids : /\ nodes'[r.ids[i]].parent = r.parent
                                  /\ nodes'[r.ids[i]].sort = i - 1]_vars

\* A node that stores answers keeps one in some language as long as it exists
\* (LastTranslationError: "Cannot remove the last translation from a leaf node."):
\* the answers that one request counts may be deleted by another.
LastTranslationKept == [][Tree!KeepsAnAnswer]_<<nodes, tr>>
=============================================================================
