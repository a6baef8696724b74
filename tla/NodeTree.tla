------------------------------ MODULE NodeTree ------------------------------
(***************************************************************************)
(* What NodeService promises: each request of api/nodes.py takes effect in  *)
(* one step, as it does when no other request runs.  An action is one       *)
(* method of NodeService from its first query to its commit; a request that *)
(* the method refuses changes nothing and is a stuttering step.             *)
(* NodeService.tla is the same code statement by statement.                 *)
(***************************************************************************)
EXTENDS NodeRepo

CONSTANT Seed  \* the databases the behaviours start from

VARIABLES nodes,  \* the table nodes
          tr      \* the table node_translations, as pairs <<node, language>>

vars == <<nodes, tr>>

-----------------------------------------------------------------------------
(* The properties of one database, used for the seeds as well *)

Table(t) == \E D \in SUBSET NodeIds : t \in [D -> Row]

\* No node is its own ancestor: every set of nodes has one whose parent is
\* outside the set.
NoCycle(t) ==
  \A S \in SUBSET DOMAIN t : S # {} => \E n \in S : t[n].parent \notin S

\* Only leaves store an answer.
LeavesOnly(t, x) == \A n \in DOMAIN t : ~ HasContent(x, t[n].parent)

\* A node and its parent belong to the same user.
SameOwner(t) ==
  \A n \in DOMAIN t : t[n].parent # None => t[t[n].parent].owner = t[n].owner

GoodDatabase(s) ==
  /\ Table(s.nodes)
  /\ s.tr \subseteq NodeIds \X Languages
  /\ Storable(s.nodes, s.tr)
  /\ NoCycle(s.nodes)
  /\ LeavesOnly(s.nodes, s.tr)
  /\ SameOwner(s.nodes)

ASSUME SeedAssumption == \A s \in Seed : GoodDatabase(s)

Init == \E s \in Seed : nodes = s.nodes /\ tr = s.tr

-----------------------------------------------------------------------------
(* Guards of helpers.py *)

\* get_existing_parent and ensure_parent_allows_children.
AllowsChildren(u, p) ==
  p # None => p \in Owned(nodes, u) /\ ~ HasContent(tr, p)

\* Mutated form: a node may be moved below itself.
MoveIntoAnyNode(u, n, p) == p # None => p \in Owned(nodes, u)

\* ensure_move_target_is_valid.
MoveTargetIsValid(u, n, p) ==
  p # None => ~ IsSelfOrDescendant(nodes, u, n, p) /\ p \in Owned(nodes, u)

\* The sort_order a create or a move writes.
ResolvedSort(u, p, sort) ==
  IF sort = None THEN MaxSortOrder(nodes, u, p) + 1 ELSE sort

\* Mutated form: a schema without its constraints.
CommitUnchecked(t, x) == nodes' = t /\ tr' = x

\* The commit of tables t and x; refused by the database, it rolls back.
Commit(t, x) == Storable(t, x) /\ nodes' = t /\ tr' = x

-----------------------------------------------------------------------------
(* The methods of NodeService *)

CreateNode(r) ==
  /\ r.op = "create"
  /\ AllowsChildren(r.user, r.parent)
  /\ ~ TitleTaken(nodes, r.user, r.parent, r.title, {})
  /\ \E n \in NodeIds \ DOMAIN nodes :
       Commit(Put(nodes, n, [owner |-> r.user, parent |-> r.parent, title |-> r.title,
                             sort |-> ResolvedSort(r.user, r.parent, r.sort)]),
              tr \cup {<<n, l>> : l \in {r.lang} \ {None}})

UpdateNode(r) ==
  /\ r.op = "update"
  /\ r.node \in Owned(nodes, r.user)
  /\ LET row == nodes[r.node] IN
     /\ r.title # None => ~ TitleTaken(nodes, r.user, row.parent, r.title, {r.node})
     /\ Commit(Put(nodes, r.node,
                   [row EXCEPT !.title = IF r.title = None THEN @ ELSE r.title,
                               !.sort = IF r.sort = None THEN @ ELSE r.sort]),
               tr)

UpsertTranslation(r) ==
  /\ r.op = "upsert"
  /\ r.node \in Owned(nodes, r.user)
  /\ ~ HasChildren(nodes, r.user, r.node)
  /\ Commit(nodes, tr \cup {<<r.node, r.lang>>})

\* Mutated form: the check for the last translation is gone.
DeleteAnyTranslation(r) ==
  /\ r.op = "untranslate"
  /\ r.node \in Owned(nodes, r.user)
  /\ <<r.node, r.lang>> \in tr
  /\ Commit(nodes, tr \ {<<r.node, r.lang>>})

DeleteTranslation(r) ==
  /\ r.op = "untranslate"
  /\ r.node \in Owned(nodes, r.user)
  /\ <<r.node, r.lang>> \in tr
  /\ Cardinality(Langs(tr, r.node)) > 1
  /\ Commit(nodes, tr \ {<<r.node, r.lang>>})

\* Mutated form: a move does not look at the answers of its target.
MoveUnderContent(r) ==
  /\ r.op = "move"
  /\ r.node \in Owned(nodes, r.user)
  /\ MoveTargetIsValid(r.user, r.node, r.parent)
  /\ ~ TitleTaken(nodes, r.user, r.parent, nodes[r.node].title, {r.node})
  /\ Commit(Put(nodes, r.node,
                [nodes[r.node] EXCEPT !.parent = r.parent,
                                      !.sort = ResolvedSort(r.user, r.parent, r.sort)]),
            tr)

MoveNode(r) ==
  /\ r.op = "move"
  /\ r.node \in Owned(nodes, r.user)
  /\ MoveTargetIsValid(r.user, r.node, r.parent)
  /\ AllowsChildren(r.user, r.parent)
  /\ ~ TitleTaken(nodes, r.user, r.parent, nodes[r.node].title, {r.node})
  /\ Commit(Put(nodes, r.node,
                [nodes[r.node] EXCEPT !.parent = r.parent,
                                      !.sort = ResolvedSort(r.user, r.parent, r.sort)]),
            tr)

\* validate_reorder.
ReorderIsValid(u, p, ids) ==
  /\ \A i, j \in DOMAIN ids : i # j => nodes[ids[i]].title # nodes[ids[j]].title
  /\ \A i \in DOMAIN ids : ~ TitleTaken(nodes, u, p, nodes[ids[i]].title, Range(ids))
  /\ p # None =>
       /\ HasContent(tr, p) => \A i \in DOMAIN ids : nodes[ids[i]].parent = p
       /\ \A i \in DOMAIN ids : ~ IsSelfOrDescendant(nodes, u, ids[i], p)

\* Mutated form: the positions count from the end of the list.
ReorderedBackwards(t, p, ids) ==
  [n \in DOMAIN t |->
     IF n \in Range(ids)
     THEN [t[n] EXCEPT !.parent = p, !.sort = Len(ids) - CHOOSE i \in DOMAIN ids : ids[i] = n]
     ELSE t[n]]

\* apply_reorder: the i-th id becomes the child of p with sort_order i - 1.
Reordered(t, p, ids) ==
  [n \in DOMAIN t |->
     IF n \in Range(ids)
     THEN [t[n] EXCEPT !.parent = p, !.sort = (CHOOSE i \in DOMAIN ids : ids[i] = n) - 1]
     ELSE t[n]]

ReorderNodes(r) ==
  /\ r.op = "reorder"
  /\ IsInjective(r.ids)
  /\ r.parent # None => r.parent \in Owned(nodes, r.user)
  /\ Range(r.ids) \subseteq Owned(nodes, r.user)
  /\ ReorderIsValid(r.user, r.parent, r.ids)
  /\ Commit(Reordered(nodes, r.parent, r.ids), tr)

DeleteNode(r) ==
  /\ r.op = "delete"
  /\ r.node \in Owned(nodes, r.user)
  /\ LET gone == Deleted(nodes, r.node) IN
     Commit(Without(nodes, gone), WithoutContent(tr, gone))

\* The request r takes effect.
Step(r) ==
  \/ CreateNode(r)
  \/ UpdateNode(r)
  \/ UpsertTranslation(r)
  \/ DeleteTranslation(r)
  \/ MoveNode(r)
  \/ ReorderNodes(r)
  \/ DeleteNode(r)

Next == \E r \in Request : Step(r)

Spec == Init /\ [][Next]_vars

-----------------------------------------------------------------------------
(* Properties *)

\* The tables hold rows and pairs of the right shape, and every constraint of
\* the database.
TypeOK ==
  /\ Table(nodes)
  /\ tr \subseteq NodeIds \X Languages
  /\ Storable(nodes, tr)

\* No sequence of creates, moves and reorders makes a node its own ancestor.
Acyclic == NoCycle(nodes)

\* A node that stores an answer has no children: the creates, moves and
\* reorders that add children and the upserts that add answers exclude each
\* other (NodeHasContentError).
LeafContent == LeavesOnly(nodes, tr)

\* The parent of a node belongs to the owner of the node, although the
\* foreign key on parent_id does not say so.
OwnerConsistent == SameOwner(nodes)

\* The tree a user asks for shows every node the user has, at whatever depth
\* and after whatever moves: build_node_tree drops, without an error, a node
\* that cannot be reached from one of the user's roots.
EveryNodeIsShown == \A u \in Users : Shown(nodes, u) = Owned(nodes, u)

ChangesOnly(u) ==
  /\ \A n \in DOMAIN nodes :
       nodes[n].owner # u => n \in DOMAIN nodes' /\ nodes'[n] = nodes[n]
  /\ \A n \in DOMAIN nodes' \ DOMAIN nodes : nodes'[n].owner = u

\* A step changes the rows of one user only: in particular the cascade of a
\* delete, which does not look at user_id, never leaves the tree of the owner.
TenantIsolation == [][\E u \in Users : ChangesOnly(u)]_vars

KeepsAnAnswer ==
  \A n \in DOMAIN nodes : HasContent(tr, n) /\ n \in DOMAIN nodes' => HasContent(tr', n)

\* A node that has an answer keeps one in some language as long as it exists
\* (LastTranslationError).
LastTranslationKept == [][KeepsAnAnswer]_vars
=============================================================================
