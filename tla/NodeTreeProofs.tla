--------------------------- MODULE NodeTreeProofs ---------------------------
(***************************************************************************)
(* The tree stays a tree, for every set of users, nodes and titles.         *)
(*                                                                          *)
(* The inductive invariant is the conjunction of the four invariants:       *)
(* a move is checked against the caller's own nodes, so that no cycle       *)
(* arises only because a parent has the owner of its child; an upsert       *)
(* counts the caller's children, so that a leaf stays a leaf only for the   *)
(* same reason; and a new node closes no cycle only because the foreign key *)
(* leaves nothing below an id that is not stored.                           *)
(***************************************************************************)
EXTENDS NodeTree, FiniteSetTheorems, TLAPS

IInv == TypeOK /\ Acyclic /\ LeafContent /\ OwnerConsistent

-----------------------------------------------------------------------------
(* Payloads *)

LEMMA RequestTypes ==
  ASSUME NEW r \in Request
  PROVE  /\ r.op = "create" => r \in CreateRequest
         /\ r.op = "update" => r \in UpdateRequest
         /\ r.op \in {"upsert", "untranslate"} => r \in TranslationRequest
         /\ r.op = "move" => r \in MoveRequest
         /\ r.op = "reorder" => r \in ReorderRequest
         /\ r.op = "delete" => r \in DeleteRequest
  BY DEF Request, CreateRequest, UpdateRequest, TranslationRequest, MoveRequest,
         ReorderRequest, DeleteRequest

-----------------------------------------------------------------------------
(* Tables *)

\* A table is a function on a set of ids whose values are rows.
LEMMA TableShape ==
  ASSUME NEW t
  PROVE  Table(t) <=> /\ t = [n \in DOMAIN t |-> t[n]]
                      /\ DOMAIN t \subseteq NodeIds
                      /\ \A n \in DOMAIN t : t[n] \in Row
  BY DEF Table

\* Storing a row under an id, provided the column sort_order can hold it.
LEMMA PutTable ==
  ASSUME NEW t, Table(t), NEW n \in NodeIds, NEW r,
         SortsFit(Put(t, n, r)), r.sort \in Sorts => r \in Row
  PROVE  Table(Put(t, n, r))
<1>1. n \in DOMAIN Put(t, n, r) /\ Put(t, n, r)[n] = r
  BY DEF Put
<1>2. r \in Row
  BY <1>1 DEF SortsFit
<1>3. DOMAIN t \subseteq NodeIds /\ \A m \in DOMAIN t : t[m] \in Row
  BY TableShape
<1>4. Put(t, n, r) \in [DOMAIN t \cup {n} -> Row]
  BY <1>2, <1>3 DEF Put
<1> QED
  BY <1>3, <1>4 DEF Table

\* Moving nodes of a user under a node they are not above, or to the root,
\* closes no cycle.  (If S were a set of nodes each of which has its new parent
\* in S, then S would contain the target p; the nodes of S that are in no
\* closed set avoiding p would be such a set in the old table.)
LEMMA MoveKeepsAcyclic ==
  ASSUME NEW t, NEW t2, NEW u, NEW M, NEW p,
         DOMAIN t \subseteq NodeIds, DOMAIN t2 = DOMAIN t,
         NoCycle(t), SameOwner(t),
         M \subseteq Owned(t, u),
         \A n \in M : t2[n].parent = p,
         \A n \in DOMAIN t \ M : t2[n].parent = t[n].parent,
         p # None => /\ p \in Owned(t, u)
                     /\ \A n \in M : ~ IsSelfOrDescendant(t, u, n, p)
  PROVE  NoCycle(t2)
<1> SUFFICES ASSUME NEW S \in SUBSET DOMAIN t, S # {},
                    \A n \in S : t2[n].parent \in S
             PROVE  FALSE
  BY DEF NoCycle
<1>1. PICK m \in S : t[m].parent \notin S
  BY DEF NoCycle
<1>2. m \in M /\ p \in S
  BY <1>1
<1>3. p # None
  BY <1>2, NodeRepoAssumption
<1> DEFINE O == Owned(t, u)
           C(T) == \A k \in O : t[k].parent \in T => k \in T
           U == UNION {T \in SUBSET O : p \notin T /\ C(T)}
           X == S \ U
<1>4. M \subseteq U
  <2> SUFFICES ASSUME NEW n \in M PROVE n \in U
    OBVIOUS
  <2>1. n \in O /\ p \in O /\ p \notin Below(t, O, n)
    BY <1>3 DEF IsSelfOrDescendant
  <2>2. PICK T \in SUBSET O : n \in T /\ C(T) /\ p \notin T
    BY <2>1 DEF Below
  <2> QED
    BY <2>2
<1>5. X \in SUBSET DOMAIN t /\ X # {}
  BY <1>2
<1>6. PICK n \in X : t[n].parent \notin X
  BY <1>5 DEF NoCycle
<1>7. t[n].parent \in S \cap U
  BY <1>4, <1>6
<1>8. PICK T \in SUBSET O : t[n].parent \in T /\ p \notin T /\ C(T)
  BY <1>7
<1>9. n \in O
  <2>1. t[n].parent # None
    BY <1>7, NodeRepoAssumption
  <2>2. t[t[n].parent].owner = u
    BY <1>8 DEF Owned
  <2> QED
    BY <2>1, <2>2 DEF SameOwner, Owned
<1>10. n \in T
  BY <1>8, <1>9
<1> QED
  BY <1>6, <1>8, <1>10

\* What a cascade removes belongs to the owner of the deleted node.
LEMMA CascadeIsOwned ==
  ASSUME NEW t, NEW u, NEW n \in Owned(t, u), SameOwner(t),
         \A m \in DOMAIN t : t[m].parent \in DOMAIN t \cup {None},
         DOMAIN t \subseteq NodeIds
  PROVE  Deleted(t, n) \subseteq Owned(t, u)
<1>1. Owned(t, u) \in SUBSET DOMAIN t
  BY DEF Owned
<1>2. \A m \in DOMAIN t : t[m].parent \in Owned(t, u) => m \in Owned(t, u)
  BY NodeRepoAssumption DEF Owned, SameOwner
<1> QED
  BY <1>1, <1>2 DEF Deleted, Below
-----------------------------------------------------------------------------
(* Each request keeps the invariant *)

LEMMA CreateKeeps ==
  ASSUME IInv, NEW r \in Request, CreateNode(r)
  PROVE  IInv'
<1>1. r \in CreateRequest
  BY RequestTypes DEF CreateNode
<1> DEFINE p == r.parent
<1>2. PICK n \in NodeIds \ DOMAIN nodes :
        /\ nodes' = Put(nodes, n,
                        [owner |-> r.user, parent |-> p, title |-> r.title,
                         sort |-> ResolvedSort(r.user, p, r.sort)])
        /\ tr' = tr \cup {<<n, l>> : l \in {r.lang} \ {None}}
        /\ Storable(nodes', tr')
  BY DEF CreateNode, Commit
<1> DEFINE row == [owner |-> r.user, parent |-> p, title |-> r.title,
                   sort |-> ResolvedSort(r.user, p, r.sort)]
<1>3. p \in NodeIds \cup {None} /\ r.user \in Users /\ r.title \in Titles
      /\ r.lang \in Languages \cup {None}
  BY <1>1 DEF CreateRequest
<1>4. /\ DOMAIN nodes' = DOMAIN nodes \cup {n}
      /\ nodes'[n] = row
      /\ \A m \in DOMAIN nodes : nodes'[m] = nodes[m]
  BY <1>2 DEF Put
<1>5. /\ Table(nodes) /\ DOMAIN nodes \subseteq NodeIds
      /\ tr \subseteq NodeIds \X Languages
      /\ \A m \in DOMAIN nodes : nodes[m].parent \in DOMAIN nodes \cup {None}
      /\ \A x \in tr : x[1] \in DOMAIN nodes
  BY TableShape DEF IInv, TypeOK, Storable, ReferencesHold
<1>6. p # None => p \in DOMAIN nodes /\ nodes[p].owner = r.user /\ ~ HasContent(tr, p)
  BY DEF CreateNode, AllowsChildren, Owned
<1>7. n # p /\ n # None
  BY <1>5, <1>6, NodeRepoAssumption
<1>8. TypeOK'
  <2>1. SortsFit(nodes') /\ Storable(nodes', tr')
    BY <1>2 DEF Storable
  <2>2. row.sort \in Sorts => row \in Row
    BY <1>3 DEF Row
  <2>3. Table(nodes')
    BY <1>2, <1>5, <2>1, <2>2, PutTable
  <2>4. tr' \subseteq NodeIds \X Languages
    BY <1>2, <1>3, <1>5
  <2> QED
    BY <2>1, <2>3, <2>4 DEF TypeOK
<1>9. Acyclic'
  <2> SUFFICES ASSUME NEW S \in SUBSET DOMAIN nodes', S # {},
                      \A m \in S : nodes'[m].parent \in S
               PROVE  FALSE
    BY DEF Acyclic, NoCycle
  <2>1. \A m \in S \ {n} : nodes[m].parent \in S \ {n}
    BY <1>4, <1>5, <1>7
  <2>2. S \ {n} # {}
    BY <1>4, <1>7
  <2> QED
    BY <2>1, <2>2, <1>4 DEF IInv, Acyclic, NoCycle
<1>10. LeafContent'
  <2> SUFFICES ASSUME NEW m \in DOMAIN nodes' PROVE ~ HasContent(tr', nodes'[m].parent)
    BY DEF LeafContent, LeavesOnly
  <2>1. nodes'[m].parent # n
    BY <1>4, <1>5, <1>7
  <2>2. ~ HasContent(tr, nodes'[m].parent)
    <3>1. CASE m \in DOMAIN nodes
      BY <3>1, <1>4 DEF IInv, LeafContent, LeavesOnly
    <3>2. CASE m = n
      <4>1. ~ HasContent(tr, None)
        BY <1>5, NodeRepoAssumption DEF HasContent, Langs
      <4> QED
        BY <3>2, <4>1, <1>4, <1>6
    <3> QED
      BY <3>1, <3>2, <1>4
  <2> QED
    BY <1>2, <2>1, <2>2 DEF HasContent, Langs
<1>11. OwnerConsistent'
  BY <1>4, <1>5, <1>6, <1>7 DEF IInv, OwnerConsistent, SameOwner
<1> QED
  BY <1>8, <1>9, <1>10, <1>11 DEF IInv

LEMMA UpdateKeeps ==
  ASSUME IInv, NEW r \in Request, UpdateNode(r)
  PROVE  IInv'
<1>1. r \in UpdateRequest
  BY RequestTypes DEF UpdateNode
<1> DEFINE n == r.node
           row == [nodes[n] EXCEPT !.title = IF r.title = None THEN @ ELSE r.title,
                                   !.sort = IF r.sort = None THEN @ ELSE r.sort]
<1>2. n \in DOMAIN nodes /\ nodes' = Put(nodes, n, row) /\ tr' = tr
      /\ Storable(nodes', tr')
  BY DEF UpdateNode, Commit, Owned
<1>3. Table(nodes) /\ n \in NodeIds /\ nodes[n] \in Row /\ tr \subseteq NodeIds \X Languages
  BY <1>2, TableShape DEF IInv, TypeOK
<1>4. /\ DOMAIN nodes' = DOMAIN nodes
      /\ \A m \in DOMAIN nodes : /\ nodes'[m].parent = nodes[m].parent
                                 /\ nodes'[m].owner = nodes[m].owner
  BY <1>2, <1>3 DEF Put, Row
<1>5. TypeOK'
  <2>1. row.sort \in Sorts => row \in Row
    BY <1>1, <1>3 DEF Row, UpdateRequest
  <2> QED
    BY <1>2, <1>3, <2>1, PutTable DEF TypeOK, Storable
<1>6. Acyclic'
  BY <1>4 DEF IInv, Acyclic, NoCycle
<1>7. LeafContent' /\ OwnerConsistent'
  <2>1. \A m \in DOMAIN nodes : nodes[m].parent # None => nodes[m].parent \in DOMAIN nodes
    BY DEF IInv, TypeOK, Storable, ReferencesHold
  <2> QED
    BY <1>2, <1>4, <2>1 DEF IInv, LeafContent, LeavesOnly, OwnerConsistent, SameOwner
<1> QED
  BY <1>5, <1>6, <1>7 DEF IInv

LEMMA UpsertKeeps ==
  ASSUME IInv, NEW r \in Request, UpsertTranslation(r)
  PROVE  IInv'
<1>1. r \in TranslationRequest
  BY RequestTypes DEF UpsertTranslation
<1>2. r.node \in NodeIds /\ r.lang \in Languages
  BY <1>1 DEF TranslationRequest
<1>3. nodes' = nodes /\ tr' = tr \cup {<<r.node, r.lang>>} /\ Storable(nodes', tr')
  BY DEF UpsertTranslation, Commit
<1>4. TypeOK' /\ Acyclic' /\ OwnerConsistent'
  BY <1>2, <1>3 DEF IInv, TypeOK, Acyclic, OwnerConsistent
<1>5. \A m \in DOMAIN nodes : nodes[m].parent # r.node
  <2> SUFFICES ASSUME NEW m \in DOMAIN nodes, nodes[m].parent = r.node PROVE FALSE
    OBVIOUS
  <2>1. nodes[m].owner = r.user
    BY <1>2, NodeRepoAssumption
       DEF UpsertTranslation, Owned, IInv, OwnerConsistent, SameOwner
  <2> QED
    BY <2>1 DEF UpsertTranslation, HasChildren, Children, Owned
<1>6. LeafContent'
  BY <1>3, <1>5 DEF IInv, LeafContent, LeavesOnly, HasContent, Langs
<1> QED
  BY <1>4, <1>6 DEF IInv

LEMMA DeleteTranslationKeeps ==
  ASSUME IInv, NEW r \in Request, DeleteTranslation(r)
  PROVE  IInv'
<1>1. nodes' = nodes /\ tr' \subseteq tr /\ Storable(nodes', tr')
  BY DEF DeleteTranslation, Commit
<1> QED
  BY <1>1 DEF IInv, TypeOK, Acyclic, OwnerConsistent, LeafContent, LeavesOnly,
              HasContent, Langs

\* A move and a reorder put a set M of the caller's nodes under p.
LEMMA PlacingKeeps ==
  ASSUME IInv, NEW u, NEW p, NEW M, M \subseteq Owned(nodes, u),
         Table(nodes'), Storable(nodes', tr'), tr' = tr,
         DOMAIN nodes' = DOMAIN nodes,
         \A n \in M : nodes'[n].parent = p /\ nodes'[n].owner = nodes[n].owner,
         \A n \in DOMAIN nodes \ M : nodes'[n] = nodes[n],
         p # None => /\ p \in Owned(nodes, u)
                     /\ ~ HasContent(tr, p)
                     /\ \A n \in M : ~ IsSelfOrDescendant(nodes, u, n, p)
  PROVE  IInv'
<1>1. DOMAIN nodes \subseteq NodeIds /\ tr \subseteq NodeIds \X Languages
  BY TableShape DEF IInv, TypeOK
<1>2. TypeOK'
  BY <1>1 DEF TypeOK
<1>3. Acyclic'
  BY <1>1, MoveKeepsAcyclic DEF IInv, Acyclic, OwnerConsistent
<1>4. LeafContent'
  <2> SUFFICES ASSUME NEW n \in DOMAIN nodes PROVE ~ HasContent(tr, nodes'[n].parent)
    BY DEF LeafContent, LeavesOnly
  <2>1. CASE n \in M
    BY <2>1, <1>1, NodeRepoAssumption DEF HasContent, Langs
  <2>2. CASE n \notin M
    BY <2>2 DEF IInv, LeafContent, LeavesOnly
  <2> QED
    BY <2>1, <2>2
<1>5. OwnerConsistent'
  <2>1. \A n \in DOMAIN nodes : nodes'[n].owner = nodes[n].owner
    OBVIOUS
  <2>2. \A n \in DOMAIN nodes : nodes[n].parent \in DOMAIN nodes \cup {None}
    BY DEF IInv, TypeOK, Storable, ReferencesHold
  <2> SUFFICES ASSUME NEW n \in DOMAIN nodes, nodes'[n].parent # None
               PROVE  nodes'[nodes'[n].parent].owner = nodes'[n].owner
    BY DEF OwnerConsistent, SameOwner
  <2>3. CASE n \in M
    BY <2>1, <2>3 DEF Owned
  <2>4. CASE n \notin M
    BY <2>1, <2>2, <2>4 DEF IInv, OwnerConsistent, SameOwner
  <2> QED
    BY <2>3, <2>4
<1> QED
  BY <1>2, <1>3, <1>4, <1>5 DEF IInv
LEMMA MoveKeeps ==
  ASSUME IInv, NEW r \in Request, MoveNode(r)
  PROVE  IInv'
<1>1. r \in MoveRequest
  BY RequestTypes DEF MoveNode
<1> DEFINE n == r.node
           row == [nodes[n] EXCEPT !.parent = r.parent,
                                   !.sort = ResolvedSort(r.user, r.parent, r.sort)]
<1>2. n \in Owned(nodes, r.user) /\ nodes' = Put(nodes, n, row) /\ tr' = tr
      /\ Storable(nodes', tr')
  BY DEF MoveNode, Commit
<1>3. n \in DOMAIN nodes /\ Table(nodes) /\ n \in NodeIds /\ nodes[n] \in Row
  BY <1>2, TableShape DEF IInv, TypeOK, Owned
<1>4. Table(nodes')
  <2>1. row.sort \in Sorts => row \in Row
    BY <1>1, <1>3 DEF Row, MoveRequest
  <2> QED
    BY <1>2, <1>3, <2>1, PutTable DEF Storable
<1>5. /\ DOMAIN nodes' = DOMAIN nodes
      /\ nodes'[n].parent = r.parent /\ nodes'[n].owner = nodes[n].owner
      /\ \A m \in DOMAIN nodes \ {n} : nodes'[m] = nodes[m]
  BY <1>2, <1>3 DEF Put, Row
<1>6. r.parent # None => /\ r.parent \in Owned(nodes, r.user)
                         /\ ~ HasContent(tr, r.parent)
                         /\ ~ IsSelfOrDescendant(nodes, r.user, n, r.parent)
  BY DEF MoveNode, MoveTargetIsValid, AllowsChildren
<1> QED
  <2> DEFINE M == {n}
  <2>1. M \subseteq Owned(nodes, r.user)
    BY <1>2
  <2>2. \A m \in M : /\ nodes'[m].parent = r.parent
                     /\ nodes'[m].owner = nodes[m].owner
    BY <1>5
  <2>3. r.parent # None =>
          /\ r.parent \in Owned(nodes, r.user)
          /\ ~ HasContent(tr, r.parent)
          /\ \A m \in M : ~ IsSelfOrDescendant(nodes, r.user, m, r.parent)
    BY <1>6
  <2> HIDE DEF M
  <2>4. \A m \in DOMAIN nodes \ M : nodes'[m] = nodes[m]
    BY <1>5 DEF M
  <2>5. tr' = tr /\ Storable(nodes', tr') /\ DOMAIN nodes' = DOMAIN nodes
    BY <1>2, <1>5
  <2> QED
    BY <1>4, <2>1, <2>2, <2>3, <2>4, <2>5, PlacingKeeps

LEMMA ReorderKeeps ==
  ASSUME IInv, NEW r \in Request, ReorderNodes(r)
  PROVE  IInv'
<1>1. r \in ReorderRequest
  BY RequestTypes DEF ReorderNodes
<1> DEFINE ids == r.ids
           p == r.parent
           M == Range(ids)
<1>2. /\ ids \in Seq(NodeIds) /\ ids # <<>>
      /\ p \in NodeIds \cup {None}
  BY <1>1, NodeRepoAssumption DEF ReorderRequest
<1>3. /\ M \subseteq Owned(nodes, r.user)
      /\ nodes' = Reordered(nodes, p, ids) /\ tr' = tr
      /\ Storable(nodes', tr')
  BY DEF ReorderNodes, Commit
<1>4. Table(nodes) /\ \A n \in DOMAIN nodes : nodes[n] \in Row
  BY TableShape DEF IInv, TypeOK
<1>5. /\ DOMAIN nodes' = DOMAIN nodes
      /\ \A n \in M : /\ nodes'[n].parent = p
                      /\ nodes'[n].owner = nodes[n].owner
                      /\ nodes'[n].title = nodes[n].title
      /\ \A n \in DOMAIN nodes \ M : nodes'[n] = nodes[n]
      /\ \A n \in DOMAIN nodes : nodes'[n] =
           [owner |-> nodes'[n].owner, parent |-> nodes'[n].parent,
            title |-> nodes'[n].title, sort |-> nodes'[n].sort]
  BY <1>3, <1>4 DEF Reordered, Row, Owned
<1>6. Table(nodes')
  <2>1. \A n \in DOMAIN nodes : nodes'[n] \in Row
    <3> SUFFICES ASSUME NEW n \in DOMAIN nodes PROVE nodes'[n] \in Row
      OBVIOUS
    <3>1. nodes'[n].sort \in Sorts
      BY <1>3, <1>5 DEF Storable, SortsFit
    <3>2. nodes'[n].owner \in Users /\ nodes'[n].title \in Titles
          /\ nodes'[n].parent \in NodeIds \cup {None}
      BY <1>2, <1>4, <1>5 DEF Row
    <3> QED
      BY <1>5, <3>1, <3>2 DEF Row
  <2>2. nodes' = [n \in DOMAIN nodes' |-> nodes'[n]]
    <3> DEFINE NewRow(n) ==
                 IF n \in M
                 THEN [nodes[n] EXCEPT !.parent = p,
                                       !.sort = (CHOOSE i \in DOMAIN ids : ids[i] = n) - 1]
                 ELSE nodes[n]
    <3>1. nodes' = [n \in DOMAIN nodes |-> NewRow(n)]
      BY <1>3 DEF Reordered
    <3> HIDE DEF NewRow
    <3> QED
      BY <3>1
  <2> QED
    BY <1>4, <1>5, <2>1, <2>2, TableShape
<1>7. p # None => /\ p \in Owned(nodes, r.user)
                  /\ ~ HasContent(tr, p)
                  /\ \A n \in M : ~ IsSelfOrDescendant(nodes, r.user, n, p)
  <2> SUFFICES ASSUME p # None
               PROVE  /\ p \in Owned(nodes, r.user)
                      /\ ~ HasContent(tr, p)
                      /\ \A n \in M : ~ IsSelfOrDescendant(nodes, r.user, n, p)
    OBVIOUS
  <2>1. p \in Owned(nodes, r.user) /\ ReorderIsValid(r.user, p, ids)
    BY DEF ReorderNodes
  <2>2. \A n \in M : ~ IsSelfOrDescendant(nodes, r.user, n, p)
    BY <2>1 DEF ReorderIsValid, Range
  <2>3. 1 \in DOMAIN ids /\ ids[1] \in DOMAIN nodes
    BY <1>2, <1>3 DEF Range, Owned
  <2>4. ~ HasContent(tr, p)
    BY <2>1, <2>3 DEF ReorderIsValid, IInv, LeafContent, LeavesOnly
  <2> QED
    BY <2>1, <2>2, <2>4
<1> QED
  <2> HIDE DEF M, p
  <2> QED
    BY <1>3, <1>5, <1>6, <1>7, PlacingKeeps

LEMMA DeleteKeeps ==
  ASSUME IInv, NEW r \in Request, DeleteNode(r)
  PROVE  IInv'
<1> DEFINE gone == Deleted(nodes, r.node)
<1>1. /\ nodes' = Without(nodes, gone) /\ tr' = WithoutContent(tr, gone)
      /\ Storable(nodes', tr')
  BY DEF DeleteNode, Commit
<1>2. /\ DOMAIN nodes' \subseteq DOMAIN nodes /\ tr' \subseteq tr
      /\ \A n \in DOMAIN nodes' : nodes'[n] = nodes[n]
      /\ nodes' = [n \in DOMAIN nodes' |-> nodes'[n]]
  BY <1>1 DEF Without, WithoutContent
<1>3. TypeOK'
  <2>1. Table(nodes')
    BY <1>2, TableShape DEF IInv, TypeOK
  <2> QED
    BY <1>1, <1>2, <2>1 DEF IInv, TypeOK
<1>4. Acyclic'
  BY <1>2 DEF IInv, Acyclic, NoCycle
<1>5. LeafContent'
  BY <1>2 DEF IInv, LeafContent, LeavesOnly, HasContent, Langs
<1>6. OwnerConsistent'
  <2>1. \A n \in DOMAIN nodes' : nodes'[n].parent \in DOMAIN nodes' \cup {None}
    BY <1>1 DEF Storable, ReferencesHold
  <2> QED
    BY <1>2, <2>1 DEF IInv, OwnerConsistent, SameOwner
<1> QED
  BY <1>3, <1>4, <1>5, <1>6 DEF IInv

-----------------------------------------------------------------------------
(* The theorems *)

LEMMA InitEstablishes == Init => IInv
  BY SeedAssumption DEF Init, GoodDatabase, IInv, TypeOK, Acyclic, LeafContent,
                        OwnerConsistent

LEMMA NextKeeps == IInv /\ [Next]_vars => IInv'
<1> SUFFICES ASSUME IInv, [Next]_vars PROVE IInv'
  OBVIOUS
<1>1. CASE Next
  <2> PICK r \in Request : Step(r)
    BY <1>1 DEF Next
  <2> QED
    BY CreateKeeps, UpdateKeeps, UpsertKeeps, DeleteTranslationKeeps, MoveKeeps,
       ReorderKeeps, DeleteKeeps DEF Step
<1>2. CASE UNCHANGED vars
  BY <1>2 DEF vars, IInv, TypeOK, Acyclic, LeafContent, OwnerConsistent
<1> QED
  BY <1>1, <1>2

\* The inductive invariant holds of every behaviour of the seven requests.
THEOREM Invariance == Spec => []IInv
  BY InitEstablishes, NextKeeps, PTL DEF Spec

\* The tables satisfy their types and every constraint of the database.
THEOREM TypeCorrect == Spec => []TypeOK
  BY Invariance, PTL DEF IInv

\* No sequence of requests closes a cycle of parents.
THEOREM TreeHasNoCycle == Spec => []Acyclic
  BY Invariance, PTL DEF IInv

\* A node that stores an answer never has a child.
THEOREM AnswersAreLeaves == Spec => []LeafContent
  BY Invariance, PTL DEF IInv

\* A parent belongs to the owner of its child.
THEOREM ParentsAreOwned == Spec => []OwnerConsistent
  BY Invariance, PTL DEF IInv

\* Without a cycle, and with the parents of a user's nodes among them, every
\* node of the user is reached from a root: a set of nodes that are not would
\* have one whose parent is outside it, and that parent is shown.
LEMMA TreeShowsAll ==
  ASSUME NEW t, NEW u, NoCycle(t), SameOwner(t),
         \A n \in DOMAIN t : t[n].parent \in DOMAIN t \cup {None}
  PROVE  Shown(t, u) = Owned(t, u)
<1> DEFINE D == Owned(t, u)
           Hidden == D \ Shown(t, u)
<1>1. Shown(t, u) \subseteq D
  BY DEF Shown
<1>2. \A n \in D : t[n].parent \in Shown(t, u) \cup {None} => n \in Shown(t, u)
  BY DEF Shown
<1>3. \A n \in D : t[n].parent \in D \cup {None}
  BY DEF SameOwner, Owned
<1>4. Hidden \in SUBSET DOMAIN t
  BY DEF Owned
<1>5. Hidden = {}
  <2> SUFFICES ASSUME Hidden # {} PROVE FALSE
    OBVIOUS
  <2>1. PICK n \in Hidden : t[n].parent \notin Hidden
    BY <1>4 DEF NoCycle
  <2> QED
    BY <1>2, <1>3, <2>1
<1> QED
  BY <1>1, <1>5

\* A user is shown every node the user has.
THEOREM TreeIsComplete == Spec => []EveryNodeIsShown
<1>1. IInv => EveryNodeIsShown
  BY TreeShowsAll
     DEF IInv, TypeOK, Storable, ReferencesHold, Acyclic, OwnerConsistent, EveryNodeIsShown
<1> QED
  BY <1>1, Invariance, PTL
-----------------------------------------------------------------------------
(* Action properties *)

LEMMA StepChangesOneUser ==
  ASSUME IInv, NEW r \in Request, Step(r)
  PROVE  ChangesOnly(r.user)
<1>1. CASE CreateNode(r)
  BY <1>1 DEF CreateNode, Commit, Put, ChangesOnly
<1>2. CASE UpdateNode(r)
  BY <1>2 DEF UpdateNode, Commit, Put, Owned, ChangesOnly
<1>3. CASE UpsertTranslation(r) \/ DeleteTranslation(r)
  BY <1>3 DEF UpsertTranslation, DeleteTranslation, Commit, ChangesOnly
<1>4. CASE MoveNode(r)
  BY <1>4 DEF MoveNode, Commit, Put, Owned, ChangesOnly
<1>5. CASE ReorderNodes(r)
  BY <1>5 DEF ReorderNodes, Commit, Reordered, Owned, ChangesOnly
<1>6. CASE DeleteNode(r)
  <2>1. Deleted(nodes, r.node) \subseteq Owned(nodes, r.user)
    BY <1>6, CascadeIsOwned, TableShape
       DEF DeleteNode, IInv, TypeOK, Storable, ReferencesHold, OwnerConsistent
  <2> QED
    BY <1>6, <2>1 DEF DeleteNode, Commit, Without, Owned, ChangesOnly
<1> QED
  BY <1>1, <1>2, <1>3, <1>4, <1>5, <1>6 DEF Step

LEMMA StepKeepsAnAnswer ==
  ASSUME IInv, NEW r \in Request, Step(r)
  PROVE  KeepsAnAnswer
<1>1. CASE \/ CreateNode(r) \/ UpdateNode(r) \/ UpsertTranslation(r)
           \/ MoveNode(r) \/ ReorderNodes(r)
  <2>1. tr \subseteq tr'
    BY <1>1 DEF CreateNode, UpdateNode, UpsertTranslation, MoveNode, ReorderNodes, Commit
  <2> QED
    BY <2>1 DEF KeepsAnAnswer, HasContent, Langs
<1>2. CASE DeleteTranslation(r)
  <2> DEFINE L == Langs(tr, r.node)
  <2>1. tr' = tr \ {<<r.node, r.lang>>} /\ Cardinality(L) > 1
    BY <1>2 DEF DeleteTranslation, Commit
  <2>2. L # {} /\ L # {r.lang}
    <3>1. Cardinality({}) = 0 /\ Cardinality({r.lang}) = 1
      BY FS_EmptySet, FS_Singleton
    <3> QED
      BY <2>1, <3>1
  <2>3. PICK l \in L : l # r.lang
    BY <2>2
  <2>4. <<r.node, l>> \in tr'
    BY <2>1, <2>3 DEF Langs
  <2> QED
    BY <2>1, <2>3, <2>4 DEF KeepsAnAnswer, HasContent, Langs
<1>3. CASE DeleteNode(r)
  <2> DEFINE gone == Deleted(nodes, r.node)
  <2>1. DOMAIN nodes' = DOMAIN nodes \ gone /\ tr' = WithoutContent(tr, gone)
    BY <1>3 DEF DeleteNode, Commit, Without
  <2> HIDE DEF gone
  <2>2. \A n \in DOMAIN nodes' : \A l : <<n, l>> \in tr => <<n, l>> \in tr'
    BY <2>1 DEF WithoutContent
  <2> QED
    BY <2>2 DEF KeepsAnAnswer, HasContent, Langs
<1> QED
  BY <1>1, <1>2, <1>3 DEF Step

\* Every request changes rows of one user only, cascades included.
THEOREM UsersAreIsolated == Spec => TenantIsolation
<1>1. IInv /\ [Next]_vars => [\E u \in Users : ChangesOnly(u)]_vars
  <2> SUFFICES ASSUME IInv, Next PROVE \E u \in Users : ChangesOnly(u)
    OBVIOUS
  <2>1. PICK r \in Request : Step(r)
    BY DEF Next
  <2>2. r.user \in Users
    BY DEF Request, CreateRequest, UpdateRequest, TranslationRequest, MoveRequest,
           ReorderRequest, DeleteRequest
  <2> QED
    BY <2>1, <2>2, StepChangesOneUser
<1> QED
  BY <1>1, Invariance, PTL DEF Spec, TenantIsolation

\* A node that has an answer keeps one as long as it exists.
THEOREM LastAnswerStays == Spec => LastTranslationKept
<1>1. IInv /\ [Next]_vars => [KeepsAnAnswer]_vars
  BY StepKeepsAnAnswer DEF Next
<1> QED
  BY <1>1, Invariance, PTL DEF Spec, LastTranslationKept
=============================================================================
