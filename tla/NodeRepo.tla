------------------------------ MODULE NodeRepo ------------------------------
(***************************************************************************)
(* The tables `nodes` and `node_translations` as values, the queries of     *)
(* NodeRepository over them, the constraints PostgreSQL enforces, and the   *)
(* payloads the node API accepts.                                           *)
(*                                                                          *)
(* A table t of nodes is a function from the ids of the stored nodes to     *)
(* rows; the translations x are a set of pairs <<node, language>>: the text *)
(* of an answer is abstracted away, its existence is not.  Every operator   *)
(* that stands for a query takes the caller u, the user_id the repository   *)
(* is bound to.                                                             *)
(***************************************************************************)
EXTENDS Integers, Sequences, FiniteSets, FiniteSetsExt

CONSTANTS NodeIds,    \* the uuids a node may get
          Users,
          Titles,
          Languages,  \* ALLOWED_CONTENT_LANGUAGES
          MaxSort,    \* the largest value of the Integer column sort_order
          Orders,     \* the lists of ids a reorder payload may carry
          None        \* SQL NULL, and a field the client left out

ASSUME NodeRepoAssumption ==
  /\ None \notin NodeIds \cup Titles \cup Languages \cup (NodeIds \X Languages) \cup 0 .. MaxSort
  /\ MaxSort \in Nat
  /\ Orders \subseteq Seq(NodeIds) \ {<<>>}

Sorts == 0 .. MaxSort

\* A row of `nodes`.
Row == [owner : Users, parent : NodeIds \cup {None}, title : Titles, sort : Sorts]

-----------------------------------------------------------------------------
(* Queries *)

\* Mutated form: the queries forget user_id.
OwnedByAnyone(t, u) == DOMAIN t

\* get_by_id, get_by_ids: the nodes the caller can load.
Owned(t, u) == {n \in DOMAIN t : t[n].owner = u}

\* list_children.
Children(t, u, p) == {n \in Owned(t, u) : t[n].parent = p}

HasChildren(t, u, n) == Children(t, u, n) # {}

\* Node.translations.
Langs(x, n) == {l \in Languages : <<n, l>> \in x}

\* Node.has_content.
HasContent(x, n) == Langs(x, n) # {}

\* get_by_parent_and_title; except is {} or the excluded id.
TitleTaken(t, u, p, title, except) ==
  \E n \in Children(t, u, p) \ except : t[n].title = title

\* get_max_sort_order: -1 when there is no sibling.
MaxSortOrder(t, u, p) == Max({t[n].sort : n \in Children(t, u, p)} \cup {-1})

\* The nodes of D at or below a: the least part of D that contains a and,
\* with a node, the nodes of D it is the parent of.
Below(t, D, a) ==
  {n \in D : \A S \in SUBSET D :
               (a \in S /\ \A m \in D : t[m].parent \in S => m \in S) => n \in S}

\* list_all and build_node_tree: the nodes of the answer of GET /nodes/tree, the
\* caller's roots and, with a node, the caller's nodes it is the parent of.
Shown(t, u) ==
  LET D == Owned(t, u) IN
  {n \in D : \A S \in SUBSET D :
               (\A m \in D : t[m].parent \in S \cup {None} => m \in S) => n \in S}

\* Mutated form: the query looks at the node and its children only.
SelfOrChild(t, u, a, n) == a = n \/ n \in Children(t, u, a)

\* is_self_or_descendant, when the recursive query returns.
IsSelfOrDescendant(t, u, a, n) ==
  \/ a = n
  \/ a \in Owned(t, u) /\ n \in Below(t, Owned(t, u), a)

\* Mutated form: the recursive part joins the children of a in each round.
JoinsChildrenAgain(t, u, a, n) ==
  /\ ~ IsSelfOrDescendant(t, u, a, n)
  /\ a \in Owned(t, u)
  /\ HasChildren(t, u, a)

\* The recursive query never returns: UNION ALL walks a cycle of parents for
\* ever, unless EXISTS meets the row it looks for.
QueryDiverges(t, u, a, n) ==
  /\ ~ IsSelfOrDescendant(t, u, a, n)
  /\ a \in Owned(t, u)
  /\ \E c \in Children(t, u, a) : a \in Below(t, Owned(t, u), c)

-----------------------------------------------------------------------------
(* Writes and constraints *)

\* The table with row r stored under n (INSERT, or UPDATE of one row).
Put(t, n, r) == [m \in DOMAIN t \cup {n} |-> IF m = n THEN r ELSE t[m]]

\* DELETE of n: ON DELETE CASCADE removes the nodes below it, whoever owns
\* them, and their translations.
Deleted(t, n) == Below(t, DOMAIN t, n)
Without(t, gone) == [m \in DOMAIN t \ gone |-> t[m]]
WithoutContent(x, gone) == {p \in x : p[1] \notin gone}

\* uq_nodes_parent_title and, for the roots of all users together,
\* uq_nodes_root_title.
TitlesUnique(t) ==
  \A m, n \in DOMAIN t :
    m # n /\ t[m].parent = t[n].parent => t[m].title # t[n].title

\* nodes.parent_id and node_translations.node_id reference nodes.
ReferencesHold(t, x) ==
  /\ \A n \in DOMAIN t : t[n].parent \in DOMAIN t \cup {None}
  /\ \A p \in x : p[1] \in DOMAIN t

\* sort_order fits its column.
SortsFit(t) == \A n \in DOMAIN t : t[n].sort \in Sorts

\* PostgreSQL accepts the commit of these tables.
Storable(t, x) == TitlesUnique(t) /\ ReferencesHold(t, x) /\ SortsFit(t)

-----------------------------------------------------------------------------
(* Payloads of api/nodes.py that pass schemas/requests/node.py.  A create   *)
(* carries a language exactly when it carries an answer.  A null in a patch *)
(* violates NOT NULL and changes nothing; it is left out.                   *)

CreateRequest ==
  [op : {"create"}, user : Users, parent : NodeIds \cup {None}, title : Titles,
   sort : Sorts \cup {None}, lang : Languages \cup {None}]

UpdateRequest ==
  [op : {"update"}, user : Users, node : NodeIds, title : Titles \cup {None},
   sort : Sorts \cup {None}]

TranslationRequest ==
  [op : {"upsert", "untranslate"}, user : Users, node : NodeIds, lang : Languages]

MoveRequest ==
  [op : {"move"}, user : Users, node : NodeIds, parent : NodeIds \cup {None},
   sort : Sorts \cup {None}]

ReorderRequest ==
  [op : {"reorder"}, user : Users, parent : NodeIds \cup {None}, ids : Orders]

DeleteRequest == [op : {"delete"}, user : Users, node : NodeIds]

Request == CreateRequest \cup UpdateRequest \cup TranslationRequest
             \cup MoveRequest \cup ReorderRequest \cup DeleteRequest
=============================================================================
