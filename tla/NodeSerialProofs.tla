-------------------------- MODULE NodeSerialProofs --------------------------
(***************************************************************************)
(* NodeService implements NodeTree when requests are served one at a time.  *)
(*                                                                          *)
(* Between the statements of the only request nothing is written, so that   *)
(* everything it has read still holds in the tables (Facts): the row it     *)
(* loaded, the parent that stores no answer, the title that is free, the    *)
(* next position, the subtree that does not hold the new parent, the nodes  *)
(* and siblings of a reorder, the answers counted.  With these facts the    *)
(* commit of a request is the one step of NodeTree for its payload, and     *)
(* every other statement is a stutter.                                      *)
(***************************************************************************)
EXTENDS NodeServiceProofs

-----------------------------------------------------------------------------
(* What the statements of a request have found in tables t and x *)

\* get_node: the node is the caller's, and the session holds its row.
Loaded(t, x, s) ==
  s.pc # "load" /\ s.req.op \in {"update", "move", "upsert", "untranslate", "delete"} =>
    /\ s.req.node \in Owned(t, s.req.user)
    /\ s.held = [n \in {s.req.node} |-> t[n]]
    /\ s.req.op = "untranslate" => s.langs = Langs(x, s.req.node)

\* get_existing_parent and ensure_parent_allows_children.
Parented(t, x, s) ==
  /\ s.req.parent # None
  /\ \/ s.pc \in {"title", "max", "write"} /\ s.req.op \in {"create", "move"}
     \/ s.pc \in {"nodes", "siblings", "descend", "write"} /\ s.req.op = "reorder"
  => /\ s.req.parent \in Owned(t, s.req.user)
     /\ s.req.op # "reorder" => ~ HasContent(x, s.req.parent)
     /\ s.req.op = "reorder" => s.langs = Langs(x, s.req.parent)

\* ensure_unique_sibling_title.
Titled(t, s) ==
  \/ s.pc \in {"max", "write"} /\ s.req.op \in {"create", "move"}
  \/ s.pc = "write" /\ s.req.op = "update" /\ s.req.title # None
  => ~ TitleTaken(t, s.req.user, NewParent(s),
                  IF s.req.op = "move" THEN s.held[s.req.node].title ELSE s.req.title,
                  IF s.req.op = "create" THEN {} ELSE {s.req.node})

\* get_max_sort_order.
Sorted(t, s) ==
  s.req.op \in {"create", "move"} =>
    /\ s.pc = "max" => s.req.sort = None
    /\ s.pc = "write" => s.sort = IF s.req.sort = None
                                  THEN MaxSortOrder(t, s.req.user, s.req.parent) + 1
                                  ELSE s.req.sort

\* is_self_or_descendant.
NotAbove(t, s) ==
  s.req.op \in {"move", "reorder"} /\ s.req.parent # None =>
    \A n \in Compared(s) : ~ IsSelfOrDescendant(t, s.req.user, n, s.req.parent)

\* load_reorder_nodes and list_children.
Listed(t, s) ==
  LET ids == s.req.ids IN
  s.req.op = "reorder" =>
    /\ s.pc \in {"siblings", "descend", "write"} =>
         /\ Range(ids) \subseteq Owned(t, s.req.user)
         /\ \A i, j \in DOMAIN ids : i # j => t[ids[i]].title # t[ids[j]].title
         /\ s.held = [n \in Range(ids) |-> t[n]]
    /\ s.pc \in {"descend", "write"} =>
         /\ \A n \in Range(ids) :
              ~ TitleTaken(t, s.req.user, s.req.parent, t[n].title, Range(ids))
         /\ s.langs # {} => \A n \in Range(ids) : t[n].parent = s.req.parent

\* has_children and get_translation.
Answered(t, x, s) ==
  s.pc = "write" =>
    /\ s.req.op = "upsert" => ~ HasChildren(t, s.req.user, s.req.node)
    /\ s.req.op = "untranslate" => /\ s.row = <<s.req.node, s.req.lang>>
                                   /\ s.row \in x /\ Cardinality(s.langs) > 1

Facts(t, x, s) ==
  s.pc \in Serving =>
    /\ Loaded(t, x, s) /\ Parented(t, x, s) /\ Titled(t, s) /\ Sorted(t, s)
    /\ NotAbove(t, s) /\ Listed(t, s) /\ Answered(t, x, s)

LEMMA LoadFacts ==
  ASSUME IInv, NEW w \in Workers, Facts(nodes, tr, session[w]), Load(w)
  PROVE  Facts(nodes, tr, session'[w])
<1> DEFINE s == session[w]
           r == s.req
           s2 == session'[w]
<1>1. CASE Ends(w)
  BY <1>1, RestIsAsked DEF Ends, Facts
<1>2. CASE ~ Ends(w)
  <2>1. /\ Turn(w, AfterLoad(r), {"held", "langs"})
        /\ r.node \in Owned(nodes, r.user)
        /\ s2.held = [n \in {r.node} |-> nodes[n]] /\ s2.langs = Langs(tr, r.node)
    BY <1>2, LoadTurns
  <2>2. r.op \in {"update", "move", "upsert", "untranslate", "delete"} /\ s2.req = r
    BY <2>1, AtStatement DEF Load, Ops, Turn
  <2>3. s2.pc = AfterLoad(r)
    BY <2>1 DEF Turn
  <2>4. Loaded(nodes, tr, s2)
    BY <2>1, <2>2 DEF Loaded
  <2>5. Parented(nodes, tr, s2)
    BY <2>2, <2>3 DEF Parented, AfterLoad
  <2>6. Titled(nodes, s2)
    BY <2>2, <2>3 DEF Titled, AfterLoad
  <2>7. Sorted(nodes, s2) /\ Answered(nodes, tr, s2)
    BY <2>2, <2>3 DEF Sorted, Answered, AfterLoad
  <2>8. NotAbove(nodes, s2) /\ Listed(nodes, s2)
    BY <2>2, <2>3 DEF NotAbove, Listed, Compared, AfterLoad
  <2> QED
    BY <2>4, <2>5, <2>6, <2>7, <2>8 DEF Facts
<1> QED
  BY <1>1, <1>2

LEMMA ReadParentFacts ==
  ASSUME IInv, NEW w \in Workers, Facts(nodes, tr, session[w]), ReadParent(w)
  PROVE  Facts(nodes, tr, session'[w])
<1> DEFINE s == session[w]
           r == s.req
           s2 == session'[w]
<1>1. CASE Ends(w)
  BY <1>1, RestIsAsked DEF Ends, Facts
<1>2. CASE ~ Ends(w)
  <2>1. /\ Turn(w, AfterParent(r), {"langs"})
        /\ r.parent \in Owned(nodes, r.user)
        /\ r.op # "reorder" => ~ HasContent(tr, r.parent)
        /\ s2.langs = Langs(tr, r.parent)
    BY <1>2, ReadParentTurns
  <2>2. r.op \in {"create", "move", "reorder"} /\ s2.req = r /\ s2.held = s.held /\ s.pc = "parent"
    BY <2>1, AtStatement DEF ReadParent, Ops, Turn
  <2>3. s2.pc = AfterParent(r)
    BY <2>1 DEF Turn
  <2>4. Loaded(nodes, tr, s2)
    BY <2>2 DEF Facts, Loaded, Serving
  <2>5. Parented(nodes, tr, s2)
    BY <2>1, <2>2 DEF Parented
  <2>6. Titled(nodes, s2)
    BY <2>2, <2>3 DEF Titled, AfterParent
  <2>7. Sorted(nodes, s2) /\ Answered(nodes, tr, s2) /\ Listed(nodes, s2)
    BY <2>2, <2>3 DEF Sorted, Answered, Listed, AfterParent
  <2>8. NotAbove(nodes, s2)
    BY <2>2, <2>3 DEF NotAbove, Compared, AfterParent, Facts, Serving
  <2> QED
    BY <2>4, <2>5, <2>6, <2>7, <2>8 DEF Facts
<1> QED
  BY <1>1, <1>2

LEMMA ReadTitleFacts ==
  ASSUME IInv, NEW w \in Workers, Facts(nodes, tr, session[w]), ReadTitle(w)
  PROVE  Facts(nodes, tr, session'[w])
<1> DEFINE s == session[w]
           r == s.req
           s2 == session'[w]
<1>1. CASE Ends(w)
  BY <1>1, RestIsAsked DEF Ends, Facts
<1>2. CASE ~ Ends(w)
  <2>1. /\ Turn(w, AfterTitle(r), {"sort"})
        /\ s2.sort = (IF r.op = "update" THEN None ELSE r.sort)
        /\ ~ TitleTaken(nodes, r.user, NewParent(s),
                        IF r.op = "move" THEN s.held[r.node].title ELSE r.title,
                        IF r.op = "create" THEN {} ELSE {r.node})
    BY <1>2, ReadTitleTurns
  <2>2. /\ r.op \in {"create", "update", "move"} /\ s2.req = r /\ s2.held = s.held
        /\ s.pc = "title"
    BY <2>1, AtStatement DEF ReadTitle, Ops, Turn
  <2>3. s2.pc = AfterTitle(r)
    BY <2>1 DEF Turn
  <2>4. Loaded(nodes, tr, s2) /\ Parented(nodes, tr, s2)
    BY <2>2 DEF Facts, Loaded, Parented, Serving
  <2>5. Titled(nodes, s2)
    <3>1. NewParent(s2) = NewParent(s)
      BY <2>2 DEF NewParent
    <3> QED
      BY <2>1, <2>2, <3>1 DEF Titled
  <2>6. Sorted(nodes, s2)
    BY <2>1, <2>2, <2>3 DEF Sorted, AfterTitle
  <2>7. NotAbove(nodes, s2)
    BY <2>2, <2>3 DEF NotAbove, Compared, AfterTitle, Facts, Serving
  <2>8. Answered(nodes, tr, s2) /\ Listed(nodes, s2)
    BY <2>2 DEF Answered, Listed
  <2> QED
    BY <2>4, <2>5, <2>6, <2>7, <2>8 DEF Facts
<1> QED
  BY <1>1, <1>2

LEMMA ReadMaxSortFacts ==
  ASSUME IInv, NEW w \in Workers, Facts(nodes, tr, session[w]), ReadMaxSort(w)
  PROVE  Facts(nodes, tr, session'[w])
<1> DEFINE s == session[w]
           r == s.req
           s2 == session'[w]
<1>1. /\ Turn(w, "write", {"sort"})
      /\ s2.sort = MaxSortOrder(nodes, r.user, r.parent) + 1
  BY ReadMaxSortTurns
<1>2. /\ r.op \in {"create", "move"} /\ s2.req = r /\ s2.held = s.held
      /\ s.pc = "max" /\ s2.pc = "write"
  BY <1>1, AtStatement DEF ReadMaxSort, Ops, Turn
<1>3. Loaded(nodes, tr, s2) /\ Parented(nodes, tr, s2)
  BY <1>2 DEF Facts, Loaded, Parented, Serving
<1>4. Titled(nodes, s2)
  <2>1. NewParent(s2) = NewParent(s)
    BY <1>2 DEF NewParent
  <2> QED
    BY <1>2, <2>1 DEF Titled, Facts, Serving
<1>5. Sorted(nodes, s2)
  BY <1>1, <1>2 DEF Sorted, Facts, Serving
<1>6. NotAbove(nodes, s2)
  BY <1>2 DEF NotAbove, Compared, Facts, Serving
<1>7. Answered(nodes, tr, s2) /\ Listed(nodes, s2)
  BY <1>2 DEF Answered, Listed
<1> QED
  BY <1>3, <1>4, <1>5, <1>6, <1>7 DEF Facts

LEMMA DescendFacts ==
  ASSUME IInv, TypeOK, AllAsked, NEW w \in Workers, Facts(nodes, tr, session[w]), Descend(w)
  PROVE  Facts(nodes, tr, session'[w])
<1> DEFINE s == session[w]
           r == s.req
           s2 == session'[w]
<1>1. CASE Ends(w)
  BY <1>1, RestIsAsked DEF Ends, Facts
<1>2. CASE ~ Ends(w)
  <2>1. /\ r.op \in {"move", "reorder"} /\ s2.req = r /\ s2.held = s.held
        /\ s2.langs = s.langs /\ s.pc = "descend"
        /\ s2.pc \in IF r.op = "move" THEN {"parent"} ELSE {"descend", "write"}
    BY <1>2, AtStatement, DescendTurns DEF Descend, Ops, Turn
  <2>2. Loaded(nodes, tr, s2) /\ Parented(nodes, tr, s2)
    BY <2>1 DEF Facts, Loaded, Parented, Serving
  <2>3. Titled(nodes, s2) /\ Sorted(nodes, s2) /\ Answered(nodes, tr, s2)
    BY <2>1 DEF Titled, Sorted, Answered
  <2>4. Listed(nodes, s2)
    BY <2>1 DEF Facts, Listed, Serving
  <2>5. NotAbove(nodes, s2)
    BY <1>2, <2>1, DescendCompares DEF NotAbove, Facts, Serving
  <2> QED
    BY <2>2, <2>3, <2>4, <2>5 DEF Facts
<1> QED
  BY <1>1, <1>2

LEMMA AnswerChecksFacts ==
  ASSUME IInv, NEW w \in Workers, Facts(nodes, tr, session[w]),
         ReadChildren(w) \/ ReadTranslation(w)
  PROVE  Facts(nodes, tr, session'[w])
<1> DEFINE s == session[w]
           r == s.req
           s2 == session'[w]
<1>1. CASE Ends(w)
  BY <1>1, RestIsAsked DEF Ends, Facts
<1>2. CASE ~ Ends(w)
  <2>1. /\ r.op \in {"upsert", "untranslate"} /\ s2.req = r /\ s2.held = s.held
        /\ s2.langs = s.langs /\ s.pc \in {"children", "translation"} /\ s2.pc = "write"
    BY <1>2, AtStatement, ReadChildrenTurns, ReadTranslationTurns
       DEF ReadChildren, ReadTranslation, Ops, Turn
  <2>2. Answered(nodes, tr, s2)
    <3>1. CASE ReadChildren(w)
      BY <1>2, <2>1, <3>1, ReadChildrenTurns, AtStatement DEF Answered, ReadChildren, Ops
    <3>2. CASE ReadTranslation(w)
      BY <1>2, <2>1, <3>2, ReadTranslationTurns, AtStatement DEF Answered, ReadTranslation, Ops
    <3> QED
      BY <3>1, <3>2
  <2>3. Loaded(nodes, tr, s2)
    BY <2>1 DEF Facts, Loaded, Serving
  <2>4. /\ Parented(nodes, tr, s2) /\ Titled(nodes, s2) /\ Sorted(nodes, s2)
        /\ NotAbove(nodes, s2) /\ Listed(nodes, s2)
    BY <2>1 DEF Parented, Titled, Sorted, NotAbove, Listed
  <2> QED
    BY <2>2, <2>3, <2>4 DEF Facts
<1> QED
  BY <1>1, <1>2

LEMMA ReorderChecksFacts ==
  ASSUME IInv, AllAsked, NEW w \in Workers, Facts(nodes, tr, session[w]),
         LoadNodes(w) \/ ReadSiblings(w)
  PROVE  Facts(nodes, tr, session'[w])
<1> DEFINE s == session[w]
           r == s.req
           s2 == session'[w]
<1>1. CASE Ends(w)
  BY <1>1, RestIsAsked DEF Ends, Facts
<1>2. CASE ~ Ends(w)
  <2>1. /\ r.op = "reorder" /\ s2.req = r /\ s2.at = s.at /\ s2.langs = s.langs
        /\ s.pc \in {"nodes", "siblings"}
        /\ \/ s2.pc = "siblings"
           \/ s.pc = "siblings" /\ s2.pc = (IF r.parent = None THEN "write" ELSE "descend")
    BY <1>2, AtStatement, LoadNodesTurns, ReadSiblingsTurns DEF LoadNodes, ReadSiblings, Ops, Turn
  <2>2. Listed(nodes, s2)
    <3>1. CASE LoadNodes(w)
      <4>1. /\ Range(r.ids) \subseteq Owned(nodes, r.user)
            /\ \A i, j \in DOMAIN r.ids : i # j => nodes[r.ids[i]].title # nodes[r.ids[j]].title
            /\ s2.held = [n \in Range(r.ids) |-> nodes[n]] /\ s2.pc = "siblings"
        BY <1>2, <3>1, LoadNodesTurns DEF Turn
      <4> QED
        BY <2>1, <4>1 DEF Listed
    <3>2. CASE ReadSiblings(w)
      <4>1. /\ \A n \in DOMAIN s.held :
                 ~ TitleTaken(nodes, r.user, r.parent, s.held[n].title, DOMAIN s.held)
            /\ s.langs # {} => \A n \in DOMAIN s.held : s.held[n].parent = r.parent
            /\ s2.held = s.held /\ s.pc = "siblings"
        BY <1>2, <3>2, ReadSiblingsTurns DEF Turn, ReadSiblings
      <4>2. /\ Range(r.ids) \subseteq Owned(nodes, r.user)
            /\ \A i, j \in DOMAIN r.ids : i # j => nodes[r.ids[i]].title # nodes[r.ids[j]].title
            /\ s.held = [n \in Range(r.ids) |-> nodes[n]]
        BY <2>1, <4>1 DEF Facts, Listed, Serving
      <4>3. DOMAIN s.held = Range(r.ids) /\ \A n \in Range(r.ids) : s.held[n] = nodes[n]
        BY <4>2
      <4> QED
        BY <2>1, <4>1, <4>2, <4>3 DEF Listed
    <3> QED
      BY <3>1, <3>2
  <2>3. Parented(nodes, tr, s2)
    BY <2>1 DEF Facts, Parented, Serving
  <2>4. /\ Loaded(nodes, tr, s2) /\ Titled(nodes, s2) /\ Sorted(nodes, s2)
        /\ Answered(nodes, tr, s2)
    BY <2>1 DEF Loaded, Titled, Sorted, Answered
  <2>5. NotAbove(nodes, s2)
    <3>1. s2.pc = "descend" => s2.at = 1
      BY <2>1 DEF AllAsked, Asked, Serving
    <3> QED
      BY <2>1, <3>1 DEF NotAbove, Compared
  <2> QED
    BY <2>2, <2>3, <2>4, <2>5 DEF Facts
<1> QED
  BY <1>1, <1>2

LEMMA StartFacts ==
  ASSUME IInv, NEW w \in Workers, Start(w)
  PROVE  Facts(nodes, tr, session'[w])
<1> DEFINE s == session'[w]
<1>1. PICK r \in Workload[w] : s.pc = First(r) /\ s.req = r
  BY StartTurns
<1>2. /\ r.op \in {"create", "update", "move", "reorder", "upsert", "untranslate", "delete"}
      /\ s.req = r
      /\ s.pc = IF r.op = "create" THEN IF r.parent = None THEN "title" ELSE "parent"
               ELSE IF r.op = "reorder" THEN IF r.parent = None THEN "nodes" ELSE "parent"
               ELSE "load"
  BY <1>1, Requests, RequestKinds DEF First
<1>3. Loaded(nodes, tr, s) /\ Parented(nodes, tr, s)
  BY <1>2 DEF Loaded, Parented
<1>4. Titled(nodes, s) /\ Sorted(nodes, s) /\ Answered(nodes, tr, s) /\ Listed(nodes, s)
  BY <1>2 DEF Titled, Sorted, Answered, Listed
<1>5. NotAbove(nodes, s)
  BY <1>2 DEF NotAbove, Compared
<1> QED
  BY <1>3, <1>4, <1>5 DEF Facts

\* With one worker nothing changes between a statement and the next.
LEMMA FactsKept ==
  ASSUME IInv, TypeOK, AllAsked, NEW w \in Workers, Facts(nodes, tr, session[w]),
         Start(w) \/ Statement(w) \/ Abort(w)
  PROVE  Facts(nodes', tr', session'[w])
<1>1. CASE \/ WriteCreate(w) \/ WriteUpdate(w) \/ WriteMove(w) \/ WriteReorder(w)
           \/ WriteTranslation(w) \/ DeleteTranslation(w) \/ DeleteNode(w)
           \/ Reload(w) \/ Abort(w)
  BY <1>1, WriteEnds, RestIsAsked DEF Facts
<1>2. CASE Start(w)
  BY <1>2, StartFacts, StartAsked
<1>3. CASE \/ Load(w) \/ ReadParent(w) \/ ReadTitle(w) \/ ReadMaxSort(w) \/ Descend(w)
           \/ ReadChildren(w) \/ ReadTranslation(w) \/ LoadNodes(w) \/ ReadSiblings(w)
  <2>1. nodes' = nodes /\ tr' = tr
    BY <1>3, ReadAsked DEF AllAsked
  <2>2. Facts(nodes, tr, session'[w])
    BY <1>3, LoadFacts, ReadParentFacts, ReadTitleFacts, ReadMaxSortFacts, DescendFacts,
       AnswerChecksFacts, ReorderChecksFacts
  <2> QED
    BY <2>1, <2>2
<1> QED
  BY <1>1, <1>2, <1>3 DEF Statement
-----------------------------------------------------------------------------
(* The writes are the steps of NodeTree *)

\* NodeTree asks the same queries.
LEMMA TreeQueries ==
  ASSUME NEW t, NEW x, NEW u, NEW n, NEW p, NEW title, NEW except
  PROVE  /\ Tree!Owned(t, u) = Owned(t, u)
         /\ Tree!HasChildren(t, u, n) <=> HasChildren(t, u, n)
         /\ Tree!Langs(x, n) = Langs(x, n)
         /\ Tree!HasContent(x, n) <=> HasContent(x, n)
         /\ Tree!TitleTaken(t, u, p, title, except) <=> TitleTaken(t, u, p, title, except)
         /\ Tree!MaxSortOrder(t, u, p) = MaxSortOrder(t, u, p)
         /\ Tree!IsSelfOrDescendant(t, u, n, p) <=> IsSelfOrDescendant(t, u, n, p)
         /\ Tree!Deleted(t, n) = Deleted(t, n)
         /\ Tree!Without(t, x) = Without(t, x)
         /\ Tree!WithoutContent(t, x) = WithoutContent(t, x)
         /\ Tree!Put(t, n, p) = Put(t, n, p)
         /\ Tree!Storable(t, x) <=> Storable(t, x)
<1>1. \A v : Tree!Owned(t, v) = Owned(t, v)
  BY DEF Tree!Owned, Owned
<1>2. \A q : Tree!Children(t, u, q) = Children(t, u, q)
  BY <1>1 DEF Tree!Children, Children
<1>3. \A D, a : Tree!Below(t, D, a) = Below(t, D, a)
  BY DEF Tree!Below, Below
<1>4. Tree!HasChildren(t, u, n) <=> HasChildren(t, u, n)
  BY <1>2 DEF Tree!HasChildren, HasChildren
<1>5. Tree!Langs(x, n) = Langs(x, n) /\ (Tree!HasContent(x, n) <=> HasContent(x, n))
  BY DEF Tree!Langs, Langs, Tree!HasContent, HasContent
<1>6. Tree!TitleTaken(t, u, p, title, except) <=> TitleTaken(t, u, p, title, except)
  BY <1>2 DEF Tree!TitleTaken, TitleTaken
<1>7. Tree!MaxSortOrder(t, u, p) = MaxSortOrder(t, u, p)
  BY <1>2 DEF Tree!MaxSortOrder, MaxSortOrder, Tree!Max, Max
<1>8. Tree!IsSelfOrDescendant(t, u, n, p) <=> IsSelfOrDescendant(t, u, n, p)
  BY <1>1, <1>3 DEF Tree!IsSelfOrDescendant, IsSelfOrDescendant
<1>9. Tree!Deleted(t, n) = Deleted(t, n)
  BY <1>3 DEF Tree!Deleted, Deleted
<1>10. /\ Tree!Without(t, x) = Without(t, x) /\ Tree!WithoutContent(t, x) = WithoutContent(t, x)
       /\ Tree!Put(t, n, p) = Put(t, n, p)
  BY DEF Tree!Without, Without, Tree!WithoutContent, WithoutContent, Tree!Put, Put
<1>11. Tree!Storable(t, x) <=> Storable(t, x)
  BY DEF Storable, TitlesUnique, ReferencesHold, SortsFit, Sorts,
         Tree!Storable, Tree!TitlesUnique, Tree!ReferencesHold, Tree!SortsFit, Tree!Sorts
<1> QED
  BY <1>1, <1>4, <1>5, <1>6, <1>7, <1>8, <1>9, <1>10, <1>11

\* A commit is that of NodeTree, or nothing changes.
LEMMA CommitIsTrees ==
  ASSUME IInv, NEW w \in Workers, NEW t, NEW x, NEW s, Commit(w, t, x, s)
  PROVE  UNCHANGED <<nodes, tr>> \/ Tree!Commit(t, x)
<1>1. CASE Storable(t, x)
  BY <1>1, TreeQueries DEF Commit, Tree!Commit
<1>2. CASE ~ Storable(t, x)
  BY <1>2, AnswerEnds DEF Commit, Ends
<1> QED
  BY <1>1, <1>2

\* When the rows held are the stored ones, an UPDATE of the changed columns
\* writes the rows as they are assigned.
LEMMA SaveIsPut ==
  ASSUME IInv, NEW w \in Workers, NEW new, NEW s2, Save(w, new, s2), NEW H,
         H \subseteq DOMAIN nodes, session[w].held = [n \in H |-> nodes[n]],
         \A n \in H : new[n] = [f \in Columns |-> new[n][f]]
  PROVE  \/ UNCHANGED <<nodes, tr>>
         \/ Tree!Commit([n \in DOMAIN nodes |-> IF n \in H THEN new[n] ELSE nodes[n]], tr)
<1> DEFINE held == session[w].held
           dirty == {n \in DOMAIN held : new[n] # held[n]}
           t == [n \in DOMAIN nodes |->
                   IF n \in dirty THEN ChangedColumns(nodes[n], held[n], new[n]) ELSE nodes[n]]
           t2 == [n \in DOMAIN nodes |-> IF n \in H THEN new[n] ELSE nodes[n]]
<1>1. DOMAIN held = H /\ \A n \in H : held[n] = nodes[n] /\ DOMAIN nodes[n] = Columns
  BY DEF IInv, Tables
<1>2. ASSUME NEW n \in H PROVE ChangedColumns(nodes[n], held[n], new[n]) = new[n]
  <2>1. ChangedColumns(nodes[n], held[n], new[n]) = [f \in Columns |-> new[n][f]]
    BY <1>1, <1>2 DEF ChangedColumns
  <2> QED
    BY <2>1
<1>3. ASSUME NEW n \in DOMAIN nodes PROVE t[n] = t2[n]
  <2>1. CASE n \in dirty
    BY <1>1, <1>2, <1>3, <2>1
  <2>2. CASE n \notin dirty
    BY <1>1, <1>3, <2>2
  <2> QED
    BY <2>1, <2>2
<1>4. t = t2
  BY <1>3
<1>5. CASE Answer(w)
  BY <1>5, AnswerEnds DEF Ends
<1>6. CASE Commit(w, t, tr, s2)
  <2>1. UNCHANGED <<nodes, tr>> \/ Tree!Commit(t, tr)
    BY <1>6, CommitIsTrees
  <2> HIDE DEF t, t2
  <2>2. UNCHANGED <<nodes, tr>> \/ Tree!Commit(t2, tr)
    BY <1>4, <2>1
  <2> QED
    BY <2>2 DEF t2
<1> QED
  BY <1>5, <1>6 DEF Save

\* What the statements before the write have found.
LEMMA WriteFacts ==
  ASSUME IInv, NEW w \in Workers, Facts(nodes, tr, session[w]), session[w].pc = "write"
  PROVE  LET s == session[w] IN
         /\ s.req \in Request
         /\ Loaded(nodes, tr, s) /\ Parented(nodes, tr, s) /\ Titled(nodes, s)
         /\ Sorted(nodes, s) /\ NotAbove(nodes, s) /\ Listed(nodes, s) /\ Answered(nodes, tr, s)
         /\ DOMAIN nodes \subseteq used /\ \A n \in DOMAIN nodes : DOMAIN nodes[n] = Columns
  BY AtStatement DEF Facts, Serving, IInv, Tables

LEMMA CreateIsStep ==
  ASSUME IInv, NEW w \in Workers, Facts(nodes, tr, session[w]), WriteCreate(w)
  PROVE  UNCHANGED <<nodes, tr>> \/ Tree!CreateNode(session[w].req)
<1> DEFINE s == session[w]
           r == s.req
           row == [owner |-> r.user, parent |-> r.parent, title |-> r.title, sort |-> s.sort]
           x(n) == tr \cup {<<n, l>> : l \in {r.lang} \ {None}}
<1>1. s.pc = "write" /\ r.op = "create"
  BY DEF WriteCreate
<1>2. /\ Parented(nodes, tr, s) /\ Titled(nodes, s) /\ Sorted(nodes, s)
      /\ DOMAIN nodes \subseteq used
  BY <1>1, WriteFacts
<1>3. Tree!AllowsChildren(r.user, r.parent)
  BY <1>1, <1>2, TreeQueries DEF Parented, Tree!AllowsChildren
<1>4. ~ Tree!TitleTaken(nodes, r.user, r.parent, r.title, {})
  BY <1>1, <1>2, TreeQueries DEF Titled, NewParent
<1>5. s.sort = Tree!ResolvedSort(r.user, r.parent, r.sort)
  BY <1>1, <1>2, TreeQueries DEF Sorted, Tree!ResolvedSort
<1>6. CASE Answer(w)
  BY <1>6, AnswerEnds DEF Ends
<1>7. ASSUME NEW n \in NodeIds \ used, Commit(w, Put(nodes, n, row), x(n), Reloading)
      PROVE  UNCHANGED <<nodes, tr>> \/ Tree!CreateNode(r)
  <2>1. n \in NodeIds \ DOMAIN nodes
    BY <1>2
  <2>2. UNCHANGED <<nodes, tr>> \/ Tree!Commit(Tree!Put(nodes, n, row), x(n))
    BY <1>7, CommitIsTrees, TreeQueries
  <2> QED
    BY <1>1, <1>3, <1>4, <1>5, <2>1, <2>2 DEF Tree!CreateNode
<1> QED
  BY <1>6, <1>7 DEF WriteCreate

LEMMA UpdateIsStep ==
  ASSUME IInv, NEW w \in Workers, Facts(nodes, tr, session[w]), WriteUpdate(w)
  PROVE  UNCHANGED <<nodes, tr>> \/ Tree!UpdateNode(session[w].req)
<1> DEFINE s == session[w]
           r == s.req
           new == [n \in {r.node} |->
                     [s.held[n] EXCEPT !.title = IF r.title = None THEN @ ELSE r.title,
                                       !.sort = IF r.sort = None THEN @ ELSE r.sort]]
           row == nodes[r.node]
           row2 == [row EXCEPT !.title = IF r.title = None THEN @ ELSE r.title,
                               !.sort = IF r.sort = None THEN @ ELSE r.sort]
<1>1. s.pc = "write" /\ r.op = "update" /\ Save(w, new, Reloading)
  BY DEF WriteUpdate
<1>2. Loaded(nodes, tr, s) /\ Titled(nodes, s) /\ \A n \in DOMAIN nodes : DOMAIN nodes[n] = Columns
  BY <1>1, WriteFacts
<1>3. r.node \in Owned(nodes, r.user) /\ s.held = [n \in {r.node} |-> nodes[n]]
  BY <1>1, <1>2 DEF Loaded
<1>4. r.node \in DOMAIN nodes /\ s.held[r.node] = row
  BY <1>3 DEF Owned
<1>5. new[r.node] = row2 /\ row2 = [f \in Columns |-> row2[f]]
  BY <1>2, <1>4
<1>6. r.title # None => ~ Tree!TitleTaken(nodes, r.user, row.parent, r.title, {r.node})
  BY <1>1, <1>2, <1>4, TreeQueries DEF Titled, NewParent
<1> HIDE DEF new, row2
<1>7. \/ UNCHANGED <<nodes, tr>>
      \/ Tree!Commit([n \in DOMAIN nodes |-> IF n \in {r.node} THEN new[n] ELSE nodes[n]], tr)
  BY <1>1, <1>3, <1>4, <1>5, SaveIsPut
<1>8. [n \in DOMAIN nodes |-> IF n \in {r.node} THEN new[n] ELSE nodes[n]]
        = Tree!Put(nodes, r.node, row2)
  BY <1>4, <1>5 DEF Tree!Put
<1>9. UNCHANGED <<nodes, tr>> \/ Tree!Commit(Tree!Put(nodes, r.node, row2), tr)
  BY <1>7, <1>8
<1> QED
  BY <1>1, <1>3, <1>6, <1>9, TreeQueries DEF Tree!UpdateNode, row2

LEMMA MoveIsStep ==
  ASSUME IInv, NEW w \in Workers, Facts(nodes, tr, session[w]), WriteMove(w)
  PROVE  UNCHANGED <<nodes, tr>> \/ Tree!MoveNode(session[w].req)
<1> DEFINE s == session[w]
           r == s.req
           new == [n \in {r.node} |-> [s.held[n] EXCEPT !.parent = r.parent, !.sort = s.sort]]
           row2 == [nodes[r.node] EXCEPT !.parent = r.parent, !.sort = s.sort]
<1>1. s.pc = "write" /\ r.op = "move" /\ Save(w, new, Reloading)
  BY DEF WriteMove
<1>2. /\ Loaded(nodes, tr, s) /\ Parented(nodes, tr, s) /\ Titled(nodes, s) /\ Sorted(nodes, s)
      /\ NotAbove(nodes, s) /\ \A n \in DOMAIN nodes : DOMAIN nodes[n] = Columns
  BY <1>1, WriteFacts
<1>3. r.node \in Owned(nodes, r.user) /\ s.held = [n \in {r.node} |-> nodes[n]]
  BY <1>1, <1>2 DEF Loaded
<1>4. r.node \in DOMAIN nodes /\ s.held[r.node] = nodes[r.node]
  BY <1>3 DEF Owned
<1>5. new[r.node] = row2 /\ row2 = [f \in Columns |-> row2[f]]
  BY <1>2, <1>4
<1>6. Tree!AllowsChildren(r.user, r.parent)
  BY <1>1, <1>2, TreeQueries DEF Parented, Tree!AllowsChildren
<1>7. Tree!MoveTargetIsValid(r.user, r.node, r.parent)
  BY <1>1, <1>2, TreeQueries DEF Parented, NotAbove, Compared, Tree!MoveTargetIsValid
<1>8. ~ Tree!TitleTaken(nodes, r.user, r.parent, nodes[r.node].title, {r.node})
  BY <1>1, <1>2, <1>4, TreeQueries DEF Titled, NewParent
<1>9. s.sort = Tree!ResolvedSort(r.user, r.parent, r.sort)
  BY <1>1, <1>2, TreeQueries DEF Sorted, Tree!ResolvedSort
<1> HIDE DEF new, row2
<1>10. \/ UNCHANGED <<nodes, tr>>
       \/ Tree!Commit([n \in DOMAIN nodes |-> IF n \in {r.node} THEN new[n] ELSE nodes[n]], tr)
  BY <1>1, <1>3, <1>4, <1>5, SaveIsPut
<1>11. [n \in DOMAIN nodes |-> IF n \in {r.node} THEN new[n] ELSE nodes[n]]
         = Tree!Put(nodes, r.node, row2)
  BY <1>4, <1>5 DEF Tree!Put
<1>12. UNCHANGED <<nodes, tr>> \/ Tree!Commit(Tree!Put(nodes, r.node, row2), tr)
  BY <1>10, <1>11
<1> QED
  BY <1>1, <1>3, <1>6, <1>7, <1>8, <1>9, <1>12, TreeQueries DEF Tree!MoveNode, row2

LEMMA ReorderIsStep ==
  ASSUME IInv, AllAsked, NEW w \in Workers, Facts(nodes, tr, session[w]), WriteReorder(w)
  PROVE  UNCHANGED <<nodes, tr>> \/ Tree!ReorderNodes(session[w].req)
<1> DEFINE s == session[w]
           r == s.req
           H == Range(r.ids)
           new == Tree!Reordered(s.held, r.parent, r.ids)
           t == [n \in DOMAIN nodes |-> IF n \in H THEN new[n] ELSE nodes[n]]
<1>1. s.pc = "write" /\ r.op = "reorder" /\ Save(w, new, Idle)
  BY DEF WriteReorder
<1>2. /\ Parented(nodes, tr, s) /\ NotAbove(nodes, s) /\ Listed(nodes, s)
      /\ \A n \in DOMAIN nodes : DOMAIN nodes[n] = Columns
  BY <1>1, WriteFacts
<1>3. IsInjective(r.ids)
  BY <1>1 DEF AllAsked, Asked, Serving
<1>4. /\ H \subseteq Owned(nodes, r.user)
      /\ \A i, j \in DOMAIN r.ids : i # j => nodes[r.ids[i]].title # nodes[r.ids[j]].title
      /\ s.held = [n \in H |-> nodes[n]]
      /\ \A n \in H : ~ TitleTaken(nodes, r.user, r.parent, nodes[n].title, H)
      /\ s.langs # {} => \A n \in H : nodes[n].parent = r.parent
  BY <1>1, <1>2 DEF Listed
<1>5. /\ Tree!Range(r.ids) = H /\ (Tree!IsInjective(r.ids) <=> IsInjective(r.ids))
      /\ \A i \in DOMAIN r.ids : r.ids[i] \in H
  BY DEF Range, Tree!Range, IsInjective, Tree!IsInjective
<1>6. r.parent # None =>
        /\ r.parent \in Owned(nodes, r.user)
        /\ HasContent(tr, r.parent) => \A n \in H : nodes[n].parent = r.parent
        /\ \A n \in H : ~ IsSelfOrDescendant(nodes, r.user, n, r.parent)
  BY <1>1, <1>2, <1>4 DEF Parented, NotAbove, Compared, HasContent
<1>7. Tree!ReorderIsValid(r.user, r.parent, r.ids)
  <2>1. \A i \in DOMAIN r.ids :
          ~ Tree!TitleTaken(nodes, r.user, r.parent, nodes[r.ids[i]].title, Tree!Range(r.ids))
    BY <1>4, <1>5, TreeQueries
  <2>2. r.parent # None =>
          /\ Tree!HasContent(tr, r.parent) => \A i \in DOMAIN r.ids : nodes[r.ids[i]].parent = r.parent
          /\ \A i \in DOMAIN r.ids :
               ~ Tree!IsSelfOrDescendant(nodes, r.user, r.ids[i], r.parent)
    BY <1>5, <1>6, TreeQueries
  <2> QED
    BY <1>4, <2>1, <2>2 DEF Tree!ReorderIsValid
<1>8. H \subseteq DOMAIN nodes
  BY <1>4 DEF Owned
<1>9. ASSUME NEW n \in H
      PROVE  /\ new[n] = Tree!Reordered(nodes, r.parent, r.ids)[n]
             /\ new[n] = [f \in Columns |-> new[n][f]]
  <2>1. s.held[n] = nodes[n] /\ n \in DOMAIN s.held /\ n \in DOMAIN nodes
        /\ DOMAIN nodes[n] = Columns
    BY <1>2, <1>4, <1>8, <1>9
  <2>2. new[n] = [nodes[n] EXCEPT !.parent = r.parent,
                                  !.sort = (CHOOSE i \in DOMAIN r.ids : r.ids[i] = n) - 1]
    BY <1>5, <1>9, <2>1 DEF Tree!Reordered
  <2>3. new[n] = Tree!Reordered(nodes, r.parent, r.ids)[n]
    BY <1>5, <1>9, <2>1, <2>2 DEF Tree!Reordered
  <2> HIDE DEF new
  <2>4. new[n] = [f \in Columns |-> new[n][f]]
    BY <2>1, <2>2
  <2> QED
    BY <2>3, <2>4
<1> HIDE DEF new
<1>10. UNCHANGED <<nodes, tr>> \/ Tree!Commit(t, tr)
  BY <1>1, <1>4, <1>8, <1>9, SaveIsPut
<1>11. t = Tree!Reordered(nodes, r.parent, r.ids)
  <2>1. ASSUME NEW n \in DOMAIN nodes
        PROVE  t[n] = Tree!Reordered(nodes, r.parent, r.ids)[n]
    BY <1>5, <1>9 DEF Tree!Reordered
  <2> QED
    BY <2>1 DEF Tree!Reordered
<1>12. UNCHANGED <<nodes, tr>> \/ Tree!Commit(Tree!Reordered(nodes, r.parent, r.ids), tr)
  BY <1>10, <1>11
<1> QED
  BY <1>1, <1>3, <1>4, <1>5, <1>6, <1>7, <1>12, TreeQueries DEF Tree!ReorderNodes

LEMMA TranslationIsStep ==
  ASSUME IInv, NEW w \in Workers, Facts(nodes, tr, session[w]),
         WriteTranslation(w) \/ DeleteTranslation(w)
  PROVE  \/ UNCHANGED <<nodes, tr>>
         \/ Tree!UpsertTranslation(session[w].req) \/ Tree!DeleteTranslation(session[w].req)
<1> DEFINE s == session[w]
           r == s.req
<1>1. s.pc = "write" /\ r.op \in {"upsert", "untranslate"}
  BY DEF WriteTranslation, DeleteTranslation
<1>2. Loaded(nodes, tr, s) /\ Answered(nodes, tr, s)
  BY <1>1, WriteFacts
<1>3. CASE WriteTranslation(w)
  <2>1. r.op = "upsert" /\ Commit(w, nodes, tr \cup {<<r.node, r.lang>>}, Reloading)
    BY <1>3 DEF WriteTranslation
  <2>2. UNCHANGED <<nodes, tr>> \/ Tree!Commit(nodes, tr \cup {<<r.node, r.lang>>})
    BY <2>1, CommitIsTrees
  <2> QED
    BY <1>1, <1>2, <2>1, <2>2, TreeQueries DEF Loaded, Answered, Tree!UpsertTranslation
<1>4. CASE DeleteTranslation(w)
  <2>1. r.op = "untranslate" /\ Commit(w, nodes, tr \ {s.row}, Reloading)
    BY <1>4 DEF DeleteTranslation
  <2>2. UNCHANGED <<nodes, tr>> \/ Tree!Commit(nodes, tr \ {s.row})
    BY <2>1, CommitIsTrees
  <2>3. /\ r.node \in Tree!Owned(nodes, r.user)
        /\ s.row = <<r.node, r.lang>> /\ <<r.node, r.lang>> \in tr
        /\ Cardinality(Tree!Langs(tr, r.node)) > 1
    BY <1>1, <1>2, <2>1, TreeQueries DEF Loaded, Answered
  <2>4. Tree!Cardinality(Tree!Langs(tr, r.node)) = Cardinality(Tree!Langs(tr, r.node))
    BY DEF Cardinality, Tree!Cardinality
  <2> QED
    BY <2>1, <2>2, <2>3, <2>4 DEF Tree!DeleteTranslation
<1> QED
  BY <1>3, <1>4

LEMMA DeleteIsStep ==
  ASSUME IInv, NEW w \in Workers, Facts(nodes, tr, session[w]), DeleteNode(w)
  PROVE  UNCHANGED <<nodes, tr>> \/ Tree!DeleteNode(session[w].req)
<1> DEFINE s == session[w]
           r == s.req
           gone == IF r.node \in DOMAIN nodes THEN Deleted(nodes, r.node) ELSE {}
<1>1. /\ s.pc = "write" /\ r.op = "delete"
      /\ Commit(w, Without(nodes, gone), WithoutContent(tr, gone), Idle)
  BY DEF DeleteNode
<1>2. r.node \in Owned(nodes, r.user)
  BY <1>1, WriteFacts DEF Loaded
<1>3. gone = Tree!Deleted(nodes, r.node)
  BY <1>2, TreeQueries DEF Owned
<1> HIDE DEF gone
<1>4. \/ UNCHANGED <<nodes, tr>>
      \/ Tree!Commit(Tree!Without(nodes, gone), Tree!WithoutContent(tr, gone))
  BY <1>1, CommitIsTrees, TreeQueries
<1> QED
  BY <1>1, <1>2, <1>3, <1>4, TreeQueries DEF Tree!DeleteNode

\* Any step of the only worker is a step of NodeTree for the payload it serves,
\* or changes nothing.
LEMMA StepIsTrees ==
  ASSUME IInv, AllAsked, NEW w \in Workers, Facts(nodes, tr, session[w]),
         Start(w) \/ Statement(w) \/ Abort(w)
  PROVE  \/ UNCHANGED <<nodes, tr>>
         \/ session[w].pc = "write" /\ Tree!Step(session[w].req)
<1>1. CASE Start(w)
  BY <1>1, StartAsked
<1>2. CASE \/ Load(w) \/ ReadParent(w) \/ ReadTitle(w) \/ ReadMaxSort(w) \/ Descend(w)
           \/ ReadChildren(w) \/ ReadTranslation(w) \/ LoadNodes(w) \/ ReadSiblings(w)
  BY <1>2, ReadAsked DEF AllAsked
<1>3. CASE Reload(w) \/ Abort(w)
  BY <1>3, AnswerEnds DEF Reload, Abort, Ends
<1>4. CASE \/ WriteCreate(w) \/ WriteUpdate(w) \/ WriteMove(w) \/ WriteReorder(w)
           \/ WriteTranslation(w) \/ DeleteTranslation(w) \/ DeleteNode(w)
  <2>1. session[w].pc = "write"
    BY <1>4 DEF WriteCreate, WriteUpdate, WriteMove, WriteReorder, WriteTranslation,
                DeleteTranslation, DeleteNode
  <2>2. \/ UNCHANGED <<nodes, tr>>
        \/ Tree!Step(session[w].req)
    BY <1>4, CreateIsStep, UpdateIsStep, MoveIsStep, ReorderIsStep, TranslationIsStep,
       DeleteIsStep DEF Tree!Step
  <2> QED
    BY <2>1, <2>2
<1> QED
  BY <1>1, <1>2, <1>3, <1>4 DEF Statement
-----------------------------------------------------------------------------
(* The theorems *)

\* The invariant of the only worker.
SInv(w) == IInv /\ TypeOK /\ AllAsked /\ Facts(nodes, tr, session[w])

LEMMA InitSerial ==
  ASSUME NEW w \in Workers, Init
  PROVE  SInv(w)
<1>1. \A v \in Workers : session[v] = Idle
  BY DEF Init
<1> QED
  BY <1>1, InitIsSound, InitIsTyped, RestIsAsked DEF SInv, AllAsked, Facts

LEMMA NextSerial ==
  ASSUME NEW w \in Workers, Workers = {w}, SInv(w), [Next]_vars
  PROVE  SInv(w)'
<1>1. CASE Next
  <2>1. Start(w) \/ Statement(w) \/ Abort(w)
    BY <1>1 DEF Next
  <2>2. IInv' /\ TypeOK' /\ AllAsked' /\ Facts(nodes', tr', session'[w])
    BY <1>1, <2>1, NextKeeps, NextTyped, AskedKept, FactsKept DEF SInv
  <2> QED
    BY <2>2 DEF SInv
<1>2. CASE UNCHANGED vars
  <2>1. UNCHANGED <<nodes, tr, used, session>>
    BY <1>2 DEF vars
  <2>2. IInv'
    BY <1>2, StutterKeeps DEF SInv
  <2>3. TypeOK' /\ AllAsked'
    BY <2>1 DEF SInv, TypeOK, Tree!TypeOK, AllAsked
  <2>4. Facts(nodes', tr', session'[w])
    BY <2>1 DEF SInv
  <2> QED
    BY <2>2, <2>3, <2>4 DEF SInv
<1> QED
  BY <1>1, <1>2

\* Served one at a time, the requests do what NodeTree says: whatever the
\* statements of a request change together is one step of NodeTree for its own
\* payload, because what each statement found still holds when the last writes.
THEOREM SerialImplementsTree ==
  ASSUME NEW one \in Workers, Workers = {one}
  PROVE  Spec => ImplementsTree
<1>1. Init => SInv(one)
  BY InitSerial
<1>2. SInv(one) /\ [Next]_vars => SInv(one)'
  BY NextSerial
<1>3. Init => Tree!Init
  BY DEF Init, Tree!Init
<1>4. SInv(one) /\ [Next]_vars =>
        [\E w \in Workers : session[w].pc = "write" /\ Tree!Step(session[w].req)]_<<nodes, tr>>
  <2> SUFFICES ASSUME SInv(one), [Next]_vars
               PROVE  \/ UNCHANGED <<nodes, tr>>
                      \/ session[one].pc = "write" /\ Tree!Step(session[one].req)
    OBVIOUS
  <2>1. CASE Next
    <3>1. Start(one) \/ Statement(one) \/ Abort(one)
      BY <2>1 DEF Next
    <3> QED
      BY <3>1, StepIsTrees DEF SInv
  <2>2. CASE UNCHANGED vars
    BY <2>2 DEF vars
  <2> QED
    BY <2>1, <2>2
<1>5. /\ Tree!Init
      /\ [][\E w \in Workers : session[w].pc = "write" /\ Tree!Step(session[w].req)]_<<nodes, tr>>
      => ImplementsTree
  BY DEF ImplementsTree
<1> QED
  BY <1>1, <1>2, <1>3, <1>4, <1>5, PTL DEF Spec

\* The checks of a request cover the unique indexes: with one user and one
\* request at a time, a title that is taken is refused by the service (409) and
\* no commit meets uq_nodes_parent_title or uq_nodes_root_title (500).  The
\* second user matters: uq_nodes_root_title spans the roots of all users.
THEOREM SerialChecksCoverTitles ==
  ASSUME NEW one \in Workers, Workers = {one}, NEW u, Users = {u}
  PROVE  Spec => []ChecksCoverTitles
<1>1. Init => SInv(one)
  BY InitSerial
<1>2. SInv(one) /\ [Next]_vars => SInv(one)'
  BY NextSerial
<1>3. SInv(one) => ChecksCoverTitles
  <2> DEFINE s == session[one]
             r == s.req
  <2> SUFFICES ASSUME SInv(one), s.pc = "write", NEW n \in DOMAIN nodes \ DOMAIN s.held,
                      <<nodes[n].parent, nodes[n].title>> \in Places(one)
               PROVE  FALSE
    BY DEF ChecksCoverTitles
  <2>1. /\ IInv /\ r \in Request /\ Loaded(nodes, tr, s) /\ Titled(nodes, s) /\ Listed(nodes, s)
    BY WriteFacts DEF SInv
  <2>2. \A m \in DOMAIN nodes : nodes[m].owner = u
    BY StoredRows DEF SInv, Row
  <2>3. r.user = u
    BY <2>1, RequestTypes
  <2>4. \A p, title, except : p = nodes[n].parent /\ title = nodes[n].title /\ n \notin except =>
          TitleTaken(nodes, r.user, p, title, except)
    BY <2>2, <2>3 DEF TitleTaken, Children, Owned
  <2>5. r.op \in {"create", "update", "move", "reorder"}
    BY DEF Places
  <2>6. CASE r.op = "create"
    <3>1. nodes[n].parent = r.parent /\ nodes[n].title = r.title
      BY <2>6 DEF Places
    <3>2. ~ TitleTaken(nodes, r.user, r.parent, r.title, {})
      BY <2>1, <2>6 DEF Titled, NewParent
    <3> QED
      BY <2>4, <3>1, <3>2
  <2>7. CASE r.op = "update"
    <3>1. /\ r.node \in DOMAIN nodes /\ DOMAIN s.held = {r.node} /\ s.held[r.node] = nodes[r.node]
      BY <2>1, <2>7 DEF Loaded, Owned
    <3>2. /\ nodes[n].parent = nodes[r.node].parent
          /\ nodes[n].title = (IF r.title = None THEN nodes[r.node].title ELSE r.title)
      BY <2>7, <3>1 DEF Places
    <3>3. CASE r.title = None
      <4>1. \A i, j \in DOMAIN nodes :
              i # j /\ nodes[i].parent = nodes[j].parent => nodes[i].title # nodes[j].title
        BY DEF SInv, TypeOK, Tree!TypeOK, Tree!Storable, Tree!TitlesUnique
      <4> QED
        BY <3>1, <3>2, <3>3, <4>1
    <3>4. CASE r.title # None
      <4>1. ~ TitleTaken(nodes, r.user, nodes[r.node].parent, r.title, {r.node})
        BY <2>1, <2>7, <3>1, <3>4 DEF Titled, NewParent
      <4> QED
        BY <2>4, <3>1, <3>2, <3>4, <4>1
    <3> QED
      BY <3>3, <3>4
  <2>8. CASE r.op = "move"
    <3>1. /\ r.node \in DOMAIN nodes /\ DOMAIN s.held = {r.node} /\ s.held[r.node] = nodes[r.node]
      BY <2>1, <2>8 DEF Loaded, Owned
    <3>2. nodes[n].parent = r.parent /\ nodes[n].title = nodes[r.node].title
      BY <2>8, <3>1 DEF Places
    <3>3. ~ TitleTaken(nodes, r.user, r.parent, nodes[r.node].title, {r.node})
      BY <2>1, <2>8, <3>1 DEF Titled, NewParent
    <3> QED
      BY <2>4, <3>1, <3>2, <3>3
  <2>9. CASE r.op = "reorder"
    <3>1. /\ s.held = [m \in Range(r.ids) |-> nodes[m]]
          /\ \A m \in Range(r.ids) :
               ~ TitleTaken(nodes, r.user, r.parent, nodes[m].title, Range(r.ids))
      BY <2>1, <2>9 DEF Listed
    <3>2. DOMAIN s.held = Range(r.ids) /\ \A m \in Range(r.ids) : s.held[m] = nodes[m]
      BY <3>1
    <3>3. PICK m \in Range(r.ids) : nodes[n].parent = r.parent /\ nodes[n].title = nodes[m].title
      BY <2>9, <3>2 DEF Places
    <3> QED
      BY <2>4, <3>1, <3>2, <3>3
  <2> QED
    BY <2>5, <2>6, <2>7, <2>8, <2>9
<1> QED
  BY <1>1, <1>2, <1>3, PTL DEF Spec

\* Served one at a time, a reorder that changes anything leaves its nodes under
\* the parent and in the order it was given.
THEOREM SerialReorderTakesEffect ==
  ASSUME NEW one \in Workers, Workers = {one}
  PROVE  Spec => ReorderTakesEffect
<1> DEFINE TakesEffect ==
             \A w \in Workers :
               /\ session[w].pc = "write"
               /\ session[w].req.op = "reorder"
               /\ session'[w] = Idle
               /\ nodes' # nodes
               => LET r == session[w].req IN
                  \A i \in DOMAIN r.ids : /\ nodes'[r.ids[i]].parent = r.parent
                                          /\ nodes'[r.ids[i]].sort = i - 1
<1>1. Init => SInv(one)
  BY InitSerial
<1>2. SInv(one) /\ [Next]_vars => SInv(one)'
  BY NextSerial
<1>3. SInv(one) /\ [Next]_vars => [TakesEffect]_vars
  <2> DEFINE r == session[one].req
  <2> SUFFICES ASSUME SInv(one), Next, r.op = "reorder", nodes' # nodes, NEW i \in DOMAIN r.ids
               PROVE  nodes'[r.ids[i]].parent = r.parent /\ nodes'[r.ids[i]].sort = i - 1
    OBVIOUS
  <2>1. Tree!Step(r)
    BY StepIsTrees DEF SInv, Next
  <2>2. Tree!ReorderNodes(r)
    BY <2>1 DEF Tree!Step, Tree!CreateNode, Tree!UpdateNode, Tree!UpsertTranslation,
                Tree!DeleteTranslation, Tree!MoveNode, Tree!DeleteNode
  <2>3. /\ nodes' = Tree!Reordered(nodes, r.parent, r.ids)
        /\ Tree!IsInjective(r.ids) /\ Tree!Range(r.ids) \subseteq Tree!Owned(nodes, r.user)
    BY <2>2 DEF Tree!ReorderNodes, Tree!Commit
  <2>4. r.ids[i] \in Tree!Range(r.ids) /\ r.ids[i] \in DOMAIN nodes
    BY <2>3 DEF Tree!Range, Tree!Owned
  <2>5. (CHOOSE j \in DOMAIN r.ids : r.ids[j] = r.ids[i]) = i
    BY <2>3 DEF Tree!IsInjective
  <2>6. DOMAIN nodes[r.ids[i]] = Columns
    BY <2>4 DEF SInv, IInv, Tables
  <2>7. nodes'[r.ids[i]] = [nodes[r.ids[i]] EXCEPT !.parent = r.parent, !.sort = i - 1]
    BY <2>3, <2>4, <2>5 DEF Tree!Reordered
  <2> QED
    BY <2>6, <2>7 DEF Columns
<1> QED
  BY <1>1, <1>2, <1>3, PTL DEF Spec, ReorderTakesEffect
=============================================================================
