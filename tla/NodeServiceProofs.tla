-------------------------- MODULE NodeServiceProofs --------------------------
(***************************************************************************)
(* Users stay apart in NodeService, for every set of nodes, users and       *)
(* requests served at the same time, and what a session may rely on.        *)
(*                                                                          *)
(* A request decides by what it read statements ago, and the rows may have  *)
(* changed since.  What it may still rely on: the owner of an id never      *)
(* changes.  Only INSERT gives an owner, to an id that was never used, and  *)
(* an UPDATE writes the columns that the request changed.  The invariant    *)
(* says so of the rows a session holds (Held), of the parent it has checked *)
(* (Under), and of the statements each request gets to (Phase).             *)
(*                                                                          *)
(* The second half states what each statement leaves in its session: it     *)
(* reads (Turn), or ends the request (Ends), or is its last and writes.     *)
(* TypeOK holds for every workload.  The tree stays without a cycle as long *)
(* as no two requests under way move nodes of one user: what a session has  *)
(* compared with the new parent is still not above it (Clear), because a    *)
(* create adds a leaf, a delete only takes edges away, and the trees of two *)
(* users never meet.  Answers stay at the leaves as long as no two requests *)
(* under way answer a node and give it a child: what the checks of a        *)
(* session found is still so when it commits (Fallow).  A node keeps an     *)
(* answer as long as no request deletes one that another has counted, which *)
(* then deletes a different one (Counted).                                  *)
(***************************************************************************)
EXTENDS NodeService, TLAPS, WellFoundedInduction, FiniteSetTheorems

Columns == {"owner", "parent", "title", "sort"}

\* The requests that get to a statement.
Ops(pc) ==
  CASE pc = "load" -> {"update", "move", "upsert", "untranslate", "delete"}
    [] pc = "parent" -> {"create", "move", "reorder"}
    [] pc = "title" -> {"create", "update", "move"}
    [] pc = "max" -> {"create", "move"}
    [] pc = "descend" -> {"move", "reorder"}
    [] pc = "children" -> {"upsert"}
    [] pc = "translation" -> {"untranslate"}
    [] pc = "nodes" -> {"reorder"}
    [] pc = "siblings" -> {"reorder"}
    [] pc = "write" -> {"create", "update", "move", "reorder", "upsert", "untranslate", "delete"}
    [] OTHER -> {}

\* Outside of a request nothing is held.
Resting(s) == s.pc \in {"idle", "reload"} /\ s.held = <<>>

Phase(us, s) ==
  \/ Resting(s)
  \/ /\ s.req \in Request
     /\ s.req.op \in Ops(s.pc)
     /\ Named(s.req) \subseteq us

\* The rows held are the caller's, as long as they are stored.
Held(t, us, s) ==
  \A n \in DOMAIN s.held :
    /\ n \in us
    /\ DOMAIN s.held[n] = Columns
    /\ s.held[n].owner = s.req.user
    /\ n \in DOMAIN t => t[n].owner = s.req.user

\* A request for one stored node holds that node once it has looked for it.
HoldsNode(s) ==
  s.pc \notin {"idle", "reload", "load"} /\ s.req.op \in {"update", "move", "delete"} =>
    DOMAIN s.held = {s.req.node}

\* The parent that a request has looked for is the caller's, as long as it is
\* stored.
Under(t, s) ==
  /\ \/ s.pc \in {"title", "max", "write"} /\ s.req.op \in {"create", "move", "reorder"}
     \/ s.pc \in {"nodes", "siblings", "descend"} /\ s.req.op = "reorder"
  /\ s.req.parent # None /\ s.req.parent \in DOMAIN t
  => t[s.req.parent].owner = s.req.user

\* A move goes to the position it was given; only without one it computes it.
Placed(s) ==
  s.req.op = "move" => /\ s.pc = "max" => s.req.sort = None
                       /\ s.pc = "write" => s.req.sort \in {None, s.sort}

Shape(s) == DOMAIN s = {"pc", "req", "held", "langs", "sort", "at", "row"}

Sound(t, us, s) ==
  /\ Shape(s) /\ Phase(us, s) /\ Held(t, us, s) /\ HoldsNode(s) /\ Under(t, s)
  /\ Placed(s)

Tables ==
  /\ DOMAIN nodes \subseteq used /\ used \subseteq NodeIds
  /\ \A n \in DOMAIN nodes : DOMAIN nodes[n] = Columns
  /\ ReferencesHold(nodes, tr)

IInv ==
  /\ Tables
  /\ OwnerConsistent
  /\ session = [w \in Workers |-> session[w]]
  /\ \A w \in Workers : Sound(nodes, used, session[w])

\* The owner of an id that was ever used does not change from table t to t2.
KeepsOwners(t, t2, us) ==
  \A n \in us \cap DOMAIN t2 : n \in DOMAIN t /\ t2[n].owner = t[n].owner

\* What makes a table that w commits a good successor.
Allowed(w, t) ==
  /\ DOMAIN t \subseteq NodeIds
  /\ \A n \in DOMAIN t : DOMAIN t[n] = Columns
  /\ KeepsOwners(nodes, t, used)
  /\ \A n \in DOMAIN t : t[n].parent # None => t[t[n].parent].owner = t[n].owner
  /\ \A n \in DOMAIN t \ DOMAIN nodes :
       /\ t[n].parent \in used \cup {None}
       /\ session[w].pc = "write" /\ session[w].req.op = "create"
       /\ t[n].parent = session[w].req.parent
  /\ \E u \in Users :
       /\ \A n \in DOMAIN nodes : nodes[n].owner # u => n \in DOMAIN t /\ t[n] = nodes[n]
       /\ \A n \in DOMAIN t \ DOMAIN nodes : t[n].owner = u
  /\ \A n \in DOMAIN nodes \cap DOMAIN t :
       /\ t[n].title # nodes[n].title =>
            Writes(w, n, {"update"}) /\ session[w].req.title = t[n].title
       /\ t[n].parent # nodes[n].parent =>
            /\ Writes(w, n, {"move", "reorder"}) /\ session[w].req.parent = t[n].parent
            /\ session[w].held[n].parent # t[n].parent
       /\ t[n].sort # nodes[n].sort => PutsAt(w, n, t[n].sort)

\* An answer that w commits is the answer of a node it inserts or of an upsert.
Answering(w, x) ==
  \A p \in x \ tr :
    \/ p[1] \notin used
    \/ /\ session[w].pc = "write" /\ session[w].req.op = "upsert"
       /\ p[1] = session[w].req.node

\* What a step of w does: it leaves the tables alone or commits good successors,
\* and of the session of another worker it takes at most the row to delete.
StepOf(w) ==
  /\ UNCHANGED <<nodes, tr, used>> \/ (Allowed(w, nodes') /\ Answering(w, tr'))
  /\ used' = used \cup DOMAIN nodes'
  /\ \A v \in Workers \ {w} : session'[v] = session[v] \/ session'[v] = Forget(session[v], tr')

\* What a step may do to the table: the two action properties.
Isolated == UNCHANGED <<nodes, tr>> \/ \E u \in Users : Tree!ChangesOnly(u)

Requested ==
  \A n \in DOMAIN nodes \cap DOMAIN nodes' :
    /\ nodes'[n].title # nodes[n].title =>
         \E w \in Workers : Writes(w, n, {"update"}) /\ session[w].req.title = nodes'[n].title
    /\ nodes'[n].parent # nodes[n].parent =>
         \E w \in Workers : /\ Writes(w, n, {"move", "reorder"})
                            /\ session[w].req.parent = nodes'[n].parent
    /\ nodes'[n].sort # nodes[n].sort => \E w \in Workers : PutsAt(w, n, nodes'[n].sort)

-----------------------------------------------------------------------------
(* Payloads *)

LEMMA RequestTypes ==
  ASSUME NEW r \in Request
  PROVE  /\ r.user \in Users
         /\ r.op = "create" => r \in CreateRequest
         /\ r.op = "update" => r \in UpdateRequest
         /\ r.op \in {"upsert", "untranslate"} => r \in TranslationRequest
         /\ r.op = "move" => r \in MoveRequest
         /\ r.op = "reorder" => r \in ReorderRequest
         /\ r.op = "delete" => r \in DeleteRequest
  BY DEF Request, CreateRequest, UpdateRequest, TranslationRequest, MoveRequest,
         ReorderRequest, DeleteRequest

LEMMA Requests ==
  ASSUME NEW w \in Workers, NEW r \in Workload[w]
  PROVE  r \in Request
  BY WorkloadAssumption

\* The ids a payload names: its parent is one of them.
LEMMA ParentIsNamed ==
  ASSUME NEW r \in Request, r.op \in {"create", "move", "reorder"}, r.parent # None
  PROVE  r.parent \in Named(r)
  BY DEF Named

-----------------------------------------------------------------------------
(* Sessions *)

LEMMA RestIsSound ==
  ASSUME NEW t, NEW us
  PROVE  Sound(t, us, Idle) /\ Sound(t, us, Reloading)
<1>1. Shape(Idle) /\ Idle.pc = "idle" /\ Idle.held = <<>>
  BY DEF Idle, Shape
<1>2. Shape(Reloading) /\ Reloading.pc = "reload" /\ Reloading.held = <<>>
  BY DEF Idle, Reloading, Shape
<1>3. DOMAIN << >> = {}
  OBVIOUS
<1> QED
  BY <1>1, <1>2, <1>3 DEF Sound, Phase, Resting, Held, HoldsNode, Under, Placed

\* What a session relies on stays true when others change the table.
LEMMA SoundStays ==
  ASSUME NEW t, NEW t2, NEW us, NEW us2, NEW s,
         Sound(t, us, s), KeepsOwners(t, t2, us), us \subseteq us2
  PROVE  Sound(t2, us2, s)
<1>1. Phase(us2, s)
  BY DEF Sound, Phase
<1>2. Held(t2, us2, s)
  BY DEF Sound, Held, KeepsOwners
<1>3. Under(t2, s)
  <2> SUFFICES ASSUME \/ /\ s.pc \in {"title", "max", "write"}
                         /\ s.req.op \in {"create", "move", "reorder"}
                      \/ s.pc \in {"nodes", "siblings", "descend"} /\ s.req.op = "reorder",
                      s.req.parent # None, s.req.parent \in DOMAIN t2
               PROVE  t2[s.req.parent].owner = s.req.user
    BY DEF Under
  <2>1. /\ s.req \in Request
        /\ s.req.op \in {"create", "move", "reorder"}
        /\ Named(s.req) \subseteq us
    BY DEF Sound, Phase, Resting
  <2>2. s.req.parent \in us
    BY <2>1, ParentIsNamed
  <2> QED
    BY <2>2 DEF KeepsOwners, Sound, Under
<1> QED
  BY <1>1, <1>2, <1>3 DEF Sound
-----------------------------------------------------------------------------
(* Statements that write nothing *)

Others(w) == \A v \in Workers \ {w} : session'[v] = session[v]

LEMMA ContinueShape ==
  ASSUME IInv, NEW w \in Workers, NEW s, Continue(w, s)
  PROVE  /\ UNCHANGED <<nodes, tr, used>>
         /\ session' = [v \in Workers |-> session'[v]]
         /\ session'[w] = s
         /\ Others(w)
<1>1. session' = [session EXCEPT ![w] = s] /\ UNCHANGED <<nodes, tr, used>>
  BY DEF Continue
<1>2. session = [v \in Workers |-> session[v]]
  BY DEF IInv
<1> QED
  BY <1>1, <1>2 DEF Others

\* A statement that leaves a sound session behind is a good step.
LEMMA ReadKeeps ==
  ASSUME IInv, NEW w \in Workers, NEW s, Continue(w, s), Sound(nodes, used, s)
  PROVE  IInv' /\ StepOf(w)
<1>1. /\ UNCHANGED <<nodes, tr, used>>
      /\ session' = [v \in Workers |-> session'[v]]
      /\ session'[w] = s
      /\ Others(w)
  BY ContinueShape
<1>2. Tables' /\ OwnerConsistent'
  BY <1>1 DEF IInv, Tables, OwnerConsistent, Tree!OwnerConsistent
<1>3. \A v \in Workers : Sound(nodes, used, session'[v])
  BY <1>1 DEF IInv, Others
<1>4. (\A v \in Workers : Sound(nodes, used, session[v]))'
  BY <1>1, <1>3
<1>5. used' = used \cup DOMAIN nodes'
  BY <1>1 DEF IInv, Tables
<1>6. StepOf(w)
  BY <1>1, <1>5 DEF StepOf, Others
<1> QED
  BY <1>1, <1>2, <1>4, <1>6 DEF IInv

LEMMA AnswerKeeps ==
  ASSUME IInv, NEW w \in Workers, Answer(w)
  PROVE  IInv' /\ StepOf(w)
<1> QED
  BY RestIsSound, ReadKeeps DEF Answer

\* A session that only goes on to another statement stays sound when the same
\* requests get there and nothing more is asked of it.
LEMMA GoOn ==
  ASSUME NEW t, NEW us, NEW s, NEW s2, Sound(t, us, s), ~ Resting(s), Shape(s2),
         s2.req = s.req, s2.held = s.held,
         s.req.op \in Ops(s2.pc), s.pc # "load" \/ s.req.op \notin {"update", "move", "delete"},
         Under(t, s2), Placed(s2)
  PROVE  Sound(t, us, s2)
<1>1. Phase(us, s2)
  BY DEF Sound, Phase
<1>2. Held(t, us, s2)
  BY DEF Sound, Held
<1>3. HoldsNode(s2)
  <2> SUFFICES ASSUME s.req.op \in {"update", "move", "delete"}
               PROVE  DOMAIN s.held = {s.req.node}
    BY DEF HoldsNode
  <2>1. s.pc \notin {"idle", "reload"}
    BY DEF Sound, Phase, Resting, Ops
  <2> QED
    BY <2>1 DEF Sound, HoldsNode
<1> QED
  BY <1>1, <1>2, <1>3 DEF Sound

\* A worker that runs a statement serves a request that gets to it.
LEMMA AtStatement ==
  ASSUME IInv, NEW w \in Workers, session[w].pc \notin {"idle", "reload"}
  PROVE  /\ Sound(nodes, used, session[w])
         /\ ~ Resting(session[w])
         /\ Shape(session[w])
         /\ session[w].req \in Request
         /\ session[w].req.op \in Ops(session[w].pc)
         /\ Named(session[w].req) \subseteq used
  BY DEF IInv, Sound, Phase, Resting

LEMMA StartKeeps ==
  ASSUME IInv, NEW w \in Workers, Start(w)
  PROVE  IInv' /\ StepOf(w)
<1>1. PICK r \in Workload[w] :
        /\ Named(r) \subseteq used
        /\ Continue(w, [Idle EXCEPT !.pc = First(r), !.req = r])
  BY DEF Start
<1> DEFINE s == [Idle EXCEPT !.pc = First(r), !.req = r]
<1>2. r \in Request
  BY Requests
<1>3. Shape(s) /\ s.pc = First(r) /\ s.req = r /\ s.held = << >>
  BY DEF Idle, Shape
<1> HIDE DEF s
<1>4. r.op \in {"create", "update", "move", "reorder", "upsert", "untranslate", "delete"}
  BY <1>2 DEF Request, CreateRequest, UpdateRequest, TranslationRequest, MoveRequest,
              ReorderRequest, DeleteRequest
<1>5. r.op \in Ops(First(r))
  BY <1>4 DEF First, Ops
<1>6. r.op \in {"update", "move", "delete"} => First(r) = "load"
  BY DEF First
<1>7. r.op \in {"create", "move", "reorder"} /\ r.parent # None => First(r) \in {"parent", "load"}
  BY DEF First
<1>8. Phase(used, s) /\ HoldsNode(s) /\ Under(nodes, s) /\ Placed(s)
  BY <1>1, <1>2, <1>3, <1>5, <1>6, <1>7 DEF Phase, HoldsNode, Under, Placed
<1>9. Held(nodes, used, s)
  BY <1>3 DEF Held
<1>10. Continue(w, s)
  BY <1>1 DEF s
<1> QED
  BY <1>3, <1>8, <1>9, <1>10, ReadKeeps DEF Sound

LEMMA LoadKeeps ==
  ASSUME IInv, NEW w \in Workers, Load(w)
  PROVE  IInv' /\ StepOf(w)
<1> DEFINE s == session[w]
           r == s.req
           s2 == [s EXCEPT !.pc = AfterLoad(r), !.held = [n \in {r.node} |-> nodes[n]],
                           !.langs = Langs(tr, r.node)]
<1>1. s.pc = "load"
  BY DEF Load
<1>2. CASE r.node \in Owned(nodes, r.user) /\ Continue(w, s2)
  <2>1. /\ Shape(s) /\ r \in Request /\ Named(r) \subseteq used
        /\ r.op \in {"update", "move", "upsert", "untranslate", "delete"}
    BY <1>1, AtStatement DEF Ops
  <2>2. Shape(s2) /\ s2.pc = AfterLoad(r) /\ s2.req = r /\ s2.held = [n \in {r.node} |-> nodes[n]]
    BY <2>1 DEF Shape
  <2> HIDE DEF s2
  <2>3. Phase(used, s2)
    BY <2>1, <2>2 DEF Phase, AfterLoad, Ops
  <2>4. Held(nodes, used, s2)
    BY <1>2, <2>2 DEF Held, Owned, IInv, Tables
  <2>5. HoldsNode(s2)
    BY <2>2 DEF HoldsNode
  <2>6. Under(nodes, s2) /\ Placed(s2)
    BY <2>1, <2>2 DEF Under, Placed, AfterLoad
  <2>7. Sound(nodes, used, s2)
    BY <2>2, <2>3, <2>4, <2>5, <2>6 DEF Sound
  <2> QED
    BY <1>2, <2>7, ReadKeeps
<1>3. CASE Answer(w)
  BY <1>3, AnswerKeeps
<1> QED
  BY <1>2, <1>3 DEF Load

LEMMA ReadParentKeeps ==
  ASSUME IInv, NEW w \in Workers, ReadParent(w)
  PROVE  IInv' /\ StepOf(w)
<1> DEFINE s == session[w]
           r == s.req
           s2 == [s EXCEPT !.pc = AfterParent(r), !.langs = Langs(tr, r.parent)]
<1>1. s.pc = "parent"
  BY DEF ReadParent
<1>2. CASE r.parent \in Owned(nodes, r.user) /\ Continue(w, s2)
  <2>1. /\ Sound(nodes, used, s) /\ ~ Resting(s) /\ Shape(s)
        /\ r.op \in {"create", "move", "reorder"}
    BY <1>1, AtStatement DEF Ops
  <2>2. Shape(s2) /\ s2.pc = AfterParent(r) /\ s2.req = r /\ s2.held = s.held
    BY <2>1 DEF Shape
  <2> HIDE DEF s2
  <2>3. r.op \in Ops(s2.pc)
    BY <2>1, <2>2 DEF AfterParent, Ops
  <2>4. Under(nodes, s2) /\ Placed(s2)
    BY <1>2, <2>2 DEF Under, Owned, Placed, AfterParent
  <2>5. Sound(nodes, used, s2)
    BY <1>1, <2>1, <2>2, <2>3, <2>4, GoOn
  <2> QED
    BY <1>2, <2>5, ReadKeeps
<1>3. CASE Answer(w)
  BY <1>3, AnswerKeeps
<1> QED
  BY <1>2, <1>3 DEF ReadParent

LEMMA ReadTitleKeeps ==
  ASSUME IInv, NEW w \in Workers, ReadTitle(w)
  PROVE  IInv' /\ StepOf(w)
<1> DEFINE s == session[w]
           r == s.req
           s2 == [s EXCEPT !.pc = AfterTitle(r), !.sort = IF r.op = "update" THEN None ELSE r.sort]
<1>1. s.pc = "title"
  BY DEF ReadTitle
<1>2. CASE Continue(w, s2)
  <2>1. /\ Sound(nodes, used, s) /\ ~ Resting(s) /\ Shape(s)
        /\ r.op \in {"create", "update", "move"}
    BY <1>1, AtStatement DEF Ops
  <2>2. /\ Shape(s2) /\ s2.pc = AfterTitle(r) /\ s2.req = r /\ s2.held = s.held
        /\ r.op = "move" => s2.sort = r.sort
    BY <2>1 DEF Shape
  <2> HIDE DEF s2
  <2>3. r.op \in Ops(s2.pc)
    BY <2>1, <2>2 DEF AfterTitle, Ops
  <2>4. Under(nodes, s2) /\ Placed(s2)
    BY <1>1, <2>1, <2>2 DEF Sound, Under, Placed, AfterTitle
  <2>5. Sound(nodes, used, s2)
    BY <1>1, <2>1, <2>2, <2>3, <2>4, GoOn
  <2> QED
    BY <1>2, <2>5, ReadKeeps
<1>3. CASE Answer(w)
  BY <1>3, AnswerKeeps
<1> QED
  BY <1>2, <1>3 DEF ReadTitle

LEMMA ReadMaxSortKeeps ==
  ASSUME IInv, NEW w \in Workers, ReadMaxSort(w)
  PROVE  IInv' /\ StepOf(w)
<1> DEFINE s == session[w]
           r == s.req
           s2 == [s EXCEPT !.pc = "write", !.sort = MaxSortOrder(nodes, r.user, r.parent) + 1]
<1>1. s.pc = "max" /\ Continue(w, s2)
  BY DEF ReadMaxSort
<1>2. /\ Sound(nodes, used, s) /\ ~ Resting(s) /\ Shape(s)
      /\ r.op \in {"create", "move"}
  BY <1>1, AtStatement DEF Ops
<1>3. Shape(s2) /\ s2.pc = "write" /\ s2.req = r /\ s2.held = s.held
  BY <1>2 DEF Shape
<1> HIDE DEF s2
<1>4. r.op \in Ops(s2.pc)
  BY <1>2, <1>3 DEF Ops
<1>5. Under(nodes, s2) /\ Placed(s2)
  BY <1>1, <1>2, <1>3 DEF Sound, Under, Placed
<1>6. Sound(nodes, used, s2)
  BY <1>1, <1>2, <1>3, <1>4, <1>5, GoOn
<1> QED
  BY <1>1, <1>6, ReadKeeps

LEMMA DescendKeeps ==
  ASSUME IInv, NEW w \in Workers, Descend(w)
  PROVE  IInv' /\ StepOf(w)
<1> DEFINE s == session[w]
           r == s.req
<1>1. s.pc = "descend"
  BY DEF Descend
<1>2. /\ Sound(nodes, used, s) /\ ~ Resting(s) /\ Shape(s)
      /\ r.op \in {"move", "reorder"}
  BY <1>1, AtStatement DEF Ops
<1>3. CASE r.op = "move" /\ Continue(w, [s EXCEPT !.pc = "parent"])
  <2> DEFINE s2 == [s EXCEPT !.pc = "parent"]
  <2>1. Shape(s2) /\ s2.pc = "parent" /\ s2.req = r /\ s2.held = s.held
    BY <1>2 DEF Shape
  <2> HIDE DEF s2
  <2>2. r.op \in Ops(s2.pc) /\ Under(nodes, s2) /\ Placed(s2)
    BY <1>2, <2>1 DEF Ops, Under, Placed
  <2>3. Sound(nodes, used, s2)
    BY <1>1, <1>2, <2>1, <2>2, GoOn
  <2> QED
    BY <1>3, <2>3, ReadKeeps DEF s2
<1>4. CASE r.op = "reorder" /\ Continue(w, [s EXCEPT !.at = @ + 1])
  <2> DEFINE s2 == [s EXCEPT !.at = @ + 1]
  <2>1. Shape(s2) /\ s2.pc = "descend" /\ s2.req = r /\ s2.held = s.held
    BY <1>1, <1>2 DEF Shape
  <2> HIDE DEF s2
  <2>2. r.op \in Ops(s2.pc)
    BY <1>2, <2>1 DEF Ops
  <2>3. Under(nodes, s2) /\ Placed(s2)
    BY <1>1, <1>4, <1>2, <2>1 DEF Sound, Under, Placed
  <2>4. Sound(nodes, used, s2)
    BY <1>1, <1>2, <2>1, <2>2, <2>3, GoOn
  <2> QED
    BY <1>4, <2>4, ReadKeeps DEF s2
<1>5. CASE r.op = "reorder" /\ Continue(w, [s EXCEPT !.pc = "write"])
  <2> DEFINE s2 == [s EXCEPT !.pc = "write"]
  <2>1. Shape(s2) /\ s2.pc = "write" /\ s2.req = r /\ s2.held = s.held
    BY <1>2 DEF Shape
  <2> HIDE DEF s2
  <2>2. r.op \in Ops(s2.pc)
    BY <1>2, <2>1 DEF Ops
  <2>3. Under(nodes, s2) /\ Placed(s2)
    BY <1>1, <1>5, <1>2, <2>1 DEF Sound, Under, Placed
  <2>4. Sound(nodes, used, s2)
    BY <1>1, <1>2, <2>1, <2>2, <2>3, GoOn
  <2> QED
    BY <1>5, <2>4, ReadKeeps DEF s2
<1>6. CASE Answer(w)
  BY <1>6, AnswerKeeps
<1> QED
  BY <1>2, <1>3, <1>4, <1>5, <1>6 DEF Descend

LEMMA ReadChildrenKeeps ==
  ASSUME IInv, NEW w \in Workers, ReadChildren(w)
  PROVE  IInv' /\ StepOf(w)
<1> DEFINE s == session[w]
           s2 == [s EXCEPT !.pc = "write"]
<1>1. s.pc = "children"
  BY DEF ReadChildren
<1>2. CASE Continue(w, s2)
  <2>1. Sound(nodes, used, s) /\ ~ Resting(s) /\ Shape(s) /\ s.req.op = "upsert"
    BY <1>1, AtStatement DEF Ops
  <2>2. Shape(s2) /\ s2.pc = "write" /\ s2.req = s.req /\ s2.held = s.held
    BY <2>1 DEF Shape
  <2> HIDE DEF s2
  <2>3. s.req.op \in Ops(s2.pc) /\ Under(nodes, s2) /\ Placed(s2)
    BY <2>1, <2>2 DEF Ops, Under, Placed
  <2>4. Sound(nodes, used, s2)
    BY <1>1, <2>1, <2>2, <2>3, GoOn
  <2> QED
    BY <1>2, <2>4, ReadKeeps
<1>3. CASE Answer(w)
  BY <1>3, AnswerKeeps
<1> QED
  BY <1>2, <1>3 DEF ReadChildren

LEMMA ReadTranslationKeeps ==
  ASSUME IInv, NEW w \in Workers, ReadTranslation(w)
  PROVE  IInv' /\ StepOf(w)
<1> DEFINE s == session[w]
           s2 == [s EXCEPT !.pc = "write", !.row = <<s.req.node, s.req.lang>>]
<1>1. s.pc = "translation"
  BY DEF ReadTranslation
<1>2. CASE Continue(w, s2)
  <2>1. Sound(nodes, used, s) /\ ~ Resting(s) /\ Shape(s) /\ s.req.op = "untranslate"
    BY <1>1, AtStatement DEF Ops
  <2>2. Shape(s2) /\ s2.pc = "write" /\ s2.req = s.req /\ s2.held = s.held
    BY <2>1 DEF Shape
  <2> HIDE DEF s2
  <2>3. s.req.op \in Ops(s2.pc) /\ Under(nodes, s2) /\ Placed(s2)
    BY <2>1, <2>2 DEF Ops, Under, Placed
  <2>4. Sound(nodes, used, s2)
    BY <1>1, <2>1, <2>2, <2>3, GoOn
  <2> QED
    BY <1>2, <2>4, ReadKeeps
<1>3. CASE Answer(w)
  BY <1>3, AnswerKeeps
<1> QED
  BY <1>2, <1>3 DEF ReadTranslation

LEMMA LoadNodesKeeps ==
  ASSUME IInv, NEW w \in Workers, LoadNodes(w)
  PROVE  IInv' /\ StepOf(w)
<1> DEFINE s == session[w]
           r == s.req
           s2 == [s EXCEPT !.pc = "siblings", !.held = [n \in Range(r.ids) |-> nodes[n]]]
<1>1. s.pc = "nodes"
  BY DEF LoadNodes
<1>2. CASE Range(r.ids) \subseteq Owned(nodes, r.user) /\ Continue(w, s2)
  <2>1. /\ Sound(nodes, used, s) /\ Shape(s) /\ r \in Request /\ Named(r) \subseteq used
        /\ r.op = "reorder"
    BY <1>1, AtStatement DEF Ops
  <2>2. /\ Shape(s2) /\ s2.pc = "siblings" /\ s2.req = r
        /\ s2.held = [n \in Range(r.ids) |-> nodes[n]]
    BY <2>1 DEF Shape
  <2> HIDE DEF s2
  <2>3. Phase(used, s2) /\ HoldsNode(s2) /\ Placed(s2)
    BY <2>1, <2>2 DEF Phase, Ops, HoldsNode, Placed
  <2>4. Held(nodes, used, s2)
    BY <1>2, <2>2 DEF Held, Owned, IInv, Tables
  <2>5. Under(nodes, s2)
    BY <1>1, <2>1, <2>2 DEF Sound, Under
  <2>6. Sound(nodes, used, s2)
    BY <2>2, <2>3, <2>4, <2>5 DEF Sound
  <2> QED
    BY <1>2, <2>6, ReadKeeps
<1>3. CASE Answer(w)
  BY <1>3, AnswerKeeps
<1> QED
  BY <1>2, <1>3 DEF LoadNodes

LEMMA ReadSiblingsKeeps ==
  ASSUME IInv, NEW w \in Workers, ReadSiblings(w)
  PROVE  IInv' /\ StepOf(w)
<1> DEFINE s == session[w]
           r == s.req
           s2 == [s EXCEPT !.pc = IF r.parent = None THEN "write" ELSE "descend"]
<1>1. s.pc = "siblings"
  BY DEF ReadSiblings
<1>2. CASE Continue(w, s2)
  <2>1. Sound(nodes, used, s) /\ ~ Resting(s) /\ Shape(s) /\ r.op = "reorder"
    BY <1>1, AtStatement DEF Ops
  <2>2. Shape(s2) /\ s2.pc \in {"write", "descend"} /\ s2.req = r /\ s2.held = s.held
    BY <2>1 DEF Shape
  <2> HIDE DEF s2
  <2>3. r.op \in Ops(s2.pc)
    BY <2>1, <2>2 DEF Ops
  <2>4. Under(nodes, s2) /\ Placed(s2)
    BY <1>1, <2>1, <2>2 DEF Sound, Under, Placed
  <2>5. Sound(nodes, used, s2)
    BY <1>1, <2>1, <2>2, <2>3, <2>4, GoOn
  <2> QED
    BY <1>2, <2>5, ReadKeeps
<1>3. CASE Answer(w)
  BY <1>3, AnswerKeeps
<1> QED
  BY <1>2, <1>3 DEF ReadSiblings
-----------------------------------------------------------------------------
(* Writes *)

LEMMA ForgetIsSound ==
  ASSUME NEW t, NEW us, NEW s, NEW x, Sound(t, us, s)
  PROVE  Sound(t, us, Forget(s, x))
<1> DEFINE f == Forget(s, x)
<1>1. Shape(f) /\ f.pc = s.pc /\ f.req = s.req /\ f.held = s.held /\ f.sort = s.sort
  BY DEF Sound, Shape, Forget
<1> HIDE DEF f
<1>2. Phase(us, f) /\ Held(t, us, f) /\ HoldsNode(f) /\ Under(t, f) /\ Placed(f)
  BY <1>1 DEF Sound, Phase, Resting, Held, HoldsNode, Under, Placed
<1> QED
  BY <1>1, <1>2 DEF Sound, f

\* A commit of an allowed table is a good step, and so is one that the
\* database refuses.
LEMMA CommitKeeps ==
  ASSUME IInv, NEW w \in Workers, NEW t, NEW x, NEW s \in {Idle, Reloading},
         Commit(w, t, x, s), Storable(t, x) => Allowed(w, t) /\ Answering(w, x)
  PROVE  IInv' /\ StepOf(w)
<1>1. CASE ~ Storable(t, x)
  BY <1>1, AnswerKeeps DEF Commit
<1>2. CASE Storable(t, x)
  <2>1. /\ nodes' = t /\ tr' = x /\ used' = used \cup DOMAIN t
        /\ session' = [v \in Workers |-> IF v = w THEN s ELSE Forget(session[v], x)]
    BY <1>2 DEF Commit
  <2>2. Tables'
    BY <1>2, <2>1 DEF IInv, Tables, Allowed, Storable
  <2>3. OwnerConsistent'
    BY <1>2, <2>1 DEF Allowed, OwnerConsistent, Tree!OwnerConsistent, Tree!SameOwner
  <2>4. \A v \in Workers : Sound(t, used \cup DOMAIN t, session'[v])
    <3> SUFFICES ASSUME NEW v \in Workers PROVE Sound(t, used \cup DOMAIN t, session'[v])
      OBVIOUS
    <3>1. CASE v = w
      BY <2>1, <3>1, RestIsSound
    <3>2. CASE v # w
      <4>1. Sound(nodes, used, Forget(session[v], x))
        BY ForgetIsSound DEF IInv
      <4>2. KeepsOwners(nodes, t, used)
        BY <1>2 DEF Allowed
      <4>3. Sound(t, used \cup DOMAIN t, Forget(session[v], x))
        BY <4>1, <4>2, SoundStays
      <4> QED
        BY <2>1, <3>2, <4>3
    <3> QED
      BY <3>1, <3>2
  <2>5. (\A v \in Workers : Sound(nodes, used, session[v]))'
    BY <2>1, <2>4
  <2>6. (session = [v \in Workers |-> session[v]])'
    BY <2>1
  <2>7. StepOf(w)
    BY <1>2, <2>1 DEF StepOf
  <2> QED
    BY <2>2, <2>3, <2>5, <2>6, <2>7 DEF IInv
<1> QED
  BY <1>1, <1>2

\* The table itself is always allowed: commits of translations.
LEMMA SameTableAllowed ==
  ASSUME IInv, NEW w \in Workers, NEW u \in Users
  PROVE  Allowed(w, nodes)
<1>1. \A n \in DOMAIN nodes : nodes[n].parent # None => nodes[nodes[n].parent].owner = nodes[n].owner
  BY DEF IInv, OwnerConsistent, Tree!OwnerConsistent, Tree!SameOwner
<1>2. KeepsOwners(nodes, nodes, used)
  BY DEF KeepsOwners
<1> QED
  BY <1>1, <1>2 DEF Allowed, IInv, Tables

LEMMA WriteCreateKeeps ==
  ASSUME IInv, NEW w \in Workers, WriteCreate(w)
  PROVE  IInv' /\ StepOf(w)
<1> DEFINE s == session[w]
           r == s.req
           row == [owner |-> r.user, parent |-> r.parent, title |-> r.title, sort |-> s.sort]
           x(n) == tr \cup {<<n, l>> : l \in {r.lang} \ {None}}
<1>1. CASE Answer(w)
  BY <1>1, AnswerKeeps
<1>2. ASSUME NEW n \in NodeIds \ used, Commit(w, Put(nodes, n, row), x(n), Reloading)
      PROVE  IInv' /\ StepOf(w)
  <2> DEFINE t == Put(nodes, n, row)
  <2> SUFFICES ASSUME Storable(t, x(n)) PROVE Allowed(w, t) /\ Answering(w, x(n))
    BY <1>2, CommitKeeps
  <2>1. /\ Sound(nodes, used, s) /\ r \in Request /\ Named(r) \subseteq used
        /\ s.pc = "write" /\ r.op = "create"
    BY <1>2, AtStatement DEF WriteCreate
  <2>2. /\ DOMAIN nodes \subseteq used /\ used \subseteq NodeIds /\ n \notin used
        /\ \A m \in DOMAIN nodes : DOMAIN nodes[m] = Columns
        /\ ReferencesHold(nodes, tr)
    BY <1>2 DEF IInv, Tables
  <2>3. /\ DOMAIN t = DOMAIN nodes \cup {n} /\ t[n] = row
        /\ \A m \in DOMAIN nodes : t[m] = nodes[m]
    BY <2>2 DEF Put
  <2>4. /\ DOMAIN row = Columns /\ row.owner = r.user /\ row.parent = r.parent
    BY DEF Columns
  <2>5. \A m \in DOMAIN t : t[m].parent \in DOMAIN t \cup {None}
    BY DEF Storable, ReferencesHold
  <2> HIDE DEF t, row
  <2>6. \A m \in DOMAIN t : DOMAIN t[m] = Columns
    BY <2>2, <2>3, <2>4
  <2>7. KeepsOwners(nodes, t, used)
    BY <2>2, <2>3 DEF KeepsOwners
  <2>8. ASSUME NEW m \in DOMAIN t, t[m].parent # None
        PROVE  t[t[m].parent].owner = t[m].owner
    <3>1. CASE m = n
      <4>1. t[m].parent = r.parent /\ t[m].owner = r.user
        BY <2>3, <2>4, <3>1
      <4>2. r.parent \in used
        BY <2>1, <2>8, <4>1, ParentIsNamed
      <4>3. r.parent \in DOMAIN nodes
        BY <2>2, <2>3, <2>5, <2>8, <4>1, <4>2
      <4>4. nodes[r.parent].owner = r.user
        BY <2>1, <2>8, <4>1, <4>3 DEF Sound, Under
      <4> QED
        BY <2>3, <4>1, <4>3, <4>4
    <3>2. CASE m # n
      <4>1. m \in DOMAIN nodes /\ t[m] = nodes[m]
        BY <2>3, <3>2
      <4>2. nodes[m].parent \in DOMAIN nodes
        BY <2>2, <2>8, <4>1 DEF ReferencesHold
      <4>3. nodes[nodes[m].parent].owner = nodes[m].owner
        BY <2>8, <4>1 DEF IInv, OwnerConsistent, Tree!OwnerConsistent, Tree!SameOwner
      <4> QED
        BY <2>3, <4>1, <4>2, <4>3
    <3> QED
      BY <3>1, <3>2
  <2>9. r.user \in Users
    BY <2>1, RequestTypes
  <2>10. \A m \in DOMAIN t \ DOMAIN nodes : t[m].owner = r.user
    BY <2>3, <2>4
  <2>11. \A m \in DOMAIN t \ DOMAIN nodes :
           t[m].parent \in used \cup {None} /\ t[m].parent = r.parent
    BY <2>1, <2>3, <2>4, ParentIsNamed
  <2>12. Answering(w, x(n))
    BY <2>2 DEF Answering
  <2> QED
    BY <2>1, <2>2, <2>3, <2>6, <2>7, <2>8, <2>9, <2>10, <2>11, <2>12 DEF Allowed
<1> QED
  BY <1>1, <1>2 DEF WriteCreate

\* An UPDATE of held rows that leaves their owner alone, and their title, parent
\* and position unless the request is about them.
LEMMA SaveKeeps ==
  ASSUME IInv, NEW w \in Workers, NEW new, NEW s2 \in {Idle, Reloading},
         session[w].pc = "write", session[w].req.op \in {"update", "move", "reorder"},
         Save(w, new, s2),
         \A n \in DOMAIN session[w].held :
           LET old == session[w].held[n] r == session[w].req IN
           /\ new[n].owner = old.owner
           /\ new[n].title # old.title => r.op = "update" /\ r.title = new[n].title
           /\ new[n].parent # old.parent =>
                r.op \in {"move", "reorder"} /\ r.parent = new[n].parent
           /\ new[n].sort # old.sort => PutsAt(w, n, new[n].sort)
  PROVE  IInv' /\ StepOf(w)
<1> DEFINE s == session[w]
           r == s.req
           held == s.held
           dirty == {n \in DOMAIN held : new[n] # held[n]}
           t == [n \in DOMAIN nodes |->
                   IF n \in dirty THEN ChangedColumns(nodes[n], held[n], new[n]) ELSE nodes[n]]
<1>1. CASE Answer(w)
  BY <1>1, AnswerKeeps
<1>2. CASE dirty \subseteq DOMAIN nodes /\ Commit(w, t, tr, s2)
  <2> SUFFICES ASSUME Storable(t, tr) PROVE Allowed(w, t)
    BY <1>2, CommitKeeps DEF Answering
  <2>1. Sound(nodes, used, s) /\ r \in Request /\ Named(r) \subseteq used
    BY AtStatement
  <2>2. /\ DOMAIN nodes \subseteq used /\ used \subseteq NodeIds
        /\ \A m \in DOMAIN nodes : DOMAIN nodes[m] = Columns
        /\ ReferencesHold(nodes, tr)
    BY DEF IInv, Tables
  <2>3. DOMAIN t = DOMAIN nodes /\ \A m \in DOMAIN nodes \ dirty : t[m] = nodes[m]
    OBVIOUS
  <2>4. ASSUME NEW n \in dirty
        PROVE  /\ n \in DOMAIN held /\ n \in DOMAIN nodes
               /\ DOMAIN t[n] = Columns
               /\ t[n].owner = nodes[n].owner
               /\ t[n].title = (IF new[n].title = held[n].title THEN nodes[n].title ELSE new[n].title)
               /\ t[n].parent = (IF new[n].parent = held[n].parent THEN nodes[n].parent
                                                                  ELSE new[n].parent)
               /\ t[n].sort = (IF new[n].sort = held[n].sort THEN nodes[n].sort ELSE new[n].sort)
    <3>1. n \in DOMAIN nodes /\ n \in DOMAIN held
      BY <1>2, <2>4
    <3>2. t[n] = ChangedColumns(nodes[n], held[n], new[n])
      BY <3>1, <2>4
    <3>3. DOMAIN nodes[n] = Columns
      BY <2>2, <3>1
    <3>4. new[n].owner = held[n].owner
      BY <3>1
    <3> QED
      BY <3>1, <3>2, <3>3, <3>4 DEF ChangedColumns, Columns
  <2>5. \A n \in dirty : nodes[n].owner = r.user
    BY <2>1, <2>4 DEF Sound, Held
  <2>6. \A m \in DOMAIN t : t[m].parent \in DOMAIN t \cup {None}
    BY DEF Storable, ReferencesHold
  <2>7. \A n \in dirty : t[n].title # nodes[n].title =>
          r.op = "update" /\ r.title = t[n].title
    BY <2>4
  <2>8. \A n \in dirty : t[n].parent # nodes[n].parent =>
          r.op \in {"move", "reorder"} /\ r.parent = t[n].parent /\ held[n].parent # t[n].parent
    BY <2>4
  <2>15. \A n \in dirty : t[n].sort # nodes[n].sort => PutsAt(w, n, t[n].sort)
    BY <2>4
  <2> HIDE DEF t, dirty
  <2>9. \A m \in DOMAIN nodes : DOMAIN t[m] = Columns /\ t[m].owner = nodes[m].owner
    BY <2>2, <2>3, <2>4
  <2>10. KeepsOwners(nodes, t, used)
    BY <2>3, <2>9 DEF KeepsOwners
  <2>11. ASSUME NEW m \in DOMAIN t, t[m].parent # None
         PROVE  t[t[m].parent].owner = t[m].owner
    <3>1. t[m].parent \in DOMAIN nodes
      BY <2>3, <2>6, <2>11
    <3>2. CASE t[m].parent = nodes[m].parent
      <4>1. nodes[nodes[m].parent].owner = nodes[m].owner
        BY <2>3, <2>11, <3>2 DEF IInv, OwnerConsistent, Tree!OwnerConsistent, Tree!SameOwner
      <4> QED
        BY <2>3, <2>9, <3>1, <3>2, <4>1
    <3>3. CASE t[m].parent # nodes[m].parent
      <4>1. m \in dirty
        BY <2>3, <3>3
      <4>2. r.op \in {"move", "reorder"} /\ r.parent = t[m].parent
        BY <2>8, <3>3, <4>1
      <4>3. nodes[r.parent].owner = r.user
        BY <2>1, <2>11, <3>1, <4>2 DEF Sound, Under
      <4> QED
        BY <2>3, <2>5, <2>9, <3>1, <4>1, <4>2, <4>3
    <3> QED
      BY <3>2, <3>3
  <2>12. r.user \in Users
    BY <2>1, RequestTypes
  <2>13. \A n \in DOMAIN nodes : nodes[n].owner # r.user => n \in DOMAIN t /\ t[n] = nodes[n]
    BY <2>3, <2>5
  <2>14. \A n \in DOMAIN nodes \cap DOMAIN t :
           /\ t[n].title # nodes[n].title => Writes(w, n, {"update"}) /\ r.title = t[n].title
           /\ t[n].parent # nodes[n].parent =>
                /\ Writes(w, n, {"move", "reorder"}) /\ r.parent = t[n].parent
                /\ held[n].parent # t[n].parent
           /\ t[n].sort # nodes[n].sort => PutsAt(w, n, t[n].sort)
    BY <2>3, <2>4, <2>7, <2>8, <2>15 DEF Writes
  <2> QED
    BY <2>2, <2>3, <2>9, <2>10, <2>11, <2>12, <2>13, <2>14 DEF Allowed
<1> QED
  BY <1>1, <1>2 DEF Save

LEMMA WriteUpdateKeeps ==
  ASSUME IInv, NEW w \in Workers, WriteUpdate(w)
  PROVE  IInv' /\ StepOf(w)
<1> DEFINE s == session[w]
           r == s.req
           new == [n \in {r.node} |->
                     [s.held[n] EXCEPT !.title = IF r.title = None THEN @ ELSE r.title,
                                       !.sort = IF r.sort = None THEN @ ELSE r.sort]]
<1>1. s.pc = "write" /\ r.op = "update" /\ Save(w, new, Reloading)
  BY DEF WriteUpdate
<1>2. Sound(nodes, used, s)
  BY <1>1, AtStatement
<1>3. DOMAIN s.held = {r.node} /\ DOMAIN s.held[r.node] = Columns
  BY <1>1, <1>2 DEF Sound, HoldsNode, Held
<1>4. /\ new[r.node].owner = s.held[r.node].owner
      /\ new[r.node].parent = s.held[r.node].parent
      /\ new[r.node].title = (IF r.title = None THEN s.held[r.node].title ELSE r.title)
      /\ new[r.node].sort = (IF r.sort = None THEN s.held[r.node].sort ELSE r.sort)
  BY <1>3 DEF Columns
<1> HIDE DEF new
<1>5. new[r.node].sort # s.held[r.node].sort => PutsAt(w, r.node, new[r.node].sort)
  BY <1>1, <1>3, <1>4 DEF PutsAt, Writes
<1> QED
  BY <1>1, <1>3, <1>4, <1>5, SaveKeeps

LEMMA WriteMoveKeeps ==
  ASSUME IInv, NEW w \in Workers, WriteMove(w)
  PROVE  IInv' /\ StepOf(w)
<1> DEFINE s == session[w]
           r == s.req
           new == [n \in {r.node} |-> [s.held[n] EXCEPT !.parent = r.parent, !.sort = s.sort]]
<1>1. s.pc = "write" /\ r.op = "move" /\ Save(w, new, Reloading)
  BY DEF WriteMove
<1>2. Sound(nodes, used, s)
  BY <1>1, AtStatement
<1>3. DOMAIN s.held = {r.node} /\ DOMAIN s.held[r.node] = Columns
  BY <1>1, <1>2 DEF Sound, HoldsNode, Held
<1>4. /\ new[r.node].owner = s.held[r.node].owner
      /\ new[r.node].parent = r.parent
      /\ new[r.node].title = s.held[r.node].title
      /\ new[r.node].sort = s.sort
  BY <1>3 DEF Columns
<1> HIDE DEF new
<1>5. PutsAt(w, r.node, new[r.node].sort)
  BY <1>1, <1>2, <1>3, <1>4 DEF Sound, Placed, PutsAt, Writes
<1> QED
  BY <1>1, <1>3, <1>4, <1>5, SaveKeeps

LEMMA WriteReorderKeeps ==
  ASSUME IInv, NEW w \in Workers, WriteReorder(w)
  PROVE  IInv' /\ StepOf(w)
<1> DEFINE s == session[w]
           r == s.req
           new == Tree!Reordered(s.held, r.parent, r.ids)
<1>1. s.pc = "write" /\ r.op = "reorder" /\ Save(w, new, Idle)
  BY DEF WriteReorder
<1>2. \A n \in DOMAIN s.held : DOMAIN s.held[n] = Columns
  BY <1>1, AtStatement DEF Sound, Held
<1>3. ASSUME NEW n \in DOMAIN s.held
      PROVE  /\ new[n].owner = s.held[n].owner
             /\ new[n].parent \in {s.held[n].parent, r.parent}
             /\ new[n].title = s.held[n].title
             /\ new[n].sort # s.held[n].sort =>
                  \E i \in DOMAIN r.ids : r.ids[i] = n /\ new[n].sort = i - 1
  <2>1. CASE n \in Range(r.ids)
    <3> DEFINE i == CHOOSE j \in DOMAIN r.ids : r.ids[j] = n
    <3>1. i \in DOMAIN r.ids /\ r.ids[i] = n
      BY <2>1 DEF Range
    <3>2. new[n] = [s.held[n] EXCEPT !.parent = r.parent, !.sort = i - 1]
      BY <2>1 DEF Tree!Reordered, Tree!Range, Range
    <3> HIDE DEF i, new
    <3> QED
      BY <1>2, <3>1, <3>2 DEF Columns
  <2>2. CASE n \notin Range(r.ids)
    BY <2>2 DEF Tree!Reordered, Tree!Range, Range
  <2> QED
    BY <2>1, <2>2
<1> HIDE DEF new
<1>4. \A n \in DOMAIN s.held : new[n].sort # s.held[n].sort => PutsAt(w, n, new[n].sort)
  BY <1>1, <1>3 DEF PutsAt, Writes
<1> QED
  BY <1>1, <1>3, <1>4, SaveKeeps

LEMMA TranslationKeeps ==
  ASSUME IInv, NEW w \in Workers, WriteTranslation(w) \/ DeleteTranslation(w)
  PROVE  IInv' /\ StepOf(w)
<1>1. PICK x : Commit(w, nodes, x, Reloading) /\ Answering(w, x)
  BY DEF WriteTranslation, DeleteTranslation, Answering
<1>2. session[w].req.user \in Users
  BY AtStatement, RequestTypes DEF WriteTranslation, DeleteTranslation
<1>3. Allowed(w, nodes)
  BY <1>2, SameTableAllowed
<1> QED
  BY <1>1, <1>3, CommitKeeps

\* What a cascade removes belongs to the owner of the deleted node.
LEMMA CascadeIsOwned ==
  ASSUME NEW t, NEW u, NEW n \in DOMAIN t, t[n].owner = u, Tree!SameOwner(t),
         \A m \in DOMAIN t : t[m].parent \in DOMAIN t => t[m].parent # None
  PROVE  \A m \in Deleted(t, n) : m \in DOMAIN t /\ t[m].owner = u
<1> DEFINE S == {m \in DOMAIN t : t[m].owner = u}
<1>1. n \in S /\ S \in SUBSET DOMAIN t
  OBVIOUS
<1>2. \A m \in DOMAIN t : t[m].parent \in S => m \in S
  BY DEF Tree!SameOwner
<1> QED
  BY <1>1, <1>2 DEF Deleted, Below

LEMMA DeleteNodeKeeps ==
  ASSUME IInv, NEW w \in Workers, DeleteNode(w)
  PROVE  IInv' /\ StepOf(w)
<1> DEFINE s == session[w]
           r == s.req
           gone == IF r.node \in DOMAIN nodes THEN Deleted(nodes, r.node) ELSE {}
           t == Without(nodes, gone)
           x == WithoutContent(tr, gone)
<1>1. s.pc = "write" /\ r.op = "delete" /\ Commit(w, t, x, Idle)
  BY DEF DeleteNode
<1>0. Answering(w, x)
  BY DEF Answering, WithoutContent
<1> SUFFICES ASSUME Storable(t, x) PROVE Allowed(w, t)
  BY <1>0, <1>1, CommitKeeps
<1>2. Sound(nodes, used, s) /\ r \in Request
  BY <1>1, AtStatement
<1>3. /\ DOMAIN nodes \subseteq NodeIds
      /\ \A m \in DOMAIN nodes : DOMAIN nodes[m] = Columns
      /\ Tree!SameOwner(nodes)
  BY DEF IInv, Tables, OwnerConsistent, Tree!OwnerConsistent
<1>4. r.node \in DOMAIN nodes => nodes[r.node].owner = r.user
  BY <1>1, <1>2 DEF Sound, HoldsNode, Held
<1>5. \A m \in gone : nodes[m].owner = r.user
  BY <1>3, <1>4, NodeRepoAssumption, CascadeIsOwned
<1>6. DOMAIN t = DOMAIN nodes \ gone /\ \A m \in DOMAIN t : t[m] = nodes[m]
  BY DEF Without
<1>7. \A m \in DOMAIN t : t[m].parent \in DOMAIN t \cup {None}
  BY DEF Storable, ReferencesHold
<1> HIDE DEF gone, t
<1>8. KeepsOwners(nodes, t, used)
  BY <1>6 DEF KeepsOwners
<1>9. \A m \in DOMAIN t : t[m].parent # None => t[t[m].parent].owner = t[m].owner
  BY <1>3, <1>6, <1>7 DEF Tree!SameOwner
<1>10. r.user \in Users
  BY <1>2, RequestTypes
<1>11. \A n \in DOMAIN nodes : nodes[n].owner # r.user => n \in DOMAIN t /\ t[n] = nodes[n]
  BY <1>5, <1>6
<1> QED
  BY <1>3, <1>6, <1>8, <1>9, <1>10, <1>11 DEF Allowed

-----------------------------------------------------------------------------
(* The theorems *)

LEMMA InitIsSound ==
  ASSUME Init
  PROVE  IInv
<1>1. PICK d \in Seed : nodes = d.nodes /\ tr = d.tr /\ used = DOMAIN d.nodes
  BY DEF Init
<1>2. /\ Tree!Table(nodes) /\ Tree!Storable(nodes, tr) /\ Tree!SameOwner(nodes)
  BY <1>1, WorkloadAssumption DEF Tree!GoodDatabase
<1>3. DOMAIN nodes \subseteq NodeIds /\ \A n \in DOMAIN nodes : DOMAIN nodes[n] = Columns
  BY <1>2 DEF Tree!Table, Tree!Row, Columns
<1>4. Tables /\ OwnerConsistent
  BY <1>1, <1>2, <1>3 DEF Tables, Tree!Storable, Tree!ReferencesHold, ReferencesHold,
                          OwnerConsistent, Tree!OwnerConsistent
<1>5. session = [w \in Workers |-> Idle]
  BY DEF Init
<1> QED
  BY <1>4, <1>5, RestIsSound DEF IInv

LEMMA StepKeeps ==
  ASSUME IInv, NEW w \in Workers, Start(w) \/ Statement(w) \/ Abort(w)
  PROVE  IInv' /\ StepOf(w)
<1>1. CASE Start(w)
  BY <1>1, StartKeeps
<1>2. CASE Statement(w)
  <2>1. CASE Load(w)
    BY <2>1, LoadKeeps
  <2>2. CASE ReadParent(w)
    BY <2>2, ReadParentKeeps
  <2>3. CASE ReadTitle(w)
    BY <2>3, ReadTitleKeeps
  <2>4. CASE ReadMaxSort(w)
    BY <2>4, ReadMaxSortKeeps
  <2>5. CASE Descend(w)
    BY <2>5, DescendKeeps
  <2>6. CASE ReadChildren(w)
    BY <2>6, ReadChildrenKeeps
  <2>7. CASE ReadTranslation(w)
    BY <2>7, ReadTranslationKeeps
  <2>8. CASE LoadNodes(w)
    BY <2>8, LoadNodesKeeps
  <2>9. CASE ReadSiblings(w)
    BY <2>9, ReadSiblingsKeeps
  <2>10. CASE WriteCreate(w)
    BY <2>10, WriteCreateKeeps
  <2>11. CASE WriteUpdate(w)
    BY <2>11, WriteUpdateKeeps
  <2>12. CASE WriteMove(w)
    BY <2>12, WriteMoveKeeps
  <2>13. CASE WriteReorder(w)
    BY <2>13, WriteReorderKeeps
  <2>14. CASE WriteTranslation(w) \/ DeleteTranslation(w)
    BY <2>14, TranslationKeeps
  <2>15. CASE DeleteNode(w)
    BY <2>15, DeleteNodeKeeps
  <2>16. CASE Reload(w)
    BY <2>16, AnswerKeeps DEF Reload
  <2> QED
    BY <1>2, <2>1, <2>2, <2>3, <2>4, <2>5, <2>6, <2>7, <2>8, <2>9, <2>10, <2>11, <2>12,
       <2>13, <2>14, <2>15, <2>16 DEF Statement
<1>3. CASE Abort(w)
  BY <1>3, AnswerKeeps DEF Abort
<1> QED
  BY <1>1, <1>2, <1>3

\* The two action properties, of any step.
LEMMA StepIsGood ==
  ASSUME IInv, NEW w \in Workers, StepOf(w)
  PROVE  Isolated /\ Requested
<1>1. CASE UNCHANGED <<nodes, tr, used>>
  BY <1>1 DEF Isolated, Requested
<1>2. CASE Allowed(w, nodes')
  BY <1>2 DEF Allowed, Isolated, Requested, Tree!ChangesOnly
<1> QED
  BY <1>1, <1>2 DEF StepOf

LEMMA NextKeeps ==
  ASSUME IInv, Next
  PROVE  IInv' /\ Isolated /\ Requested
<1>1. PICK w \in Workers : Start(w) \/ Statement(w) \/ Abort(w)
  BY DEF Next
<1> QED
  BY <1>1, StepKeeps, StepIsGood

LEMMA StutterKeeps ==
  ASSUME IInv, UNCHANGED vars
  PROVE  IInv' /\ UNCHANGED <<nodes, tr>>
<1>1. UNCHANGED <<nodes, tr, used, session>>
  BY DEF vars
<1> QED
  BY <1>1 DEF IInv, Tables, OwnerConsistent, Tree!OwnerConsistent

LEMMA Invariance == Spec => []IInv
<1>1. IInv /\ [Next]_vars => IInv'
  BY NextKeeps, StutterKeeps
<1> QED
  BY <1>1, InitIsSound, PTL DEF Spec

\* Whatever creates, moves, reorders and deletes run at the same time, a node
\* and its parent belong to one user, so the cascade of a delete and the
\* recursive query stay within the tree of the caller.
THEOREM ParentsAreOwned == Spec => []OwnerConsistent
<1>1. IInv => OwnerConsistent
  BY DEF IInv
<1> QED
  BY <1>1, Invariance, PTL

\* Whatever requests run at the same time, each commit changes the rows of one
\* user only.
THEOREM UsersAreIsolated == Spec => TenantIsolation
<1>1. IInv /\ [Next]_vars => [\E u \in Users : Tree!ChangesOnly(u)]_<<nodes, tr>>
  BY NextKeeps, StutterKeeps DEF Isolated
<1> QED
  BY <1>1, Invariance, PTL DEF Spec, TenantIsolation

\* Whatever requests run at the same time, none writes back the title, the parent
\* or the position that it read before another request changed it: each column of
\* a node changes only to what a request for it asks for.
THEOREM OnlyRequestedColumns == Spec => ColumnsAsRequested
<1>1. IInv /\ [Next]_vars => [Requested]_vars
  BY NextKeeps
<1>2. [Requested]_vars =>
        [\A n \in DOMAIN nodes \cap DOMAIN nodes' :
           /\ nodes'[n].title # nodes[n].title =>
                \E w \in Workers : /\ Writes(w, n, {"update"})
                                   /\ session[w].req.title = nodes'[n].title
           /\ nodes'[n].parent # nodes[n].parent =>
                \E w \in Workers : /\ Writes(w, n, {"move", "reorder"})
                                   /\ session[w].req.parent = nodes'[n].parent
           /\ nodes'[n].sort # nodes[n].sort =>
                \E w \in Workers : PutsAt(w, n, nodes'[n].sort)]_vars
  BY DEF Requested
<1> QED
  BY <1>1, <1>2, Invariance, PTL DEF Spec, ColumnsAsRequested

-----------------------------------------------------------------------------
(* What a statement that reads leaves in the session of its worker *)

\* A statement of w writes nothing and goes on to statement pc; of what the
\* session holds only the fields F may change.
Turn(w, pc, F) ==
  /\ UNCHANGED <<nodes, tr, used>>
  /\ session'[w].pc = pc
  /\ \A f \in {"req", "held", "langs", "sort", "at", "row"} \ F : session'[w][f] = session[w][f]

\* The request ends, and nothing is written.
Ends(w) == UNCHANGED <<nodes, tr, used>> /\ session'[w] = Idle

LEMMA Turns ==
  ASSUME IInv, NEW w \in Workers, NEW s, Continue(w, s), NEW F,
         \A f \in {"req", "held", "langs", "sort", "at", "row"} \ F : s[f] = session[w][f]
  PROVE  Turn(w, s.pc, F) /\ session'[w] = s
  BY ContinueShape DEF Turn

LEMMA AnswerEnds ==
  ASSUME IInv, NEW w \in Workers, Answer(w)
  PROVE  Ends(w)
  BY ContinueShape DEF Answer, Ends

LEMMA StartTurns ==
  ASSUME IInv, NEW w \in Workers, Start(w)
  PROVE  \E r \in Workload[w] :
           LET s == session'[w] IN
           /\ UNCHANGED <<nodes, tr, used>>
           /\ Named(r) \subseteq used
           /\ r.op = "reorder" => IsInjective(r.ids)
           /\ s.pc = First(r) /\ s.req = r /\ s.held = << >> /\ s.langs = {}
           /\ s.sort = None /\ s.at = 1 /\ s.row = None
<1>1. PICK r \in Workload[w] :
        /\ Named(r) \subseteq used
        /\ r.op = "reorder" => IsInjective(r.ids)
        /\ Continue(w, [Idle EXCEPT !.pc = First(r), !.req = r])
  BY DEF Start
<1> DEFINE s == [Idle EXCEPT !.pc = First(r), !.req = r]
<1>2. /\ s.pc = First(r) /\ s.req = r /\ s.held = << >> /\ s.langs = {}
      /\ s.sort = None /\ s.at = 1 /\ s.row = None
  BY DEF Idle
<1>3. Continue(w, s)
  BY <1>1
<1> HIDE DEF s
<1>4. s = session'[w] /\ UNCHANGED <<nodes, tr, used>>
  BY <1>3, ContinueShape
<1> QED
  BY <1>1, <1>2, <1>4

LEMMA LoadTurns ==
  ASSUME IInv, NEW w \in Workers, Load(w)
  PROVE  LET r == session[w].req s2 == session'[w] IN
         \/ Ends(w)
         \/ /\ Turn(w, AfterLoad(r), {"held", "langs"})
            /\ r.node \in Owned(nodes, r.user)
            /\ s2.held = [n \in {r.node} |-> nodes[n]] /\ s2.langs = Langs(tr, r.node)
<1> DEFINE s == session[w]
           r == s.req
           s2 == [s EXCEPT !.pc = AfterLoad(r), !.held = [n \in {r.node} |-> nodes[n]],
                           !.langs = Langs(tr, r.node)]
<1>1. CASE r.node \in Owned(nodes, r.user)
  <2>1. Shape(s) /\ Continue(w, s2)
    BY <1>1, AtStatement DEF Load
  <2>2. /\ s2.pc = AfterLoad(r) /\ s2.held = [n \in {r.node} |-> nodes[n]]
        /\ s2.langs = Langs(tr, r.node)
        /\ \A f \in {"req", "sort", "at", "row"} : s2[f] = s[f]
    BY <2>1 DEF Shape
  <2> HIDE DEF s2
  <2> QED
    BY <1>1, <2>1, <2>2, Turns
<1>2. CASE r.node \notin Owned(nodes, r.user)
  BY <1>2, AnswerEnds DEF Load
<1> QED
  BY <1>1, <1>2

LEMMA ReadParentTurns ==
  ASSUME IInv, NEW w \in Workers, ReadParent(w)
  PROVE  LET r == session[w].req IN
         \/ Ends(w)
         \/ /\ Turn(w, AfterParent(r), {"langs"})
            /\ r.parent \in Owned(nodes, r.user)
            /\ r.op # "reorder" => ~ HasContent(tr, r.parent)
            /\ session'[w].langs = Langs(tr, r.parent)
<1> DEFINE s == session[w]
           r == s.req
           good == /\ r.parent \in Owned(nodes, r.user)
                   /\ r.op # "reorder" => ~ HasContent(tr, r.parent)
           s2 == [s EXCEPT !.pc = AfterParent(r), !.langs = Langs(tr, r.parent)]
<1>1. CASE good
  <2>1. Shape(s) /\ Continue(w, s2)
    BY <1>1, AtStatement DEF ReadParent
  <2>2. /\ s2.pc = AfterParent(r) /\ s2.langs = Langs(tr, r.parent)
        /\ \A f \in {"req", "held", "sort", "at", "row"} : s2[f] = s[f]
    BY <2>1 DEF Shape
  <2> HIDE DEF s2
  <2> QED
    BY <1>1, <2>1, <2>2, Turns
<1>2. CASE ~ good
  BY <1>2, AnswerEnds DEF ReadParent
<1> QED
  BY <1>1, <1>2

LEMMA ReadTitleTurns ==
  ASSUME IInv, NEW w \in Workers, ReadTitle(w)
  PROVE  LET s == session[w] r == s.req IN
         \/ Ends(w)
         \/ /\ Turn(w, AfterTitle(r), {"sort"})
            /\ session'[w].sort = (IF r.op = "update" THEN None ELSE r.sort)
            /\ ~ TitleTaken(nodes, r.user, NewParent(s),
                            IF r.op = "move" THEN s.held[r.node].title ELSE r.title,
                            IF r.op = "create" THEN {} ELSE {r.node})
<1> DEFINE s == session[w]
           r == s.req
           taken == TitleTaken(nodes, r.user, NewParent(s),
                               IF r.op = "move" THEN s.held[r.node].title ELSE r.title,
                               IF r.op = "create" THEN {} ELSE {r.node})
           s2 == [s EXCEPT !.pc = AfterTitle(r), !.sort = IF r.op = "update" THEN None ELSE r.sort]
<1>1. CASE ~ taken
  <2>1. Shape(s) /\ Continue(w, s2)
    BY <1>1, AtStatement DEF ReadTitle
  <2>2. /\ s2.pc = AfterTitle(r) /\ s2.sort = (IF r.op = "update" THEN None ELSE r.sort)
        /\ \A f \in {"req", "held", "langs", "at", "row"} : s2[f] = s[f]
    BY <2>1 DEF Shape
  <2> HIDE DEF s2
  <2> QED
    BY <1>1, <2>1, <2>2, Turns
<1>2. CASE taken
  BY <1>2, AnswerEnds DEF ReadTitle
<1> QED
  BY <1>1, <1>2

LEMMA ReadMaxSortTurns ==
  ASSUME IInv, NEW w \in Workers, ReadMaxSort(w)
  PROVE  LET r == session[w].req IN
         /\ Turn(w, "write", {"sort"})
         /\ session'[w].sort = MaxSortOrder(nodes, r.user, r.parent) + 1
<1> DEFINE s == session[w]
           r == s.req
           s2 == [s EXCEPT !.pc = "write", !.sort = MaxSortOrder(nodes, r.user, r.parent) + 1]
<1>1. Shape(s) /\ Continue(w, s2)
  BY AtStatement DEF ReadMaxSort
<1>2. /\ s2.pc = "write" /\ s2.sort = MaxSortOrder(nodes, r.user, r.parent) + 1
      /\ \A f \in {"req", "held", "langs", "at", "row"} : s2[f] = s[f]
  BY <1>1 DEF Shape
<1> HIDE DEF s2
<1> QED
  BY <1>1, <1>2, Turns

LEMMA DescendTurns ==
  ASSUME IInv, NEW w \in Workers, Descend(w)
  PROVE  LET s == session[w] r == s.req IN
         \/ Ends(w)
         \/ /\ r.op = "move"
            /\ ~ IsSelfOrDescendant(nodes, r.user, r.node, r.parent)
            /\ Turn(w, "parent", {})
         \/ /\ r.op = "reorder"
            /\ ~ IsSelfOrDescendant(nodes, r.user, r.ids[s.at], r.parent)
            /\ \/ /\ s.at < Len(r.ids)
                  /\ Turn(w, "descend", {"at"})
                  /\ session'[w].at = s.at + 1
               \/ ~ s.at < Len(r.ids) /\ Turn(w, "write", {})
<1> DEFINE s == session[w]
           r == s.req
           n == IF r.op = "move" THEN r.node ELSE r.ids[s.at]
           below == IsSelfOrDescendant(nodes, r.user, n, r.parent)
           goto(pc) == [s EXCEPT !.pc = pc]
           next == [s EXCEPT !.at = @ + 1]
<1>1. Shape(s) /\ s.pc = "descend" /\ r.op \in {"move", "reorder"}
  BY AtStatement DEF Descend, Ops
<1>2. ASSUME NEW pc
      PROVE  /\ goto(pc).pc = pc
             /\ \A f \in {"req", "held", "langs", "sort", "at", "row"} : goto(pc)[f] = s[f]
  BY <1>1 DEF Shape
<1>3. /\ next.pc = "descend" /\ next.at = s.at + 1
      /\ \A f \in {"req", "held", "langs", "sort", "row"} : next[f] = s[f]
  BY <1>1 DEF Shape
<1>4. CASE below
  BY <1>1, <1>4, AnswerEnds DEF Descend
<1>5. CASE ~ below /\ r.op = "move"
  <2>1. Continue(w, goto("parent"))
    BY <1>5 DEF Descend
  <2>2. ~ IsSelfOrDescendant(nodes, r.user, r.node, r.parent)
    BY <1>5
  <2> HIDE DEF goto
  <2>3. Turn(w, "parent", {})
    BY <1>2, <2>1, Turns
  <2> QED
    BY <1>5, <2>2, <2>3
<1>6. CASE ~ below /\ r.op = "reorder"
  <2>1. \/ s.at < Len(r.ids) /\ Continue(w, next)
        \/ ~ s.at < Len(r.ids) /\ Continue(w, goto("write"))
    BY <1>6 DEF Descend
  <2>2. ~ IsSelfOrDescendant(nodes, r.user, r.ids[s.at], r.parent)
    BY <1>6
  <2> HIDE DEF next, goto
  <2>3. Continue(w, next) => Turn(w, "descend", {"at"}) /\ session'[w].at = s.at + 1
    BY <1>3, Turns
  <2>4. Continue(w, goto("write")) => Turn(w, "write", {})
    BY <1>2, Turns
  <2> QED
    BY <1>6, <2>1, <2>2, <2>3, <2>4
<1> QED
  BY <1>1, <1>4, <1>5, <1>6

LEMMA ReadChildrenTurns ==
  ASSUME IInv, NEW w \in Workers, ReadChildren(w)
  PROVE  LET r == session[w].req IN
         \/ Ends(w)
         \/ Turn(w, "write", {}) /\ ~ HasChildren(nodes, r.user, r.node)
<1> DEFINE s == session[w]
           s2 == [s EXCEPT !.pc = "write"]
<1>1. Shape(s)
  BY AtStatement DEF ReadChildren
<1>2. s2.pc = "write" /\ \A f \in {"req", "held", "langs", "sort", "at", "row"} : s2[f] = s[f]
  BY <1>1 DEF Shape
<1>3. CASE HasChildren(nodes, s.req.user, s.req.node)
  BY <1>3, AnswerEnds DEF ReadChildren
<1>4. CASE ~ HasChildren(nodes, s.req.user, s.req.node)
  <2>1. Continue(w, s2)
    BY <1>4 DEF ReadChildren
  <2> HIDE DEF s2
  <2> QED
    BY <1>2, <1>4, <2>1, Turns
<1> QED
  BY <1>3, <1>4

LEMMA ReadTranslationTurns ==
  ASSUME IInv, NEW w \in Workers, ReadTranslation(w)
  PROVE  LET s == session[w] r == s.req IN
         \/ Ends(w)
         \/ /\ Turn(w, "write", {"row"})
            /\ <<r.node, r.lang>> \in tr /\ Cardinality(s.langs) > 1
            /\ session'[w].row = <<r.node, r.lang>>
<1> DEFINE s == session[w]
           r == s.req
           s2 == [s EXCEPT !.pc = "write", !.row = <<r.node, r.lang>>]
<1>1. Shape(s)
  BY AtStatement DEF ReadTranslation
<1>2. /\ s2.pc = "write" /\ s2.row = <<r.node, r.lang>>
      /\ \A f \in {"req", "held", "langs", "sort", "at"} : s2[f] = s[f]
  BY <1>1 DEF Shape
<1> HIDE DEF s2
<1>3. CASE Continue(w, s2) /\ <<r.node, r.lang>> \in tr /\ Cardinality(s.langs) > 1
  BY <1>2, <1>3, Turns
<1>4. CASE Answer(w)
  BY <1>4, AnswerEnds
<1> QED
  BY <1>3, <1>4 DEF ReadTranslation, s2

LEMMA LoadNodesTurns ==
  ASSUME IInv, NEW w \in Workers, LoadNodes(w)
  PROVE  LET r == session[w].req IN
         \/ Ends(w)
         \/ /\ Turn(w, "siblings", {"held"})
            /\ Range(r.ids) \subseteq Owned(nodes, r.user)
            /\ \A i, j \in DOMAIN r.ids : i # j => nodes[r.ids[i]].title # nodes[r.ids[j]].title
            /\ session'[w].held = [n \in Range(r.ids) |-> nodes[n]]
<1> DEFINE s == session[w]
           r == s.req
           good == /\ Range(r.ids) \subseteq Owned(nodes, r.user)
                   /\ \A i, j \in DOMAIN r.ids :
                        i # j => nodes[r.ids[i]].title # nodes[r.ids[j]].title
           s2 == [s EXCEPT !.pc = "siblings", !.held = [n \in Range(r.ids) |-> nodes[n]]]
<1>1. CASE good
  <2>1. Shape(s) /\ Continue(w, s2)
    BY <1>1, AtStatement DEF LoadNodes
  <2>2. /\ s2.pc = "siblings" /\ s2.held = [n \in Range(r.ids) |-> nodes[n]]
        /\ \A f \in {"req", "langs", "sort", "at", "row"} : s2[f] = s[f]
    BY <2>1 DEF Shape
  <2> HIDE DEF s2
  <2> QED
    BY <1>1, <2>1, <2>2, Turns
<1>2. CASE ~ good
  BY <1>2, AnswerEnds DEF LoadNodes
<1> QED
  BY <1>1, <1>2

LEMMA ReadSiblingsTurns ==
  ASSUME IInv, NEW w \in Workers, ReadSiblings(w)
  PROVE  LET s == session[w] r == s.req IN
         \/ Ends(w)
         \/ /\ Turn(w, IF r.parent = None THEN "write" ELSE "descend", {})
            /\ \A n \in DOMAIN s.held :
                 ~ TitleTaken(nodes, r.user, r.parent, s.held[n].title, DOMAIN s.held)
            /\ s.langs # {} => \A n \in DOMAIN s.held : s.held[n].parent = r.parent
<1> DEFINE s == session[w]
           r == s.req
           good == /\ \A n \in DOMAIN s.held :
                        ~ TitleTaken(nodes, r.user, r.parent, s.held[n].title, DOMAIN s.held)
                   /\ s.langs # {} => \A n \in DOMAIN s.held : s.held[n].parent = r.parent
           s2 == [s EXCEPT !.pc = IF r.parent = None THEN "write" ELSE "descend"]
<1>1. CASE good
  <2>1. Shape(s) /\ Continue(w, s2)
    BY <1>1, AtStatement DEF ReadSiblings
  <2>2. /\ s2.pc = (IF r.parent = None THEN "write" ELSE "descend")
        /\ \A f \in {"req", "held", "langs", "sort", "at", "row"} : s2[f] = s[f]
    BY <2>1 DEF Shape
  <2> HIDE DEF s2
  <2> QED
    BY <1>1, <2>1, <2>2, Turns
<1>2. CASE ~ good
  BY <1>2, AnswerEnds DEF ReadSiblings
<1> QED
  BY <1>1, <1>2
-----------------------------------------------------------------------------
(* Types *)

\* The greatest element of a set of integers between -1 and m.
LEMMA MaxOfBounded ==
  ASSUME NEW m \in Nat, NEW S, S \subseteq -1 .. m, S # {}
  PROVE  Max(S) \in S /\ \A y \in S : y <= Max(S)
<1>1. \A y \in S : y \in Int /\ m - y \in Nat
  OBVIOUS
<1> DEFINE gaps == {m - y : y \in S}
           less == OpToRel(<, Nat)
<1>2. IsWellFoundedOn(less, Nat)
  BY NatLessThanWellFounded
<1>3. less = {ss \in Nat \X Nat : ss[1] < ss[2]}
  BY DEF OpToRel
<1> HIDE DEF less
<1>4. gaps \subseteq Nat /\ gaps # {}
  BY <1>1
<1>5. PICK g \in gaps : \A h \in gaps : ~ (<<h, g>> \in less)
  BY <1>2, <1>4, WFMin
<1>6. PICK x \in S : g = m - x
  OBVIOUS
<1>7. \A y \in S : ~ (m - y < m - x)
  BY <1>3, <1>4, <1>5, <1>6
<1>8. ASSUME NEW y \in S PROVE x >= y
  <2>1. x \in Int /\ y \in Int /\ ~ (m - y < m - x)
    BY <1>1, <1>7
  <2> HIDE DEF gaps
  <2> QED
    BY <2>1
<1> QED
  BY <1>1, <1>8 DEF Max

\* A table is a function on a set of ids whose values are rows.
LEMMA TableShape ==
  ASSUME NEW t
  PROVE  Tree!Table(t) <=> /\ t = [n \in DOMAIN t |-> t[n]]
                           /\ DOMAIN t \subseteq NodeIds
                           /\ \A n \in DOMAIN t : t[n] \in Row
  BY DEF Tree!Table, Tree!Row, Tree!Sorts, Row, Sorts

LEMMA NothingIsTable == Tree!Table(<< >>)
<1>1. DOMAIN << >> = {} /\ << >> = [n \in {} |-> n]
  OBVIOUS
<1> QED
  BY <1>1, TableShape

LEMMA RequestKinds ==
  ASSUME NEW r \in Request
  PROVE  /\ r.op \in {"create", "update", "move", "reorder", "upsert", "untranslate", "delete"}
         /\ r.op \in {"create", "move", "reorder"} => r.parent \in NodeIds \cup {None}
         /\ r.op \in {"create", "move"} => r.sort \in Sorts \cup {None}
         /\ r.op = "create" => r.title \in Titles /\ r.lang \in Languages \cup {None}
         /\ r.op = "update" => /\ r.title \in Titles \cup {None}
                               /\ r.sort \in Sorts \cup {None}
         /\ r.op \in {"upsert", "untranslate"} => r.lang \in Languages
         /\ r.op \in {"update", "move", "upsert", "untranslate", "delete"} => r.node \in NodeIds
         /\ r.op = "reorder" => r.ids \in Seq(NodeIds) /\ Len(r.ids) \in Nat \ {0}
<1>1. r.op \in {"create", "update", "move", "reorder", "upsert", "untranslate", "delete"}
  BY DEF Request, CreateRequest, UpdateRequest, TranslationRequest, MoveRequest,
         ReorderRequest, DeleteRequest
<1>2. r.op = "reorder" => r.ids \in Seq(NodeIds) \ {<< >>} /\ r.parent \in NodeIds \cup {None}
  BY RequestTypes, NodeRepoAssumption DEF ReorderRequest
<1>3. r.op = "reorder" => Len(r.ids) \in Nat \ {0}
  BY <1>2
<1>4. /\ r.op = "create" => /\ r.title \in Titles /\ r.lang \in Languages \cup {None}
                            /\ r.sort \in Sorts \cup {None} /\ r.parent \in NodeIds \cup {None}
      /\ r.op = "update" => /\ r.title \in Titles \cup {None} /\ r.sort \in Sorts \cup {None}
                            /\ r.node \in NodeIds
      /\ r.op \in {"upsert", "untranslate"} => r.lang \in Languages /\ r.node \in NodeIds
      /\ r.op = "move" => /\ r.node \in NodeIds /\ r.sort \in Sorts \cup {None}
                          /\ r.parent \in NodeIds \cup {None}
      /\ r.op = "delete" => r.node \in NodeIds
  BY RequestTypes DEF CreateRequest, UpdateRequest, TranslationRequest, MoveRequest, DeleteRequest
<1> QED
  BY <1>1, <1>2, <1>3, <1>4

Serving == {"load", "parent", "title", "max", "descend", "children", "translation", "nodes",
            "siblings", "write"}

LEMMA RestIsSession == IsSession(Idle) /\ IsSession(Reloading)
<1>1. /\ Idle.pc = "idle" /\ Idle.req = None /\ Idle.held = << >> /\ Idle.langs = {}
      /\ Idle.sort = None /\ Idle.at = 1 /\ Idle.row = None
      /\ Reloading.pc = "reload" /\ Reloading.req = None /\ Reloading.held = << >>
      /\ Reloading.langs = {} /\ Reloading.sort = None /\ Reloading.at = 1
      /\ Reloading.row = None
  BY DEF Idle, Reloading
<1> QED
  BY <1>1, NothingIsTable DEF IsSession

\* A statement leaves a typed session when what it assigned is typed.
LEMMA TurnIsSession ==
  ASSUME IInv, TypeOK, NEW w \in Workers, NEW pc \in Serving, session[w].pc \in Serving, NEW F,
         Turn(w, pc, F), "req" \notin F,
         LET s == session'[w] IN
         /\ "held" \in F => Tree!Table(s.held)
         /\ "langs" \in F => s.langs \subseteq Languages
         /\ "sort" \in F => s.sort \in 0 .. MaxSort + 1 \cup {None}
         /\ "at" \in F => s.at \in 1 .. IF s.req.op = "reorder" THEN Len(s.req.ids) ELSE 1
         /\ "row" \in F => s.row \in (NodeIds \X Languages) \cup {None}
  PROVE  IsSession(session'[w])
<1> DEFINE s == session[w]
           s2 == session'[w]
<1>1. IsSession(s) /\ s.req \in Request
  BY AtStatement DEF TypeOK, Serving
<1>2. s2.pc = pc /\ s2.req = s.req
  BY DEF Turn
<1>3. Tree!Table(s2.held)
  BY <1>1 DEF Turn, IsSession
<1>4. s2.langs \subseteq Languages
  BY <1>1 DEF Turn, IsSession
<1>5. s2.sort \in 0 .. MaxSort + 1 \cup {None}
  BY <1>1 DEF Turn, IsSession
<1>6. s2.at \in 1 .. IF s2.req.op = "reorder" THEN Len(s2.req.ids) ELSE 1
  BY <1>1, <1>2 DEF Turn, IsSession, Serving
<1>7. s2.row \in (NodeIds \X Languages) \cup {None}
  BY <1>1 DEF Turn, IsSession
<1> QED
  BY <1>1, <1>2, <1>3, <1>4, <1>5, <1>6, <1>7 DEF IsSession, Serving

LEMMA ForgetIsSession ==
  ASSUME NEW s, NEW x, Shape(s), IsSession(s)
  PROVE  IsSession(Forget(s, x))
<1> DEFINE f == Forget(s, x)
<1>1. /\ f.pc = s.pc /\ f.req = s.req /\ f.held = s.held /\ f.langs = s.langs
      /\ f.sort = s.sort /\ f.at = s.at /\ f.row \in {s.row, None}
  BY DEF Shape, Forget
<1> HIDE DEF f
<1>2. IsSession(f)
  BY <1>1 DEF IsSession
<1> QED
  BY <1>2 DEF f

\* A step keeps the types when it leaves typed tables and a typed session.
LEMMA StepTyped ==
  ASSUME IInv, TypeOK, NEW w \in Workers, StepOf(w), IsSession(session'[w]),
         Tree!TypeOK' \/ UNCHANGED <<nodes, tr>>
  PROVE  TypeOK'
<1>1. ASSUME NEW v \in Workers PROVE IsSession(session'[v])
  <2>1. Shape(session[v]) /\ IsSession(session[v])
    BY DEF IInv, Sound, TypeOK
  <2> QED
    BY <2>1, ForgetIsSession DEF StepOf
<1>2. (\A v \in Workers : IsSession(session[v]))'
  BY <1>1
<1>3. (DOMAIN nodes \subseteq used)'
  BY DEF StepOf
<1>4. Tree!TypeOK'
  BY DEF TypeOK, Tree!TypeOK
<1> QED
  BY <1>2, <1>3, <1>4 DEF TypeOK

LEMMA EndTyped ==
  ASSUME IInv, TypeOK, NEW w \in Workers, StepOf(w), Ends(w)
  PROVE  TypeOK'
  BY RestIsSession, StepTyped DEF Ends

\* A statement that reads keeps the types when what it assigned is typed.
LEMMA TurnTyped ==
  ASSUME IInv, TypeOK, NEW w \in Workers, StepOf(w), NEW pc \in Serving,
         session[w].pc \in Serving, NEW F, Turn(w, pc, F), "req" \notin F,
         LET s == session'[w] IN
         /\ "held" \in F => Tree!Table(s.held)
         /\ "langs" \in F => s.langs \subseteq Languages
         /\ "sort" \in F => s.sort \in 0 .. MaxSort + 1 \cup {None}
         /\ "at" \in F => s.at \in 1 .. IF s.req.op = "reorder" THEN Len(s.req.ids) ELSE 1
         /\ "row" \in F => s.row \in (NodeIds \X Languages) \cup {None}
  PROVE  TypeOK'
<1>1. IsSession(session'[w])
  BY TurnIsSession
<1>2. UNCHANGED <<nodes, tr>>
  BY DEF Turn
<1> QED
  BY <1>1, <1>2, StepTyped

\* A commit of typed tables, or one that the database refuses, keeps the types.
LEMMA CommitTyped ==
  ASSUME IInv, TypeOK, NEW w \in Workers, StepOf(w), NEW t, NEW x, NEW s \in {Idle, Reloading},
         Commit(w, t, x, s),
         Storable(t, x) => Tree!Table(t) /\ x \subseteq NodeIds \X Languages
  PROVE  TypeOK'
<1>1. CASE ~ Storable(t, x)
  BY <1>1, AnswerEnds, EndTyped DEF Commit
<1>2. CASE Storable(t, x)
  <2>1. /\ nodes' = t /\ tr' = x
        /\ session' = [v \in Workers |-> IF v = w THEN s ELSE Forget(session[v], x)]
    BY <1>2 DEF Commit
  <2>2. Tree!Storable(t, x)
    BY <1>2 DEF Storable, TitlesUnique, ReferencesHold, SortsFit, Sorts,
                Tree!Storable, Tree!TitlesUnique, Tree!ReferencesHold, Tree!SortsFit, Tree!Sorts
  <2>3. Tree!TypeOK'
    BY <1>2, <2>1, <2>2 DEF Tree!TypeOK
  <2>4. session'[w] = s
    BY <2>1
  <2> QED
    BY <2>3, <2>4, RestIsSession, StepTyped
<1> QED
  BY <1>1, <1>2

LEMMA StoredRows ==
  ASSUME TypeOK
  PROVE  /\ DOMAIN nodes \subseteq NodeIds /\ \A n \in DOMAIN nodes : nodes[n] \in Row
         /\ tr \subseteq NodeIds \X Languages
  BY TableShape DEF TypeOK, Tree!TypeOK

LEMMA ReadMaxSortTyped ==
  ASSUME IInv, TypeOK, NEW w \in Workers, StepOf(w), ReadMaxSort(w)
  PROVE  TypeOK'
<1> DEFINE r == session[w].req
           S == {nodes[n].sort : n \in Children(nodes, r.user, r.parent)} \cup {-1}
<1>1. MaxSort \in Nat /\ \A n \in DOMAIN nodes : nodes[n].sort \in 0 .. MaxSort
  BY NodeRepoAssumption, StoredRows DEF Row, Sorts
<1>2. S \subseteq -1 .. MaxSort /\ S # {}
  BY <1>1 DEF Children, Owned
<1>3. Max(S) \in -1 .. MaxSort
  BY <1>1, <1>2, MaxOfBounded
<1>4. MaxSortOrder(nodes, r.user, r.parent) \in -1 .. MaxSort
  BY <1>3 DEF MaxSortOrder
<1>5. Turn(w, "write", {"sort"}) /\ session'[w].sort \in 0 .. MaxSort + 1
  BY <1>1, <1>4, ReadMaxSortTurns
<1> QED
  BY <1>5, TurnTyped DEF ReadMaxSort, Serving

LEMMA ReadTyped ==
  ASSUME IInv, TypeOK, NEW w \in Workers, StepOf(w),
         \/ Load(w) \/ ReadParent(w) \/ ReadTitle(w) \/ Descend(w) \/ ReadChildren(w)
         \/ ReadTranslation(w) \/ LoadNodes(w) \/ ReadSiblings(w)
  PROVE  TypeOK'
<1> DEFINE s == session[w]
           r == s.req
           s2 == session'[w]
<1>1. s.pc \in Serving /\ IsSession(s)
  BY DEF Load, ReadParent, ReadTitle, Descend, ReadChildren, ReadTranslation, LoadNodes,
         ReadSiblings, Serving, TypeOK
<1>2. r \in Request /\ r.op \in Ops(s.pc)
  BY <1>1, AtStatement DEF Serving
<1>3. CASE Ends(w)
  BY <1>3, EndTyped
<1>4. \A n : Langs(tr, n) \subseteq Languages
  BY DEF Langs
<1>5. CASE Load(w) /\ ~ Ends(w)
  <2>1. /\ Turn(w, AfterLoad(r), {"held", "langs"})
        /\ r.node \in Owned(nodes, r.user)
        /\ s2.held = [n \in {r.node} |-> nodes[n]] /\ s2.langs = Langs(tr, r.node)
    BY <1>5, LoadTurns
  <2>2. DOMAIN s2.held = {r.node} /\ s2.held[r.node] = nodes[r.node]
    BY <2>1
  <2>3. r.node \in NodeIds /\ nodes[r.node] \in Row
    BY <2>1, StoredRows DEF Owned
  <2>4. Tree!Table(s2.held)
    BY <2>1, <2>2, <2>3, TableShape
  <2>5. AfterLoad(r) \in Serving
    BY <1>2, <1>5 DEF Load, Ops, AfterLoad, Serving
  <2> QED
    BY <1>1, <1>4, <2>1, <2>4, <2>5, TurnTyped
<1>6. CASE ReadParent(w) /\ ~ Ends(w)
  <2>1. Turn(w, AfterParent(r), {"langs"}) /\ s2.langs = Langs(tr, r.parent)
    BY <1>6, ReadParentTurns
  <2>2. AfterParent(r) \in Serving
    BY DEF AfterParent, Serving
  <2> QED
    BY <1>1, <1>4, <2>1, <2>2, TurnTyped
<1>7. CASE ReadTitle(w) /\ ~ Ends(w)
  <2>1. /\ Turn(w, AfterTitle(r), {"sort"})
        /\ s2.sort = (IF r.op = "update" THEN None ELSE r.sort)
    BY <1>7, ReadTitleTurns
  <2>2. AfterTitle(r) \in Serving
    BY DEF AfterTitle, Serving
  <2>3. MaxSort \in Nat /\ s2.sort \in 0 .. MaxSort \cup {None}
    BY <1>2, <1>7, <2>1, RequestKinds, NodeRepoAssumption DEF ReadTitle, Ops, Sorts
  <2>4. s2.sort \in 0 .. MaxSort + 1 \cup {None}
    BY <2>3
  <2> QED
    BY <1>1, <2>1, <2>2, <2>4, TurnTyped
<1>8. CASE Descend(w) /\ ~ Ends(w)
  <2>1. CASE Turn(w, "parent", {}) \/ Turn(w, "write", {})
    BY <1>1, <2>1, TurnTyped DEF Serving
  <2>2. CASE r.op = "reorder" /\ s.at < Len(r.ids) /\ Turn(w, "descend", {"at"}) /\ s2.at = s.at + 1
    <3>1. s.at \in 1 .. Len(r.ids) /\ Len(r.ids) \in Nat
      BY <1>1, <1>2, <2>2, RequestKinds DEF IsSession, Serving
    <3>2. s2.at \in 1 .. Len(r.ids)
      BY <2>2, <3>1
    <3>3. s2.req = r
      BY <2>2 DEF Turn
    <3> QED
      BY <1>1, <2>2, <3>2, <3>3, TurnTyped DEF Serving
  <2> QED
    BY <1>8, <2>1, <2>2, DescendTurns
<1>9. CASE ReadChildren(w) /\ ~ Ends(w)
  BY <1>1, <1>9, ReadChildrenTurns, TurnTyped DEF Serving
<1>10. CASE ReadTranslation(w) /\ ~ Ends(w)
  <2>1. /\ Turn(w, "write", {"row"})
        /\ <<r.node, r.lang>> \in tr /\ s2.row = <<r.node, r.lang>>
    BY <1>10, ReadTranslationTurns
  <2>2. s2.row \in (NodeIds \X Languages) \cup {None}
    BY <2>1, StoredRows
  <2> QED
    BY <1>1, <2>1, <2>2, TurnTyped DEF Serving
<1>11. CASE LoadNodes(w) /\ ~ Ends(w)
  <2>1. /\ Turn(w, "siblings", {"held"})
        /\ Range(r.ids) \subseteq Owned(nodes, r.user)
        /\ s2.held = [n \in Range(r.ids) |-> nodes[n]]
    BY <1>11, LoadNodesTurns
  <2>2. DOMAIN s2.held = Range(r.ids) /\ \A n \in Range(r.ids) : s2.held[n] = nodes[n]
    BY <2>1
  <2>3. \A n \in Range(r.ids) : n \in NodeIds /\ nodes[n] \in Row
    BY <2>1, StoredRows DEF Owned
  <2>4. Tree!Table(s2.held)
    BY <2>1, <2>2, <2>3, TableShape
  <2> QED
    BY <1>1, <2>1, <2>4, TurnTyped DEF Serving
<1>12. CASE ReadSiblings(w) /\ ~ Ends(w)
  BY <1>1, <1>12, ReadSiblingsTurns, TurnTyped DEF Serving
<1> QED
  BY <1>3, <1>5, <1>6, <1>7, <1>8, <1>9, <1>10, <1>11, <1>12

\* A function with the columns of a row and their types is a row.
LEMMA RowShape ==
  ASSUME NEW g, g = [f \in Columns |-> g[f]], g.owner \in Users,
         g.parent \in NodeIds \cup {None}, g.title \in Titles, g.sort \in Sorts
  PROVE  g \in Row
  BY DEF Columns, Row

LEMMA RowColumns ==
  ASSUME NEW g \in Row
  PROVE  /\ g = [f \in Columns |-> g[f]] /\ g.owner \in Users
         /\ g.parent \in NodeIds \cup {None} /\ g.title \in Titles /\ g.sort \in Sorts
  BY DEF Columns, Row

LEMMA WriteCreateTyped ==
  ASSUME IInv, TypeOK, NEW w \in Workers, StepOf(w), WriteCreate(w)
  PROVE  TypeOK'
<1> DEFINE s == session[w]
           r == s.req
           row == [owner |-> r.user, parent |-> r.parent, title |-> r.title, sort |-> s.sort]
           x(n) == tr \cup {<<n, l>> : l \in {r.lang} \ {None}}
<1>1. CASE Answer(w)
  BY <1>1, AnswerEnds, EndTyped
<1>2. ASSUME NEW n \in NodeIds \ used, Commit(w, Put(nodes, n, row), x(n), Reloading)
      PROVE  TypeOK'
  <2> DEFINE t == Put(nodes, n, row)
  <2> SUFFICES ASSUME Storable(t, x(n))
               PROVE  Tree!Table(t) /\ x(n) \subseteq NodeIds \X Languages
    BY <1>2, CommitTyped
  <2>1. r \in Request /\ r.op = "create"
    BY <1>2, AtStatement DEF WriteCreate
  <2>2. /\ r.user \in Users /\ r.parent \in NodeIds \cup {None} /\ r.title \in Titles
        /\ r.lang \in Languages \cup {None}
    BY <2>1, RequestTypes, RequestKinds
  <2>3. /\ t = [m \in DOMAIN nodes \cup {n} |-> t[m]] /\ DOMAIN t = DOMAIN nodes \cup {n}
        /\ t[n] = row /\ \A m \in DOMAIN nodes \ {n} : t[m] = nodes[m]
    BY DEF Put
  <2>4. row.sort \in Sorts
    <3>1. t[n].sort \in Sorts
      BY <2>3 DEF Storable, SortsFit
    <3> QED
      BY <2>3, <3>1
  <2>5. /\ row = [f \in Columns |-> row[f]] /\ row.owner = r.user /\ row.parent = r.parent
        /\ row.title = r.title
    BY DEF Columns
  <2> HIDE DEF row, t
  <2>6. row \in Row
    BY <2>2, <2>4, <2>5, RowShape
  <2>7. Tree!Table(t)
    BY <2>3, <2>6, StoredRows, TableShape
  <2>8. x(n) \subseteq NodeIds \X Languages
    BY <2>2, StoredRows
  <2> QED
    BY <2>7, <2>8
<1> QED
  BY <1>1, <1>2 DEF WriteCreate

\* What is written to a held row is typed when what is assigned is.
LEMMA ChangedIsRow ==
  ASSUME NEW row \in Row, NEW old, NEW new, new.owner \in Users,
         new.parent \in NodeIds \cup {None}, new.title \in Titles,
         ChangedColumns(row, old, new).sort \in Sorts
  PROVE  ChangedColumns(row, old, new) \in Row
<1> DEFINE g == ChangedColumns(row, old, new)
<1>1. DOMAIN row = Columns
  BY RowColumns
<1>2. /\ g = [f \in Columns |-> g[f]]
      /\ \A f \in Columns : g[f] \in {row[f], new[f]}
  BY <1>1 DEF ChangedColumns
<1>3. g.sort \in Sorts
  OBVIOUS
<1> HIDE DEF g
<1>4. g.owner \in Users /\ g.parent \in NodeIds \cup {None} /\ g.title \in Titles
  BY <1>2, RowColumns DEF Columns
<1>5. g \in Row
  BY <1>2, <1>3, <1>4, RowShape
<1> QED
  BY <1>5 DEF g

LEMMA SaveTyped ==
  ASSUME IInv, TypeOK, NEW w \in Workers, StepOf(w), NEW new, NEW s2 \in {Idle, Reloading},
         Save(w, new, s2),
         \A n \in DOMAIN session[w].held :
           /\ new[n].owner \in Users /\ new[n].parent \in NodeIds \cup {None}
           /\ new[n].title \in Titles
  PROVE  TypeOK'
<1> DEFINE held == session[w].held
           dirty == {n \in DOMAIN held : new[n] # held[n]}
           t == [n \in DOMAIN nodes |->
                   IF n \in dirty THEN ChangedColumns(nodes[n], held[n], new[n]) ELSE nodes[n]]
<1>1. CASE Answer(w)
  BY <1>1, AnswerEnds, EndTyped
<1>2. CASE Commit(w, t, tr, s2)
  <2> SUFFICES ASSUME Storable(t, tr) PROVE Tree!Table(t) /\ tr \subseteq NodeIds \X Languages
    BY <1>2, CommitTyped
  <2>1. ASSUME NEW n \in DOMAIN nodes PROVE t[n] \in Row
    <3>1. nodes[n] \in Row
      BY <2>1, StoredRows
    <3>2. t[n].sort \in Sorts
      BY <2>1 DEF Storable, SortsFit
    <3>3. CASE n \in dirty
      <4>1. t[n] = ChangedColumns(nodes[n], held[n], new[n])
        BY <2>1, <3>3
      <4>2. n \in DOMAIN held
        BY <3>3
      <4> HIDE DEF t
      <4> QED
        BY <3>1, <3>2, <4>1, <4>2, ChangedIsRow
    <3>4. CASE n \notin dirty
      BY <2>1, <3>1, <3>4
    <3> QED
      BY <3>3, <3>4
  <2>2. t = [n \in DOMAIN t |-> t[n]] /\ DOMAIN t = DOMAIN nodes
    OBVIOUS
  <2> HIDE DEF t
  <2> QED
    BY <2>1, <2>2, StoredRows, TableShape
<1> QED
  BY <1>1, <1>2 DEF Save

LEMMA SavesTyped ==
  ASSUME IInv, TypeOK, NEW w \in Workers, StepOf(w),
         WriteUpdate(w) \/ WriteMove(w) \/ WriteReorder(w)
  PROVE  TypeOK'
<1> DEFINE s == session[w]
           r == s.req
<1>1. s.pc = "write"
  BY DEF WriteUpdate, WriteMove, WriteReorder
<1>2. Sound(nodes, used, s) /\ r \in Request
  BY <1>1, AtStatement
<1>3. \A n \in DOMAIN s.held : s.held[n] \in Row
  BY TableShape DEF TypeOK, IsSession
<1>4. \A n \in DOMAIN s.held :
        /\ DOMAIN s.held[n] = Columns /\ s.held[n].owner \in Users
        /\ s.held[n].parent \in NodeIds \cup {None} /\ s.held[n].title \in Titles
  BY <1>3, RowColumns
<1>5. CASE WriteUpdate(w)
  <2> DEFINE new == [n \in {r.node} |->
                       [s.held[n] EXCEPT !.title = IF r.title = None THEN @ ELSE r.title,
                                         !.sort = IF r.sort = None THEN @ ELSE r.sort]]
  <2>1. r.op = "update" /\ Save(w, new, Reloading)
    BY <1>5 DEF WriteUpdate
  <2>2. DOMAIN s.held = {r.node} /\ r.title \in Titles \cup {None}
    BY <1>1, <1>2, <2>1, RequestKinds DEF Sound, HoldsNode
  <2>3. /\ new[r.node].owner = s.held[r.node].owner
        /\ new[r.node].parent = s.held[r.node].parent
        /\ new[r.node].title = (IF r.title = None THEN s.held[r.node].title ELSE r.title)
    BY <1>4, <2>2 DEF Columns
  <2> HIDE DEF new
  <2>4. \A n \in DOMAIN s.held : /\ new[n].owner \in Users /\ new[n].title \in Titles
                                  /\ new[n].parent \in NodeIds \cup {None}
    BY <1>4, <2>2, <2>3
  <2> QED
    BY <2>1, <2>4, SaveTyped
<1>6. CASE WriteMove(w)
  <2> DEFINE new == [n \in {r.node} |-> [s.held[n] EXCEPT !.parent = r.parent, !.sort = s.sort]]
  <2>1. r.op = "move" /\ Save(w, new, Reloading)
    BY <1>6 DEF WriteMove
  <2>2. DOMAIN s.held = {r.node} /\ r.parent \in NodeIds \cup {None}
    BY <1>1, <1>2, <2>1, RequestKinds DEF Sound, HoldsNode
  <2>3. /\ new[r.node].owner = s.held[r.node].owner /\ new[r.node].parent = r.parent
        /\ new[r.node].title = s.held[r.node].title
    BY <1>4, <2>2 DEF Columns
  <2> HIDE DEF new
  <2>4. \A n \in DOMAIN s.held : /\ new[n].owner \in Users /\ new[n].title \in Titles
                                  /\ new[n].parent \in NodeIds \cup {None}
    BY <1>4, <2>2, <2>3
  <2> QED
    BY <2>1, <2>4, SaveTyped
<1>7. CASE WriteReorder(w)
  <2> DEFINE new == Tree!Reordered(s.held, r.parent, r.ids)
  <2>1. r.op = "reorder" /\ Save(w, new, Idle)
    BY <1>7 DEF WriteReorder
  <2>2. r.parent \in NodeIds \cup {None}
    BY <1>2, <2>1, RequestKinds
  <2>3. ASSUME NEW n \in DOMAIN s.held
        PROVE  /\ new[n].owner = s.held[n].owner
               /\ new[n].parent \in {s.held[n].parent, r.parent}
               /\ new[n].title = s.held[n].title
    BY <1>4 DEF Columns, Tree!Reordered
  <2> HIDE DEF new
  <2>4. \A n \in DOMAIN s.held : /\ new[n].owner \in Users /\ new[n].title \in Titles
                                  /\ new[n].parent \in NodeIds \cup {None}
    BY <1>4, <2>2, <2>3
  <2> QED
    BY <2>1, <2>4, SaveTyped
<1> QED
  BY <1>5, <1>6, <1>7

LEMMA TranslationTyped ==
  ASSUME IInv, TypeOK, NEW w \in Workers, StepOf(w), WriteTranslation(w) \/ DeleteTranslation(w)
  PROVE  TypeOK'
<1>1. Tree!Table(nodes)
  BY DEF TypeOK, Tree!TypeOK
<1>2. CASE WriteTranslation(w)
  <2> DEFINE r == session[w].req
  <2>1. r.node \in NodeIds /\ r.lang \in Languages
    BY <1>2, AtStatement, RequestKinds DEF WriteTranslation
  <2>2. tr \cup {<<r.node, r.lang>>} \subseteq NodeIds \X Languages
    BY <2>1, StoredRows
  <2> QED
    BY <1>1, <1>2, <2>2, CommitTyped DEF WriteTranslation
<1>3. CASE DeleteTranslation(w)
  <2>1. tr \ {session[w].row} \subseteq NodeIds \X Languages
    BY StoredRows
  <2> QED
    BY <1>1, <1>3, <2>1, CommitTyped DEF DeleteTranslation
<1> QED
  BY <1>2, <1>3

LEMMA DeleteNodeTyped ==
  ASSUME IInv, TypeOK, NEW w \in Workers, StepOf(w), DeleteNode(w)
  PROVE  TypeOK'
<1> DEFINE s == session[w]
           gone == IF s.req.node \in DOMAIN nodes THEN Deleted(nodes, s.req.node) ELSE {}
           t == Without(nodes, gone)
<1>1. Commit(w, t, WithoutContent(tr, gone), Idle)
  BY DEF DeleteNode
<1>2. /\ t = [m \in DOMAIN t |-> t[m]] /\ DOMAIN t \subseteq DOMAIN nodes
      /\ \A m \in DOMAIN t : t[m] = nodes[m]
  BY DEF Without
<1>3. Tree!Table(t)
  BY <1>2, StoredRows, TableShape
<1>4. WithoutContent(tr, gone) \subseteq NodeIds \X Languages
  BY StoredRows DEF WithoutContent
<1> QED
  BY <1>1, <1>3, <1>4, CommitTyped

LEMMA StartTyped ==
  ASSUME IInv, TypeOK, NEW w \in Workers, StepOf(w), Start(w)
  PROVE  TypeOK'
<1> DEFINE s == session'[w]
<1>1. PICK r \in Workload[w] :
        /\ UNCHANGED <<nodes, tr, used>>
        /\ s.pc = First(r) /\ s.req = r /\ s.held = << >> /\ s.langs = {}
        /\ s.sort = None /\ s.at = 1 /\ s.row = None
  BY StartTurns
<1>2. r \in Request
  BY Requests
<1>3. First(r) \in Serving
  BY DEF First, Serving
<1>4. 1 \in 1 .. IF r.op = "reorder" THEN Len(r.ids) ELSE 1
  BY <1>2, RequestKinds
<1>5. IsSession(s)
  BY <1>1, <1>2, <1>3, <1>4, NothingIsTable DEF IsSession, Serving
<1> QED
  BY <1>1, <1>5, StepTyped

LEMMA InitIsTyped ==
  ASSUME Init
  PROVE  TypeOK
<1>1. PICK d \in Seed : nodes = d.nodes /\ tr = d.tr /\ used = DOMAIN d.nodes
  BY DEF Init
<1>2. Tree!TypeOK
  BY <1>1, WorkloadAssumption DEF Tree!GoodDatabase, Tree!TypeOK
<1>3. \A w \in Workers : IsSession(session[w])
  BY RestIsSession DEF Init
<1> QED
  BY <1>1, <1>2, <1>3 DEF TypeOK

LEMMA NextTyped ==
  ASSUME IInv, TypeOK, Next
  PROVE  TypeOK'
<1>1. PICK w \in Workers : Start(w) \/ Statement(w) \/ Abort(w)
  BY DEF Next
<1>2. StepOf(w)
  BY <1>1, StepKeeps
<1>3. CASE Reload(w) \/ Abort(w)
  BY <1>2, <1>3, AnswerEnds, EndTyped DEF Reload, Abort
<1> QED
  BY <1>1, <1>2, <1>3, StartTyped, ReadTyped, ReadMaxSortTyped, WriteCreateTyped, SavesTyped,
     TranslationTyped, DeleteNodeTyped DEF Statement

\* Whatever requests run at the same time, the tables satisfy every constraint
\* of the database after each commit, an id is stored under one node only, and
\* a session holds what its request may load: a sort_order it computed is at
\* most one more than the column can store.
THEOREM TypeCorrect == Spec => []TypeOK
<1>1. IInv /\ TypeOK /\ [Next]_vars => TypeOK'
  <2>1. TypeOK /\ UNCHANGED vars => TypeOK'
    BY DEF vars, TypeOK, Tree!TypeOK
  <2> QED
    BY <2>1, NextTyped
<1> QED
  BY <1>1, InitIsTyped, Invariance, PTL DEF Spec
-----------------------------------------------------------------------------
(* What a request is, and how far a reorder has come *)

\* A reorder names every node once, and holds all of them when it has loaded them.
Asked(s) ==
  s.pc \in Serving /\ s.req.op = "reorder" =>
    /\ IsInjective(s.req.ids)
    /\ s.pc \in {"siblings", "descend", "write"} => DOMAIN s.held = Range(s.req.ids)
    /\ s.pc \in {"parent", "nodes", "siblings"} => s.at = 1

AllAsked == \A w \in Workers : Asked(session[w])

\* A request of one of ops is under way at w.
Serves(w, ops) == session[w].pc \in Serving /\ session[w].req.op \in ops

\* A write, and a request that ends, leave a session at rest.
LEMMA WriteEnds ==
  ASSUME IInv, NEW w \in Workers,
         \/ WriteCreate(w) \/ WriteUpdate(w) \/ WriteMove(w) \/ WriteReorder(w)
         \/ WriteTranslation(w) \/ DeleteTranslation(w) \/ DeleteNode(w)
         \/ Reload(w) \/ Abort(w)
  PROVE  session'[w] \in {Idle, Reloading}
<1>1. ASSUME NEW t, NEW x, NEW s \in {Idle, Reloading}, Commit(w, t, x, s)
      PROVE  session'[w] \in {Idle, Reloading}
  <2>1. CASE Answer(w)
    BY <2>1, AnswerEnds DEF Ends
  <2>2. CASE session' = [v \in Workers |-> IF v = w THEN s ELSE Forget(session[v], x)]
    BY <2>2
  <2> QED
    BY <1>1, <2>1, <2>2 DEF Commit
<1>2. ASSUME NEW new, NEW s \in {Idle, Reloading}, Save(w, new, s)
      PROVE  session'[w] \in {Idle, Reloading}
  BY <1>1, <1>2, AnswerEnds DEF Save, Ends
<1>3. CASE WriteCreate(w)
  BY <1>1, <1>3, AnswerEnds DEF WriteCreate, Ends
<1>4. CASE WriteUpdate(w)
  BY <1>2, <1>4 DEF WriteUpdate
<1>5. CASE WriteMove(w)
  BY <1>2, <1>5 DEF WriteMove
<1>6. CASE WriteReorder(w)
  BY <1>2, <1>6 DEF WriteReorder
<1>7. CASE WriteTranslation(w) \/ DeleteTranslation(w)
  BY <1>1, <1>7 DEF WriteTranslation, DeleteTranslation
<1>8. CASE DeleteNode(w)
  BY <1>1, <1>8 DEF DeleteNode
<1>9. CASE Reload(w) \/ Abort(w)
  BY <1>9, AnswerEnds DEF Reload, Abort, Ends
<1> QED
  BY <1>3, <1>4, <1>5, <1>6, <1>7, <1>8, <1>9

LEMMA RestIsAsked ==
  ASSUME NEW s \in {Idle, Reloading}
  PROVE  Asked(s) /\ s.pc \notin Serving
<1>1. s.pc \in {"idle", "reload"}
  BY DEF Idle, Reloading
<1> QED
  BY <1>1 DEF Asked, Serving

\* A statement that reads leaves the request as it is, and a reorder where its
\* next statement needs it.
LEMMA ReadAsked ==
  ASSUME IInv, NEW w \in Workers, Asked(session[w]),
         \/ Load(w) \/ ReadParent(w) \/ ReadTitle(w) \/ ReadMaxSort(w) \/ Descend(w)
         \/ ReadChildren(w) \/ ReadTranslation(w) \/ LoadNodes(w) \/ ReadSiblings(w)
  PROVE  Asked(session'[w]) /\ UNCHANGED <<nodes, tr, used>>
<1> DEFINE s == session[w]
           r == s.req
           s2 == session'[w]
<1>1. s.pc \in Serving
  BY DEF Load, ReadParent, ReadTitle, ReadMaxSort, Descend, ReadChildren, ReadTranslation,
         LoadNodes, ReadSiblings, Serving
<1>2. r.op \in Ops(s.pc)
  BY <1>1, AtStatement DEF Serving
<1>3. ASSUME NEW pc, NEW F, Turn(w, pc, F), "req" \notin F, r.op # "reorder"
      PROVE  Asked(s2) /\ UNCHANGED <<nodes, tr, used>>
  BY <1>1, <1>3 DEF Turn, Asked
<1>4. CASE Ends(w)
  BY <1>4, RestIsAsked DEF Ends
<1>5. CASE Load(w) /\ ~ Ends(w)
  BY <1>2, <1>3, <1>5, LoadTurns DEF Load, Ops
<1>6. CASE ReadParent(w) /\ ~ Ends(w)
  <2>1. Turn(w, AfterParent(r), {"langs"}) /\ s.pc = "parent"
    BY <1>6, ReadParentTurns DEF ReadParent
  <2>2. CASE r.op = "reorder"
    BY <1>1, <2>1, <2>2 DEF Turn, Asked, AfterParent
  <2>3. CASE r.op # "reorder"
    BY <1>3, <2>1, <2>3
  <2> QED
    BY <2>2, <2>3
<1>7. CASE ReadTitle(w) /\ ~ Ends(w)
  BY <1>2, <1>3, <1>7, ReadTitleTurns DEF ReadTitle, Ops
<1>8. CASE ReadMaxSort(w)
  BY <1>2, <1>3, <1>8, ReadMaxSortTurns DEF ReadMaxSort, Ops
<1>9. CASE Descend(w) /\ ~ Ends(w)
  <2>1. CASE r.op = "move" /\ Turn(w, "parent", {})
    BY <1>3, <2>1
  <2>2. CASE r.op = "reorder" /\ (Turn(w, "descend", {"at"}) \/ Turn(w, "write", {}))
    <3>1. s2.req = r /\ s2.held = s.held /\ s2.pc \in {"descend", "write"}
      BY <2>2 DEF Turn
    <3>2. Asked(s2)
      BY <1>1, <1>9, <2>2, <3>1 DEF Asked, Descend
    <3> QED
      BY <2>2, <3>2 DEF Turn
  <2> QED
    BY <1>9, <2>1, <2>2, DescendTurns
<1>10. CASE ReadChildren(w) /\ ~ Ends(w)
  BY <1>2, <1>3, <1>10, ReadChildrenTurns DEF ReadChildren, Ops
<1>11. CASE ReadTranslation(w) /\ ~ Ends(w)
  BY <1>2, <1>3, <1>11, ReadTranslationTurns DEF ReadTranslation, Ops
<1>12. CASE LoadNodes(w) /\ ~ Ends(w)
  <2>1. /\ Turn(w, "siblings", {"held"}) /\ s.pc = "nodes"
        /\ s2.held = [n \in Range(r.ids) |-> nodes[n]]
    BY <1>12, LoadNodesTurns DEF LoadNodes
  <2>2. DOMAIN s2.held = Range(r.ids)
    BY <2>1
  <2> QED
    BY <1>1, <2>1, <2>2 DEF Turn, Asked
<1>13. CASE ReadSiblings(w) /\ ~ Ends(w)
  <2>1. PICK pc : Turn(w, pc, {}) /\ pc \in {"write", "descend"} /\ s.pc = "siblings"
    BY <1>13, ReadSiblingsTurns DEF ReadSiblings
  <2> QED
    BY <1>1, <2>1 DEF Turn, Asked
<1> QED
  BY <1>4, <1>5, <1>6, <1>7, <1>8, <1>9, <1>10, <1>11, <1>12, <1>13

LEMMA ForgetIsAsked ==
  ASSUME NEW s, NEW x, Shape(s), Asked(s)
  PROVE  /\ Asked(Forget(s, x))
         /\ Forget(s, x).pc = s.pc /\ Forget(s, x).req = s.req /\ Forget(s, x).at = s.at
         /\ Forget(s, x).held = s.held /\ Forget(s, x).langs = s.langs
<1> DEFINE f == Forget(s, x)
<1>1. f.pc = s.pc /\ f.req = s.req /\ f.held = s.held /\ f.at = s.at /\ f.langs = s.langs
  BY DEF Shape, Forget
<1> HIDE DEF f
<1>2. Asked(f)
  BY <1>1 DEF Asked
<1> QED
  BY <1>1, <1>2 DEF f

LEMMA StartAsked ==
  ASSUME IInv, NEW w \in Workers, Start(w)
  PROVE  Asked(session'[w]) /\ UNCHANGED <<nodes, tr, used>>
<1> DEFINE s == session'[w]
<1>1. PICK r \in Workload[w] :
        /\ UNCHANGED <<nodes, tr, used>>
        /\ r.op = "reorder" => IsInjective(r.ids)
        /\ s.pc = First(r) /\ s.req = r /\ s.at = 1
  BY StartTurns
<1>2. r.op = "reorder" => First(r) \in {"nodes", "parent"}
  BY DEF First
<1> QED
  BY <1>1, <1>2 DEF Asked

LEMMA AskedKept ==
  ASSUME IInv, AllAsked, NEW w \in Workers, Start(w) \/ Statement(w) \/ Abort(w)
  PROVE  AllAsked'
<1>1. Asked(session'[w])
  <2>1. CASE Start(w)
    BY <2>1, StartAsked
  <2>2. CASE \/ Load(w) \/ ReadParent(w) \/ ReadTitle(w) \/ ReadMaxSort(w) \/ Descend(w)
             \/ ReadChildren(w) \/ ReadTranslation(w) \/ LoadNodes(w) \/ ReadSiblings(w)
    BY <2>2, ReadAsked DEF AllAsked
  <2>3. CASE \/ WriteCreate(w) \/ WriteUpdate(w) \/ WriteMove(w) \/ WriteReorder(w)
             \/ WriteTranslation(w) \/ DeleteTranslation(w) \/ DeleteNode(w)
             \/ Reload(w) \/ Abort(w)
    BY <2>3, WriteEnds, RestIsAsked
  <2> QED
    BY <2>1, <2>2, <2>3 DEF Statement
<1>2. ASSUME NEW v \in Workers \ {w} PROVE Asked(session'[v])
  <2>1. Shape(session[v]) /\ Asked(session[v])
    BY DEF IInv, Sound, AllAsked
  <2>2. session'[v] = session[v] \/ session'[v] = Forget(session[v], tr')
    BY StepKeeps DEF StepOf
  <2> QED
    BY <2>1, <2>2, ForgetIsAsked
<1> QED
  BY <1>1, <1>2 DEF AllAsked
-----------------------------------------------------------------------------
(* Requests that move nodes of different users *)

\* Some set of ids has n, not p, and whatever is stored below its members; what is
\* stored of it is u's.
Apart(t, u, n, p) ==
  \E T \in SUBSET NodeIds :
    /\ n \in T /\ p \notin T
    /\ \A m \in DOMAIN t : t[m].parent \in T => m \in T
    /\ \A m \in T \cap DOMAIN t : t[m].owner = u

\* The nodes that a move or reorder has compared with its new parent.
Compared(s) ==
  CASE s.req.op = "move" /\ s.pc \in {"parent", "title", "max", "write"} -> {s.req.node}
    [] s.req.op = "reorder" /\ s.pc = "descend" -> {s.req.ids[i] : i \in 1 .. s.at - 1}
    [] s.req.op = "reorder" /\ s.pc = "write" -> Range(s.req.ids)
    [] OTHER -> {}

\* The new parent is still not below them.
Clear(t, s) ==
  s.pc \in Serving /\ s.req.op \in {"move", "reorder"} /\ s.req.parent # None =>
    \A n \in Compared(s) : Apart(t, s.req.user, n, s.req.parent)

\* No two requests under way move or reorder nodes of one user.
MoversApart ==
  \A v \in Workers : \A w \in Workers \ {v} :
    Serves(v, {"move", "reorder"}) /\ Serves(w, {"move", "reorder"})
      => session[v].req.user # session[w].req.user

\* A table t2 that adds rows under ids of us and moves rows of t only to p, which
\* is not below them, has no cycle when t has none.
LEMMA GrowKeepsAcyclic ==
  ASSUME NEW t, NEW t2, NEW us, NEW u, NEW p, Tree!NoCycle(t), DOMAIN t \subseteq us,
         us \subseteq NodeIds, DOMAIN t2 \subseteq NodeIds, us \cap DOMAIN t2 \subseteq DOMAIN t,
         p \in us \cup {None},
         \A n \in DOMAIN t : t[n].parent \in us \cup {None},
         \A n \in DOMAIN t2 \ us : t2[n].parent \in us \cup {None},
         \A n \in us \cap DOMAIN t2 :
           t2[n].parent # t[n].parent => t2[n].parent = p /\ (p # None => Apart(t, u, n, p))
  PROVE  Tree!NoCycle(t2)
<1> SUFFICES ASSUME NEW S \in SUBSET DOMAIN t2, S # {},
                    \A n \in S : t2[n].parent \in S
             PROVE  FALSE
  BY DEF Tree!NoCycle
<1> DEFINE R == S \cap us
           closed == {T \in SUBSET NodeIds :
                        p \notin T /\ \A m \in DOMAIN t : t[m].parent \in T => m \in T}
           X == {n \in R : \A T \in closed : n \notin T}
<1>1. None \notin NodeIds /\ None \notin S
  BY NodeRepoAssumption
<1>2. \A n \in S : t2[n].parent \in R
  BY <1>1
<1>3. R # {} /\ R \subseteq DOMAIN t
  BY <1>2
<1>4. \A n \in R : t2[n].parent # t[n].parent =>
        p \in R /\ \E T \in closed : n \in T
  <2> SUFFICES ASSUME NEW n \in R, t2[n].parent # t[n].parent
               PROVE  p \in R /\ \E T \in closed : n \in T
    OBVIOUS
  <2>1. t2[n].parent = p /\ (p # None => Apart(t, u, n, p))
    OBVIOUS
  <2>2. p \in R /\ p # None
    BY <1>1, <1>2, <2>1
  <2> QED
    BY <2>1, <2>2 DEF Apart
<1>5. CASE \A n \in R : t2[n].parent = t[n].parent
  BY <1>2, <1>3, <1>5 DEF Tree!NoCycle
<1>6. CASE p \in R
  <2>1. p \in X
    BY <1>6
  <2>2. ASSUME NEW n \in X PROVE t[n].parent \in X
    <3>1. t[n].parent = t2[n].parent
      BY <1>4
    <3>2. t[n].parent \in R
      BY <1>2, <3>1
    <3>3. ASSUME NEW T \in closed, t[n].parent \in T PROVE FALSE
      BY <1>3, <3>3
    <3> QED
      BY <3>2, <3>3
  <2>3. X \subseteq DOMAIN t
    BY <1>3
  <2> QED
    BY <2>1, <2>2, <2>3 DEF Tree!NoCycle
<1> QED
  BY <1>4, <1>5, <1>6

\* What the recursive query of a move or reorder has found: p is not below n.
LEMMA NotBelowIsApart ==
  ASSUME IInv, NEW u, NEW n \in used, n \in DOMAIN nodes => nodes[n].owner = u, NEW p,
         ~ IsSelfOrDescendant(nodes, u, n, p)
  PROVE  Apart(nodes, u, n, p)
<1> DEFINE D == Owned(nodes, u)
<1>1. /\ DOMAIN nodes \subseteq used /\ used \subseteq NodeIds
      /\ \A m \in DOMAIN nodes : nodes[m].parent \in DOMAIN nodes \cup {None}
      /\ \A m \in DOMAIN nodes : nodes[m].parent # None =>
           nodes[nodes[m].parent].owner = nodes[m].owner
  BY DEF IInv, Tables, ReferencesHold, OwnerConsistent, Tree!OwnerConsistent, Tree!SameOwner
<1>2. D \in SUBSET NodeIds /\ None \notin NodeIds
  BY <1>1, NodeRepoAssumption DEF Owned
<1>3. n # p /\ (n \in D => p \notin Below(nodes, D, n))
  BY DEF IsSelfOrDescendant
<1>4. ASSUME NEW m \in DOMAIN nodes, nodes[m].parent \in D PROVE m \in D
  BY <1>1, <1>2, <1>4 DEF Owned
<1>5. CASE n \notin DOMAIN nodes
  <2>1. {n} \in SUBSET NodeIds /\ \A m \in DOMAIN nodes : nodes[m].parent # n
    BY <1>1, <1>2, <1>5
  <2> QED
    BY <1>3, <1>5, <2>1 DEF Apart
<1>6. CASE n \in DOMAIN nodes
  <2>1. n \in D
    BY <1>6 DEF Owned
  <2>2. CASE p \notin D
    BY <1>2, <1>4, <2>1, <2>2 DEF Apart, Owned
  <2>3. CASE p \in D
    <3>1. PICK S \in SUBSET D :
            /\ n \in S /\ (\A m \in D : nodes[m].parent \in S => m \in S)
            /\ p \notin S
      BY <1>3, <2>1, <2>3 DEF Below
    <3>2. \A m \in DOMAIN nodes : nodes[m].parent \in S => m \in S
      BY <1>4, <3>1
    <3>3. S \in SUBSET NodeIds /\ \A m \in S : nodes[m].owner = u
      BY <1>2 DEF Owned
    <3> QED
      BY <3>1, <3>2, <3>3 DEF Apart
  <2> QED
    BY <2>2, <2>3
<1> QED
  BY <1>5, <1>6

\* It stays so when others add rows and delete rows, but move none of u's.
LEMMA ApartStays ==
  ASSUME IInv, NEW w \in Workers, NEW t, Allowed(w, t),
         \A n \in DOMAIN t : t[n].parent \in DOMAIN t \cup {None},
         NEW u,
         \A n \in DOMAIN nodes \cap DOMAIN t :
           nodes[n].owner = u => t[n].parent = nodes[n].parent,
         NEW n \in used, NEW p \in used, Apart(nodes, u, n, p)
  PROVE  Apart(t, u, n, p)
<1>1. PICK T \in SUBSET NodeIds :
        /\ n \in T /\ p \notin T
        /\ \A m \in DOMAIN nodes : nodes[m].parent \in T => m \in T
        /\ \A m \in T \cap DOMAIN nodes : nodes[m].owner = u
  BY DEF Apart
<1> DEFINE own == {m \in DOMAIN t \ DOMAIN nodes : t[m].owner = u}
           U == (T \cap used) \cup own
<1>2. /\ DOMAIN t \subseteq NodeIds /\ (DOMAIN t \ DOMAIN nodes) \cap used = {}
      /\ None \notin NodeIds
      /\ \A m \in DOMAIN nodes : m \in used /\ nodes[m].parent \in used \cup {None}
      /\ \A m \in used \cap DOMAIN t : m \in DOMAIN nodes /\ t[m].owner = nodes[m].owner
      /\ \A m \in DOMAIN t : t[m].parent # None => t[t[m].parent].owner = t[m].owner
  BY NodeRepoAssumption DEF Allowed, KeepsOwners, IInv, Tables, ReferencesHold
<1>3. U \in SUBSET NodeIds /\ n \in U /\ p \notin U
  BY <1>1, <1>2
<1>4. ASSUME NEW m \in U \cap DOMAIN t PROVE t[m].owner = u
  BY <1>1, <1>2
<1>5. ASSUME NEW m \in DOMAIN t, t[m].parent \in U PROVE m \in U
  <2>1. t[m].parent # None /\ t[m].parent \in U \cap DOMAIN t
    BY <1>2, <1>3, <1>5
  <2>2. t[m].owner = u
    BY <1>2, <1>4, <2>1
  <2>3. CASE m \in DOMAIN nodes
    <3>1. t[m].parent = nodes[m].parent /\ nodes[m].parent \in T /\ m \in used
      BY <1>2, <1>5, <2>1, <2>2, <2>3
    <3> QED
      BY <1>1, <2>3, <3>1
  <2>4. CASE m \notin DOMAIN nodes
    BY <2>2, <2>4
  <2> QED
    BY <2>3, <2>4
<1> HIDE DEF U
<1> QED
  BY <1>3, <1>4, <1>5 DEF Apart

\* While v moves or reorders, what w commits moves no node of the user of v.
LEMMA OthersMoveElsewhere ==
  ASSUME IInv, MoversApart, NEW v \in Workers, session[v].pc \in Serving,
         session[v].req.op \in {"move", "reorder"}, NEW w \in Workers \ {v},
         NEW t, Allowed(w, t)
  PROVE  \A n \in DOMAIN nodes \cap DOMAIN t :
           nodes[n].owner = session[v].req.user => t[n].parent = nodes[n].parent
<1> SUFFICES ASSUME NEW n \in DOMAIN nodes, nodes[n].owner = session[v].req.user,
                    Writes(w, n, {"move", "reorder"})
             PROVE  FALSE
  BY DEF Allowed
<1>1. Serves(v, {"move", "reorder"}) /\ Serves(w, {"move", "reorder"})
  BY DEF Serves, Writes, Serving
<1>2. nodes[n].owner = session[w].req.user
  BY DEF IInv, Sound, Held, Writes
<1> QED
  BY <1>1, <1>2 DEF MoversApart

\* The recursive query compares one more node with the new parent.
LEMMA DescendCompares ==
  ASSUME IInv, TypeOK, AllAsked, NEW w \in Workers, Descend(w), ~ Ends(w),
         NEW n \in Compared(session'[w])
  PROVE  LET s == session[w] r == s.req IN
         /\ session'[w].req = r
         /\ \/ n \in Compared(s)
            \/ ~ IsSelfOrDescendant(nodes, r.user, n, r.parent) /\ n \in DOMAIN s.held
<1> DEFINE s == session[w]
           r == s.req
           s2 == session'[w]
<1>1. s.pc = "descend"
  BY DEF Descend
<1>2. Sound(nodes, used, s) /\ r \in Request /\ r.op \in Ops(s.pc) /\ Asked(s)
  BY <1>1, AtStatement DEF AllAsked
<1>3. CASE r.op = "move"
  <2>1. /\ ~ IsSelfOrDescendant(nodes, r.user, r.node, r.parent)
        /\ Turn(w, "parent", {})
    BY <1>3, DescendTurns
  <2>2. s2.req = r /\ n = r.node
    BY <1>3, <2>1 DEF Turn, Compared
  <2>3. r.node \in DOMAIN s.held
    BY <1>1, <1>2, <1>3 DEF Sound, HoldsNode
  <2> QED
    BY <1>1, <1>3, <2>1, <2>2, <2>3
<1>4. CASE r.op = "reorder"
  <2>1. s.at \in 1 .. Len(r.ids) /\ Len(r.ids) \in Nat /\ r.ids \in Seq(NodeIds)
    BY <1>1, <1>2, <1>4, RequestKinds DEF TypeOK, IsSession
  <2>2. DOMAIN s.held = Range(r.ids)
    BY <1>1, <1>2, <1>4 DEF Asked, Serving
  <2>3. DOMAIN r.ids = 1 .. Len(r.ids) /\ r.ids[s.at] \in DOMAIN s.held
    BY <2>1, <2>2 DEF Range
  <2>4. /\ ~ IsSelfOrDescendant(nodes, r.user, r.ids[s.at], r.parent)
        /\ s2.req = r
        /\ \/ s.at < Len(r.ids) /\ s2.pc = "descend" /\ s2.at = s.at + 1
           \/ ~ s.at < Len(r.ids) /\ s2.pc = "write"
    BY <1>4, DescendTurns DEF Turn
  <2>5. PICK i \in 1 .. s.at : n = r.ids[i]
    <3>1. CASE s.at < Len(r.ids) /\ s2.pc = "descend" /\ s2.at = s.at + 1
      <4>1. PICK i \in 1 .. s2.at - 1 : n = r.ids[i]
        BY <1>4, <2>4, <3>1 DEF Compared
      <4> QED
        BY <2>1, <3>1, <4>1
    <3>2. CASE ~ s.at < Len(r.ids) /\ s2.pc = "write"
      <4>1. PICK i \in DOMAIN r.ids : n = r.ids[i]
        BY <1>4, <2>4, <3>2 DEF Compared, Range
      <4> QED
        BY <2>1, <2>3, <3>2, <4>1
    <3> QED
      BY <2>4, <3>1, <3>2
  <2>6. CASE i = s.at
    BY <1>1, <1>4, <2>3, <2>4, <2>5, <2>6
  <2>7. CASE i # s.at
    <3>1. i \in 1 .. s.at - 1
      BY <2>1, <2>5, <2>7
    <3> QED
      BY <1>1, <1>4, <2>4, <2>5, <3>1 DEF Compared
  <2> QED
    BY <2>6, <2>7
<1> QED
  BY <1>1, <1>2, <1>3, <1>4 DEF Ops

\* The request of a worker that reads stays clear: the recursive query has
\* compared the nodes that Compared adds.
LEMMA ReadClear ==
  ASSUME IInv, TypeOK, AllAsked, NEW w \in Workers, Clear(nodes, session[w]),
         \/ Load(w) \/ ReadParent(w) \/ ReadTitle(w) \/ ReadMaxSort(w) \/ Descend(w)
         \/ ReadChildren(w) \/ ReadTranslation(w) \/ LoadNodes(w) \/ ReadSiblings(w)
  PROVE  Clear(nodes, session'[w])
<1> DEFINE s == session[w]
           r == s.req
           s2 == session'[w]
<1> SUFFICES ASSUME s2.pc \in Serving, s2.req.op \in {"move", "reorder"}, s2.req.parent # None,
                    NEW n \in Compared(s2)
             PROVE  Apart(nodes, s2.req.user, n, s2.req.parent)
  BY DEF Clear
<1>1. s.pc \in Serving /\ ~ Ends(w)
  BY RestIsAsked DEF Load, ReadParent, ReadTitle, ReadMaxSort, Descend, ReadChildren,
     ReadTranslation, LoadNodes, ReadSiblings, Serving, Ends
<1>2. /\ Sound(nodes, used, s) /\ r \in Request /\ r.op \in Ops(s.pc) /\ Asked(s)
      /\ Named(r) \subseteq used
  BY <1>1, AtStatement DEF AllAsked, Serving
<1>3. \/ s2.req = r /\ n \in Compared(s)
      \/ /\ s2.req = r
         /\ ~ IsSelfOrDescendant(nodes, r.user, n, r.parent)
         /\ n \in DOMAIN s.held
  <2>1. CASE Load(w)
    BY <1>1, <1>2, <2>1, LoadTurns DEF Turn, AfterLoad, Compared, Load, Ops
  <2>2. CASE ReadParent(w)
    BY <1>1, <1>2, <2>2, ReadParentTurns DEF Turn, AfterParent, Compared, ReadParent, Ops
  <2>3. CASE ReadTitle(w)
    BY <1>1, <1>2, <2>3, ReadTitleTurns DEF Turn, AfterTitle, Compared, ReadTitle, Ops
  <2>4. CASE ReadMaxSort(w)
    BY <1>1, <1>2, <2>4, ReadMaxSortTurns DEF Turn, Compared, ReadMaxSort, Ops
  <2>5. CASE Descend(w)
    BY <1>1, <2>5, DescendCompares
  <2>6. CASE ReadChildren(w)
    BY <1>1, <1>2, <2>6, ReadChildrenTurns DEF Turn, ReadChildren, Ops
  <2>7. CASE ReadTranslation(w)
    BY <1>1, <1>2, <2>7, ReadTranslationTurns DEF Turn, ReadTranslation, Ops
  <2>8. CASE LoadNodes(w)
    BY <1>1, <1>2, <2>8, LoadNodesTurns DEF Turn, Compared, LoadNodes, Ops
  <2>9. CASE ReadSiblings(w)
    <3>1. /\ s2.pc = (IF r.parent = None THEN "write" ELSE "descend")
          /\ s2.req = r /\ s2.at = s.at /\ s.pc = "siblings" /\ r.op = "reorder"
      BY <1>1, <1>2, <2>9, ReadSiblingsTurns DEF Turn, ReadSiblings, Ops
    <3>2. s2.pc = "descend" /\ s.at = 1
      BY <1>1, <1>2, <3>1 DEF Asked
    <3> QED
      BY <3>1, <3>2 DEF Compared
  <2> QED
    BY <2>1, <2>2, <2>3, <2>4, <2>5, <2>6, <2>7, <2>8, <2>9
<1>4. CASE s2.req = r /\ n \in Compared(s)
  BY <1>1, <1>4 DEF Clear
<1>5. CASE /\ s2.req = r
           /\ ~ IsSelfOrDescendant(nodes, r.user, n, r.parent)
           /\ n \in DOMAIN s.held
  <2>1. n \in used /\ (n \in DOMAIN nodes => nodes[n].owner = r.user)
    BY <1>2, <1>5 DEF Sound, Held
  <2> QED
    BY <1>5, <2>1, NotBelowIsApart
<1> QED
  BY <1>3, <1>4, <1>5

\* A request compares nodes that it names.
LEMMA ComparedAreNamed ==
  ASSUME IInv, TypeOK, AllAsked, NEW v \in Workers, session[v].pc \in Serving
  PROVE  Compared(session[v]) \subseteq used
<1> DEFINE s == session[v]
           r == s.req
<1>1. /\ r \in Request /\ Named(r) \subseteq used
      /\ r.op = "reorder" => s.at \in 1 .. Len(r.ids)
  BY AtStatement DEF Serving, TypeOK, IsSession
<1>2. CASE r.op = "move"
  BY <1>1, <1>2, RequestKinds, NodeRepoAssumption DEF Compared, Named
<1>3. CASE r.op = "reorder"
  <2>1. r.ids \in Seq(NodeIds) /\ None \notin NodeIds
    BY <1>1, <1>3, RequestKinds, NodeRepoAssumption
  <2>2. Range(r.ids) \subseteq used
    BY <1>1, <1>3, <2>1 DEF Named, Range
  <2>3. \A i \in 1 .. s.at - 1 : r.ids[i] \in Range(r.ids)
    BY <1>1, <1>3, <2>1 DEF Range
  <2> QED
    BY <1>3, <2>2, <2>3 DEF Compared
<1> QED
  BY <1>2, <1>3 DEF Compared

LEMMA ClearKept ==
  ASSUME IInv, TypeOK, AllAsked, MoversApart, NEW v \in Workers, Clear(nodes, session[v]),
         IInv', NEW w \in Workers, Start(w) \/ Statement(w) \/ Abort(w)
  PROVE  Clear(nodes', session'[v])
<1>1. CASE w = v
  <2>1. CASE Start(w)
    <3>1. PICK r \in Workload[w] : session'[w].pc = First(r) /\ session'[w].req = r
      BY <2>1, StartTurns
    <3>2. r.op \in {"move", "reorder"} => First(r) \in {"load", "parent", "nodes"}
                                         /\ (r.op = "move" => First(r) = "load")
      BY DEF First
    <3>3. r.op \in {"move", "reorder"} => Compared(session'[w]) = {}
      BY <3>1, <3>2 DEF Compared
    <3> QED
      BY <1>1, <3>1, <3>3 DEF Clear
  <2>2. CASE \/ Load(w) \/ ReadParent(w) \/ ReadTitle(w) \/ ReadMaxSort(w) \/ Descend(w)
             \/ ReadChildren(w) \/ ReadTranslation(w) \/ LoadNodes(w) \/ ReadSiblings(w)
    <3>1. nodes' = nodes
      BY <2>2, ReadAsked DEF AllAsked
    <3> QED
      BY <1>1, <2>2, <3>1, ReadClear
  <2>3. CASE \/ WriteCreate(w) \/ WriteUpdate(w) \/ WriteMove(w) \/ WriteReorder(w)
             \/ WriteTranslation(w) \/ DeleteTranslation(w) \/ DeleteNode(w)
             \/ Reload(w) \/ Abort(w)
    BY <1>1, <2>3, WriteEnds, RestIsAsked DEF Clear
  <2> QED
    BY <2>1, <2>2, <2>3 DEF Statement
<1>2. CASE w # v
  <2> DEFINE s == session[v]
             s2 == session'[v]
  <2>1. Shape(s) /\ Asked(s)
    BY DEF IInv, Sound, AllAsked
  <2>2. s2.pc = s.pc /\ s2.req = s.req /\ s2.at = s.at
    BY <1>2, <2>1, StepKeeps, ForgetIsAsked DEF StepOf
  <2>3. Compared(s2) = Compared(s)
    BY <2>2 DEF Compared
  <2> SUFFICES ASSUME s.pc \in Serving, s.req.op \in {"move", "reorder"}, s.req.parent # None,
                      NEW n \in Compared(s)
               PROVE  Apart(nodes', s.req.user, n, s.req.parent)
    BY <2>2, <2>3 DEF Clear
  <2>4. Apart(nodes, s.req.user, n, s.req.parent)
    BY DEF Clear
  <2>5. n \in used /\ s.req.parent \in used
    BY AtStatement, ParentIsNamed, ComparedAreNamed DEF Serving
  <2>6. nodes' = nodes \/ Allowed(w, nodes')
    BY StepKeeps DEF StepOf
  <2>7. CASE Allowed(w, nodes')
    <3>1. \A k \in DOMAIN nodes \cap DOMAIN nodes' :
            nodes[k].owner = s.req.user => nodes'[k].parent = nodes[k].parent
      BY <1>2, <2>7, OthersMoveElsewhere
    <3>2. \A k \in DOMAIN nodes' : nodes'[k].parent \in DOMAIN nodes' \cup {None}
      BY DEF IInv, Tables, ReferencesHold
    <3>3. PICK t : t = nodes'
      OBVIOUS
    <3>4. Apart(t, s.req.user, n, s.req.parent)
      BY <2>4, <2>5, <2>7, <3>1, <3>2, <3>3, ApartStays
    <3> QED
      BY <3>3, <3>4
  <2> QED
    BY <2>4, <2>6, <2>7
<1> QED
  BY <1>1, <1>2

LEMMA AcyclicKept ==
  ASSUME IInv, TypeOK, AllAsked, Acyclic, NEW w \in Workers, Clear(nodes, session[w]), StepOf(w)
  PROVE  Acyclic'
<1>1. CASE UNCHANGED nodes
  BY <1>1 DEF Acyclic, Tree!Acyclic, Tree!NoCycle
<1>2. CASE Allowed(w, nodes')
  <2> DEFINE s == session[w]
             moving == s.pc = "write" /\ s.req.op \in {"move", "reorder"}
  <2>1. /\ Tree!NoCycle(nodes) /\ DOMAIN nodes \subseteq used /\ used \subseteq NodeIds
        /\ \A n \in DOMAIN nodes : nodes[n].parent \in used \cup {None}
    BY DEF Acyclic, Tree!Acyclic, IInv, Tables, ReferencesHold
  <2>2. /\ DOMAIN nodes' \subseteq NodeIds /\ used \cap DOMAIN nodes' \subseteq DOMAIN nodes
        /\ \A n \in DOMAIN nodes' \ used : nodes'[n].parent \in used \cup {None}
    BY <1>2, <2>1 DEF Allowed, KeepsOwners
  <2>3. CASE moving
    <3>1. /\ Sound(nodes, used, s) /\ s.req \in Request /\ Named(s.req) \subseteq used
          /\ Asked(s)
      BY <2>3, AtStatement DEF AllAsked
    <3>2. s.req.parent \in used \cup {None}
      BY <2>3, <3>1, ParentIsNamed
    <3>3. DOMAIN s.held \subseteq Compared(s)
      BY <2>3, <3>1 DEF Compared, Sound, HoldsNode, Asked, Serving
    <3>4. \A n \in used \cap DOMAIN nodes' :
            nodes'[n].parent # nodes[n].parent =>
              n \in DOMAIN s.held /\ nodes'[n].parent = s.req.parent
      BY <1>2, <2>2 DEF Allowed, Writes
    <3>5. s.req.parent # None => \A n \in Compared(s) : Apart(nodes, s.req.user, n, s.req.parent)
      BY <2>3 DEF Clear, Serving
    <3>6. PICK u, q : /\ q \in used \cup {None}
                      /\ \A n \in used \cap DOMAIN nodes' :
                           nodes'[n].parent # nodes[n].parent =>
                             nodes'[n].parent = q /\ (q # None => Apart(nodes, u, n, q))
      BY <3>2, <3>3, <3>4, <3>5
    <3>7. Tree!NoCycle(nodes')
      BY <2>1, <2>2, <3>6, GrowKeepsAcyclic
    <3> QED
      BY <3>7 DEF Acyclic, Tree!Acyclic
  <2>4. CASE ~ moving
    <3>1. \A n \in used \cap DOMAIN nodes' : nodes'[n].parent = nodes[n].parent
      BY <1>2, <2>2, <2>4 DEF Allowed, Writes
    <3>2. PICK u, q : /\ q = None
                      /\ \A n \in used \cap DOMAIN nodes' :
                           nodes'[n].parent # nodes[n].parent =>
                             nodes'[n].parent = q /\ (q # None => Apart(nodes, u, n, q))
      BY <3>1
    <3>3. Tree!NoCycle(nodes')
      BY <2>1, <2>2, <3>2, GrowKeepsAcyclic
    <3> QED
      BY <3>3 DEF Acyclic, Tree!Acyclic
  <2> QED
    BY <2>3, <2>4
<1> QED
  BY <1>1, <1>2 DEF StepOf

\* However many requests run at the same time, no node becomes its own ancestor
\* as long as no two requests under way move or reorder nodes of one user: creates, renames,
\* deletes and the moves of other users may run between the recursive query of
\* ensure_move_target_is_valid and the UPDATE that relies on it.  (Two moves of one
\* user at a time can make a cycle: the run node_moves finds it.)
THEOREM AcyclicWhenMovingApart ==
  Spec /\ []MoversApart => []Acyclic
<1> DEFINE MInv == /\ TypeOK /\ AllAsked /\ Acyclic
                   /\ \A v \in Workers : Clear(nodes, session[v])
<1>1. Init => MInv
  <2> SUFFICES ASSUME Init PROVE MInv
    OBVIOUS
  <2>1. Acyclic
    BY WorkloadAssumption DEF Init, Tree!GoodDatabase, Acyclic, Tree!Acyclic
  <2>2. \A w \in Workers : session[w] = Idle
    BY DEF Init
  <2> QED
    BY <2>1, <2>2, InitIsTyped, RestIsAsked DEF AllAsked, Clear
<1>2. IInv /\ MInv /\ MoversApart /\ [Next]_vars => MInv'
  <2> SUFFICES ASSUME IInv, MInv, MoversApart, [Next]_vars PROVE MInv'
    OBVIOUS
  <2>1. CASE Next
    <3>1. PICK w \in Workers : Start(w) \/ Statement(w) \/ Abort(w)
      BY <2>1 DEF Next
    <3>2. TypeOK'
      BY <2>1, NextTyped
    <3>3. AllAsked'
      BY <3>1, AskedKept
    <3>4. Acyclic'
      BY <3>1, StepKeeps, AcyclicKept
    <3>5. \A v \in Workers : Clear(nodes', session'[v])
      BY <3>1, StepKeeps, ClearKept
    <3> QED
      BY <3>2, <3>3, <3>4, <3>5
  <2>2. CASE UNCHANGED vars
    BY <2>2 DEF vars, TypeOK, Tree!TypeOK, AllAsked, Acyclic, Tree!Acyclic
  <2> QED
    BY <2>1, <2>2
<1>3. MInv => Acyclic
  OBVIOUS
<1> QED
  BY <1>1, <1>2, <1>3, InitIsSound, Invariance, PTL DEF Spec
-----------------------------------------------------------------------------
(* Requests that give children and answers to different nodes *)

\* What the request in session s has found about tables t and x and may still
\* rely on: the parent it goes to stores no answer, or all its nodes are there
\* already; the node it answers is no parent.
Fallow(t, x, s) ==
  LET r == s.req IN
  s.pc \in Serving =>
    /\ r.op \in {"create", "move"} /\ r.parent # None /\ s.pc \in {"title", "max", "write"} =>
         ~ HasContent(x, r.parent)
    /\ r.op = "reorder" =>
         /\ r.parent # None /\ s.pc \in {"nodes", "siblings", "descend", "write"} =>
              Langs(x, r.parent) \subseteq s.langs
         /\ s.pc \in {"descend", "write"} /\ s.langs # {} =>
              \A n \in DOMAIN s.held : s.held[n].parent = r.parent
    /\ r.op = "upsert" =>
         /\ s.pc # "load" => DOMAIN s.held = {r.node}
         /\ s.pc = "write" => \A n \in DOMAIN t : t[n].parent # r.node

\* No two requests under way answer a node and give it a child.
GrowsApart ==
  \A v \in Workers : \A w \in Workers \ {v} :
    Serves(v, {"upsert"}) /\ Serves(w, {"create", "move", "reorder"})
      => session[w].req.parent # session[v].req.node

\* What w commits gives no child to the node that v answers, and no answer to the
\* node that v gives children.
LEMMA OthersGrowApart ==
  ASSUME GrowsApart, NEW v \in Workers, session[v].pc \in Serving,
         NEW w \in Workers \ {v}, NEW t, NEW x, Allowed(w, t), Answering(w, x)
  PROVE  LET r == session[v].req IN
         /\ r.op = "upsert" =>
              \A n \in DOMAIN t : t[n].parent = r.node => n \in DOMAIN nodes /\ nodes[n].parent = r.node
         /\ r.op \in {"create", "move", "reorder"} =>
              \A p \in x \ tr : p[1] \in used => p[1] # r.parent
<1> DEFINE r == session[v].req
           q == session[w].req
<1>1. \A ops : /\ r.op \in ops => Serves(v, ops)
               /\ session[w].pc = "write" /\ q.op \in ops => Serves(w, ops)
  BY DEF Serves, Serving
<1>2. r.op = "upsert" /\ session[w].pc = "write" /\ q.op \in {"create", "move", "reorder"}
        => q.parent # r.node
  BY <1>1 DEF GrowsApart
<1>3. q.op = "upsert" /\ session[w].pc = "write" /\ r.op \in {"create", "move", "reorder"}
        => r.parent # q.node
  BY <1>1 DEF GrowsApart
<1>4. ASSUME r.op = "upsert", NEW n \in DOMAIN t, t[n].parent = r.node
      PROVE  n \in DOMAIN nodes /\ nodes[n].parent = r.node
  BY <1>2, <1>4 DEF Allowed, Writes
<1>5. ASSUME r.op \in {"create", "move", "reorder"}, NEW p \in x \ tr, p[1] \in used
      PROVE  p[1] # r.parent
  BY <1>3, <1>5 DEF Answering
<1> QED
  BY <1>4, <1>5

\* The node of an upsert that has no children of the caller's has none at all.
LEMMA NoChildrenOfAnyone ==
  ASSUME IInv, NEW u, NEW n \in used, n \in DOMAIN nodes => nodes[n].owner = u,
         ~ HasChildren(nodes, u, n)
  PROVE  \A k \in DOMAIN nodes : nodes[k].parent # n
<1> SUFFICES ASSUME NEW k \in DOMAIN nodes, nodes[k].parent = n PROVE FALSE
  OBVIOUS
<1>1. n # None /\ n \in DOMAIN nodes
  BY NodeRepoAssumption DEF IInv, Tables, ReferencesHold
<1>2. nodes[k].owner = u
  BY <1>1 DEF IInv, OwnerConsistent, Tree!OwnerConsistent, Tree!SameOwner
<1> QED
  BY <1>2 DEF HasChildren, Children, Owned

LEMMA ReadFallow ==
  ASSUME IInv, AllAsked, NEW w \in Workers, Fallow(nodes, tr, session[w]),
         \/ Load(w) \/ ReadParent(w) \/ ReadTitle(w) \/ ReadMaxSort(w) \/ Descend(w)
         \/ ReadChildren(w) \/ ReadTranslation(w) \/ LoadNodes(w) \/ ReadSiblings(w)
  PROVE  Fallow(nodes, tr, session'[w])
<1> DEFINE s == session[w]
           r == s.req
           s2 == session'[w]
<1> SUFFICES ASSUME ~ Ends(w) PROVE Fallow(nodes, tr, s2)
  BY RestIsAsked DEF Ends, Fallow
<1>1. s.pc \in Serving
  BY DEF Load, ReadParent, ReadTitle, ReadMaxSort, Descend, ReadChildren, ReadTranslation,
         LoadNodes, ReadSiblings, Serving
<1>2. /\ Sound(nodes, used, s) /\ r \in Request /\ r.op \in Ops(s.pc)
  BY <1>1, AtStatement DEF Serving
<1>3. CASE Load(w)
  BY <1>2, <1>3, LoadTurns DEF Turn, AfterLoad, Fallow, Load, Ops
<1>4. CASE ReadParent(w)
  BY <1>1, <1>2, <1>4, ReadParentTurns DEF Turn, AfterParent, Fallow, ReadParent, Ops
<1>5. CASE ReadTitle(w)
  BY <1>1, <1>2, <1>5, ReadTitleTurns DEF Turn, AfterTitle, Fallow, ReadTitle, Ops
<1>6. CASE ReadMaxSort(w)
  BY <1>1, <1>2, <1>6, ReadMaxSortTurns DEF Turn, Fallow, ReadMaxSort, Ops
<1>7. CASE Descend(w)
  <2>1. /\ r.op \in {"move", "reorder"} /\ s2.req = r /\ s2.held = s.held
        /\ s2.langs = s.langs /\ s.pc = "descend"
        /\ s2.pc \in IF r.op = "move" THEN {"parent"} ELSE {"descend", "write"}
    BY <1>2, <1>7, DescendTurns DEF Descend, Ops, Turn
  <2> QED
    BY <1>1, <2>1 DEF Fallow
<1>8. CASE ReadChildren(w)
  <2>1. /\ r.op = "upsert" /\ s2.req = r /\ s2.held = s.held /\ s.pc = "children"
        /\ ~ HasChildren(nodes, r.user, r.node)
    BY <1>2, <1>8, ReadChildrenTurns DEF ReadChildren, Ops, Turn
  <2>2. DOMAIN s.held = {r.node}
    BY <1>1, <2>1 DEF Fallow
  <2>3. \A n \in DOMAIN nodes : nodes[n].parent # r.node
    BY <1>2, <2>1, <2>2, NoChildrenOfAnyone DEF Sound, Held
  <2> QED
    BY <2>1, <2>2, <2>3 DEF Fallow
<1>9. CASE ReadTranslation(w)
  BY <1>1, <1>2, <1>9, ReadTranslationTurns DEF Turn, Fallow, ReadTranslation, Ops
<1>10. CASE LoadNodes(w)
  BY <1>1, <1>2, <1>10, LoadNodesTurns DEF Turn, Fallow, LoadNodes, Ops
<1>11. CASE ReadSiblings(w)
  BY <1>1, <1>2, <1>11, ReadSiblingsTurns DEF Turn, Fallow, ReadSiblings, Ops
<1> QED
  BY <1>3, <1>4, <1>5, <1>6, <1>7, <1>8, <1>9, <1>10, <1>11

\* What the request of v relies on survives the commit of another worker.
LEMMA FallowStays ==
  ASSUME IInv, GrowsApart, NEW v \in Workers, Fallow(nodes, tr, session[v]),
         NEW w \in Workers \ {v}, NEW t, NEW x, Allowed(w, t), Answering(w, x)
  PROVE  Fallow(t, x, session[v])
<1> DEFINE s == session[v]
           r == s.req
<1> SUFFICES ASSUME s.pc \in Serving PROVE Fallow(t, x, s)
  BY DEF Fallow
<1>1. r \in Request /\ Named(r) \subseteq used
  BY AtStatement DEF Serving
<1>2. r.op \in {"create", "move", "reorder"} /\ r.parent # None =>
        Langs(x, r.parent) \subseteq Langs(tr, r.parent)
  <2> SUFFICES ASSUME r.op \in {"create", "move", "reorder"}, r.parent # None,
                      NEW l \in Languages, <<r.parent, l>> \in x
               PROVE  <<r.parent, l>> \in tr
    BY DEF Langs
  <2>1. r.parent \in used
    BY <1>1, ParentIsNamed
  <2>2. \A p \in x \ tr : p[1] \in used => p[1] # r.parent
    BY OthersGrowApart
  <2> QED
    BY <2>1, <2>2
<1>3. r.op = "upsert" =>
        \A n \in DOMAIN t : t[n].parent = r.node => n \in DOMAIN nodes /\ nodes[n].parent = r.node
  BY OthersGrowApart
<1>4. r.op \in {"create", "move"} /\ r.parent # None /\ s.pc \in {"title", "max", "write"} =>
        ~ HasContent(x, r.parent)
  BY <1>2 DEF Fallow, HasContent
<1>5. r.op = "reorder" /\ r.parent # None
        /\ s.pc \in {"nodes", "siblings", "descend", "write"} =>
          Langs(x, r.parent) \subseteq s.langs
  <2> SUFFICES ASSUME r.op = "reorder", r.parent # None,
                      s.pc \in {"nodes", "siblings", "descend", "write"}
               PROVE  Langs(x, r.parent) \subseteq s.langs
    OBVIOUS
  <2>1. Langs(tr, r.parent) \subseteq s.langs
    BY DEF Fallow
  <2> QED
    BY <1>2, <2>1
<1>6. r.op = "upsert" /\ s.pc = "write" => \A n \in DOMAIN t : t[n].parent # r.node
  BY <1>3 DEF Fallow
<1> QED
  BY <1>4, <1>5, <1>6 DEF Fallow

LEMMA FallowKept ==
  ASSUME IInv, AllAsked, GrowsApart, NEW v \in Workers, Fallow(nodes, tr, session[v]),
         NEW w \in Workers, Start(w) \/ Statement(w) \/ Abort(w)
  PROVE  Fallow(nodes', tr', session'[v])
<1>1. CASE w = v
  <2>1. CASE Start(w)
    <3> DEFINE s == session'[w]
    <3>1. PICK r \in Workload[w] : s.pc = First(r) /\ s.req = r
      BY <2>1, StartTurns
    <3>2. /\ r.op = "create" /\ r.parent # None => First(r) = "parent"
          /\ r.op \in {"move", "upsert"} => First(r) = "load"
          /\ r.op = "reorder" => First(r) \in {"nodes", "parent"}
          /\ r.op = "reorder" /\ r.parent # None => First(r) = "parent"
      BY DEF First
    <3> QED
      BY <1>1, <3>1, <3>2 DEF Fallow
  <2>2. CASE \/ Load(w) \/ ReadParent(w) \/ ReadTitle(w) \/ ReadMaxSort(w) \/ Descend(w)
             \/ ReadChildren(w) \/ ReadTranslation(w) \/ LoadNodes(w) \/ ReadSiblings(w)
    <3>1. nodes' = nodes /\ tr' = tr
      BY <2>2, ReadAsked DEF AllAsked
    <3> QED
      BY <1>1, <2>2, <3>1, ReadFallow
  <2>3. CASE \/ WriteCreate(w) \/ WriteUpdate(w) \/ WriteMove(w) \/ WriteReorder(w)
             \/ WriteTranslation(w) \/ DeleteTranslation(w) \/ DeleteNode(w)
             \/ Reload(w) \/ Abort(w)
    BY <1>1, <2>3, WriteEnds, RestIsAsked DEF Fallow
  <2> QED
    BY <2>1, <2>2, <2>3 DEF Statement
<1>2. CASE w # v
  <2> DEFINE s == session[v]
             s2 == session'[v]
  <2>1. Shape(s) /\ Asked(s)
    BY DEF IInv, Sound, AllAsked
  <2>2. /\ s2.pc = s.pc /\ s2.req = s.req /\ s2.held = s.held /\ s2.langs = s.langs
    BY <1>2, <2>1, StepKeeps, ForgetIsAsked DEF StepOf
  <2>3. Fallow(nodes', tr', s)
    <3>1. StepOf(w)
      BY StepKeeps
    <3>2. CASE UNCHANGED <<nodes, tr, used>>
      BY <3>2
    <3>3. CASE Allowed(w, nodes') /\ Answering(w, tr')
      BY <1>2, <3>3, FallowStays
    <3> QED
      BY <3>1, <3>2, <3>3 DEF StepOf
  <2> QED
    BY <2>2, <2>3 DEF Fallow
<1> QED
  BY <1>1, <1>2

\* A row that gets another parent, or is new, gets one without an answer.
LEMMA GrowsOnFallow ==
  ASSUME IInv, NEW w \in Workers, Fallow(nodes, tr, session[w]),
         NEW t, NEW x, Allowed(w, t), Answering(w, x),
         NEW n \in DOMAIN t, n \in DOMAIN nodes => t[n].parent # nodes[n].parent
  PROVE  /\ t[n].parent # None => ~ HasContent(tr, t[n].parent)
         /\ \A p \in x \ tr : p[1] \notin used
<1> DEFINE s == session[w]
           r == s.req
<1>1. s.pc = "write" /\ r.op \in {"create", "move", "reorder"} /\ t[n].parent = r.parent
  BY DEF Allowed, Writes
<1>2. \A p \in x \ tr : p[1] \notin used
  BY <1>1 DEF Answering
<1>3. CASE r.op \in {"create", "move"}
  BY <1>1, <1>2, <1>3 DEF Fallow, Serving
<1>4. CASE r.op = "reorder"
  <2>1. n \in DOMAIN nodes /\ n \in DOMAIN s.held /\ s.held[n].parent # r.parent
    BY <1>1, <1>4 DEF Allowed, Writes
  <2>2. s.langs = {} /\ (r.parent # None => Langs(tr, r.parent) \subseteq s.langs)
    BY <1>1, <1>4, <2>1 DEF Fallow, Serving
  <2> QED
    BY <1>1, <1>2, <2>2 DEF HasContent
<1> QED
  BY <1>1, <1>3, <1>4

LEMMA LeafKept ==
  ASSUME IInv, IInv', LeafContent, NEW w \in Workers, Fallow(nodes, tr, session[w]), StepOf(w)
  PROVE  LeafContent'
<1>1. CASE UNCHANGED <<nodes, tr>>
  BY <1>1 DEF LeafContent, Tree!LeafContent, Tree!LeavesOnly, Tree!HasContent
<1>2. CASE Allowed(w, nodes') /\ Answering(w, tr')
  <2> SUFFICES ASSUME NEW n \in DOMAIN nodes', NEW l \in Languages,
                      <<nodes'[n].parent, l>> \in tr'
               PROVE  FALSE
    BY DEF LeafContent, Tree!LeafContent, Tree!LeavesOnly, Tree!HasContent, Tree!Langs
  <2> DEFINE p == nodes'[n].parent
             grown == n \in DOMAIN nodes => p # nodes[n].parent
  <2>1. p # None
    BY NodeRepoAssumption DEF IInv, Tables, ReferencesHold
  <2>2. CASE ~ grown
    <3>1. n \in DOMAIN nodes /\ p = nodes[n].parent /\ p \in used
      BY <2>1, <2>2 DEF IInv, Tables, ReferencesHold
    <3>2. <<p, l>> \in tr' \ tr
      BY <3>1 DEF LeafContent, Tree!LeafContent, Tree!LeavesOnly, Tree!HasContent, Tree!Langs
    <3>3. session[w].pc = "write" /\ session[w].req.op = "upsert" /\ p = session[w].req.node
      BY <1>2, <3>1, <3>2 DEF Answering
    <3> QED
      BY <3>1, <3>3 DEF Fallow, Serving
  <2>3. CASE grown
    <3>1. ~ HasContent(tr, p) /\ \A q \in tr' \ tr : q[1] \notin used
      BY <1>2, <2>1, <2>3, GrowsOnFallow
    <3>2. <<p, l>> \in tr' \ tr
      BY <3>1 DEF HasContent, Langs
    <3>3. p \in used
      <4>1. CASE n \notin DOMAIN nodes
        BY <1>2, <2>1, <4>1 DEF Allowed
      <4>2. CASE n \in DOMAIN nodes
        <5>1. /\ session[w].pc = "write" /\ session[w].req.op \in {"move", "reorder"}
              /\ session[w].req.parent = p
          BY <1>2, <2>3, <4>2 DEF Allowed, Writes
        <5> QED
          BY <2>1, <5>1, AtStatement, ParentIsNamed
      <4> QED
        BY <4>1, <4>2
    <3> QED
      BY <3>1, <3>2, <3>3
  <2> QED
    BY <2>2, <2>3
<1> QED
  BY <1>1, <1>2 DEF StepOf

\* However many requests run at the same time, a node that stores an answer gets
\* no children as long as no two requests under way answer a node and give it a
\* child: the checks of ensure_parent_allows_children, of a reorder and of an upsert
\* then still hold at the commit, although others create, move, answer, rename and
\* delete in between.  (A create under a node and an upsert of it at a time can
\* both pass: the run node_leaf_content finds it.)
THEOREM LeafContentWhenGrowingApart ==
  Spec /\ []GrowsApart => []LeafContent
<1> DEFINE GInv == /\ AllAsked /\ LeafContent
                   /\ \A v \in Workers : Fallow(nodes, tr, session[v])
<1>1. Init => GInv
  <2> SUFFICES ASSUME Init PROVE GInv
    OBVIOUS
  <2>1. LeafContent
    BY WorkloadAssumption DEF Init, Tree!GoodDatabase, LeafContent, Tree!LeafContent
  <2>2. \A w \in Workers : session[w] = Idle
    BY DEF Init
  <2> QED
    BY <2>1, <2>2, RestIsAsked DEF AllAsked, Fallow
<1>2. IInv /\ GInv /\ GrowsApart /\ [Next]_vars => GInv'
  <2> SUFFICES ASSUME IInv, GInv, GrowsApart, [Next]_vars PROVE GInv'
    OBVIOUS
  <2>1. CASE Next
    <3>1. PICK w \in Workers : Start(w) \/ Statement(w) \/ Abort(w)
      BY <2>1 DEF Next
    <3>2. AllAsked'
      BY <3>1, AskedKept
    <3>3. LeafContent'
      BY <3>1, StepKeeps, LeafKept
    <3>4. \A v \in Workers : Fallow(nodes', tr', session'[v])
      BY <3>1, FallowKept
    <3> QED
      BY <3>2, <3>3, <3>4
  <2>2. CASE UNCHANGED vars
    BY <2>2 DEF vars, AllAsked, LeafContent, Tree!LeafContent
  <2> QED
    BY <2>1, <2>2
<1>3. GInv => LeafContent
  OBVIOUS
<1> QED
  BY <1>1, <1>2, <1>3, InitIsSound, Invariance, PTL DEF Spec
-----------------------------------------------------------------------------
(* Requests that delete answers while others count them *)

\* What an untranslate in session s that has counted the answers of its node may
\* still rely on, as long as the node is stored: the answers it counted besides
\* its own are stored, and before it writes there is one.
Counted(t, x, s) ==
  LET r == s.req IN
  s.pc \in {"translation", "write"} /\ r.op = "untranslate" =>
    /\ r.node \in DOMAIN t => s.langs \ {r.lang} \subseteq Langs(x, r.node)
    /\ s.pc = "write" => /\ Cardinality(s.langs) > 1
                         /\ s.row \in {<<r.node, r.lang>>, None}

\* No request is about to delete an answer of a node that another, which is to
\* delete a different one, has counted.
CountsApart ==
  \A v \in Workers : \A w \in Workers \ {v} :
    LET q == session[v].req r == session[w].req IN
    /\ session[v].pc \in {"translation", "write"} /\ q.op = "untranslate"
    /\ session[w].pc = "write" /\ r.op = "untranslate"
    /\ q.node = r.node
    => q.lang = r.lang

\* The step of w takes p from the answers: with its node, or as its row.
Removes(w, p) ==
  \/ p[1] \notin DOMAIN nodes'
  \/ session[w].pc = "write" /\ session[w].req.op = "untranslate" /\ p = session[w].row

\* A list of two answers holds another one.
LEMMA AnotherAnswer ==
  ASSUME NEW S, NEW l, Cardinality(S) > 1
  PROVE  S \ {l} # {}
<1> SUFFICES ASSUME S \ {l} = {} PROVE FALSE
  OBVIOUS
<1>1. CASE S = {}
  BY <1>1, FS_EmptySet
<1>2. CASE S = {l}
  BY <1>2, FS_Singleton
<1> QED
  BY <1>1, <1>2

\* Answers go with their node or by an untranslate: no other request removes any.
LEMMA WhoRemoves ==
  ASSUME IInv, NEW w \in Workers, Start(w) \/ Statement(w) \/ Abort(w)
  PROVE  \A p \in tr \ tr' : Removes(w, p)
<1> SUFFICES ASSUME NEW p \in tr \ tr' PROVE Removes(w, p)
  OBVIOUS
<1>1. ASSUME NEW t, NEW x, NEW s, Commit(w, t, x, s)
      PROVE  p \notin x /\ nodes' = t
  BY <1>1 DEF Commit, Answer, Continue
<1>2. ASSUME NEW new, NEW s, Save(w, new, s)
      PROVE  FALSE
  BY <1>1, <1>2 DEF Save, Answer, Continue
<1>3. ~ Answer(w)
  BY DEF Answer, Continue
<1>4. ~ Start(w) /\ ~ Abort(w)
  <2>1. ~ Start(w)
    BY StartTurns
  <2> QED
    BY <1>3, <2>1 DEF Abort
<1>5. ~ \/ Load(w) \/ ReadParent(w) \/ ReadTitle(w) \/ ReadMaxSort(w) \/ Descend(w)
        \/ ReadChildren(w) \/ ReadTranslation(w) \/ LoadNodes(w) \/ ReadSiblings(w)
        \/ Reload(w)
  BY <1>3 DEF Load, ReadParent, ReadTitle, ReadMaxSort, Descend, ReadChildren,
              ReadTranslation, LoadNodes, ReadSiblings, Reload, Continue
<1>6. CASE WriteCreate(w)
  BY <1>1, <1>3, <1>6 DEF WriteCreate
<1>7. CASE WriteUpdate(w) \/ WriteMove(w) \/ WriteReorder(w)
  BY <1>2, <1>7 DEF WriteUpdate, WriteMove, WriteReorder
<1>8. CASE WriteTranslation(w)
  BY <1>1, <1>8 DEF WriteTranslation
<1>9. CASE DeleteTranslation(w)
  BY <1>1, <1>9 DEF DeleteTranslation, Removes
<1>10. CASE DeleteNode(w)
  <2> DEFINE n == session[w].req.node
             gone == IF n \in DOMAIN nodes THEN Deleted(nodes, n) ELSE {}
  <2>1. Commit(w, Without(nodes, gone), WithoutContent(tr, gone), Idle)
    BY <1>10 DEF DeleteNode
  <2> HIDE DEF gone
  <2>2. p \notin WithoutContent(tr, gone) /\ nodes' = Without(nodes, gone)
    BY <1>1, <2>1
  <2> QED
    BY <2>2 DEF Without, WithoutContent, Removes
<1> QED
  BY <1>4, <1>5, <1>6, <1>7, <1>8, <1>9, <1>10 DEF Statement

\* What v counted survives the step of another worker.
LEMMA CountedStays ==
  ASSUME IInv, CountsApart, NEW v \in Workers, Counted(nodes, tr, session[v]),
         NEW w \in Workers \ {v}, Counted(nodes, tr, session[w]),
         Start(w) \/ Statement(w) \/ Abort(w)
  PROVE  Counted(nodes', tr', session'[v])
<1> DEFINE s == session[v]
           r == s.req
           s2 == session'[v]
<1>1. Shape(s) /\ (s2 = s \/ s2 = Forget(s, tr'))
  BY StepKeeps DEF StepOf, IInv, Sound
<1>2. /\ s2.pc = s.pc /\ s2.req = r /\ s2.langs = s.langs
      /\ s2.row \in {s.row, None}
  BY <1>1 DEF Shape, Forget
<1> SUFFICES ASSUME s.pc \in {"translation", "write"}, r.op = "untranslate",
                    r.node \in DOMAIN nodes', NEW l \in s.langs \ {r.lang}
             PROVE  l \in Langs(tr', r.node)
  BY <1>2 DEF Counted
<1>3. r.node \in DOMAIN nodes
  <2>1. r.node \in used
    BY AtStatement DEF Named
  <2> QED
    BY <2>1, StepKeeps DEF StepOf, Allowed, KeepsOwners
<1>4. l \in Languages /\ <<r.node, l>> \in tr
  BY <1>3 DEF Counted, Langs
<1>5. ASSUME <<r.node, l>> \notin tr' PROVE FALSE
  <2> DEFINE q == session[w].req
  <2>1. /\ session[w].pc = "write" /\ q.op = "untranslate"
        /\ session[w].row = <<r.node, l>>
    BY <1>4, <1>5, WhoRemoves DEF Removes
  <2>2. r.node \in NodeIds
    BY <1>3 DEF IInv, Tables
  <2>3. <<r.node, l>> = <<q.node, q.lang>>
    BY <1>4, <2>1, <2>2, NodeRepoAssumption DEF Counted
  <2>4. r.node = q.node /\ l = q.lang
    BY <2>3
  <2> QED
    BY <2>1, <2>4 DEF CountsApart
<1> QED
  BY <1>4, <1>5 DEF Langs

LEMMA CountedKept ==
  ASSUME IInv, CountsApart, \A u \in Workers : Counted(nodes, tr, session[u]),
         NEW v \in Workers, NEW w \in Workers, Start(w) \/ Statement(w) \/ Abort(w)
  PROVE  Counted(nodes', tr', session'[v])
<1> DEFINE s == session[w]
           r == s.req
           s2 == session'[w]
<1>1. CASE w # v
  BY <1>1, CountedStays
<1>2. CASE Start(w)
  <2>1. PICK q \in Workload[w] : s2.pc = First(q) /\ s2.req = q
    BY <1>2, StartTurns
  <2>2. q.op = "untranslate" => First(q) = "load"
    BY DEF First
  <2>3. Counted(nodes', tr', s2)
    BY <2>1, <2>2 DEF Counted
  <2> QED
    BY <1>1, <2>3
<1>3. CASE \/ WriteCreate(w) \/ WriteUpdate(w) \/ WriteMove(w) \/ WriteReorder(w)
           \/ WriteTranslation(w) \/ DeleteTranslation(w) \/ DeleteNode(w)
           \/ Reload(w) \/ Abort(w)
  <2>1. s2.pc \in {"idle", "reload"}
    BY <1>3, WriteEnds DEF Idle, Reloading
  <2> QED
    BY <1>1, <2>1 DEF Counted
<1>4. CASE Load(w)
  <2>1. CASE Ends(w)
    BY <1>1, <2>1 DEF Ends, Idle, Counted
  <2>2. CASE ~ Ends(w)
    <3>1. /\ UNCHANGED <<nodes, tr>> /\ s2.req = r /\ s2.pc = AfterLoad(r)
          /\ s2.langs = Langs(tr, r.node)
      BY <1>4, <2>2, LoadTurns DEF Turn
    <3>2. r.op = "untranslate" => s2.pc = "translation"
      BY <3>1 DEF AfterLoad
    <3>3. Counted(nodes', tr', s2)
      BY <3>1, <3>2 DEF Counted
    <3> QED
      BY <1>1, <3>3
  <2> QED
    BY <2>1, <2>2
<1>5. CASE ReadTranslation(w)
  <2>1. CASE Ends(w)
    BY <1>1, <2>1 DEF Ends, Idle, Counted
  <2>2. CASE ~ Ends(w)
    <3>1. /\ UNCHANGED <<nodes, tr>> /\ s2.req = r /\ s2.langs = s.langs
          /\ Cardinality(s.langs) > 1 /\ s2.row = <<r.node, r.lang>>
      BY <1>5, <2>2, ReadTranslationTurns DEF Turn
    <3>2. s.pc = "translation"
      BY <1>5 DEF ReadTranslation
    <3>3. Counted(nodes', tr', s2)
      BY <3>1, <3>2 DEF Counted
    <3> QED
      BY <1>1, <3>3
  <2> QED
    BY <2>1, <2>2
<1>6. CASE \/ ReadParent(w) \/ ReadTitle(w) \/ ReadMaxSort(w) \/ Descend(w)
           \/ ReadChildren(w) \/ LoadNodes(w) \/ ReadSiblings(w)
  <2>1. r.op # "untranslate" /\ s.pc \in Serving
    <3>1. s.pc \in {"parent", "title", "max", "descend", "children", "nodes", "siblings"}
      BY <1>6 DEF ReadParent, ReadTitle, ReadMaxSort, Descend, ReadChildren, LoadNodes,
                  ReadSiblings
    <3> QED
      BY <3>1, AtStatement DEF Ops, Serving
  <2>2. s2.req = r \/ s2 = Idle
    <3>1. \A pc, F : Turn(w, pc, F) /\ "req" \notin F => s2.req = r
      BY DEF Turn
    <3>2. Ends(w) => s2 = Idle
      BY DEF Ends
    <3>3. CASE ReadParent(w)
      BY <3>1, <3>2, <3>3, ReadParentTurns
    <3>4. CASE ReadTitle(w)
      BY <3>1, <3>2, <3>4, ReadTitleTurns
    <3>5. CASE ReadMaxSort(w)
      BY <3>1, <3>2, <3>5, ReadMaxSortTurns
    <3>6. CASE Descend(w)
      BY <3>1, <3>2, <3>6, DescendTurns
    <3>7. CASE ReadChildren(w)
      BY <3>1, <3>2, <3>7, ReadChildrenTurns
    <3>8. CASE LoadNodes(w)
      BY <3>1, <3>2, <3>8, LoadNodesTurns
    <3>9. CASE ReadSiblings(w)
      BY <3>1, <3>2, <3>9, ReadSiblingsTurns
    <3> QED
      BY <1>6, <3>3, <3>4, <3>5, <3>6, <3>7, <3>8, <3>9
  <2>3. Counted(nodes', tr', s2)
    BY <2>1, <2>2 DEF Counted, Idle
  <2> QED
    BY <1>1, <2>3
<1> QED
  BY <1>2, <1>3, <1>4, <1>5, <1>6 DEF Statement

\* A step takes no last answer from a node that stays.
LEMMA AnswerKept ==
  ASSUME IInv, NEW w \in Workers, Counted(nodes, tr, session[w]),
         Start(w) \/ Statement(w) \/ Abort(w)
  PROVE  Tree!KeepsAnAnswer
<1> SUFFICES ASSUME NEW n \in DOMAIN nodes, n \in DOMAIN nodes',
                    NEW l \in Languages, <<n, l>> \in tr
             PROVE  \E k \in Languages : <<n, k>> \in tr'
  BY DEF Tree!KeepsAnAnswer, Tree!HasContent, Tree!Langs
<1>1. CASE <<n, l>> \in tr'
  BY <1>1
<1>2. CASE <<n, l>> \notin tr'
  <2> DEFINE s == session[w]
             r == s.req
  <2>1. s.pc = "write" /\ r.op = "untranslate" /\ s.row = <<n, l>>
    BY <1>2, WhoRemoves DEF Removes
  <2>2. n \in NodeIds
    BY DEF IInv, Tables
  <2>3. <<n, l>> = <<r.node, r.lang>>
    BY <2>1, <2>2, NodeRepoAssumption DEF Counted
  <2>4. n = r.node /\ l = r.lang
    BY <2>3
  <2>5. PICK k \in s.langs \ {l} : k \in Langs(tr, n)
    BY <2>1, <2>4, AnotherAnswer DEF Counted
  <2>6. k \in Languages /\ <<n, k>> \in tr /\ <<n, k>> # <<n, l>>
    BY <2>5 DEF Langs
  <2>7. <<n, k>> \in tr'
    BY <2>1, <2>6, WhoRemoves DEF Removes
  <2> QED
    BY <2>6, <2>7
<1> QED
  BY <1>1, <1>2

\* However many requests run at the same time, a node loses its last answer while
\* it exists in one way only: a request commits the delete of an answer that
\* another has counted, which then deletes a different one of the node.  (The code
\* lets it happen: the run node_last_translation finds it.)  As long as none does,
\* the answers that delete_translation counted when it loaded the node are still
\* there when it commits, although others answer, move, rename and delete in
\* between, and also when they delete the same answer.
THEOREM LastAnswerStaysWhenCountingApart ==
  Spec /\ []CountsApart => LastTranslationKept
<1> DEFINE AllCounted == \A v \in Workers : Counted(nodes, tr, session[v])
           Kept == Tree!KeepsAnAnswer
<1>1. Init => AllCounted
  BY DEF Init, Idle, Counted
<1>2. IInv /\ CountsApart /\ AllCounted /\ [Next]_vars => AllCounted'
  <2> SUFFICES ASSUME IInv, CountsApart, AllCounted, [Next]_vars PROVE AllCounted'
    OBVIOUS
  <2>1. CASE Next
    BY <2>1, CountedKept DEF Next
  <2>2. CASE UNCHANGED vars
    BY <2>2 DEF vars
  <2> QED
    BY <2>1, <2>2
<1>3. IInv /\ AllCounted /\ [Next]_vars => [Kept]_<<nodes, tr>>
  <2> SUFFICES ASSUME IInv, AllCounted, [Next]_vars PROVE [Kept]_<<nodes, tr>>
    OBVIOUS
  <2>1. CASE Next
    BY <2>1, AnswerKept DEF Next
  <2>2. CASE UNCHANGED vars
    BY <2>2 DEF vars
  <2> QED
    BY <2>1, <2>2
<1> QED
  BY <1>1, <1>2, <1>3, Invariance, PTL DEF Spec, LastTranslationKept
=============================================================================
