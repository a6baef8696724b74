--------------------------- MODULE CvServiceProofs ---------------------------
(***************************************************************************)
(* CvService for any number of CVs, users and requests at a time.           *)
(*                                                                          *)
(* The inductive invariant adds to TypeOK and the two accounts of missing   *)
(* and left over PDFs what each request may rely on where it stands:        *)
(*   - Phase: which requests reach which statement, and which rows they     *)
(*     have locked;                                                         *)
(*   - Locking: a locked row is a current row of the user who locked it, so *)
(*     nothing but the commit of that transaction can change it;            *)
(*   - Unseen: until an upload has ended, nobody else has got further with  *)
(*     its id than to look for its row;                                     *)
(*   - Stands: where the row and the PDF of a request's CV are.             *)
(***************************************************************************)
EXTENDS CvService, TLAPS

Statements ==
  {"idle", "load", "unset", "lock", "put", "insert", "undo", "save", "remove", "drop"}

\* The shapes of TypeOK, part by part.
Tables ==
  /\ DOMAIN rows \subseteq used /\ objects \subseteq used /\ used \subseteq CvIds
  /\ cut \subseteq used
  /\ \A c \in DOMAIN rows : rows[c] \in [owner : Users, current : BOOLEAN]

\* rows is a function: TypeOK says so only of its domain and its values.
IsTable == rows = [c \in DOMAIN rows |-> rows[c]]

IsSession(s) ==
  /\ DOMAIN s = {"pc", "req", "cv", "was", "seen", "unset"}
  /\ s.pc \in Statements /\ s.was \in BOOLEAN
  /\ IF s.pc = "idle" THEN s = Idle ELSE s.req \in Request /\ s.cv \in used
  /\ s.seen \subseteq used /\ s.unset \subseteq s.seen

OneCurrent == \A u \in Users : \A c, d \in CurrentOf(u) : c = d

LockedOnce == \A v, w \in Workers : v # w => session[v].unset \cap session[w].unset = {}

\* Which requests reach which statement.
Phase(s) ==
  /\ s.pc \in {"put", "insert", "undo"} => s.req.op = "upload"
  /\ s.pc \in {"remove", "drop"} => s.req.op = "delete"
  /\ s.pc = "save" => s.req.op = "patch"
  /\ s.pc = "load" => s.req.op # "upload"
  /\ s.pc \in {"unset", "lock"} => s.req.op # "delete"
  /\ s.pc \in {"unset", "lock"} \/ s.unset # {} =>
       s.req.current = TRUE /\ (s.req.op = "patch" => ~ s.was)
  /\ s.pc \in {"idle", "load", "unset", "lock", "undo", "remove", "drop"} => s.unset = {}

\* A locked row is a current row of the caller.
Locking(s) == s.unset # {} => s.unset \subseteq CurrentOf(s.req.user)

Uploading(s) == s.pc # "idle" /\ s.req.op = "upload"

\* Nobody else has found a row of the id an upload has drawn.
Unseen(w) ==
  Uploading(session[w]) /\ (session[w].pc = "undo" => session[w].cv \notin cut) =>
    /\ session[w].cv \notin DOMAIN rows
    /\ \A v \in Workers \ {w} : session[v].cv = session[w].cv => session[v].pc = "load"

\* Where the row and the PDF of the request are.
Stands(s) ==
  /\ s.pc = "insert" => s.cv \in objects
  /\ s.pc = "drop" => s.cv \notin objects
  /\ ~ Uploading(s) /\ s.pc \notin {"idle", "load"} /\ s.cv \in DOMAIN rows =>
       rows[s.cv].owner = s.req.user

\* Uploads draw different ids.
Drawn ==
  \A v, w \in Workers :
    v # w /\ Uploading(session[v]) /\ Uploading(session[w]) =>
      session[v].cv # session[w].cv

IInv ==
  /\ IsTable /\ Tables
  /\ session = [w \in Workers |-> session[w]]
  /\ \A w \in Workers : IsSession(session[w])
  /\ OneCurrent /\ LockedOnce /\ Drawn
  /\ \A w \in Workers : /\ Phase(session[w])
                        /\ Locking(session[w])
                        /\ Unseen(w)
                        /\ Stands(session[w])
  /\ OrphansAccounted /\ DanglingAccounted

-----------------------------------------------------------------------------
(* Each step keeps the invariant *)

\* A row whose is_current is written.
LEMMA MarkedRow ==
  ASSUME NEW old \in [owner : Users, current : BOOLEAN], NEW b \in BOOLEAN
  PROVE  /\ [old EXCEPT !.current = b] \in [owner : Users, current : BOOLEAN]
         /\ [old EXCEPT !.current = b].owner = old.owner
         /\ [old EXCEPT !.current = b].current = b
  OBVIOUS

\* The row of a new CV.
LEMMA NewRow ==
  ASSUME NEW u \in Users, NEW b \in BOOLEAN
  PROVE  /\ [owner |-> u, current |-> b] \in [owner : Users, current : BOOLEAN]
         /\ [owner |-> u, current |-> b].owner = u
         /\ [owner |-> u, current |-> b].current = b
  OBVIOUS

\* A request that ends, its transaction undone, leaves what it accounted for in cut.
LEMMA EndKeeps ==
  ASSUME IInv, NEW w \in Workers,
         End(w), UNCHANGED <<rows, objects, used>>, cut \subseteq cut', cut' \subseteq used,
         session[w].pc \in {"insert", "undo"} => session[w].cv \in cut' \/ session[w].cv \notin objects,
         session[w].pc = "drop" => session[w].cv \in cut'
  PROVE  IInv'
<1> USE CvAssumption
<1> DEFINE s == session[w]
           t == Idle
<1>0. session' = [v \in Workers |-> session'[v]]
  BY DEF IInv, End, Go, Idle
<1>1. /\ session'[w] = t
      /\ \A v \in Workers \ {w} : session'[v] = session[v]
  BY DEF IInv, End, Go, Idle
<1>2. Tables'
  BY <1>1 DEF IInv, Tables, IsSession, End, Go, Idle
<1>3. \A v \in Workers : IsSession(session[v])'
  <2>1. IsSession(session[w])'
    BY <1>1, <1>2 DEF IInv, IsSession, Statements, CurrentOf, Tables, Phase, End, Go, Idle
  <2>2. \A v \in Workers \ {w} : IsSession(session[v])'
    BY <1>1, <1>2 DEF IInv, IsSession, Tables, End, Go, Idle
  <2> QED
    BY <1>1, <2>1, <2>2
<1>4. OneCurrent'
  BY <1>1 DEF IInv, OneCurrent, CurrentOf, Tables, IsSession, End, Go, Idle
<1>5. LockedOnce'
  BY <1>1 DEF IInv, LockedOnce, End, Go, Idle
<1>6. Drawn'
  BY <1>1 DEF IInv, Drawn, Uploading, IsSession, End, Go, Idle
<1>7. \A v \in Workers : Phase(session[v])'
  BY <1>1 DEF IInv, Phase, IsSession, End, Go, Idle
<1>8. \A v \in Workers : Locking(session[v])'
  BY <1>1 DEF IInv, Locking, CurrentOf, LockedOnce, Phase, Tables, IsSession, End, Go, Idle
<1>9. \A v \in Workers : Unseen(v)'
  BY <1>1 DEF IInv, Unseen, Uploading, Phase, Tables, Drawn, IsSession, End, Go, Idle
<1>10. \A v \in Workers : Stands(session[v])'
  BY <1>1 DEF IInv, Stands, Unseen, Uploading, Phase, Tables, IsSession, End, Go, Idle
<1>11. OrphansAccounted'
  BY <1>1 DEF IInv, OrphansAccounted, Stands, Phase, Uploading, Tables, IsSession, End, Go, Idle
<1>12. DanglingAccounted'
  BY <1>1 DEF IInv, DanglingAccounted, Stands, Phase, Unseen, Uploading, Tables, IsSession, End, Go, Idle
<1>13. IsTable'
  BY DEF IInv, IsTable
<1> QED
  BY <1>0, <1>13, <1>2, <1>3, <1>4, <1>5, <1>6, <1>7, <1>8, <1>9, <1>10, <1>11, <1>12 DEF IInv

\* An upload draws its id.
LEMMA StartUploadKeeps ==
  ASSUME IInv, NEW w \in Workers,
         NEW r \in Request, r.op = "upload", NEW c \in CvIds \ used, session[w].pc = "idle",
         used' = used \cup {c}, UNCHANGED <<rows, objects, cut>>,
         Go(w, [Idle EXCEPT !.pc = IF r.current THEN "unset" ELSE "put", !.req = r, !.cv = c])
  PROVE  IInv'
<1> USE CvAssumption
<1> DEFINE s == session[w]
           t == [Idle EXCEPT !.pc = IF r.current THEN "unset" ELSE "put", !.req = r, !.cv = c]
<1>0. session' = [v \in Workers |-> session'[v]]
  BY DEF IInv, Go, Idle, Request
<1>1. /\ session'[w] = t
      /\ \A v \in Workers \ {w} : session'[v] = session[v]
  BY DEF IInv, Go, Idle, Request
<1>2. Tables'
  BY <1>1 DEF IInv, Tables, IsSession, Go, Idle, Request
<1>3. \A v \in Workers : IsSession(session[v])'
  <2>1. IsSession(session[w])'
    BY <1>1, <1>2 DEF IInv, IsSession, Statements, CurrentOf, Tables, Phase, Go, Idle, Request
  <2>2. \A v \in Workers \ {w} : IsSession(session[v])'
    BY <1>1, <1>2 DEF IInv, IsSession, Tables, Go, Idle, Request
  <2> QED
    BY <1>1, <2>1, <2>2
<1>4. OneCurrent'
  BY <1>1 DEF IInv, OneCurrent, CurrentOf, Tables, IsSession, Go, Idle, Request
<1>5. LockedOnce'
  BY <1>1 DEF IInv, LockedOnce, Go, Idle, Request
<1>6. Drawn'
  BY <1>1 DEF IInv, Drawn, Uploading, IsSession, Go, Idle, Request
<1>7. \A v \in Workers : Phase(session[v])'
  BY <1>1 DEF IInv, Phase, IsSession, Go, Idle, Request
<1>8. \A v \in Workers : Locking(session[v])'
  BY <1>1 DEF IInv, Locking, CurrentOf, LockedOnce, Phase, Tables, IsSession, Go, Idle, Request
<1>9. \A v \in Workers : Unseen(v)'
  BY <1>1 DEF IInv, Unseen, Uploading, Phase, Tables, Drawn, IsSession, Go, Idle, Request
<1>10. \A v \in Workers : Stands(session[v])'
  BY <1>1 DEF IInv, Stands, Unseen, Uploading, Phase, Tables, IsSession, Go, Idle, Request
<1>11. OrphansAccounted'
  BY <1>1 DEF IInv, OrphansAccounted, Stands, Phase, Uploading, Tables, IsSession, Go, Idle, Request
<1>12. DanglingAccounted'
  BY <1>1 DEF IInv, DanglingAccounted, Stands, Phase, Unseen, Uploading, Tables, IsSession, Go, Idle, Request
<1>13. IsTable'
  BY DEF IInv, IsTable
<1> QED
  BY <1>0, <1>13, <1>2, <1>3, <1>4, <1>5, <1>6, <1>7, <1>8, <1>9, <1>10, <1>11, <1>12 DEF IInv

\* A patch or delete names an id that was given out.
LEMMA StartOtherKeeps ==
  ASSUME IInv, NEW w \in Workers,
         NEW r \in Request, r.op # "upload", r.cv \in used, session[w].pc = "idle",
         UNCHANGED <<rows, objects, used, cut>>,
         Go(w, [Idle EXCEPT !.pc = "load", !.req = r, !.cv = r.cv])
  PROVE  IInv'
<1> USE CvAssumption
<1> DEFINE s == session[w]
           t == [Idle EXCEPT !.pc = "load", !.req = r, !.cv = r.cv]
<1>0. session' = [v \in Workers |-> session'[v]]
  BY DEF IInv, Go, Idle, Request
<1>1. /\ session'[w] = t
      /\ \A v \in Workers \ {w} : session'[v] = session[v]
  BY DEF IInv, Go, Idle, Request
<1>2. Tables'
  BY <1>1 DEF IInv, Tables, IsSession, Go, Idle, Request
<1>3. \A v \in Workers : IsSession(session[v])'
  <2>1. IsSession(session[w])'
    BY <1>1, <1>2 DEF IInv, IsSession, Statements, CurrentOf, Tables, Phase, Go, Idle, Request
  <2>2. \A v \in Workers \ {w} : IsSession(session[v])'
    BY <1>1, <1>2 DEF IInv, IsSession, Tables, Go, Idle, Request
  <2> QED
    BY <1>1, <2>1, <2>2
<1>4. OneCurrent'
  BY <1>1 DEF IInv, OneCurrent, CurrentOf, Tables, IsSession, Go, Idle, Request
<1>5. LockedOnce'
  BY <1>1 DEF IInv, LockedOnce, Go, Idle, Request
<1>6. Drawn'
  BY <1>1 DEF IInv, Drawn, Uploading, IsSession, Go, Idle, Request
<1>7. \A v \in Workers : Phase(session[v])'
  BY <1>1 DEF IInv, Phase, IsSession, Go, Idle, Request
<1>8. \A v \in Workers : Locking(session[v])'
  BY <1>1 DEF IInv, Locking, CurrentOf, LockedOnce, Phase, Tables, IsSession, Go, Idle, Request
<1>9. \A v \in Workers : Unseen(v)'
  BY <1>1 DEF IInv, Unseen, Uploading, Phase, Tables, Drawn, IsSession, Go, Idle, Request
<1>10. \A v \in Workers : Stands(session[v])'
  BY <1>1 DEF IInv, Stands, Unseen, Uploading, Phase, Tables, IsSession, Go, Idle, Request
<1>11. OrphansAccounted'
  BY <1>1 DEF IInv, OrphansAccounted, Stands, Phase, Uploading, Tables, IsSession, Go, Idle, Request
<1>12. DanglingAccounted'
  BY <1>1 DEF IInv, DanglingAccounted, Stands, Phase, Unseen, Uploading, Tables, IsSession, Go, Idle, Request
<1>13. IsTable'
  BY DEF IInv, IsTable
<1> QED
  BY <1>0, <1>13, <1>2, <1>3, <1>4, <1>5, <1>6, <1>7, <1>8, <1>9, <1>10, <1>11, <1>12 DEF IInv

\* The row of a patch or delete is found.
LEMMA LoadedKeeps ==
  ASSUME IInv, NEW w \in Workers,
         session[w].pc = "load", UNCHANGED <<rows, objects, used, cut>>,
         session[w].cv \in DOMAIN rows, rows[session[w].cv].owner = session[w].req.user,
         NEW was \in BOOLEAN, was = rows[session[w].cv].current,
         NEW pc, Go(w, [session[w] EXCEPT !.was = was, !.pc = pc]),
         pc = IF session[w].req.op = "delete" THEN "remove"
              ELSE IF session[w].req.current = TRUE /\ ~ was THEN "unset"
              ELSE "save"
  PROVE  IInv'
<1> USE CvAssumption
<1> DEFINE s == session[w]
           t == [s EXCEPT !.was = was, !.pc = pc]
<1>0. session' = [v \in Workers |-> session'[v]]
  BY DEF IInv, Go, Idle, Request
<1>1. /\ session'[w] = t
      /\ \A v \in Workers \ {w} : session'[v] = session[v]
  BY DEF IInv, Go, Idle, Request
<1>2. Tables'
  BY <1>1 DEF IInv, Tables, IsSession, Go, Idle, Request
<1>3. \A v \in Workers : IsSession(session[v])'
  <2>1. IsSession(session[w])'
    BY <1>1, <1>2 DEF IInv, IsSession, Statements, Tables, Idle
  <2>2. \A v \in Workers \ {w} : IsSession(session[v])'
    BY <1>1, <1>2 DEF IInv, IsSession, Tables, Go, Idle, Request
  <2> QED
    BY <1>1, <2>1, <2>2
<1>4. OneCurrent'
  BY <1>1 DEF IInv, OneCurrent, CurrentOf, Tables, IsSession, Go, Idle, Request
<1>5. LockedOnce'
  BY <1>1 DEF IInv, LockedOnce, Go, Idle, Request
<1>6. Drawn'
  BY <1>1 DEF IInv, Drawn, Uploading, IsSession, Go, Idle, Request
<1>7. \A v \in Workers : Phase(session[v])'
  BY <1>1 DEF IInv, Phase, IsSession, Go, Idle, Request
<1>8. \A v \in Workers : Locking(session[v])'
  BY <1>1 DEF IInv, Locking, CurrentOf, LockedOnce, Phase, Tables, IsSession, Go, Idle, Request
<1>9. \A v \in Workers : Unseen(v)'
  BY <1>1 DEF IInv, Unseen, Uploading, Phase, Tables, Drawn, IsSession, Go, Idle, Request
<1>10. \A v \in Workers : Stands(session[v])'
  BY <1>1 DEF IInv, Stands, Unseen, Uploading, Phase, Tables, IsSession, Go, Idle, Request
<1>11. OrphansAccounted'
  BY <1>1 DEF IInv, OrphansAccounted, Stands, Phase, Uploading, Tables, IsSession, Go, Idle, Request
<1>12. DanglingAccounted'
  BY <1>1 DEF IInv, DanglingAccounted, Stands, Phase, Unseen, Uploading, Tables, IsSession, Go, Idle, Request
<1>13. IsTable'
  BY DEF IInv, IsTable
<1> QED
  BY <1>0, <1>13, <1>2, <1>3, <1>4, <1>5, <1>6, <1>7, <1>8, <1>9, <1>10, <1>11, <1>12 DEF IInv

\* unset_all_current finds the current rows.
LEMMA FindCurrentKeeps ==
  ASSUME IInv, NEW w \in Workers,
         session[w].pc = "unset", UNCHANGED <<rows, objects, used, cut>>,
         NEW S, S = CurrentOf(session[w].req.user),
         Go(w, [session[w] EXCEPT !.pc = "lock", !.seen = S])
  PROVE  IInv'
<1> USE CvAssumption
<1> DEFINE s == session[w]
           t == [s EXCEPT !.pc = "lock", !.seen = S]
<1>0. session' = [v \in Workers |-> session'[v]]
  BY DEF IInv, Go, Idle, Request
<1>1. /\ session'[w] = t
      /\ \A v \in Workers \ {w} : session'[v] = session[v]
  BY DEF IInv, Go, Idle, Request
<1>2. Tables'
  BY <1>1 DEF IInv, Tables, IsSession, Go, Idle, Request
<1>3. \A v \in Workers : IsSession(session[v])'
  <2>1. IsSession(session[w])'
    BY <1>1, <1>2 DEF IInv, IsSession, Statements, CurrentOf, Tables, Phase
  <2>2. \A v \in Workers \ {w} : IsSession(session[v])'
    BY <1>1, <1>2 DEF IInv, IsSession, Tables, Go, Idle, Request
  <2> QED
    BY <1>1, <2>1, <2>2
<1>4. OneCurrent'
  BY <1>1 DEF IInv, OneCurrent, CurrentOf, Tables, IsSession, Go, Idle, Request
<1>5. LockedOnce'
  BY <1>1 DEF IInv, LockedOnce, Go, Idle, Request
<1>6. Drawn'
  BY <1>1 DEF IInv, Drawn, Uploading, IsSession, Go, Idle, Request
<1>7. \A v \in Workers : Phase(session[v])'
  BY <1>1 DEF IInv, Phase, IsSession, Go, Idle, Request
<1>8. \A v \in Workers : Locking(session[v])'
  BY <1>1 DEF IInv, Locking, CurrentOf, LockedOnce, Phase, Tables, IsSession, Go, Idle, Request
<1>9. \A v \in Workers : Unseen(v)'
  BY <1>1 DEF IInv, Unseen, Uploading, Phase, Tables, Drawn, IsSession, Go, Idle, Request
<1>10. \A v \in Workers : Stands(session[v])'
  BY <1>1 DEF IInv, Stands, Unseen, Uploading, Phase, Tables, IsSession, Go, Idle, Request
<1>11. OrphansAccounted'
  BY <1>1 DEF IInv, OrphansAccounted, Stands, Phase, Uploading, Tables, IsSession, Go, Idle, Request
<1>12. DanglingAccounted'
  BY <1>1 DEF IInv, DanglingAccounted, Stands, Phase, Unseen, Uploading, Tables, IsSession, Go, Idle, Request
<1>13. IsTable'
  BY DEF IInv, IsTable
<1> QED
  BY <1>0, <1>13, <1>2, <1>3, <1>4, <1>5, <1>6, <1>7, <1>8, <1>9, <1>10, <1>11, <1>12 DEF IInv

\* unset_all_current locks the rows that are current still.
LEMMA UnsetAllCurrentKeeps ==
  ASSUME IInv, NEW w \in Workers,
         session[w].pc = "lock", UNCHANGED <<rows, objects, used, cut>>,
         ~ \E c \in session[w].seen : Locked(w, c),
         NEW S, S = session[w].seen \cap CurrentOf(session[w].req.user),
         NEW pc, pc = IF session[w].req.op = "upload" THEN "put" ELSE "save",
         Go(w, [session[w] EXCEPT !.pc = pc, !.unset = S])
  PROVE  IInv'
<1> USE CvAssumption
<1> DEFINE s == session[w]
           t == [s EXCEPT !.pc = pc, !.unset = S]
<1>0. session' = [v \in Workers |-> session'[v]]
  BY DEF IInv, Locked, Go, Idle, Request
<1>1. /\ session'[w] = t
      /\ \A v \in Workers \ {w} : session'[v] = session[v]
  BY DEF IInv, Locked, Go, Idle, Request
<1>2. Tables'
  BY <1>1 DEF IInv, Tables, IsSession, Locked, Go, Idle, Request
<1>3. \A v \in Workers : IsSession(session[v])'
  <2>1. IsSession(session[w])'
    BY <1>1, <1>2 DEF IInv, IsSession, Statements
  <2>2. \A v \in Workers \ {w} : IsSession(session[v])'
    BY <1>1, <1>2 DEF IInv, IsSession, Tables, Locked, Go, Idle, Request
  <2> QED
    BY <1>1, <2>1, <2>2
<1>4. OneCurrent'
  BY <1>1 DEF IInv, OneCurrent, CurrentOf, Tables, IsSession, Locked, Go, Idle, Request
<1>5. LockedOnce'
  BY <1>1 DEF IInv, LockedOnce, Locked, Go, Idle, Request
<1>6. Drawn'
  BY <1>1 DEF IInv, Drawn, Uploading, IsSession, Locked, Go, Idle, Request
<1>7. \A v \in Workers : Phase(session[v])'
  BY <1>1 DEF IInv, Phase, IsSession, Locked, Go, Idle, Request
<1>8. \A v \in Workers : Locking(session[v])'
  BY <1>1 DEF IInv, Locking, CurrentOf, LockedOnce, Phase, Tables, IsSession, Locked, Go, Idle, Request
<1>9. \A v \in Workers : Unseen(v)'
  BY <1>1 DEF IInv, Unseen, Uploading, Phase, Tables, Drawn, IsSession, Locked, Go, Idle, Request
<1>10. \A v \in Workers : Stands(session[v])'
  BY <1>1 DEF IInv, Stands, Unseen, Uploading, Phase, Tables, IsSession, Locked, Go, Idle, Request
<1>11. OrphansAccounted'
  BY <1>1 DEF IInv, OrphansAccounted, Stands, Phase, Uploading, Tables, IsSession, Locked, Go, Idle, Request
<1>12. DanglingAccounted'
  BY <1>1 DEF IInv, DanglingAccounted, Stands, Phase, Unseen, Uploading, Tables, IsSession, Locked, Go, Idle, Request
<1>13. IsTable'
  BY DEF IInv, IsTable
<1> QED
  BY <1>0, <1>13, <1>2, <1>3, <1>4, <1>5, <1>6, <1>7, <1>8, <1>9, <1>10, <1>11, <1>12 DEF IInv

\* The PDF is stored, the row is not.
LEMMA PutObjectKeeps ==
  ASSUME IInv, NEW w \in Workers, PutObject(w)
  PROVE  IInv'
<1> USE CvAssumption
<1> DEFINE s == session[w]
           t == [s EXCEPT !.pc = "insert"]
<1>0. session' = [v \in Workers |-> session'[v]]
  BY DEF IInv, PutObject, Go, Idle, Request
<1>1. /\ session'[w] = t
      /\ \A v \in Workers \ {w} : session'[v] = session[v]
  BY DEF IInv, PutObject, Go, Idle, Request
<1>2. Tables'
  BY <1>1 DEF IInv, Tables, IsSession, PutObject, Go, Idle, Request
<1>3. \A v \in Workers : IsSession(session[v])'
  <2>1. IsSession(session[w])'
    BY <1>1, <1>2 DEF IInv, IsSession, Statements, CurrentOf, Tables, Phase, PutObject, Go, Idle, Request
  <2>2. \A v \in Workers \ {w} : IsSession(session[v])'
    BY <1>1, <1>2 DEF IInv, IsSession, Tables, PutObject, Go, Idle, Request
  <2> QED
    BY <1>1, <2>1, <2>2
<1>4. OneCurrent'
  BY <1>1 DEF IInv, OneCurrent, CurrentOf, Tables, IsSession, PutObject, Go, Idle, Request
<1>5. LockedOnce'
  BY <1>1 DEF IInv, LockedOnce, PutObject, Go, Idle, Request
<1>6. Drawn'
  BY <1>1 DEF IInv, Drawn, Uploading, IsSession, PutObject, Go, Idle, Request
<1>7. \A v \in Workers : Phase(session[v])'
  BY <1>1 DEF IInv, Phase, IsSession, PutObject, Go, Idle, Request
<1>8. \A v \in Workers : Locking(session[v])'
  BY <1>1 DEF IInv, Locking, CurrentOf, LockedOnce, Phase, Tables, IsSession, PutObject, Go, Idle, Request
<1>9. \A v \in Workers : Unseen(v)'
  BY <1>1 DEF IInv, Unseen, Uploading, Phase, Tables, Drawn, IsSession, PutObject, Go, Idle, Request
<1>10. \A v \in Workers : Stands(session[v])'
  BY <1>1 DEF IInv, Stands, Unseen, Uploading, Phase, Tables, IsSession, PutObject, Go, Idle, Request
<1>11. OrphansAccounted'
  BY <1>1 DEF IInv, OrphansAccounted, Stands, Phase, Uploading, Tables, IsSession, PutObject, Go, Idle, Request
<1>12. DanglingAccounted'
  BY <1>1 DEF IInv, DanglingAccounted, Stands, Phase, Unseen, Uploading, Tables, IsSession, PutObject, Go, Idle, Request
<1>13. IsTable'
  BY DEF IInv, IsTable, PutObject
<1> QED
  BY <1>0, <1>13, <1>2, <1>3, <1>4, <1>5, <1>6, <1>7, <1>8, <1>9, <1>10, <1>11, <1>12 DEF IInv

\* The table that the commit of an upload leaves.
LEMMA InsertedTable ==
  ASSUME IInv, NEW w \in Workers, session[w].pc = "insert", rows' = Inserted(w)
  PROVE  LET s == session[w] IN
         /\ s.req.op = "upload" /\ s.cv \in used \ DOMAIN rows
         /\ s.req.user \in Users /\ s.req.current \in BOOLEAN
         /\ DOMAIN rows' = DOMAIN rows \cup {s.cv}
         /\ rows'[s.cv].owner = s.req.user /\ rows'[s.cv].current = s.req.current
         /\ \A c \in DOMAIN rows' : rows'[c] \in [owner : Users, current : BOOLEAN]
         /\ \A c \in DOMAIN rows :
              /\ rows'[c].owner = rows[c].owner
              /\ rows'[c].current <=> (rows[c].current /\ c \notin s.unset)
<1> DEFINE s == session[w]
<1>1. /\ s.req \in Request /\ s.req.op = "upload" /\ s.cv \in used /\ s.cv \notin DOMAIN rows
      /\ s.req.user \in Users /\ s.req.current \in BOOLEAN
  BY DEF IInv, IsSession, Phase, Unseen, Uploading, Request
<1>2. /\ DOMAIN rows' = DOMAIN rows \cup {s.cv}
      /\ rows'[s.cv] = [owner |-> s.req.user, current |-> s.req.current]
      /\ \A c \in DOMAIN rows :
           rows'[c] = [rows[c] EXCEPT !.current = @ /\ c \notin s.unset]
  BY <1>1 DEF Inserted, Unset
<1>3. /\ \A c \in DOMAIN rows :
           /\ rows'[c] \in [owner : Users, current : BOOLEAN]
           /\ rows'[c].owner = rows[c].owner
           /\ rows'[c].current <=> (rows[c].current /\ c \notin s.unset)
      /\ rows'[s.cv] \in [owner : Users, current : BOOLEAN]
  <2>1. rows'[s.cv] \in [owner : Users, current : BOOLEAN]
    BY <1>1, <1>2
  <2>2. ASSUME NEW c \in DOMAIN rows
        PROVE  /\ rows'[c] \in [owner : Users, current : BOOLEAN]
               /\ rows'[c].owner = rows[c].owner
               /\ rows'[c].current <=> (rows[c].current /\ c \notin s.unset)
    <3> DEFINE b == rows[c].current /\ c \notin s.unset
    <3>1. rows[c] \in [owner : Users, current : BOOLEAN]
      BY DEF IInv, Tables
    <3>2. b \in BOOLEAN /\ rows'[c] = [rows[c] EXCEPT !.current = b]
      BY <1>2, <3>1
    <3> HIDE DEF b
    <3>3. /\ rows'[c] \in [owner : Users, current : BOOLEAN]
          /\ rows'[c].owner = rows[c].owner
          /\ rows'[c].current = b
      BY <3>1, <3>2, MarkedRow
    <3> QED
      BY <3>3 DEF b
  <2> QED
    BY <2>1, <2>2
<1>4. rows'[s.cv].owner = s.req.user /\ rows'[s.cv].current = s.req.current
  BY <1>1, <1>2, NewRow
<1> QED
  BY <1>1, <1>2, <1>3, <1>4

\* The row is stored; the answer may be lost.
LEMMA InsertedKeeps ==
  ASSUME IInv, NEW w \in Workers,
         session[w].pc = "insert", rows' = Inserted(w), UNCHANGED <<objects, used>>,
         ~ (session[w].req.current /\ CurrentTaken(session[w].req.user, session[w].cv, session[w].unset)),
         NEW lost \in BOOLEAN, cut' = IF lost THEN cut \cup {session[w].cv} ELSE cut,
         Go(w, IF lost THEN Undoing(session[w]) ELSE Idle)
  PROVE  IInv'
<1> USE CvAssumption
<1> DEFINE s == session[w]
           t == IF lost THEN Undoing(s) ELSE Idle
<1>0. session' = [v \in Workers |-> session'[v]]
  BY DEF IInv, Inserted, Unset, CurrentTaken, Undoing, Go, Idle, Request
<1>1. /\ session'[w] = t
      /\ \A v \in Workers \ {w} : session'[v] = session[v]
  BY DEF IInv, Inserted, Unset, CurrentTaken, Undoing, Go, Idle, Request
<1>a. /\ s.cv \in used \ DOMAIN rows
      /\ s.req.user \in Users /\ s.req.current \in BOOLEAN
      /\ DOMAIN rows' = DOMAIN rows \cup {s.cv}
      /\ rows'[s.cv].owner = s.req.user /\ rows'[s.cv].current = s.req.current
      /\ \A c \in DOMAIN rows' : rows'[c] \in [owner : Users, current : BOOLEAN]
      /\ \A c \in DOMAIN rows :
           /\ rows'[c].owner = rows[c].owner
           /\ rows'[c].current <=> (rows[c].current /\ c \notin s.unset)
  BY InsertedTable
<1>d. cut \subseteq cut' /\ cut' \subseteq used
  BY <1>a DEF IInv, Tables
<1>2. Tables'
  BY <1>a, <1>d DEF IInv, Tables
<1>3. \A v \in Workers : IsSession(session[v])'
  <2>1. IsSession(session[w])'
    <3>1. CASE lost
      BY <3>1, <1>1, <1>2 DEF IInv, IsSession, Statements, Undoing
    <3>2. CASE ~ lost
      BY <3>2, <1>1, <1>2 DEF IInv, IsSession, Statements, Idle
    <3> QED
      BY <3>1, <3>2
  <2>2. \A v \in Workers \ {w} : IsSession(session[v])'
    BY <1>1, <1>2 DEF IInv, IsSession, Tables, Inserted, Unset, CurrentTaken, Undoing, Go, Idle, Request
  <2> QED
    BY <1>1, <2>1, <2>2
<1>4. OneCurrent'
  BY <1>a DEF IInv, OneCurrent, CurrentOf, CurrentTaken
<1>5. LockedOnce'
  BY <1>1 DEF IInv, LockedOnce, Inserted, Unset, CurrentTaken, Undoing, Go, Idle, Request
<1>6. Drawn'
  BY <1>1 DEF IInv, Drawn, Uploading, IsSession, Inserted, Unset, CurrentTaken, Undoing, Go, Idle, Request
<1>7. \A v \in Workers : Phase(session[v])'
  BY <1>1 DEF IInv, Phase, IsSession, Inserted, Unset, CurrentTaken, Undoing, Go, Idle, Request
<1>8. \A v \in Workers : Locking(session[v])'
  <2>1. Locking(session[w])'
    BY <1>1 DEF Locking, Undoing, Idle
  <2>2. ASSUME NEW v \in Workers \ {w}
        PROVE  Locking(session[v])'
    <3>1. session'[v] = session[v] /\ session[v].unset \cap s.unset = {}
      BY <1>1 DEF IInv, LockedOnce
    <3> QED
      BY <1>a, <3>1 DEF IInv, Locking, CurrentOf
  <2> QED
    BY <2>1, <2>2
<1>9. \A v \in Workers : Unseen(v)'
  BY <1>1 DEF IInv, Unseen, Uploading, Phase, Tables, Drawn, IsSession, Inserted, Unset, CurrentTaken, Undoing, Go, Idle, Request
<1>10. \A v \in Workers : Stands(session[v])'
  BY <1>1 DEF IInv, Stands, Unseen, Uploading, Phase, Tables, IsSession, Inserted, Unset, CurrentTaken, Undoing, Go, Idle, Request
<1>11. OrphansAccounted'
  BY <1>1 DEF IInv, OrphansAccounted, Stands, Phase, Uploading, Tables, IsSession, Inserted, Unset, CurrentTaken, Undoing, Go, Idle, Request
<1>12. DanglingAccounted'
  BY <1>1 DEF IInv, DanglingAccounted, Stands, Phase, Unseen, Uploading, Tables, IsSession, Inserted, Unset, CurrentTaken, Undoing, Go, Idle, Request
<1>13. IsTable'
  BY DEF Inserted, IsTable
<1> QED
  BY <1>0, <1>13, <1>2, <1>3, <1>4, <1>5, <1>6, <1>7, <1>8, <1>9, <1>10, <1>11, <1>12 DEF IInv

\* The row is not stored; the PDF is removed next.
LEMMA RefusedKeeps ==
  ASSUME IInv, NEW w \in Workers,
         session[w].pc = "insert", cut' \in {cut, cut \cup {session[w].cv}},
         UNCHANGED <<rows, objects, used>>, Go(w, Undoing(session[w]))
  PROVE  IInv'
<1> USE CvAssumption
<1> DEFINE s == session[w]
           t == Undoing(s)
<1>0. session' = [v \in Workers |-> session'[v]]
  BY DEF IInv, Undoing, Go, Idle, Request
<1>1. /\ session'[w] = t
      /\ \A v \in Workers \ {w} : session'[v] = session[v]
  BY DEF IInv, Undoing, Go, Idle, Request
<1>2. Tables'
  BY <1>1 DEF IInv, Tables, IsSession, Undoing, Go, Idle, Request
<1>3. \A v \in Workers : IsSession(session[v])'
  <2>1. IsSession(session[w])'
    BY <1>1, <1>2 DEF IInv, IsSession, Statements, Undoing
  <2>2. \A v \in Workers \ {w} : IsSession(session[v])'
    BY <1>1, <1>2 DEF IInv, IsSession, Tables, Undoing, Go, Idle, Request
  <2> QED
    BY <1>1, <2>1, <2>2
<1>4. OneCurrent'
  BY <1>1 DEF IInv, OneCurrent, CurrentOf, Tables, IsSession, Undoing, Go, Idle, Request
<1>5. LockedOnce'
  BY <1>1 DEF IInv, LockedOnce, Undoing, Go, Idle, Request
<1>6. Drawn'
  BY <1>1 DEF IInv, Drawn, Uploading, IsSession, Undoing, Go, Idle, Request
<1>7. \A v \in Workers : Phase(session[v])'
  BY <1>1 DEF IInv, Phase, IsSession, Undoing, Go, Idle, Request
<1>8. \A v \in Workers : Locking(session[v])'
  BY <1>1 DEF IInv, Locking, CurrentOf, LockedOnce, Phase, Tables, IsSession, Undoing, Go, Idle, Request
<1>9. \A v \in Workers : Unseen(v)'
  BY <1>1 DEF IInv, Unseen, Uploading, Phase, Tables, Drawn, IsSession, Undoing, Go, Idle, Request
<1>10. \A v \in Workers : Stands(session[v])'
  BY <1>1 DEF IInv, Stands, Unseen, Uploading, Phase, Tables, IsSession, Undoing, Go, Idle, Request
<1>11. OrphansAccounted'
  BY <1>1 DEF IInv, OrphansAccounted, Stands, Phase, Uploading, Tables, IsSession, Undoing, Go, Idle, Request
<1>12. DanglingAccounted'
  BY <1>1 DEF IInv, DanglingAccounted, Stands, Phase, Unseen, Uploading, Tables, IsSession, Undoing, Go, Idle, Request
<1>13. IsTable'
  BY DEF IInv, IsTable
<1> QED
  BY <1>0, <1>13, <1>2, <1>3, <1>4, <1>5, <1>6, <1>7, <1>8, <1>9, <1>10, <1>11, <1>12 DEF IInv

\* The PDF of a refused upload goes.
LEMMA UndoKeeps ==
  ASSUME IInv, NEW w \in Workers, Undo(w)
  PROVE  IInv'
<1> USE CvAssumption
<1> DEFINE s == session[w]
           t == Idle
<1>0. session' = [v \in Workers |-> session'[v]]
  BY DEF IInv, Undo, End, Go, Idle, Request
<1>1. /\ session'[w] = t
      /\ \A v \in Workers \ {w} : session'[v] = session[v]
  BY DEF IInv, Undo, End, Go, Idle, Request
<1>2. Tables'
  BY <1>1 DEF IInv, Tables, IsSession, Undo, End, Go, Idle, Request
<1>3. \A v \in Workers : IsSession(session[v])'
  <2>1. IsSession(session[w])'
    BY <1>1, <1>2 DEF IInv, IsSession, Statements, CurrentOf, Tables, Phase, Undo, End, Go, Idle, Request
  <2>2. \A v \in Workers \ {w} : IsSession(session[v])'
    BY <1>1, <1>2 DEF IInv, IsSession, Tables, Undo, End, Go, Idle, Request
  <2> QED
    BY <1>1, <2>1, <2>2
<1>4. OneCurrent'
  BY <1>1 DEF IInv, OneCurrent, CurrentOf, Tables, IsSession, Undo, End, Go, Idle, Request
<1>5. LockedOnce'
  BY <1>1 DEF IInv, LockedOnce, Undo, End, Go, Idle, Request
<1>6. Drawn'
  BY <1>1 DEF IInv, Drawn, Uploading, IsSession, Undo, End, Go, Idle, Request
<1>7. \A v \in Workers : Phase(session[v])'
  BY <1>1 DEF IInv, Phase, IsSession, Undo, End, Go, Idle, Request
<1>8. \A v \in Workers : Locking(session[v])'
  BY <1>1 DEF IInv, Locking, CurrentOf, LockedOnce, Phase, Tables, IsSession, Undo, End, Go, Idle, Request
<1>9. \A v \in Workers : Unseen(v)'
  BY <1>1 DEF IInv, Unseen, Uploading, Phase, Tables, Drawn, IsSession, Undo, End, Go, Idle, Request
<1>10. \A v \in Workers : Stands(session[v])'
  BY <1>1 DEF IInv, Stands, Unseen, Uploading, Phase, Tables, IsSession, Undo, End, Go, Idle, Request
<1>11. OrphansAccounted'
  BY <1>1 DEF IInv, OrphansAccounted, Stands, Phase, Uploading, Tables, IsSession, Undo, End, Go, Idle, Request
<1>12. DanglingAccounted'
  <2> SUFFICES ASSUME NEW c \in (DOMAIN rows \ objects)'
               PROVE  c \in cut \/ \E v \in Workers : session'[v].cv = c /\ session'[v].pc = "drop"
    BY DEF DanglingAccounted, Undo
  <2>1. CASE c = s.cv
    BY <2>1 DEF IInv, Unseen, Uploading, Phase, Undo
  <2>2. CASE c # s.cv
    BY <2>2, <1>1 DEF IInv, DanglingAccounted, Undo
  <2> QED
    BY <2>1, <2>2
<1>13. IsTable'
  BY DEF IInv, IsTable, Undo
<1> QED
  BY <1>0, <1>13, <1>2, <1>3, <1>4, <1>5, <1>6, <1>7, <1>8, <1>9, <1>10, <1>11, <1>12 DEF IInv

\* The table once a patch has written is_current.
LEMMA SavedTable ==
  ASSUME IInv, NEW w \in Workers, session[w].pc = "save", session[w].cv \in DOMAIN rows,
         NEW new \in BOOLEAN,
         rows' = IF new = session[w].was THEN Unset(session[w].unset)
                 ELSE [Unset(session[w].unset) EXCEPT ![session[w].cv].current = new]
  PROVE  LET s == session[w] IN
         /\ s.req \in Request /\ s.req.op = "patch" /\ rows[s.cv].owner = s.req.user
         /\ s.unset \subseteq CurrentOf(s.req.user)
         /\ DOMAIN rows' = DOMAIN rows
         /\ \A c \in DOMAIN rows :
              /\ rows'[c] \in [owner : Users, current : BOOLEAN]
              /\ rows'[c].owner = rows[c].owner
              /\ rows'[c].current <=> IF c = s.cv /\ new # s.was THEN new
                                      ELSE rows[c].current /\ c \notin s.unset
<1> DEFINE s == session[w]
<1>1. /\ s.req \in Request /\ s.req.op = "patch" /\ rows[s.cv].owner = s.req.user
      /\ s.unset \subseteq CurrentOf(s.req.user)
  BY DEF IInv, IsSession, Phase, Stands, Locking, Uploading
<1>2. /\ DOMAIN rows' = DOMAIN rows
      /\ \A c \in DOMAIN rows :
           rows'[c] = [rows[c] EXCEPT !.current =
                         IF c = s.cv /\ new # s.was THEN new ELSE @ /\ c \notin s.unset]
  BY DEF Unset, IInv, Tables
<1>3. \A c \in DOMAIN rows :
        /\ rows'[c] \in [owner : Users, current : BOOLEAN]
        /\ rows'[c].owner = rows[c].owner
        /\ rows'[c].current <=> IF c = s.cv /\ new # s.was THEN new
                                ELSE rows[c].current /\ c \notin s.unset
  <2> SUFFICES ASSUME NEW c \in DOMAIN rows
               PROVE  /\ rows'[c] \in [owner : Users, current : BOOLEAN]
                      /\ rows'[c].owner = rows[c].owner
                      /\ rows'[c].current <=> IF c = s.cv /\ new # s.was THEN new
                                              ELSE rows[c].current /\ c \notin s.unset
    OBVIOUS
  <2> DEFINE b == IF c = s.cv /\ new # s.was THEN new
                  ELSE rows[c].current /\ c \notin s.unset
  <2>1. rows[c] \in [owner : Users, current : BOOLEAN]
    BY DEF IInv, Tables
  <2>2. b \in BOOLEAN
    BY <2>1
  <2>3. rows'[c] = [rows[c] EXCEPT !.current = b]
    BY <1>2
  <2> HIDE DEF b
  <2>4. /\ rows'[c] \in [owner : Users, current : BOOLEAN]
        /\ rows'[c].owner = rows[c].owner
        /\ rows'[c].current = b
    BY <2>1, <2>2, <2>3, MarkedRow
  <2> QED
    BY <2>4 DEF b
<1> QED
  BY <1>1, <1>2, <1>3

\* A patch is committed.
LEMMA SavedKeeps ==
  ASSUME IInv, NEW w \in Workers,
         session[w].pc = "save", ~ Locked(w, session[w].cv), session[w].cv \in DOMAIN rows,
         NEW new \in BOOLEAN, session[w].req.current # None => new = session[w].req.current,
         new /\ ~ session[w].was => ~ CurrentTaken(session[w].req.user, session[w].cv, session[w].unset),
         session[w].req.current = None => new = session[w].was,
         rows' = IF new = session[w].was THEN Unset(session[w].unset)
                 ELSE [Unset(session[w].unset) EXCEPT ![session[w].cv].current = new],
         End(w), UNCHANGED <<objects, used, cut>>
  PROVE  IInv'
<1> USE CvAssumption
<1> DEFINE s == session[w]
           t == Idle
<1>0. session' = [v \in Workers |-> session'[v]]
  BY DEF IInv, Unset, CurrentTaken, Locked, End, Go, Idle, Request
<1>1. /\ session'[w] = t
      /\ \A v \in Workers \ {w} : session'[v] = session[v]
  BY DEF IInv, Unset, CurrentTaken, Locked, End, Go, Idle, Request
<1>a. /\ s.req.op = "patch" /\ rows[s.cv].owner = s.req.user
      /\ s.unset \subseteq CurrentOf(s.req.user)
      /\ DOMAIN rows' = DOMAIN rows
      /\ \A c \in DOMAIN rows :
           /\ rows'[c] \in [owner : Users, current : BOOLEAN]
           /\ rows'[c].owner = rows[c].owner
           /\ rows'[c].current <=> IF c = s.cv /\ new # s.was THEN new
                                   ELSE rows[c].current /\ c \notin s.unset
  BY SavedTable
<1>2. Tables'
  BY <1>a DEF IInv, Tables
<1>3. \A v \in Workers : IsSession(session[v])'
  <2>1. IsSession(session[w])'
    BY <1>1, <1>2 DEF IInv, IsSession, Statements, CurrentOf, Tables, Phase, Unset, CurrentTaken, Locked, End, Go, Idle, Request
  <2>2. \A v \in Workers \ {w} : IsSession(session[v])'
    BY <1>1, <1>2 DEF IInv, IsSession, Tables, Unset, CurrentTaken, Locked, End, Go, Idle, Request
  <2> QED
    BY <1>1, <2>1, <2>2
<1>4. OneCurrent'
  <2> SUFFICES ASSUME NEW u \in Users, NEW c \in CurrentOf(u)', NEW e \in CurrentOf(u)', c # e
               PROVE  FALSE
    BY DEF OneCurrent
  <2>1. /\ c \in DOMAIN rows /\ rows[c].owner = u /\ rows'[c].current
        /\ e \in DOMAIN rows /\ rows[e].owner = u /\ rows'[e].current
    BY <1>a DEF CurrentOf
  <2>2. \A x, y \in CurrentOf(u) : x = y
    BY DEF IInv, OneCurrent
  <2>3. CASE ~ (new /\ ~ s.was)
    <3>1. c \in CurrentOf(u) /\ e \in CurrentOf(u)
      BY <1>a, <2>1, <2>3 DEF CurrentOf, IInv, IsSession
    <3> QED
      BY <2>2, <3>1
  <2>4. CASE new /\ ~ s.was
    <3>1. CurrentOf(s.req.user) \subseteq s.unset \cup {s.cv}
      BY <2>4 DEF CurrentTaken
    <3>2. \A x \in {c, e} : x # s.cv => rows[x].current /\ x \notin s.unset
      BY <1>a, <2>1
    <3>3. CASE s.req.user = u
      BY <2>1, <3>1, <3>2, <3>3 DEF CurrentOf
    <3>4. CASE s.req.user # u
      BY <1>a, <2>1, <2>2, <3>2, <3>4 DEF CurrentOf
    <3> QED
      BY <3>3, <3>4
  <2> QED
    BY <2>3, <2>4
<1>5. LockedOnce'
  BY <1>1 DEF IInv, LockedOnce, Unset, CurrentTaken, Locked, End, Go, Idle, Request
<1>6. Drawn'
  BY <1>1 DEF IInv, Drawn, Uploading, IsSession, Unset, CurrentTaken, Locked, End, Go, Idle, Request
<1>7. \A v \in Workers : Phase(session[v])'
  BY <1>1 DEF IInv, Phase, IsSession, Unset, CurrentTaken, Locked, End, Go, Idle, Request
<1>8. \A v \in Workers : Locking(session[v])'
  BY <1>1 DEF IInv, Locking, CurrentOf, LockedOnce, Phase, Tables, IsSession, Unset, CurrentTaken, Locked, End, Go, Idle, Request
<1>9. \A v \in Workers : Unseen(v)'
  BY <1>1 DEF IInv, Unseen, Uploading, Phase, Tables, Drawn, IsSession, Unset, CurrentTaken, Locked, End, Go, Idle, Request
<1>10. \A v \in Workers : Stands(session[v])'
  BY <1>1 DEF IInv, Stands, Unseen, Uploading, Phase, Tables, IsSession, Unset, CurrentTaken, Locked, End, Go, Idle, Request
<1>11. OrphansAccounted'
  BY <1>1 DEF IInv, OrphansAccounted, Stands, Phase, Uploading, Tables, IsSession, Unset, CurrentTaken, Locked, End, Go, Idle, Request
<1>12. DanglingAccounted'
  BY <1>1 DEF IInv, DanglingAccounted, Stands, Phase, Unseen, Uploading, Tables, IsSession, Unset, CurrentTaken, Locked, End, Go, Idle, Request
<1>13. IsTable'
  BY DEF Unset, IsTable, IInv
<1> QED
  BY <1>0, <1>13, <1>2, <1>3, <1>4, <1>5, <1>6, <1>7, <1>8, <1>9, <1>10, <1>11, <1>12 DEF IInv

\* The PDF goes before the row.
LEMMA RemoveObjectKeeps ==
  ASSUME IInv, NEW w \in Workers, RemoveObject(w)
  PROVE  IInv'
<1> USE CvAssumption
<1> DEFINE s == session[w]
           t == [s EXCEPT !.pc = "drop"]
<1>0. session' = [v \in Workers |-> session'[v]]
  BY DEF IInv, RemoveObject, Go, Idle, Request
<1>1. /\ session'[w] = t
      /\ \A v \in Workers \ {w} : session'[v] = session[v]
  BY DEF IInv, RemoveObject, Go, Idle, Request
<1>2. Tables'
  BY <1>1 DEF IInv, Tables, IsSession, RemoveObject, Go, Idle, Request
<1>3. \A v \in Workers : IsSession(session[v])'
  <2>1. IsSession(session[w])'
    BY <1>1, <1>2 DEF IInv, IsSession, Statements, CurrentOf, Tables, Phase, RemoveObject, Go, Idle, Request
  <2>2. \A v \in Workers \ {w} : IsSession(session[v])'
    BY <1>1, <1>2 DEF IInv, IsSession, Tables, RemoveObject, Go, Idle, Request
  <2> QED
    BY <1>1, <2>1, <2>2
<1>4. OneCurrent'
  BY <1>1 DEF IInv, OneCurrent, CurrentOf, Tables, IsSession, RemoveObject, Go, Idle, Request
<1>5. LockedOnce'
  BY <1>1 DEF IInv, LockedOnce, RemoveObject, Go, Idle, Request
<1>6. Drawn'
  BY <1>1 DEF IInv, Drawn, Uploading, IsSession, RemoveObject, Go, Idle, Request
<1>7. \A v \in Workers : Phase(session[v])'
  BY <1>1 DEF IInv, Phase, IsSession, RemoveObject, Go, Idle, Request
<1>8. \A v \in Workers : Locking(session[v])'
  BY <1>1 DEF IInv, Locking, CurrentOf, LockedOnce, Phase, Tables, IsSession, RemoveObject, Go, Idle, Request
<1>9. \A v \in Workers : Unseen(v)'
  BY <1>1 DEF IInv, Unseen, Uploading, Phase, Tables, Drawn, IsSession, RemoveObject, Go, Idle, Request
<1>10. \A v \in Workers : Stands(session[v])'
  BY <1>1 DEF IInv, Stands, Unseen, Uploading, Phase, Tables, IsSession, RemoveObject, Go, Idle, Request
<1>11. OrphansAccounted'
  BY <1>1 DEF IInv, OrphansAccounted, Stands, Phase, Uploading, Tables, IsSession, RemoveObject, Go, Idle, Request
<1>12. DanglingAccounted'
  BY <1>1 DEF IInv, DanglingAccounted, Stands, Phase, Unseen, Uploading, Tables, IsSession, RemoveObject, Go, Idle, Request
<1>13. IsTable'
  BY DEF IInv, IsTable, RemoveObject
<1> QED
  BY <1>0, <1>13, <1>2, <1>3, <1>4, <1>5, <1>6, <1>7, <1>8, <1>9, <1>10, <1>11, <1>12 DEF IInv

\* The row goes.
LEMMA DropRowKeeps ==
  ASSUME IInv, NEW w \in Workers, DropRow(w)
  PROVE  IInv'
<1> USE CvAssumption
<1> DEFINE s == session[w]
           t == Idle
<1>0. session' = [v \in Workers |-> session'[v]]
  BY DEF IInv, DropRow, Locked, End, Go, Idle, Request
<1>1. /\ session'[w] = t
      /\ \A v \in Workers \ {w} : session'[v] = session[v]
  BY DEF IInv, DropRow, Locked, End, Go, Idle, Request
<1>2. Tables'
  BY <1>1 DEF IInv, Tables, IsSession, DropRow, Locked, End, Go, Idle, Request
<1>3. \A v \in Workers : IsSession(session[v])'
  <2>1. IsSession(session[w])'
    BY <1>1, <1>2 DEF IInv, IsSession, Statements, CurrentOf, Tables, Phase, DropRow, Locked, End, Go, Idle, Request
  <2>2. \A v \in Workers \ {w} : IsSession(session[v])'
    BY <1>1, <1>2 DEF IInv, IsSession, Tables, DropRow, Locked, End, Go, Idle, Request
  <2> QED
    BY <1>1, <2>1, <2>2
<1>4. OneCurrent'
  BY <1>1 DEF IInv, OneCurrent, CurrentOf, Tables, IsSession, DropRow, Locked, End, Go, Idle, Request
<1>5. LockedOnce'
  BY <1>1 DEF IInv, LockedOnce, DropRow, Locked, End, Go, Idle, Request
<1>6. Drawn'
  BY <1>1 DEF IInv, Drawn, Uploading, IsSession, DropRow, Locked, End, Go, Idle, Request
<1>7. \A v \in Workers : Phase(session[v])'
  BY <1>1 DEF IInv, Phase, IsSession, DropRow, Locked, End, Go, Idle, Request
<1>8. \A v \in Workers : Locking(session[v])'
  BY <1>1 DEF IInv, Locking, CurrentOf, LockedOnce, Phase, Tables, IsSession, DropRow, Locked, End, Go, Idle, Request
<1>9. \A v \in Workers : Unseen(v)'
  BY <1>1 DEF IInv, Unseen, Uploading, Phase, Tables, Drawn, IsSession, DropRow, Locked, End, Go, Idle, Request
<1>10. \A v \in Workers : Stands(session[v])'
  BY <1>1 DEF IInv, Stands, Unseen, Uploading, Phase, Tables, IsSession, DropRow, Locked, End, Go, Idle, Request
<1>11. OrphansAccounted'
  BY <1>1 DEF IInv, OrphansAccounted, Stands, Phase, Uploading, Tables, IsSession, DropRow, Locked, End, Go, Idle, Request
<1>12. DanglingAccounted'
  BY <1>1 DEF IInv, DanglingAccounted, Stands, Phase, Unseen, Uploading, Tables, IsSession, DropRow, Locked, End, Go, Idle, Request
<1>13. IsTable'
  BY DEF DropRow, IsTable
<1> QED
  BY <1>0, <1>13, <1>2, <1>3, <1>4, <1>5, <1>6, <1>7, <1>8, <1>9, <1>10, <1>11, <1>12 DEF IInv

\* A PDF may be stored by a call that failed.
LEMMA PutFailsKeeps ==
  ASSUME IInv, NEW w \in Workers, PutFails(w)
  PROVE  IInv'
<1> USE CvAssumption
<1> DEFINE s == session[w]
           t == Idle
<1>0. session' = [v \in Workers |-> session'[v]]
  BY DEF IInv, PutFails, End, Go, Idle, Request
<1>1. /\ session'[w] = t
      /\ \A v \in Workers \ {w} : session'[v] = session[v]
  BY DEF IInv, PutFails, End, Go, Idle, Request
<1>2. Tables'
  BY <1>1 DEF IInv, Tables, IsSession, PutFails, End, Go, Idle, Request
<1>3. \A v \in Workers : IsSession(session[v])'
  <2>1. IsSession(session[w])'
    BY <1>1, <1>2 DEF IInv, IsSession, Statements, CurrentOf, Tables, Phase, PutFails, End, Go, Idle, Request
  <2>2. \A v \in Workers \ {w} : IsSession(session[v])'
    BY <1>1, <1>2 DEF IInv, IsSession, Tables, PutFails, End, Go, Idle, Request
  <2> QED
    BY <1>1, <2>1, <2>2
<1>4. OneCurrent'
  BY <1>1 DEF IInv, OneCurrent, CurrentOf, Tables, IsSession, PutFails, End, Go, Idle, Request
<1>5. LockedOnce'
  BY <1>1 DEF IInv, LockedOnce, PutFails, End, Go, Idle, Request
<1>6. Drawn'
  BY <1>1 DEF IInv, Drawn, Uploading, IsSession, PutFails, End, Go, Idle, Request
<1>7. \A v \in Workers : Phase(session[v])'
  BY <1>1 DEF IInv, Phase, IsSession, PutFails, End, Go, Idle, Request
<1>8. \A v \in Workers : Locking(session[v])'
  BY <1>1 DEF IInv, Locking, CurrentOf, LockedOnce, Phase, Tables, IsSession, PutFails, End, Go, Idle, Request
<1>9. \A v \in Workers : Unseen(v)'
  BY <1>1 DEF IInv, Unseen, Uploading, Phase, Tables, Drawn, IsSession, PutFails, End, Go, Idle, Request
<1>10. \A v \in Workers : Stands(session[v])'
  BY <1>1 DEF IInv, Stands, Unseen, Uploading, Phase, Tables, IsSession, PutFails, End, Go, Idle, Request
<1>11. OrphansAccounted'
  BY <1>1 DEF IInv, OrphansAccounted, Stands, Phase, Uploading, Tables, IsSession, PutFails, End, Go, Idle, Request
<1>12. DanglingAccounted'
  BY <1>1 DEF IInv, DanglingAccounted, Stands, Phase, Unseen, Uploading, Tables, IsSession, PutFails, End, Go, Idle, Request
<1>13. IsTable'
  BY DEF IInv, IsTable, PutFails
<1> QED
  BY <1>0, <1>13, <1>2, <1>3, <1>4, <1>5, <1>6, <1>7, <1>8, <1>9, <1>10, <1>11, <1>12 DEF IInv

\* A PDF may be removed by a call that failed.
LEMMA RemoveFailsKeeps ==
  ASSUME IInv, NEW w \in Workers, RemoveFails(w)
  PROVE  IInv'
<1> USE CvAssumption
<1> DEFINE s == session[w]
           t == Idle
<1>0. session' = [v \in Workers |-> session'[v]]
  BY DEF IInv, RemoveFails, End, Go, Idle, Request
<1>1. /\ session'[w] = t
      /\ \A v \in Workers \ {w} : session'[v] = session[v]
  BY DEF IInv, RemoveFails, End, Go, Idle, Request
<1>2. Tables'
  BY <1>1 DEF IInv, Tables, IsSession, RemoveFails, End, Go, Idle, Request
<1>3. \A v \in Workers : IsSession(session[v])'
  <2>1. IsSession(session[w])'
    BY <1>1, <1>2 DEF IInv, IsSession, Statements, CurrentOf, Tables, Phase, RemoveFails, End, Go, Idle, Request
  <2>2. \A v \in Workers \ {w} : IsSession(session[v])'
    BY <1>1, <1>2 DEF IInv, IsSession, Tables, RemoveFails, End, Go, Idle, Request
  <2> QED
    BY <1>1, <2>1, <2>2
<1>4. OneCurrent'
  BY <1>1 DEF IInv, OneCurrent, CurrentOf, Tables, IsSession, RemoveFails, End, Go, Idle, Request
<1>5. LockedOnce'
  BY <1>1 DEF IInv, LockedOnce, RemoveFails, End, Go, Idle, Request
<1>6. Drawn'
  BY <1>1 DEF IInv, Drawn, Uploading, IsSession, RemoveFails, End, Go, Idle, Request
<1>7. \A v \in Workers : Phase(session[v])'
  BY <1>1 DEF IInv, Phase, IsSession, RemoveFails, End, Go, Idle, Request
<1>8. \A v \in Workers : Locking(session[v])'
  BY <1>1 DEF IInv, Locking, CurrentOf, LockedOnce, Phase, Tables, IsSession, RemoveFails, End, Go, Idle, Request
<1>9. \A v \in Workers : Unseen(v)'
  BY <1>1 DEF IInv, Unseen, Uploading, Phase, Tables, Drawn, IsSession, RemoveFails, End, Go, Idle, Request
<1>10. \A v \in Workers : Stands(session[v])'
  BY <1>1 DEF IInv, Stands, Unseen, Uploading, Phase, Tables, IsSession, RemoveFails, End, Go, Idle, Request
<1>11. OrphansAccounted'
  BY <1>1 DEF IInv, OrphansAccounted, Stands, Phase, Uploading, Tables, IsSession, RemoveFails, End, Go, Idle, Request
<1>12. DanglingAccounted'
  BY <1>1 DEF IInv, DanglingAccounted, Stands, Phase, Unseen, Uploading, Tables, IsSession, RemoveFails, End, Go, Idle, Request
<1>13. IsTable'
  BY DEF IInv, IsTable, RemoveFails
<1> QED
  BY <1>0, <1>13, <1>2, <1>3, <1>4, <1>5, <1>6, <1>7, <1>8, <1>9, <1>10, <1>11, <1>12 DEF IInv

\* A commit that fails, or a refused one, does not lose sight of the PDF.
LEMMA FaultKeeps ==
  ASSUME IInv, NEW w \in Workers, Fault(w)
  PROVE  IInv'
<1>1. CASE PutFails(w)
  BY <1>1, PutFailsKeeps
<1>2. CASE InsertFails(w)
  <2> DEFINE s == session[w]
  <2>1. /\ s.pc = "insert" /\ UNCHANGED <<objects, used>>
        /\ ~ (s.req.current /\ CurrentTaken(s.req.user, s.cv, s.unset))
        /\ Go(w, Undoing(s)) /\ cut' = cut \cup {s.cv}
    BY <1>2 DEF InsertFails
  <2>2. CASE rows' = rows
    BY <2>1, <2>2, RefusedKeeps
  <2>3. CASE rows' = Inserted(w)
    <3> DEFINE lost == TRUE
    <3>1. /\ lost \in BOOLEAN /\ cut' = (IF lost THEN cut \cup {s.cv} ELSE cut)
          /\ Go(w, IF lost THEN Undoing(s) ELSE Idle)
      BY <2>1
    <3> HIDE DEF lost
    <3> QED
      BY <2>1, <2>3, <3>1, InsertedKeeps
  <2> QED
    BY <1>2, <2>2, <2>3 DEF InsertFails
<1>3. CASE RemoveFails(w)
  BY <1>3, RemoveFailsKeeps
<1>4. CASE Die(w)
  <2>1. End(w) /\ UNCHANGED <<rows, objects, used>>
    BY <1>4 DEF Die
  <2>2. cut \subseteq cut' /\ cut' \subseteq used
    BY <1>4 DEF Die, IInv, Tables, IsSession
  <2>3. session[w].pc \in {"insert", "undo", "drop"} => session[w].cv \in cut'
    BY <1>4 DEF Die, IInv, Phase
  <2> QED
    BY <2>1, <2>2, <2>3, EndKeeps
<1> QED
  BY <1>1, <1>2, <1>3, <1>4 DEF Fault

LEMMA StatementKeeps ==
  ASSUME IInv, NEW w \in Workers, Statement(w)
  PROVE  IInv'
<1> DEFINE s == session[w]
           r == s.req
<1>1. CASE Load(w)
  <2>1. s.pc = "load" /\ UNCHANGED <<rows, objects, used, cut>>
    BY <1>1 DEF Load
  <2>2. CASE s.cv \in DOMAIN rows /\ rows[s.cv].owner = r.user
    <3>1. rows[s.cv].current \in BOOLEAN
      BY <2>2 DEF IInv, Tables
    <3> QED
      BY <1>1, <2>1, <2>2, <3>1, LoadedKeeps DEF Load
  <2>3. CASE ~ (s.cv \in DOMAIN rows /\ rows[s.cv].owner = r.user)
    <3>1. End(w) /\ cut' = cut /\ cut \subseteq used
      BY <1>1, <2>1, <2>3 DEF Load, IInv, Tables
    <3> QED
      BY <2>1, <3>1, EndKeeps
  <2> QED
    BY <2>2, <2>3
<1>2. CASE FindCurrent(w)
  BY <1>2, FindCurrentKeeps DEF FindCurrent
<1>3. CASE UnsetAllCurrent(w)
  BY <1>3, UnsetAllCurrentKeeps DEF UnsetAllCurrent
<1>4. CASE PutObject(w)
  BY <1>4, PutObjectKeeps
<1>5. CASE Insert(w)
  <2>1. s.pc = "insert" /\ UNCHANGED <<objects, used, cut>>
    BY <1>5 DEF Insert
  <2>2. CASE r.current /\ CurrentTaken(r.user, s.cv, s.unset)
    BY <1>5, <2>1, <2>2, RefusedKeeps DEF Insert
  <2>3. CASE ~ (r.current /\ CurrentTaken(r.user, s.cv, s.unset))
    <3> DEFINE lost == FALSE
    <3>1. /\ lost \in BOOLEAN /\ cut' = (IF lost THEN cut \cup {s.cv} ELSE cut)
          /\ Go(w, IF lost THEN Undoing(s) ELSE Idle) /\ rows' = Inserted(w)
      BY <1>5, <2>1, <2>3 DEF Insert, End
    <3> HIDE DEF lost
    <3> QED
      BY <2>1, <2>3, <3>1, InsertedKeeps
  <2> QED
    BY <2>2, <2>3
<1>6. CASE Undo(w)
  BY <1>6, UndoKeeps
<1>7. CASE Save(w)
  <2> DEFINE new == IF r.current = None THEN s.was ELSE r.current
             refused == \/ s.cv \notin DOMAIN rows
                        \/ new /\ ~ s.was /\ CurrentTaken(r.user, s.cv, s.unset)
  <2>1. s.pc = "save" /\ ~ Locked(w, s.cv) /\ End(w) /\ UNCHANGED <<objects, used, cut>>
    BY <1>7 DEF Save
  <2>2. CASE refused
    <3>1. UNCHANGED rows
      BY <1>7, <2>2 DEF Save
    <3>2. cut \subseteq cut' /\ cut' \subseteq used
      BY <2>1 DEF IInv, Tables
    <3> QED
      BY <2>1, <3>1, <3>2, EndKeeps
  <2>3. CASE ~ refused
    <3>1. new \in BOOLEAN
      BY <2>1 DEF IInv, IsSession, Phase, Request
    <3>2. rows' = IF new = s.was THEN Unset(s.unset)
                  ELSE [Unset(s.unset) EXCEPT ![s.cv].current = new]
      BY <1>7, <2>3 DEF Save
    <3>3. /\ r.current # None => new = r.current
          /\ r.current = None => new = s.was
          /\ new /\ ~ s.was => ~ CurrentTaken(r.user, s.cv, s.unset)
          /\ s.cv \in DOMAIN rows
      BY <2>3
    <3> HIDE DEF new
    <3> QED
      BY <2>1, <3>1, <3>2, <3>3, SavedKeeps
  <2> QED
    BY <2>2, <2>3
<1>8. CASE RemoveObject(w)
  BY <1>8, RemoveObjectKeeps
<1>9. CASE DropRow(w)
  BY <1>9, DropRowKeeps
<1> QED
  BY <1>1, <1>2, <1>3, <1>4, <1>5, <1>6, <1>7, <1>8, <1>9 DEF Statement

LEMMA StartKeeps ==
  ASSUME IInv, NEW w \in Workers, Start(w)
  PROVE  IInv'
<1>1. PICK r \in Request :
        IF r.op = "upload"
        THEN \E c \in CvIds \ used :
               /\ used' = used \cup {c}
               /\ Go(w, [Idle EXCEPT !.pc = IF r.current THEN "unset" ELSE "put",
                                     !.req = r, !.cv = c])
        ELSE /\ r.cv \in used
             /\ Go(w, [Idle EXCEPT !.pc = "load", !.req = r, !.cv = r.cv])
             /\ UNCHANGED used
  BY DEF Start
<1>2. session[w].pc = "idle" /\ UNCHANGED <<rows, objects, cut>>
  BY DEF Start
<1>3. CASE r.op = "upload"
  <2>1. PICK c \in CvIds \ used :
          /\ used' = used \cup {c}
          /\ Go(w, [Idle EXCEPT !.pc = IF r.current THEN "unset" ELSE "put",
                                !.req = r, !.cv = c])
    BY <1>1, <1>3
  <2> QED
    BY <1>2, <1>3, <2>1, StartUploadKeeps
<1>4. CASE r.op # "upload"
  BY <1>1, <1>2, <1>4, StartOtherKeeps
<1> QED
  BY <1>3, <1>4

LEMMA Initially == Init => IInv
<1> SUFFICES ASSUME Init PROVE IInv
  OBVIOUS
<1>1. /\ DOMAIN rows = {} /\ objects = {} /\ used = {} /\ cut = {}
      /\ session = [w \in Workers |-> session[w]]
      /\ \A w \in Workers : session[w] = Idle
  BY DEF Init
<1>2. Tables /\ IsTable /\ OneCurrent
  BY <1>1 DEF Init, IsTable, Tables, OneCurrent, CurrentOf
<1>3. \A w \in Workers : IsSession(session[w])
  <2>1. /\ DOMAIN Idle = {"pc", "req", "cv", "was", "seen", "unset"}
        /\ Idle.pc = "idle" /\ Idle.was \in BOOLEAN /\ Idle.seen = {} /\ Idle.unset = {}
    BY DEF Idle
  <2> QED
    BY <1>1, <2>1 DEF IsSession, Statements
<1>4. LockedOnce /\ Drawn
  BY <1>1 DEF LockedOnce, Drawn, Uploading, Idle
<1>5. \A w \in Workers : /\ Phase(session[w]) /\ Locking(session[w])
                         /\ Unseen(w) /\ Stands(session[w])
  BY <1>1 DEF Phase, Locking, Unseen, Stands, Uploading, Idle
<1>6. OrphansAccounted /\ DanglingAccounted
  BY <1>1 DEF OrphansAccounted, DanglingAccounted
<1> QED
  BY <1>1, <1>2, <1>3, <1>4, <1>5, <1>6 DEF IInv

LEMMA Stutters == IInv /\ UNCHANGED vars => IInv'
  BY DEF vars, IInv, IsTable, Tables, IsSession, OneCurrent, CurrentOf, LockedOnce,
         Drawn, Uploading, Phase, Locking, Unseen, Stands, OrphansAccounted, DanglingAccounted

LEMMA Invariance == Spec => []IInv
<1>1. IInv /\ [Next]_vars => IInv'
  BY StartKeeps, StatementKeeps, FaultKeeps, Stutters DEF Next
<1> QED
  BY <1>1, Initially, PTL DEF Spec

-----------------------------------------------------------------------------
(* Invariants *)

\* The tables keep their shape, a user has one current CV and a row one lock,
\* for any number of uploads and patches that race.
THEOREM TypeCorrect == Spec => []TypeOK
<1>1. IInv => TypeOK
  BY DEF IInv, TypeOK, Tables, IsSession, Statements, OneCurrent, LockedOnce
<1> QED
  BY <1>1, Invariance, PTL

\* A PDF is left over only by a fault.
THEOREM OrphansHaveACause == Spec => []OrphansAccounted
  BY Invariance, PTL DEF IInv

\* A row is without its PDF only by a delete under way or a fault.
THEOREM DanglingHaveACause == Spec => []DanglingAccounted
  BY Invariance, PTL DEF IInv
-----------------------------------------------------------------------------
(* Steps *)

\* Whose commit a change of the table is, and what it writes.
Writes(w) ==
  \/ session[w].pc = "insert" /\ rows' = Inserted(w)
       /\ ~ (session[w].req.current
               /\ CurrentTaken(session[w].req.user, session[w].cv, session[w].unset))
  \/ /\ session[w].pc = "save" /\ session[w].cv \in DOMAIN rows
     /\ \E new \in BOOLEAN :
          /\ session[w].req.current # None => new = session[w].req.current
          /\ session[w].req.current = None => new = session[w].was
          /\ new /\ ~ session[w].was =>
               ~ CurrentTaken(session[w].req.user, session[w].cv, session[w].unset)
          /\ rows' = IF new = session[w].was THEN Unset(session[w].unset)
                     ELSE [Unset(session[w].unset) EXCEPT ![session[w].cv].current = new]
  \/ session[w].pc = "drop" /\ rows' = [c \in DOMAIN rows \ {session[w].cv} |-> rows[c]]

LEMMA OnlyCommitsWrite ==
  ASSUME IInv, Next, rows' # rows
  PROVE  \E w \in Workers : Writes(w)
<1>1. PICK w \in Workers : Start(w) \/ Statement(w) \/ Fault(w)
  BY DEF Next
<1>2. Insert(w) \/ InsertFails(w) \/ Save(w) \/ DropRow(w)
  BY <1>1 DEF Start, Statement, Fault, Load, FindCurrent, UnsetAllCurrent, PutObject, Undo,
              RemoveObject, PutFails, RemoveFails, Die
<1>3. CASE Insert(w) \/ InsertFails(w)
  BY <1>3 DEF Insert, InsertFails, Writes
<1>4. CASE Save(w)
  <2> DEFINE s == session[w]
             new == IF s.req.current = None THEN s.was ELSE s.req.current
  <2>1. s.pc = "save" /\ s.cv \in DOMAIN rows
    BY <1>4 DEF Save
  <2>2. new \in BOOLEAN
    BY <2>1 DEF IInv, IsSession, Phase, Request
  <2>3. /\ ~ (new /\ ~ s.was /\ CurrentTaken(s.req.user, s.cv, s.unset))
        /\ rows' = IF new = s.was THEN Unset(s.unset)
                   ELSE [Unset(s.unset) EXCEPT ![s.cv].current = new]
    BY <1>4 DEF Save
  <2>4. /\ s.req.current # None => new = s.req.current
        /\ s.req.current = None => new = s.was
    OBVIOUS
  <2> HIDE DEF new
  <2> QED
    BY <2>1, <2>2, <2>3, <2>4 DEF Writes
<1>5. CASE DropRow(w)
  BY <1>5 DEF DropRow, Writes
<1> QED
  BY <1>2, <1>3, <1>4, <1>5

\* A commit is the step of the shelf for the request of the transaction.
LEMMA CommitTakesEffect ==
  ASSUME IInv, NEW w \in Workers, Writes(w), rows' # rows
  PROVE  session[w].pc # "idle" /\ TakesEffect(w)
<1> DEFINE s == session[w]
           r == s.req
<1>1. CASE s.pc = "insert" /\ rows' = Inserted(w) /\ ~ (r.current /\ CurrentTaken(r.user, s.cv, s.unset))
  <2>1. /\ r.op = "upload" /\ s.cv \notin DOMAIN rows
        /\ r.user \in Users /\ r.current \in BOOLEAN
        /\ DOMAIN rows' = DOMAIN rows \cup {s.cv}
        /\ rows'[s.cv].owner = r.user /\ rows'[s.cv].current = r.current
        /\ \A c \in DOMAIN rows :
             /\ rows'[c].owner = rows[c].owner
             /\ rows'[c].current <=> (rows[c].current /\ c \notin s.unset)
    BY <1>1, InsertedTable
  <2>2. /\ s.unset \subseteq CurrentOf(r.user)
        /\ s.unset # {} => r.current
    BY DEF IInv, Locking, Phase
  <2>3. [c \in DOMAIN rows' |-> rows'[c].owner] =
          [d \in DOMAIN [c \in DOMAIN rows |-> rows[c].owner] \cup {s.cv} |->
             IF d = s.cv THEN r.user ELSE [c \in DOMAIN rows |-> rows[c].owner][d]]
    BY <2>1
  <2>4. {c \in DOMAIN rows' : rows'[c].current} =
          IF r.current
          THEN ({c \in DOMAIN rows : rows[c].current} \ Shelf!Of(r.user)) \cup {s.cv}
          ELSE {c \in DOMAIN rows : rows[c].current}
    <3>1. CASE r.current
      <4>1. CurrentOf(r.user) \subseteq s.unset
        BY <1>1, <2>1, <3>1 DEF CurrentTaken, CurrentOf
      <4> QED
        BY <2>1, <2>2, <3>1, <4>1 DEF CurrentOf, Shelf!Of
    <3>2. CASE ~ r.current
      BY <2>1, <2>2, <3>2
    <3> QED
      BY <3>1, <3>2
  <2> QED
    BY <1>1, <2>1, <2>3, <2>4 DEF TakesEffect, Shelf!Upload
<1>2. ASSUME s.pc = "save", s.cv \in DOMAIN rows, NEW new \in BOOLEAN,
             r.current # None => new = r.current,
             r.current = None => new = s.was,
             new /\ ~ s.was => ~ CurrentTaken(r.user, s.cv, s.unset),
             rows' = IF new = s.was THEN Unset(s.unset)
                     ELSE [Unset(s.unset) EXCEPT ![s.cv].current = new]
      PROVE  TakesEffect(w)
  <2>1. /\ r \in Request /\ r.op = "patch" /\ rows[s.cv].owner = r.user
        /\ s.unset \subseteq CurrentOf(r.user)
        /\ DOMAIN rows' = DOMAIN rows
        /\ \A c \in DOMAIN rows :
             /\ rows'[c].owner = rows[c].owner
             /\ rows'[c].current <=> IF c = s.cv /\ new # s.was THEN new
                                     ELSE rows[c].current /\ c \notin s.unset
    BY <1>2, SavedTable
  <2>2. s.was \in BOOLEAN /\ (s.unset # {} => r.current = TRUE /\ ~ s.was)
    BY <2>1 DEF IInv, IsSession, Phase
  <2>3. new # s.was
    <3> SUFFICES ASSUME new = s.was PROVE FALSE
      OBVIOUS
    <3>1. s.unset = {}
      BY <1>2, <2>2, CvAssumption
    <3>2. Unset({}) = rows
      <4>1. \A c \in DOMAIN rows : rows[c] \in [owner : Users, current : BOOLEAN]
        BY DEF IInv, Tables
      <4>2. \A c \in DOMAIN rows : [rows[c] EXCEPT !.current = @ /\ c \notin {}] = rows[c]
        BY <4>1
      <4>3. rows = [c \in DOMAIN rows |-> rows[c]]
        BY DEF IInv, IsTable
      <4> QED
        BY <4>2, <4>3 DEF Unset
    <3> QED
      BY <1>2, <3>1, <3>2
  <2>4. r.current # None /\ new = r.current
    BY <1>2, <2>3
  <2>5. [c \in DOMAIN rows' |-> rows'[c].owner] = [c \in DOMAIN rows |-> rows[c].owner]
    BY <2>1
  <2>6. {c \in DOMAIN rows' : rows'[c].current} =
          IF new
          THEN ({c \in DOMAIN rows : rows[c].current} \ Shelf!Of(r.user)) \cup {s.cv}
          ELSE {c \in DOMAIN rows : rows[c].current} \ {s.cv}
    <3>1. CASE new
      <4>1. CurrentOf(r.user) \subseteq s.unset \cup {s.cv}
        BY <1>2, <2>2, <2>3, <3>1 DEF CurrentTaken
      <4> QED
        BY <1>2, <2>1, <2>3, <3>1, <4>1 DEF CurrentOf, Shelf!Of
    <3>2. CASE ~ new
      <4>1. s.unset = {}
        BY <2>2, <2>4, <3>2
      <4> QED
        BY <2>1, <2>3, <3>2, <4>1
    <3> QED
      BY <3>1, <3>2
  <2>7. s.cv \in Shelf!Of(r.user)
    BY <1>2, <2>1 DEF Shelf!Of
  <2> QED
    BY <2>1, <2>4, <2>5, <2>6, <2>7 DEF TakesEffect, Shelf!Mark
<1>3. CASE s.pc = "drop" /\ rows' = [c \in DOMAIN rows \ {s.cv} |-> rows[c]]
  <2>1. s.cv \in DOMAIN rows
    BY <1>3 DEF IInv, IsTable
  <2>2. r.op = "delete" /\ rows[s.cv].owner = r.user
    BY <1>3, <2>1 DEF IInv, Phase, Stands, Uploading
  <2>3. s.cv \in Shelf!Of(r.user)
    BY <2>1, <2>2 DEF Shelf!Of
  <2>4. [c \in DOMAIN rows' |-> rows'[c].owner] =
          [d \in DOMAIN [c \in DOMAIN rows |-> rows[c].owner] \ {s.cv} |->
             [c \in DOMAIN rows |-> rows[c].owner][d]]
    BY <1>3
  <2>5. {c \in DOMAIN rows' : rows'[c].current} = {c \in DOMAIN rows : rows[c].current} \ {s.cv}
    BY <1>3
  <2> QED
    BY <1>3, <2>2, <2>3, <2>4, <2>5 DEF TakesEffect, Shelf!Remove
<1> QED
  BY <1>1, <1>2, <1>3 DEF Writes

\* What the users see changes as CvShelf says, by the request that commits.
THEOREM ShelfIsImplemented == Spec => ImplementsShelf
<1>1. Init => Shelf!Init
  BY DEF Init, Shelf!Init
<1>2. IInv /\ [Next]_vars =>
        [\E w \in Workers : session[w].pc # "idle" /\ TakesEffect(w)]_rows
  BY OnlyCommitsWrite, CommitTakesEffect DEF vars
<1> QED
  BY <1>1, <1>2, Invariance, PTL DEF Spec, ImplementsShelf

\* Only the delete of the current CV, or a patch that unsets it, leaves a user
\* who has a current CV without one.
THEOREM CurrentStays == Spec => CurrentKept
<1> DEFINE Left(c) == \E w \in Workers :
                        /\ session[w].cv = c
                        /\ \/ session[w].pc = "drop"
                           \/ session[w].pc = "save" /\ session[w].req.current = FALSE
           Kept == \A u \in Users : \A c \in CurrentOf(u) : CurrentOf(u)' = {} => Left(c)
<1>1. ASSUME IInv, NEW w \in Workers, Writes(w), rows' # rows,
             NEW u \in Users, NEW c \in CurrentOf(u), CurrentOf(u)' = {}
      PROVE  Left(c)
  <2> DEFINE s == session[w]
             r == s.req
  <2>1. CASE s.pc = "insert" /\ rows' = Inserted(w) /\ ~ (r.current /\ CurrentTaken(r.user, s.cv, s.unset))
    <3>1. /\ DOMAIN rows' = DOMAIN rows \cup {s.cv} /\ r.user \in Users
          /\ rows'[s.cv].owner = r.user /\ rows'[s.cv].current = r.current
          /\ \A d \in DOMAIN rows :
               /\ rows'[d].owner = rows[d].owner
               /\ rows'[d].current <=> (rows[d].current /\ d \notin s.unset)
      BY <1>1, <2>1, InsertedTable
    <3>2. c \in s.unset
      BY <1>1, <3>1 DEF CurrentOf
    <3>3. u = r.user /\ r.current = TRUE
      BY <1>1, <3>2 DEF IInv, Locking, Phase, CurrentOf
    <3> QED
      BY <1>1, <3>1, <3>3 DEF CurrentOf
  <2>2. ASSUME s.pc = "save", s.cv \in DOMAIN rows, NEW new \in BOOLEAN,
               r.current # None => new = r.current,
               r.current = None => new = s.was,
               new /\ ~ s.was => ~ CurrentTaken(r.user, s.cv, s.unset),
               rows' = IF new = s.was THEN Unset(s.unset)
                       ELSE [Unset(s.unset) EXCEPT ![s.cv].current = new]
        PROVE  Left(c)
    <3>1. /\ r \in Request /\ rows[s.cv].owner = r.user
          /\ s.unset \subseteq CurrentOf(r.user)
          /\ DOMAIN rows' = DOMAIN rows
          /\ \A d \in DOMAIN rows :
               /\ rows'[d].owner = rows[d].owner
               /\ rows'[d].current <=> IF d = s.cv /\ new # s.was THEN new
                                       ELSE rows[d].current /\ d \notin s.unset
      BY <1>1, <2>2, SavedTable
    <3>2. s.was \in BOOLEAN /\ (s.unset # {} => r.current = TRUE /\ ~ s.was)
      BY <1>1, <2>2, <3>1 DEF IInv, IsSession, Phase
    <3>3. CASE c \in s.unset
      <4>1. u = r.user /\ new /\ ~ s.was
        BY <1>1, <2>2, <3>1, <3>2, <3>3, CvAssumption DEF CurrentOf
      <4>2. s.cv \in CurrentOf(u)'
        BY <2>2, <3>1, <4>1 DEF CurrentOf
      <4> QED
        BY <1>1, <4>2
    <3>4. CASE c \notin s.unset
      <4>1. c = s.cv /\ new # s.was /\ ~ new
        BY <1>1, <3>1, <3>4 DEF CurrentOf
      <4>2. r.current = FALSE
        BY <2>2, <4>1
      <4> QED
        BY <2>2, <4>1, <4>2
    <3> QED
      BY <3>3, <3>4
  <2>3. CASE s.pc = "drop" /\ rows' = [d \in DOMAIN rows \ {s.cv} |-> rows[d]]
    BY <1>1, <2>3 DEF CurrentOf
  <2> QED
    BY <1>1, <2>1, <2>2, <2>3 DEF Writes
<1>2. ASSUME IInv, [Next]_vars PROVE [Kept]_vars
  <2>1. CASE rows' = rows
    BY <2>1 DEF CurrentOf
  <2>2. CASE rows' # rows
    BY <1>1, <1>2, <2>2, OnlyCommitsWrite DEF vars
  <2> QED
    BY <2>1, <2>2
<1> QED
  BY <1>2, Invariance, PTL DEF Spec, CurrentKept
=============================================================================
