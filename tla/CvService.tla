------------------------------ MODULE CvService ------------------------------
(***************************************************************************)
(* CvService: CV metadata in PostgreSQL, the PDF in an object store, and no *)
(* transaction that spans both.                                             *)
(*                                                                          *)
(* Requests run at the same time, each in a session of its own.  A query is *)
(* one step; the writes of a transaction take effect at its commit, and the *)
(* rows that unset_all_current has updated stay locked until then, over the *)
(* call to the object store.  A call to the store or a commit may fail, and *)
(* may have taken effect although it failed; a request may die at any step. *)
(* Titles, notes and file contents are abstracted away.                     *)
(***************************************************************************)
CONSTANTS CvIds,    \* the uuids of CVs, each given out once
          Users,
          Workers,  \* the requests served at the same time
          None      \* no value; a field the client left out

ASSUME CvAssumption == None \notin CvIds \cup BOOLEAN

VARIABLES rows,     \* the table cv: id -> [owner, current]
          objects,  \* the ids whose PDF is in the object store
          used,     \* the ids ever given to an upload
          session,  \* session[w]: the request w serves
          cut       \* history: the ids whose upload or delete met a fault

vars == <<rows, objects, used, session, cut>>

Request ==
  [op : {"upload"}, user : Users, current : BOOLEAN]
    \cup [op : {"patch"}, user : Users, cv : CvIds, current : BOOLEAN \cup {None}]
    \cup [op : {"delete"}, user : Users, cv : CvIds]

\* pc names the next statement or call, was the is_current loaded, seen the
\* current rows the UPDATE of unset_all_current found, unset those it changed
\* and keeps locked.
Idle == [pc |-> "idle", req |-> None, cv |-> None, was |-> FALSE, seen |-> {}, unset |-> {}]

Init ==
  /\ rows = [c \in {} |-> None]
  /\ objects = {}
  /\ used = {}
  /\ session = [w \in Workers |-> Idle]
  /\ cut = {}

-----------------------------------------------------------------------------
(* Tables, locks and sessions *)

\* Mutated form: the UPDATE forgets user_id.
CurrentOfAnyone(u) == {c \in DOMAIN rows : rows[c].current}

\* The rows that unset_all_current looks for.
CurrentOf(u) == {c \in DOMAIN rows : rows[c].owner = u /\ rows[c].current}

\* Mutated form: a transaction waits for its own rows too.
LockedByAnyone(w, c) == \E v \in Workers : c \in session[v].unset

\* A row is locked for w while another transaction has changed it.
Locked(w, c) == \E v \in Workers \ {w} : c \in session[v].unset

\* The table with the rows of S no longer current.
Unset(S) == [c \in DOMAIN rows |-> [rows[c] EXCEPT !.current = @ /\ c \notin S]]

\* Mutated form: a schema without the unique index.
NeverTaken(u, c, S) == FALSE

\* uq_cv_single_current_per_user refuses c as the current CV of u, once the
\* rows of S are not.
CurrentTaken(u, c, S) == CurrentOf(u) \ (S \cup {c}) # {}

Go(w, s) == session' = [session EXCEPT ![w] = s]

\* The request ends; what it has not committed is rolled back.
End(w) == Go(w, Idle)

-----------------------------------------------------------------------------
(* upload_cv, update_cv and delete_cv *)

\* A request arrives; an upload has passed validate_pdf_file and draws its id.
\* Clients name only ids they were given.
Start(w) ==
  /\ session[w].pc = "idle"
  /\ \E r \in Request :
       IF r.op = "upload"
       THEN \E c \in CvIds \ used :
              /\ used' = used \cup {c}
              /\ Go(w, [Idle EXCEPT !.pc = IF r.current THEN "unset" ELSE "put",
                                    !.req = r, !.cv = c])
       ELSE /\ r.cv \in used
            /\ Go(w, [Idle EXCEPT !.pc = "load", !.req = r, !.cv = r.cv])
            /\ UNCHANGED used
  /\ UNCHANGED <<rows, objects, cut>>

\* get_cv.
Load(w) ==
  LET s == session[w] r == s.req IN
  /\ s.pc = "load"
  /\ IF s.cv \in DOMAIN rows /\ rows[s.cv].owner = r.user
     THEN LET was == rows[s.cv].current IN
          Go(w, [s EXCEPT !.was = was,
                          !.pc = IF r.op = "delete" THEN "remove"
                                 ELSE IF r.current = TRUE /\ ~ was THEN "unset"
                                 ELSE "save"])
     ELSE End(w)
  /\ UNCHANGED <<rows, objects, used, cut>>

\* unset_all_current: the rows its snapshot finds.
FindCurrent(w) ==
  LET s == session[w] IN
  /\ s.pc = "unset"
  /\ Go(w, [s EXCEPT !.pc = "lock", !.seen = CurrentOf(s.req.user)])
  /\ UNCHANGED <<rows, objects, used, cut>>

\* Mutated form: the UPDATE is committed on its own.
UnsetAtOnce(w) ==
  LET s == session[w] IN
  /\ s.pc = "lock"
  /\ ~ \E c \in s.seen : Locked(w, c)
  /\ rows' = Unset(s.seen)
  /\ Go(w, [s EXCEPT !.pc = IF s.req.op = "upload" THEN "put" ELSE "save"])
  /\ UNCHANGED <<objects, used, cut>>

\* unset_all_current: it waits for the rows another transaction has changed,
\* and updates those that are current still.
UnsetAllCurrent(w) ==
  LET s == session[w] IN
  /\ s.pc = "lock"
  /\ ~ \E c \in s.seen : Locked(w, c)
  /\ Go(w, [s EXCEPT !.pc = IF s.req.op = "upload" THEN "put" ELSE "save",
                     !.unset = s.seen \cap CurrentOf(s.req.user)])
  /\ UNCHANGED <<rows, objects, used, cut>>

\* put_object, before the try block.
PutObject(w) ==
  LET s == session[w] IN
  /\ s.pc = "put"
  /\ objects' = objects \cup {s.cv}
  /\ Go(w, [s EXCEPT !.pc = "insert"])
  /\ UNCHANGED <<rows, used, cut>>

\* The table once the upload of w commits.
Inserted(w) ==
  LET s == session[w]
      t == Unset(s.unset)
  IN [c \in DOMAIN rows \cup {s.cv} |->
        IF c = s.cv THEN [owner |-> s.req.user, current |-> s.req.current] ELSE t[c]]

\* The except block after its rollback: delete_object comes next.
Undoing(s) == [s EXCEPT !.pc = "undo", !.unset = {}]

\* Mutated form: an upload that the database refuses leaves its PDF.
InsertWithoutUndo(w) ==
  LET s == session[w] IN
  /\ s.pc = "insert"
  /\ IF s.req.current /\ CurrentTaken(s.req.user, s.cv, s.unset)
     THEN UNCHANGED rows
     ELSE rows' = Inserted(w)
  /\ End(w)
  /\ UNCHANGED <<objects, used, cut>>

\* create and commit.
Insert(w) ==
  LET s == session[w] IN
  /\ s.pc = "insert"
  /\ IF s.req.current /\ CurrentTaken(s.req.user, s.cv, s.unset)
     THEN Go(w, Undoing(s)) /\ UNCHANGED rows
     ELSE End(w) /\ rows' = Inserted(w)
  /\ UNCHANGED <<objects, used, cut>>

\* delete_object in the except block; the exception goes on.
Undo(w) ==
  LET s == session[w] IN
  /\ s.pc = "undo"
  /\ objects' = objects \ {s.cv}
  /\ End(w)
  /\ UNCHANGED <<rows, used, cut>>

\* save and commit of a PATCH.  is_current is written when it differs from the
\* loaded value; a row that is gone fails the UPDATE or the refresh.
Save(w) ==
  LET s == session[w]
      r == s.req
      new == IF r.current = None THEN s.was ELSE r.current
      t == Unset(s.unset)
  IN
  /\ s.pc = "save"
  /\ ~ Locked(w, s.cv)
  /\ IF \/ s.cv \notin DOMAIN rows
        \/ new /\ ~ s.was /\ CurrentTaken(r.user, s.cv, s.unset)
     THEN UNCHANGED rows
     ELSE rows' = IF new = s.was THEN t ELSE [t EXCEPT ![s.cv].current = new]
  /\ End(w)
  /\ UNCHANGED <<objects, used, cut>>

\* delete_object of delete_cv, before the row is deleted.
RemoveObject(w) ==
  LET s == session[w] IN
  /\ s.pc = "remove"
  /\ objects' = objects \ {s.cv}
  /\ Go(w, [s EXCEPT !.pc = "drop"])
  /\ UNCHANGED <<rows, used, cut>>

\* Mutated form: the current CV is refused, but after its PDF is gone.
DropUnlessCurrent(w) ==
  LET s == session[w] IN
  /\ s.pc = "drop"
  /\ ~ Locked(w, s.cv)
  /\ rows' = [c \in {d \in DOMAIN rows : d # s.cv \/ rows[d].current} |-> rows[c]]
  /\ End(w)
  /\ UNCHANGED <<objects, used, cut>>

\* delete and commit.  A DELETE that meets no row only warns.
DropRow(w) ==
  LET s == session[w] IN
  /\ s.pc = "drop"
  /\ ~ Locked(w, s.cv)
  /\ rows' = [c \in DOMAIN rows \ {s.cv} |-> rows[c]]
  /\ End(w)
  /\ UNCHANGED <<objects, used, cut>>

-----------------------------------------------------------------------------
(* Faults *)

\* put_object raises; the PDF may be stored.
PutFails(w) ==
  LET s == session[w] IN
  /\ s.pc = "put"
  /\ objects' \in {objects, objects \cup {s.cv}}
  /\ End(w)
  /\ cut' = cut \cup {s.cv}
  /\ UNCHANGED <<rows, used>>

\* The commit of an upload raises; it may have taken effect.
InsertFails(w) ==
  LET s == session[w] IN
  /\ s.pc = "insert"
  /\ ~ (s.req.current /\ CurrentTaken(s.req.user, s.cv, s.unset))
  /\ rows' \in {rows, Inserted(w)}
  /\ Go(w, Undoing(s))
  /\ cut' = cut \cup {s.cv}
  /\ UNCHANGED <<objects, used>>

\* delete_object raises; the PDF may be gone.
RemoveFails(w) ==
  LET s == session[w] IN
  /\ s.pc \in {"undo", "remove"}
  /\ objects' \in {objects, objects \ {s.cv}}
  /\ End(w)
  /\ cut' = cut \cup {s.cv}
  /\ UNCHANGED <<rows, used>>

\* The request dies where it stands: the process is restarted, the database
\* refuses a statement, the task is cancelled.
Die(w) ==
  LET s == session[w] IN
  /\ s.pc # "idle"
  /\ End(w)
  /\ cut' = IF s.req.op = "patch" THEN cut ELSE cut \cup {s.cv}
  /\ UNCHANGED <<rows, objects, used>>

-----------------------------------------------------------------------------

Statement(w) ==
  \/ Load(w) \/ FindCurrent(w) \/ UnsetAllCurrent(w) \/ PutObject(w) \/ Insert(w)
  \/ Undo(w) \/ Save(w) \/ RemoveObject(w) \/ DropRow(w)

Fault(w) == PutFails(w) \/ InsertFails(w) \/ RemoveFails(w) \/ Die(w)

Next == \E w \in Workers : Start(w) \/ Statement(w) \/ Fault(w)

Spec == Init /\ [][Next]_vars

\* Calls return, and a transaction that waits for a row gets it in its turn:
\* PostgreSQL queues the waiters of a row lock.
FairSpec == Spec /\ \A w \in Workers : SF_vars(Statement(w))

-----------------------------------------------------------------------------
(* Properties *)

\* Rows and sessions have their shapes; each user has at most one current CV,
\* also when uploads and patches race for it; a row is locked once.
TypeOK ==
  /\ DOMAIN rows \subseteq used /\ objects \subseteq used /\ used \subseteq CvIds
  /\ cut \subseteq used
  /\ \A c \in DOMAIN rows : rows[c] \in [owner : Users, current : BOOLEAN]
  /\ \A w \in Workers :
       LET s == session[w] IN
       /\ s.pc \in {"idle", "load", "unset", "lock", "put", "insert", "undo", "save",
                    "remove", "drop"}
       /\ IF s.pc = "idle" THEN s = Idle ELSE s.req \in Request /\ s.cv \in used
       /\ s.was \in BOOLEAN /\ s.seen \subseteq used /\ s.unset \subseteq s.seen
  /\ \A u \in Users : \A c, d \in CurrentOf(u) : c = d
  /\ \A v, w \in Workers : v # w => session[v].unset \cap session[w].unset = {}

\* A user who has a current CV has one after every step, unless the step is a
\* delete of it or a patch that unsets it: an upload or a patch that replaces
\* it and then fails, for whatever reason, leaves it current.
CurrentKept ==
  [][\A u \in Users : \A c \in CurrentOf(u) :
       CurrentOf(u)' = {} =>
         \E w \in Workers :
           /\ session[w].cv = c
           /\ \/ session[w].pc = "drop"
              \/ session[w].pc = "save" /\ session[w].req.current = FALSE]_vars

\* Whoever waits for a row in the end gets it, so that every request ends: no
\* two transactions wait for each other.
RequestsEnd == \A w \in Workers : session[w].pc # "idle" ~> session[w].pc = "idle"

\* What the users see of the tables.
Shelf == INSTANCE CvShelf WITH owner <- [c \in DOMAIN rows |-> rows[c].owner],
                               current <- {c \in DOMAIN rows : rows[c].current}

\* The request of w takes effect on the shelf.
TakesEffect(w) ==
  LET s == session[w] r == s.req IN
  \/ r.op = "upload" /\ Shelf!Upload(r.user, s.cv, r.current)
  \/ r.op = "patch" /\ r.current # None /\ Shelf!Mark(r.user, s.cv, r.current)
  \/ r.op = "delete" /\ Shelf!Remove(r.user, s.cv)

\* Whatever the interleaving, the waits and the faults, a user's shelf changes
\* only by a whole request for it: the old current CV and the new one change
\* places in one step, and no patch revives a CV or touches another user's.
ImplementsShelf ==
  /\ Shelf!Init
  /\ [][\E w \in Workers : session[w].pc # "idle" /\ TakesEffect(w)]_rows

\* A PDF without a row belongs to an upload under way, or to one cut short by a
\* fault: a refused upload cleans up after itself.
OrphansAccounted ==
  \A c \in objects \ DOMAIN rows :
    c \in cut \/ \E w \in Workers : session[w].cv = c /\ session[w].pc \in {"insert", "undo"}

\* A row without its PDF belongs to a delete under way, or to a request cut
\* short by a fault.
DanglingAccounted ==
  \A c \in DOMAIN rows \ objects :
    c \in cut \/ \E w \in Workers : session[w].cv = c /\ session[w].pc = "drop"
=============================================================================
