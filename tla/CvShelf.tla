------------------------------- MODULE CvShelf -------------------------------
(***************************************************************************)
(* What CvService promises of the CVs a user sees: each request takes       *)
(* effect in one step or not at all.  The PDFs, the locks, the statements   *)
(* and the faults of CvService.tla are hidden.                              *)
(***************************************************************************)
CONSTANTS CvIds, Users

VARIABLES owner,   \* the listed CVs, and who owns them
          current  \* those marked as current

Of(u) == {c \in DOMAIN owner : owner[c] = u}

Init ==
  /\ owner = [c \in {} |-> c]
  /\ current = {}

\* upload_cv: a CV is listed; if it is to be the current one, it replaces the
\* one that was.
Upload(u, c, isCurrent) ==
  /\ c \notin DOMAIN owner
  /\ owner' = [d \in DOMAIN owner \cup {c} |-> IF d = c THEN u ELSE owner[d]]
  /\ current' = IF isCurrent THEN (current \ Of(u)) \cup {c} ELSE current

\* update_cv with is_current: true replaces the current CV, false leaves none.
Mark(u, c, isCurrent) ==
  /\ c \in Of(u)
  /\ current' = IF isCurrent THEN (current \ Of(u)) \cup {c} ELSE current \ {c}
  /\ UNCHANGED owner

\* delete_cv.
Remove(u, c) ==
  /\ c \in Of(u)
  /\ owner' = [d \in DOMAIN owner \ {c} |-> owner[d]]
  /\ current' = current \ {c}

Next ==
  \E u \in Users, c \in CvIds :
    \/ \E isCurrent \in BOOLEAN : Upload(u, c, isCurrent) \/ Mark(u, c, isCurrent)
    \/ Remove(u, c)

Spec == Init /\ [][Next]_<<owner, current>>
=============================================================================
