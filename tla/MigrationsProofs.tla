-------------------------- MODULE MigrationsProofs --------------------------
(***************************************************************************)
(* The database always has the schema of its revision and rows that fit it, *)
(* for every set of ids and every number of rows.                           *)
(*                                                                          *)
(* The proof follows the migrations one operation at a time.  Each upgrade  *)
(* is shown to do one of two things to a database of the revision before    *)
(* it (UpGives): it fails, exactly when a table that gets an owner holds    *)
(* rows, or it leaves the next schema and every row.  Each downgrade that   *)
(* does not fail leaves the schema before it, and takes rows or owners only *)
(* from the tables it drops them of (DownGives).  So the schema is a        *)
(* function of the revision (SchemaOf), which is the invariant; what the    *)
(* rows must be like to fit it (Fits) is a function of the revision too.    *)
(* That the recursive functions Run and UpgradedFrom exist is shown by      *)
(* looking for the least index where they would not (InductionTo).          *)
(***************************************************************************)
EXTENDS Migrations, TLAPS, WellFoundedInduction

-----------------------------------------------------------------------------
(* Lists of operations *)

\* Induction up to n, over the indices at which something holds.
LEMMA InductionTo ==
  ASSUME NEW m \in Int, NEW n \in Int, m <= n, NEW I, m \in I,
         \A k \in m + 1 .. n : k - 1 \in I => k \in I
  PROVE  n \in I
<1> SUFFICES ASSUME n \notin I PROVE FALSE
  OBVIOUS
<1> DEFINE missed == {k \in Nat : m + k \in m .. n \ I}
           less == OpToRel(<, Nat)
<1>1. IsWellFoundedOn(less, Nat)
  BY NatLessThanWellFounded
<1>2. less = {ss \in Nat \X Nat : ss[1] < ss[2]}
  BY DEF OpToRel
<1>3. missed \subseteq Nat /\ n - m \in missed
  OBVIOUS
<1> HIDE DEF less
<1>4. PICK k \in missed : \A h \in missed : ~ (<<h, k>> \in less)
  BY <1>1, <1>3, WFMin
<1>5. k \in Nat /\ m + k \in m .. n /\ m + k \notin I
  OBVIOUS
<1>6. k # 0
  BY <1>5
<1>7. k - 1 \in Nat /\ m + (k - 1) \in m .. n /\ <<k - 1, k>> \in less
  BY <1>2, <1>5, <1>6
<1>8. m + (k - 1) \in I
  BY <1>4, <1>7
<1>9. m + k \in m + 1 .. n /\ (m + k) - 1 = m + (k - 1)
  BY <1>5, <1>6
<1> QED
  BY <1>5, <1>8, <1>9

\* f is the database before and after each of the operations.
Traces(f, db, ops) ==
  /\ f[0] = db
  /\ \A i \in 1 .. Len(ops) : f[i] = Apply(f[i - 1], ops[i])

\* A run has a trace, and ends where it ends: the recursive function exists.
LEMMA RunTraces ==
  ASSUME NEW db, NEW ops, Len(ops) \in Nat
  PROVE  \E f : Traces(f, db, ops) /\ Run(db, ops) = f[Len(ops)]
<1> DEFINE L == Len(ops)
           Is(g, k) == g = [i \in 0 .. k |-> IF i = 0 THEN db ELSE Apply(g[i - 1], ops[i])]
           I == {k \in 0 .. L : \E g : Is(g, k)}
           f == CHOOSE g : Is(g, L)
<1>1. 0 \in I
  <2>1. \A i \in 0 .. 0 : i = 0
    OBVIOUS
  <2>2. Is([i \in 0 .. 0 |-> db], 0)
    BY <2>1
  <2> HIDE DEF Is
  <2> QED
    BY <2>2
<1>2. ASSUME NEW k \in 1 .. L, k - 1 \in I PROVE k \in I
  <2>1. PICK g : Is(g, k - 1)
    BY <1>2
  <2> DEFINE h == [i \in 0 .. k |-> IF i = k THEN Apply(g[k - 1], ops[k]) ELSE g[i]]
  <2>2. ASSUME NEW i \in 0 .. k
        PROVE  h[i] = IF i = 0 THEN db ELSE Apply(h[i - 1], ops[i])
    <3>1. CASE i = k
      BY <3>1
    <3>2. CASE i # k
      <4>1. i \in 0 .. k - 1 /\ h[i] = g[i] /\ (i # 0 => h[i - 1] = g[i - 1])
        BY <3>2
      <4> QED
        BY <2>1, <4>1
    <3> QED
      BY <3>1, <3>2
  <2>3. Is(h, k)
    BY <2>2
  <2> HIDE DEF Is, h
  <2> QED
    BY <2>3
<1>3. L \in I
  <2> HIDE DEF I, L
  <2>1. L \in Nat
    BY DEF L
  <2> QED
    BY <1>1, <1>2, <2>1, InductionTo
<1>4. Is(f, L)
  <2>1. \E g : Is(g, L)
    BY <1>3
  <2> HIDE DEF Is
  <2> QED
    BY <2>1
<1>5. Run(db, ops) = f[L]
  BY DEF Run
<1>6. Traces(f, db, ops)
  <2> HIDE DEF f
  <2> QED
    BY <1>4 DEF Traces
<1> QED
  BY <1>5, <1>6

\* The same of the upgrades of several revisions.
Climbs(f, db, m, n) ==
  /\ f[m] = db
  /\ \A k \in m + 1 .. n : f[k] = Run(f[k - 1], Up[k])

\* So has an upgrade over several revisions: the database at each of them.
LEMMA UpgradedClimbs ==
  ASSUME NEW db, NEW m \in Int, NEW n \in Int, m <= n
  PROVE  \E f : Climbs(f, db, m, n) /\ UpgradedFrom(db, m, n) = f[n]
<1> DEFINE Is(g, k) == g = [i \in m .. k |-> IF i = m THEN db ELSE Run(g[i - 1], Up[i])]
           I == {k \in m .. n : \E g : Is(g, k)}
           f == CHOOSE g : Is(g, n)
<1>1. m \in I
  <2>1. \A i \in m .. m : i = m
    OBVIOUS
  <2>2. Is([i \in m .. m |-> db], m)
    BY <2>1
  <2> HIDE DEF Is
  <2> QED
    BY <2>2
<1>2. ASSUME NEW k \in m + 1 .. n, k - 1 \in I PROVE k \in I
  <2>1. PICK g : Is(g, k - 1)
    BY <1>2
  <2> DEFINE h == [i \in m .. k |-> IF i = k THEN Run(g[k - 1], Up[k]) ELSE g[i]]
  <2>2. ASSUME NEW i \in m .. k
        PROVE  h[i] = IF i = m THEN db ELSE Run(h[i - 1], Up[i])
    <3>1. CASE i = k
      BY <3>1
    <3>2. CASE i # k
      <4>1. i \in m .. k - 1 /\ h[i] = g[i] /\ (i # m => h[i - 1] = g[i - 1])
        BY <3>2
      <4> QED
        BY <2>1, <4>1
    <3> QED
      BY <3>1, <3>2
  <2>3. Is(h, k)
    BY <2>2
  <2> HIDE DEF Is, h
  <2> QED
    BY <2>3
<1>3. n \in I
  <2> HIDE DEF I
  <2> QED
    BY <1>1, <1>2, InductionTo
<1>4. Is(f, n)
  <2>1. \E g : Is(g, n)
    BY <1>3
  <2> HIDE DEF Is
  <2> QED
    BY <2>1
<1>5. UpgradedFrom(db, m, n) = f[n]
  BY DEF UpgradedFrom
<1>6. Climbs(f, db, m, n)
  <2> HIDE DEF f
  <2> QED
    BY <1>4 DEF Climbs
<1> QED
  BY <1>5, <1>6

\* In the transaction of a migration that has failed nothing is executed any more.
LEMMA ApplyFailed ==
  ASSUME NEW op
  PROVE  Apply(Failed, op) = Failed
BY DEF Apply

\* Nor does any list of operations get a failed migration going again.
LEMMA RunFailed ==
  ASSUME NEW ops, Len(ops) \in Nat
  PROVE  Run(Failed, ops) = Failed
<1>1. PICK f : Traces(f, Failed, ops) /\ Run(Failed, ops) = f[Len(ops)]
  BY RunTraces
<1> DEFINE I == {i \in 0 .. Len(ops) : f[i] = Failed}
<1>2. 0 \in I
  BY <1>1 DEF Traces
<1>3. ASSUME NEW i \in 1 .. Len(ops), i - 1 \in I PROVE i \in I
  BY <1>1, <1>3, ApplyFailed DEF Traces
<1>4. Len(ops) \in I
  <2> HIDE DEF I
  <2> QED
    BY <1>2, <1>3, InductionTo
<1> QED
  BY <1>1, <1>4

\* One list after the other.
LEMMA RunBoth ==
  ASSUME NEW db, NEW A, NEW a \in Seq(A), NEW b \in Seq(A)
  PROVE  Run(db, a \o b) = Run(Run(db, a), b)
<1> DEFINE m == Len(a)
           n == Len(b)
<1>1. m \in Nat /\ n \in Nat /\ Len(a \o b) = m + n
  OBVIOUS
<1>2. PICK f : Traces(f, db, a \o b) /\ Run(db, a \o b) = f[m + n]
  <2>1. Len(a \o b) \in Nat
    BY <1>1
  <2>2. PICK f : Traces(f, db, a \o b) /\ Run(db, a \o b) = f[Len(a \o b)]
    BY <2>1, RunTraces
  <2> QED
    BY <1>1, <2>2
<1>3. PICK g : Traces(g, db, a) /\ Run(db, a) = g[m]
  BY <1>1, RunTraces
<1>4. PICK h : Traces(h, g[m], b) /\ Run(g[m], b) = h[n]
  BY <1>1, RunTraces
<1>5. /\ \A i \in 1 .. m : (a \o b)[i] = a[i]
      /\ \A i \in 1 .. n : (a \o b)[m + i] = b[i]
  OBVIOUS
<1>6. /\ f[0] = db
      /\ \A i \in 1 .. m + n : f[i] = Apply(f[i - 1], (a \o b)[i])
  BY <1>1, <1>2 DEF Traces
<1>7. /\ g[0] = db
      /\ \A i \in 1 .. m : g[i] = Apply(g[i - 1], a[i])
  BY <1>3 DEF Traces
<1>8. /\ h[0] = g[m]
      /\ \A i \in 1 .. n : h[i] = Apply(h[i - 1], b[i])
  BY <1>4 DEF Traces
<1> HIDE DEF m, n
<1>9. f[m] = g[m]
  <2> DEFINE I == {i \in 0 .. m : f[i] = g[i]}
  <2>1. 0 \in I
    BY <1>1, <1>6, <1>7
  <2>2. ASSUME NEW i \in 1 .. m, i - 1 \in I PROVE i \in I
    <3>1. i \in 1 .. m + n /\ f[i - 1] = g[i - 1]
      BY <1>1, <2>2
    <3>2. f[i] = Apply(f[i - 1], a[i])
      BY <1>5, <1>6, <3>1
    <3> QED
      BY <1>1, <1>7, <3>1, <3>2
  <2>3. m \in I
    <3> HIDE DEF I
    <3> QED
      BY <1>1, <2>1, <2>2, InductionTo
  <2> QED
    BY <2>3
<1>10. f[m + n] = h[n]
  <2> DEFINE I == {i \in 0 .. n : f[m + i] = h[i]}
  <2>1. 0 \in I
    BY <1>1, <1>8, <1>9
  <2>2. ASSUME NEW i \in 1 .. n, i - 1 \in I PROVE i \in I
    <3>1. m + i \in 1 .. m + n /\ (m + i) - 1 = m + (i - 1) /\ f[m + (i - 1)] = h[i - 1]
      BY <1>1, <2>2
    <3>2. f[m + i] = Apply(f[m + (i - 1)], b[i])
      BY <1>5, <1>6, <3>1
    <3> QED
      BY <1>1, <1>8, <3>1, <3>2
  <2>3. n \in I
    <3> HIDE DEF I
    <3> QED
      BY <1>1, <2>1, <2>2, InductionTo
  <2> QED
    BY <2>3
<1> QED
  BY <1>2, <1>3, <1>4, <1>10

IsList(a) == \E A : a \in Seq(A)

\* A migration written as two lists runs one after the other.
LEMMA RunJoined ==
  ASSUME NEW db, NEW a, NEW b, IsList(a), IsList(b)
  PROVE  IsList(a \o b) /\ Run(db, a \o b) = Run(Run(db, a), b)
<1>1. PICK A : a \in Seq(A)
  BY DEF IsList
<1>2. PICK B : b \in Seq(B)
  BY DEF IsList
<1>3. a \in Seq(A \cup B) /\ b \in Seq(A \cup B)
  BY <1>1, <1>2
<1>4. a \o b \in Seq(A \cup B)
  BY <1>3
<1> QED
  BY <1>3, <1>4, RunBoth DEF IsList

\* A migration of one operation, of two, of three, of four.
LEMMA RunOne ==
  ASSUME NEW db, NEW ops, Len(ops) = 1
  PROVE  Run(db, ops) = Apply(db, ops[1])
<1>1. PICK f : Traces(f, db, ops) /\ Run(db, ops) = f[Len(ops)]
  <2>1. Len(ops) \in Nat
    OBVIOUS
  <2> QED
    BY <2>1, RunTraces
<1> QED
  BY <1>1 DEF Traces

LEMMA RunTwo ==
  ASSUME NEW db, NEW ops, Len(ops) = 2
  PROVE  Run(db, ops) = Apply(Apply(db, ops[1]), ops[2])
<1>1. PICK f : Traces(f, db, ops) /\ Run(db, ops) = f[Len(ops)]
  <2>1. Len(ops) \in Nat
    OBVIOUS
  <2> QED
    BY <2>1, RunTraces
<1> QED
  BY <1>1 DEF Traces

LEMMA RunThree ==
  ASSUME NEW db, NEW ops, Len(ops) = 3
  PROVE  Run(db, ops) = Apply(Apply(Apply(db, ops[1]), ops[2]), ops[3])
<1>1. PICK f : Traces(f, db, ops) /\ Run(db, ops) = f[Len(ops)]
  <2>1. Len(ops) \in Nat
    OBVIOUS
  <2> QED
    BY <2>1, RunTraces
<1> QED
  BY <1>1 DEF Traces

LEMMA RunFour ==
  ASSUME NEW db, NEW ops, Len(ops) = 4
  PROVE  Run(db, ops) = Apply(Apply(Apply(Apply(db, ops[1]), ops[2]), ops[3]), ops[4])
<1>1. PICK f : Traces(f, db, ops) /\ Run(db, ops) = f[Len(ops)]
  <2>1. Len(ops) \in Nat
    OBVIOUS
  <2> QED
    BY <2>1, RunTraces
<1> QED
  BY <1>1 DEF Traces

-----------------------------------------------------------------------------
(* What one operation does *)

\* A database.
D(s, r) == [schema |-> s, rows |-> r]

\* What the tables may hold.
RowSets == [Tables -> SUBSET Row]

\* Only the schema is set.
LEMMA SchemaSet ==
  ASSUME NEW s, NEW r, NEW new
  PROVE  [D(s, r) EXCEPT !.schema = new] = D(new, r)
BY DEF D

\* A database that holds rows is not a failed one.
LEMMA DatabaseIs ==
  ASSUME NEW s, NEW r \in RowSets
  PROVE  /\ D(s, r) # Failed
         /\ D(s, r).schema = s /\ D(s, r).rows = r
BY MigrationsAssumption DEF D, Failed, RowSets

\* create: what is created must be new, and a unique index must hold for the CVs.
LEMMA CreateGives ==
  ASSUME NEW s, NEW r \in RowSets, NEW new
  PROVE  Apply(D(s, r), Create(new))
           = IF new \cap s = {} /\ CurrentIsSingle(new, r["cv"]) THEN D(s \cup new, r) ELSE Failed
<1> DEFINE db == D(s, r)
           op == Create(new)
<1>1. db # Failed /\ db.schema = s /\ db.rows = r
  BY DatabaseIs
<1>2. op.do = "create" /\ op.objects = new
  BY DEF Create
<1>3. [db EXCEPT !.schema = @ \cup new] = D(s \cup new, r)
  BY <1>1, SchemaSet
<1> HIDE DEF db, op
<1>4. Possible(db, op) <=> new \cap s = {} /\ CurrentIsSingle(new, r["cv"])
  BY <1>1, <1>2 DEF Possible, Creatable
<1>5. Apply(db, op) = IF Possible(db, op) THEN [db EXCEPT !.schema = @ \cup op.objects] ELSE Failed
  BY <1>1, <1>2 DEF Apply
<1> QED
  BY <1>2, <1>3, <1>4, <1>5 DEF db, op

\* drop_index, drop_constraint: what is dropped must be there.
LEMMA DropGives ==
  ASSUME NEW s, NEW r \in RowSets, NEW old
  PROVE  Apply(D(s, r), Drop(old)) = IF old \subseteq s THEN D(s \ old, r) ELSE Failed
<1> DEFINE db == D(s, r)
           op == Drop(old)
<1>1. db # Failed /\ db.schema = s /\ db.rows = r
  BY DatabaseIs
<1>2. op.do = "drop" /\ op.objects = old
  BY DEF Drop
<1>3. [db EXCEPT !.schema = @ \ old] = D(s \ old, r)
  BY DEF D
<1> HIDE DEF db, op
<1>4. Possible(db, op) <=> old \subseteq s
  BY <1>1, <1>2 DEF Possible
<1>5. Apply(db, op) = IF Possible(db, op) THEN [db EXCEPT !.schema = @ \ op.objects] ELSE Failed
  BY <1>1, <1>2 DEF Apply
<1> QED
  BY <1>2, <1>3, <1>4, <1>5 DEF db, op

\* A required column is added to a table that has no rows, or not at all.
LEMMA AddGives ==
  ASSUME NEW s, NEW r \in RowSets, NEW t \in Tables, NEW c
  PROVE  Apply(D(s, r), AddRequired(t, c))
           = IF <<t, c>> \notin s /\ r[t] = {} THEN D(s \cup {<<t, c>>}, r) ELSE Failed
<1> DEFINE db == D(s, r)
           op == AddRequired(t, c)
<1>1. db # Failed /\ db.schema = s /\ db.rows = r
  BY DatabaseIs
<1>2. op.do = "add required" /\ op.table = t /\ op.column = c
  BY DEF AddRequired
<1>3. [db EXCEPT !.schema = @ \cup {<<t, c>>}] = D(s \cup {<<t, c>>}, r)
  BY DEF D
<1> HIDE DEF db, op
<1>4. Possible(db, op) <=> <<t, c>> \notin s
  BY <1>1, <1>2 DEF Possible
<1>5. Apply(db, op) = IF Possible(db, op) THEN Required(db, t, c) ELSE Failed
  BY <1>1, <1>2 DEF Apply
<1>6. Required(db, t, c) = IF r[t] = {} THEN [db EXCEPT !.schema = @ \cup {<<t, c>>}] ELSE Failed
  BY <1>1 DEF Required
<1> QED
  BY <1>3, <1>4, <1>5, <1>6 DEF db, op

\* Rows once their owner is gone.
Disowned(S) == {[q EXCEPT !.user = None] : q \in S}

\* The rows of a table without their owners are the same rows.
LEMMA DisownedIs ==
  ASSUME NEW S \in SUBSET Row
  PROVE  /\ Disowned(S) \in SUBSET Row
         /\ \A q \in Disowned(S) : q.user = None /\ \E p \in S : q = [p EXCEPT !.user = None]
         /\ \A p \in S : \E q \in Disowned(S) : q.id = p.id /\ q.current = p.current
<1>1. \A p \in Row : LET q == [p EXCEPT !.user = None]
                     IN  q \in Row /\ q.user = None /\ q.id = p.id /\ q.current = p.current
  BY DEF Row
<1>2. \A q \in Disowned(S) : \E p \in S : q = [p EXCEPT !.user = None]
  BY DEF Disowned
<1>3. \A p \in S : [p EXCEPT !.user = None] \in Disowned(S)
  BY DEF Disowned
<1>4. ASSUME NEW q \in Disowned(S) PROVE q \in Row /\ q.user = None
  <2>1. PICK p \in S : q = [p EXCEPT !.user = None]
    BY <1>2
  <2>2. p \in Row
    OBVIOUS
  <2> QED
    BY <2>1, <2>2 DEF Row
<1>5. ASSUME NEW p \in S PROVE \E q \in Disowned(S) : q.id = p.id /\ q.current = p.current
  <2>1. p \in Row
    OBVIOUS
  <2> QED
    BY <1>1, <1>3, <2>1
<1> QED
  BY <1>2, <1>4, <1>5

\* The rows once the owner of those of t is gone.
Unowned(r, t) == [r EXCEPT ![t] = Disowned(r[t])]

\* drop_column: of the rows only the owner can be lost.
LEMMA DropColumnGives ==
  ASSUME NEW s, NEW r \in RowSets, NEW t \in Tables, NEW c
  PROVE  Apply(D(s, r), DropColumn(t, c))
           = IF <<t, c>> \in s
             THEN D(s \ {<<t, c>>}, IF c = "user_id" THEN Unowned(r, t) ELSE r)
             ELSE Failed
<1> DEFINE db == D(s, r)
           op == DropColumn(t, c)
           rr == IF c = "user_id" THEN Unowned(r, t) ELSE r
<1>1. db # Failed /\ db.schema = s /\ db.rows = r
  BY DatabaseIs
<1>2. op.do = "drop column" /\ op.table = t /\ op.column = c
  BY DEF DropColumn
<1>3. [r EXCEPT ![t] = Without(db, t, c)] = rr
  <2>1. r = [u \in Tables |-> r[u]]
    BY DEF RowSets
  <2>2. [r EXCEPT ![t] = r[t]] = r
    BY <2>1
  <2> HIDE DEF db
  <2> QED
    BY <1>1, <2>2 DEF Without, Unowned, Disowned
<1> HIDE DEF db, op, rr
<1>5. Possible(db, op) <=> <<t, c>> \in s
  BY <1>1, <1>2 DEF Possible
<1>6. Apply(db, op) = IF Possible(db, op)
                      THEN [schema |-> s \ {<<t, c>>}, rows |-> [r EXCEPT ![t] = Without(db, t, c)]]
                      ELSE Failed
  BY <1>1, <1>2 DEF Apply
<1> QED
  BY <1>3, <1>5, <1>6 DEF db, op, rr, D

\* The schema without table t.
Lacking(s, t) == {o \in s : o[1] # t}

\* The rows without those of t.
Emptied(r, t) == [r EXCEPT ![t] = {}]

\* drop_table, which a key of another table stops: the table's rows are gone and no others.
LEMMA DropTableGives ==
  ASSUME NEW s, NEW r \in RowSets, NEW t \in Tables
  PROVE  \/ Apply(D(s, r), DropTable(t)) = Failed
         \/ Apply(D(s, r), DropTable(t)) = D(Lacking(s, t), Emptied(r, t))
<1> DEFINE db == D(s, r)
           op == DropTable(t)
<1>1. db # Failed /\ db.schema = s /\ db.rows = r
  BY DatabaseIs
<1>2. op.do = "drop table" /\ op.table = t
  BY DEF DropTable
<1> HIDE DEF db, op
<1>3. \/ Apply(db, op) = Failed
      \/ Apply(db, op) = [schema |-> {o \in db.schema : o[1] # op.table},
                          rows |-> [db.rows EXCEPT ![op.table] = {}]]
  BY <1>1, <1>2 DEF Apply
<1> QED
  BY <1>1, <1>2, <1>3 DEF db, op, D, Lacking, Emptied

\* The rows of each table after a table is dropped, and after owners are.
LEMMA EmptiedIs ==
  ASSUME NEW r \in RowSets, NEW t, NEW u \in Tables
  PROVE  Emptied(r, t)[u] = IF u = t THEN {} ELSE r[u]
BY DEF Emptied, RowSets

LEMMA UnownedIs ==
  ASSUME NEW r \in RowSets, NEW t, NEW u \in Tables
  PROVE  Unowned(r, t)[u] = IF u = t THEN Disowned(r[u]) ELSE r[u]
BY DEF Unowned, RowSets

\* The rows of a database stay rows.
LEMMA RowSetsStay ==
  ASSUME NEW r \in RowSets, NEW t \in Tables
  PROVE  Unowned(r, t) \in RowSets /\ Emptied(r, t) \in RowSets
<1>1. Disowned(r[t]) \in SUBSET Row
  BY DisownedIs DEF RowSets
<1> QED
  BY <1>1 DEF Unowned, Emptied, RowSets

-----------------------------------------------------------------------------
(* The schema of each revision *)

\* Objects are told apart by their length and what they name.
LEMMA TupleFacts ==
  ASSUME NEW t, NEW c, NEW u, NEW s, NEW d, NEW v
  PROVE  /\ <<t>> # <<s, d>> /\ <<t>> # <<s, d, v>> /\ <<t, c>> # <<s, d, v>>
         /\ <<t>> = <<s>> <=> t = s
         /\ <<t, c>> = <<s, d>> <=> t = s /\ c = d
         /\ <<t, c, u>> = <<s, d, v>> <=> t = s /\ c = d /\ u = v
OBVIOUS

\* The columns every table has.
BaseColumns == {"id", "created_at", "updated_at"}

\* What create_table leaves of a table.
LEMMA TableHas ==
  ASSUME NEW t, NEW names
  PROVE  /\ \A o \in Table(t, names) : o[1] = t
         /\ <<t>> \in Table(t, names)
         /\ \A c : <<t, c>> \in Table(t, names) <=> c \in names \cup BaseColumns
         /\ \A c, u : <<t, c, u>> \notin Table(t, names)
<1>1. \A o \in Table(t, names) : o = <<t>> \/ \E c \in names \cup BaseColumns : o = <<t, c>>
  BY DEF Table, BaseColumns
<1>2. \A o \in Table(t, names) : o[1] = t
  BY <1>1
<1>3. <<t>> \in Table(t, names)
  BY DEF Table
<1>4. ASSUME NEW c PROVE <<t, c>> \in Table(t, names) <=> c \in names \cup BaseColumns
  <2>1. <<t>> # <<t, c>> /\ \A d : <<t, d>> = <<t, c>> <=> d = c
    BY TupleFacts
  <2> QED
    BY <2>1 DEF Table, BaseColumns
<1>5. ASSUME NEW c, NEW u PROVE <<t, c, u>> \notin Table(t, names)
  BY <1>1, TupleFacts
<1> QED
  BY <1>2, <1>3, <1>4, <1>5

\* X is a table t with what belongs to it, and has no owner.
About(t, X) ==
  /\ <<t>> \in X
  /\ \A o \in X : o[1] = t
  /\ X \cap Owner(t) = {}

\* What the operation that creates a table, and those that create its indexes, create.
NodesHas ==
  CreateNodes[1].objects \cup CreateNodes[2].objects
    \cup CreateNodes[3].objects \cup CreateNodes[4].objects

CvHas == CreateCv[1].objects \cup CreateCv[2].objects

BoardHas == CreateHiring[1].objects

ColumnHas == CreateHiring[2].objects

ProcessHas == CreateHiring[3].objects

ValueHas == CreateHiring[4].objects

TranslationHas == AddTranslations[1].objects \cup AddTranslations[2].objects

UsersHas == CreateUsers[1].objects

\* The objects that a later migration drops or replaces.
Content == <<"nodes", "content_md">>

OneCurrent == <<"cv", "uq_cv_single_current">>

OneCurrentEach == <<"cv", "uq_cv_single_current_per_user">>

\* A table with names and foreign keys that are not of the owner.
LEMMA AboutTable ==
  ASSUME NEW t, NEW names, "user_id" \notin names, "ix_user_id" \notin names,
         NEW X, \A o \in X : o[1] = t, X \cap Owner(t) = {}
  PROVE  About(t, Table(t, names) \cup X)
<1>1. "user_id" \notin names \cup BaseColumns /\ "ix_user_id" \notin names \cup BaseColumns
  BY DEF BaseColumns
<1>2. /\ <<t, "user_id">> \notin Table(t, names)
      /\ <<t, "ix_user_id">> \notin Table(t, names)
      /\ <<t, "user_id", "users">> \notin Table(t, names)
  BY <1>1, TableHas
<1>3. Table(t, names) \cap Owner(t) = {}
  BY <1>2 DEF Owner
<1>4. (Table(t, names) \cup X) \cap Owner(t) = {}
  BY <1>3
<1> QED
  BY <1>4, TableHas DEF About

\* 0001 creates nodes without an owner, and with content_md.
LEMMA NodesAbout == About("nodes", NodesHas) /\ Content \in NodesHas
<1> DEFINE names == {"parent_id", "title", "content_md", "sort_order", "uq_nodes_parent_title"}
           X == {<<"nodes", "parent_id", "nodes">>, <<"nodes", "ix_nodes_parent_id">>,
                 <<"nodes", "ix_nodes_parent_sort_order">>, <<"nodes", "uq_nodes_root_title">>}
<1>1. NodesHas = Table("nodes", names) \cup X
  BY DEF NodesHas, CreateNodes, Create
<1>2. \A o \in X : o[1] = "nodes"
  OBVIOUS
<1>3. X \cap Owner("nodes") = {}
  BY TupleFacts DEF Owner
<1>4. Content \in Table("nodes", names)
  <2> HIDE DEF names
  <2>1. "content_md" \in names
    BY DEF names
  <2> QED
    BY <2>1, TableHas DEF Content
<1>5. "user_id" \notin names /\ "ix_user_id" \notin names
  OBVIOUS
<1> HIDE DEF names, X
<1> QED
  BY <1>1, <1>2, <1>3, <1>4, <1>5, AboutTable

\* 0002 creates cv without an owner, and the index on the current one after the table.
LEMMA CvAbout ==
  /\ About("cv", CreateCv[1].objects) /\ About("cv", CvHas)
  /\ OneCurrent \in CvHas /\ OneCurrentEach \notin CvHas
  /\ OneCurrent \notin CreateCv[1].objects
  /\ CreateCv[2].objects = {OneCurrent}
<1> DEFINE names == {"title", "original_filename", "storage_key", "file_size", "mime_type",
                     "is_current", "notes", "uq_cv_storage_key"}
<1>1. /\ CreateCv[1].objects = Table("cv", names) \cup {}
      /\ CreateCv[2].objects = {OneCurrent}
      /\ CvHas = Table("cv", names) \cup {OneCurrent}
  BY DEF CvHas, CreateCv, Create, OneCurrent
<1>2. \A o \in {OneCurrent} : o[1] = "cv"
  BY DEF OneCurrent
<1>3. {OneCurrent} \cap Owner("cv") = {}
  BY TupleFacts DEF Owner, OneCurrent
<1>4. "user_id" \notin names /\ "ix_user_id" \notin names
  OBVIOUS
<1>5. /\ "uq_cv_single_current" \notin names \cup BaseColumns
      /\ "uq_cv_single_current_per_user" \notin names \cup BaseColumns
  BY DEF BaseColumns
<1> HIDE DEF names
<1>6. OneCurrent \notin Table("cv", names) /\ OneCurrentEach \notin Table("cv", names)
  BY <1>5, TableHas DEF OneCurrent, OneCurrentEach
<1>7. OneCurrent # OneCurrentEach
  BY DEF OneCurrent, OneCurrentEach
<1>8. About("cv", Table("cv", names) \cup {})
  BY <1>4, AboutTable
<1>9. About("cv", Table("cv", names) \cup {OneCurrent})
  BY <1>2, <1>3, <1>4, AboutTable
<1> QED
  BY <1>1, <1>6, <1>7, <1>8, <1>9

\* 0003 creates four tables without an owner.
LEMMA HiringAbout ==
  /\ About("hiring_board", BoardHas)
  /\ About("hiring_board_column", ColumnHas)
  /\ About("hiring_process", ProcessHas)
  /\ About("hiring_step_value", ValueHas)
<1>1. About("hiring_board", BoardHas)
  <2> DEFINE names == {"title", "sort_order"}
  <2>1. BoardHas = Table("hiring_board", names) \cup {}
    BY DEF BoardHas, CreateHiring, Create
  <2>2. "user_id" \notin names /\ "ix_user_id" \notin names
    OBVIOUS
  <2> HIDE DEF names
  <2> QED
    BY <2>1, <2>2, AboutTable
<1>2. About("hiring_board_column", ColumnHas)
  <2> DEFINE names == {"board_id", "step_kind", "custom_title", "sort_order"}
             X == {<<"hiring_board_column", "board_id", "hiring_board">>}
  <2>1. ColumnHas = Table("hiring_board_column", names) \cup X
    BY DEF ColumnHas, CreateHiring, Create
  <2>2. "user_id" \notin names /\ "ix_user_id" \notin names
    OBVIOUS
  <2>3. \A o \in X : o[1] = "hiring_board_column"
    OBVIOUS
  <2>4. X \cap Owner("hiring_board_column") = {}
    BY TupleFacts DEF Owner
  <2> HIDE DEF names, X
  <2> QED
    BY <2>1, <2>2, <2>3, <2>4, AboutTable
<1>3. About("hiring_process", ProcessHas)
  <2> DEFINE names == {"board_id", "company", "source", "result", "offer_details", "notes",
                       "sort_order"}
             X == {<<"hiring_process", "board_id", "hiring_board">>}
  <2>1. ProcessHas = Table("hiring_process", names) \cup X
    BY DEF ProcessHas, CreateHiring, Create
  <2>2. "user_id" \notin names /\ "ix_user_id" \notin names
    OBVIOUS
  <2>3. \A o \in X : o[1] = "hiring_process"
    OBVIOUS
  <2>4. X \cap Owner("hiring_process") = {}
    BY TupleFacts DEF Owner
  <2> HIDE DEF names, X
  <2> QED
    BY <2>1, <2>2, <2>3, <2>4, AboutTable
<1>4. About("hiring_step_value", ValueHas)
  <2> DEFINE names == {"process_id", "column_id", "status", "event_date",
                       "uq_hiring_step_value_process_column"}
             X == {<<"hiring_step_value", "column_id", "hiring_board_column">>,
                   <<"hiring_step_value", "process_id", "hiring_process">>}
  <2>1. ValueHas = Table("hiring_step_value", names) \cup X
    BY DEF ValueHas, CreateHiring, Create
  <2>2. "user_id" \notin names /\ "ix_user_id" \notin names
    OBVIOUS
  <2>3. \A o \in X : o[1] = "hiring_step_value"
    OBVIOUS
  <2>4. X \cap Owner("hiring_step_value") = {}
    BY TupleFacts DEF Owner
  <2> HIDE DEF names, X
  <2> QED
    BY <2>1, <2>2, <2>3, <2>4, AboutTable
<1> QED
  BY <1>1, <1>2, <1>3, <1>4

\* 0004 creates node_translations without an owner, and its index after the table.
LEMMA TranslationAbout ==
  /\ About("node_translations", AddTranslations[1].objects)
  /\ About("node_translations", TranslationHas)
  /\ AddTranslations[2].objects = {<<"node_translations", "ix_node_translations_node_id">>}
  /\ <<"node_translations", "ix_node_translations_node_id">> \notin AddTranslations[1].objects
<1> DEFINE names == {"node_id", "language", "content_md", "uq_node_translations_node_language"}
           X == {<<"node_translations", "node_id", "nodes">>}
           Y == {<<"node_translations", "ix_node_translations_node_id">>}
<1>1. /\ AddTranslations[1].objects = Table("node_translations", names) \cup X
      /\ AddTranslations[2].objects = Y
      /\ TranslationHas = Table("node_translations", names) \cup (X \cup Y)
  BY DEF TranslationHas, AddTranslations, Create
<1>2. /\ "user_id" \notin names /\ "ix_user_id" \notin names
      /\ "ix_node_translations_node_id" \notin names \cup BaseColumns
  BY DEF BaseColumns
<1>3. \A o \in X \cup Y : o[1] = "node_translations"
  OBVIOUS
<1>4. (X \cup Y) \cap Owner("node_translations") = {}
  BY TupleFacts DEF Owner
<1>5. <<"node_translations", "ix_node_translations_node_id">> \notin X
  BY TupleFacts
<1> HIDE DEF names, X
<1>6. <<"node_translations", "ix_node_translations_node_id">> \notin Table("node_translations", names)
  BY <1>2, TableHas
<1>7. About("node_translations", Table("node_translations", names) \cup (X \cup Y))
  <2> HIDE DEF Y
  <2> QED
    BY <1>2, <1>3, <1>4, AboutTable
<1>8. About("node_translations", Table("node_translations", names) \cup X)
  BY <1>2, <1>3, <1>4, AboutTable
<1> QED
  BY <1>1, <1>5, <1>6, <1>7, <1>8

\* 0005 creates users, which have no owner.
LEMMA UsersAbout == About("users", UsersHas)
<1> DEFINE names == {"email", "hashed_password", "is_active", "is_superuser", "is_verified",
                     "uq_users_email"}
<1>1. UsersHas = Table("users", names) \cup {}
  BY DEF UsersHas, CreateUsers, Create
<1>2. "user_id" \notin names /\ "ix_user_id" \notin names
  OBVIOUS
<1> HIDE DEF names
<1> QED
  BY <1>1, <1>2, AboutTable

\* The operations of 0001 create four different indexes.
LEMMA NodesFresh ==
  /\ CreateNodes[2].objects \cap CreateNodes[1].objects = {}
  /\ CreateNodes[3].objects \cap (CreateNodes[1].objects \cup CreateNodes[2].objects) = {}
  /\ CreateNodes[4].objects
       \cap (CreateNodes[1].objects \cup CreateNodes[2].objects \cup CreateNodes[3].objects) = {}
<1> DEFINE names == {"parent_id", "title", "content_md", "sort_order", "uq_nodes_parent_title"}
           T == Table("nodes", names) \cup {<<"nodes", "parent_id", "nodes">>}
           a == <<"nodes", "ix_nodes_parent_id">>
           b == <<"nodes", "ix_nodes_parent_sort_order">>
           c == <<"nodes", "uq_nodes_root_title">>
<1>1. /\ CreateNodes[1].objects = T /\ CreateNodes[2].objects = {a}
      /\ CreateNodes[3].objects = {b} /\ CreateNodes[4].objects = {c}
  BY DEF CreateNodes, Create
<1>2. /\ "ix_nodes_parent_id" \notin names \cup BaseColumns
      /\ "ix_nodes_parent_sort_order" \notin names \cup BaseColumns
      /\ "uq_nodes_root_title" \notin names \cup BaseColumns
  BY DEF BaseColumns
<1>3. \A x : <<"nodes", x>> # <<"nodes", "parent_id", "nodes">>
  BY TupleFacts
<1>4. a # b /\ a # c /\ b # c
  OBVIOUS
<1> HIDE DEF names
<1>5. a \notin T /\ b \notin T /\ c \notin T
  BY <1>2, <1>3, TableHas
<1> HIDE DEF T, a, b, c
<1> QED
  BY <1>1, <1>4, <1>5

\* The schema after each upgrade.
S1 == NodesHas

S2 == S1 \cup CvHas

S3 == S2 \cup BoardHas \cup ColumnHas \cup ProcessHas \cup ValueHas

S4 == (S3 \cup TranslationHas) \ {Content}

S5 == S4 \cup UsersHas

S6 ==
  ((S5 \cup Owner("nodes") \cup Owner("cv") \cup Owner("hiring_board")) \ {OneCurrent})
    \cup {OneCurrentEach}

S7 ==
  S6 \cup Owner("hiring_board_column") \cup Owner("hiring_process")
     \cup Owner("hiring_step_value") \cup Owner("node_translations")

SchemaOf(n) ==
  CASE n = 0 -> {} [] n = 1 -> S1 [] n = 2 -> S2 [] n = 3 -> S3
    [] n = 4 -> S4 [] n = 5 -> S5 [] n = 6 -> S6 [] n = 7 -> S7

\* The tables that are there at a revision.
TablesOf(n) ==
  (IF n >= 1 THEN {"nodes"} ELSE {}) \cup (IF n >= 2 THEN {"cv"} ELSE {})
    \cup (IF n >= 3 THEN {"hiring_board", "hiring_board_column", "hiring_process",
                          "hiring_step_value"} ELSE {})
    \cup (IF n >= 4 THEN {"node_translations"} ELSE {})
    \cup (IF n >= 5 THEN {"users"} ELSE {})

\* Those whose rows have an owner.
OwnedTables(n) ==
  (IF n >= 6 THEN {"nodes", "cv", "hiring_board"} ELSE {})
    \cup (IF n >= 7 THEN {"hiring_board_column", "hiring_process", "hiring_step_value",
                          "node_translations"} ELSE {})

\* The three objects of an owner are of its table, and none of the objects with a name here.
LEMMA OwnerIs ==
  ASSUME NEW t
  PROVE  /\ \A o \in Owner(t) : o[1] = t
         /\ <<t, "user_id">> \in Owner(t)
         /\ \A s : <<s>> \notin Owner(t)
         /\ Content \notin Owner(t) /\ OneCurrent \notin Owner(t) /\ OneCurrentEach \notin Owner(t)
<1>1. \A o \in Owner(t) : o[1] = t
  BY DEF Owner
<1>2. \A s : <<s>> \notin Owner(t)
  BY TupleFacts DEF Owner
<1>3. ASSUME NEW s, NEW c, c # "user_id", c # "ix_user_id" PROVE <<s, c>> \notin Owner(t)
  BY <1>3, TupleFacts DEF Owner
<1>4. Content \notin Owner(t) /\ OneCurrent \notin Owner(t) /\ OneCurrentEach \notin Owner(t)
  BY <1>3 DEF Content, OneCurrent, OneCurrentEach
<1> QED
  BY <1>1, <1>2, <1>4 DEF Owner

\* The objects of the schemas before there are owners.
LEMMA Early ==
  /\ \A o \in S1 : o[1] = "nodes"
  /\ \A o \in S2 : o[1] \in {"nodes", "cv"}
  /\ \A o \in S3 : o[1] \in {"nodes", "cv", "hiring_board", "hiring_board_column",
                             "hiring_process", "hiring_step_value"}
  /\ \A o \in S4 : o[1] \in {"nodes", "cv", "hiring_board", "hiring_board_column",
                             "hiring_process", "hiring_step_value", "node_translations"}
  /\ \A o \in S5 : o[1] \in Tables
<1>1. \A o \in S1 : o[1] = "nodes"
  BY NodesAbout DEF About, S1
<1>2. \A o \in S2 : o[1] \in {"nodes", "cv"}
  BY <1>1, CvAbout DEF About, S2
<1>3. \A o \in S3 : o[1] \in {"nodes", "cv", "hiring_board", "hiring_board_column",
                             "hiring_process", "hiring_step_value"}
  BY <1>2, HiringAbout DEF About, S3
<1>4. \A o \in S4 : o[1] \in {"nodes", "cv", "hiring_board", "hiring_board_column",
                             "hiring_process", "hiring_step_value", "node_translations"}
  BY <1>3, TranslationAbout DEF About, S4
<1>5. \A o \in S5 : o[1] \in Tables
  BY <1>4, UsersAbout DEF About, S5, Tables
<1> QED
  BY <1>1, <1>2, <1>3, <1>4, <1>5

\* Before 0006 no table has an owner.
LEMMA EarlyUnowned ==
  ASSUME NEW t
  PROVE  /\ S1 \cap Owner(t) = {} /\ S2 \cap Owner(t) = {} /\ S3 \cap Owner(t) = {}
         /\ S4 \cap Owner(t) = {} /\ S5 \cap Owner(t) = {}
         /\ \A s, X : About(s, X) => X \cap Owner(t) = {}
<1>1. ASSUME NEW s, NEW X, About(s, X) PROVE X \cap Owner(t) = {}
  <2>1. CASE s = t
    BY <1>1, <2>1 DEF About
  <2>2. CASE s # t
    BY <1>1, <2>2, OwnerIs DEF About
  <2> QED
    BY <2>1, <2>2
<1>2. S1 \cap Owner(t) = {}
  BY <1>1, NodesAbout DEF S1
<1>3. S2 \cap Owner(t) = {}
  BY <1>1, <1>2, CvAbout DEF S2
<1>4. /\ BoardHas \cap Owner(t) = {} /\ ColumnHas \cap Owner(t) = {}
      /\ ProcessHas \cap Owner(t) = {} /\ ValueHas \cap Owner(t) = {}
  BY <1>1, HiringAbout
<1>5. S3 \cap Owner(t) = {}
  BY <1>3, <1>4 DEF S3
<1>6. S4 \cap Owner(t) = {}
  BY <1>1, <1>5, TranslationAbout DEF S4
<1>7. S5 \cap Owner(t) = {}
  BY <1>1, <1>6, UsersAbout DEF S5
<1> QED
  BY <1>1, <1>2, <1>3, <1>5, <1>6, <1>7

\* Which of the two indexes on current CVs a schema has.
LEMMA CurrentOf ==
  /\ OneCurrent \notin S1 /\ OneCurrentEach \notin S1
  /\ OneCurrent \in S2 /\ OneCurrent \in S3 /\ OneCurrent \in S4 /\ OneCurrent \in S5
  /\ OneCurrentEach \notin S2 /\ OneCurrentEach \notin S3 /\ OneCurrentEach \notin S4
  /\ OneCurrentEach \notin S5 /\ OneCurrentEach \in S6 /\ OneCurrent \notin S6
  /\ \A X, t : About(t, X) /\ t # "cv" => OneCurrent \notin X /\ OneCurrentEach \notin X
<1>1. OneCurrent[1] = "cv" /\ OneCurrentEach[1] = "cv" /\ OneCurrent # OneCurrentEach
  BY DEF OneCurrent, OneCurrentEach
<1>2. Content[1] = "nodes"
  BY DEF Content
<1>3. \A X, t : About(t, X) /\ t # "cv" => OneCurrent \notin X /\ OneCurrentEach \notin X
  BY <1>1 DEF About
<1>4. OneCurrent \notin S1 /\ OneCurrentEach \notin S1
  BY <1>3, NodesAbout DEF S1
<1>5. OneCurrent \in S2 /\ OneCurrentEach \notin S2
  BY <1>4, CvAbout DEF S2
<1>6. OneCurrent \in S3 /\ OneCurrentEach \notin S3
  BY <1>3, <1>5, HiringAbout DEF S3
<1>7. OneCurrent \in S4 /\ OneCurrentEach \notin S4
  BY <1>1, <1>2, <1>3, <1>6, TranslationAbout DEF S4
<1>8. OneCurrent \in S5 /\ OneCurrentEach \notin S5
  BY <1>3, <1>7, UsersAbout DEF S5
<1>9. OneCurrentEach \in S6 /\ OneCurrent \notin S6
  BY <1>1, OwnerIs DEF S6
<1> QED
  BY <1>3, <1>4, <1>5, <1>6, <1>7, <1>8, <1>9

-----------------------------------------------------------------------------
(* What each upgrade does *)

\* What is new and no index on current CVs can be created.
LEMMA CreateFresh ==
  ASSUME NEW s, NEW r \in RowSets, NEW new, new \cap s = {},
         OneCurrent \notin new, OneCurrentEach \notin new
  PROVE  Apply(D(s, r), Create(new)) = D(s \cup new, r)
<1>1. CurrentIsSingle(new, r["cv"])
  BY DEF CurrentIsSingle, OneCurrent, OneCurrentEach
<1> QED
  BY <1>1, CreateGives

\* The seven revisions.
LEMMA UpIs ==
  /\ Len(Up) = 7 /\ Latest = 7
  /\ Up[1] = CreateNodes /\ Up[2] = CreateCv /\ Up[3] = CreateHiring
  /\ Up[4] = AddTranslations /\ Up[5] = CreateUsers
  /\ Up[6] = AddOwner("nodes") \o AddOwner("cv") \o AddOwner("hiring_board")
               \o << Drop({OneCurrent}), Create({OneCurrentEach}) >>
  /\ Up[7] = AddOwner("hiring_board_column") \o AddOwner("hiring_process")
               \o AddOwner("hiring_step_value") \o AddOwner("node_translations")
BY DEF Up, Latest, OneCurrent, OneCurrentEach

\* 0001 never fails on a database without a schema.
LEMMA CreateNodesGives ==
  ASSUME NEW r \in RowSets
  PROVE  Run(D({}, r), CreateNodes) = D(S1, r)
<1> DEFINE a == CreateNodes[1].objects
           b == CreateNodes[2].objects
           c == CreateNodes[3].objects
           d == CreateNodes[4].objects
<1>1. /\ Len(CreateNodes) = 4
      /\ CreateNodes[1] = Create(a) /\ CreateNodes[2] = Create(b)
      /\ CreateNodes[3] = Create(c) /\ CreateNodes[4] = Create(d)
  BY DEF CreateNodes, Create
<1>2. NodesHas = a \cup b \cup c \cup d
  BY DEF NodesHas
<1>3. OneCurrent \notin NodesHas /\ OneCurrentEach \notin NodesHas
  BY CurrentOf DEF S1
<1>4. b \cap a = {} /\ c \cap (a \cup b) = {} /\ d \cap (a \cup b \cup c) = {}
  BY NodesFresh
<1> HIDE DEF a, b, c, d
<1>5. Apply(D({}, r), Create(a)) = D(a, r)
  <2>1. {} \cup a = a
    OBVIOUS
  <2>2. Apply(D({}, r), Create(a)) = D({} \cup a, r)
    BY <1>2, <1>3, CreateFresh
  <2> QED
    BY <2>1, <2>2
<1>6. Apply(D(a, r), Create(b)) = D(a \cup b, r)
  BY <1>2, <1>3, <1>4, CreateFresh
<1>7. Apply(D(a \cup b, r), Create(c)) = D(a \cup b \cup c, r)
  BY <1>2, <1>3, <1>4, CreateFresh
<1>8. Apply(D(a \cup b \cup c, r), Create(d)) = D(a \cup b \cup c \cup d, r)
  BY <1>2, <1>3, <1>4, CreateFresh
<1> QED
  BY <1>1, <1>2, <1>5, <1>6, <1>7, <1>8, RunFour DEF S1

\* 0002 would only fail on CVs, which are not there yet.
LEMMA CreateCvGives ==
  ASSUME NEW r \in RowSets
  PROVE  Run(D(S1, r), CreateCv)
           = IF CurrentIsSingle({OneCurrent}, r["cv"]) THEN D(S2, r) ELSE Failed
<1> DEFINE a == CreateCv[1].objects
<1>1. Len(CreateCv) = 2 /\ CreateCv[1] = Create(a) /\ CreateCv[2] = Create({OneCurrent})
  BY DEF CreateCv, Create, OneCurrent
<1>2. CvHas = a \cup {OneCurrent} /\ OneCurrent \notin a /\ OneCurrentEach \notin CvHas
  BY CvAbout DEF CvHas
<1>3. \A o \in a : o[1] = "cv"
  BY CvAbout DEF About
<1> HIDE DEF a
<1>4. a \cap S1 = {} /\ OneCurrent \notin S1
  BY <1>3, Early, CurrentOf
<1>5. Apply(D(S1, r), Create(a)) = D(S1 \cup a, r)
  BY <1>2, <1>4, CreateFresh
<1>6. Apply(D(S1 \cup a, r), Create({OneCurrent}))
        = IF CurrentIsSingle({OneCurrent}, r["cv"]) THEN D((S1 \cup a) \cup {OneCurrent}, r) ELSE Failed
  BY <1>2, <1>4, CreateGives
<1>7. (S1 \cup a) \cup {OneCurrent} = S2
  BY <1>2 DEF S2
<1> QED
  BY <1>1, <1>5, <1>6, <1>7, RunTwo

\* 0003 never fails after 0002.
LEMMA CreateHiringGives ==
  ASSUME NEW r \in RowSets
  PROVE  Run(D(S2, r), CreateHiring) = D(S3, r)
<1>1. /\ Len(CreateHiring) = 4
      /\ CreateHiring[1] = Create(BoardHas) /\ CreateHiring[2] = Create(ColumnHas)
      /\ CreateHiring[3] = Create(ProcessHas) /\ CreateHiring[4] = Create(ValueHas)
  BY DEF CreateHiring, Create, BoardHas, ColumnHas, ProcessHas, ValueHas
<1>2. /\ \A o \in BoardHas : o[1] = "hiring_board"
      /\ \A o \in ColumnHas : o[1] = "hiring_board_column"
      /\ \A o \in ProcessHas : o[1] = "hiring_process"
      /\ \A o \in ValueHas : o[1] = "hiring_step_value"
  BY HiringAbout DEF About
<1>3. \A X \in {BoardHas, ColumnHas, ProcessHas, ValueHas} : OneCurrent \notin X /\ OneCurrentEach \notin X
  BY HiringAbout, CurrentOf
<1>4. \A o \in S2 : o[1] \in {"nodes", "cv"}
  BY Early
<1>5. Apply(D(S2, r), Create(BoardHas)) = D(S2 \cup BoardHas, r)
  BY <1>2, <1>3, <1>4, CreateFresh
<1>6. Apply(D(S2 \cup BoardHas, r), Create(ColumnHas)) = D(S2 \cup BoardHas \cup ColumnHas, r)
  <2>1. ColumnHas \cap (S2 \cup BoardHas) = {}
    BY <1>2, <1>4
  <2> QED
    BY <2>1, <1>3, CreateFresh
<1>7. Apply(D(S2 \cup BoardHas \cup ColumnHas, r), Create(ProcessHas))
        = D(S2 \cup BoardHas \cup ColumnHas \cup ProcessHas, r)
  <2>1. ProcessHas \cap (S2 \cup BoardHas \cup ColumnHas) = {}
    BY <1>2, <1>4
  <2> QED
    BY <2>1, <1>3, CreateFresh
<1>8. Apply(D(S2 \cup BoardHas \cup ColumnHas \cup ProcessHas, r), Create(ValueHas)) = D(S3, r)
  <2>1. ValueHas \cap (S2 \cup BoardHas \cup ColumnHas \cup ProcessHas) = {}
    BY <1>2, <1>4
  <2> QED
    BY <2>1, <1>3, CreateFresh DEF S3
<1> QED
  BY <1>1, <1>5, <1>6, <1>7, <1>8, RunFour

\* 0004 never fails after 0003: content_md is there to be dropped.
LEMMA AddTranslationsGives ==
  ASSUME NEW r \in RowSets
  PROVE  Run(D(S3, r), AddTranslations) = D(S4, r)
<1> DEFINE a == AddTranslations[1].objects
           b == AddTranslations[2].objects
<1>1. /\ Len(AddTranslations) = 3
      /\ AddTranslations[1] = Create(a) /\ AddTranslations[2] = Create(b)
      /\ AddTranslations[3] = DropColumn("nodes", "content_md")
  BY DEF AddTranslations, Create
<1>2. TranslationHas = a \cup b /\ b \cap a = {}
  BY TranslationAbout DEF TranslationHas
<1> HIDE DEF a, b
<1>3. \A o \in TranslationHas : o[1] = "node_translations"
  BY TranslationAbout DEF About
<1>4. OneCurrent \notin TranslationHas /\ OneCurrentEach \notin TranslationHas
  BY TranslationAbout, CurrentOf
<1>5. TranslationHas \cap S3 = {}
  BY <1>3, Early
<1>6. Apply(D(S3, r), Create(a)) = D(S3 \cup a, r)
  BY <1>2, <1>4, <1>5, CreateFresh
<1>7. Apply(D(S3 \cup a, r), Create(b)) = D(S3 \cup a \cup b, r)
  <2>1. b \cap (S3 \cup a) = {}
    BY <1>2, <1>5
  <2> QED
    BY <1>2, <1>4, <2>1, CreateFresh
<1>8. <<"nodes", "content_md">> \in S3 \cup a \cup b
  BY NodesAbout DEF S3, S2, S1, Content
<1>9. Apply(D(S3 \cup a \cup b, r), DropColumn("nodes", "content_md"))
        = D((S3 \cup a \cup b) \ {Content}, r)
  BY <1>8, DropColumnGives DEF Tables, Content
<1>10. (S3 \cup a \cup b) \ {Content} = S4
  BY <1>2 DEF S4
<1> QED
  BY <1>1, <1>6, <1>7, <1>9, <1>10, RunThree

\* 0005 never fails after 0004.
LEMMA CreateUsersGives ==
  ASSUME NEW r \in RowSets
  PROVE  Run(D(S4, r), CreateUsers) = D(S5, r)
<1>1. Len(CreateUsers) = 1 /\ CreateUsers[1] = Create(UsersHas)
  BY DEF CreateUsers, Create, UsersHas
<1>2. UsersHas \cap S4 = {}
  BY UsersAbout, Early DEF About
<1>3. OneCurrent \notin UsersHas /\ OneCurrentEach \notin UsersHas
  BY UsersAbout, CurrentOf
<1> QED
  BY <1>1, <1>2, <1>3, CreateFresh, RunOne DEF S5

\* An owner can be added to a table exactly when it has no rows.
LEMMA AddOwnerGives ==
  ASSUME NEW s, NEW r \in RowSets, NEW t \in Tables, s \cap Owner(t) = {}
  PROVE  Run(D(s, r), AddOwner(t)) = IF r[t] = {} THEN D(s \cup Owner(t), r) ELSE Failed
<1> DEFINE a == <<t, "user_id">>
           b == <<t, "user_id", "users">>
           c == <<t, "ix_user_id">>
<1>1. /\ Len(AddOwner(t)) = 3
      /\ AddOwner(t)[1] = AddRequired(t, "user_id")
      /\ AddOwner(t)[2] = Create({b}) /\ AddOwner(t)[3] = Create({c})
  BY DEF AddOwner
<1>2. Owner(t) = {a, b, c}
  BY DEF Owner
<1>3. a # b /\ a # c /\ b # c
  BY TupleFacts
<1>4. {b} \cap (s \cup {a}) = {} /\ {c} \cap (s \cup {a} \cup {b}) = {} /\ a \notin s
  BY <1>2, <1>3
<1>5. OneCurrent \notin {b} /\ OneCurrentEach \notin {b} /\ OneCurrent \notin {c} /\ OneCurrentEach \notin {c}
  BY <1>2, OwnerIs
<1>6. Apply(D(s, r), AddRequired(t, "user_id")) = IF r[t] = {} THEN D(s \cup {a}, r) ELSE Failed
  BY <1>4, AddGives
<1> HIDE DEF a, b, c
<1>7. Apply(D(s \cup {a}, r), Create({b})) = D(s \cup {a} \cup {b}, r)
  BY <1>4, <1>5, CreateFresh
<1>8. Apply(D(s \cup {a} \cup {b}, r), Create({c})) = D(s \cup {a} \cup {b} \cup {c}, r)
  BY <1>4, <1>5, CreateFresh
<1>9. s \cup {a} \cup {b} \cup {c} = s \cup Owner(t)
  BY <1>2
<1>10. Run(D(s, r), AddOwner(t))
         = Apply(Apply(Apply(D(s, r), AddRequired(t, "user_id")), Create({b})), Create({c}))
  BY <1>1, RunThree
<1> QED
  BY <1>6, <1>7, <1>8, <1>9, <1>10, ApplyFailed

\* Adding and dropping an owner are lists of operations.
LEMMA AddOwnerIsList ==
  ASSUME NEW t
  PROVE  IsList(AddOwner(t)) /\ IsList(DropOwner(t))
<1>1. AddOwner(t) \in Seq({AddOwner(t)[1], AddOwner(t)[2], AddOwner(t)[3]})
  BY DEF AddOwner
<1>2. DropOwner(t) \in Seq({DropOwner(t)[1], DropOwner(t)[2], DropOwner(t)[3]})
  BY DEF DropOwner
<1> QED
  BY <1>1, <1>2 DEF IsList

\* The owners of two tables share no object.
LEMMA OwnersApart ==
  ASSUME NEW s, NEW t, s # t
  PROVE  Owner(s) \cap Owner(t) = {}
BY OwnerIs

\* 0006 fails when there is a node, a CV or a board, and only then: the one
\* index on current CVs that it drops is there, and no CV can break the other.
LEMMA ScopeGives ==
  ASSUME NEW r \in RowSets
  PROVE  Run(D(S5, r), Up[6])
           = IF r["nodes"] = {} /\ r["cv"] = {} /\ r["hiring_board"] = {} THEN D(S6, r) ELSE Failed
<1> DEFINE a == AddOwner("nodes")
           b == AddOwner("cv")
           c == AddOwner("hiring_board")
           d == << Drop({OneCurrent}), Create({OneCurrentEach}) >>
           N == S5 \cup Owner("nodes")
           C == N \cup Owner("cv")
           B == C \cup Owner("hiring_board")
<1>1. Run(D(S5, r), a) = IF r["nodes"] = {} THEN D(N, r) ELSE Failed
  BY AddOwnerGives, EarlyUnowned DEF Tables
<1>2. Run(D(N, r), b) = IF r["cv"] = {} THEN D(C, r) ELSE Failed
  <2>1. N \cap Owner("cv") = {}
    BY EarlyUnowned, OwnersApart
  <2> HIDE DEF N
  <2> QED
    BY <2>1, AddOwnerGives DEF Tables
<1>3. Run(D(C, r), c) = IF r["hiring_board"] = {} THEN D(B, r) ELSE Failed
  <2>1. C \cap Owner("hiring_board") = {}
    BY EarlyUnowned, OwnersApart
  <2> HIDE DEF C
  <2> QED
    BY <2>1, AddOwnerGives DEF Tables
<1>4. ASSUME r["cv"] = {} PROVE Run(D(B, r), d) = D(S6, r)
  <2>1. OneCurrent \in B /\ OneCurrentEach \notin B /\ OneCurrent # OneCurrentEach
    BY CurrentOf, OwnerIs
  <2>2. (B \ {OneCurrent}) \cup {OneCurrentEach} = S6
    BY DEF S6
  <2> HIDE DEF B
  <2>3. Apply(D(B, r), Drop({OneCurrent})) = D(B \ {OneCurrent}, r)
    BY <2>1, DropGives
  <2>4. CurrentIsSingle({OneCurrentEach}, r["cv"])
    BY <1>4 DEF CurrentIsSingle
  <2>5. Apply(D(B \ {OneCurrent}, r), Create({OneCurrentEach})) = D(S6, r)
    BY <2>1, <2>2, <2>4, CreateGives
  <2>6. Len(d) = 2 /\ d[1] = Drop({OneCurrent}) /\ d[2] = Create({OneCurrentEach})
    OBVIOUS
  <2> HIDE DEF d
  <2> QED
    BY <2>3, <2>5, <2>6, RunTwo
<1>5. IsList(a) /\ IsList(b) /\ IsList(c) /\ IsList(d)
  <2>1. d \in Seq({d[1], d[2]})
    OBVIOUS
  <2> HIDE DEF d
  <2> QED
    BY <2>1, AddOwnerIsList DEF IsList
<1>6. Up[6] = a \o b \o c \o d
  BY UpIs
<1>7. Len(b) \in Nat /\ Len(c) \in Nat /\ Len(d) \in Nat
  BY <1>5 DEF IsList
<1> HIDE DEF a, b, c, d, N, C, B
<1>8. Run(D(S5, r), a \o b \o c \o d) = Run(Run(Run(Run(D(S5, r), a), b), c), d)
  <2>1. IsList(a \o b) /\ Run(D(S5, r), a \o b) = Run(Run(D(S5, r), a), b)
    BY <1>5, RunJoined
  <2>2. /\ IsList((a \o b) \o c)
        /\ Run(D(S5, r), (a \o b) \o c) = Run(Run(D(S5, r), a \o b), c)
    BY <1>5, <2>1, RunJoined
  <2>3. Run(D(S5, r), ((a \o b) \o c) \o d) = Run(Run(D(S5, r), (a \o b) \o c), d)
    BY <1>5, <2>2, RunJoined
  <2> QED
    BY <2>1, <2>2, <2>3
<1>9. Run(Failed, b) = Failed /\ Run(Failed, c) = Failed /\ Run(Failed, d) = Failed
  BY <1>7, RunFailed
<1> QED
  BY <1>1, <1>2, <1>3, <1>4, <1>6, <1>8, <1>9

\* 0006 gives no owner to the tables of 0007.
LEMMA ChildrenUnowned ==
  ASSUME NEW t \in {"hiring_board_column", "hiring_process", "hiring_step_value", "node_translations"}
  PROVE  S6 \cap Owner(t) = {}
<1>1. /\ S5 \cap Owner(t) = {} /\ Owner("nodes") \cap Owner(t) = {}
      /\ Owner("cv") \cap Owner(t) = {} /\ Owner("hiring_board") \cap Owner(t) = {}
  BY EarlyUnowned, OwnersApart
<1>2. OneCurrentEach \notin Owner(t)
  BY OwnerIs
<1> QED
  BY <1>1, <1>2 DEF S6

\* 0007 fails when there is a column, a process, a cell or a translation, and only then.
LEMMA OwnChildrenGives ==
  ASSUME NEW r \in RowSets
  PROVE  Run(D(S6, r), Up[7])
           = IF /\ r["hiring_board_column"] = {} /\ r["hiring_process"] = {}
                /\ r["hiring_step_value"] = {} /\ r["node_translations"] = {}
             THEN D(S7, r) ELSE Failed
<1> DEFINE a == AddOwner("hiring_board_column")
           b == AddOwner("hiring_process")
           c == AddOwner("hiring_step_value")
           d == AddOwner("node_translations")
           A == S6 \cup Owner("hiring_board_column")
           B == A \cup Owner("hiring_process")
           C == B \cup Owner("hiring_step_value")
<1>1. \A t \in {"hiring_board_column", "hiring_process", "hiring_step_value", "node_translations"} :
        S6 \cap Owner(t) = {}
  BY ChildrenUnowned
<1>2. Run(D(S6, r), a) = IF r["hiring_board_column"] = {} THEN D(A, r) ELSE Failed
  BY <1>1, AddOwnerGives DEF Tables
<1>3. Run(D(A, r), b) = IF r["hiring_process"] = {} THEN D(B, r) ELSE Failed
  <2>1. A \cap Owner("hiring_process") = {}
    BY <1>1, OwnersApart
  <2> HIDE DEF A
  <2> QED
    BY <2>1, AddOwnerGives DEF Tables
<1>4. Run(D(B, r), c) = IF r["hiring_step_value"] = {} THEN D(C, r) ELSE Failed
  <2>1. B \cap Owner("hiring_step_value") = {}
    BY <1>1, OwnersApart
  <2> HIDE DEF B
  <2> QED
    BY <2>1, AddOwnerGives DEF Tables
<1>5. Run(D(C, r), d) = IF r["node_translations"] = {} THEN D(S7, r) ELSE Failed
  <2>1. C \cap Owner("node_translations") = {}
    BY <1>1, OwnersApart
  <2>2. C \cup Owner("node_translations") = S7
    BY DEF S7
  <2> HIDE DEF C
  <2> QED
    BY <2>1, <2>2, AddOwnerGives DEF Tables
<1>6. IsList(a) /\ IsList(b) /\ IsList(c) /\ IsList(d)
  BY AddOwnerIsList
<1>7. Up[7] = a \o b \o c \o d
  BY UpIs
<1>8. Len(b) \in Nat /\ Len(c) \in Nat /\ Len(d) \in Nat
  BY <1>6 DEF IsList
<1> HIDE DEF a, b, c, d, A, B, C
<1>9. Run(D(S6, r), a \o b \o c \o d) = Run(Run(Run(Run(D(S6, r), a), b), c), d)
  <2>1. IsList(a \o b) /\ Run(D(S6, r), a \o b) = Run(Run(D(S6, r), a), b)
    BY <1>6, RunJoined
  <2>2. /\ IsList((a \o b) \o c)
        /\ Run(D(S6, r), (a \o b) \o c) = Run(Run(D(S6, r), a \o b), c)
    BY <1>6, <2>1, RunJoined
  <2>3. Run(D(S6, r), ((a \o b) \o c) \o d) = Run(Run(D(S6, r), (a \o b) \o c), d)
    BY <1>6, <2>2, RunJoined
  <2> QED
    BY <2>1, <2>2, <2>3
<1>10. Run(Failed, b) = Failed /\ Run(Failed, c) = Failed /\ Run(Failed, d) = Failed
  BY <1>8, RunFailed
<1> QED
  BY <1>2, <1>3, <1>4, <1>5, <1>7, <1>9, <1>10

\* Every upgrade is a list of operations.
LEMMA UpLists ==
  ASSUME NEW n \in 1 .. 7
  PROVE  Len(Up[n]) \in Nat
<1>1. /\ Len(CreateNodes) = 4 /\ Len(CreateCv) = 2 /\ Len(CreateHiring) = 4
      /\ Len(AddTranslations) = 3 /\ Len(CreateUsers) = 1
  BY DEF CreateNodes, CreateCv, CreateHiring, AddTranslations, CreateUsers
<1>2. IsList(Up[6]) /\ IsList(Up[7])
  <2> DEFINE d == << Drop({OneCurrent}), Create({OneCurrentEach}) >>
  <2>1. d \in Seq({d[1], d[2]})
    OBVIOUS
  <2>2. IsList(d)
    BY <2>1 DEF IsList
  <2> HIDE DEF d
  <2>3. IsList(AddOwner("nodes") \o AddOwner("cv"))
    BY AddOwnerIsList, RunJoined
  <2>4. IsList((AddOwner("nodes") \o AddOwner("cv")) \o AddOwner("hiring_board"))
    BY <2>3, AddOwnerIsList, RunJoined
  <2>5. IsList(((AddOwner("nodes") \o AddOwner("cv")) \o AddOwner("hiring_board")) \o d)
    BY <2>2, <2>4, RunJoined
  <2>6. IsList(AddOwner("hiring_board_column") \o AddOwner("hiring_process"))
    BY AddOwnerIsList, RunJoined
  <2>7. IsList((AddOwner("hiring_board_column") \o AddOwner("hiring_process"))
                 \o AddOwner("hiring_step_value"))
    BY <2>6, AddOwnerIsList, RunJoined
  <2>8. IsList(((AddOwner("hiring_board_column") \o AddOwner("hiring_process"))
                  \o AddOwner("hiring_step_value")) \o AddOwner("node_translations"))
    BY <2>7, AddOwnerIsList, RunJoined
  <2> QED
    BY <2>5, <2>8, UpIs DEF d
<1>3. Len(Up[6]) \in Nat /\ Len(Up[7]) \in Nat
  BY <1>2 DEF IsList
<1> QED
  BY <1>1, <1>3, UpIs

\* The rows that let an upgrade pass: one CV at most is current when the index
\* says so, and the tables that get an owner are empty.
Passes(n, r) ==
  /\ n = 2 => CurrentIsSingle({OneCurrent}, r["cv"])
  /\ \A t \in OwnedTables(n) \ OwnedTables(n - 1) : r[t] = {}

\* The upgrade to revision n fails exactly when the rows do not let it pass; else
\* the schema is that of n and no row has changed.
LEMMA UpGives ==
  ASSUME NEW n \in 1 .. 7, NEW r \in RowSets
  PROVE  Run(D(SchemaOf(n - 1), r), Up[n]) = IF Passes(n, r) THEN D(SchemaOf(n), r) ELSE Failed
<1>1. CASE n = 1
  <2>1. SchemaOf(n - 1) = {} /\ SchemaOf(n) = S1
    BY <1>1 DEF SchemaOf
  <2>2. Passes(n, r)
    BY <1>1 DEF Passes, OwnedTables
  <2> QED
    BY <1>1, <2>1, <2>2, UpIs, CreateNodesGives
<1>2. CASE n = 2
  <2>1. SchemaOf(n - 1) = S1 /\ SchemaOf(n) = S2
    BY <1>2 DEF SchemaOf
  <2>2. Passes(n, r) <=> CurrentIsSingle({OneCurrent}, r["cv"])
    BY <1>2 DEF Passes, OwnedTables
  <2> QED
    BY <1>2, <2>1, <2>2, UpIs, CreateCvGives
<1>3. CASE n = 3
  <2>1. SchemaOf(n - 1) = S2 /\ SchemaOf(n) = S3
    BY <1>3 DEF SchemaOf
  <2>2. Passes(n, r)
    BY <1>3 DEF Passes, OwnedTables
  <2> QED
    BY <1>3, <2>1, <2>2, UpIs, CreateHiringGives
<1>4. CASE n = 4
  <2>1. SchemaOf(n - 1) = S3 /\ SchemaOf(n) = S4
    BY <1>4 DEF SchemaOf
  <2>2. Passes(n, r)
    BY <1>4 DEF Passes, OwnedTables
  <2> QED
    BY <1>4, <2>1, <2>2, UpIs, AddTranslationsGives
<1>5. CASE n = 5
  <2>1. SchemaOf(n - 1) = S4 /\ SchemaOf(n) = S5
    BY <1>5 DEF SchemaOf
  <2>2. Passes(n, r)
    BY <1>5 DEF Passes, OwnedTables
  <2> QED
    BY <1>5, <2>1, <2>2, UpIs, CreateUsersGives
<1>6. CASE n = 6
  <2>1. SchemaOf(n - 1) = S5 /\ SchemaOf(n) = S6
    BY <1>6 DEF SchemaOf
  <2>2. OwnedTables(n) \ OwnedTables(n - 1) = {"nodes", "cv", "hiring_board"}
    BY <1>6 DEF OwnedTables
  <2>3. Passes(n, r) <=> r["nodes"] = {} /\ r["cv"] = {} /\ r["hiring_board"] = {}
    BY <1>6, <2>2 DEF Passes
  <2> QED
    BY <1>6, <2>1, <2>3, ScopeGives
<1>7. CASE n = 7
  <2>1. SchemaOf(n - 1) = S6 /\ SchemaOf(n) = S7
    BY <1>7 DEF SchemaOf
  <2>2. OwnedTables(n) \ OwnedTables(n - 1)
          = {"hiring_board_column", "hiring_process", "hiring_step_value", "node_translations"}
    BY <1>7 DEF OwnedTables
  <2>3. Passes(n, r) <=> /\ r["hiring_board_column"] = {} /\ r["hiring_process"] = {}
                         /\ r["hiring_step_value"] = {} /\ r["node_translations"] = {}
    BY <1>7, <2>2 DEF Passes
  <2> QED
    BY <1>7, <2>1, <2>3, OwnChildrenGives
<1> QED
  BY <1>1, <1>2, <1>3, <1>4, <1>5, <1>6, <1>7

\* upgrade head over several revisions, in one transaction.
LEMMA UpgradedGives ==
  ASSUME NEW r \in RowSets, NEW m \in 0 .. 7, NEW n \in m .. 7
  PROVE  UpgradedFrom(D(SchemaOf(m), r), m, n)
           = IF \A k \in m + 1 .. n : Passes(k, r) THEN D(SchemaOf(n), r) ELSE Failed
<1> DEFINE db == D(SchemaOf(m), r)
           After(k) == IF \A j \in m + 1 .. k : Passes(j, r) THEN D(SchemaOf(k), r) ELSE Failed
<1>1. PICK f : Climbs(f, db, m, n) /\ UpgradedFrom(db, m, n) = f[n]
  <2> HIDE DEF db
  <2> QED
    BY UpgradedClimbs
<1>2. f[m] = After(m)
  BY <1>1 DEF Climbs
<1>3. ASSUME NEW k \in m + 1 .. n, f[k - 1] = After(k - 1) PROVE f[k] = After(k)
  <2>1. k \in 1 .. 7 /\ f[k] = Run(f[k - 1], Up[k])
    BY <1>1 DEF Climbs
  <2>2. Run(D(SchemaOf(k - 1), r), Up[k]) = IF Passes(k, r) THEN D(SchemaOf(k), r) ELSE Failed
    BY <2>1, UpGives
  <2>3. Run(Failed, Up[k]) = Failed
    <3>1. Len(Up[k]) \in Nat
      BY <2>1, UpLists
    <3> QED
      BY <3>1, RunFailed
  <2>4. (\A j \in m + 1 .. k : Passes(j, r))
          <=> (\A j \in m + 1 .. k - 1 : Passes(j, r)) /\ Passes(k, r)
    OBVIOUS
  <2>5. CASE \A j \in m + 1 .. k - 1 : Passes(j, r)
    BY <1>3, <2>1, <2>2, <2>4, <2>5
  <2>6. CASE ~ \A j \in m + 1 .. k - 1 : Passes(j, r)
    BY <1>3, <2>1, <2>3, <2>4, <2>6
  <2> QED
    BY <2>5, <2>6
<1> DEFINE I == {k \in m .. n : f[k] = After(k)}
<1>4. n \in I
  <2>1. m \in I
    BY <1>2
  <2>2. \A k \in m + 1 .. n : k - 1 \in I => k \in I
    <3> TAKE k \in m + 1 .. n
    <3> HIDE DEF After
    <3> QED
      BY <1>3
  <2> HIDE DEF I
  <2> QED
    BY <2>1, <2>2, InductionTo
<1> QED
  BY <1>1, <1>4

-----------------------------------------------------------------------------
(* What each downgrade does *)

\* The seven downgrades.
LEMMA DownIs ==
  /\ Down[1] = DropNodes /\ Down[2] = DropCv /\ Down[3] = DropHiring
  /\ Down[4] = DropTranslations /\ Down[5] = DropUsers
  /\ Down[6] = << Drop({OneCurrentEach}), Create({OneCurrent}) >>
                 \o DropOwner("hiring_board") \o DropOwner("cv") \o DropOwner("nodes")
  /\ Down[7] = DropOwner("node_translations") \o DropOwner("hiring_step_value")
                 \o DropOwner("hiring_process") \o DropOwner("hiring_board_column")
BY DEF Down, OneCurrent, OneCurrentEach

\* The rows after the downgrade from revision n.
DownRows(n, r) ==
  [t \in Tables |->
     IF t \in TablesOf(n) \ TablesOf(n - 1) THEN {}
     ELSE IF t \in OwnedTables(n) \ OwnedTables(n - 1) THEN Disowned(r[t])
     ELSE r[t]]

\* An operation or a list fails, or leaves this database.
Leaves(db, s, r) == db = Failed \/ db = D(s, r)

\* The downgrade of 0001 leaves nothing of nodes.
LEMMA DropNodesGives ==
  ASSUME NEW r \in RowSets
  PROVE  Leaves(Run(D(S1, r), DropNodes), {}, Emptied(r, "nodes"))
<1> DEFINE a == <<"nodes", "uq_nodes_root_title">>
           b == <<"nodes", "ix_nodes_parent_sort_order">>
           c == <<"nodes", "ix_nodes_parent_id">>
<1>1. /\ Len(DropNodes) = 4
      /\ DropNodes[1] = Drop({a}) /\ DropNodes[2] = Drop({b})
      /\ DropNodes[3] = Drop({c}) /\ DropNodes[4] = DropTable("nodes")
  BY DEF DropNodes
<1> HIDE DEF a, b, c
<1> DEFINE x == Apply(D(S1, r), Drop({a}))
           y == Apply(x, Drop({b}))
           z == Apply(y, Drop({c}))
<1>2. Run(D(S1, r), DropNodes) = Apply(z, DropTable("nodes"))
  BY <1>1, RunFour
<1>3. Leaves(x, S1 \ {a}, r)
  BY DropGives DEF Leaves
<1>4. Leaves(y, (S1 \ {a}) \ {b}, r)
  <2> HIDE DEF x
  <2> QED
    BY <1>3, DropGives, ApplyFailed DEF Leaves
<1>5. Leaves(z, ((S1 \ {a}) \ {b}) \ {c}, r)
  <2> HIDE DEF y
  <2> QED
    BY <1>4, DropGives, ApplyFailed DEF Leaves
<1>6. Lacking(((S1 \ {a}) \ {b}) \ {c}, "nodes") = {}
  BY Early DEF Lacking
<1> HIDE DEF z
<1> QED
  BY <1>2, <1>5, <1>6, DropTableGives, ApplyFailed DEF Leaves, Tables

\* That of 0002 leaves nothing of cv.
LEMMA DropCvGives ==
  ASSUME NEW r \in RowSets
  PROVE  Leaves(Run(D(S2, r), DropCv), S1, Emptied(r, "cv"))
<1>1. /\ Len(DropCv) = 2
      /\ DropCv[1] = Drop({OneCurrent}) /\ DropCv[2] = DropTable("cv")
  BY DEF DropCv, OneCurrent
<1> DEFINE x == Apply(D(S2, r), Drop({OneCurrent}))
<1>2. Run(D(S2, r), DropCv) = Apply(x, DropTable("cv"))
  BY <1>1, RunTwo
<1>3. Leaves(x, S2 \ {OneCurrent}, r)
  BY DropGives DEF Leaves
<1>4. Lacking(S2 \ {OneCurrent}, "cv") = S1
  <2>1. \A o \in CvHas : o[1] = "cv"
    BY CvAbout DEF About
  <2> QED
    BY <2>1, Early, CurrentOf DEF Lacking, S2
<1> HIDE DEF x
<1> QED
  BY <1>2, <1>3, <1>4, DropTableGives, ApplyFailed DEF Leaves, Tables

\* That of 0003 leaves nothing of the four tables.
LEMMA DropHiringGives ==
  ASSUME NEW r \in RowSets
  PROVE  Leaves(Run(D(S3, r), DropHiring), S2, DownRows(3, r))
<1> DEFINE r1 == Emptied(r, "hiring_step_value")
           r2 == Emptied(r1, "hiring_process")
           r3 == Emptied(r2, "hiring_board_column")
           r4 == Emptied(r3, "hiring_board")
           s1 == Lacking(S3, "hiring_step_value")
           s2 == Lacking(s1, "hiring_process")
           s3 == Lacking(s2, "hiring_board_column")
           s4 == Lacking(s3, "hiring_board")
           x == Apply(D(S3, r), DropTable("hiring_step_value"))
           y == Apply(x, DropTable("hiring_process"))
           z == Apply(y, DropTable("hiring_board_column"))
<1>1. /\ Len(DropHiring) = 4
      /\ DropHiring[1] = DropTable("hiring_step_value")
      /\ DropHiring[2] = DropTable("hiring_process")
      /\ DropHiring[3] = DropTable("hiring_board_column")
      /\ DropHiring[4] = DropTable("hiring_board")
  BY DEF DropHiring
<1>2. Run(D(S3, r), DropHiring) = Apply(z, DropTable("hiring_board"))
  BY <1>1, RunFour
<1>3. r1 \in RowSets /\ r2 \in RowSets /\ r3 \in RowSets /\ r4 \in RowSets
  BY RowSetsStay DEF Tables
<1>4. s4 = S2
  <2>1. s4 = {o \in S3 : o[1] \notin {"hiring_step_value", "hiring_process",
                                     "hiring_board_column", "hiring_board"}}
    BY DEF Lacking
  <2>2. \A o \in BoardHas \cup ColumnHas \cup ProcessHas \cup ValueHas :
          o[1] \in {"hiring_step_value", "hiring_process", "hiring_board_column", "hiring_board"}
    BY HiringAbout DEF About
  <2> HIDE DEF s4
  <2> QED
    BY <2>1, <2>2, Early DEF S3
<1>5. r4 = DownRows(3, r)
  <2>1. TablesOf(3) \ TablesOf(2)
          = {"hiring_step_value", "hiring_process", "hiring_board_column", "hiring_board"}
    BY DEF TablesOf
  <2>2. OwnedTables(3) = {}
    BY DEF OwnedTables
  <2>3. ASSUME NEW t \in Tables PROVE r4[t] = DownRows(3, r)[t]
    <3>1. r4[t] = IF t = "hiring_board" THEN {} ELSE r3[t]
      <4> HIDE DEF r3
      <4> QED
        BY <1>3, EmptiedIs
    <3>2. r3[t] = IF t = "hiring_board_column" THEN {} ELSE r2[t]
      <4> HIDE DEF r2
      <4> QED
        BY <1>3, EmptiedIs
    <3>3. r2[t] = IF t = "hiring_process" THEN {} ELSE r1[t]
      <4> HIDE DEF r1
      <4> QED
        BY <1>3, EmptiedIs
    <3>4. r1[t] = IF t = "hiring_step_value" THEN {} ELSE r[t]
      BY EmptiedIs
    <3>5. DownRows(3, r)[t] = IF t \in TablesOf(3) \ TablesOf(2) THEN {} ELSE r[t]
      BY <2>2 DEF DownRows
    <3> HIDE DEF r1, r2, r3, r4
    <3> QED
      BY <2>1, <3>1, <3>2, <3>3, <3>4, <3>5
  <2>4. r4 = [t \in Tables |-> r4[t]]
    BY <1>3 DEF RowSets
  <2>5. DownRows(3, r) = [t \in Tables |-> DownRows(3, r)[t]]
    BY DEF DownRows
  <2> HIDE DEF r4
  <2> QED
    BY <2>3, <2>4, <2>5
<1> HIDE DEF r1, r2, r3, r4, s1, s2, s3, s4
<1>6. Leaves(x, s1, r1)
  BY DropTableGives DEF Leaves, Tables, s1, r1
<1> HIDE DEF x
<1>7. Leaves(y, s2, r2)
  BY <1>3, <1>6, DropTableGives, ApplyFailed DEF Leaves, Tables, s2, r2
<1> HIDE DEF y
<1>8. Leaves(z, s3, r3)
  BY <1>3, <1>7, DropTableGives, ApplyFailed DEF Leaves, Tables, s3, r3
<1> HIDE DEF z
<1>9. Leaves(Apply(z, DropTable("hiring_board")), s4, r4)
  BY <1>3, <1>8, DropTableGives, ApplyFailed DEF Leaves, Tables, s4, r4
<1> QED
  BY <1>2, <1>4, <1>5, <1>9

\* That of 0004 gives back content_md and leaves nothing of node_translations.
LEMMA DropTranslationsGives ==
  ASSUME NEW r \in RowSets
  PROVE  Leaves(Run(D(S4, r), DropTranslations), S3, Emptied(r, "node_translations"))
<1> DEFINE a == <<"node_translations", "ix_node_translations_node_id">>
           x == Apply(D(S4, r), Create({Content}))
           y == Apply(x, Drop({a}))
<1>1. /\ Len(DropTranslations) = 3
      /\ DropTranslations[1] = Create({Content}) /\ DropTranslations[2] = Drop({a})
      /\ DropTranslations[3] = DropTable("node_translations")
  BY DEF DropTranslations, Content
<1>2. Run(D(S4, r), DropTranslations) = Apply(y, DropTable("node_translations"))
  BY <1>1, RunThree
<1>3. Leaves(x, S4 \cup {Content}, r)
  BY CreateGives DEF Leaves
<1> HIDE DEF x
<1>4. Leaves(y, (S4 \cup {Content}) \ {a}, r)
  BY <1>3, DropGives, ApplyFailed DEF Leaves
<1> HIDE DEF y
<1>5. Lacking((S4 \cup {Content}) \ {a}, "node_translations") = S3
  <2>1. Content \in S3 /\ Content[1] = "nodes" /\ a[1] = "node_translations"
    BY NodesAbout DEF S3, S2, S1, Content
  <2>2. \A o \in TranslationHas : o[1] = "node_translations"
    BY TranslationAbout DEF About
  <2>3. \A o \in S3 : o[1] # "node_translations"
    BY Early
  <2> HIDE DEF a
  <2> QED
    BY <2>1, <2>2, <2>3 DEF Lacking, S4
<1> QED
  BY <1>2, <1>4, <1>5, DropTableGives, ApplyFailed DEF Leaves, Tables

\* That of 0005 leaves nothing of users.
LEMMA DropUsersGives ==
  ASSUME NEW r \in RowSets
  PROVE  Leaves(Run(D(S5, r), DropUsers), S4, Emptied(r, "users"))
<1>1. Len(DropUsers) = 1 /\ DropUsers[1] = DropTable("users")
  BY DEF DropUsers
<1>2. Run(D(S5, r), DropUsers) = Apply(D(S5, r), DropTable("users"))
  BY <1>1, RunOne
<1>3. Lacking(S5, "users") = S4
  <2>1. \A o \in UsersHas : o[1] = "users"
    BY UsersAbout DEF About
  <2>2. \A o \in S4 : o[1] # "users"
    BY Early
  <2> QED
    BY <2>1, <2>2 DEF Lacking, S5
<1> QED
  BY <1>2, <1>3, DropTableGives DEF Leaves, Tables

\* Dropping the owner's column leaves the rows.
LEMMA OwnerColumnGives ==
  ASSUME NEW s, NEW r \in RowSets, NEW t \in Tables
  PROVE  Leaves(Apply(D(s, r), DropColumn(t, "user_id")), s \ {<<t, "user_id">>}, Unowned(r, t))
<1> DEFINE c == "user_id"
<1>1. Apply(D(s, r), DropColumn(t, c))
        = IF <<t, c>> \in s THEN D(s \ {<<t, c>>}, IF c = "user_id" THEN Unowned(r, t) ELSE r) ELSE Failed
  <2> HIDE DEF c
  <2> QED
    BY DropColumnGives
<1>2. Apply(D(s, r), DropColumn(t, c))
        = IF <<t, c>> \in s THEN D(s \ {<<t, c>>}, Unowned(r, t)) ELSE Failed
  BY <1>1
<1> QED
  BY <1>2 DEF Leaves

\* Dropping an owner takes back what adding it did, and leaves the rows.
LEMMA DropOwnerGives ==
  ASSUME NEW s, NEW r \in RowSets, NEW t \in Tables
  PROVE  Leaves(Run(D(s, r), DropOwner(t)), s \ Owner(t), Unowned(r, t))
<1> DEFINE a == <<t, "user_id">>
           b == <<t, "user_id", "users">>
           c == <<t, "ix_user_id">>
           x == Apply(D(s, r), Drop({c}))
           y == Apply(x, Drop({b}))
<1>1. /\ Len(DropOwner(t)) = 3
      /\ DropOwner(t)[1] = Drop({c}) /\ DropOwner(t)[2] = Drop({b})
      /\ DropOwner(t)[3] = DropColumn(t, "user_id")
  BY DEF DropOwner
<1>2. Run(D(s, r), DropOwner(t)) = Apply(y, DropColumn(t, "user_id"))
  BY <1>1, RunThree
<1>3. ((s \ {c}) \ {b}) \ {a} = s \ Owner(t)
  BY DEF Owner
<1>4. Leaves(x, s \ {c}, r)
  BY DropGives DEF Leaves
<1> HIDE DEF x
<1>5. Leaves(y, (s \ {c}) \ {b}, r)
  BY <1>4, DropGives, ApplyFailed DEF Leaves
<1> HIDE DEF y, b, c
<1>6. Leaves(Apply(y, DropColumn(t, "user_id")), ((s \ {c}) \ {b}) \ {a}, Unowned(r, t))
  <2>1. Leaves(Apply(D((s \ {c}) \ {b}, r), DropColumn(t, "user_id")),
               ((s \ {c}) \ {b}) \ {a}, Unowned(r, t))
    BY OwnerColumnGives
  <2> HIDE DEF a
  <2> QED
    BY <1>5, <2>1, ApplyFailed DEF Leaves
<1> QED
  BY <1>2, <1>3, <1>6

\* It also does so after other operations of the migration.
LEMMA LeavesRun ==
  ASSUME NEW db, NEW s, NEW r \in RowSets, NEW t \in Tables, Leaves(db, s, r)
  PROVE  Leaves(Run(db, DropOwner(t)), s \ Owner(t), Unowned(r, t)) /\ Unowned(r, t) \in RowSets
<1>1. Len(DropOwner(t)) \in Nat
  BY DEF DropOwner
<1>2. Run(Failed, DropOwner(t)) = Failed
  BY <1>1, RunFailed
<1> QED
  BY <1>2, DropOwnerGives, RowSetsStay DEF Leaves

\* The downgrade of 0006 passes only when at most one CV is current, of all users.
LEMMA UnscopeGives ==
  ASSUME NEW r \in RowSets
  PROVE  LET db == Run(D(S6, r), Down[6])
         IN  \/ db = Failed
             \/ db = D(S5, DownRows(6, r)) /\ CurrentIsSingle({OneCurrent}, r["cv"])
<1> DEFINE a == << Drop({OneCurrentEach}), Create({OneCurrent}) >>
           b == DropOwner("hiring_board")
           c == DropOwner("cv")
           d == DropOwner("nodes")
           w == Run(D(S6, r), a)
           x == Run(w, b)
           y == Run(x, c)
           z == Run(y, d)
           s0 == (S6 \ {OneCurrentEach}) \cup {OneCurrent}
           s1 == s0 \ Owner("hiring_board")
           s2 == s1 \ Owner("cv")
           s3 == s2 \ Owner("nodes")
           r1 == Unowned(r, "hiring_board")
           r2 == Unowned(r1, "cv")
           r3 == Unowned(r2, "nodes")
<1>1. IsList(a) /\ IsList(b) /\ IsList(c) /\ IsList(d)
  <2>1. a \in Seq({a[1], a[2]})
    OBVIOUS
  <2> HIDE DEF a
  <2> QED
    BY <2>1, AddOwnerIsList DEF IsList
<1>2. Down[6] = a \o b \o c \o d
  BY DownIs
<1>3. Len(a) = 2 /\ a[1] = Drop({OneCurrentEach}) /\ a[2] = Create({OneCurrent})
  OBVIOUS
<1>4. s3 = S5
  <2>1. /\ Owner("nodes") \cap S5 = {} /\ Owner("cv") \cap S5 = {}
        /\ Owner("hiring_board") \cap S5 = {}
    BY EarlyUnowned
  <2>2. OneCurrent \in S5 /\ OneCurrentEach \notin S5
    BY CurrentOf
  <2>3. \A t : OneCurrent \notin Owner(t)
    BY OwnerIs
  <2> QED
    BY <2>1, <2>2, <2>3 DEF S6
<1>5. \A t \in Tables : Len(DropOwner(t)) \in Nat
  BY DEF DropOwner
<1> HIDE DEF a, s0, s1, s2, s3
<1>6. w = Apply(Apply(D(S6, r), Drop({OneCurrentEach})), Create({OneCurrent}))
  BY <1>3, RunTwo
<1>7. \/ w = Failed
      \/ w = D(s0, r) /\ CurrentIsSingle({OneCurrent}, r["cv"])
  <2>1. Leaves(Apply(D(S6, r), Drop({OneCurrentEach})), S6 \ {OneCurrentEach}, r)
    BY DropGives DEF Leaves
  <2>2. \/ Apply(D(S6 \ {OneCurrentEach}, r), Create({OneCurrent})) = Failed
        \/ /\ Apply(D(S6 \ {OneCurrentEach}, r), Create({OneCurrent})) = D(s0, r)
           /\ CurrentIsSingle({OneCurrent}, r["cv"])
    BY CreateGives DEF s0
  <2> HIDE DEF w
  <2> QED
    BY <1>6, <2>1, <2>2, ApplyFailed DEF Leaves
<1>8. Run(D(S6, r), a \o b \o c \o d) = z
  <2>1. IsList(a \o b) /\ Run(D(S6, r), a \o b) = x
    BY <1>1, RunJoined
  <2>2. IsList((a \o b) \o c) /\ Run(D(S6, r), (a \o b) \o c) = y
    <3> HIDE DEF x
    <3> QED
      BY <1>1, <2>1, RunJoined
  <2>3. Run(D(S6, r), ((a \o b) \o c) \o d) = z
    <3> HIDE DEF y
    <3> QED
      BY <1>1, <2>2, RunJoined
  <2> QED
    BY <2>3
<1>9. r1 \in RowSets /\ r2 \in RowSets /\ r3 \in RowSets
  BY RowSetsStay DEF Tables
<1>10. r3 = DownRows(6, r)
  <2>1. TablesOf(6) \ TablesOf(5) = {}
    BY DEF TablesOf
  <2>2. OwnedTables(6) \ OwnedTables(5) = {"nodes", "cv", "hiring_board"}
    BY DEF OwnedTables
  <2>3. ASSUME NEW t \in Tables PROVE r3[t] = DownRows(6, r)[t]
    <3>1. r3[t] = IF t = "nodes" THEN Disowned(r2[t]) ELSE r2[t]
      <4> HIDE DEF r2
      <4> QED
        BY <1>9, UnownedIs
    <3>2. r2[t] = IF t = "cv" THEN Disowned(r1[t]) ELSE r1[t]
      <4> HIDE DEF r1
      <4> QED
        BY <1>9, UnownedIs
    <3>3. r1[t] = IF t = "hiring_board" THEN Disowned(r[t]) ELSE r[t]
      BY UnownedIs
    <3>4. DownRows(6, r)[t] = IF t \in {"nodes", "cv", "hiring_board"}
                              THEN Disowned(r[t]) ELSE r[t]
      BY <2>1, <2>2 DEF DownRows
    <3> HIDE DEF r1, r2, r3
    <3> QED
      BY <3>1, <3>2, <3>3, <3>4
  <2>4. r3 = [t \in Tables |-> r3[t]]
    BY <1>9 DEF RowSets
  <2>5. DownRows(6, r) = [t \in Tables |-> DownRows(6, r)[t]]
    BY DEF DownRows
  <2> HIDE DEF r3
  <2> QED
    BY <2>3, <2>4, <2>5
<1> HIDE DEF w, x, y, z, r1, r2, r3
<1>11. CASE w = Failed
  <2>1. x = Failed /\ y = Failed /\ z = Failed
    BY <1>5, <1>11, RunFailed DEF x, y, z, Tables
  <2> QED
    BY <1>2, <1>8, <2>1
<1>12. CASE w = D(s0, r) /\ CurrentIsSingle({OneCurrent}, r["cv"])
  <2>1. Leaves(w, s0, r)
    BY <1>12 DEF Leaves
  <2>2. Leaves(x, s1, r1)
    BY <2>1, LeavesRun DEF x, s1, r1, Tables
  <2>3. Leaves(y, s2, r2)
    BY <1>9, <2>2, LeavesRun DEF y, s2, r2, Tables
  <2>4. Leaves(z, s3, r3)
    BY <1>9, <2>3, LeavesRun DEF z, s3, r3, Tables
  <2> QED
    BY <1>2, <1>4, <1>8, <1>10, <1>12, <2>4 DEF Leaves
<1> QED
  BY <1>7, <1>11, <1>12

\* That of 0007 takes the owners from four tables.
LEMMA DisownChildrenGives ==
  ASSUME NEW r \in RowSets
  PROVE  Leaves(Run(D(S7, r), Down[7]), S6, DownRows(7, r))
<1> DEFINE a == DropOwner("node_translations")
           b == DropOwner("hiring_step_value")
           c == DropOwner("hiring_process")
           d == DropOwner("hiring_board_column")
           w == Run(D(S7, r), a)
           x == Run(w, b)
           y == Run(x, c)
           z == Run(y, d)
           s0 == S7 \ Owner("node_translations")
           s1 == s0 \ Owner("hiring_step_value")
           s2 == s1 \ Owner("hiring_process")
           s3 == s2 \ Owner("hiring_board_column")
           r0 == Unowned(r, "node_translations")
           r1 == Unowned(r0, "hiring_step_value")
           r2 == Unowned(r1, "hiring_process")
           r3 == Unowned(r2, "hiring_board_column")
<1>1. IsList(a) /\ IsList(b) /\ IsList(c) /\ IsList(d)
  BY AddOwnerIsList
<1>2. Down[7] = a \o b \o c \o d
  BY DownIs
<1>3. s3 = S6
  BY ChildrenUnowned DEF S7
<1>4. Run(D(S7, r), a \o b \o c \o d) = z
  <2> HIDE DEF a, b, c, d
  <2>1. IsList(a \o b) /\ Run(D(S7, r), a \o b) = x
    BY <1>1, RunJoined
  <2>2. IsList((a \o b) \o c) /\ Run(D(S7, r), (a \o b) \o c) = y
    <3> HIDE DEF x
    <3> QED
      BY <1>1, <2>1, RunJoined
  <2>3. Run(D(S7, r), ((a \o b) \o c) \o d) = z
    <3> HIDE DEF y
    <3> QED
      BY <1>1, <2>2, RunJoined
  <2> QED
    BY <2>3
<1>5. r0 \in RowSets /\ r1 \in RowSets /\ r2 \in RowSets /\ r3 \in RowSets
  BY RowSetsStay DEF Tables
<1>6. r3 = DownRows(7, r)
  <2>1. TablesOf(7) \ TablesOf(6) = {}
    BY DEF TablesOf
  <2>2. OwnedTables(7) \ OwnedTables(6)
          = {"node_translations", "hiring_step_value", "hiring_process", "hiring_board_column"}
    BY DEF OwnedTables
  <2>3. ASSUME NEW t \in Tables PROVE r3[t] = DownRows(7, r)[t]
    <3>1. r3[t] = IF t = "hiring_board_column" THEN Disowned(r2[t]) ELSE r2[t]
      <4> HIDE DEF r2
      <4> QED
        BY <1>5, UnownedIs
    <3>2. r2[t] = IF t = "hiring_process" THEN Disowned(r1[t]) ELSE r1[t]
      <4> HIDE DEF r1
      <4> QED
        BY <1>5, UnownedIs
    <3>3. r1[t] = IF t = "hiring_step_value" THEN Disowned(r0[t]) ELSE r0[t]
      <4> HIDE DEF r0
      <4> QED
        BY <1>5, UnownedIs
    <3>4. r0[t] = IF t = "node_translations" THEN Disowned(r[t]) ELSE r[t]
      BY UnownedIs
    <3>5. DownRows(7, r)[t] = IF t \in {"node_translations", "hiring_step_value", "hiring_process",
                                        "hiring_board_column"}
                              THEN Disowned(r[t]) ELSE r[t]
      BY <2>1, <2>2 DEF DownRows
    <3> HIDE DEF r0, r1, r2, r3
    <3> QED
      BY <3>1, <3>2, <3>3, <3>4, <3>5
  <2>4. r3 = [t \in Tables |-> r3[t]]
    BY <1>5 DEF RowSets
  <2>5. DownRows(7, r) = [t \in Tables |-> DownRows(7, r)[t]]
    BY DEF DownRows
  <2> HIDE DEF r3
  <2> QED
    BY <2>3, <2>4, <2>5
<1> HIDE DEF w, x, y, z, s0, s1, s2, s3, r0, r1, r2, r3
<1>7. Leaves(w, s0, r0)
  BY DropOwnerGives DEF w, s0, r0, Tables
<1>8. Leaves(x, s1, r1)
  BY <1>5, <1>7, LeavesRun DEF x, s1, r1, Tables
<1>9. Leaves(y, s2, r2)
  BY <1>5, <1>8, LeavesRun DEF y, s2, r2, Tables
<1>10. Leaves(z, s3, r3)
  BY <1>5, <1>9, LeavesRun DEF z, s3, r3, Tables
<1> QED
  BY <1>2, <1>3, <1>4, <1>6, <1>10

\* A downgrade that drops one table empties it, and no other.
LEMMA DownRowsIs ==
  ASSUME NEW n \in 1 .. 7, NEW r \in RowSets, NEW u \in Tables,
         TablesOf(n) \ TablesOf(n - 1) = {u}, OwnedTables(n) = {}
  PROVE  DownRows(n, r) = Emptied(r, u)
<1>1. \A t \in Tables : DownRows(n, r)[t] = Emptied(r, u)[t]
  BY EmptiedIs DEF DownRows
<1>2. Emptied(r, u) = [t \in Tables |-> Emptied(r, u)[t]]
  BY RowSetsStay DEF RowSets
<1>3. DownRows(n, r) = [t \in Tables |-> DownRows(n, r)[t]]
  BY DEF DownRows
<1> QED
  BY <1>1, <1>2, <1>3

\* The downgrade from revision n, when it does not fail, leaves the schema that the
\* upgrade to n found, and only the rows change of tables and owners it drops.
LEMMA DownGives ==
  ASSUME NEW n \in 1 .. 7, NEW r \in RowSets
  PROVE  LET db == Run(D(SchemaOf(n), r), Down[n])
         IN  \/ db = Failed
             \/ /\ db = D(SchemaOf(n - 1), DownRows(n, r))
                /\ n = 6 => CurrentIsSingle({OneCurrent}, r["cv"])
<1>1. CASE n = 1
  <2>1. SchemaOf(n) = S1 /\ SchemaOf(n - 1) = {}
    BY <1>1 DEF SchemaOf
  <2>2. TablesOf(n) \ TablesOf(n - 1) = {"nodes"} /\ OwnedTables(n) = {}
    BY <1>1 DEF TablesOf, OwnedTables
  <2>3. DownRows(n, r) = Emptied(r, "nodes")
    BY <2>2, DownRowsIs DEF Tables
  <2>4. Leaves(Run(D(S1, r), DropNodes), {}, Emptied(r, "nodes"))
    BY DropNodesGives
  <2>5. Down[n] = DropNodes
    BY <1>1, DownIs
  <2> QED
    BY <1>1, <2>1, <2>3, <2>4, <2>5 DEF Leaves
<1>2. CASE n = 2
  <2>1. SchemaOf(n) = S2 /\ SchemaOf(n - 1) = S1
    BY <1>2 DEF SchemaOf
  <2>2. TablesOf(n) \ TablesOf(n - 1) = {"cv"} /\ OwnedTables(n) = {}
    BY <1>2 DEF TablesOf, OwnedTables
  <2>3. DownRows(n, r) = Emptied(r, "cv")
    BY <2>2, DownRowsIs DEF Tables
  <2> QED
    BY <1>2, <2>1, <2>3, DownIs, DropCvGives DEF Leaves
<1>3. CASE n = 3
  <2>1. SchemaOf(n) = S3 /\ SchemaOf(n - 1) = S2
    BY <1>3 DEF SchemaOf
  <2> QED
    BY <1>3, <2>1, DownIs, DropHiringGives DEF Leaves
<1>4. CASE n = 4
  <2>1. SchemaOf(n) = S4 /\ SchemaOf(n - 1) = S3
    BY <1>4 DEF SchemaOf
  <2>2. TablesOf(n) \ TablesOf(n - 1) = {"node_translations"} /\ OwnedTables(n) = {}
    BY <1>4 DEF TablesOf, OwnedTables
  <2>3. DownRows(n, r) = Emptied(r, "node_translations")
    BY <2>2, DownRowsIs DEF Tables
  <2> QED
    BY <1>4, <2>1, <2>3, DownIs, DropTranslationsGives DEF Leaves
<1>5. CASE n = 5
  <2>1. SchemaOf(n) = S5 /\ SchemaOf(n - 1) = S4
    BY <1>5 DEF SchemaOf
  <2>2. TablesOf(n) \ TablesOf(n - 1) = {"users"} /\ OwnedTables(n) = {}
    BY <1>5 DEF TablesOf, OwnedTables
  <2>3. DownRows(n, r) = Emptied(r, "users")
    BY <2>2, DownRowsIs DEF Tables
  <2> QED
    BY <1>5, <2>1, <2>3, DownIs, DropUsersGives DEF Leaves
<1>6. CASE n = 6
  <2>1. SchemaOf(n) = S6 /\ SchemaOf(n - 1) = S5
    BY <1>6 DEF SchemaOf
  <2>2. \/ Run(D(S6, r), Down[6]) = Failed
        \/ /\ Run(D(S6, r), Down[6]) = D(S5, DownRows(6, r))
           /\ CurrentIsSingle({OneCurrent}, r["cv"])
    BY UnscopeGives
  <2> QED
    BY <1>6, <2>1, <2>2
<1>7. CASE n = 7
  <2>1. SchemaOf(n) = S7 /\ SchemaOf(n - 1) = S6
    BY <1>7 DEF SchemaOf
  <2> QED
    BY <1>7, <2>1, DisownChildrenGives DEF Leaves
<1> QED
  BY <1>1, <1>2, <1>3, <1>4, <1>5, <1>6, <1>7

-----------------------------------------------------------------------------
(* The rows of a revision *)

\* What RowsFit asks of the schema of a revision: its tables, their owners, its
\* indexes on current CVs.
LEMMA SchemaHas ==
  ASSUME NEW n \in 0 .. 7, NEW t \in Tables
  PROVE  /\ <<t>> \in SchemaOf(n) <=> t \in TablesOf(n)
         /\ <<t, "user_id">> \in SchemaOf(n) <=> t \in OwnedTables(n)
         /\ OneCurrent \in SchemaOf(n) <=> n \in 2 .. 5
         /\ OneCurrentEach \in SchemaOf(n) <=> n \in 6 .. 7
<1>1. /\ \A o \in NodesHas : o[1] = "nodes" 
      /\ \A o \in CvHas : o[1] = "cv"
      /\ \A o \in BoardHas : o[1] = "hiring_board"
      /\ \A o \in ColumnHas : o[1] = "hiring_board_column"
      /\ \A o \in ProcessHas : o[1] = "hiring_process"
      /\ \A o \in ValueHas : o[1] = "hiring_step_value"
      /\ \A o \in TranslationHas : o[1] = "node_translations"
      /\ \A o \in UsersHas : o[1] = "users"
  BY NodesAbout, CvAbout, HiringAbout, TranslationAbout, UsersAbout DEF About
<1>2. /\ <<"nodes">> \in NodesHas /\ <<"cv">> \in CvHas /\ <<"hiring_board">> \in BoardHas
      /\ <<"hiring_board_column">> \in ColumnHas /\ <<"hiring_process">> \in ProcessHas
      /\ <<"hiring_step_value">> \in ValueHas /\ <<"node_translations">> \in TranslationHas
      /\ <<"users">> \in UsersHas
  BY NodesAbout, CvAbout, HiringAbout, TranslationAbout, UsersAbout DEF About
<1>3. <<t>> # Content /\ <<t>> # OneCurrent /\ <<t>> # OneCurrentEach /\ <<t>>[1] = t
  BY TupleFacts DEF Content, OneCurrent, OneCurrentEach
<1>4. \A s : <<t>> \notin Owner(s)
  BY OwnerIs
<1>5. t \in {"nodes", "node_translations", "cv", "hiring_board", "hiring_board_column",
             "hiring_process", "hiring_step_value", "users"}
  BY DEF Tables
<1>6. <<t>> \in S1 <=> t \in TablesOf(1)
  BY <1>1, <1>2, <1>3 DEF S1, TablesOf
<1>7. <<t>> \in S2 <=> t \in TablesOf(2)
  BY <1>1, <1>2, <1>3, <1>6 DEF S2, TablesOf
<1>8. <<t>> \in S3 <=> t \in TablesOf(3)
  <2>1. <<t>> \in BoardHas <=> t = "hiring_board"
    BY <1>1, <1>2, <1>3
  <2>2. <<t>> \in ColumnHas <=> t = "hiring_board_column"
    BY <1>1, <1>2, <1>3
  <2>3. <<t>> \in ProcessHas <=> t = "hiring_process"
    BY <1>1, <1>2, <1>3
  <2>4. <<t>> \in ValueHas <=> t = "hiring_step_value"
    BY <1>1, <1>2, <1>3
  <2>5. t \in TablesOf(3) <=> \/ t \in TablesOf(2) \/ t = "hiring_board" \/ t = "hiring_board_column"
                              \/ t = "hiring_process" \/ t = "hiring_step_value"
    BY DEF TablesOf
  <2> QED
    BY <1>7, <2>1, <2>2, <2>3, <2>4, <2>5 DEF S3
<1>9. <<t>> \in S4 <=> t \in TablesOf(4)
  <2>1. <<t>> \in TranslationHas <=> t = "node_translations"
    BY <1>1, <1>2, <1>3
  <2>2. t \in TablesOf(4) <=> t \in TablesOf(3) \/ t = "node_translations"
    BY DEF TablesOf
  <2> QED
    BY <1>3, <1>8, <2>1, <2>2 DEF S4
<1>10. <<t>> \in S5 <=> t \in TablesOf(5)
  <2>1. <<t>> \in UsersHas <=> t = "users"
    BY <1>1, <1>2, <1>3
  <2>2. t \in TablesOf(5) <=> t \in TablesOf(4) \/ t = "users"
    BY DEF TablesOf
  <2> QED
    BY <1>9, <2>1, <2>2 DEF S5
<1>11. TablesOf(0) = {} /\ TablesOf(6) = TablesOf(5) /\ TablesOf(7) = TablesOf(5)
  BY DEF TablesOf
<1>12. (<<t>> \in S6 <=> <<t>> \in S5) /\ (<<t>> \in S7 <=> <<t>> \in S5)
  BY <1>3, <1>4 DEF S6, S7
<1>13. <<t>> \in SchemaOf(n) <=> t \in TablesOf(n)
  BY <1>6, <1>7, <1>8, <1>9, <1>10, <1>11, <1>12 DEF SchemaOf
<1>14. OneCurrent \in SchemaOf(n) <=> n \in 2 .. 5
  <2>1. OneCurrent \notin S7
    BY CurrentOf, OwnerIs DEF S7
  <2> QED
    BY <2>1, CurrentOf DEF SchemaOf
<1>15. OneCurrentEach \in SchemaOf(n) <=> n \in 6 .. 7
  <2>1. OneCurrentEach \in S7
    BY CurrentOf DEF S7
  <2> QED
    BY <2>1, CurrentOf DEF SchemaOf
<1> DEFINE c == <<t, "user_id">>
<1>16. c # OneCurrent /\ c # OneCurrentEach /\ \A s : c \in Owner(s) <=> s = t
  <2>1. c # OneCurrent /\ c # OneCurrentEach
    BY DEF OneCurrent, OneCurrentEach
  <2>2. c[1] = t
    OBVIOUS
  <2> QED
    BY <2>1, <2>2, OwnerIs
<1>17. c \notin S1 /\ c \notin S2 /\ c \notin S3 /\ c \notin S4 /\ c \notin S5
  BY <1>16, EarlyUnowned
<1>18. c \in S6 <=> t \in OwnedTables(6)
  <2>1. OwnedTables(6) = {"nodes", "cv", "hiring_board"}
    BY DEF OwnedTables
  <2> HIDE DEF c
  <2> QED
    BY <1>16, <1>17, <2>1 DEF S6
<1>19. c \in S7 <=> t \in OwnedTables(7)
  <2>1. t \in OwnedTables(7)
          <=> \/ t \in OwnedTables(6) \/ t = "hiring_board_column" \/ t = "hiring_process"
              \/ t = "hiring_step_value" \/ t = "node_translations"
    BY DEF OwnedTables
  <2> HIDE DEF c
  <2> QED
    BY <1>16, <1>18, <2>1 DEF S7
<1>20. n \in 0 .. 5 => OwnedTables(n) = {}
  BY DEF OwnedTables
<1>21. c \in SchemaOf(n) <=> t \in OwnedTables(n)
  <2> HIDE DEF c
  <2> QED
    BY <1>17, <1>18, <1>19, <1>20 DEF SchemaOf
<1> QED
  BY <1>13, <1>14, <1>15, <1>21

\* The rows fit the schema of revision n.
Fits(n, r) ==
  /\ \A t \in Tables : r[t] # {} => t \in TablesOf(n)
  /\ \A t \in Tables : \A q \in r[t] :
       IF t \in OwnedTables(n) THEN q.user \in {x.id : x \in r["users"]} ELSE q.user = None
  /\ n \in 2 .. 5 => CurrentIsSingle({OneCurrent}, r["cv"])
  /\ n \in 6 .. 7 => CurrentIsSingle({OneCurrentEach}, r["cv"])

\* Of a schema only these two indexes matter to the CVs.
LEMMA CurrentOfSchema ==
  ASSUME NEW s, NEW cvs
  PROVE  CurrentIsSingle(s, cvs)
           <=> /\ OneCurrent \in s => CurrentIsSingle({OneCurrent}, cvs)
               /\ OneCurrentEach \in s => CurrentIsSingle({OneCurrentEach}, cvs)
<1>1. OneCurrent # OneCurrentEach
  BY DEF OneCurrent, OneCurrentEach
<1> QED
  BY <1>1 DEF CurrentIsSingle, OneCurrent, OneCurrentEach

\* RowsFit says of the tables of a revision what Fits says of its number.
LEMMA RowsFitIs ==
  ASSUME rev \in 0 .. 7, schema = SchemaOf(rev)
  PROVE  RowsFit <=> Fits(rev, rows)
<1>1. \A t \in Tables : /\ <<t>> \in schema <=> t \in TablesOf(rev)
                        /\ Scoped(t) <=> t \in OwnedTables(rev)
  BY SchemaHas DEF Scoped
<1>2. /\ OneCurrent \in schema <=> rev \in 2 .. 5
      /\ OneCurrentEach \in schema <=> rev \in 6 .. 7
  BY SchemaHas DEF Tables
<1>3. CurrentIsSingle(schema, rows["cv"])
        <=> /\ rev \in 2 .. 5 => CurrentIsSingle({OneCurrent}, rows["cv"])
            /\ rev \in 6 .. 7 => CurrentIsSingle({OneCurrentEach}, rows["cv"])
  BY <1>2, CurrentOfSchema
<1>4. Tables # {}
  BY DEF Tables
<1> QED
  BY <1>1, <1>3, <1>4 DEF RowsFit, Fits, UserIds

\* The sets of tables grow with the revision.
LEMMA Grow ==
  ASSUME NEW m \in 0 .. 7, NEW n \in m .. 7
  PROVE  /\ TablesOf(m) \subseteq TablesOf(n) /\ OwnedTables(m) \subseteq OwnedTables(n)
         /\ OwnedTables(n) \subseteq Tables \ {"users"}
<1>1. n >= m /\ n \in Int /\ m \in Int
  OBVIOUS
<1>2. TablesOf(m) \subseteq TablesOf(n)
  BY <1>1 DEF TablesOf
<1>3. OwnedTables(m) \subseteq OwnedTables(n)
  BY <1>1 DEF OwnedTables
<1>4. OwnedTables(n) \subseteq Tables \ {"users"}
  BY DEF OwnedTables, Tables
<1> QED
  BY <1>2, <1>3, <1>4

\* Rows that fit revision n - 1 and let the upgrade pass fit revision n.
LEMMA FitsUp ==
  ASSUME NEW n \in 1 .. 7, NEW r \in RowSets, Fits(n - 1, r), Passes(n, r)
  PROVE  Fits(n, r)
<1>1. n - 1 \in 0 .. 7 /\ n \in n - 1 .. 7
  OBVIOUS
<1>2. TablesOf(n - 1) \subseteq TablesOf(n) /\ OwnedTables(n - 1) \subseteq OwnedTables(n)
  BY <1>1, Grow
<1>3. \A t \in Tables : r[t] # {} => t \in TablesOf(n)
  BY <1>2 DEF Fits
<1>4. ASSUME NEW t \in Tables, NEW q \in r[t]
      PROVE  IF t \in OwnedTables(n) THEN q.user \in {x.id : x \in r["users"]} ELSE q.user = None
  <2>1. t \in OwnedTables(n) => t \in OwnedTables(n - 1)
    BY DEF Passes
  <2> QED
    BY <1>2, <2>1 DEF Fits
<1>5. n \in 2 .. 5 => CurrentIsSingle({OneCurrent}, r["cv"])
  BY DEF Fits, Passes
<1>6. n \in 6 .. 7 => CurrentIsSingle({OneCurrentEach}, r["cv"])
  <2>1. n = 6 => r["cv"] = {}
    BY DEF Passes, OwnedTables
  <2>2. CurrentIsSingle({OneCurrentEach}, {})
    BY DEF CurrentIsSingle
  <2>3. n = 7 => CurrentIsSingle({OneCurrentEach}, r["cv"])
    BY DEF Fits
  <2> QED
    BY <2>1, <2>2, <2>3
<1> QED
  BY <1>3, <1>4, <1>5, <1>6 DEF Fits

\* Rows that fit revision n fit revision n - 1 after the downgrade: an index on
\* the one current CV holds because the downgrade created it.
LEMMA FitsDown ==
  ASSUME NEW n \in 1 .. 7, NEW r \in RowSets, Fits(n, r),
         n = 6 => CurrentIsSingle({OneCurrent}, r["cv"])
  PROVE  Fits(n - 1, DownRows(n, r)) /\ DownRows(n, r) \in RowSets
<1> DEFINE d == DownRows(n, r)
           lost == TablesOf(n) \ TablesOf(n - 1)
           left == OwnedTables(n) \ OwnedTables(n - 1)
<1>1. \A t \in Tables : d[t] = IF t \in lost THEN {}
                               ELSE IF t \in left THEN Disowned(r[t])
                               ELSE r[t]
  BY DEF DownRows
<1>2. d \in RowSets
  <2>1. \A t \in Tables : r[t] \in SUBSET Row
    BY DEF RowSets
  <2>2. ASSUME NEW t \in Tables PROVE d[t] \in SUBSET Row
    <3>1. Disowned(r[t]) \in SUBSET Row
      BY <2>1, DisownedIs
    <3> HIDE DEF d
    <3> QED
      BY <1>1, <2>1, <3>1
  <2> QED
    BY <2>2 DEF RowSets, DownRows
<1>3. n - 1 \in 0 .. 7 /\ n \in n - 1 .. 7
  OBVIOUS
<1>4. TablesOf(n - 1) \subseteq TablesOf(n) /\ OwnedTables(n - 1) \subseteq OwnedTables(n)
  BY <1>3, Grow
<1>5. (OwnedTables(n) # {} => lost = {}) /\ (OwnedTables(n - 1) # {} => n = 7)
  BY DEF TablesOf, OwnedTables
<1>6. "users" \notin OwnedTables(n)
  BY <1>3, Grow
<1> HIDE DEF d
<1>7. ASSUME NEW t \in Tables, d[t] # {} PROVE t \in TablesOf(n - 1)
  <2>1. Disowned({}) = {}
    BY DEF Disowned
  <2>2. t \notin lost /\ r[t] # {}
    BY <1>1, <1>7, <2>1
  <2> QED
    BY <2>2 DEF Fits
<1>8. ASSUME NEW t \in Tables, NEW q \in d[t]
      PROVE  IF t \in OwnedTables(n - 1) THEN q.user \in {x.id : x \in d["users"]} ELSE q.user = None
  <2>1. t \notin lost
    BY <1>1
  <2>2. CASE t \in left
    <3>1. q \in Disowned(r[t]) /\ r[t] \in SUBSET Row
      BY <1>1, <2>1, <2>2 DEF RowSets
    <3>2. q.user = None
      BY <3>1, DisownedIs
    <3> QED
      BY <2>2, <3>2
  <2>3. CASE t \notin left /\ t \in OwnedTables(n - 1)
    <3>1. t \in OwnedTables(n) /\ q \in r[t]
      BY <1>1, <1>4, <2>1, <2>3
    <3>2. d["users"] = r["users"]
      BY <1>1, <1>5, <1>6, <3>1 DEF Tables
    <3> QED
      BY <2>3, <3>1, <3>2 DEF Fits
  <2>4. CASE t \notin left /\ t \notin OwnedTables(n - 1)
    BY <1>1, <2>1, <2>4 DEF Fits
  <2> QED
    BY <2>2, <2>3, <2>4
<1>9. n - 1 \in 2 .. 5 => CurrentIsSingle({OneCurrent}, d["cv"])
  <2>1. CASE n = 6
    <3>1. \A p, q \in {x \in r["cv"] : x.current} : p = q
      BY <2>1 DEF CurrentIsSingle, OneCurrent
    <3>2. d["cv"] = Disowned(r["cv"]) /\ r["cv"] \in SUBSET Row
      <4>1. "cv" \in left /\ "cv" \notin lost
        BY <2>1 DEF OwnedTables, TablesOf
      <4> QED
        BY <1>1, <4>1 DEF Tables, RowSets
    <3>3. ASSUME NEW q \in d["cv"], q.current
          PROVE  \E p \in r["cv"] : p.current /\ q = [p EXCEPT !.user = None]
      <4>1. PICK p \in r["cv"] : q = [p EXCEPT !.user = None]
        BY <3>2, DisownedIs
      <4>2. p \in Row
        BY <3>2
      <4>3. p.current
        BY <3>3, <4>1, <4>2 DEF Row
      <4> QED
        BY <4>1, <4>3
    <3>4. ASSUME NEW p \in d["cv"], NEW q \in d["cv"], p.current, q.current PROVE p = q
      <4>1. PICK x \in r["cv"] : x.current /\ p = [x EXCEPT !.user = None]
        BY <3>3, <3>4
      <4>2. PICK y \in r["cv"] : y.current /\ q = [y EXCEPT !.user = None]
        BY <3>3, <3>4
      <4>3. x = y
        BY <3>1, <4>1, <4>2
      <4> QED
        BY <4>1, <4>2, <4>3
    <3> QED
      BY <3>4 DEF CurrentIsSingle
  <2>2. CASE n \in 3 .. 5
    <3>1. d["cv"] = {} \/ d["cv"] = r["cv"]
      <4>1. "cv" \notin left
        BY <2>2 DEF OwnedTables
      <4> QED
        BY <1>1, <4>1 DEF Tables
    <3>2. CurrentIsSingle({OneCurrent}, {})
      BY DEF CurrentIsSingle
    <3>3. CurrentIsSingle({OneCurrent}, r["cv"])
      BY <2>2 DEF Fits
    <3> QED
      BY <3>1, <3>2, <3>3
  <2> QED
    BY <2>1, <2>2
<1>10. n - 1 \in 6 .. 7 => CurrentIsSingle({OneCurrentEach}, d["cv"])
  <2>1. SUFFICES ASSUME n = 7 PROVE CurrentIsSingle({OneCurrentEach}, d["cv"])
    OBVIOUS
  <2>2. "cv" \notin left /\ "cv" \notin lost
    BY <2>1 DEF OwnedTables, TablesOf
  <2>3. d["cv"] = r["cv"]
    BY <1>1, <2>2 DEF Tables
  <2> QED
    BY <2>1, <2>3 DEF Fits
<1>11. Fits(n - 1, d)
  BY <1>7, <1>8, <1>9, <1>10 DEF Fits
<1> QED
  BY <1>2, <1>11 DEF d

-----------------------------------------------------------------------------
(* The invariant and its steps *)

\* The inductive invariant.
IInv ==
  /\ rev \in 0 .. 7 /\ rows \in RowSets
  /\ schema = SchemaOf(rev)
  /\ Fits(rev, rows)

\* A new database is that of revision 0.
LEMMA Initially ==
  Init => IInv
<1> SUFFICES ASSUME Init PROVE IInv
  OBVIOUS
<1>1. rev = 0 /\ schema = {} /\ rows = [t \in Tables |-> {}]
  BY DEF Init
<1>2. rows \in RowSets
  BY <1>1 DEF RowSets
<1>3. Fits(0, rows)
  BY <1>1 DEF Fits
<1> QED
  BY <1>1, <1>2, <1>3 DEF IInv, SchemaOf

\* Upgrades of several revisions.
LEMMA FitsClimb ==
  ASSUME NEW r \in RowSets, NEW m \in 0 .. 7, NEW n \in m .. 7,
         Fits(m, r), \A k \in m + 1 .. n : Passes(k, r)
  PROVE  Fits(n, r)
<1> DEFINE I == {k \in m .. n : Fits(k, r)}
<1>1. m \in I
  OBVIOUS
<1>2. \A k \in m + 1 .. n : k - 1 \in I => k \in I
  BY FitsUp
<1> HIDE DEF I
<1>3. n \in I
  BY <1>1, <1>2, InductionTo
<1> QED
  BY <1>3 DEF I

\* What an upgrade of the database does, and when it succeeds.
LEMMA UpgradeDoes ==
  ASSUME IInv, NEW n \in rev .. 7
  PROVE  Upgraded(n) = IF \A k \in rev + 1 .. n : Passes(k, rows) THEN D(SchemaOf(n), rows) ELSE Failed
<1>1. [schema |-> schema, rows |-> rows] = D(SchemaOf(rev), rows)
  BY DEF D, IInv
<1>2. rev \in 0 .. 7 /\ rows \in RowSets
  BY DEF IInv
<1>3. UpgradedFrom(D(SchemaOf(rev), rows), rev, n)
        = IF \A k \in rev + 1 .. n : Passes(k, rows) THEN D(SchemaOf(n), rows) ELSE Failed
  BY <1>2, UpgradedGives
<1> QED
  BY <1>1, <1>3 DEF Upgraded

\* A successful upgrade changes no row.
LEMMA UpgradeSteps ==
  ASSUME IInv, NEW n \in 1 .. Latest, Upgrade(n)
  PROVE  /\ rev' = n /\ n \in rev + 1 .. 7 /\ rows' = rows /\ schema' = SchemaOf(n)
         /\ Fits(n, rows)
<1>1. n \in rev + 1 .. 7 /\ n \in rev .. 7
  BY UpIs DEF Upgrade, IInv
<1>2. Upgraded(n) # Failed /\ schema' = Upgraded(n).schema /\ rows' = Upgraded(n).rows /\ rev' = n
  BY DEF Upgrade
<1>3. /\ Upgraded(n) = D(SchemaOf(n), rows)
      /\ \A k \in rev + 1 .. n : Passes(k, rows)
  BY <1>1, <1>2, UpgradeDoes
<1>4. rev \in 0 .. 7 /\ rows \in RowSets /\ Fits(rev, rows)
  BY DEF IInv
<1>5. Fits(n, rows)
  BY <1>1, <1>3, <1>4, FitsClimb
<1>6. Upgraded(n).schema = SchemaOf(n) /\ Upgraded(n).rows = rows
  BY <1>3, <1>4, DatabaseIs
<1> QED
  BY <1>1, <1>2, <1>5, <1>6

\* A successful downgrade changes the rows of what it drops.
LEMMA DowngradeSteps ==
  ASSUME IInv, Downgrade
  PROVE  /\ rev \in 1 .. 7 /\ rev' = rev - 1
         /\ rows' = DownRows(rev, rows) /\ rows' \in RowSets /\ schema' = SchemaOf(rev - 1)
         /\ Fits(rev - 1, DownRows(rev, rows))
<1>1. /\ rev \in 1 .. 7 /\ rows \in RowSets /\ Fits(rev, rows) /\ schema = SchemaOf(rev)
      /\ rev' = rev - 1
  BY DEF IInv, Downgrade
<1>2. Downgraded # Failed /\ schema' = Downgraded.schema /\ rows' = Downgraded.rows
  BY DEF Downgrade
<1>3. Downgraded = Run(D(SchemaOf(rev), rows), Down[rev])
  BY <1>1 DEF Downgraded, D
<1>4. /\ Downgraded = D(SchemaOf(rev - 1), DownRows(rev, rows))
      /\ rev = 6 => CurrentIsSingle({OneCurrent}, rows["cv"])
  BY <1>1, <1>2, <1>3, DownGives
<1>5. Fits(rev - 1, DownRows(rev, rows)) /\ DownRows(rev, rows) \in RowSets
  BY <1>1, <1>4, FitsDown
<1>6. Downgraded.schema = SchemaOf(rev - 1) /\ Downgraded.rows = DownRows(rev, rows)
  BY <1>4, <1>5, DatabaseIs
<1> QED
  BY <1>1, <1>2, <1>5, <1>6

\* A row that the schema of the time accepts fits its revision.
LEMMA InsertKeeps ==
  ASSUME IInv, NEW t \in Tables, NEW r \in Row, Insert(t, r)
  PROVE  IInv'
<1>1. /\ rev \in 0 .. 7 /\ rows \in RowSets /\ schema = SchemaOf(rev) /\ Fits(rev, rows)
      /\ rev' = rev /\ schema' = schema /\ rows' = [rows EXCEPT ![t] = @ \cup {r}]
  BY DEF IInv, Insert
<1>2. \A u \in Tables : rows'[u] = IF u = t THEN rows[u] \cup {r} ELSE rows[u]
  BY <1>1 DEF RowSets
<1>3. rows' \in RowSets
  BY <1>1 DEF RowSets
<1>4. t \in TablesOf(rev)
  BY <1>1, SchemaHas DEF Insert
<1>5. IF t \in OwnedTables(rev) THEN r.user \in {x.id : x \in rows["users"]} ELSE r.user = None
  <2>1. Scoped(t) <=> t \in OwnedTables(rev)
    BY <1>1, SchemaHas DEF Scoped
  <2> QED
    BY <2>1 DEF Insert, UserIds
<1>6. rows["users"] \subseteq rows'["users"]
  BY <1>2 DEF Tables
<1>7. CurrentIsSingle(schema, rows'["cv"])
  <2>1. rows'["cv"] = rows["cv"] \cup (IF t = "cv" THEN {r} ELSE {})
    BY <1>2 DEF Tables
  <2> QED
    BY <2>1 DEF Insert
<1>8. /\ OneCurrent \in schema <=> rev \in 2 .. 5
      /\ OneCurrentEach \in schema <=> rev \in 6 .. 7
  BY <1>1, SchemaHas DEF Tables
<1>9. /\ rev \in 2 .. 5 => CurrentIsSingle({OneCurrent}, rows'["cv"])
      /\ rev \in 6 .. 7 => CurrentIsSingle({OneCurrentEach}, rows'["cv"])
  BY <1>7, <1>8, CurrentOfSchema
<1>10. \A u \in Tables : rows'[u] # {} => u \in TablesOf(rev)
  BY <1>1, <1>2, <1>4 DEF Fits
<1>11. ASSUME NEW u \in Tables, NEW q \in rows'[u]
       PROVE  IF u \in OwnedTables(rev) THEN q.user \in {x.id : x \in rows'["users"]} ELSE q.user = None
  <2>1. IF u \in OwnedTables(rev) THEN q.user \in {x.id : x \in rows["users"]} ELSE q.user = None
    <3>1. CASE u = t /\ q = r
      BY <1>5, <3>1
    <3>2. CASE q \in rows[u]
      BY <1>1, <3>2 DEF Fits
    <3> QED
      BY <1>2, <3>1, <3>2
  <2> QED
    BY <1>6, <2>1
<1>12. Fits(rev, rows')
  BY <1>9, <1>10, <1>11 DEF Fits
<1> QED
  BY <1>1, <1>3, <1>12 DEF IInv

\* Deleting a row, or a user with everything the user owns, leaves rows that fit.
LEMMA DeleteKeeps ==
  ASSUME IInv, NEW t \in Tables, NEW r \in Row, Delete(t, r)
  PROVE  IInv'
<1>1. /\ rev \in 0 .. 7 /\ rows \in RowSets /\ schema = SchemaOf(rev) /\ Fits(rev, rows)
      /\ rev' = rev /\ schema' = schema /\ r \in rows[t]
  BY DEF IInv, Delete
<1>2. \A u \in Tables : rows'[u] = IF u = t THEN rows[u] \ {r}
                                   ELSE IF t = "users" THEN {q \in rows[u] : q.user # r.id}
                                   ELSE rows[u]
  BY DEF Delete
<1>3. \A u \in Tables : rows'[u] \subseteq rows[u]
  BY <1>2
<1>4. rows' \in RowSets
  <2>1. \A u \in Tables : rows'[u] \in SUBSET Row
    BY <1>1, <1>3 DEF RowSets
  <2> QED
    BY <2>1 DEF Delete, RowSets
<1>5. \A u \in Tables : rows'[u] # {} => u \in TablesOf(rev)
  BY <1>1, <1>3 DEF Fits
<1>6. "users" \notin OwnedTables(rev)
  BY <1>1, Grow
<1>7. ASSUME NEW u \in Tables, NEW q \in rows'[u]
      PROVE  IF u \in OwnedTables(rev) THEN q.user \in {x.id : x \in rows'["users"]} ELSE q.user = None
  <2>1. q \in rows[u]
    BY <1>3
  <2>2. IF u \in OwnedTables(rev) THEN q.user \in {x.id : x \in rows["users"]} ELSE q.user = None
    BY <1>1, <2>1 DEF Fits
  <2>3. CASE t = "users"
    <3>1. rows'["users"] = rows["users"] \ {r}
      BY <1>2, <2>3 DEF Tables
    <3>2. u \in OwnedTables(rev) => q.user # r.id
      BY <1>2, <1>6, <2>3
    <3>3. ASSUME u \in OwnedTables(rev) PROVE q.user \in {x.id : x \in rows'["users"]}
      <4>1. PICK x \in rows["users"] : q.user = x.id
        BY <2>2, <3>3
      <4>2. x # r
        BY <3>2, <3>3, <4>1
      <4> QED
        BY <3>1, <4>1, <4>2
    <3> QED
      BY <2>2, <3>3
  <2>4. CASE t # "users"
    <3>1. rows'["users"] = rows["users"]
      BY <1>2, <2>4 DEF Tables
    <3> QED
      BY <2>2, <3>1
  <2> QED
    BY <2>3, <2>4
<1>8. \A s : CurrentIsSingle(s, rows["cv"]) => CurrentIsSingle(s, rows'["cv"])
  <2>1. rows'["cv"] \subseteq rows["cv"]
    BY <1>3 DEF Tables
  <2> QED
    BY <2>1 DEF CurrentIsSingle
<1>9. Fits(rev, rows')
  BY <1>1, <1>5, <1>7, <1>8 DEF Fits
<1> QED
  BY <1>1, <1>4, <1>9 DEF IInv

\* The invariant is inductive.
LEMMA Steps ==
  IInv /\ [Next]_vars => IInv'
<1> SUFFICES ASSUME IInv, [Next]_vars PROVE IInv'
  OBVIOUS
<1>1. ASSUME NEW n \in 1 .. Latest, Upgrade(n) PROVE IInv'
  <2>1. /\ rev' = n /\ n \in 0 .. 7 /\ rows' = rows /\ schema' = SchemaOf(n)
        /\ Fits(n, rows) /\ rows \in RowSets
    BY <1>1, UpgradeSteps, UpIs DEF IInv
  <2> QED
    BY <2>1 DEF IInv
<1>2. CASE Downgrade
  <2>1. /\ rev' = rev - 1 /\ rev - 1 \in 0 .. 7 /\ rows' = DownRows(rev, rows)
        /\ schema' = SchemaOf(rev - 1) /\ Fits(rev - 1, DownRows(rev, rows)) /\ rows' \in RowSets
    BY <1>2, DowngradeSteps
  <2> QED
    BY <2>1 DEF IInv
<1>3. ASSUME NEW t \in Tables, NEW r \in Row, Insert(t, r) PROVE IInv'
  BY <1>3, InsertKeeps
<1>4. ASSUME NEW t \in Tables, NEW r \in Row, Delete(t, r) PROVE IInv'
  BY <1>4, DeleteKeeps
<1>5. CASE UNCHANGED vars
  BY <1>5 DEF vars, IInv
<1> QED
  BY <1>1, <1>2, <1>3, <1>4, <1>5 DEF Next

\* In every state the database has the schema of its revision, whatever upgrades,
\* downgrades and rows came before, and the rows fit that revision.
THEOREM Invariance == Spec => []IInv
BY Initially, Steps, PTL DEF Spec

\* No migration leaves rows that the schema would refuse: rows without a table, rows
\* without the owner their table asks for or with one it has no column for, two
\* current CVs under an index that allows one.
THEOREM RowsFitAlways == Spec => []RowsFit
<1>1. IInv => RowsFit
  BY RowsFitIs DEF IInv
<1> QED
  BY <1>1, Invariance, PTL

\* No downgrade forgets an object or takes one too many: the schema is always the one
\* that the upgrades build from nothing.
THEOREM SchemaIsOfRevisionAlways == Spec => []SchemaIsOfRevision
<1>1. ASSUME IInv PROVE SchemaIsOfRevision
  <2> DEFINE r == [t \in Tables |-> {}]
  <2>1. r \in RowSets /\ EmptyDatabase = D(SchemaOf(0), r)
    BY DEF RowSets, EmptyDatabase, D, SchemaOf
  <2>2. \A k \in 1 .. 7 : Passes(k, r)
    <3>1. \A k \in 1 .. 7 : OwnedTables(k) \subseteq Tables
      BY DEF OwnedTables, Tables
    <3>2. CurrentIsSingle({OneCurrent}, r["cv"])
      BY DEF CurrentIsSingle, Tables
    <3> QED
      BY <3>1, <3>2 DEF Passes
  <2>3. rev \in 0 .. 7 /\ schema = SchemaOf(rev)
    BY <1>1 DEF IInv
  <2> HIDE DEF r
  <2>4. UpgradedFrom(D(SchemaOf(0), r), 0, rev) = D(SchemaOf(rev), r)
    BY <2>1, <2>2, <2>3, UpgradedGives
  <2> QED
    BY <2>1, <2>3, <2>4, DatabaseIs DEF SchemaIsOfRevision
<1> QED
  BY <1>1, Invariance, PTL

\* run-migrations.sh fails exactly when a table that is to get an owner holds rows
\* without one; no other state of the database stops a release.
THEOREM OnlyUnownedRowsBlockAlways == Spec => []OnlyUnownedRowsBlock
<1>1. ASSUME IInv, rev < 7
      PROVE  Upgraded(7) = Failed <=> \E t \in Tables \ {"users"} : \E r \in rows[t] : ~ Scoped(t)
  <2>1. rev \in 0 .. 6 /\ rows \in RowSets /\ Fits(rev, rows) /\ schema = SchemaOf(rev)
    BY <1>1 DEF IInv
  <2>2. Upgraded(7) = Failed <=> \E k \in rev + 1 .. 7 : ~ Passes(k, rows)
    <3>1. Upgraded(7) = IF \A k \in rev + 1 .. 7 : Passes(k, rows) THEN D(SchemaOf(7), rows) ELSE Failed
      BY <1>1, <2>1, UpgradeDoes
    <3>2. D(SchemaOf(7), rows) # Failed
      BY <2>1, DatabaseIs
    <3> QED
      BY <3>1, <3>2
  <2>3. ASSUME NEW t \in Tables PROVE Scoped(t) <=> t \in OwnedTables(rev)
    <3>1. rev \in 0 .. 7
      BY <2>1
    <3> QED
      BY <2>1, <3>1, SchemaHas DEF Scoped
  <2>4. ASSUME NEW k \in rev + 1 .. 7, ~ Passes(k, rows)
        PROVE  \E t \in Tables \ {"users"} : \E r \in rows[t] : ~ Scoped(t)
    <3>1. CASE k = 2 /\ ~ CurrentIsSingle({OneCurrent}, rows["cv"])
      <4>1. "cv" \notin TablesOf(rev)
        BY <2>1, <3>1 DEF TablesOf
      <4>2. rows["cv"] = {}
        BY <2>1, <4>1 DEF Fits, Tables
      <4> QED
        BY <3>1, <4>2 DEF CurrentIsSingle
    <3>2. CASE \E t \in OwnedTables(k) \ OwnedTables(k - 1) : rows[t] # {}
      <4>1. PICK t \in OwnedTables(k) \ OwnedTables(k - 1) : rows[t] # {}
        BY <3>2
      <4>2. k - 1 \in 0 .. 7 /\ k \in 0 .. 7 /\ k - 1 \in rev .. 7 /\ rev \in 0 .. 7 /\ k \in k .. 7
        BY <2>1
      <4>3. t \in Tables \ {"users"}
        BY <4>2, Grow
      <4>4. OwnedTables(rev) \subseteq OwnedTables(k - 1)
        BY <4>2, Grow
      <4> QED
        BY <2>3, <4>1, <4>3, <4>4
    <3> QED
      BY <2>4, <3>1, <3>2 DEF Passes
  <2>5. ASSUME NEW t \in Tables \ {"users"}, NEW r \in rows[t], ~ Scoped(t)
        PROVE  \E k \in rev + 1 .. 7 : ~ Passes(k, rows)
    <3>1. t \notin OwnedTables(rev)
      BY <2>3, <2>5
    <3>2. CASE t \in {"nodes", "cv", "hiring_board"}
      <4>1. rev < 6 /\ t \in OwnedTables(6) \ OwnedTables(5)
        BY <2>1, <3>1, <3>2 DEF OwnedTables
      <4>2. ~ Passes(6, rows)
        BY <4>1 DEF Passes
      <4> QED
        BY <2>1, <4>1, <4>2
    <3>3. CASE t \in {"hiring_board_column", "hiring_process", "hiring_step_value", "node_translations"}
      <4>1. t \in OwnedTables(7) \ OwnedTables(6)
        BY <3>3 DEF OwnedTables
      <4>2. ~ Passes(7, rows)
        BY <4>1 DEF Passes
      <4> QED
        BY <2>1, <4>2
    <3> QED
      BY <3>2, <3>3 DEF Tables
  <2> QED
    BY <2>2, <2>4, <2>5
<1>2. IInv => OnlyUnownedRowsBlock
  BY <1>1, UpIs DEF OnlyUnownedRowsBlock
<1> QED
  BY <1>2, Invariance, PTL

\* A migration, whichever revisions it runs over, keeps every row of every table
\* that outlives it, with its id, its current flag and, while the table has one, its owner.
THEOREM RowsAreKept == Spec => MigrationsKeepRows
<1> DEFINE A == rev' # rev =>
                  \A t \in Tables : \A r \in rows[t] :
                    <<t>> \in schema' =>
                      \E q \in rows'[t] : /\ q.id = r.id /\ q.current = r.current
                                          /\ Scoped(t)' => q.user = r.user
<1>1. ASSUME IInv, [Next]_vars PROVE [A]_vars
  <2>1. ASSUME NEW n \in 1 .. Latest, Upgrade(n) PROVE A
    BY <1>1, <2>1, UpgradeSteps
  <2>2. CASE Downgrade
    <3>1. /\ rev \in 1 .. 7 /\ rev' = rev - 1 /\ rows' = DownRows(rev, rows)
          /\ schema' = SchemaOf(rev - 1) /\ rows \in RowSets
      BY <1>1, <2>2, DowngradeSteps DEF IInv
    <3>2. ASSUME NEW t \in Tables, NEW r \in rows[t], <<t>> \in schema'
          PROVE  \E q \in rows'[t] : /\ q.id = r.id /\ q.current = r.current
                                     /\ Scoped(t)' => q.user = r.user
      <4>1. t \in TablesOf(rev - 1) /\ (Scoped(t)' <=> t \in OwnedTables(rev - 1))
        <5>1. rev - 1 \in 0 .. 7
          BY <3>1
        <5> QED
          BY <3>1, <3>2, <5>1, SchemaHas DEF Scoped
      <4>2. CASE t \in OwnedTables(rev) \ OwnedTables(rev - 1)
        <5>1. rows'[t] = Disowned(rows[t]) /\ rows[t] \in SUBSET Row
          BY <3>1, <4>1, <4>2 DEF DownRows, RowSets
        <5>2. \E q \in Disowned(rows[t]) : q.id = r.id /\ q.current = r.current
          BY <5>1, DisownedIs
        <5> QED
          BY <4>1, <4>2, <5>1, <5>2
      <4>3. CASE t \notin OwnedTables(rev) \ OwnedTables(rev - 1)
        <5>1. rows'[t] = rows[t]
          BY <3>1, <4>1, <4>3 DEF DownRows
        <5> QED
          BY <5>1
      <4> QED
        BY <4>2, <4>3
    <3> QED
      BY <3>2
  <2>3. ASSUME NEW t \in Tables, NEW r \in Row, Insert(t, r) \/ Delete(t, r) PROVE A
    BY <2>3 DEF Insert, Delete
  <2>4. CASE UNCHANGED vars
    BY <2>4
  <2> QED
    BY <1>1, <2>1, <2>2, <2>3, <2>4 DEF Next
<1> HIDE DEF A
<1>2. Spec => [][A]_vars
  BY <1>1, Invariance, PTL DEF Spec
<1> QED
  BY <1>2 DEF MigrationsKeepRows, A

-----------------------------------------------------------------------------
(* The head and the models *)

\* The names of t's columns, constraints and indexes, as objects.
Named(t, names) == {<<t, c>> : c \in names}

\* A table with more names.
LEMMA TableJoin ==
  ASSUME NEW t, NEW A, NEW B
  PROVE  Table(t, A \cup B) = Table(t, A) \cup Named(t, B)
BY DEF Table, Named

\* The two indexes of nodes that the migrations create and the model does not declare.
ParentKey == <<"nodes", "ix_nodes_parent_id">>

RootTitle == <<"nodes", "uq_nodes_root_title">>

\* Of Models, the parts that are put together differently by the migrations.
NodesModel ==
  Table("nodes", {"parent_id", "title", "sort_order", "uq_nodes_parent_title",
                  "ix_nodes_parent_sort_order"})
    \cup {<<"nodes", "parent_id", "nodes">>}

\* nodes at the head is the model Node, but for content_md, which 0004 dropped, and two indexes.
LEMMA NodesMatch == NodesHas \ {Content, ParentKey, RootTitle} = NodesModel
<1> DEFINE base == {"parent_id", "title", "sort_order", "uq_nodes_parent_title"}
           key == <<"nodes", "parent_id", "nodes">>
           sorted == <<"nodes", "ix_nodes_parent_sort_order">>
<1>1. NodesHas = Table("nodes", base \cup {"content_md"}) \cup {key, ParentKey, sorted, RootTitle}
  <2>1. base \cup {"content_md"}
          = {"parent_id", "title", "content_md", "sort_order", "uq_nodes_parent_title"}
    OBVIOUS
  <2> HIDE DEF base
  <2> QED
    BY <2>1 DEF NodesHas, CreateNodes, Create, ParentKey, RootTitle
<1>2. NodesModel = Table("nodes", base \cup {"ix_nodes_parent_sort_order"}) \cup {key}
  <2>1. base \cup {"ix_nodes_parent_sort_order"}
          = {"parent_id", "title", "sort_order", "uq_nodes_parent_title", "ix_nodes_parent_sort_order"}
    OBVIOUS
  <2> HIDE DEF base
  <2> QED
    BY <2>1 DEF NodesModel
<1>3. Named("nodes", {"content_md"}) = {Content} /\ Named("nodes", {"ix_nodes_parent_sort_order"}) = {sorted}
  BY DEF Named, Content
<1>4. Content \notin Table("nodes", base) /\ ParentKey \notin Table("nodes", base)
      /\ RootTitle \notin Table("nodes", base)
  <2>1. /\ "content_md" \notin base \cup BaseColumns /\ "ix_nodes_parent_id" \notin base \cup BaseColumns
        /\ "uq_nodes_root_title" \notin base \cup BaseColumns
    BY DEF BaseColumns
  <2> HIDE DEF base
  <2> QED
    BY <2>1, TableHas DEF Content, ParentKey, RootTitle
<1>5. /\ key # Content /\ key # ParentKey /\ key # RootTitle
      /\ sorted # Content /\ sorted # ParentKey /\ sorted # RootTitle
  BY TupleFacts DEF Content, ParentKey, RootTitle
<1> HIDE DEF base, key, sorted
<1> QED
  BY <1>1, <1>2, <1>3, <1>4, <1>5, TableJoin

CvModel ==
  Table("cv", {"title", "original_filename", "storage_key", "file_size", "mime_type",
               "is_current", "notes", "uq_cv_storage_key", "uq_cv_single_current_per_user"})

\* cv at the head is the model Cv.
LEMMA CvMatch == (CvHas \ {OneCurrent}) \cup {OneCurrentEach} = CvModel
<1> DEFINE base == {"title", "original_filename", "storage_key", "file_size", "mime_type",
                    "is_current", "notes", "uq_cv_storage_key"}
<1>1. CvHas = Table("cv", base) \cup {OneCurrent}
  BY DEF CvHas, CreateCv, Create, OneCurrent
<1>2. CvModel = Table("cv", base \cup {"uq_cv_single_current_per_user"})
  <2>1. base \cup {"uq_cv_single_current_per_user"}
          = {"title", "original_filename", "storage_key", "file_size", "mime_type",
             "is_current", "notes", "uq_cv_storage_key", "uq_cv_single_current_per_user"}
    OBVIOUS
  <2> HIDE DEF base
  <2> QED
    BY <2>1 DEF CvModel
<1>3. Named("cv", {"uq_cv_single_current_per_user"}) = {OneCurrentEach}
  BY DEF Named, OneCurrentEach
<1>4. OneCurrent \notin Table("cv", base)
  <2>1. "uq_cv_single_current" \notin base \cup BaseColumns
    BY DEF BaseColumns
  <2> HIDE DEF base
  <2> QED
    BY <2>1, TableHas DEF OneCurrent
<1> HIDE DEF base
<1> QED
  BY <1>1, <1>2, <1>3, <1>4, TableJoin

TranslationModel ==
  Table("node_translations", {"node_id", "language", "content_md",
          "ix_node_translations_node_id", "uq_node_translations_node_language"})
    \cup {<<"node_translations", "node_id", "nodes">>}

\* node_translations at the head is the model NodeTranslation.
LEMMA TranslationMatch == TranslationHas = TranslationModel
<1> DEFINE base == {"node_id", "language", "content_md", "uq_node_translations_node_language"}
           key == <<"node_translations", "node_id", "nodes">>
           index == <<"node_translations", "ix_node_translations_node_id">>
<1>1. TranslationHas = Table("node_translations", base) \cup {key, index}
  BY DEF TranslationHas, AddTranslations, Create
<1>2. TranslationModel = Table("node_translations", base \cup {"ix_node_translations_node_id"}) \cup {key}
  <2>1. base \cup {"ix_node_translations_node_id"}
          = {"node_id", "language", "content_md", "ix_node_translations_node_id",
             "uq_node_translations_node_language"}
    OBVIOUS
  <2> HIDE DEF base
  <2> QED
    BY <2>1 DEF TranslationModel
<1>3. Named("node_translations", {"ix_node_translations_node_id"}) = {index}
  BY DEF Named
<1> HIDE DEF base, key, index
<1> QED
  BY <1>1, <1>2, <1>3, TableJoin

\* The rest of the models, as the migrations create them.
RestModel == BoardHas \cup ColumnHas \cup ProcessHas \cup ValueHas \cup UsersHas

Owners ==
  Owner("nodes") \cup Owner("node_translations") \cup Owner("cv") \cup Owner("hiring_board")
    \cup Owner("hiring_board_column") \cup Owner("hiring_process") \cup Owner("hiring_step_value")

\* The models by their tables, with the owners apart.
LEMMA ModelsAre ==
  Models = NodesModel \cup TranslationModel \cup CvModel \cup RestModel \cup Owners
<1> DEFINE N == Table("nodes", {"parent_id", "title", "sort_order", "uq_nodes_parent_title",
                                "ix_nodes_parent_sort_order"})
           T == Table("node_translations", {"node_id", "language", "content_md",
                        "ix_node_translations_node_id", "uq_node_translations_node_language"})
           B == Table("hiring_board", {"title", "sort_order"})
           C == Table("hiring_board_column", {"board_id", "step_kind", "custom_title", "sort_order"})
           P == Table("hiring_process", {"board_id", "company", "source", "result",
                                         "offer_details", "notes", "sort_order"})
           V == Table("hiring_step_value", {"process_id", "column_id", "status", "event_date",
                                            "uq_hiring_step_value_process_column"})
           U == Table("users", {"email", "hashed_password", "is_active", "is_superuser",
                                "is_verified", "uq_users_email"})
           nk == {<<"nodes", "parent_id", "nodes">>}
           tk == {<<"node_translations", "node_id", "nodes">>}
           ck == {<<"hiring_board_column", "board_id", "hiring_board">>}
           pk == {<<"hiring_process", "board_id", "hiring_board">>}
           vk == {<<"hiring_step_value", "column_id", "hiring_board_column">>,
                  <<"hiring_step_value", "process_id", "hiring_process">>}
<1>1. /\ BoardHas = B /\ ColumnHas = C \cup ck /\ ProcessHas = P \cup pk
      /\ ValueHas = V \cup vk /\ UsersHas = U
  BY DEF BoardHas, ColumnHas, ProcessHas, ValueHas, UsersHas, CreateHiring, CreateUsers, Create
<1>2. NodesModel = N \cup nk /\ TranslationModel = T \cup tk
  BY DEF NodesModel, TranslationModel
<1>3. Models = N \cup Owner("nodes") \cup nk \cup T \cup Owner("node_translations") \cup tk
                 \cup CvModel \cup Owner("cv") \cup B \cup Owner("hiring_board")
                 \cup C \cup Owner("hiring_board_column") \cup ck
                 \cup P \cup Owner("hiring_process") \cup pk
                 \cup V \cup Owner("hiring_step_value") \cup vk \cup U
  BY DEF Models, CvModel
<1> HIDE DEF N, T, B, C, P, V, U, nk, tk, ck, pk, vk
<1> QED
  BY <1>1, <1>2, <1>3 DEF RestModel, Owners

\* The schema of the head is that of app/models, but for two indexes of nodes.
LEMMA HeadHasModels == S7 \ {ParentKey, RootTitle} = Models
<1> DEFINE gone == {Content, OneCurrent, ParentKey, RootTitle}
<1>1. /\ \A o \in CvHas : o[1] = "cv"
      /\ \A o \in NodesHas : o[1] = "nodes"
      /\ \A o \in TranslationHas : o[1] = "node_translations"
      /\ \A o \in RestModel : o[1] \notin {"nodes", "cv"}
  BY NodesAbout, CvAbout, HiringAbout, TranslationAbout, UsersAbout DEF About, RestModel
<1>2. /\ Content[1] = "nodes" /\ ParentKey[1] = "nodes" /\ RootTitle[1] = "nodes"
      /\ OneCurrent[1] = "cv" /\ OneCurrentEach[1] = "cv" /\ OneCurrentEach # OneCurrent
  BY DEF Content, ParentKey, RootTitle, OneCurrent, OneCurrentEach
<1>3. /\ Content \notin Owners /\ OneCurrent \notin Owners
      /\ ParentKey \notin Owners /\ RootTitle \notin Owners
  BY OwnerIs, TupleFacts DEF Owners, Owner, ParentKey, RootTitle
<1>4. S7 = (((NodesHas \cup CvHas \cup TranslationHas \cup RestModel \cup Owners) \ {Content, OneCurrent})
              \cup {OneCurrentEach})
  <2>1. \A t : Content \notin Owner(t) /\ OneCurrent \notin Owner(t)
    BY OwnerIs
  <2>2. Content \notin UsersHas /\ Content # OneCurrentEach /\ Content # OneCurrent
    BY <1>1, <1>2 DEF RestModel
  <2> QED
    BY <1>2, <2>1, <2>2 DEF S7, S6, S5, S4, S3, S2, S1, RestModel, Owners
<1>5. (NodesHas \cup CvHas \cup TranslationHas \cup RestModel \cup Owners) \ gone
        = (NodesHas \ {Content, ParentKey, RootTitle}) \cup (CvHas \ {OneCurrent})
            \cup TranslationHas \cup RestModel \cup Owners
  BY <1>1, <1>2, <1>3
<1>6. OneCurrentEach # ParentKey /\ OneCurrentEach # RootTitle
  BY <1>2
<1>7. S7 \ {ParentKey, RootTitle}
        = (NodesHas \ {Content, ParentKey, RootTitle}) \cup ((CvHas \ {OneCurrent}) \cup {OneCurrentEach})
            \cup TranslationHas \cup RestModel \cup Owners
  BY <1>4, <1>5, <1>6
<1> QED
  BY <1>7, NodesMatch, CvMatch, TranslationMatch, ModelsAre

\* At the head the application finds every table, column, key and index that its
\* models declare, also when downgrades and upgrades came before.
THEOREM LatestHasModelsAlways == Spec => []LatestHasModels
<1>1. ASSUME IInv PROVE LatestHasModels
  <2>1. rev = 7 => schema = S7
    BY <1>1 DEF IInv, SchemaOf
  <2> QED
    BY <2>1, UpIs, HeadHasModels DEF LatestHasModels, ParentKey, RootTitle
<1> QED
  BY <1>1, Invariance, PTL
=============================================================================
