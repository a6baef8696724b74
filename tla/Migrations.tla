----------------------------- MODULE Migrations -----------------------------
(***************************************************************************)
(* Migrations: the schema of the database and the rows that live through    *)
(* its revisions.                                                           *)
(*                                                                          *)
(* A schema is a set of objects: a table <<t>>, a column or a constraint or *)
(* an index <<t, name>>, a foreign key <<t, column, target>>.  A migration  *)
(* is a list of operations, each of which may fail; Alembic runs all of     *)
(* `upgrade head`, and one `downgrade -1`, in a single transaction.  Of the *)
(* rows the model keeps what a migration can trip over: who owns them, and  *)
(* which CVs are current.  Which row refers to which other is left out: no  *)
(* migration looks at it.                                                   *)
(***************************************************************************)
EXTENDS Integers, FiniteSets, FiniteSetsExt, Sequences

CONSTANTS Ids,      \* the uuids of rows
          MaxRows,  \* bound: the rows stored at the same time
          None      \* no owner: the table has no user_id

VARIABLES rev,     \* the row of alembic_version: the revisions that are applied
          schema,
          rows     \* the rows of each table

vars == <<rev, schema, rows>>

Tables == {"nodes", "node_translations", "cv", "hiring_board", "hiring_board_column",
           "hiring_process", "hiring_step_value", "users"}

Row == [id : Ids, user : Ids \cup {None}, current : BOOLEAN]

ASSUME MigrationsAssumption == None \notin Ids \cup [Tables -> SUBSET Row] /\ MaxRows \in Nat

\* What is left of the database of a migration that failed.
Failed == [schema |-> {}, rows |-> None]

-----------------------------------------------------------------------------
(* Operations of Alembic *)

\* create_table with its columns, create_index, create_foreign_key and
\* add_column of a nullable column.
Create(objects) == [do |-> "create", objects |-> objects]

\* drop_index, drop_constraint.
Drop(objects) == [do |-> "drop", objects |-> objects]

\* add_column of a column that is NOT NULL and has no default.
AddRequired(t, c) == [do |-> "add required", table |-> t, column |-> c]

DropColumn(t, c) == [do |-> "drop column", table |-> t, column |-> c]

DropTable(t) == [do |-> "drop table", table |-> t]

Table(t, names) == {<<t>>} \cup {<<t, c>> : c \in names \cup {"id", "created_at", "updated_at"}}

\* The unique indexes of a schema hold for a set of CVs.
CurrentIsSingle(objects, cvs) ==
  \A r, q \in {x \in cvs : x.current} :
    r # q => /\ <<"cv", "uq_cv_single_current">> \notin objects
             /\ <<"cv", "uq_cv_single_current_per_user">> \in objects => r.user # q.user

\* Whether PostgreSQL accepts what is created.
Creatable(db, op) ==
  /\ op.objects \cap db.schema = {}
  /\ CurrentIsSingle(op.objects, db.rows["cv"])

\* A table that another one references cannot be dropped.
Droppable(db, t) ==
  /\ <<t>> \in db.schema
  /\ ~ \E o \in db.schema : Len(o) = 3 /\ o[3] = t /\ o[1] # t

\* A table's rows once a column is gone.
Without(db, t, c) ==
  IF c = "user_id" THEN {[r EXCEPT !.user = None] : r \in db.rows[t]} ELSE db.rows[t]

\* Mutated form: the rows that are in the way of the column are deleted.
WithRequired(db, t, c) ==
  [db EXCEPT !.schema = @ \cup {<<t, c>>}, !.rows[t] = {}]

\* A column that must have a value cannot be added to rows, which have none.
Required(db, t, c) ==
  IF db.rows[t] = {} THEN [db EXCEPT !.schema = @ \cup {<<t, c>>}] ELSE Failed

\* Whether PostgreSQL executes an operation.
Possible(db, op) ==
  CASE op.do = "create" -> Creatable(db, op)
    [] op.do = "drop" -> op.objects \subseteq db.schema
    [] op.do = "add required" -> <<op.table, op.column>> \notin db.schema
    [] op.do = "drop column" -> <<op.table, op.column>> \in db.schema
    [] op.do = "drop table" -> Droppable(db, op.table)

\* The database after one operation, Failed when it or one before it fails.
Apply(db, op) ==
  IF db = Failed THEN Failed
  ELSE IF ~ Possible(db, op) THEN Failed
  ELSE CASE op.do = "create" -> [db EXCEPT !.schema = @ \cup op.objects]
         [] op.do = "drop" -> [db EXCEPT !.schema = @ \ op.objects]
         [] op.do = "add required" -> Required(db, op.table, op.column)
         [] op.do = "drop column" ->
              [schema |-> db.schema \ {<<op.table, op.column>>},
               rows |-> [db.rows EXCEPT ![op.table] = Without(db, op.table, op.column)]]
         [] op.do = "drop table" ->
              [schema |-> {o \in db.schema : o[1] # op.table},
               rows |-> [db.rows EXCEPT ![op.table] = {}]]

-----------------------------------------------------------------------------
(* The revisions *)

CreateNodes ==
  << Create(Table("nodes", {"parent_id", "title", "content_md", "sort_order",
                            "uq_nodes_parent_title"})
              \cup {<<"nodes", "parent_id", "nodes">>}),
     Create({<<"nodes", "ix_nodes_parent_id">>}),
     Create({<<"nodes", "ix_nodes_parent_sort_order">>}),
     Create({<<"nodes", "uq_nodes_root_title">>}) >>

CreateCv ==
  << Create(Table("cv", {"title", "original_filename", "storage_key", "file_size", "mime_type",
                         "is_current", "notes", "uq_cv_storage_key"})),
     Create({<<"cv", "uq_cv_single_current">>}) >>

CreateHiring ==
  << Create(Table("hiring_board", {"title", "sort_order"})),
     Create(Table("hiring_board_column", {"board_id", "step_kind", "custom_title", "sort_order"})
              \cup {<<"hiring_board_column", "board_id", "hiring_board">>}),
     Create(Table("hiring_process", {"board_id", "company", "source", "result",
                                     "offer_details", "notes", "sort_order"})
              \cup {<<"hiring_process", "board_id", "hiring_board">>}),
     Create(Table("hiring_step_value", {"process_id", "column_id", "status", "event_date",
                                        "uq_hiring_step_value_process_column"})
              \cup {<<"hiring_step_value", "column_id", "hiring_board_column">>,
                    <<"hiring_step_value", "process_id", "hiring_process">>}) >>

AddTranslations ==
  << Create(Table("node_translations", {"node_id", "language", "content_md",
                                        "uq_node_translations_node_language"})
              \cup {<<"node_translations", "node_id", "nodes">>}),
     Create({<<"node_translations", "ix_node_translations_node_id">>}),
     DropColumn("nodes", "content_md") >>

CreateUsers ==
  << Create(Table("users", {"email", "hashed_password", "is_active", "is_superuser",
                            "is_verified", "uq_users_email"})) >>

\* Mutated form: the owner may be NULL, and is for the rows that are stored.
AddNullableOwner(t) ==
  << Create({<<t, "user_id">>}), Create({<<t, "user_id", "users">>}), Create({<<t, "ix_user_id">>}) >>

\* Mutated form: an owner without the index on it.
AddOwnerWithoutIndex(t) ==
  << AddRequired(t, "user_id"), Create({<<t, "user_id", "users">>}) >>

\* add_column, create_foreign_key and create_index of 0006 and 0007.
AddOwner(t) ==
  << AddRequired(t, "user_id"), Create({<<t, "user_id", "users">>}), Create({<<t, "ix_user_id">>}) >>

DropOwner(t) ==
  << Drop({<<t, "ix_user_id">>}), Drop({<<t, "user_id", "users">>}), DropColumn(t, "user_id") >>

Up ==
  << CreateNodes, CreateCv, CreateHiring, AddTranslations, CreateUsers,
     AddOwner("nodes") \o AddOwner("cv") \o AddOwner("hiring_board")
       \o << Drop({<<"cv", "uq_cv_single_current">>}),
             Create({<<"cv", "uq_cv_single_current_per_user">>}) >>,
     AddOwner("hiring_board_column") \o AddOwner("hiring_process")
       \o AddOwner("hiring_step_value") \o AddOwner("node_translations") >>

DropNodes ==
  << Drop({<<"nodes", "uq_nodes_root_title">>}),
     Drop({<<"nodes", "ix_nodes_parent_sort_order">>}),
     Drop({<<"nodes", "ix_nodes_parent_id">>}),
     DropTable("nodes") >>

DropCv == << Drop({<<"cv", "uq_cv_single_current">>}), DropTable("cv") >>

DropHiring ==
  << DropTable("hiring_step_value"), DropTable("hiring_process"),
     DropTable("hiring_board_column"), DropTable("hiring_board") >>

\* Mutated form: 0004 is taken back without the column it dropped.
DropTranslationsOnly ==
  << Drop({<<"node_translations", "ix_node_translations_node_id">>}),
     DropTable("node_translations") >>

DropTranslations ==
  << Create({<<"nodes", "content_md">>}),
     Drop({<<"node_translations", "ix_node_translations_node_id">>}),
     DropTable("node_translations") >>

DropUsers == << DropTable("users") >>

Down ==
  << DropNodes, DropCv, DropHiring, DropTranslations, DropUsers,
     << Drop({<<"cv", "uq_cv_single_current_per_user">>}),
        Create({<<"cv", "uq_cv_single_current">>}) >>
       \o DropOwner("hiring_board") \o DropOwner("cv") \o DropOwner("nodes"),
     DropOwner("node_translations") \o DropOwner("hiring_step_value")
       \o DropOwner("hiring_process") \o DropOwner("hiring_board_column") >>

Latest == Len(Up)

\* The database after a list of operations, Failed when one of them fails.
Run(db, ops) ==
  LET after[i \in 0 .. Len(ops)] == IF i = 0 THEN db ELSE Apply(after[i - 1], ops[i])
  IN  after[Len(ops)]

\* The database after the upgrades of the revisions after m up to n, Failed when
\* one of them fails.
UpgradedFrom(db, m, n) ==
  LET after[k \in m .. n] == IF k = m THEN db ELSE Run(after[k - 1], Up[k])
  IN  after[n]

Upgraded(n) == UpgradedFrom([schema |-> schema, rows |-> rows], rev, n)

Downgraded == Run([schema |-> schema, rows |-> rows], Down[rev])

-----------------------------------------------------------------------------
(* Steps *)

Init == rev = 0 /\ schema = {} /\ rows = [t \in Tables |-> {}]

\* run-migrations.sh of a release whose head is revision n; when it fails the
\* database stays as it is.
Upgrade(n) ==
  /\ n \in rev + 1 .. Latest
  /\ Upgraded(n) # Failed
  /\ schema' = Upgraded(n).schema /\ rows' = Upgraded(n).rows
  /\ rev' = n

\* make downgrade.
Downgrade ==
  /\ rev > 0
  /\ Downgraded # Failed
  /\ schema' = Downgraded.schema /\ rows' = Downgraded.rows
  /\ rev' = rev - 1

Scoped(t) == <<t, "user_id">> \in schema

UserIds == {r.id : r \in rows["users"]}

\* The release of the time stores a row.
Insert(t, r) ==
  /\ <<t>> \in schema
  /\ \A q \in rows[t] : q.id # r.id
  /\ IF Scoped(t) THEN r.user \in UserIds ELSE r.user = None
  /\ r.current => t = "cv"
  /\ CurrentIsSingle(schema, rows["cv"] \cup (IF t = "cv" THEN {r} ELSE {}))
  /\ rows' = [rows EXCEPT ![t] = @ \cup {r}]
  /\ FoldSet(LAMBDA s, n : n + Cardinality(rows'[s]), 0, Tables) <= MaxRows
  /\ UNCHANGED <<rev, schema>>

\* A row is deleted, a user with the rows that are the user's.
Delete(t, r) ==
  /\ r \in rows[t]
  /\ rows' = [s \in Tables |->
                IF s = t THEN rows[s] \ {r}
                ELSE IF t = "users" THEN {q \in rows[s] : q.user # r.id}
                ELSE rows[s]]
  /\ UNCHANGED <<rev, schema>>

Next ==
  \/ \E n \in 1 .. Latest : Upgrade(n)
  \/ Downgrade
  \/ \E t \in Tables, r \in Row : Insert(t, r) \/ Delete(t, r)

Spec == Init /\ [][Next]_vars

-----------------------------------------------------------------------------
(* Properties *)

\* Whatever upgrades and downgrades came before, the rows fit the schema: rows
\* are in tables that exist, they have an owner exactly where there is a column
\* for it, and the index on current CVs holds.
RowsFit ==
  \A t \in Tables :
    /\ rows[t] # {} => <<t>> \in schema
    /\ \A r \in rows[t] : IF Scoped(t) THEN r.user \in UserIds ELSE r.user = None
    /\ CurrentIsSingle(schema, rows["cv"])

EmptyDatabase == [schema |-> {}, rows |-> [t \in Tables |-> {}]]

\* The schema is the one that the upgrades to this revision build from nothing:
\* each downgrade takes back exactly what its upgrade did.
SchemaIsOfRevision == schema = UpgradedFrom(EmptyDatabase, 0, rev).schema

\* Only rows that have no owner keep a database from the head: those stored
\* before 0006 and 0007, and those that a downgrade took the owner from.
OnlyUnownedRowsBlock ==
  rev < Latest =>
    (Upgraded(Latest) = Failed <=> \E t \in Tables \ {"users"} : \E r \in rows[t] : ~ Scoped(t))

\* What app/models declares.
Owner(t) == {<<t, "user_id">>, <<t, "user_id", "users">>, <<t, "ix_user_id">>}

Models ==
  Table("nodes", {"parent_id", "title", "sort_order", "uq_nodes_parent_title",
                  "ix_nodes_parent_sort_order"})
    \cup Owner("nodes") \cup {<<"nodes", "parent_id", "nodes">>}
    \cup Table("node_translations", {"node_id", "language", "content_md",
                 "ix_node_translations_node_id", "uq_node_translations_node_language"})
    \cup Owner("node_translations") \cup {<<"node_translations", "node_id", "nodes">>}
    \cup Table("cv", {"title", "original_filename", "storage_key", "file_size", "mime_type",
                      "is_current", "notes", "uq_cv_storage_key",
                      "uq_cv_single_current_per_user"})
    \cup Owner("cv")
    \cup Table("hiring_board", {"title", "sort_order"}) \cup Owner("hiring_board")
    \cup Table("hiring_board_column", {"board_id", "step_kind", "custom_title", "sort_order"})
    \cup Owner("hiring_board_column") \cup {<<"hiring_board_column", "board_id", "hiring_board">>}
    \cup Table("hiring_process", {"board_id", "company", "source", "result", "offer_details",
                                  "notes", "sort_order"})
    \cup Owner("hiring_process") \cup {<<"hiring_process", "board_id", "hiring_board">>}
    \cup Table("hiring_step_value", {"process_id", "column_id", "status", "event_date",
                                     "uq_hiring_step_value_process_column"})
    \cup Owner("hiring_step_value")
    \cup {<<"hiring_step_value", "column_id", "hiring_board_column">>,
          <<"hiring_step_value", "process_id", "hiring_process">>}
    \cup Table("users", {"email", "hashed_password", "is_active", "is_superuser",
                         "is_verified", "uq_users_email"})

\* At the head the database has every table, column, key and index that the
\* models of the application declare, and nothing else but two indexes of nodes.
LatestHasModels ==
  rev = Latest => schema \ {<<"nodes", "ix_nodes_parent_id">>, <<"nodes", "uq_nodes_root_title">>}
                  = Models

\* A migration deletes no row but those of a table it drops, and takes no
\* owner but those of a column it drops.
MigrationsKeepRows ==
  [][rev' # rev =>
       \A t \in Tables : \A r \in rows[t] :
         <<t>> \in schema' =>
           \E q \in rows'[t] : /\ q.id = r.id /\ q.current = r.current
                               /\ Scoped(t)' => q.user = r.user]_vars
=============================================================================
