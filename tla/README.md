# Formal models of be-answer-hub

be-answer-hub is a FastAPI service over PostgreSQL and an S3-compatible object
store. A signed-in user keeps a tree of nodes whose leaves store answers, CVs as
PDFs, and boards that track hiring processes. The modules here model the services
that own this state, the sessions and the schema they run on; the TLC runs check them
on small instances, and eight proof modules carry the most important properties over
to every instance.

## 1. Inventory

| Component | State | Operations | Interacts with | What makes it correct |
|---|---|---|---|---|
| Node tree (`services/node_service`, `repositories/node_repository.py`, `models/node*.py`, `api/nodes.py`) | tables `nodes`, `node_translations` | create, update, upsert and delete a translation, move, reorder, delete; list and get | one database session per request | no cycle of parents; answers only at leaves; a leaf keeps its last answer; users apart; sibling titles unique; no request undoes another |
| Node tree view (`utils/node_tree.py`) | none | rows to nested tree | reads what the node tree stores | every stored node is shown |
| CV storage (`services/cv_service.py`, `repositories/cv_repository.py`, `models/cv.py`, `api/cv.py`) | table `cv`, objects in the store | upload, update, delete; list, get, download | session and object store, no transaction over both | a row has its PDF and a PDF its row; one current CV, never lost |
| Hiring boards (`services/hiring_service`, `repositories/hiring_repository.py`, `models/hiring.py`, `api/hiring.py`) | `hiring_board`, `hiring_board_column`, `hiring_process`, `hiring_step_value` | boards, columns, processes and cells; `get_board` also writes | session | a cell joins a process and a column of one board; offer details only with an offer; a failed step rejects; positions distinct; default columns complete |
| Database sessions (`database/db.py`, `database/session.py`) | the pool of connections, row locks | open, connect, commit, roll back, close | every service; connections are held over calls to the object store | no connection lost; no request waits for ever; a failed request leaves nothing behind |
| Object store client (`clients/minio.py`) | the bucket | put, get, delete, presign | CV storage | none of its own: each call may fail, and may have worked although it failed |
| Schema migrations (`database/migrations`, `scripts/run-migrations.sh`) | the schema, `alembic_version` | seven upgrades and their downgrades | the rows of every table | a downgrade undoes its upgrade; rows survive and fit; the head is what the models declare |
| Authentication (`auth`, `services/auth_service.py`) | `users`; tokens are stateless JWTs | login, refresh, current user | the user id that every repository is bound to | a refresh token is no access token |
| Deployment (`deploy`), schemas, errors, settings, wiring | none | | | |

The hard behaviours are these. Every request runs in a session of its own at READ
COMMITTED, so two statements of one request may see different databases, and a check
in the service (a `SELECT`) is not tied to the write that follows it: only unique
indexes and foreign keys are. The ORM writes the columns that differ from what it
loaded, not those that differ from what is stored. The CV service works on two stores
and has a hand-written compensation. `HiringService.get_board` writes on read. The
recursive query of moves has no cycle check. Reorders lock rows in the order the client
sends, and connections and row locks are held while a request waits. Migrations meet
the rows that earlier releases stored. `PROJECT.json` lists each of these hazards with
its line and the properties aimed at it.

## 2. Modules

| Module | Models | Composed with |
|---|---|---|
| `NodeRepo` | the two tables as values, the queries of `NodeRepository`, the database constraints, the payloads, the set of nodes that `build_node_tree` shows | |
| `NodeTree` | abstract: one action per method of `NodeService`, from its first query to its commit | extends `NodeRepo` |
| `NodeService` | detailed: the same methods statement by statement, by concurrent workers | extends `NodeRepo`, refines `NodeTree` |
| `CvShelf` | abstract: what a user sees of the CVs; each request takes effect at once | |
| `CvService` | detailed: uploads, patches and deletes of CVs with row locks and faults | refines `CvShelf` |
| `HiringTables` | the four tables of boards as values, their constraints, the payloads, the rows that the helpers compute | |
| `HiringBoard` | abstract: each request about boards takes effect at once, on the caller's rows | extends `HiringTables` |
| `HiringService` | detailed: boards, columns, processes, cells and `get_board` that writes, statement by statement | extends `HiringTables`, refines `HiringBoard` |
| `Database` | the connection pool, the life of a session, the row locks of reorders, deadlocks and their victims | |
| `Migrations` | the seven revisions as lists of schema operations, with the rows they meet | |
| `NodeTreeProofs`, `NodeServiceProofs`, `CvServiceProofs`, `HiringProofs`, `DatabaseProofs`, `MigrationsProofs` | theorems | each extends its component and TLAPS |
| `NodeSerialProofs` | theorems about `NodeService` with one request at a time, the refinement of `NodeTree` among them | extends `NodeServiceProofs` |
| `HiringWriterProofs` | theorems about requests that write different processes, or are on different boards, the refinement of `HiringBoard` among them | extends `HiringProofs` |
| `MCNodeTree`, `MCNodeService`, `MCHiringService` | instances for TLC (`CvService`, `Database` and `Migrations` need none) | |

**State.** A table is a function from stored ids to rows; `node_translations` is a set
of pairs of node and language, as only the existence of an answer matters.
A `session[w]` is what a request in worker `w` keeps between statements: its program
counter, its payload, and the rows and values it has read (the identity map).
`Database` knows nothing of rows but their positions: `place` is `sort_order`, `free`
counts the connections in the pool or not yet opened, `held` the requests with one.
`Migrations` has a schema as a set of objects (tables, columns, indexes, foreign keys).

**Actions.** A query is one step and sees what is committed. The writes of a request
and its commit are one step: in PostgreSQL another writer of the same rows waits for
the commit, a unique index or foreign key makes it wait too, and what it then meets is
the committed table; so the tables change at the commit, and `Storable` is judged
there. A refused commit rolls back and answers 500, as no handler in
`core/exceptions_handler.py` knows `IntegrityError`. Where the wait itself matters
it is state: `CvService` has the row locks of `unset_all_current`, which are held over a
call to the object store (`unset`), with the snapshot that finds the rows and
the wait for them as separate steps; `Database` has every `UPDATE` of a reorder as a
step that may wait for a row, and `Victim` for the transaction that PostgreSQL ends when
transactions wait in a circle. `Abort`, `Die`, `StatementFails` and `Restart` end
requests at any point, for a lost connection, a deadlock or a restart.

**Decisions.**
- Ids are uuids. `NodeService` and `CvService` remember every id given out (`used`) and
  clients name only those. `HiringService` gives an id out again once no session knows
  it, which no request can tell from a new one.
- `MaxSort` stands for the largest value of the Integer column `sort_order`; a create,
  move or new column past it fails like any refused commit.
- When the finite set of ids is used up a create fails; this is a bound of the models.
- An explicit `null` for a NOT NULL field of a patch answers 500 and changes nothing; it
  is left out. So are payloads the schemas refuse, and methods that only read.
- A deleted translation that another request adds again is another row: `Forget`
  makes a pending DELETE of the old row find nothing.
- An `UPDATE` of the ORM that meets no row raises `StaleDataError` (the request fails), a
  `DELETE` that meets none only warns, and the bulk `UPDATE` of `reorder_columns` passes
  over a column that is gone.
- `Named(r) \subseteq used` and the seeds are the only assumptions about clients.
- In `Database` the two reorders stand for all methods that write several rows, and the
  preview of a CV for all that call the object store with a connection in hand. A
  reorder of siblings skips rows whose loaded position is the wanted one, as the ORM
  does; a reorder of columns writes them all.
- Alembic runs a whole `upgrade head`, and each `downgrade -1`, in one transaction, so
  `Upgrade` and `Downgrade` are one step that happens fully or not at all; between them
  the release of the time inserts and deletes rows.

## 3. Runs

| Run | Instance | Shows |
|---|---|---|
| `node_tree` | 4 nodes, 2 users, 2 titles, 2 languages, symmetric, from the empty database | `TypeOK`, `Acyclic`, `LeafContent`, `OwnerConsistent`, `EveryNodeIsShown`, `TenantIsolation`, `LastTranslationKept` |
| `node_serial` | 1 worker, 3 nodes, 1 user, every method | the statements do what `NodeTree` says for the same payload (`ImplementsTree`, which implies `Tree!Spec`); no checked title meets a unique index; reorders take effect; requests end |
| `node_apart` | 2 workers, 4 nodes, 2 users; for one user `w1` moves, reorders and answers a node, `w2` creates, renames, sorts and deletes, but creates nothing under that node; the other user's create and move go through `w2` | no cycle, answers at the leaves, no foreign parent, no foreign row touched; a step changes the title, the parent and the position of a node only to what a request for that column asks for, so no rename, move or reorder is undone (`ColumnsAsRequested`) |
| `node_moves`, `node_leaf_content`, `node_last_translation` | 2 workers | violations: each check is separate from its write |
| `node_root_title` | 1 worker, 2 users | violation: the index of root titles spans users |
| `cv_safety` | 2 workers, 2 CVs, 2 users, faults | one current CV per user, never lost (`CurrentKept`); orphans and dangling rows only after a fault; users see whole requests only (`ImplementsShelf`); requests that wait for row locks end (`RequestsEnd`) |
| `hiring` | 2 workers, 2 boards, 3 columns, 1 process; one worker writes processes and cells, the other boards and columns | `TypeOK`, `CellsOnOneBoard`, `DetailsOnlyWithOffer`, `ColumnsOrdered`, `AnswersShowDefaults`, `FailedStepRejects`; every commit is the step of `HiringBoard` for the payload and the caller of its own request (`ImplementsBoard`); the races of two writers of processes, or of two of columns, do not occur in it |
| `hiring_backfill` | 1 worker, 5 columns, all default kinds | violation: a deleted default column comes back |
| `database` | 3 workers, 2 connections, 2 columns, 2 siblings, every order | connections are conserved, columns have one request's order, every request ends |
| `migrations` | 2 ids, at most 4 rows, all seven revisions up and down | rows fit the schema, downgrades undo upgrades, only rows without an owner block the head, the head has what the models declare, no row is lost |

**Bounds.** A cycle needs two nodes and a move across a chain three; four let two users
have a chain and a root. Two titles make siblings collide and differ, two languages make
a last translation. Sort orders 0 and 1 reach the column limit. Two workers show every
race of two checks; the order of statements is free. Two CVs are the one replaced and
the one that replaces it, or one of each user; the theorems of `CvServiceProofs` carry all
but `RequestsEnd` to any number. Three columns give the legacy
board its missing one and leave a foreign column; `DefaultKinds` is cut to two kinds in
`hiring` to leave an id for a custom column. Three requests on two connections let two
wait for each other's rows while the third waits for a connection. Two ids and four rows
give two users a current CV each, which the index of 0002 refuses after the downgrade
of 0006. Workloads cut the payloads (for example a reorder names two nodes); the
comments of the MC modules say how.

**Fairness.** `NodeService` assumes weak fairness of each worker's next statement: the
event loop resumes a coroutine whose query has returned. A query on a cycle of parents
may never return, which is `QueryDiverges`. `CvService` and `Database` assume strong
fairness of each worker's statements: one that waits for a row or for a connection is
enabled and disabled as others take it, and PostgreSQL and the pool queue the waiters.
`Database` assumes also that PostgreSQL ends some transaction of a circle (weak fairness of
`Victim`, `deadlock_timeout`). None assumes that a request arrives, gives up waiting
for a connection, fails or dies. Deadlock is checked in every run.

## 4. Proofs

The theorems hold for every set of ids, users and payloads, any number of concurrent
requests and any seed that satisfies the named assumptions of the modules
(`NodeRepoAssumption`, `SeedAssumption`, the two `WorkloadAssumption`s, `CvAssumption`,
`HiringAssumption`, `DatabaseAssumption`): NULL is no value, payloads have their types,
limits are natural numbers, behaviours start from a good database. Each proof has an
inductive invariant `IInv`, one lemma per action, and a last step in temporal logic.

**NodeTreeProofs** (one request at a time): `TypeCorrect`, `TreeHasNoCycle`,
`AnswersAreLeaves`, `ParentsAreOwned`, `TreeIsComplete`, and the action properties
`UsersAreIsolated` and `LastAnswerStays`. `IInv` is the conjunction of four invariants of
which none is inductive alone. `Acyclic` needs `OwnerConsistent`, because the descendant
check walks only the caller's rows and so sees the whole subtree only if that subtree is
the caller's. `LeafContent` needs it for the same reason: `has_children` counts the
caller's rows. The key lemma, `MoveKeepsAcyclic`, hangs a set of nodes under a parent
that is below none of them: a set without an exit in the new table would have to hold the
parent, and the part of it below a moved node gives a set without an exit in the old
one. `Below` is defined as the least closed set, which makes this argument first-order;
`NoCycle` says that every set of nodes has an exit. `TreeIsComplete` applies it to the set
of nodes that are not shown.

**NodeServiceProofs** (any number of requests, all of which may move):
`ParentsAreOwned`, `UsersAreIsolated`, `OnlyRequestedColumns`. These are the promises that
survive the races; `OnlyRequestedColumns` is about title, parent and position, and says of
each that a step gives it the value that some request for it was about to write. A request
decides by what it read statements ago, but the owner of an
id never changes: `IInv` says of each session that the rows it holds (`Held`) and the
parent it has looked up (`Under`) are the caller's as long as they are stored, and which
requests reach which statement (`Phase`). The second half of the module states what a
session may rely on at each statement: `TypeCorrect`, for every workload, and
three promises that the races can break, each as long as the requests that break it
together do not run at the same time. `AcyclicWhenMovingApart`: no two requests under way
move or reorder nodes of one user (`MoversApart`); creates, renames, answers, deletes and
the moves of other users run in between as they like. The invariant `Clear` says of every
node that a session has compared with its new parent that some set of ids holds the node
and whatever is stored below it, belongs to one user, and does not hold the parent; a
create adds a node that nothing is below, a delete only takes edges away, and no move of
another user touches such a set, so there is one after each. `LeafContentWhenGrowingApart`:
no two requests under way answer a node and give it a child (`GrowsApart`). The invariant
`Fallow` says of every session that the parent it has checked stores no answer still, the
node it answers is no parent still, and that a reorder under a node that does store answers
finds its nodes there already. Both conditions hold in the run `node_apart`; without them
`node_moves` and `node_leaf_content` find the violation.
`LastAnswerStaysWhenCountingApart`: no request is about to delete an answer of a node
while another that has counted it is about to delete a different one (`CountsApart`). The
code does not prevent that, and `node_last_translation` finds it; the theorem says that it
is the only way to lose the last answer of a node, whatever else runs in between: two deletes
of one answer, deletes of different answers of which one commits before the other loads the
node, and every other request. The invariant `Counted` says that the other answers a
delete has counted are stored as long as their node is: an answer goes only with its node
or by a delete of that answer (`WhoRemoves`), and the id of a deleted node never returns.
All three rest on what a statement leaves in the session (`Turn`), the first two also on a
reorder holding the nodes it names (`Asked`).

**NodeSerialProofs** (one worker): `SerialImplementsTree`, the refinement of `NodeTree`,
`SerialChecksCoverTitles` (for one user; with two `node_root_title` finds the violation)
and `SerialReorderTakesEffect`. The invariant `Facts` ties the session to the tables,
statement by statement: what it loaded (`Loaded`), the parent (`Parented`), the title
(`Titled`), the next position (`Sorted`), the ancestors it excluded (`NotAbove`), the nodes
and siblings of a reorder (`Listed`) and the answers it counted (`Answered`). Each write
then is the step of `NodeTree` with the same payload, and every other statement a stutter.

**CvServiceProofs** (any number of requests, faults at any step): `TypeCorrect`,
`OrphansHaveACause`, `DanglingHaveACause`, `CurrentStays`, and `ShelfIsImplemented`, the
refinement of `CvShelf`. `IInv` adds that a locked row is a current row of the one who
locked it (`Locking`), that nobody else has got further with the id of an upload than to
look for it (`Unseen`), and where row and PDF of a request are (`Stands`).

**HiringProofs** (any number of requests): `TypeCorrect` and `CellsShareABoard`. `IInv`
says that the board a session is on, the process and the column it has loaded are, as long
as they are stored, what they were when it looked (`AtBoard`, `KnowsProcess`,
`KnowsColumn`), boards and processes the caller's; the foreign keys refuse the write when
one of them is gone. `SoundStays` shows that no commit of another request disturbs this,
because none gives out an id a session knows.

**HiringWriterProofs** (any number of requests). `DetailsWhenProcessesApart` and
`FailureRejectsWhenProcessesApart`: no two requests under way update one process or write
cells of it (`ProcessesApart`); everything else runs in between, deletes of the process, its
board and its columns included. The invariant `Current` says that the process a session has
loaded is stored as it was loaded, if it still is; then `save_process`, which writes only
what differs from the loaded row, stores the whole new row (`SavedIsPut`).
`OrderWhenBoardsApart` and `DefaultsShownWhenBoardsApart`: no two requests under way are on
one board (`BoardsApart`); requests on other boards, new boards, and the updates, deletes
and cells of processes of the same board run in between. The invariant `Counted` says of a
session that the kinds it found missing are missing still, the position it computed is
behind every column of the board, the payload of a reorder names exactly the columns of
the board, and a board reloaded after the default columns were added lacks none. It
survives the others because a request changes the columns of its own board only
(`OtherBoardsStay`), which for a delete rests on `KnowsColumn`: the column a request drops is
on its board still. The other lemmas are about the operators: `NextColumnSort` is behind
the board (`NextIsBehind`), new columns take distinct positions in the order of
`DefaultKinds` (`AddKeepsOrder`, by the cardinality of strict subsets), and with them no kind
is missing (`AddFills`). Both conditions hold in the run `hiring`. The first and the third
theorem also assume that the seed databases have the property.
`BoardIsImplemented`, under both conditions, is the refinement of `HiringBoard`. Its state is
that of `HiringService` without the sessions, so the mapping is the identity: every
statement that reads is a stutter, and so is a commit that the constraints refuse or a
delete of what is gone (`NothingToDelete`); every other commit is the one step of
`HiringBoard` for the payload and the caller of the request that commits, with a lemma for each
(`AddColumnIsAddColumn` and so on; `WriteMovesOn` that it is this request that takes the step). There `Counted` gives
the columns and `Current` the process that the abstract step reads at once, and `IInv` that
board, process and column are the caller's (`OwnerOfBoard`, `OwnerOfProcess`).

**DatabaseProofs** (any pool, board and number of requests): `TypeCorrect`, that no
connection is lost or given back twice, and `ColumnsStayInOneOrder`.

**MigrationsProofs** (any ids, any number of rows, any sequence of releases and downgrades):
`RowsFitAlways`, `SchemaIsOfRevisionAlways`, `OnlyUnownedRowsBlockAlways`,
`LatestHasModelsAlways` and the action property `RowsAreKept`. What one operation does to a
database is a lemma each (`CreateGives`, `DropGives`, `AddGives`, `DropColumnGives`,
`DropTableGives`); with them each upgrade and each downgrade is followed operation by
operation. An upgrade to revision n either fails, exactly when the rows do not let it
pass (`Passes`), or leaves the schema of n and every row (`UpGives`); a downgrade that
does not fail leaves the schema the upgrade found, and the rows but for the tables and
owners it drops (`DownGives`). The inductive invariant `IInv` says that the schema is a
function of the revision (`SchemaOf`) and that the rows fit it (`Fits`); from it
`Upgraded`, which runs over several revisions in one transaction, fails exactly when one of
them does (`UpgradedGives`). `Run` and `UpgradedFrom` are recursive functions; that they
exist, and that a list of operations that is written as two runs one after the other, is
shown with the least index at which it would not be so (`InductionTo`, from the
well-foundedness of `<` on the naturals), because the induction theorems of the library take
an operator. `LatestHasModelsAlways` compares the schema of the head, as the seven
revisions put it together, with what `app/models` declares, table by table
(`HeadHasModels`).

A theorem `Spec /\ []Condition => ...` claims nothing beyond its condition: the service takes
no lock on what it checks, so the condition says which requests a lock would keep apart,
and section 5 says what happens without it. A condition is about which requests are under
way, never about the order of their steps: the others run between any two statements. One
request at a time meets all of them.

Only model-checked: liveness (`RequestsEnd` of three modules; fairness and `ENABLED` are
outside the prover).

## 5. What the checks show about the code

Served one at a time, the node service keeps all its promises but one: a root title
of another user is refused by the database, not by the service (`node_root_title`). With
concurrent requests the checks that no constraint backs can be passed twice: a cycle
of parents (`node_moves`), a child under an answer (`node_leaf_content`), a leaf that loses
both its answers to two deletes that each counted two (`node_last_translation`), although
`exceptions/node.py` says that the last one cannot be removed. Each would
need a lock on the rows the check reads. What concurrency does not break is the
separation of users, nor does any request undo another's rename, move or reorder; both are
proved.

Some properties hold for one request at a time and not for two, without a statement of the
repository that they contradict: `ReorderTakesEffect` (a row that already has the place
the first reorder loaded is not written by it), `DetailsOnlyWithOffer`
(two patches of one process), `FailedStepRejects` (a failed step that loaded the process as
rejected writes no result, so a patch committed in between keeps its own), `ColumnsOrdered`
(two columns added at a time read the same maximum), `AnswersShowDefaults` (another request
drops a default column before the
board is read again for the answer) and `ImplementsBoard` (besides
these, two reads of a legacy board at a time both find the default columns missing and both
add them). The runs `node_serial` and `hiring` have one writer of what is raced for, so none
of these races occurs in them, and the theorems name the condition that excludes them.

CVs keep one current CV through every race and fault. What faults leave behind is
exactly a PDF without a row, after an upload that was cut short, and a row without its
PDF, after a delete that failed between the two stores or a commit whose acknowledgement
was lost.

`get_board` puts back default columns that a user deleted (`hiring_backfill`), since it
cannot tell a legacy board from one whose column was removed.

Reorders can deadlock in the database, one of them is then answered 500, and nothing is
left half ordered: reorders of columns end in the order of one of them. A connection
held over a slow download delays the others but no request waits in a circle, because
no lock is held while waiting for a connection.

Migrations are inverse to each other and lose no row. The upgrade to 0006 fails on any
database with nodes, CVs or boards, as `user_id` is NOT NULL and has no default, and the
one to 0007 likewise on child rows; a downgrade takes the owners away, so the next upgrade
fails until those rows are deleted. The downgrade of 0006 is refused as a whole when two
users have a current CV. The head has two indexes of `nodes` (`ix_nodes_parent_id`,
`uq_nodes_root_title`) that the models do not declare. 0004 drops `content_md` of the nodes
without copying it.

## 6. Plan and limits

Done: every component with state of its own, and a theorem for every safety property of
the passing runs.

Not modelled: authentication (stateless tokens of a library; the models start from the
user id a valid token names), deployment (shell scripts under a file lock, which run the
migrations before the new release), the creation of the bucket at startup, request parsing
and settings, logging. The node tree view is modelled up to the order of siblings.
