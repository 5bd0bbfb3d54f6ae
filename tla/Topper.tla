------------------------------- MODULE Topper -------------------------------
(***************************************************************************)
(* The topper service (postgres-topper/cmd/topper, internal/api,           *)
(* internal/auth, internal/store): it waits for plaidsync's tables, loads  *)
(* its catalog once, and serves reads, upserts and deletes of concurrent   *)
(* clients until it is told to stop.  Reads are live here: the response    *)
(* cache is the module TopperCache.                                        *)
(*                                                                         *)
(* Postgres runs READ COMMITTED transactions: a statement sees what is     *)
(* committed and what its own transaction wrote; it waits for a row that   *)
(* another transaction has written, and Postgres aborts one of those that  *)
(* wait for each other.                                                    *)
(***************************************************************************)
EXTENDS Statements

CONSTANTS Clients,
          Requests,      \* what a client may send: [token, method, place, query, body]
          MaxSent,       \* bound on the requests of a client
          Keys,          \* TOPPER_API_KEYS: a function from tokens to scopes
          CatalogSpec,   \* catalog.Spec, but for WriteTables
          Schema,        \* Schema[v]: public after plaidsync's migration v
          Sentinel,      \* the migration that creates plaidSentinelTable
          Created,       \* schema topper after Migrate
          WriteTables,   \* values of TOPPER_WRITE_TABLES
          Public,        \* Public[s]: rows of the read relations, by source, under secrets s
          Contents,      \* what schema topper may hold at first
          Defaults,      \* by table: the values of what an insert leaves out
          Valid(_)       \* the constraints on a row, each about one column

-----------------------------------------------------------------------------
(* What the repository says of the constants *)

(* A value is a number: of a value of any type, a request asks only whether *)
(* it equals another or is below it, or what Like says.                     *)
Value == Int \cup {NULL}
ASSUME NullAssumption == NULL \notin Int

NamesIn(columns) == {columns[i].name : i \in DOMAIN columns}
Distinct(columns) == \A i, j \in DOMAIN columns : columns[i].name = columns[j].name => i = j
CodeColumns(view) ==
  {view.forced[i].col : i \in DOMAIN view.forced}
    \cup {view.toggles[i].whenOff.col : i \in DOMAIN view.toggles}
Views == {CatalogSpec.views[i] : i \in DOMAIN CatalogSpec.views}
ReadPlaces == {"public"} \X CatalogSpec.readTables

IsTable(table) ==
  table.base /\ table.columns # <<>> /\ Distinct(table.columns)
    /\ table.pk \in Seq(NamesIn(table.columns))
Identify(rows, names) == \A r, s \in rows : (\A n \in names : r[n] = s[n]) => r = s

(* plaidsync's last migration creates what the topper reads, with a primary *)
(* key that is not denied (PlaidTables, PlaidDenylist).                     *)
ASSUME SchemaAssumption ==
  /\ Sentinel \in Nat
  /\ \A p \in DOMAIN Schema[Sentinel] : p[1] # "topper"
  /\ \A p \in ReadPlaces :
       /\ p \in DOMAIN Schema[Sentinel] /\ IsTable(Schema[Sentinel][p])
       /\ ToSet(Schema[Sentinel][p].pk) \cap DeniedOf(CatalogSpec, p[2]) = {}

(* The topper's migrations: each table has a primary key, which the caller  *)
(* supplies (00002_insights.sql, 00003_categories.sql).                     *)
ASSUME CreatedAssumption ==
  /\ DOMAIN Created \cap CatalogSpec.readTables = {}
  /\ \A t \in DOMAIN Created :
       /\ IsTable(Created[t]) /\ Created[t].pk # <<>>
       /\ Defaults[t] \in [NamesIn(Created[t].columns) -> Value]
       /\ \A s \in Contents :
            /\ t \in DOMAIN s /\ IsFiniteSet(s[t])
            /\ \A row \in s[t] : row \in [NamesIn(Created[t].columns) -> Value]
            /\ Identify(s[t], ToSet(Created[t].pk))

(* The places a view reads, the columns it shows, and the source of its rows *)
(* (views.All).                                                              *)
Shown(p) == NamesIn(Schema[Sentinel][p].columns) \ DeniedOf(CatalogSpec, p[2])
SourceOf(view) ==
  IF view.from = {} THEN <<"view", view.name>> ELSE <<"public", CHOOSE t \in view.from : TRUE>>
ShownBy(view) == IF view.from = {} THEN NamesIn(view.columns) ELSE Shown(SourceOf(view))

(* The views: their names differ, what they order and filter by they show,  *)
(* and none shows a column with the name of a denied one.                   *)
ASSUME ViewsAssumption ==
  /\ Distinct(CatalogSpec.views)
  /\ \A view \in Views :
       /\ view.defaultOrder \in Seq([col : ShownBy(view), desc : BOOLEAN])
       /\ view.tiebreak \in Seq(ShownBy(view)) /\ CodeColumns(view) \subseteq ShownBy(view)
       /\ ShownBy(view) \cap DeniedNames(CatalogSpec) = {}
       /\ view.from = {} => /\ view.reads \subseteq DOMAIN Schema[Sentinel] \cup ({"topper"} \X DOMAIN Created)
                            /\ Distinct(view.columns)
       /\ view.from # {} =>
            \E t \in CatalogSpec.readTables :
              /\ view.from = {t}
              /\ NamesIn(Schema[Sentinel][<<"public", t>>].columns) \cap DeniedNames(CatalogSpec)
                   \subseteq DeniedOf(CatalogSpec, t)

(* The rows of plaidsync's tables and of the views' SELECTs: under other     *)
(* secrets they are the same rows but for the denied columns, which no       *)
(* SELECT of a view reads; a primary key or a tiebreak tells rows apart.     *)
SameButDenied(rows, others, names) ==
  \E f \in Bijection(rows, others) : \A row \in rows, n \in names : f[row][n] = row[n]

ASSUME PublicAssumption ==
  /\ \A s, t \in DOMAIN Public :
       /\ \A p \in ReadPlaces : SameButDenied(Public[s][p], Public[t][p], Shown(p))
       /\ \A view \in Views : view.from = {} =>
            SameButDenied(Public[s][SourceOf(view)], Public[t][SourceOf(view)], ShownBy(view))
  /\ \A s \in DOMAIN Public :
       /\ \A p \in ReadPlaces :
            /\ IsFiniteSet(Public[s][p])
            /\ \A row \in Public[s][p], n \in Shown(p) : row[n] \in Value
            /\ Schema[Sentinel][p].pk # <<>> => Identify(Public[s][p], ToSet(Schema[Sentinel][p].pk))
       /\ \A view \in Views :
            /\ IsFiniteSet(Public[s][SourceOf(view)])
            /\ \A row \in Public[s][SourceOf(view)], n \in ShownBy(view) : row[n] \in Value
            /\ view.tiebreak # <<>> => Identify(Public[s][SourceOf(view)], ToSet(view.tiebreak))

(* A body is a list of rows of JSON values. *)
ASSUME RequestsAssumption ==
  \A r \in Requests :
    /\ r.body \in Seq(ToSet(r.body))
    /\ \A row \in ToSet(r.body) : \A n \in DOMAIN row : row[n] \in Value

-----------------------------------------------------------------------------
VARIABLES version,   \* plaidsync's last migration
          proc,      \* where run() is
          late,      \* TOPPER_STARTUP_WAIT has passed
          signals,   \* how many signals the process got
          tables,    \* WriteTables of this process
          secrets,   \* the contents of the denied columns
          catalog,   \* plaidsync's migration the catalog was loaded after, in a set
          stored,    \* the committed rows, by table of schema topper
          req,       \* each client's request
          tx,        \* what each has written and not committed: by key, the row or no row, in a set
          merged     \* history: the rows all committed requests should have left

vars == <<version, proc, late, signals, tables, secrets, catalog, stored, req, tx, merged>>
process == <<version, proc, late, signals, tables, secrets, catalog>>

Idle(n) == [pc |-> "idle", sent |-> n]
NoWrites == [k \in {} |-> {}]
Put(f, k, v) == [x \in DOMAIN f \cup {k} |-> IF x = k THEN v ELSE f[x]]

Init ==
  /\ version \in 0..Sentinel
  /\ proc = "waiting" /\ late = FALSE /\ signals = 0
  /\ tables \in WriteTables /\ secrets \in DOMAIN Public
  /\ catalog = {}
  /\ stored \in Contents
  /\ req = [c \in Clients |-> Idle(0)]
  /\ tx = [c \in Clients |-> NoWrites]
  /\ merged = stored

-----------------------------------------------------------------------------
(* run() *)

Running == proc \notin {"exited", "failed", "badCatalog"}
Starts(stage, next) == proc = stage /\ proc' \in {"failed"} \cup {p \in {next} : signals = 0}
NoRequest == UNCHANGED <<stored, req, tx, merged>>

(* WaitForPlaidSchema: no answer of the database counts as no table.       *)
SeenEarly == version >= 1   \* mutant: a table of an earlier migration
Seen == version >= Sentinel

Poll ==
  /\ proc = "waiting"
  /\ \/ signals = 0 /\ Seen /\ proc' = "checking"
     \/ proc' = IF late \/ signals > 0 THEN "failed" ELSE "waiting"
  /\ UNCHANGED <<version, late, signals, tables, secrets, catalog>> /\ NoRequest

(* RequireTopperSchema, Migrate and MigrationVersion, each of which fails   *)
(* with the database or the context.                                        *)
Prepare ==
  /\ Starts("checking", "migrating") \/ Starts("migrating", "loading")
  /\ UNCHANGED <<version, late, signals, tables, secrets, catalog>> /\ NoRequest

(* Load, Listen: the catalog is what the database shows now.                *)
Database(v) ==
  [p \in DOMAIN Schema[v] \cup ({"topper"} \X DOMAIN Created) |->
     IF p \in DOMAIN Schema[v] THEN Schema[v][p] ELSE Created[p[2]]]
SpecWith(ts) ==
  [readTables |-> CatalogSpec.readTables, writeTables |-> ts,
   denied |-> CatalogSpec.denied, views |-> CatalogSpec.views]
Loads == [v \in 0..Sentinel |-> [ts \in WriteTables |-> Load(Database(v), SpecWith(ts))]]

LoadCatalog ==
  /\ proc = "loading"
  /\ \/ proc' = "failed" /\ UNCHANGED catalog
     \/ /\ signals = 0
        /\ proc' = IF Loads[version][tables] = {} THEN "badCatalog" ELSE "serving"
        /\ catalog' = {version}
  /\ UNCHANGED <<version, late, signals, tables, secrets>> /\ NoRequest

PlaidMigrates ==
  /\ version < Sentinel /\ version' = version + 1
  /\ UNCHANGED <<proc, late, signals, tables, secrets, catalog>> /\ NoRequest

StartupWaitPasses ==
  /\ proc = "waiting" /\ ~late /\ late' = TRUE
  /\ UNCHANGED <<version, proc, signals, tables, secrets, catalog>> /\ NoRequest

(* The first signal cancels the context; the second ends the process, and   *)
(* Postgres rolls back what was open.                                       *)
Signal ==
  /\ Running /\ signals < 2 /\ signals' = signals + 1
  /\ proc' = IF signals = 1 THEN "exited" ELSE IF proc = "serving" THEN "draining" ELSE proc
  /\ IF signals = 1
     THEN /\ tx' = [c \in Clients |-> NoWrites]
          /\ req' = [c \in Clients |-> Idle(req[c].sent)]
     ELSE UNCHANGED <<tx, req>>
  /\ UNCHANGED <<version, late, tables, secrets, catalog, stored, merged>>

Active(c) == req[c].pc # "idle"

(* Shutdown waits for the requests until TOPPER_SHUTDOWN_TIMEOUT; then      *)
(* Close ends their connections, which cancels them.  Store.Close waits for *)
(* the connections of the pool.                                             *)
ShutdownTimeout ==
  /\ proc = "draining" /\ \E c \in Clients : Active(c)
  /\ proc' = "cut"
  /\ UNCHANGED <<version, late, signals, tables, secrets, catalog>> /\ NoRequest

Exit ==
  /\ proc \in {"draining", "cut"} /\ \A c \in Clients : ~Active(c)
  /\ proc' = "exited"
  /\ UNCHANGED <<version, late, signals, tables, secrets, catalog>> /\ NoRequest

-----------------------------------------------------------------------------
(* A request until it reaches the database *)

Cat == CHOOSE k \in Loads[CHOOSE v \in catalog : TRUE][tables] : TRUE

(* Allows *)
Allows(scope, method) == scope = "readwrite" \/ method = "GET"

(* handleTable and handleView: place is <<"table" or "view", name>>.        *)
Relations(place) ==
  LET known == IF place[1] = "view" THEN Cat.views ELSE Cat.tables
  IN IF place[2] \in DOMAIN known THEN {known[place[2]]} ELSE {}
Rel(r) == CHOOSE rel \in Relations(r.place) : TRUE

Methods(rel) == IF rel.mode = "readwrite" THEN {"GET", "POST", "DELETE"} ELSE {"GET"}

BodyOK(rel, body) == body # <<>> /\ \A i \in DOMAIN body : UpsertOK(rel, body[i])

WellFormed(rel, r) ==
  IF r.method = "POST" THEN BodyOK(rel, r.body)
  ELSE \E p \in Parse(rel, r.query) : r.method = "DELETE" => DeleteOK(p)

(* Middleware, dispatch, Parse, decodeRows and BuildUpsert for every row,   *)
(* BuildDelete: whether a request goes to the database, or is answered with  *)
(* 401, 403, 404, 405 or 400 without.                                        *)
Admitted(r) ==
  /\ r.token \in DOMAIN Keys
  /\ Allows(Keys[r.token], r.method)
  /\ \E rel \in Relations(r.place) : r.method \in Methods(rel) /\ WellFormed(rel, r)

Params(r) == IF r.method = "POST" THEN [select |-> {}] ELSE CHOOSE p \in Parse(Rel(r), r.query) : TRUE

Receive(c, r) ==
  /\ proc = "serving" /\ ~Active(c) /\ req[c].sent < MaxSent
  /\ LET sent == req[c].sent + 1
     IN req' = [req EXCEPT ![c] =
          IF ~Admitted(r) THEN Idle(sent)
          ELSE [pc |-> r.method, sent |-> sent, status |-> 0, r |-> r, rel |-> Rel(r),
                p |-> Params(r), left |-> r.body, wrote |-> <<>>, data |-> <<>>]]
  /\ UNCHANGED <<stored, tx, merged>> /\ UNCHANGED process

Name(c) == req[c].r.place[2]
Relation(c) == req[c].rel

(* The answer, and the end of the transaction. *)
Answer(c, status) ==
  /\ req' = [req EXCEPT ![c] = [@ EXCEPT !.pc = "answered", !.status = status]]
  /\ tx' = [tx EXCEPT ![c] = NoWrites]

(* The client has its answer. *)
Close(c) ==
  /\ Active(c) /\ req[c].pc = "answered"
  /\ req' = [req EXCEPT ![c] = Idle(@.sent)]
  /\ UNCHANGED <<stored, tx, merged>> /\ UNCHANGED process

-----------------------------------------------------------------------------
(* Statements *)

RowsOf(rel) == IF rel.mode = "readwrite" THEN stored[rel.source[2]] ELSE Public[secrets][rel.source]

(* readBody; COUNT is a statement of its own. *)
Read(c) ==
  /\ req[c].pc = "GET"
  /\ \E data \in Select(Relation(c), req[c].p, RowsOf(Relation(c))) :
       req' = [req EXCEPT ![c].data = data,
                          ![c].pc = IF req[c].p.count THEN "COUNT" ELSE "answered",
                          ![c].status = 200]
  /\ UNCHANGED <<stored, tx, merged>> /\ UNCHANGED process

Count(c) ==
  /\ req[c].pc = "COUNT"
  /\ req' = [req EXCEPT ![c].pc = "answered",
       ![c].left = <<Total(Relation(c), req[c].p, RowsOf(Relation(c)))>>]
  /\ UNCHANGED <<stored, tx, merged>> /\ UNCHANGED process

KeyOf(rel, row) == [n \in ToSet(rel.pk) |-> row[n]]
LockedBy(c, k) == {d \in Clients \ {c} : k \in DOMAIN tx[d] /\ Name(d) = Name(c)}
WithKey(rel, rows, k) == {row \in rows : KeyOf(rel, row) = k}

(* What the transaction of c sees under a key. *)
SeenBy(c, k) ==
  IF k \in DOMAIN tx[c] THEN tx[c][k] ELSE WithKey(Relation(c), stored[Name(c)], k)

(* INSERT ... ON CONFLICT DO UPDATE, or DO NOTHING, or, without the key, an  *)
(* INSERT that a key without a default fails.  The constraints are checked   *)
(* on the row to insert before a conflict is looked for, so a row that is    *)
(* there does not make up for a column that is left out.                     *)
Proposed(c) == Inserted(Relation(c), Head(req[c].left), Defaults[Name(c)])
Insertable(c) == HasKey(Relation(c), Head(req[c].left)) /\ Valid(Proposed(c))
NextKey(c) == KeyOf(Relation(c), Head(req[c].left))

Upsert(c) ==
  /\ req[c].pc = "POST" /\ req[c].left # <<>>
  /\ Insertable(c) /\ LockedBy(c, NextKey(c)) = {}
  /\ LET rel == Relation(c)
         given == Head(req[c].left)
         old == SeenBy(c, NextKey(c))
         row == IF old = {} THEN Proposed(c) ELSE Merged(rel, given, CHOOSE o \in old : TRUE)
     IN  IF KeyOnly(rel, given) /\ old # {}
         THEN req' = [req EXCEPT ![c].left = Tail(@)] /\ UNCHANGED tx
         ELSE /\ tx' = [tx EXCEPT ![c] = Put(@, NextKey(c), {row})]
              /\ req' = [req EXCEPT ![c].left = Tail(@), ![c].wrote = Append(@, given),
                                    ![c].data = Append(@, Project(rel, req[c].p, row))]
  /\ UNCHANGED <<stored, merged>> /\ UNCHANGED process

(* Class 22 and 23 errors (400, 422); the transaction is rolled back.       *)
UpsertFails(c) ==
  /\ req[c].pc = "POST" /\ req[c].left # <<>>
  /\ ~Insertable(c)
  /\ Answer(c, 422)
  /\ UNCHANGED <<stored, merged>> /\ UNCHANGED process

(* DELETE is one statement: its snapshot picks rows, and each is looked at  *)
(* again once nobody else is writing it.                                    *)
Pick(c) ==
  /\ req[c].pc = "DELETE"
  /\ LET rel == Relation(c)
         rows == {row \in stored[Name(c)] : Where(rel, req[c].p, row)}
     IN  \E s \in SetToSeqs({KeyOf(rel, row) : row \in rows}) :
           req' = [req EXCEPT ![c].pc = "deleting", ![c].left = s]
  /\ UNCHANGED <<stored, tx, merged>> /\ UNCHANGED process

Delete(c) ==
  /\ req[c].pc = "deleting" /\ req[c].left # <<>>
  /\ LockedBy(c, Head(req[c].left)) = {}
  /\ LET k == Head(req[c].left)
         rows == {row \in WithKey(Relation(c), stored[Name(c)], k) :
                    Where(Relation(c), req[c].p, row)}
     IN tx' = IF rows = {} THEN tx ELSE [tx EXCEPT ![c] = Put(@, k, {})]
  /\ req' = [req EXCEPT ![c].left = Tail(@)]
  /\ UNCHANGED <<stored, merged>> /\ UNCHANGED process

(* What a commit leaves of a table. *)
Committed(c) ==
  {row \in stored[Name(c)] : KeyOf(Relation(c), row) \notin DOMAIN tx[c]}
    \cup UNION {tx[c][k] : k \in DOMAIN tx[c]}

(* The rows given, laid over those that were there: under each key, a column *)
(* has the value last given for it, else that of the row that was there,     *)
(* else its default.                                                         *)
GivenFor(rel, given, k, n) ==
  {i \in DOMAIN given : KeyOf(rel, given[i]) = k /\ n \in Supplied(rel, given[i])}
Beneath(rel, rows, default, k) == IF WithKey(rel, rows, k) = {} THEN {default} ELSE WithKey(rel, rows, k)
Laid(rel, given, k, row) ==
  [n \in DOMAIN row |-> LET is == GivenFor(rel, given, k, n)
                        IN IF is = {} THEN row[n] ELSE given[Max(is)][n]]
LaidOver(rel, rows, default, given) ==
  LET keys == {KeyOf(rel, given[i]) : i \in DOMAIN given}
  IN {row \in rows : KeyOf(rel, row) \notin keys}
       \cup UNION {{Laid(rel, given, k, row) : row \in Beneath(rel, rows, default, k)} : k \in keys}

MergedAfter(c) ==
  IF req[c].pc = "deleting"
  THEN {row \in merged[Name(c)] : KeyOf(Relation(c), row) \notin DOMAIN tx[c]}
  ELSE LaidOver(Relation(c), merged[Name(c)], Defaults[Name(c)], req[c].wrote)

(* COMMIT, or the end of the DELETE.  The answer may be lost on the way     *)
(* back: then the client gets an error for what is committed.  A delete     *)
(* that waits passes over what is gone now.                                 *)
EarlyFinished(c) == Len(req[c].left) <= 1   \* mutant: commits before the last statement
Finished(c) == req[c].left = <<>>

Without(keys, gone) == SelectSeq(keys, LAMBDA k : k \notin gone)

Commit(c) ==
  /\ req[c].pc \in {"POST", "deleting"} /\ Finished(c)
  /\ stored' = [stored EXCEPT ![Name(c)] = Committed(c)]
  /\ merged' = [merged EXCEPT ![Name(c)] = MergedAfter(c)]
  /\ LET gone == {k \in DOMAIN tx[c] : tx[c][k] = {}}
         Rest(d) == IF req[d].pc = "deleting" /\ Name(d) = Name(c)
                    THEN [req[d] EXCEPT !.left = Without(@, gone)]
                    ELSE req[d]
     IN \E status \in {200, 500} :
          req' = [d \in Clients |-> IF d = c THEN [req[c] EXCEPT !.pc = "answered", !.status = status]
                                    ELSE Rest(d)]
  /\ tx' = [tx EXCEPT ![c] = NoWrites]
  /\ UNCHANGED process

(* The query timeout (504), a client that hangs up or is cut off (499), a    *)
(* failure of the database, a deadlock among them (500): Classify,           *)
(* writeDBError, and the deferred Rollback.                                  *)
ReadsOnly(c) == req[c].pc \in {"GET", "COUNT"}   \* mutant: no timeout on writes
InDatabase(c) == req[c].pc \in {"GET", "COUNT", "POST", "DELETE", "deleting"}

Abort(c) ==
  /\ InDatabase(c)
  /\ Answer(c, 500)
  /\ UNCHANGED <<stored, merged>> /\ UNCHANGED process

Step(c) ==
  \/ Read(c) \/ Count(c) \/ Upsert(c) \/ UpsertFails(c)
  \/ Pick(c) \/ Delete(c) \/ Commit(c) \/ Close(c)

Startup == Poll \/ Prepare \/ LoadCatalog

Next ==
  \/ Startup \/ PlaidMigrates \/ StartupWaitPasses \/ Signal \/ ShutdownTimeout \/ Exit
  \/ \E c \in Clients : (\E r \in Requests : Receive(c, r)) \/ Step(c) \/ Abort(c)

(* The process and the database go on; time passes.  A context that ends    *)
(* ends the statement under it.                                             *)
Fairness ==
  /\ WF_vars(Startup) /\ WF_vars(StartupWaitPasses) /\ WF_vars(ShutdownTimeout) /\ WF_vars(Exit)
  /\ \A c \in Clients : WF_vars(Step(c)) /\ WF_vars(Abort(c))

Spec == Init /\ [][Next]_vars /\ Fairness

-----------------------------------------------------------------------------
(* Properties *)

Served(c) == req[c].pc = "answered" /\ req[c].status = 200

(* What a client gets from plaidsync's tables and the views is the same     *)
(* whatever the denied columns hold: they are not shown, and neither a      *)
(* filter, an order nor a total tells of them (PlaidDenylist, exposedColumn, *)
(* Projection).                                                             *)
AnswersHideDenied ==
  \A c \in Clients : Served(c) /\ req[c].r.method = "GET" /\ Relation(c).mode = "read" =>
    LET rel == Relation(c)
        p == req[c].p
    IN \A s \in DOMAIN Public :
         /\ req[c].data \in Select(rel, p, Public[s][rel.source])
         /\ p.count => req[c].left = <<Total(rel, p, Public[s][rel.source])>>

(* A page of a relation with a key is determined by its rows and the query: *)
(* pages read one after another neither repeat nor skip a row, however the  *)
(* rows tie in the order asked for (Relation.Tiebreak).                     *)
PagesAreStable ==
  \A c \in Clients : req[c].pc = "GET" =>
    LET rel == Relation(c) IN
    rel.tiebreak # <<>> => Cardinality(Select(rel, req[c].p, RowsOf(rel))) = 1

(* The stored rows are those of the committed requests laid over each other *)
(* in the order of their commits, column by column and each whole: upserts  *)
(* of different columns of a row keep each other's, and one that failed,    *)
(* timed out or was cut off has left nothing (BuildUpsert, handleUpsert).   *)
RowsMergeInCommitOrder == stored = merged

(* An upsert that is answered 200 has stored every row that it was given,   *)
(* and the last row it returns for a key is the row then stored.            *)
AnswersShowWhatIsStored ==
  [][\A c \in Clients : Served(c)' /\ req[c].pc = "POST" =>
       LET rel == Relation(c)
           data == req'[c].data
           LastOfKey(i) == \A j \in (i + 1)..Len(data) : KeyOf(rel, data[i]) # KeyOf(rel, data[j])
       IN /\ \A i \in DOMAIN data : LastOfKey(i) => data[i] \in stored'[Name(c)]
          /\ \A i \in DOMAIN req[c].r.body :
               WithKey(rel, stored'[Name(c)], KeyOf(rel, req[c].r.body[i])) # {}
                 \/ KeyOnly(rel, req[c].r.body[i])]_vars

(* Once the sentinel table has been seen, no table or column of plaidsync   *)
(* is missing when the catalog is loaded, even while plaidsync migrates:    *)
(* only a write table that no migration creates fails the load (comment at  *)
(* plaidSentinelTable).                                                     *)
LoadFailsOnlyForConfig == proc = "badCatalog" => ~(tables \subseteq DOMAIN Created)

(* A process that is told to stop ends, whatever its requests wait for, and *)
(* so does one that waits for a plaidsync that never migrates (serve,       *)
(* WaitForPlaidSchema).                                                     *)
SignalledProcessEnds ==
  /\ signals > 0 ~> ~Running
  /\ proc = "waiting" ~> proc # "waiting"
=============================================================================
