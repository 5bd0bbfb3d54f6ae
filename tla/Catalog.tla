------------------------------- MODULE Catalog -------------------------------
(***************************************************************************)
(* The topper's registry of what its API may touch (internal/catalog):     *)
(* which tables and views exist, in which mode, and which of their columns *)
(* are exposed.  It is built once, at start-up, from what the database     *)
(* shows then; a request is only ever checked against it.                  *)
(*                                                                         *)
(* A database schema is a function from <<schema, table>> to a description *)
(* [base, columns, pk]: whether it is a base table, its columns in order,  *)
(* each [name, udt, generated], and the columns of its primary key.  A SQL *)
(* predicate written in the code is a condition of Grammar.                *)
(*                                                                         *)
(* A catalog.Spec is [readTables, writeTables, denied, views]; a view of it *)
(* is [name, from, reads, columns, defaultOrder, tiebreak, forced, toggles]: *)
(* from holds the table it filters, or nothing, and then reads holds the    *)
(* tables its SELECT names and columns what describe finds of its columns.  *)
(***************************************************************************)
EXTENDS Sequences, FiniteSets, SequencesExt

TextTypes == {"text", "varchar", "bpchar", "name", "citext"}

(* loadColumns and classify: what of a column's type matters to a request. *)
LoadColumn(col) ==
  [name |-> col.name, textLike |-> col.udt \in TextTypes,
   writable |-> ~col.generated, denied |-> FALSE]

(* Lookups of a relation. *)
ColumnNames(rel) == {rel.columns[i].name : i \in DOMAIN rel.columns}
ColumnOf(rel, name) ==
  rel.columns[CHOOSE i \in DOMAIN rel.columns : rel.columns[i].name = name]
IsColumn(rel, name) == name \in ColumnNames(rel)   \* mutant: denied ones as well
IsExposed(rel, name) == name \in ColumnNames(rel) /\ ~ColumnOf(rel, name).denied
HasToggle(rel, key) == \E i \in DOMAIN rel.toggles : rel.toggles[i].key = key

(* NewRelation: column names are unique, and rows can be ordered by what   *)
(* the API shows of them.  A relation that fails is no relation.           *)
NewRelation(rel) ==
  IF /\ \A i, j \in DOMAIN rel.columns : rel.columns[i].name = rel.columns[j].name => i = j
     /\ \A i \in DOMAIN rel.defaultOrder : IsExposed(rel, rel.defaultOrder[i].col)
     /\ \A i \in DOMAIN rel.tiebreak : IsExposed(rel, rel.tiebreak[i])
  THEN {rel}
  ELSE {}

(* loadTable.  A denied column the table does not have is not an error.    *)
LoadTable(schema, place, mode, denied) ==
  IF /\ place \in DOMAIN schema
     /\ schema[place].base /\ schema[place].columns # <<>>
  THEN LET t == schema[place]
           Flag(col) == [LoadColumn(col) EXCEPT !.denied = col.name \in denied]
       IN NewRelation([kind |-> "table", mode |-> mode, source |-> place,
                       columns |-> [i \in DOMAIN t.columns |-> Flag(t.columns[i])],
                       pk |-> t.pk, tiebreak |-> t.pk, defaultOrder |-> <<>>,
                       forced |-> <<>>, toggles |-> <<>>,
                       cacheable |-> mode = "read"])
  ELSE {}

(* loadView: a filtered form of a read table, or a SELECT whose columns    *)
(* the database describes (describe), which it does not for a table that   *)
(* is not there.                                                           *)
ViewOver(spec, source, columns, pk, tiebreak) ==
  NewRelation([kind |-> "view", mode |-> "read", source |-> source, columns |-> columns,
               pk |-> pk, tiebreak |-> tiebreak, defaultOrder |-> spec.defaultOrder,
               forced |-> spec.forced, toggles |-> spec.toggles, cacheable |-> TRUE])

LoadView(schema, tables, spec) ==
  LET Filtered(base) == ViewOver(spec, base.source, base.columns, base.pk,
                                 IF spec.tiebreak = <<>> THEN base.pk ELSE spec.tiebreak)
      Described == ViewOver(spec, <<"view", spec.name>>,
                            [i \in DOMAIN spec.columns |-> LoadColumn(spec.columns[i])],
                            <<>>, spec.tiebreak)
  IN IF spec.from # {}
     THEN UNION {Filtered(tables[t]) : t \in {t \in spec.from \cap DOMAIN tables :
                                                tables[t].mode = "read"}}
     ELSE IF spec.reads \subseteq DOMAIN schema THEN Described ELSE {}

(* No view shows a column under the name of one that is denied anywhere    *)
(* (Load, after each view).                                                *)
HidesDenied(rel, deniedNames) ==
  \A i \in DOMAIN rel.columns :
    rel.columns[i].name \in deniedNames => rel.columns[i].denied

(* The tables and views of spec that load: each is there, or is not, in a  *)
(* set.                                                                    *)
DeniedOf(spec, t) == IF t \in DOMAIN spec.denied THEN spec.denied[t] ELSE {}
DeniedNames(spec) == UNION {spec.denied[t] : t \in DOMAIN spec.denied}
TableNames(spec) == spec.readTables \cup spec.writeTables

LoadNamed(schema, spec, t) ==
  IF t \in spec.readTables
  THEN LoadTable(schema, <<"public", t>>, "read", DeniedOf(spec, t))
  ELSE LoadTable(schema, <<"topper", t>>, "readwrite", {})

LoadTables(schema, spec) ==
  [t \in {t \in TableNames(spec) : LoadNamed(schema, spec, t) # {}} |->
     CHOOSE r \in LoadNamed(schema, spec, t) : TRUE]

LoadViews(schema, spec, view) ==
  {r \in LoadView(schema, LoadTables(schema, spec), view) : HidesDenied(r, DeniedNames(spec))}

(* Load: every table and view of spec, or nothing: any problem is fatal.   *)
Loadable(schema, spec) ==
  /\ DOMAIN LoadTables(schema, spec) = TableNames(spec)
  /\ spec.readTables \cap spec.writeTables = {}
  /\ \A i, j \in DOMAIN spec.views : spec.views[i].name = spec.views[j].name => i = j
  /\ \A i \in DOMAIN spec.views : LoadViews(schema, spec, spec.views[i]) # {}

Load(schema, spec) ==
  LET Named(n) == {spec.views[i] : i \in {i \in DOMAIN spec.views : spec.views[i].name = n}}
  IN IF Loadable(schema, spec)
     THEN {[tables |-> LoadTables(schema, spec),
            views |-> [n \in {spec.views[i].name : i \in DOMAIN spec.views} |->
                         CHOOSE r \in UNION {LoadViews(schema, spec, v) : v \in Named(n)} : TRUE]]}
     ELSE {}
===============================================================================
