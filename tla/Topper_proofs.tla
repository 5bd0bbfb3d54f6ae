---------------------------- MODULE Topper_proofs ----------------------------
(***************************************************************************)
(* Proofs about the topper: its start and its requests (Topper), and its   *)
(* response cache (TopperCache).                                           *)
(*                                                                         *)
(* The start keeps StartInv: a catalog that is served was loaded from the  *)
(* database with the sentinel in it, and a start that failed to load one   *)
(* had a write table that nothing creates.  So every relation of the       *)
(* catalog is Sound: it shows no denied column, and its order, its key and *)
(* its own conditions are of columns that it shows.                        *)
(*                                                                         *)
(* The requests keep ServeInv: what the tables hold is what the commits    *)
(* merged, no two transactions have written the same key of a table        *)
(* (Apart), and what a transaction has written is what its rows so far,    *)
(* laid over what is stored under the same keys, come to (Laying).  That   *)
(* stays true while others commit, since they cannot touch those keys, and *)
(* at the commit it is what the property asks for.                         *)
(*                                                                         *)
(* A page is a slice of a sorted permutation of the rows.  Two of them     *)
(* whose order is total are one (OneSorted), which makes pages stable;     *)
(* and the rows under other secrets are in a bijection with these that     *)
(* keeps the columns shown, hence conditions, order and projection         *)
(* (TellAlike), which keeps denied columns out of answers.                 *)
(***************************************************************************)
EXTENDS Topper, TopperCache, FiniteSetTheorems, SequenceTheorems, WellFoundedInduction, TLAPS

-----------------------------------------------------------------------------
(* The catalog *)

LEMMA LoadsAre ==
  ASSUME NEW v \in 0..Sentinel, NEW ts \in WriteTables
  PROVE  Loads[v][ts] = Load(Database(v), SpecWith(ts))
BY DEF Loads

(* What loadTable makes of a table that is there. *)
TableRelation(t, place, mode, denied) ==
  [kind |-> "table", mode |-> mode, source |-> place,
   columns |-> [i \in DOMAIN t.columns |->
                  [LoadColumn(t.columns[i]) EXCEPT !.denied = t.columns[i].name \in denied]],
   pk |-> t.pk, tiebreak |-> t.pk, defaultOrder |-> <<>>,
   forced |-> <<>>, toggles |-> <<>>, cacheable |-> mode = "read"]

LEMMA TableColumns ==
  ASSUME NEW t, NEW place, NEW mode, NEW denied
  PROVE  LET rel == TableRelation(t, place, mode, denied)
         IN /\ ColumnNames(rel) = NamesIn(t.columns)
            /\ \A n : IsExposed(rel, n) <=> n \in NamesIn(t.columns) \ denied
            /\ \A i \in DOMAIN rel.columns : rel.columns[i].denied = (rel.columns[i].name \in denied)
<1> DEFINE rel == TableRelation(t, place, mode, denied)
<1>1. /\ DOMAIN rel.columns = DOMAIN t.columns
      /\ \A i \in DOMAIN t.columns : /\ rel.columns[i].name = t.columns[i].name
                                     /\ rel.columns[i].denied = (t.columns[i].name \in denied)
  BY DEF TableRelation, LoadColumn
<1>2. ColumnNames(rel) = NamesIn(t.columns)
  BY <1>1 DEF ColumnNames, NamesIn
<1>3. ASSUME NEW n \in ColumnNames(rel)
      PROVE  ColumnOf(rel, n).denied = (n \in denied)
  BY <1>1 DEF ColumnOf, ColumnNames
<1> QED
  BY <1>1, <1>2, <1>3 DEF IsExposed

LEMMA LoadTableIs ==
  ASSUME NEW schema, NEW place, NEW mode, NEW denied, NEW r \in LoadTable(schema, place, mode, denied)
  PROVE  /\ place \in DOMAIN schema
         /\ r = TableRelation(schema[place], place, mode, denied)
         /\ ToSet(schema[place].pk) \subseteq NamesIn(schema[place].columns) \ denied
<1>1. place \in DOMAIN schema
  BY DEF LoadTable
<1>2. r = TableRelation(schema[place], place, mode, denied)
  BY DEF LoadTable, TableRelation, NewRelation
<1>3. \A i \in DOMAIN r.tiebreak : IsExposed(r, r.tiebreak[i])
  BY DEF LoadTable, NewRelation
<1>4. r.tiebreak = schema[place].pk
  BY <1>2 DEF TableRelation
<1> QED
  BY <1>1, <1>2, <1>3, <1>4, TableColumns DEF ToSet

LEMMA TableLoads ==
  ASSUME NEW schema, NEW place \in DOMAIN schema, NEW mode, NEW denied,
         IsTable(schema[place]), ToSet(schema[place].pk) \cap denied = {}
  PROVE  LoadTable(schema, place, mode, denied) = {TableRelation(schema[place], place, mode, denied)}
<1> DEFINE t == schema[place]
           rel == TableRelation(t, place, mode, denied)
<1>1. /\ t.base /\ t.columns # <<>> /\ Distinct(t.columns)
      /\ \A i \in DOMAIN t.pk : t.pk[i] \in NamesIn(t.columns) \ denied
  BY DEF IsTable, ToSet
<1>2. \A i, j \in DOMAIN rel.columns : rel.columns[i].name = rel.columns[j].name => i = j
  BY <1>1 DEF TableRelation, LoadColumn, Distinct
<1>3. rel.defaultOrder = <<>> /\ rel.tiebreak = t.pk
  BY DEF TableRelation
<1>4. \A i \in DOMAIN rel.tiebreak : IsExposed(rel, rel.tiebreak[i])
  BY <1>1, <1>3, TableColumns
<1>5. \A i \in DOMAIN rel.defaultOrder : IsExposed(rel, rel.defaultOrder[i].col)
  BY <1>3
<1>6. NewRelation(rel) = {rel}
  BY <1>2, <1>4, <1>5 DEF NewRelation
<1>7. LoadTable(schema, place, mode, denied) = NewRelation(rel)
  BY <1>1 DEF LoadTable, TableRelation
<1> QED
  BY <1>6, <1>7

(* Orders are of columns that are shown. *)
Exposed(rel) == {n \in ColumnNames(rel) : IsExposed(rel, n)}
OrderColumns(view) == {view.defaultOrder[i].col : i \in DOMAIN view.defaultOrder}

LEMMA SeqElements ==
  ASSUME NEW S, NEW s \in Seq(S)
  PROVE  ToSet(s) \subseteq S /\ (\A i \in DOMAIN s : s[i] \in S)
BY DEF ToSet

LEMMA ShownOrder ==
  ASSUME NEW view \in Views
  PROVE  OrderColumns(view) \cup ToSet(view.tiebreak) \subseteq ShownBy(view)
<1>1. /\ view.defaultOrder \in Seq([col : ShownBy(view), desc : BOOLEAN])
      /\ view.tiebreak \in Seq(ShownBy(view))
  BY ViewsAssumption
<1>2. \A i \in DOMAIN view.defaultOrder : view.defaultOrder[i] \in [col : ShownBy(view), desc : BOOLEAN]
  BY <1>1, SeqElements
<1>3. OrderColumns(view) \subseteq ShownBy(view)
  BY <1>2 DEF OrderColumns
<1> QED
  BY <1>1, <1>3, SeqElements

(* What loadView makes of a view over a source. *)
ViewRelation(view, source, columns, pk, tiebreak) ==
  [kind |-> "view", mode |-> "read", source |-> source, columns |-> columns,
   pk |-> pk, tiebreak |-> tiebreak, defaultOrder |-> view.defaultOrder,
   forced |-> view.forced, toggles |-> view.toggles, cacheable |-> TRUE]

LEMMA ViewOverIs ==
  ASSUME NEW view, NEW source, NEW columns, NEW pk, NEW tiebreak
  PROVE  LET rel == ViewRelation(view, source, columns, pk, tiebreak)
         IN /\ \A r \in ViewOver(view, source, columns, pk, tiebreak) :
                 /\ r = rel
                 /\ \A n \in OrderColumns(view) \cup ToSet(tiebreak) : IsExposed(rel, n)
            /\ /\ Distinct(columns)
               /\ \A n \in OrderColumns(view) \cup ToSet(tiebreak) : IsExposed(rel, n)
               => rel \in ViewOver(view, source, columns, pk, tiebreak)
<1> DEFINE rel == ViewRelation(view, source, columns, pk, tiebreak)
<1>1. ViewOver(view, source, columns, pk, tiebreak) = NewRelation(rel)
  BY DEF ViewOver, ViewRelation
<1>2. rel.columns = columns /\ rel.defaultOrder = view.defaultOrder /\ rel.tiebreak = tiebreak
  BY DEF ViewRelation
<1>3. (\A n \in OrderColumns(view) \cup ToSet(tiebreak) : IsExposed(rel, n))
        <=> /\ \A i \in DOMAIN rel.defaultOrder : IsExposed(rel, rel.defaultOrder[i].col)
            /\ \A i \in DOMAIN rel.tiebreak : IsExposed(rel, rel.tiebreak[i])
  BY <1>2 DEF OrderColumns, ToSet
<1> HIDE DEF rel
<1>4. \A r \in NewRelation(rel) :
        r = rel /\ (\A i \in DOMAIN rel.defaultOrder : IsExposed(rel, rel.defaultOrder[i].col))
                /\ (\A i \in DOMAIN rel.tiebreak : IsExposed(rel, rel.tiebreak[i]))
  BY DEF NewRelation
<1>5. /\ Distinct(columns)
      /\ \A i \in DOMAIN rel.defaultOrder : IsExposed(rel, rel.defaultOrder[i].col)
      /\ \A i \in DOMAIN rel.tiebreak : IsExposed(rel, rel.tiebreak[i])
      => rel \in NewRelation(rel)
  BY <1>2 DEF NewRelation, Distinct
<1>6. /\ \A r \in ViewOver(view, source, columns, pk, tiebreak) :
           /\ r = rel
           /\ \A n \in OrderColumns(view) \cup ToSet(tiebreak) : IsExposed(rel, n)
      /\ /\ Distinct(columns)
         /\ \A n \in OrderColumns(view) \cup ToSet(tiebreak) : IsExposed(rel, n)
         => rel \in ViewOver(view, source, columns, pk, tiebreak)
  BY <1>1, <1>3, <1>4, <1>5
<1> QED
  BY <1>6 DEF rel

(* The columns of a view over a SELECT are those it describes, none denied. *)
Described(view) == [i \in DOMAIN view.columns |-> LoadColumn(view.columns[i])]
DescribedRelation(view) == ViewRelation(view, <<"view", view.name>>, Described(view), <<>>, view.tiebreak)

LEMMA DescribedColumns ==
  ASSUME NEW view
  PROVE  LET rel == DescribedRelation(view)
         IN /\ ColumnNames(rel) = NamesIn(view.columns)
            /\ \A n : IsExposed(rel, n) <=> n \in NamesIn(view.columns)
<1> DEFINE rel == DescribedRelation(view)
<1>1. /\ DOMAIN rel.columns = DOMAIN view.columns
      /\ \A i \in DOMAIN view.columns : /\ rel.columns[i].name = view.columns[i].name
                                        /\ rel.columns[i].denied = FALSE
  BY DEF DescribedRelation, ViewRelation, Described, LoadColumn
<1>2. ColumnNames(rel) = NamesIn(view.columns)
  BY <1>1 DEF ColumnNames, NamesIn
<1>3. \A n \in ColumnNames(rel) : ColumnOf(rel, n).denied = FALSE
  BY <1>1 DEF ColumnOf, ColumnNames
<1> QED
  BY <1>1, <1>2, <1>3 DEF IsExposed

(* A view that filters a table shows the table's columns. *)
FilteredRelation(view, base) ==
  ViewRelation(view, base.source, base.columns, base.pk,
               IF view.tiebreak = <<>> THEN base.pk ELSE view.tiebreak)

LEMMA FilteredColumns ==
  ASSUME NEW view, NEW base
  PROVE  LET rel == FilteredRelation(view, base)
         IN /\ rel.columns = base.columns /\ ColumnNames(rel) = ColumnNames(base)
            /\ \A n : IsExposed(rel, n) <=> IsExposed(base, n)
<1> DEFINE rel == FilteredRelation(view, base)
<1>1. rel.columns = base.columns
  BY DEF FilteredRelation, ViewRelation
<1> QED
  BY <1>1 DEF IsExposed, ColumnNames, ColumnOf

LEMMA LoadViewIs ==
  ASSUME NEW schema, NEW loaded, NEW view, NEW r \in LoadView(schema, loaded, view)
  PROVE  /\ view.from = {} => r = DescribedRelation(view)
         /\ view.from # {} =>
              \E t \in view.from \cap DOMAIN loaded :
                loaded[t].mode = "read" /\ r = FilteredRelation(view, loaded[t])
         /\ \A n \in OrderColumns(view) \cup ToSet(r.tiebreak) : IsExposed(r, n)
<1>1. CASE view.from = {}
  <2>1. r \in ViewOver(view, <<"view", view.name>>, Described(view), <<>>, view.tiebreak)
    BY <1>1 DEF LoadView, Described
  <2>4. r = ViewRelation(view, <<"view", view.name>>, Described(view), <<>>, view.tiebreak)
    BY <2>1, ViewOverIs
  <2>2. r = DescribedRelation(view) /\ r.tiebreak = view.tiebreak
    BY <2>4 DEF DescribedRelation, ViewRelation
  <2>3. \A n \in OrderColumns(view) \cup ToSet(view.tiebreak) : IsExposed(r, n)
    BY <2>1, <2>2, ViewOverIs DEF DescribedRelation
  <2> QED
    BY <1>1, <2>2, <2>3
<1>2. CASE view.from # {}
  <2>1. PICK t \in view.from \cap DOMAIN loaded :
          /\ loaded[t].mode = "read"
          /\ r \in ViewOver(view, loaded[t].source, loaded[t].columns, loaded[t].pk,
                            IF view.tiebreak = <<>> THEN loaded[t].pk ELSE view.tiebreak)
    BY <1>2 DEF LoadView
  <2> DEFINE tb == IF view.tiebreak = <<>> THEN loaded[t].pk ELSE view.tiebreak
  <2>2. r = FilteredRelation(view, loaded[t])
    BY <2>1, ViewOverIs DEF FilteredRelation
  <2>3. r.tiebreak = tb
    BY <2>2 DEF FilteredRelation, ViewRelation
  <2>4. \A n \in OrderColumns(view) \cup ToSet(tb) : IsExposed(r, n)
    BY <2>1, <2>2, ViewOverIs DEF FilteredRelation
  <2> QED
    BY <1>2, <2>1, <2>2, <2>3, <2>4
<1> QED
  BY <1>1, <1>2

LEMMA LoadedIs ==
  ASSUME NEW schema, NEW spec, NEW k \in Load(schema, spec)
  PROVE  /\ Loadable(schema, spec) /\ k.tables = LoadTables(schema, spec)
         /\ \A t \in DOMAIN k.tables : t \in TableNames(spec) /\ k.tables[t] \in LoadNamed(schema, spec, t)
         /\ \A n \in DOMAIN k.views : \E i \in DOMAIN spec.views :
              spec.views[i].name = n /\ k.views[n] \in LoadViews(schema, spec, spec.views[i])
<1> DEFINE Named(n) == {spec.views[i] : i \in {i \in DOMAIN spec.views : spec.views[i].name = n}}
           Found(n) == UNION {LoadViews(schema, spec, v) : v \in Named(n)}
           names == {spec.views[i].name : i \in DOMAIN spec.views}
<1>1. Loadable(schema, spec)
  BY DEF Load
<1>2. k = [tables |-> LoadTables(schema, spec), views |-> [n \in names |-> CHOOSE r \in Found(n) : TRUE]]
  BY DEF Load
<1>3. \A t \in DOMAIN LoadTables(schema, spec) :
        t \in TableNames(spec) /\ LoadTables(schema, spec)[t] \in LoadNamed(schema, spec, t)
  BY DEF LoadTables
<1>4. ASSUME NEW n \in names
      PROVE  \E i \in DOMAIN spec.views :
               spec.views[i].name = n /\ (CHOOSE r \in Found(n) : TRUE) \in LoadViews(schema, spec, spec.views[i])
  <2>1. PICK i \in DOMAIN spec.views : spec.views[i].name = n
    OBVIOUS
  <2>2. LoadViews(schema, spec, spec.views[i]) # {}
    BY <1>1 DEF Loadable
  <2>3. Found(n) # {}
    BY <2>1, <2>2
  <2>4. (CHOOSE r \in Found(n) : TRUE) \in Found(n)
    BY <2>3
  <2> QED
    BY <2>4
<1> QED
  BY <1>1, <1>2, <1>3, <1>4

(* The relations that serve what plaidsync keeps, and those of the topper's *)
(* own tables.                                                              *)
Final(p) == Schema[Sentinel][p]
ReadTable(p) == TableRelation(Final(p), p, "read", DeniedOf(CatalogSpec, p[2]))
WriteTable(t) == TableRelation(Created[t], <<"topper", t>>, "readwrite", {})

LEMMA DatabaseHas ==
  /\ DOMAIN Database(Sentinel) = DOMAIN Schema[Sentinel] \cup ({"topper"} \X DOMAIN Created)
  /\ \A p \in DOMAIN Schema[Sentinel] : Database(Sentinel)[p] = Final(p)
  /\ \A t : <<"topper", t>> \in DOMAIN Database(Sentinel) => t \in DOMAIN Created
  /\ \A t \in DOMAIN Created : /\ <<"topper", t>> \in DOMAIN Database(Sentinel)
                               /\ Database(Sentinel)[<<"topper", t>>] = Created[t]
<1>1. \A t : <<"topper", t>> \notin DOMAIN Schema[Sentinel]
  BY SchemaAssumption
<1> QED
  BY <1>1 DEF Database, Final

LEMMA SpecIs ==
  ASSUME NEW ts
  PROVE  /\ SpecWith(ts).readTables = CatalogSpec.readTables /\ SpecWith(ts).writeTables = ts
         /\ SpecWith(ts).views = CatalogSpec.views
         /\ TableNames(SpecWith(ts)) = CatalogSpec.readTables \cup ts
         /\ DeniedNames(SpecWith(ts)) = DeniedNames(CatalogSpec)
         /\ \A t : DeniedOf(SpecWith(ts), t) = DeniedOf(CatalogSpec, t)
BY DEF SpecWith, TableNames, DeniedNames, DeniedOf

LEMMA ReadPlaceIs ==
  ASSUME NEW t \in CatalogSpec.readTables
  PROVE  /\ <<"public", t>> \in ReadPlaces /\ <<"public", t>> \in DOMAIN Schema[Sentinel]
         /\ IsTable(Final(<<"public", t>>))
         /\ ToSet(Final(<<"public", t>>).pk) \cap DeniedOf(CatalogSpec, t) = {}
<1>1. <<"public", t>> \in ReadPlaces /\ <<"public", t>>[2] = t
  BY DEF ReadPlaces
<1> QED
  BY <1>1, SchemaAssumption DEF Final

LEMMA NamedRead ==
  ASSUME NEW ts, NEW t \in CatalogSpec.readTables
  PROVE  LoadNamed(Database(Sentinel), SpecWith(ts), t) = {ReadTable(<<"public", t>>)}
<1> DEFINE p == <<"public", t>>
<1>1. p \in DOMAIN Database(Sentinel) /\ Database(Sentinel)[p] = Final(p)
  BY ReadPlaceIs, DatabaseHas
<1>2. LoadTable(Database(Sentinel), p, "read", DeniedOf(CatalogSpec, t))
        = {TableRelation(Final(p), p, "read", DeniedOf(CatalogSpec, t))}
  BY <1>1, ReadPlaceIs, TableLoads
<1>3. p[2] = t
  OBVIOUS
<1> QED
  BY <1>2, <1>3, SpecIs DEF LoadNamed, ReadTable

LEMMA NamedWrite ==
  ASSUME NEW ts, NEW t \in DOMAIN Created
  PROVE  LoadNamed(Database(Sentinel), SpecWith(ts), t) = {WriteTable(t)}
<1>1. t \notin CatalogSpec.readTables /\ IsTable(Created[t])
  BY CreatedAssumption
<1>2. LoadTable(Database(Sentinel), <<"topper", t>>, "readwrite", {}) = {WriteTable(t)}
  BY <1>1, DatabaseHas, TableLoads DEF WriteTable
<1> QED
  BY <1>1, <1>2, SpecIs DEF LoadNamed

LEMMA NamedIs ==
  ASSUME NEW ts, NEW t \in CatalogSpec.readTables \cup ts,
         NEW r \in LoadNamed(Database(Sentinel), SpecWith(ts), t)
  PROVE  IF t \in CatalogSpec.readTables THEN r = ReadTable(<<"public", t>>)
         ELSE t \in DOMAIN Created /\ r = WriteTable(t)
<1>1. CASE t \in CatalogSpec.readTables
  BY <1>1, NamedRead
<1>2. CASE t \notin CatalogSpec.readTables
  <2>1. r \in LoadTable(Database(Sentinel), <<"topper", t>>, "readwrite", {})
    BY <1>2, SpecIs DEF LoadNamed
  <2>2. <<"topper", t>> \in DOMAIN Database(Sentinel)
    BY <2>1, LoadTableIs
  <2>3. t \in DOMAIN Created
    BY <2>2, DatabaseHas
  <2> QED
    BY <1>2, <2>3, NamedWrite
<1> QED
  BY <1>1, <1>2

LEMMA ReadTableIs ==
  ASSUME NEW t \in CatalogSpec.readTables
  PROVE  LET p == <<"public", t>>
             rel == ReadTable(p)
         IN /\ rel.mode = "read" /\ rel.source = p /\ rel.pk = Final(p).pk /\ rel.tiebreak = Final(p).pk
            /\ rel.defaultOrder = <<>> /\ rel.forced = <<>> /\ rel.toggles = <<>>
            /\ \A n : IsExposed(rel, n) <=> n \in Shown(p)
            /\ rel.pk \in Seq(Shown(p)) /\ ToSet(rel.pk) \subseteq Shown(p)
            /\ ColumnNames(rel) = NamesIn(Final(p).columns)
            /\ \A i \in DOMAIN rel.columns : rel.columns[i].denied
                 = (rel.columns[i].name \in DeniedOf(CatalogSpec, t))
<1> DEFINE p == <<"public", t>>
           rel == ReadTable(p)
<1>1. p[2] = t
  OBVIOUS
<1>2. rel = TableRelation(Final(p), p, "read", DeniedOf(CatalogSpec, t))
  BY <1>1 DEF ReadTable
<1>3. /\ rel.mode = "read" /\ rel.source = p /\ rel.pk = Final(p).pk /\ rel.tiebreak = Final(p).pk
      /\ rel.defaultOrder = <<>> /\ rel.forced = <<>> /\ rel.toggles = <<>>
  BY <1>2 DEF TableRelation
<1>4. /\ ColumnNames(rel) = NamesIn(Final(p).columns)
      /\ \A n : IsExposed(rel, n) <=> n \in NamesIn(Final(p).columns) \ DeniedOf(CatalogSpec, t)
      /\ \A i \in DOMAIN rel.columns : rel.columns[i].denied
           = (rel.columns[i].name \in DeniedOf(CatalogSpec, t))
  BY <1>2, TableColumns
<1>5. Shown(p) = NamesIn(Final(p).columns) \ DeniedOf(CatalogSpec, t)
  BY <1>1 DEF Shown, Final
<1>6. Final(p).pk \in Seq(Shown(p)) /\ ToSet(Final(p).pk) \subseteq Shown(p)
  <2>1. Final(p).pk \in Seq(NamesIn(Final(p).columns))
    BY ReadPlaceIs DEF IsTable
  <2>2. ToSet(Final(p).pk) \subseteq Shown(p)
    BY <1>5, <2>1, SeqElements, ReadPlaceIs
  <2>3. \A i \in DOMAIN Final(p).pk : Final(p).pk[i] \in Shown(p)
    BY <2>2 DEF ToSet
  <2> QED
    BY <2>1, <2>2, <2>3
<1> QED
  BY <1>3, <1>4, <1>5, <1>6

(* A view, as it is loaded from the catalog's tables. *)
LEMMA ViewSource ==
  ASSUME NEW view \in Views, view.from # {}
  PROVE  \E t \in CatalogSpec.readTables :
           /\ view.from = {t} /\ SourceOf(view) = <<"public", t>> /\ ShownBy(view) = Shown(<<"public", t>>)
           /\ NamesIn(Final(<<"public", t>>).columns) \cap DeniedNames(CatalogSpec)
                \subseteq DeniedOf(CatalogSpec, t)
BY ViewsAssumption DEF SourceOf, ShownBy, Final

LEMMA ViewsLoad ==
  ASSUME NEW view \in Views, NEW tab, NEW ts,
         \A t \in CatalogSpec.readTables : t \in DOMAIN tab /\ tab[t] = ReadTable(<<"public", t>>)
  PROVE  \E r \in LoadView(Database(Sentinel), tab, view) : HidesDenied(r, DeniedNames(CatalogSpec))
<1> USE DEF OrderColumns
<1>1. CASE view.from = {}
  <2>1. /\ Distinct(view.columns) /\ view.reads \subseteq DOMAIN Database(Sentinel)
        /\ NamesIn(view.columns) \cap DeniedNames(CatalogSpec) = {}
        /\ OrderColumns(view) \cup ToSet(view.tiebreak) \subseteq NamesIn(view.columns)
    BY <1>1, ViewsAssumption, ShownOrder, DatabaseHas DEF ShownBy
  <2> DEFINE rel == DescribedRelation(view)
  <2>2. Distinct(Described(view))
    BY <2>1 DEF Distinct, Described, LoadColumn
  <2>3. \A n \in OrderColumns(view) \cup ToSet(view.tiebreak) : IsExposed(rel, n)
    BY <2>1, DescribedColumns
  <2>4. rel \in ViewOver(view, <<"view", view.name>>, Described(view), <<>>, view.tiebreak)
    BY <2>2, <2>3, ViewOverIs DEF DescribedRelation
  <2>5. rel \in LoadView(Database(Sentinel), tab, view)
    BY <1>1, <2>1, <2>4 DEF LoadView, Described
  <2>6. HidesDenied(rel, DeniedNames(CatalogSpec))
    BY <2>1, DescribedColumns DEF HidesDenied, ColumnNames
  <2> QED
    BY <2>5, <2>6
<1>2. CASE view.from # {}
  <2>1. PICK t \in CatalogSpec.readTables :
           /\ view.from = {t} /\ ShownBy(view) = Shown(<<"public", t>>)
           /\ NamesIn(Final(<<"public", t>>).columns) \cap DeniedNames(CatalogSpec)
                \subseteq DeniedOf(CatalogSpec, t)
    BY <1>2, ViewSource
  <2> DEFINE base == ReadTable(<<"public", t>>)
             rel == FilteredRelation(view, base)
             tb == IF view.tiebreak = <<>> THEN base.pk ELSE view.tiebreak
  <2>2. OrderColumns(view) \cup ToSet(tb) \subseteq Shown(<<"public", t>>)
    BY <2>1, ReadTableIs, ShownOrder
  <2>3. \A n \in OrderColumns(view) \cup ToSet(tb) : IsExposed(rel, n)
    BY <2>2, ReadTableIs, FilteredColumns
  <2>4. Distinct(base.columns)
    BY ReadPlaceIs DEF ReadTable, TableRelation, IsTable, Distinct, LoadColumn
  <2>5. rel \in ViewOver(view, base.source, base.columns, base.pk, tb)
    BY <2>3, <2>4, ViewOverIs DEF FilteredRelation
  <2>6. t \in DOMAIN tab /\ tab[t] = base /\ tab[t].mode = "read"
    BY ReadTableIs
  <2>7. rel \in LoadView(Database(Sentinel), tab, view)
    BY <2>1, <2>5, <2>6 DEF LoadView
  <2>8. \A i \in DOMAIN base.columns : base.columns[i].name \in NamesIn(Final(<<"public", t>>).columns)
    BY ReadTableIs DEF ColumnNames
  <2>9. HidesDenied(base, DeniedNames(CatalogSpec))
    BY <2>1, <2>8, ReadTableIs DEF HidesDenied
  <2>10. HidesDenied(rel, DeniedNames(CatalogSpec))
    BY <2>9, FilteredColumns DEF HidesDenied
  <2> QED
    BY <2>7, <2>10
<1> QED
  BY <1>1, <1>2

(* With plaidsync's last migration in place, only a write table that the    *)
(* topper's migrations do not create can fail the load.                     *)
LEMMA CatalogLoads ==
  ASSUME NEW ts, ts \subseteq DOMAIN Created
  PROVE  Load(Database(Sentinel), SpecWith(ts)) # {}
<1> DEFINE data == Database(Sentinel)
           spec == SpecWith(ts)
           tab == LoadTables(data, spec)
<1>1. ASSUME NEW t \in TableNames(spec)
      PROVE  LoadNamed(data, spec, t) # {}
  <2>1. CASE t \in CatalogSpec.readTables
    BY <2>1, NamedRead
  <2>2. CASE t \in ts
    BY <2>2, NamedWrite
  <2> QED
    BY <2>1, <2>2, SpecIs
<1>2. DOMAIN tab = TableNames(spec)
  BY <1>1 DEF LoadTables
<1>3. ASSUME NEW t \in CatalogSpec.readTables
      PROVE  t \in DOMAIN tab /\ tab[t] = ReadTable(<<"public", t>>)
  <2>1. t \in DOMAIN tab
    BY <1>2, SpecIs
  <2>2. tab[t] = CHOOSE r \in LoadNamed(data, spec, t) : TRUE
    BY <2>1 DEF LoadTables
  <2> QED
    BY <2>1, <2>2, NamedRead
<1>4. ts \cap CatalogSpec.readTables = {}
  BY CreatedAssumption
<1>5. ASSUME NEW i \in DOMAIN CatalogSpec.views
      PROVE  LoadViews(data, spec, CatalogSpec.views[i]) # {}
  <2>1. CatalogSpec.views[i] \in Views
    BY DEF Views
  <2>2. \E r \in LoadView(data, tab, CatalogSpec.views[i]) : HidesDenied(r, DeniedNames(CatalogSpec))
    BY <1>3, <2>1, ViewsLoad
  <2> QED
    BY <2>2, SpecIs DEF LoadViews
<1>6. \A i, j \in DOMAIN CatalogSpec.views : CatalogSpec.views[i].name = CatalogSpec.views[j].name => i = j
  BY ViewsAssumption DEF Distinct
<1>7. Loadable(data, spec)
  BY <1>2, <1>4, <1>5, <1>6, SpecIs DEF Loadable
<1> QED
  BY <1>7 DEF Load

ReadRelation(r) ==
  \/ \E t \in CatalogSpec.readTables : r = ReadTable(<<"public", t>>)
  \/ \E view \in Views : view.from = {} /\ r = DescribedRelation(view)
  \/ \E view \in Views : \E t \in CatalogSpec.readTables :
       view.from = {t} /\ r = FilteredRelation(view, ReadTable(<<"public", t>>))

LEMMA CatalogIs ==
  ASSUME NEW ts, NEW k \in Load(Database(Sentinel), SpecWith(ts))
  PROVE  /\ \A t \in DOMAIN k.tables :
              \/ t \in CatalogSpec.readTables /\ ReadRelation(k.tables[t])
              \/ t \in DOMAIN Created /\ k.tables[t] = WriteTable(t)
         /\ \A n \in DOMAIN k.views : ReadRelation(k.views[n])
<1> DEFINE data == Database(Sentinel)
           spec == SpecWith(ts)
<1>1. ASSUME NEW t \in DOMAIN k.tables
      PROVE  IF t \in CatalogSpec.readTables THEN k.tables[t] = ReadTable(<<"public", t>>)
             ELSE t \in DOMAIN Created /\ k.tables[t] = WriteTable(t)
  <2>1. t \in CatalogSpec.readTables \cup ts /\ k.tables[t] \in LoadNamed(data, spec, t)
    BY LoadedIs, SpecIs
  <2> QED
    BY <2>1, NamedIs
<1>2. ASSUME NEW n \in DOMAIN k.views
      PROVE  ReadRelation(k.views[n])
  <2>1. PICK i \in DOMAIN spec.views : k.views[n] \in LoadViews(data, spec, spec.views[i])
    BY LoadedIs
  <2> DEFINE view == CatalogSpec.views[i]
  <2>2. view \in Views /\ k.views[n] \in LoadView(data, k.tables, view)
    BY <2>1, SpecIs, LoadedIs DEF LoadViews, Views
  <2>3. CASE view.from = {}
    <3>1. k.views[n] = DescribedRelation(view)
      BY <2>2, <2>3, LoadViewIs
    <3> QED
      BY <2>2, <2>3, <3>1 DEF ReadRelation
  <2>4. CASE view.from # {}
    <3>1. PICK t \in view.from \cap DOMAIN k.tables : k.views[n] = FilteredRelation(view, k.tables[t])
      BY <2>2, <2>4, LoadViewIs
    <3>4. PICK u \in CatalogSpec.readTables : view.from = {u}
      BY <2>2, <2>4, ViewSource
    <3>2. t \in CatalogSpec.readTables /\ view.from = {t}
      BY <3>1, <3>4
    <3>3. k.tables[t] = ReadTable(<<"public", t>>)
      BY <1>1, <3>1, <3>2
    <3> HIDE DEF view
    <3> QED
      BY <2>2, <3>1, <3>2, <3>3 DEF ReadRelation
  <2> QED
    BY <2>3, <2>4
<1> QED
  BY <1>1, <1>2 DEF ReadRelation

(* What is known of a relation over plaidsync's tables: its order, its key  *)
(* and its own conditions are of columns that it shows, its rows can be     *)
(* told apart and compared by them, and under other secrets the rows show   *)
(* the same.                                                                *)
Tells(rel, rows) ==
  /\ IsFiniteSet(rows)
  /\ \A row \in rows : \A n : IsExposed(rel, n) => row[n] \in Value
  /\ rel.tiebreak # <<>> => Identify(rows, ToSet(rel.tiebreak))

ShowsSame(rel, rows, others) ==
  \E f \in Bijection(rows, others) : \A row \in rows : \A n : IsExposed(rel, n) => f[row][n] = row[n]

ByExposed(rel) ==
  /\ rel.pk \in Seq(Exposed(rel)) /\ rel.tiebreak \in Seq(Exposed(rel))
  /\ rel.defaultOrder \in Seq([col : Exposed(rel), desc : BOOLEAN])
  /\ CodeColumns(rel) \subseteq Exposed(rel)

Sound(rel) ==
  /\ rel.mode = "read" /\ ByExposed(rel)
  /\ \A s \in DOMAIN Public : Tells(rel, Public[s][rel.source])
  /\ \A s, t \in DOMAIN Public : ShowsSame(rel, Public[s][rel.source], Public[t][rel.source])

LEMMA ReadTableSound ==
  ASSUME NEW t \in CatalogSpec.readTables
  PROVE  Sound(ReadTable(<<"public", t>>))
<1> DEFINE p == <<"public", t>>
           rel == ReadTable(p)
<1>1. p \in ReadPlaces
  BY ReadPlaceIs
<1>2. /\ rel.mode = "read" /\ rel.source = p /\ rel.pk = Final(p).pk /\ rel.tiebreak = Final(p).pk
      /\ rel.defaultOrder = <<>> /\ rel.forced = <<>> /\ rel.toggles = <<>>
      /\ \A n : IsExposed(rel, n) <=> n \in Shown(p)
      /\ rel.pk \in Seq(Shown(p))
  BY ReadTableIs
<1> HIDE DEF rel
<1>3. CodeColumns(rel) = {} /\ Exposed(rel) = Shown(p)
  BY <1>2 DEF CodeColumns, Exposed, IsExposed
<1>4. ByExposed(rel)
  BY <1>2, <1>3 DEF ByExposed
<1>5. \A s \in DOMAIN Public : Tells(rel, Public[s][rel.source])
  <2> SUFFICES ASSUME NEW s \in DOMAIN Public PROVE Tells(rel, Public[s][p])
    BY <1>2
  <2>1. /\ IsFiniteSet(Public[s][p])
        /\ \A row \in Public[s][p], n \in Shown(p) : row[n] \in Value
        /\ Final(p).pk # <<>> => Identify(Public[s][p], ToSet(Final(p).pk))
    BY <1>1, PublicAssumption DEF Final
  <2> QED
    BY <1>2, <2>1 DEF Tells
<1>6. ASSUME NEW s \in DOMAIN Public, NEW u \in DOMAIN Public
      PROVE  ShowsSame(rel, Public[s][rel.source], Public[u][rel.source])
  <2>1. SameButDenied(Public[s][p], Public[u][p], Shown(p))
    BY <1>1, PublicAssumption
  <2>2. PICK f \in Bijection(Public[s][p], Public[u][p]) :
          \A row \in Public[s][p], n \in Shown(p) : f[row][n] = row[n]
    BY <2>1 DEF SameButDenied
  <2>3. \A row \in Public[s][p] : \A n : IsExposed(rel, n) => f[row][n] = row[n]
    BY <1>2, <2>2
  <2> QED
    BY <1>2, <2>3 DEF ShowsSame
<1>7. Sound(rel)
  BY <1>2, <1>4, <1>5, <1>6 DEF Sound
<1> QED
  BY <1>7 DEF rel

LEMMA DescribedSound ==
  ASSUME NEW view \in Views, view.from = {}
  PROVE  Sound(DescribedRelation(view))
<1> DEFINE p == <<"view", view.name>>
           rel == DescribedRelation(view)
<1>1. SourceOf(view) = p /\ ShownBy(view) = NamesIn(view.columns)
  BY DEF SourceOf, ShownBy
<1>2. /\ rel.mode = "read" /\ rel.source = p /\ rel.pk = <<>> /\ rel.tiebreak = view.tiebreak
      /\ rel.defaultOrder = view.defaultOrder /\ rel.forced = view.forced /\ rel.toggles = view.toggles
  BY DEF DescribedRelation, ViewRelation
<1>3. \A n : IsExposed(rel, n) <=> n \in ShownBy(view)
  BY <1>1, DescribedColumns
<1> HIDE DEF rel
<1>4. CodeColumns(rel) = CodeColumns(view) /\ Exposed(rel) = ShownBy(view)
  BY <1>2, <1>3 DEF CodeColumns, Exposed, IsExposed
<1>5. ByExposed(rel)
  BY <1>2, <1>3, <1>4, ViewsAssumption DEF ByExposed
<1>6. \A s \in DOMAIN Public : Tells(rel, Public[s][rel.source])
  BY <1>1, <1>2, <1>3, PublicAssumption DEF Tells
<1>7. \A s, u \in DOMAIN Public : ShowsSame(rel, Public[s][rel.source], Public[u][rel.source])
  BY <1>1, <1>2, <1>3, PublicAssumption DEF SameButDenied, ShowsSame
<1>8. Sound(rel)
  BY <1>2, <1>5, <1>6, <1>7 DEF Sound
<1> QED
  BY <1>8 DEF rel

LEMMA FilteredSound ==
  ASSUME NEW view \in Views, NEW t \in CatalogSpec.readTables, view.from = {t}
  PROVE  Sound(FilteredRelation(view, ReadTable(<<"public", t>>)))
<1> DEFINE p == <<"public", t>>
           base == ReadTable(p)
           rel == FilteredRelation(view, base)
<1>1. SourceOf(view) = p /\ ShownBy(view) = Shown(p)
  BY ViewSource
<1>2. Sound(base)
  BY ReadTableSound
<1>3. /\ base.mode = "read" /\ base.source = p /\ base.tiebreak = base.pk
      /\ \A n : IsExposed(base, n) <=> n \in Shown(p)
      /\ base.pk \in Seq(Shown(p))
  BY ReadTableIs
<1>4. /\ rel.mode = "read" /\ rel.source = p /\ rel.pk = base.pk
      /\ rel.tiebreak = IF view.tiebreak = <<>> THEN base.pk ELSE view.tiebreak
      /\ rel.defaultOrder = view.defaultOrder /\ rel.forced = view.forced /\ rel.toggles = view.toggles
  BY <1>3 DEF FilteredRelation, ViewRelation
<1>5. \A n : IsExposed(rel, n) <=> IsExposed(base, n)
  BY FilteredColumns
<1> HIDE DEF rel, base
<1>6. CodeColumns(rel) = CodeColumns(view) /\ Exposed(rel) = Shown(p)
  BY <1>3, <1>4, <1>5 DEF CodeColumns, Exposed, IsExposed
<1>7. ByExposed(rel)
  BY <1>1, <1>3, <1>4, <1>5, <1>6, ViewsAssumption DEF ByExposed
<1>8. ASSUME NEW s \in DOMAIN Public
      PROVE  Tells(rel, Public[s][rel.source])
  <2>1. Tells(base, Public[s][p])
    BY <1>2, <1>3 DEF Sound
  <2>2. view.tiebreak # <<>> => Identify(Public[s][p], ToSet(view.tiebreak))
    BY <1>1, PublicAssumption
  <2> QED
    BY <1>3, <1>4, <1>5, <2>1, <2>2 DEF Tells
<1>9. \A s, u \in DOMAIN Public : ShowsSame(rel, Public[s][rel.source], Public[u][rel.source])
  BY <1>2, <1>3, <1>4, <1>5 DEF Sound, ShowsSame
<1>10. Sound(rel)
  BY <1>4, <1>7, <1>8, <1>9 DEF Sound
<1> QED
  BY <1>10 DEF rel, base

LEMMA ReadSound ==
  ASSUME NEW r, ReadRelation(r)
  PROVE  Sound(r)
BY ReadTableSound, DescribedSound, FilteredSound DEF ReadRelation

(* A write table shows all its columns, and its key is one. *)
LEMMA WriteTableIs ==
  ASSUME NEW t \in DOMAIN Created
  PROVE  LET rel == WriteTable(t)
         IN /\ rel.mode = "readwrite" /\ rel.source = <<"topper", t>>
            /\ rel.pk = Created[t].pk /\ rel.tiebreak = rel.pk /\ rel.pk # <<>>
            /\ rel.defaultOrder = <<>> /\ rel.forced = <<>> /\ rel.toggles = <<>>
            /\ ColumnNames(rel) = NamesIn(Created[t].columns)
            /\ \A n : IsExposed(rel, n) <=> n \in ColumnNames(rel)
            /\ ToSet(rel.pk) \subseteq ColumnNames(rel)
            /\ ByExposed(rel)
<1> DEFINE rel == WriteTable(t)
<1>1. rel = TableRelation(Created[t], <<"topper", t>>, "readwrite", {})
  BY DEF WriteTable
<1>2. /\ rel.mode = "readwrite" /\ rel.source = <<"topper", t>>
      /\ rel.pk = Created[t].pk /\ rel.tiebreak = Created[t].pk
      /\ rel.defaultOrder = <<>> /\ rel.forced = <<>> /\ rel.toggles = <<>>
  BY <1>1 DEF TableRelation
<1>3. ColumnNames(rel) = NamesIn(Created[t].columns) /\ \A n : IsExposed(rel, n) <=> n \in ColumnNames(rel)
  BY <1>1, TableColumns
<1> HIDE DEF rel
<1>8. Created[t].pk # <<>> /\ Created[t].pk \in Seq(ColumnNames(rel))
  BY <1>3, CreatedAssumption DEF IsTable
<1>4. Created[t].pk # <<>> /\ ToSet(Created[t].pk) \subseteq ColumnNames(rel)
  BY <1>8, SeqElements
<1>5. Exposed(rel) = ColumnNames(rel) /\ CodeColumns(rel) = {}
  BY <1>2, <1>3 DEF Exposed, CodeColumns
<1>6. ByExposed(rel)
  BY <1>2, <1>5, <1>8 DEF ByExposed
<1>7. /\ rel.mode = "readwrite" /\ rel.source = <<"topper", t>>
      /\ rel.pk = Created[t].pk /\ rel.tiebreak = rel.pk /\ rel.pk # <<>>
      /\ rel.defaultOrder = <<>> /\ rel.forced = <<>> /\ rel.toggles = <<>>
      /\ ColumnNames(rel) = NamesIn(Created[t].columns)
      /\ \A n : IsExposed(rel, n) <=> n \in ColumnNames(rel)
      /\ ToSet(rel.pk) \subseteq ColumnNames(rel)
      /\ ByExposed(rel)
  BY <1>2, <1>3, <1>4, <1>6
<1> QED
  BY <1>7 DEF rel

-----------------------------------------------------------------------------
(* Start-up *)

StartInv ==
  /\ version \in 0..Sentinel /\ tables \in WriteTables /\ secrets \in DOMAIN Public
  /\ proc \notin {"waiting", "failed", "exited"} => version = Sentinel
  /\ proc = "waiting" => catalog = {}
  /\ catalog # {} => catalog = {Sentinel} /\ version = Sentinel
  /\ proc = "badCatalog" => Loads[Sentinel][tables] = {}
  /\ proc \in {"serving", "draining", "cut"} => catalog = {Sentinel} /\ Loads[Sentinel][tables] # {}

LEMMA StartInit ==
  ASSUME Init
  PROVE  StartInv
BY SchemaAssumption DEF Init, StartInv

LEMMA StartKeeps ==
  ASSUME StartInv, [Next]_vars
  PROVE  StartInv'
<1> USE SchemaAssumption
<1> USE DEF StartInv
<1>1. CASE Startup
  <2>1. CASE Poll
    BY <2>1 DEF Poll, Seen
  <2>2. CASE Prepare
    BY <2>2 DEF Prepare, Starts
  <2>3. CASE LoadCatalog
    BY <2>3 DEF LoadCatalog
  <2> QED
    BY <1>1, <2>1, <2>2, <2>3 DEF Startup
<1>2. CASE PlaidMigrates
  BY <1>2 DEF PlaidMigrates
<1>3. CASE StartupWaitPasses
  BY <1>3 DEF StartupWaitPasses
<1>4. CASE Signal
  BY <1>4 DEF Signal, Running
<1>5. CASE ShutdownTimeout
  BY <1>5 DEF ShutdownTimeout
<1>6. CASE Exit
  BY <1>6 DEF Exit
<1>7. ASSUME UNCHANGED process
      PROVE  StartInv'
  BY <1>7 DEF process
<1>8. ASSUME NEW c \in Clients, (\E r \in Requests : Receive(c, r)) \/ Step(c) \/ Abort(c)
      PROVE  UNCHANGED process
  BY <1>8 DEF Receive, Step, Read, Count, Upsert, UpsertFails, Pick, Delete, Commit, Close, Abort
<1>9. CASE UNCHANGED vars
  BY <1>7, <1>9 DEF vars, process
<1> QED
  BY <1>1, <1>2, <1>3, <1>4, <1>5, <1>6, <1>7, <1>8, <1>9 DEF Next

(* Once plaidsync's sentinel table has been seen, only a write table that   *)
(* no migration creates fails the load of the catalog (plaidSentinelTable). *)
THEOREM LoadFailureIsConfiguration == Spec => []LoadFailsOnlyForConfig
<1>1. StartInv => LoadFailsOnlyForConfig
  <2> SUFFICES ASSUME StartInv, proc = "badCatalog", tables \subseteq DOMAIN Created PROVE FALSE
    BY DEF LoadFailsOnlyForConfig
  <2>1. Loads[Sentinel][tables] = Load(Database(Sentinel), SpecWith(tables))
    BY LoadsAre, SchemaAssumption DEF StartInv
  <2> QED
    BY <2>1, CatalogLoads DEF StartInv
<1> QED
  BY <1>1, StartInit, StartKeeps, PTL DEF Spec

-----------------------------------------------------------------------------
(* Orders of rows *)

LEMMA Smallest ==
  ASSUME NEW T \in SUBSET Nat, T # {}
  PROVE  \E x \in T : \A y \in T : x <= y
<1> DEFINE R == {ss \in Nat \X Nat : ss[1] < ss[2]}
<1>1. IsWellFoundedOn(R, Nat)
  BY NatLessThanWellFounded DEF OpToRel
<1>2. PICK x \in T : \A y \in T : ~ (<<y, x>> \in R)
  <2> HIDE DEF R
  <2> QED
    BY <1>1, WFMin
<1>3. ASSUME NEW n \in T
      PROVE  x <= n
  <2>1. n \in Nat /\ x \in Nat /\ (n < x => <<n, x>> \in R)
    OBVIOUS
  <2> QED
    BY <1>2, <2>1
<1> QED
  BY <1>3

(* Values are totally ordered. *)
LEMMA BelowOrders ==
  /\ \A v \in Value : ~Below(v, v)
  /\ \A v, w \in Value : v # w => Below(v, w) \/ Below(w, v)
  /\ \A u, v, w \in Value : Below(u, v) /\ Below(v, w) => Below(u, w)
<1>1. \A v \in Value : ~Below(v, v)
  BY DEF Below, Value
<1>2. \A v, w \in Value : v # w => Below(v, w) \/ Below(w, v)
  BY DEF Below, Value
<1>3. \A u, v, w \in Value : Below(u, v) /\ Below(v, w) => Below(u, w)
  BY DEF Below, Value
<1> QED
  BY <1>1, <1>2, <1>3

(* So are rows by terms that tell them apart. *)
Comes(term, r, s) ==
  IF term.desc THEN Below(s[term.col], r[term.col]) ELSE Below(r[term.col], s[term.col])

Orders(terms, rows) ==
  /\ DOMAIN terms \subseteq Nat \ {0}
  /\ \A i \in DOMAIN terms : 1..i \subseteq DOMAIN terms
  /\ \A row \in rows, i \in DOMAIN terms : row[terms[i].col] \in Value
  /\ \A r, s \in rows : (\A i \in DOMAIN terms : r[terms[i].col] = s[terms[i].col]) => r = s

LEMMA PrecedesIs ==
  ASSUME NEW terms, NEW r, NEW s
  PROVE  Precedes(terms, r, s) <=>
           \E i \in DOMAIN terms :
             /\ \A j \in 1..(i - 1) : r[terms[j].col] = s[terms[j].col]
             /\ Comes(terms[i], r, s)
BY DEF Precedes, Comes

LEMMA OrdersTotally ==
  ASSUME NEW terms, NEW rows, Orders(terms, rows)
  PROVE  /\ \A r \in rows : ~Precedes(terms, r, r)
         /\ \A r, s \in rows : r # s => Precedes(terms, r, s) \/ Precedes(terms, s, r)
         /\ \A r, s, t \in rows : Precedes(terms, r, s) /\ Precedes(terms, s, t) => Precedes(terms, r, t)
<1> DEFINE At(r, i) == r[terms[i].col]
<1>1. ASSUME NEW r \in rows, NEW s \in rows, NEW t \in rows, NEW i \in DOMAIN terms
      PROVE  /\ ~Comes(terms[i], r, r)
             /\ At(r, i) # At(s, i) => Comes(terms[i], r, s) \/ Comes(terms[i], s, r)
             /\ Comes(terms[i], r, s) /\ Comes(terms[i], s, t) => Comes(terms[i], r, t)
  <2>1. At(r, i) \in Value /\ At(s, i) \in Value /\ At(t, i) \in Value
    BY DEF Orders
  <2> QED
    BY <2>1, BelowOrders DEF Comes
<1>2. ASSUME NEW r \in rows
      PROVE  ~Precedes(terms, r, r)
  BY <1>1, PrecedesIs
<1>3. ASSUME NEW r \in rows, NEW s \in rows, r # s
      PROVE  Precedes(terms, r, s) \/ Precedes(terms, s, r)
  <2> DEFINE T == {i \in DOMAIN terms : At(r, i) # At(s, i)}
  <2>1. T \in SUBSET Nat /\ T # {}
    BY <1>3 DEF Orders
  <2>2. PICK i \in T : \A j \in T : i <= j
    <3> HIDE DEF T
    <3> QED
      BY <2>1, Smallest
  <2>3. i \in Nat /\ 1..(i - 1) \subseteq DOMAIN terms
    BY DEF Orders
  <2>4. \A j \in 1..(i - 1) : At(r, j) = At(s, j)
    BY <2>2, <2>3
  <2>5. i \in DOMAIN terms /\ (Comes(terms[i], r, s) \/ Comes(terms[i], s, r))
    BY <1>1
  <2> QED
    BY <2>4, <2>5, PrecedesIs
<1>4. ASSUME NEW r \in rows, NEW s \in rows, NEW t \in rows, Precedes(terms, r, s), Precedes(terms, s, t)
      PROVE  Precedes(terms, r, t)
  <2>1. PICK i \in DOMAIN terms : /\ \A j \in 1..(i - 1) : At(r, j) = At(s, j)
                                  /\ Comes(terms[i], r, s)
    BY <1>4, PrecedesIs
  <2>2. PICK k \in DOMAIN terms : /\ \A j \in 1..(k - 1) : At(s, j) = At(t, j)
                                  /\ Comes(terms[k], s, t)
    BY <1>4, PrecedesIs
  <2>3. i \in Nat \ {0} /\ k \in Nat \ {0}
    BY DEF Orders
  <2>4. CASE i = k
    <3>1. Comes(terms[i], r, t)
      BY <1>1, <2>1, <2>2, <2>4
    <3> QED
      BY <2>1, <2>2, <2>4, <3>1, PrecedesIs
  <2>5. CASE i < k
    <3>1. At(s, i) = At(t, i)
      BY <2>2, <2>3, <2>5
    <3>2. Comes(terms[i], r, t)
      BY <2>1, <3>1 DEF Comes
    <3>3. \A j \in 1..(i - 1) : At(r, j) = At(t, j)
      BY <2>1, <2>2, <2>3, <2>5
    <3> QED
      BY <3>2, <3>3, PrecedesIs
  <2>6. CASE k < i
    <3>1. At(r, k) = At(s, k)
      BY <2>1, <2>3, <2>6
    <3>2. Comes(terms[k], r, t)
      BY <2>2, <3>1 DEF Comes
    <3>3. \A j \in 1..(k - 1) : At(r, j) = At(t, j)
      BY <2>1, <2>2, <2>3, <2>6
    <3> QED
      BY <3>2, <3>3, PrecedesIs
  <2> QED
    BY <2>3, <2>4, <2>5, <2>6
<1> QED
  BY <1>2, <1>3, <1>4

-----------------------------------------------------------------------------
(* Rows that are totally ordered can be sorted in one way. *)
Sorted(terms, rows) ==
  {s \in SetToSeqs(rows) : \A i, j \in DOMAIN s : i < j => ~Precedes(terms, s[j], s[i])}

LEMMA Listed ==
  ASSUME NEW rows, IsFiniteSet(rows)
  PROVE  /\ Cardinality(rows) \in Nat
         /\ \A s \in SetToSeqs(rows) :
              /\ DOMAIN s = 1..Cardinality(rows)
              /\ s \in Bijection(1..Cardinality(rows), rows)
         /\ \A s : s \in Bijection(1..Cardinality(rows), rows) => s \in SetToSeqs(rows)
<1> DEFINE n == Cardinality(rows)
<1>1. n \in Nat /\ IsFiniteSet(1..n) /\ Cardinality(1..n) = n
  <2>1. n \in Nat
    BY FS_CardinalityType
  <2> QED
    BY <2>1, FS_Interval
<1>2. SetToSeqs(rows) = {f \in [1..n -> rows] : \A i, j \in 1..n : i # j => f[i] # f[j]}
  BY DEF SetToSeqs
<1>3. ASSUME NEW s \in SetToSeqs(rows)
      PROVE  DOMAIN s = 1..n /\ s \in Bijection(1..n, rows)
  <2>1. s \in Injection(1..n, rows)
    BY <1>2 DEF Injection, IsInjective
  <2>2. s \in Surjection(1..n, rows)
    BY <1>1, <2>1, FS_Injection
  <2> QED
    BY <1>2, <2>1, <2>2 DEF Bijection
<1>4. ASSUME NEW s \in Bijection(1..n, rows)
      PROVE  s \in SetToSeqs(rows)
  BY <1>2 DEF Bijection, Injection, IsInjective
<1> QED
  BY <1>1, <1>3, <1>4

LEMMA OneSorted ==
  ASSUME NEW terms, NEW rows, IsFiniteSet(rows), Orders(terms, rows),
         NEW s \in Sorted(terms, rows), NEW t \in Sorted(terms, rows)
  PROVE  s = t
<1> DEFINE n == Cardinality(rows)
           T == {i \in 1..n : s[i] # t[i]}
<1>1. n \in Nat /\ s \in Bijection(1..n, rows) /\ t \in Bijection(1..n, rows)
  BY Listed DEF Sorted
<1>2. /\ s \in [1..n -> rows] /\ t \in [1..n -> rows]
      /\ \A i, j \in 1..n : (s[i] = s[j] => i = j) /\ (t[i] = t[j] => i = j)
      /\ \A x \in rows : (\E i \in 1..n : s[i] = x) /\ (\E i \in 1..n : t[i] = x)
  BY <1>1 DEF Bijection, Injection, Surjection, IsInjective
<1>3. \A i, j \in 1..n : i < j => ~Precedes(terms, s[j], s[i]) /\ ~Precedes(terms, t[j], t[i])
  BY <1>2 DEF Sorted
<1>12. \A i \in 1..n : i \notin T => s[i] = t[i]
  OBVIOUS
<1>13. (\A i \in 1..n : s[i] = t[i]) => s = t
  <2>1. s \in [1..n -> rows] /\ t \in [1..n -> rows]
    BY <1>2
  <2>2. \A D : \A f, g \in [D -> rows] : (\A i \in D : f[i] = g[i]) => f = g
    OBVIOUS
  <2> HIDE DEF n, T
  <2> QED
    BY <2>1, <2>2, Zenon
<1>14. T = {} => s = t
  BY <1>12, <1>13
<1> SUFFICES ASSUME T # {} PROVE FALSE
  BY <1>14
<1>4. PICK k \in T : \A j \in T : k <= j
  <2>1. T \in SUBSET Nat
    OBVIOUS
  <2> HIDE DEF T
  <2> QED
    BY <2>1, Smallest
<1>5. PICK a \in 1..n : s[a] = t[k]
  BY <1>2
<1>6. PICK b \in 1..n : t[b] = s[k]
  BY <1>2
<1>7. k \in 1..n /\ s[k] # t[k]
  OBVIOUS
<1>8. k < a
  <2>1. a # k
    BY <1>5, <1>7
  <2>2. ASSUME a < k PROVE FALSE
    <3>2. a \notin T
      <4> HIDE DEF T
      <4> QED
        BY <1>1, <1>4, <1>7, <2>2
    <3>1. s[a] = t[a]
      BY <1>12, <3>2
    <3>3. t[a] = t[k]
      BY <1>5, <3>1
    <3>4. a = k
      BY <1>2, <1>7, <3>3
    <3> QED
      BY <2>1, <3>4
  <2> QED
    BY <1>1, <2>1, <2>2
<1>9. k < b
  <2>1. b # k
    BY <1>6, <1>7
  <2>2. ASSUME b < k PROVE FALSE
    <3>2. b \notin T
      <4> HIDE DEF T
      <4> QED
        BY <1>1, <1>4, <1>7, <2>2
    <3>1. s[b] = t[b]
      BY <1>12, <3>2
    <3> QED
      BY <1>2, <1>6, <1>7, <2>1, <3>1
  <2> QED
    BY <1>1, <2>1, <2>2
<1>10. ~Precedes(terms, t[k], s[k]) /\ ~Precedes(terms, s[k], t[k])
  BY <1>3, <1>5, <1>6, <1>7, <1>8, <1>9
<1> QED
  BY <1>2, <1>7, <1>10, OrdersTotally

LEMMA SomeSorted ==
  ASSUME NEW terms, NEW rows, IsFiniteSet(rows), Orders(terms, rows)
  PROVE  Sorted(terms, rows) # {}
<1> DEFINE n == Cardinality(rows)
           Before(x) == {y \in rows : Precedes(terms, y, x)}
           rank == [x \in rows |-> Cardinality(Before(x)) + 1]
<1>1. n \in Nat /\ IsFiniteSet(1..n) /\ Cardinality(1..n) = n
  <2>1. n \in Nat
    BY FS_CardinalityType
  <2> QED
    BY <2>1, FS_Interval
<1>2. ASSUME NEW x \in rows
      PROVE  /\ IsFiniteSet(Before(x)) /\ Cardinality(Before(x)) \in Nat
             /\ Cardinality(Before(x)) < n
  <2>1. IsFiniteSet(Before(x)) /\ Cardinality(Before(x)) <= n /\ (n = Cardinality(Before(x)) => rows = Before(x))
    BY FS_Subset
  <2>2. x \notin Before(x)
    BY OrdersTotally
  <2>3. Cardinality(Before(x)) \in Nat
    BY <2>1, FS_CardinalityType
  <2> QED
    BY <1>1, <2>1, <2>2, <2>3
<1>3. ASSUME NEW x \in rows, NEW y \in rows, Precedes(terms, x, y)
      PROVE  rank[x] < rank[y]
  <2>1. Before(x) \subseteq Before(y)
    BY <1>3, OrdersTotally
  <2>2. x \in Before(y) /\ x \notin Before(x)
    BY <1>3, OrdersTotally
  <2>3. Cardinality(Before(x)) <= Cardinality(Before(y)) /\ Cardinality(Before(x)) # Cardinality(Before(y))
    <3>1. IsFiniteSet(Before(y))
      BY <1>2
    <3> HIDE DEF Before
    <3> QED
      BY <2>1, <2>2, <3>1, FS_Subset
  <2>5. Cardinality(Before(x)) \in Nat /\ Cardinality(Before(y)) \in Nat
    BY <1>2
  <2> HIDE DEF Before
  <2>4. Cardinality(Before(x)) < Cardinality(Before(y))
    BY <2>3, <2>5
  <2> QED
    BY <2>4, <2>5
<1>4. rank \in [rows -> 1..n]
  <2>1. \A x \in rows : Cardinality(Before(x)) + 1 \in 1..n
    <3> SUFFICES ASSUME NEW x \in rows PROVE Cardinality(Before(x)) + 1 \in 1..n
      OBVIOUS
    <3>1. Cardinality(Before(x)) \in Nat /\ Cardinality(Before(x)) < n
      BY <1>2
    <3> HIDE DEF Before, n
    <3> QED
      BY <1>1, <3>1
  <2> QED
    BY <2>1
<1>5. \A x \in rows : rank[x] \in Int
  BY <1>2
<1> HIDE DEF rank
<1>6. \A x, y \in rows : rank[x] = rank[y] => x = y
  BY <1>3, <1>5, OrdersTotally
<1>7. rank \in Injection(rows, 1..n)
  BY <1>4, <1>6 DEF Injection, IsInjective
<1>8. rank \in Surjection(rows, 1..n)
  BY <1>1, <1>7, FS_Injection
<1>9. \A i \in 1..n : \E x \in rows : rank[x] = i
  BY <1>8 DEF Surjection
<1> DEFINE s == [i \in 1..n |-> CHOOSE x \in rows : rank[x] = i]
<1>10. \A i \in 1..n : s[i] \in rows /\ rank[s[i]] = i
  BY <1>9
<1> HIDE DEF s
<1>11. s \in [1..n -> rows] /\ DOMAIN s = 1..n
  BY <1>10 DEF s
<1>12. s \in SetToSeqs(rows)
  BY <1>10, <1>11 DEF SetToSeqs
<1>13. ASSUME NEW i \in 1..n, NEW j \in 1..n, i < j, Precedes(terms, s[j], s[i])
       PROVE  FALSE
  <2>1. rank[s[j]] < rank[s[i]]
    BY <1>3, <1>10, <1>13
  <2> QED
    BY <1>10, <1>13, <2>1
<1>14. s \in Sorted(terms, rows)
  BY <1>11, <1>12, <1>13 DEF Sorted
<1> QED
  BY <1>14

-----------------------------------------------------------------------------
(* What a query that was accepted names, it may: columns that are shown. *)
OrderTerm(rel) == [col : Exposed(rel), desc : BOOLEAN]
Asks(rel, p) ==
  /\ p.order \in Seq(OrderTerm(rel))
  /\ \A c \in p.conds \cup UNION p.or : c.col \in Exposed(rel)

LEMMA ConditionsAre ==
  ASSUME NEW rel, NEW col, NEW f, NEW bare, NEW c \in Conditions(rel, col, f, bare)
  PROVE  c.col \in Exposed(rel)
<1>1. IsExposed(rel, col) /\ c \in ParseFilter(col, f, bare)
  BY DEF Conditions
<1>2. c.col = col
  BY <1>1 DEF ParseFilter
<1> QED
  BY <1>1, <1>2 DEF Exposed, IsExposed

LEMMA ParseAsks ==
  ASSUME NEW rel, NEW q, NEW p \in Parse(rel, q)
  PROVE  Asks(rel, p)
<1>1. Accepted(rel, q) /\ p = ParamsOf(rel, q)
  BY DEF Parse
<1>2. p.conds = UNION {UNION {Conditions(rel, k, q[k][i], TRUE) : i \in DOMAIN q[k]}
                                 : k \in FilterKeys(rel, q)}
  BY <1>1 DEF ParamsOf
<1>3. p.or = IF "or" \in DOMAIN q THEN {OrGroup(rel, q["or"][i]) : i \in DOMAIN q["or"]} ELSE {}
  BY <1>1 DEF ParamsOf
<1>4. \/ p.order = <<>>
      \/ "order_by" \in DOMAIN q /\ \E b \in BOOLEAN : p.order = <<[col |-> q["order_by"][1], desc |-> b]>>
  <2>1. p.order = IF "order_by" \in DOMAIN q
                  THEN <<[col |-> q["order_by"][1],
                          desc |-> (IF "order" \in DOMAIN q THEN q["order"][1] ELSE "asc") = "desc"]>>
                  ELSE <<>>
    BY <1>1 DEF ParamsOf
  <2> QED
    BY <2>1
<1>5. p.order \in Seq(OrderTerm(rel))
  <2>1. "order_by" \in DOMAIN q => q["order_by"][1] \in Exposed(rel)
    BY <1>1 DEF Accepted, Exposed, IsExposed
  <2>2. CASE p.order = <<>>
    BY <2>2
  <2>3. ASSUME NEW b \in BOOLEAN, "order_by" \in DOMAIN q, p.order = <<[col |-> q["order_by"][1], desc |-> b]>>
        PROVE  p.order \in Seq(OrderTerm(rel))
    <3>1. [col |-> q["order_by"][1], desc |-> b] \in OrderTerm(rel)
      BY <2>1, <2>3 DEF OrderTerm
    <3> QED
      BY <2>3, <3>1
  <2> QED
    BY <1>4, <2>2, <2>3
<1>6. ASSUME NEW c \in p.conds
      PROVE  c.col \in Exposed(rel)
  <2>1. PICK k \in FilterKeys(rel, q) : c \in UNION {Conditions(rel, k, q[k][i], TRUE) : i \in DOMAIN q[k]}
    BY <1>2
  <2>2. PICK i \in DOMAIN q[k] : c \in Conditions(rel, k, q[k][i], TRUE)
    BY <2>1
  <2> QED
    BY <2>2, ConditionsAre
<1>7. ASSUME NEW c \in UNION p.or
      PROVE  c.col \in Exposed(rel)
  <2>1. PICK i \in DOMAIN q["or"] : c \in OrGroup(rel, q["or"][i])
    BY <1>3
  <2>2. PICK t \in Terms(q["or"][i]) : c \in Conditions(rel, t.col, t.filter, FALSE)
    BY <2>1 DEF OrGroup
  <2> QED
    BY <2>2, ConditionsAre
<1> QED
  BY <1>5, <1>6, <1>7 DEF Asks

LEMMA OrderTermsIn ==
  ASSUME NEW rel, NEW terms \in Seq(OrderTerm(rel))
  PROVE  /\ DOMAIN terms = 1..Len(terms) /\ Len(terms) \in Nat
         /\ \A i \in DOMAIN terms : terms[i].col \in Exposed(rel)
<1>1. \A i \in DOMAIN terms : terms[i] \in OrderTerm(rel)
  BY SeqElements
<1>2. \A t \in OrderTerm(rel) : t.col \in Exposed(rel)
  BY DEF OrderTerm
<1> QED
  BY <1>1, <1>2

Upward(cols) == [i \in DOMAIN cols |-> [col |-> cols[i], desc |-> FALSE]]

LEMMA UpwardIs ==
  ASSUME NEW rel, NEW cols \in Seq(Exposed(rel))
  PROVE  /\ Upward(cols) \in Seq(OrderTerm(rel)) /\ Len(Upward(cols)) = Len(cols)
         /\ \A i \in 1..Len(cols) : Upward(cols)[i].col = cols[i]
<1>1. Len(cols) \in Nat /\ DOMAIN cols = 1..Len(cols) /\ \A i \in 1..Len(cols) : cols[i] \in Exposed(rel)
  OBVIOUS
<1>2. Upward(cols) = [i \in 1..Len(cols) |-> [col |-> cols[i], desc |-> FALSE]]
  BY <1>1 DEF Upward
<1>3. \A i \in 1..Len(cols) : [col |-> cols[i], desc |-> FALSE] \in OrderTerm(rel)
  BY <1>1 DEF OrderTerm
<1> QED
  BY <1>1, <1>2, <1>3

LEMMA TermsAre ==
  ASSUME NEW rel, ByExposed(rel), NEW p, Asks(rel, p)
  PROVE  /\ OrderTerms(rel, p) \in Seq(OrderTerm(rel))
         /\ \A n \in ToSet(rel.tiebreak) : \E i \in DOMAIN OrderTerms(rel, p) : OrderTerms(rel, p)[i].col = n
<1> DEFINE first == IF p.order # <<>> THEN p.order
                    ELSE IF rel.defaultOrder # <<>> THEN rel.defaultOrder
                    ELSE Upward(rel.pk)
           last == Upward(rel.tiebreak)
<1>1. OrderTerms(rel, p) = first \o last
  BY DEF OrderTerms, Upward
<1>2. first \in Seq(OrderTerm(rel))
  BY UpwardIs DEF ByExposed, Asks, OrderTerm
<1>3. rel.tiebreak \in Seq(Exposed(rel))
  BY DEF ByExposed
<1>4. last \in Seq(OrderTerm(rel)) /\ Len(last) = Len(rel.tiebreak)
      /\ \A i \in 1..Len(rel.tiebreak) : last[i].col = rel.tiebreak[i]
  BY <1>3, UpwardIs
<1> HIDE DEF first, last
<1>5. /\ first \o last \in Seq(OrderTerm(rel)) /\ Len(first \o last) = Len(first) + Len(last)
      /\ \A i \in 1..Len(first) + Len(last) : (first \o last)[i] = IF i <= Len(first) THEN first[i] ELSE last[i - Len(first)]
  BY <1>2, <1>4, ConcatProperties
<1>6. ASSUME NEW n \in ToSet(rel.tiebreak)
      PROVE  \E i \in DOMAIN OrderTerms(rel, p) : OrderTerms(rel, p)[i].col = n
  <2>1. PICK i \in 1..Len(rel.tiebreak) : rel.tiebreak[i] = n
    BY <1>3 DEF ToSet
  <2> DEFINE k == Len(first) + i
  <2>2. Len(first) \in Nat /\ Len(last) \in Nat
    BY <1>2, <1>4
  <2>3. k \in 1..Len(first) + Len(last) /\ ~(k <= Len(first)) /\ k - Len(first) = i
    BY <1>4, <2>2
  <2>4. (first \o last)[k] = last[i]
    BY <1>5, <2>3
  <2>5. k \in DOMAIN (first \o last)
    BY <1>5, <2>3
  <2> QED
    BY <1>1, <1>4, <2>1, <2>4, <2>5
<1> QED
  BY <1>1, <1>5, <1>6

LEMMA TermsOrder ==
  ASSUME NEW rel, ByExposed(rel), NEW p, Asks(rel, p),
         NEW rows, Tells(rel, rows), rel.tiebreak # <<>>, NEW M \in SUBSET rows
  PROVE  Orders(OrderTerms(rel, p), M)
<1> DEFINE terms == OrderTerms(rel, p)
<1>1. terms \in Seq(OrderTerm(rel))
  BY TermsAre
<1>2. DOMAIN terms = 1..Len(terms) /\ Len(terms) \in Nat /\ \A i \in DOMAIN terms : terms[i].col \in Exposed(rel)
  BY <1>1, OrderTermsIn
<1>3. \A n \in ToSet(rel.tiebreak) : \E i \in DOMAIN terms : terms[i].col = n
  BY TermsAre
<1> HIDE DEF terms
<1>4. ASSUME NEW r \in M, NEW s \in M, \A i \in DOMAIN terms : r[terms[i].col] = s[terms[i].col]
      PROVE  r = s
  <2>1. \A n \in ToSet(rel.tiebreak) : r[n] = s[n]
    BY <1>3, <1>4
  <2> QED
    BY <2>1 DEF Tells, Identify
<1>5. \A row \in M, i \in DOMAIN terms : row[terms[i].col] \in Value
  BY <1>2 DEF Tells, Exposed
<1>6. Orders(terms, M)
  BY <1>2, <1>4, <1>5 DEF Orders
<1> QED
  BY <1>6 DEF terms

-----------------------------------------------------------------------------
(* Pages *)
Matching(rel, p, rows) == {r \in rows : Where(rel, p, r)}
PageOf(p, s) == [i \in {i \in 1..p.limit : p.offset + i \in DOMAIN s} |-> s[p.offset + i]]
Told(rel, p, page) == [i \in DOMAIN page |-> Project(rel, p, page[i])]

LEMMA SelectIs ==
  ASSUME NEW rel, NEW p, NEW rows
  PROVE  Select(rel, p, rows) =
           {Told(rel, p, PageOf(p, s)) : s \in Sorted(OrderTerms(rel, p), Matching(rel, p, rows))}
<1>1. Pages(rel, p, rows) = {PageOf(p, s) : s \in Sorted(OrderTerms(rel, p), Matching(rel, p, rows))}
  BY DEF Pages, Sorted, Matching, PageOf
<1>2. Select(rel, p, rows) = {Told(rel, p, page) : page \in Pages(rel, p, rows)}
  BY DEF Select, Told
<1> QED
  BY <1>1, <1>2

LEMMA OnePage ==
  ASSUME NEW rel, ByExposed(rel), NEW p, Asks(rel, p),
         NEW rows, Tells(rel, rows), rel.tiebreak # <<>>
  PROVE  Cardinality(Select(rel, p, rows)) = 1
<1> DEFINE M == Matching(rel, p, rows)
           terms == OrderTerms(rel, p)
<1>1. M \in SUBSET rows
  BY DEF Matching
<1>2. Orders(terms, M) /\ IsFiniteSet(M)
  BY <1>1, TermsOrder, FS_Subset DEF Tells
<1>3. PICK s \in Sorted(terms, M) : TRUE
  BY <1>2, SomeSorted
<1>4. Sorted(terms, M) = {s}
  BY <1>2, <1>3, OneSorted
<1>5. Select(rel, p, rows) = {Told(rel, p, PageOf(p, s))}
  BY <1>4, SelectIs
<1> QED
  BY <1>5, FS_Singleton

(* Whoever cannot see the denied columns cannot tell the rows apart that    *)
(* differ in them alone: they match, sort and show alike.                   *)
LEMMA LooksAlike ==
  ASSUME NEW rel, ByExposed(rel), NEW p, Asks(rel, p), NEW r, NEW s,
         \A n \in Exposed(rel) : r[n] = s[n]
  PROVE  /\ Where(rel, p, r) <=> Where(rel, p, s)
         /\ Project(rel, p, r) = Project(rel, p, s)
<1>1. /\ \A c \in p.conds : Holds(c, r) <=> Holds(c, s)
      /\ \A group \in p.or : \A c \in group : Holds(c, r) <=> Holds(c, s)
  BY DEF Asks, Holds
<1>2. \A i \in DOMAIN rel.forced : Holds(rel.forced[i], r) <=> Holds(rel.forced[i], s)
  <2>1. \A i \in DOMAIN rel.forced : rel.forced[i].col \in Exposed(rel)
    BY DEF ByExposed, CodeColumns
  <2> QED
    BY <2>1 DEF Holds
<1>3. \A i \in DOMAIN rel.toggles : Holds(rel.toggles[i].whenOff, r) <=> Holds(rel.toggles[i].whenOff, s)
  <2>1. \A i \in DOMAIN rel.toggles : rel.toggles[i].whenOff.col \in Exposed(rel)
    BY DEF ByExposed, CodeColumns
  <2> QED
    BY <2>1 DEF Holds
<1>4. Asked(p, r) <=> Asked(p, s)
  BY <1>1 DEF Asked
<1>5. Where(rel, p, r) <=> Where(rel, p, s)
  BY <1>2, <1>3, <1>4 DEF Where
<1>6. Project(rel, p, r) = Project(rel, p, s)
  BY DEF Project, Exposed, IsExposed
<1> QED
  BY <1>5, <1>6

LEMMA SortsAlike ==
  ASSUME NEW rel, NEW terms \in Seq(OrderTerm(rel)), NEW r, NEW s, NEW r2, NEW s2,
         \A n \in Exposed(rel) : r2[n] = r[n] /\ s2[n] = s[n]
  PROVE  Precedes(terms, r2, s2) <=> Precedes(terms, r, s)
<1>1. /\ DOMAIN terms = 1..Len(terms) /\ Len(terms) \in Nat
      /\ \A i \in DOMAIN terms : terms[i].col \in Exposed(rel)
  BY OrderTermsIn
<1>2. \A i \in DOMAIN terms : Comes(terms[i], r2, s2) <=> Comes(terms[i], r, s)
  BY <1>1 DEF Comes
<1>3. \A i \in DOMAIN terms : \A j : j \in 1..(i - 1) => j \in DOMAIN terms
  BY <1>1
<1>4. \A i \in DOMAIN terms : (\A j \in 1..(i - 1) : r2[terms[j].col] = s2[terms[j].col])
                                <=> (\A j \in 1..(i - 1) : r[terms[j].col] = s[terms[j].col])
  <2>1. \A j \in DOMAIN terms : r2[terms[j].col] = r[terms[j].col] /\ s2[terms[j].col] = s[terms[j].col]
    BY <1>1
  <2> QED
    BY <1>3, <2>1
<1> QED
  BY <1>2, <1>4, PrecedesIs

LEMMA MatchAlike ==
  ASSUME NEW rel, ByExposed(rel), NEW p, Asks(rel, p), NEW rows, NEW others, IsFiniteSet(rows),
         NEW f \in Bijection(rows, others), \A row \in rows : \A n : IsExposed(rel, n) => f[row][n] = row[n]
  PROVE  LET M == Matching(rel, p, rows)
             N == Matching(rel, p, others)
             g == [row \in M |-> f[row]]
         IN g \in Bijection(M, N) /\ IsFiniteSet(M) /\ IsFiniteSet(N) /\ Cardinality(N) = Cardinality(M)
<1> DEFINE M == Matching(rel, p, rows)
           N == Matching(rel, p, others)
           g == [row \in M |-> f[row]]
<1>1. /\ f \in [rows -> others] /\ \A a, b \in rows : f[a] = f[b] => a = b
      /\ \A t \in others : \E a \in rows : f[a] = t
  BY DEF Bijection, Injection, Surjection, IsInjective
<1>2. ASSUME NEW row \in rows
      PROVE  Where(rel, p, f[row]) <=> Where(rel, p, row)
  BY LooksAlike DEF Exposed
<1>3. \A row \in rows : row \in M <=> f[row] \in N
  BY <1>1, <1>2 DEF Matching
<1>4. M \subseteq rows /\ N \subseteq others
  BY DEF Matching
<1>5. IsFiniteSet(M)
  BY <1>4, FS_Subset
<1> HIDE DEF M, N
<1>6. g \in [M -> N]
  BY <1>1, <1>3, <1>4
<1>7. \A a, b \in M : g[a] = g[b] => a = b
  BY <1>1, <1>4
<1>8. \A t \in N : \E a \in M : g[a] = t
  BY <1>1, <1>3, <1>4
<1>9. g \in Bijection(M, N)
  <2> HIDE DEF g
  <2>1. g \in Injection(M, N)
    BY <1>6, <1>7 DEF Injection, IsInjective
  <2>2. g \in Surjection(M, N)
    BY <1>6, <1>8 DEF Surjection
  <2> QED
    BY <2>1, <2>2 DEF Bijection
<1>10. IsFiniteSet(N) /\ Cardinality(N) = Cardinality(M)
  BY <1>5, <1>9, FS_Bijection DEF ExistsBijection
<1> QED
  BY <1>5, <1>9, <1>10 DEF M, N

LEMMA TellAlike ==
  ASSUME NEW rel, ByExposed(rel), NEW p, Asks(rel, p), NEW rows, NEW others, IsFiniteSet(rows),
         ShowsSame(rel, rows, others)
  PROVE  /\ Total(rel, p, others) = Total(rel, p, rows)
         /\ Select(rel, p, rows) \subseteq Select(rel, p, others)
<1> DEFINE M == Matching(rel, p, rows)
           N == Matching(rel, p, others)
           terms == OrderTerms(rel, p)
           n == Cardinality(M)
<1>1. PICK f \in Bijection(rows, others) : \A row \in rows : \A u : IsExposed(rel, u) => f[row][u] = row[u]
  BY DEF ShowsSame
<1> DEFINE g == [row \in M |-> f[row]]
<1>2. g \in Bijection(M, N) /\ IsFiniteSet(M) /\ IsFiniteSet(N) /\ Cardinality(N) = n
  BY <1>1, MatchAlike
<1>3. Total(rel, p, others) = Total(rel, p, rows)
  BY <1>2 DEF Total, Matching
<1>4. /\ g \in [M -> N] /\ \A a, b \in M : g[a] = g[b] => a = b
      /\ \A t \in N : \E a \in M : g[a] = t
  BY <1>2 DEF Bijection, Injection, Surjection, IsInjective
<1>5. \A row \in M : \A u \in Exposed(rel) : g[row][u] = row[u]
  BY <1>1 DEF Matching, Exposed
<1>6. terms \in Seq(OrderTerm(rel))
  BY TermsAre
<1> HIDE DEF M, N, g, terms
<1>7. ASSUME NEW s \in Sorted(terms, M)
      PROVE  \E t \in Sorted(terms, N) : Told(rel, p, PageOf(p, t)) = Told(rel, p, PageOf(p, s))
  <2> DEFINE t == [i \in 1..n |-> g[s[i]]]
  <2>1. n \in Nat /\ s \in Bijection(1..n, M) /\ DOMAIN s = 1..n
    BY <1>2, Listed DEF Sorted
  <2>2. /\ s \in [1..n -> M] /\ \A i, j \in 1..n : s[i] = s[j] => i = j
        /\ \A a \in M : \E i \in 1..n : s[i] = a
    BY <2>1 DEF Bijection, Injection, Surjection, IsInjective
  <2>3. t \in [1..n -> N]
    BY <1>4, <2>2
  <2>4. \A i, j \in 1..n : t[i] = t[j] => i = j
    BY <1>4, <2>2
  <2>5. \A i \in 1..n : \A u \in Exposed(rel) : t[i][u] = s[i][u]
    BY <1>5, <2>2
  <2> HIDE DEF t
  <2>6. t \in SetToSeqs(N) /\ DOMAIN t = 1..n
    BY <1>2, <2>3, <2>4 DEF SetToSeqs
  <2>7. ASSUME NEW i \in 1..n, NEW j \in 1..n, i < j
        PROVE  ~Precedes(terms, t[j], t[i])
    <3>1. ~Precedes(terms, s[j], s[i])
      BY <2>1, <2>7 DEF Sorted
    <3> QED
      BY <1>6, <2>5, <3>1, SortsAlike
  <2>8. t \in Sorted(terms, N)
    BY <2>6, <2>7 DEF Sorted
  <2>9. \A i \in 1..n : Project(rel, p, t[i]) = Project(rel, p, s[i])
    BY <2>5, LooksAlike
  <2>10. Told(rel, p, PageOf(p, t)) = Told(rel, p, PageOf(p, s))
    <3> DEFINE I == {i \in 1..p.limit : p.offset + i \in 1..n}
    <3>1. PageOf(p, t) = [i \in I |-> t[p.offset + i]] /\ PageOf(p, s) = [i \in I |-> s[p.offset + i]]
      BY <2>1, <2>6 DEF PageOf
    <3>2. \A i \in I : Project(rel, p, t[p.offset + i]) = Project(rel, p, s[p.offset + i])
      BY <2>9
    <3> HIDE DEF I
    <3>3. /\ Told(rel, p, PageOf(p, t)) = [i \in I |-> Project(rel, p, t[p.offset + i])]
          /\ Told(rel, p, PageOf(p, s)) = [i \in I |-> Project(rel, p, s[p.offset + i])]
      BY <3>1 DEF Told
    <3> QED
      BY <3>2, <3>3
  <2> QED
    BY <2>8, <2>10
<1>8. Select(rel, p, rows) \subseteq Select(rel, p, others)
  BY <1>7, SelectIs DEF M, N, terms
<1> QED
  BY <1>3, <1>8

-----------------------------------------------------------------------------
(* Rows laid over each other *)
LEMMA Greatest ==
  ASSUME NEW n \in Nat, NEW T \in SUBSET (1..n), T # {}
  PROVE  Max(T) \in T /\ \A y \in T : y <= Max(T)
<1> DEFINE D == {n - y : y \in T}
<1>1. D \in SUBSET Nat /\ D # {}
  OBVIOUS
<1>2. PICK d \in D : \A e \in D : d <= e
  <2> HIDE DEF D
  <2> QED
    BY <1>1, Smallest
<1>3. PICK x \in T : d = n - x
  OBVIOUS
<1>4. ASSUME NEW y \in T
      PROVE  x >= y
  <2>1. d <= n - y
    BY <1>2
  <2> QED
    BY <1>3, <2>1
<1>5. \E u \in T : \A y \in T : u >= y
  BY <1>4
<1>6. Max(T) = CHOOSE u \in T : \A y \in T : u >= y
  BY DEF Max
<1> HIDE DEF D
<1>7. Max(T) \in T /\ \A y \in T : Max(T) >= y
  BY <1>5, <1>6
<1> QED
  BY <1>7

LEMMA GreatestIs ==
  ASSUME NEW n \in Nat, NEW T \in SUBSET (1..n), n \in T
  PROVE  Max(T) = n
<1>1. Max(T) \in T /\ \A y \in T : y <= Max(T)
  BY Greatest
<1>2. Max(T) \in 1..n /\ n <= Max(T)
  BY <1>1
<1> QED
  BY <1>2

LEMMA GivenNext ==
  ASSUME NEW rel, NEW S, NEW wrote \in Seq(S), NEW given \in S, NEW k, NEW n
  PROVE  GivenFor(rel, Append(wrote, given), k, n)
           = IF KeyOf(rel, given) = k /\ n \in Supplied(rel, given)
             THEN GivenFor(rel, wrote, k, n) \cup {Len(wrote) + 1}
             ELSE GivenFor(rel, wrote, k, n)
<1>1. /\ Append(wrote, given) \in Seq(S) /\ DOMAIN Append(wrote, given) = 1..Len(wrote) + 1
      /\ DOMAIN wrote = 1..Len(wrote) /\ Len(wrote) \in Nat
      /\ \A i \in 1..Len(wrote) : Append(wrote, given)[i] = wrote[i]
      /\ Append(wrote, given)[Len(wrote) + 1] = given
  BY AppendProperties
<1> QED
  BY <1>1 DEF GivenFor

LEMMA LaidNext ==
  ASSUME NEW rel, NEW S, NEW wrote \in Seq(S), NEW given \in S, NEW k, NEW row
  PROVE  Laid(rel, Append(wrote, given), k, row)
           = IF KeyOf(rel, given) = k THEN Merged(rel, given, Laid(rel, wrote, k, row))
             ELSE Laid(rel, wrote, k, row)
<1> DEFINE more == Append(wrote, given)
           next == Len(wrote) + 1
           At(seq, n) == IF GivenFor(rel, seq, k, n) = {} THEN row[n] ELSE seq[Max(GivenFor(rel, seq, k, n))][n]
<1>1. /\ Len(wrote) \in Nat /\ DOMAIN wrote = 1..Len(wrote)
      /\ \A i \in 1..Len(wrote) : more[i] = wrote[i]
      /\ more[next] = given
  BY AppendProperties
<1>2. Laid(rel, more, k, row) = [n \in DOMAIN row |-> At(more, n)]
      /\ Laid(rel, wrote, k, row) = [n \in DOMAIN row |-> At(wrote, n)]
  BY DEF Laid
<1>3. ASSUME NEW n, KeyOf(rel, given) = k, n \in Supplied(rel, given)
      PROVE  At(more, n) = given[n]
  <2>1. GivenFor(rel, more, k, n) = GivenFor(rel, wrote, k, n) \cup {next}
    BY <1>3, GivenNext
  <2>2. GivenFor(rel, wrote, k, n) \subseteq 1..Len(wrote)
    BY <1>1 DEF GivenFor
  <2> DEFINE T == GivenFor(rel, wrote, k, n) \cup {next}
  <2>3. T \in SUBSET (1..next) /\ next \in Nat /\ next \in T
    BY <1>1, <2>2
  <2>4. Max(T) = next
    <3> HIDE DEF T, next
    <3> QED
      BY <2>3, GreatestIs
  <2> QED
    BY <1>1, <2>1, <2>4
<1>4. ASSUME NEW n, ~(KeyOf(rel, given) = k /\ n \in Supplied(rel, given))
      PROVE  At(more, n) = At(wrote, n)
  <2>1. GivenFor(rel, more, k, n) = GivenFor(rel, wrote, k, n)
    <3>1. GivenFor(rel, more, k, n)
            = IF KeyOf(rel, given) = k /\ n \in Supplied(rel, given)
              THEN GivenFor(rel, wrote, k, n) \cup {Len(wrote) + 1}
              ELSE GivenFor(rel, wrote, k, n)
      BY GivenNext
    <3> QED
      BY <1>4, <3>1
  <2>2. GivenFor(rel, wrote, k, n) \subseteq 1..Len(wrote)
    BY <1>1 DEF GivenFor
  <2>3. CASE GivenFor(rel, wrote, k, n) # {}
    <3>1. Max(GivenFor(rel, wrote, k, n)) \in 1..Len(wrote)
      BY <1>1, <2>2, <2>3, Greatest
    <3> QED
      BY <1>1, <2>1, <2>3, <3>1
  <2>4. CASE GivenFor(rel, wrote, k, n) = {}
    BY <2>1, <2>4
  <2> QED
    BY <2>3, <2>4
<1> HIDE DEF At, more, next
<1>5. CASE KeyOf(rel, given) = k
  <2>1. Merged(rel, given, Laid(rel, wrote, k, row))
          = [n \in DOMAIN row |-> IF n \in Supplied(rel, given) THEN given[n] ELSE At(wrote, n)]
    BY <1>2 DEF Merged
  <2>2. \A n : At(more, n) = IF n \in Supplied(rel, given) THEN given[n] ELSE At(wrote, n)
    BY <1>3, <1>4, <1>5
  <2>3. Laid(rel, more, k, row) = Merged(rel, given, Laid(rel, wrote, k, row))
    BY <1>2, <2>1, <2>2
  <2> QED
    BY <1>5, <2>3 DEF more
<1>6. CASE KeyOf(rel, given) # k
  <2>1. \A n : At(more, n) = At(wrote, n)
    BY <1>4, <1>6
  <2>2. Laid(rel, more, k, row) = Laid(rel, wrote, k, row)
    BY <1>2, <2>1
  <2> QED
    BY <1>6, <2>2 DEF more
<1> QED
  BY <1>5, <1>6

(* A row that is laid over another has the other's columns, and, where the  *)
(* key was given, that key.                                                 *)
LEMMA LaidIs ==
  ASSUME NEW rel, NEW S, NEW wrote \in Seq(S), NEW k, NEW names, NEW row \in [names -> Value],
         \A given \in S : \A n \in DOMAIN given : given[n] \in Value,
         ToSet(rel.pk) \subseteq names,
         \A i \in DOMAIN wrote : HasKey(rel, wrote[i])
  PROVE  /\ Laid(rel, wrote, k, row) \in [names -> Value]
         /\ (\E i \in DOMAIN wrote : KeyOf(rel, wrote[i]) = k) => KeyOf(rel, Laid(rel, wrote, k, row)) = k
         /\ (\A i \in DOMAIN wrote : KeyOf(rel, wrote[i]) # k) => Laid(rel, wrote, k, row) = row
<1> DEFINE Is(n) == GivenFor(rel, wrote, k, n)
           laid == Laid(rel, wrote, k, row)
<1>1. /\ Len(wrote) \in Nat /\ DOMAIN wrote = 1..Len(wrote) /\ \A i \in DOMAIN wrote : wrote[i] \in S
      /\ DOMAIN row = names
  OBVIOUS
<1>2. laid = [n \in names |-> IF Is(n) = {} THEN row[n] ELSE wrote[Max(Is(n))][n]]
  BY <1>1 DEF Laid
<1>3. ASSUME NEW n, Is(n) # {}
      PROVE  /\ Max(Is(n)) \in DOMAIN wrote /\ KeyOf(rel, wrote[Max(Is(n))]) = k
             /\ n \in Supplied(rel, wrote[Max(Is(n))])
  <2>1. Is(n) \in SUBSET (1..Len(wrote))
    BY <1>1 DEF GivenFor
  <2>2. Max(Is(n)) \in Is(n)
    <3> HIDE DEF Is
    <3> QED
      BY <1>1, <1>3, <2>1, Greatest
  <2> QED
    BY <2>2 DEF GivenFor
<1>4. ASSUME NEW n \in names
      PROVE  laid[n] \in Value
  <2>1. CASE Is(n) = {}
    BY <1>2, <2>1
  <2>2. CASE Is(n) # {}
    <3> DEFINE u == Max(Is(n))
    <3>1. u \in DOMAIN wrote /\ n \in DOMAIN wrote[u]
      BY <1>3, <2>2 DEF Supplied
    <3>2. wrote[u][n] \in Value
      BY <1>1, <3>1
    <3> QED
      BY <1>2, <2>2, <3>2
  <2> QED
    BY <2>1, <2>2
<1>5. laid \in [names -> Value]
  BY <1>2, <1>4
<1>6. ASSUME NEW i \in DOMAIN wrote, KeyOf(rel, wrote[i]) = k
      PROVE  KeyOf(rel, laid) = k
  <2>1. ASSUME NEW n \in ToSet(rel.pk)
        PROVE  laid[n] = k[n]
    <3>1. i \in Is(n)
      BY <1>6 DEF GivenFor, HasKey
    <3>2. Is(n) # {}
      BY <3>1
    <3>3. laid[n] = wrote[Max(Is(n))][n]
      BY <1>2, <3>2
    <3>4. KeyOf(rel, wrote[Max(Is(n))])[n] = wrote[Max(Is(n))][n]
      BY DEF KeyOf
    <3> QED
      BY <1>3, <3>2, <3>3, <3>4
  <2>2. k = [n \in ToSet(rel.pk) |-> k[n]]
    BY <1>6 DEF KeyOf
  <2> HIDE DEF laid
  <2>3. KeyOf(rel, laid) = [n \in ToSet(rel.pk) |-> laid[n]]
    BY DEF KeyOf
  <2>4. [n \in ToSet(rel.pk) |-> laid[n]] = [n \in ToSet(rel.pk) |-> k[n]]
    BY <2>1
  <2> QED
    BY <2>2, <2>3, <2>4
<1>7. ASSUME \A i \in DOMAIN wrote : KeyOf(rel, wrote[i]) # k
      PROVE  laid = row
  <2>1. \A n : Is(n) = {}
    BY <1>7 DEF GivenFor
  <2>2. laid = [n \in names |-> row[n]]
    BY <1>2, <2>1
  <2> QED
    BY <1>1, <2>2
<1> QED
  BY <1>5, <1>6, <1>7

(* A table of the topper's, as it is kept: whole rows, told apart by their  *)
(* keys.                                                                    *)
RowsFor(t) == [NamesIn(Created[t].columns) -> Value]
Keyed(t, rows) ==
  /\ IsFiniteSet(rows) /\ rows \subseteq RowsFor(t)
  /\ Identify(rows, ToSet(Created[t].pk))

LEMMA KeysIdentify ==
  ASSUME NEW t \in DOMAIN Created, NEW rows, Keyed(t, rows)
  PROVE  \A r, s \in rows : KeyOf(WriteTable(t), r) = KeyOf(WriteTable(t), s) => r = s
<1> DEFINE rel == WriteTable(t)
<1>1. rel.pk = Created[t].pk
  BY WriteTableIs
<1> SUFFICES ASSUME NEW r \in rows, NEW s \in rows, KeyOf(rel, r) = KeyOf(rel, s)
             PROVE  r = s
  OBVIOUS
<1>2. \A n \in ToSet(rel.pk) : KeyOf(rel, r)[n] = r[n] /\ KeyOf(rel, s)[n] = s[n]
  BY DEF KeyOf
<1>3. \A n \in ToSet(rel.pk) : r[n] = s[n]
  BY <1>2
<1> HIDE DEF rel
<1> QED
  BY <1>1, <1>3 DEF Keyed, Identify

LEMMA BeneathIs ==
  ASSUME NEW t \in DOMAIN Created, NEW rows, Keyed(t, rows), NEW k
  PROVE  \E b \in RowsFor(t) :
           /\ Beneath(WriteTable(t), rows, Defaults[t], k) = {b}
           /\ \/ WithKey(WriteTable(t), rows, k) = {} /\ b = Defaults[t]
              \/ WithKey(WriteTable(t), rows, k) = {b}
<1> DEFINE rel == WriteTable(t)
<1>1. Defaults[t] \in RowsFor(t)
  BY CreatedAssumption DEF RowsFor
<1>2. CASE WithKey(rel, rows, k) = {}
  BY <1>1, <1>2 DEF Beneath
<1>3. CASE WithKey(rel, rows, k) # {}
  <2>1. PICK b : b \in WithKey(rel, rows, k)
    BY <1>3
  <2>2. WithKey(rel, rows, k) = {b} /\ b \in RowsFor(t)
    BY <2>1, KeysIdentify DEF WithKey, Keyed
  <2> QED
    BY <1>3, <2>2 DEF Beneath
<1> QED
  BY <1>2, <1>3

(* An upsert under way: what it has written is what it was given, laid over *)
(* the committed rows.                                                      *)
Given(S) == \A given \in S : \A n \in DOMAIN given : given[n] \in Value

Laying(t, S, wrote, w, rows) ==
  LET rel == WriteTable(t)
  IN /\ wrote \in Seq(S) /\ \A i \in DOMAIN wrote : HasKey(rel, wrote[i])
     /\ DOMAIN w = {KeyOf(rel, wrote[i]) : i \in DOMAIN wrote}
     /\ \A k \in DOMAIN w : w[k] = {Laid(rel, wrote, k, row) : row \in Beneath(rel, rows, Defaults[t], k)}

LEMMA LayingRows ==
  ASSUME NEW t \in DOMAIN Created, NEW S, Given(S), NEW wrote, NEW w, NEW rows, Keyed(t, rows),
         Laying(t, S, wrote, w, rows), NEW k \in DOMAIN w
  PROVE  \E x \in RowsFor(t) : w[k] = {x} /\ KeyOf(WriteTable(t), x) = k
<1> DEFINE rel == WriteTable(t)
           names == NamesIn(Created[t].columns)
<1>1. PICK b \in RowsFor(t) : Beneath(rel, rows, Defaults[t], k) = {b}
  BY BeneathIs
<1>2. w[k] = {Laid(rel, wrote, k, b)}
  BY <1>1 DEF Laying
<1>3. ToSet(rel.pk) \subseteq names /\ b \in [names -> Value]
  BY WriteTableIs DEF RowsFor
<1>4. wrote \in Seq(S) /\ \A i \in DOMAIN wrote : HasKey(rel, wrote[i])
  BY DEF Laying
<1>5. \E i \in DOMAIN wrote : KeyOf(rel, wrote[i]) = k
  BY DEF Laying
<1> HIDE DEF rel, names
<1>6. Laid(rel, wrote, k, b) \in [names -> Value] /\ KeyOf(rel, Laid(rel, wrote, k, b)) = k
  BY <1>3, <1>4, <1>5, LaidIs DEF Given
<1> QED
  BY <1>2, <1>6 DEF rel, names, RowsFor

LEMMA LayingNext ==
  ASSUME NEW t \in DOMAIN Created, NEW S, Given(S), NEW wrote, NEW w, NEW rows, Keyed(t, rows),
         Laying(t, S, wrote, w, rows), NEW given \in S, HasKey(WriteTable(t), given)
  PROVE  LET rel == WriteTable(t)
             k == KeyOf(rel, given)
             old == IF k \in DOMAIN w THEN w[k] ELSE WithKey(rel, rows, k)
             row == IF old = {} THEN Inserted(rel, given, Defaults[t])
                    ELSE Merged(rel, given, CHOOSE o \in old : TRUE)
         IN /\ Laying(t, S, Append(wrote, given), Put(w, k, {row}), rows)
            /\ row \in RowsFor(t) /\ KeyOf(rel, row) = k
<1> DEFINE rel == WriteTable(t)
           k == KeyOf(rel, given)
           old == IF k \in DOMAIN w THEN w[k] ELSE WithKey(rel, rows, k)
           row == IF old = {} THEN Inserted(rel, given, Defaults[t])
                  ELSE Merged(rel, given, CHOOSE o \in old : TRUE)
           more == Append(wrote, given)
           w2 == Put(w, k, {row})
<1>1. /\ wrote \in Seq(S) /\ \A i \in DOMAIN wrote : HasKey(rel, wrote[i])
      /\ DOMAIN w = {KeyOf(rel, wrote[i]) : i \in DOMAIN wrote}
      /\ \A u \in DOMAIN w : w[u] = {Laid(rel, wrote, u, r) : r \in Beneath(rel, rows, Defaults[t], u)}
  BY DEF Laying
<1>2. /\ more \in Seq(S) /\ DOMAIN more = DOMAIN wrote \cup {Len(wrote) + 1}
      /\ Len(wrote) + 1 \notin DOMAIN wrote
      /\ \A i \in DOMAIN wrote : more[i] = wrote[i]
      /\ more[Len(wrote) + 1] = given
  BY <1>1, AppendProperties
<1>3. ToSet(rel.pk) \subseteq NamesIn(Created[t].columns)
  BY WriteTableIs
<1>4. PICK b \in RowsFor(t) :
        /\ Beneath(rel, rows, Defaults[t], k) = {b}
        /\ \/ WithKey(rel, rows, k) = {} /\ b = Defaults[t]
           \/ WithKey(rel, rows, k) = {b}
  BY BeneathIs
<1>5. b \in [NamesIn(Created[t].columns) -> Value]
  BY <1>4 DEF RowsFor
<1>6. row = Merged(rel, given, Laid(rel, wrote, k, b))
  <2>1. CASE k \in DOMAIN w
    <3>1. w[k] = {Laid(rel, wrote, k, b)}
      BY <1>1, <1>4, <2>1
    <3> QED
      BY <2>1, <3>1
  <2>2. CASE k \notin DOMAIN w
    <3>1. \A i \in DOMAIN wrote : KeyOf(rel, wrote[i]) # k
      BY <1>1, <2>2
    <3>2. Laid(rel, wrote, k, b) = b
      <4> HIDE DEF rel, k
      <4> QED
        BY <1>1, <1>3, <1>5, <3>1, LaidIs DEF Given
    <3>3. \/ old = {} /\ b = Defaults[t]
          \/ old = {b}
      BY <1>4, <2>2
    <3> QED
      BY <3>2, <3>3 DEF Inserted
  <2> QED
    BY <2>1, <2>2
<1> HIDE DEF row, old
<1>7. row = Laid(rel, more, k, b)
  BY <1>1, <1>6, LaidNext
<1>8. \A i \in DOMAIN more : HasKey(rel, more[i])
  BY <1>1, <1>2
<1>9. row \in RowsFor(t) /\ KeyOf(rel, row) = k
  <2>1. \E i \in DOMAIN more : KeyOf(rel, more[i]) = k
    BY <1>2
  <2> HIDE DEF rel, k, more
  <2> QED
    BY <1>2, <1>3, <1>5, <1>7, <1>8, <2>1, LaidIs DEF Given, RowsFor
<1>10. DOMAIN w2 = {KeyOf(rel, more[i]) : i \in DOMAIN more}
  <2>1. DOMAIN w2 = DOMAIN w \cup {k}
    BY DEF Put
  <2> HIDE DEF rel, more, w2
  <2> QED
    BY <1>1, <1>2, <2>1
<1>11. ASSUME NEW u \in DOMAIN w2
       PROVE  w2[u] = {Laid(rel, more, u, r) : r \in Beneath(rel, rows, Defaults[t], u)}
  <2>1. CASE u = k
    <3>1. w2[u] = {row}
      BY <2>1 DEF Put
    <3> QED
      BY <1>4, <1>7, <2>1, <3>1
  <2>2. CASE u # k
    <3>1. u \in DOMAIN w /\ w2[u] = w[u]
      BY <2>2 DEF Put
    <3>2. \A r : Laid(rel, more, u, r) = Laid(rel, wrote, u, r)
      BY <1>1, <2>2, LaidNext
    <3> QED
      BY <1>1, <3>1, <3>2
  <2> QED
    BY <2>1, <2>2
<1>12. Laying(t, S, more, w2, rows)
  <2> HIDE DEF more, w2
  <2> QED
    BY <1>2, <1>8, <1>10, <1>11 DEF Laying
<1> QED
  BY <1>9, <1>12 DEF row, old

(* What a commit leaves. *)
After(t, w, rows) ==
  {row \in rows : KeyOf(WriteTable(t), row) \notin DOMAIN w} \cup UNION {w[k] : k \in DOMAIN w}

Leaves(t, w) ==
  /\ \A k \in DOMAIN w : w[k] = {} \/ \E x \in RowsFor(t) : w[k] = {x} /\ KeyOf(WriteTable(t), x) = k
  /\ IsFiniteSet(UNION {w[k] : k \in DOMAIN w})

LEMMA LayingLeaves ==
  ASSUME NEW t \in DOMAIN Created, NEW S, Given(S), NEW wrote, NEW w, NEW rows, Keyed(t, rows),
         Laying(t, S, wrote, w, rows)
  PROVE  Leaves(t, w)
<1> DEFINE rel == WriteTable(t)
           U == UNION {w[k] : k \in DOMAIN w}
           n == Len(wrote)
           f == [i \in 1..n |-> CHOOSE x : x \in w[KeyOf(rel, wrote[i])]]
<1>1. \A k \in DOMAIN w : \E x \in RowsFor(t) : w[k] = {x} /\ KeyOf(rel, x) = k
  BY LayingRows
<1>2. n \in Nat /\ DOMAIN wrote = 1..n /\ DOMAIN w = {KeyOf(rel, wrote[i]) : i \in 1..n}
  BY DEF Laying
<1>3. \A i \in 1..n : KeyOf(rel, wrote[i]) \in DOMAIN w
  BY <1>2
<1>4. \A i \in 1..n : w[KeyOf(rel, wrote[i])] = {f[i]}
  BY <1>1, <1>3
<1> HIDE DEF f
<1>5. f \in [1..n -> U]
  <2>1. \A i \in 1..n : f[i] \in U
    BY <1>3, <1>4
  <2>2. DOMAIN f = 1..n /\ f = [i \in 1..n |-> f[i]]
    BY DEF f
  <2> QED
    BY <2>1, <2>2
<1>6. \A x \in U : \E i \in 1..n : f[i] = x
  <2> SUFFICES ASSUME NEW k \in DOMAIN w, NEW x \in w[k] PROVE \E i \in 1..n : f[i] = x
    OBVIOUS
  <2>1. PICK i \in 1..n : KeyOf(rel, wrote[i]) = k
    BY <1>2
  <2> QED
    BY <1>4, <2>1
<1>7. IsFiniteSet(U)
  <2>1. f \in Surjection(1..n, U)
    BY <1>5, <1>6 DEF Surjection
  <2> QED
    BY <1>2, <2>1, FS_Surjection, FS_Interval
<1> QED
  BY <1>1, <1>7 DEF Leaves

LEMMA AfterIs ==
  ASSUME NEW t \in DOMAIN Created, NEW w, NEW rows, Keyed(t, rows), Leaves(t, w)
  PROVE  /\ Keyed(t, After(t, w, rows))
         /\ \A k : k \notin DOMAIN w =>
              WithKey(WriteTable(t), After(t, w, rows), k) = WithKey(WriteTable(t), rows, k)
         /\ \A k \in DOMAIN w : WithKey(WriteTable(t), After(t, w, rows), k) = w[k]
<1> DEFINE rel == WriteTable(t)
           R == {row \in rows : KeyOf(rel, row) \notin DOMAIN w}
           U == UNION {w[k] : k \in DOMAIN w}
           A == After(t, w, rows)
<1>1. A = R \cup U
  BY DEF After
<1>2. \A x \in U : \E k \in DOMAIN w : w[k] = {x} /\ KeyOf(rel, x) = k /\ x \in RowsFor(t)
  BY DEF Leaves
<1>3. \A k \in DOMAIN w : \A x \in w[k] : KeyOf(rel, x) = k
  BY DEF Leaves
<1>4. R \subseteq rows /\ \A r \in R : KeyOf(rel, r) \notin DOMAIN w
  OBVIOUS
<1>5. IsFiniteSet(A)
  BY <1>1, <1>4, FS_Subset, FS_Union DEF Keyed, Leaves
<1>6. A \subseteq RowsFor(t)
  BY <1>1, <1>2, <1>4 DEF Keyed
<1>7. ASSUME NEW r \in A, NEW s \in A, KeyOf(rel, r) = KeyOf(rel, s)
      PROVE  r = s
  <2>1. CASE r \in R /\ s \in R
    BY <1>7, <2>1, KeysIdentify
  <2>2. CASE r \in U /\ s \in U
    BY <1>2, <1>7, <2>2
  <2>3. ~(r \in R /\ s \in U) /\ ~(r \in U /\ s \in R)
    BY <1>2, <1>4, <1>7
  <2> QED
    BY <1>1, <2>1, <2>2, <2>3
<1>8. ASSUME NEW r \in A, NEW s \in A, \A n \in ToSet(Created[t].pk) : r[n] = s[n]
      PROVE  r = s
  <2>1. rel.pk = Created[t].pk
    BY WriteTableIs
  <2>2. KeyOf(rel, r) = KeyOf(rel, s)
    BY <1>8, <2>1 DEF KeyOf
  <2> QED
    BY <1>7, <2>2
<1>9. Keyed(t, A)
  BY <1>5, <1>6, <1>8 DEF Keyed, Identify
<1>10. ASSUME NEW k, k \notin DOMAIN w
       PROVE  WithKey(rel, A, k) = WithKey(rel, rows, k)
  BY <1>1, <1>2, <1>10 DEF WithKey
<1>11. ASSUME NEW k \in DOMAIN w
       PROVE  WithKey(rel, A, k) = w[k]
  BY <1>1, <1>2, <1>3, <1>4, <1>11 DEF WithKey
<1> QED
  BY <1>9, <1>10, <1>11

-----------------------------------------------------------------------------
(* A request that was admitted *)
Whole(q) ==
  q = [pc |-> q.pc, sent |-> q.sent, status |-> q.status, r |-> q.r, rel |-> q.rel,
       p |-> q.p, left |-> q.left, wrote |-> q.wrote, data |-> q.data]

OverRelation(q) ==
  \/ ReadRelation(q.rel) /\ q.r.method = "GET"
  \/ q.r.place[2] \in DOMAIN Created /\ q.rel = WriteTable(q.r.place[2])

Doing(q) ==
  CASE q.r.method = "GET"    -> Asks(q.rel, q.p) /\ q.pc \in {"GET", "COUNT", "answered"}
    [] q.r.method = "POST"   -> q.p.select = {} /\ q.pc \in {"POST", "answered"}
    [] q.r.method = "DELETE" -> Asks(q.rel, q.p) /\ q.pc \in {"DELETE", "deleting", "answered"}
    [] OTHER -> FALSE

Taken(q) == q.r \in Requests /\ OverRelation(q) /\ Doing(q)

(* What it has found of plaidsync's rows. *)
Shows(q, sec) ==
  LET rows == Public[sec][q.rel.source] IN
  q.r.method = "GET" /\ ReadRelation(q.rel) =>
    /\ q.pc = "COUNT" => q.data \in Select(q.rel, q.p, rows)
    /\ q.pc = "answered" /\ q.status = 200 =>
         /\ q.data \in Select(q.rel, q.p, rows)
         /\ q.p.count => q.left = <<Total(q.rel, q.p, rows)>>

(* What it has written.  w is its transaction, rows what is committed: the  *)
(* last row it returns for a key is the one it has written, and each row of *)
(* the body is written, is nothing but a key, or is yet to come.            *)
LastUnder(rel, data, i) == \A j \in (i + 1)..Len(data) : KeyOf(rel, data[i]) # KeyOf(rel, data[j])

Writes(q, w, rows) ==
  LET t == q.r.place[2]
      rel == WriteTable(t)
      S == ToSet(q.r.body)
  IN /\ Laying(t, S, q.wrote, w, rows)
     /\ q.left \in Seq(S)
     /\ q.data \in Seq(RowsFor(t))
     /\ \A i \in DOMAIN q.data :
          LastUnder(rel, q.data, i) => KeyOf(rel, q.data[i]) \in DOMAIN w /\ w[KeyOf(rel, q.data[i])] = {q.data[i]}
     /\ \A given \in S : \/ KeyOf(rel, given) \in DOMAIN w
                         \/ KeyOnly(rel, given)
                         \/ given \in ToSet(q.left)

ClientInv(q, w, st, sec) ==
  /\ q.pc # "idle" => Whole(q) /\ Taken(q) /\ Shows(q, sec)
  /\ q.pc \notin {"POST", "deleting"} => w = NoWrites
  /\ q.pc = "POST" => q.r.method = "POST" /\ Writes(q, w, st[q.r.place[2]])
  /\ q.pc = "deleting" => \A k \in DOMAIN w : w[k] = {}

Apart == \A c, d \in Clients : c # d /\ Name(c) = Name(d) => DOMAIN tx[c] \cap DOMAIN tx[d] = {}

StoredInv ==
  /\ merged = stored
  /\ \A t \in DOMAIN Created : t \in DOMAIN stored /\ Keyed(t, stored[t])

ServeInv ==
  /\ DOMAIN req = Clients /\ DOMAIN tx = Clients
  /\ StoredInv /\ Apart
  /\ \A c \in Clients : ClientInv(req[c], tx[c], stored, secrets)

LEMMA NothingWritten == DOMAIN NoWrites = {}
BY DEF NoWrites

LEMMA IdleInv ==
  ASSUME NEW n, NEW st, NEW sec
  PROVE  ClientInv(Idle(n), NoWrites, st, sec)
<1>1. Idle(n).pc = "idle"
  BY DEF Idle
<1> QED
  BY <1>1 DEF ClientInv

LEMMA ServeInit ==
  ASSUME Init
  PROVE  ServeInv
<1>1. DOMAIN req = Clients /\ DOMAIN tx = Clients /\ \A c \in Clients : req[c] = Idle(0) /\ tx[c] = NoWrites
  BY DEF Init
<1>2. \A c \in Clients : ClientInv(req[c], tx[c], stored, secrets)
  BY <1>1, IdleInv
<1>3. Apart
  BY <1>1, NothingWritten DEF Apart
<1>4. StoredInv
  <2>1. merged = stored /\ stored \in Contents
    BY DEF Init
  <2>2. \A t \in DOMAIN Created : t \in DOMAIN stored /\ Keyed(t, stored[t])
    BY <2>1, CreatedAssumption DEF Keyed, RowsFor
  <2> QED
    BY <2>1, <2>2 DEF StoredInv
<1> QED
  BY <1>1, <1>2, <1>3, <1>4 DEF ServeInv

(* Receive *)
LEMMA CatIs ==
  ASSUME StartInv, proc = "serving"
  PROVE  Cat \in Load(Database(Sentinel), SpecWith(tables))
<1>1. catalog = {Sentinel} /\ Loads[Sentinel][tables] # {}
  BY DEF StartInv
<1>2. (CHOOSE v \in catalog : TRUE) = Sentinel
  BY <1>1
<1>3. Cat \in Loads[Sentinel][tables]
  BY <1>1, <1>2 DEF Cat
<1> QED
  BY <1>3, LoadsAre, SchemaAssumption DEF StartInv

LEMMA Admission ==
  ASSUME StartInv, proc = "serving", NEW r \in Requests, Admitted(r)
  PROVE  /\ \/ ReadRelation(Rel(r)) /\ r.method = "GET"
            \/ r.place[2] \in DOMAIN Created /\ Rel(r) = WriteTable(r.place[2])
         /\ r.method \in {"GET", "POST", "DELETE"}
         /\ r.method # "POST" => Asks(Rel(r), Params(r))
         /\ r.method = "POST" => Params(r).select = {}
<1>1. PICK rel \in Relations(r.place) : r.method \in Methods(rel) /\ WellFormed(rel, r)
  BY DEF Admitted
<1>2. Rel(r) = rel
  <2>1. \A x, y \in Relations(r.place) : x = y
    BY DEF Relations
  <2> QED
    BY <2>1 DEF Rel
<1>3. \/ ReadRelation(rel)
      \/ r.place[2] \in DOMAIN Created /\ rel = WriteTable(r.place[2])
  <2>1. \/ r.place[2] \in DOMAIN Cat.views /\ rel = Cat.views[r.place[2]]
        \/ r.place[2] \in DOMAIN Cat.tables /\ rel = Cat.tables[r.place[2]]
    BY DEF Relations
  <2> QED
    BY <2>1, CatIs, CatalogIs
<1>4. ReadRelation(rel) => r.method = "GET"
  <2>1. ReadRelation(rel) => rel.mode = "read"
    BY ReadSound DEF Sound
  <2> QED
    BY <1>1, <2>1 DEF Methods
<1>5. r.method \in {"GET", "POST", "DELETE"}
  BY <1>1 DEF Methods
<1>6. ASSUME r.method # "POST"
      PROVE  Asks(Rel(r), Params(r))
  <2>1. \E p \in Parse(rel, r.query) : TRUE
    BY <1>1, <1>6 DEF WellFormed
  <2>2. Params(r) \in Parse(rel, r.query)
    BY <1>2, <1>6, <2>1 DEF Params
  <2> QED
    BY <1>2, <2>2, ParseAsks
<1>7. r.method = "POST" => Params(r).select = {}
  BY DEF Params
<1> QED
  BY <1>2, <1>3, <1>4, <1>5, <1>6, <1>7

LEMMA LayingNothing ==
  ASSUME NEW t, NEW S, NEW rows
  PROVE  Laying(t, S, <<>>, NoWrites, rows)
BY NothingWritten DEF Laying

LEMMA ReceivedInv ==
  ASSUME StartInv, proc = "serving", NEW r \in Requests, Admitted(r), NEW n
  PROVE  ClientInv([pc |-> r.method, sent |-> n, status |-> 0, r |-> r, rel |-> Rel(r),
                    p |-> Params(r), left |-> r.body, wrote |-> <<>>, data |-> <<>>],
                   NoWrites, stored, secrets)
<1> DEFINE q == [pc |-> r.method, sent |-> n, status |-> 0, r |-> r, rel |-> Rel(r),
                 p |-> Params(r), left |-> r.body, wrote |-> <<>>, data |-> <<>>]
<1>1. /\ q.pc = r.method /\ q.status = 0 /\ q.r = r /\ q.rel = Rel(r) /\ q.p = Params(r)
      /\ q.left = r.body /\ q.wrote = <<>> /\ q.data = <<>>
  OBVIOUS
<1>2. Whole(q)
  BY DEF Whole
<1> HIDE DEF q
<1>3. Taken(q)
  BY <1>1, Admission DEF Taken, OverRelation, Doing
<1>4. Shows(q, secrets)
  BY <1>1, Admission DEF Shows
<1>5. r.method \in {"GET", "POST", "DELETE"}
  BY Admission
<1>6. Writes(q, NoWrites, stored[q.r.place[2]])
  <2>1. r.body \in Seq(ToSet(r.body))
    BY RequestsAssumption
  <2> QED
    BY <1>1, <2>1, LayingNothing DEF Writes
<1>7. ClientInv(q, NoWrites, stored, secrets)
  BY <1>1, <1>2, <1>3, <1>4, <1>5, <1>6 DEF ClientInv
<1> QED
  BY <1>7 DEF q

(* A step of one client leaves the others as they are. *)
LEMMA ClientMoves ==
  ASSUME ServeInv, NEW c \in Clients, UNCHANGED <<stored, merged>>, UNCHANGED process,
         DOMAIN req' = Clients, DOMAIN tx' = Clients,
         \A d \in Clients \ {c} : req'[d] = req[d] /\ tx'[d] = tx[d],
         ClientInv(req'[c], tx'[c], stored, secrets),
         \A d \in Clients \ {c} : req'[c].r.place[2] = Name(d) => DOMAIN tx'[c] \cap DOMAIN tx[d] = {}
  PROVE  ServeInv'
<1>1. StoredInv'
  BY DEF ServeInv, StoredInv
<1>2. \A d \in Clients : ClientInv(req'[d], tx'[d], stored', secrets')
  BY DEF ServeInv, process
<1>3. Apart'
  <2> SUFFICES ASSUME NEW d \in Clients, NEW e \in Clients, d # e,
                      req'[d].r.place[2] = req'[e].r.place[2]
               PROVE  DOMAIN tx'[d] \cap DOMAIN tx'[e] = {}
    BY DEF Apart, Name
  <2>1. CASE d = c
    BY <2>1 DEF Name
  <2>2. CASE e = c
    BY <2>2 DEF Name
  <2>3. CASE d # c /\ e # c
    BY <2>3 DEF ServeInv, Apart, Name
  <2> QED
    BY <2>1, <2>2, <2>3
<1> QED
  BY <1>1, <1>2, <1>3 DEF ServeInv

LEMMA ClientKeeps ==
  ASSUME ServeInv, NEW c \in Clients
  PROVE  /\ ClientInv(req[c], tx[c], stored, secrets)
         /\ Active(c) => Whole(req[c]) /\ Taken(req[c]) /\ Shows(req[c], secrets)
BY DEF ServeInv, ClientInv, Active

LEMMA ReceiveServe ==
  ASSUME StartInv, ServeInv, NEW c \in Clients, NEW r \in Requests, Receive(c, r)
  PROVE  ServeInv'
<1>1. proc = "serving" /\ req[c].pc = "idle"
  BY DEF Receive, Active
<1>2. tx[c] = NoWrites
  BY <1>1 DEF ServeInv, ClientInv
<1>3. /\ UNCHANGED <<stored, merged>> /\ UNCHANGED process /\ tx' = tx
      /\ DOMAIN req' = Clients /\ DOMAIN tx' = Clients
      /\ \A d \in Clients \ {c} : req'[d] = req[d] /\ tx'[d] = tx[d]
      /\ tx'[c] = NoWrites
  BY <1>2 DEF Receive, ServeInv
<1>4. ClientInv(req'[c], NoWrites, stored, secrets)
  <2>1. CASE Admitted(r)
    <3>1. req'[c] = [pc |-> r.method, sent |-> req[c].sent + 1, status |-> 0, r |-> r, rel |-> Rel(r),
                     p |-> Params(r), left |-> r.body, wrote |-> <<>>, data |-> <<>>]
      BY <2>1 DEF Receive, ServeInv
    <3> QED
      BY <1>1, <2>1, <3>1, ReceivedInv
  <2>2. CASE ~Admitted(r)
    <3>1. req'[c] = Idle(req[c].sent + 1)
      BY <2>2 DEF Receive, ServeInv
    <3> QED
      BY <3>1, IdleInv
  <2> QED
    BY <2>1, <2>2
<1> QED
  BY <1>3, <1>4, ClientMoves, NothingWritten

(* An answer, and the end of what was written. *)
LEMMA EndsServe ==
  ASSUME ServeInv, NEW c \in Clients, UNCHANGED <<stored, merged>>, UNCHANGED process,
         DOMAIN req' = Clients, DOMAIN tx' = Clients,
         \A d \in Clients \ {c} : req'[d] = req[d] /\ tx'[d] = tx[d],
         tx'[c] = NoWrites, req'[c].pc \notin {"POST", "deleting"},
         req'[c].pc # "idle" => Whole(req'[c]) /\ Taken(req'[c]) /\ Shows(req'[c], secrets)
  PROVE  ServeInv'
<1>1. ClientInv(req'[c], tx'[c], stored, secrets)
  BY DEF ClientInv
<1> QED
  BY <1>1, ClientMoves, NothingWritten

LEMMA AnswerServe ==
  ASSUME ServeInv, NEW c \in Clients, InDatabase(c), NEW status, status # 200, Answer(c, status),
         UNCHANGED <<stored, merged>>, UNCHANGED process
  PROVE  ServeInv'
<1> DEFINE q == req[c]
           q2 == req'[c]
<1>1. Active(c)
  BY DEF InDatabase, Active
<1>2. Whole(q) /\ Taken(q)
  BY <1>1, ClientKeeps
<1>3. /\ q2 = [q EXCEPT !.pc = "answered", !.status = status]
      /\ DOMAIN req' = Clients /\ DOMAIN tx' = Clients
      /\ \A d \in Clients \ {c} : req'[d] = req[d] /\ tx'[d] = tx[d]
      /\ tx'[c] = NoWrites
  BY DEF Answer, ServeInv
<1> HIDE DEF q, q2
<1>4. /\ q2.pc = "answered" /\ q2.status = status /\ q2.r = q.r /\ q2.rel = q.rel /\ q2.p = q.p
      /\ Whole(q2)
  BY <1>2, <1>3 DEF Whole
<1>5. Taken(q2)
  BY <1>2, <1>4 DEF Taken, OverRelation, Doing
<1>6. Shows(q2, secrets)
  BY <1>4 DEF Shows
<1> QED
  BY <1>3, <1>4, <1>5, <1>6, EndsServe DEF q2

LEMMA CloseServe ==
  ASSUME ServeInv, NEW c \in Clients, Close(c)
  PROVE  ServeInv'
<1>1. req[c].pc = "answered" /\ UNCHANGED <<stored, merged>> /\ UNCHANGED process /\ tx' = tx
  BY DEF Close
<1>2. tx[c] = NoWrites
  BY <1>1 DEF ServeInv, ClientInv
<1>3. /\ req'[c] = Idle(req[c].sent) /\ DOMAIN req' = Clients /\ DOMAIN tx' = Clients
      /\ \A d \in Clients \ {c} : req'[d] = req[d] /\ tx'[d] = tx[d]
  BY <1>1 DEF Close, ServeInv
<1>4. req'[c].pc = "idle"
  BY <1>3 DEF Idle
<1> QED
  BY <1>1, <1>2, <1>3, <1>4, EndsServe

LEMMA ReadMode ==
  ASSUME NEW q, Taken(q), ReadRelation(q.rel)
  PROVE  q.rel.mode = "read"
BY ReadSound DEF Sound

LEMMA ReadServe ==
  ASSUME ServeInv, NEW c \in Clients, Read(c)
  PROVE  ServeInv'
<1> DEFINE q == req[c]
           q2 == req'[c]
<1>1. q.pc = "GET" /\ UNCHANGED <<stored, merged>> /\ UNCHANGED process /\ tx' = tx
  BY DEF Read
<1>2. Whole(q) /\ Taken(q) /\ tx[c] = NoWrites
  BY <1>1, ClientKeeps DEF Active, ClientInv
<1>3. PICK data \in Select(q.rel, q.p, RowsOf(q.rel)) :
        req' = [req EXCEPT ![c].data = data,
                           ![c].pc = IF req[c].p.count THEN "COUNT" ELSE "answered",
                           ![c].status = 200]
  BY DEF Read, Relation
<1>4. /\ DOMAIN req' = Clients /\ DOMAIN tx' = Clients
      /\ \A d \in Clients \ {c} : req'[d] = req[d] /\ tx'[d] = tx[d]
      /\ q2 = [q EXCEPT !.data = data, !.pc = IF q.p.count THEN "COUNT" ELSE "answered", !.status = 200]
  BY <1>1, <1>3 DEF ServeInv
<1> HIDE DEF q, q2
<1>5. /\ q2.data = data /\ q2.pc = IF q.p.count THEN "COUNT" ELSE "answered"
      /\ q2.r = q.r /\ q2.rel = q.rel /\ q2.p = q.p /\ Whole(q2)
  BY <1>2, <1>4 DEF Whole
<1>6. q.r.method = "GET"
  BY <1>1, <1>2 DEF Taken, Doing
<1>7. Taken(q2)
  BY <1>2, <1>5, <1>6 DEF Taken, OverRelation, Doing
<1>8. Shows(q2, secrets)
  <2>1. ReadRelation(q.rel) => data \in Select(q.rel, q.p, Public[secrets][q.rel.source])
    BY <1>2, <1>3, ReadMode DEF RowsOf, q
  <2> QED
    BY <1>5, <2>1 DEF Shows
<1>9. q2.pc \notin {"POST", "deleting"}
  BY <1>5
<1> QED
  BY <1>1, <1>2, <1>4, <1>5, <1>7, <1>8, <1>9, EndsServe DEF q2

LEMMA CountServe ==
  ASSUME ServeInv, NEW c \in Clients, Count(c)
  PROVE  ServeInv'
<1> DEFINE q == req[c]
           q2 == req'[c]
           total == Total(q.rel, q.p, RowsOf(q.rel))
<1>1. q.pc = "COUNT" /\ UNCHANGED <<stored, merged>> /\ UNCHANGED process /\ tx' = tx
  BY DEF Count
<1>2. Whole(q) /\ Taken(q) /\ Shows(q, secrets) /\ tx[c] = NoWrites
  BY <1>1, ClientKeeps DEF Active, ClientInv
<1>4. /\ DOMAIN req' = Clients /\ DOMAIN tx' = Clients
      /\ \A d \in Clients \ {c} : req'[d] = req[d] /\ tx'[d] = tx[d]
      /\ q2 = [q EXCEPT !.pc = "answered", !.left = <<total>>]
  BY <1>1 DEF ServeInv, Count, Relation
<1> HIDE DEF q, q2
<1>5. /\ q2.data = q.data /\ q2.pc = "answered" /\ q2.left = <<total>>
      /\ q2.r = q.r /\ q2.rel = q.rel /\ q2.p = q.p /\ Whole(q2)
  BY <1>2, <1>4 DEF Whole
<1>6. q.r.method = "GET"
  BY <1>1, <1>2 DEF Taken, Doing
<1>7. Taken(q2)
  BY <1>2, <1>5, <1>6 DEF Taken, OverRelation, Doing
<1>8. Shows(q2, secrets)
  <2>1. ReadRelation(q.rel) => total = Total(q.rel, q.p, Public[secrets][q.rel.source])
    BY <1>2, ReadMode DEF RowsOf
  <2>2. ReadRelation(q.rel) => q.data \in Select(q.rel, q.p, Public[secrets][q.rel.source])
    BY <1>1, <1>2, <1>6 DEF Shows
  <2> QED
    BY <1>5, <2>1, <2>2 DEF Shows
<1> QED
  BY <1>1, <1>2, <1>4, <1>5, <1>7, <1>8, EndsServe DEF q2

LEMMA PickServe ==
  ASSUME ServeInv, NEW c \in Clients, Pick(c)
  PROVE  ServeInv'
<1> DEFINE q == req[c]
           q2 == req'[c]
<1>1. q.pc = "DELETE" /\ UNCHANGED <<stored, merged>> /\ UNCHANGED process /\ tx' = tx
  BY DEF Pick
<1>2. Whole(q) /\ Taken(q) /\ tx[c] = NoWrites
  BY <1>1, ClientKeeps DEF Active, ClientInv
<1>3. PICK s : req' = [req EXCEPT ![c].pc = "deleting", ![c].left = s]
  BY DEF Pick
<1>4. /\ DOMAIN req' = Clients /\ DOMAIN tx' = Clients
      /\ \A d \in Clients \ {c} : req'[d] = req[d] /\ tx'[d] = tx[d]
      /\ q2 = [q EXCEPT !.pc = "deleting", !.left = s]
  BY <1>1, <1>3 DEF ServeInv
<1> HIDE DEF q, q2
<1>5. q2.pc = "deleting" /\ q2.r = q.r /\ q2.rel = q.rel /\ q2.p = q.p /\ Whole(q2)
  BY <1>2, <1>4 DEF Whole
<1>6. q.r.method = "DELETE"
  BY <1>1, <1>2 DEF Taken, Doing
<1>7. Taken(q2) /\ Shows(q2, secrets)
  BY <1>2, <1>5, <1>6 DEF Taken, OverRelation, Doing, Shows
<1>8. ClientInv(q2, tx'[c], stored, secrets)
  BY <1>1, <1>2, <1>5, <1>7, NothingWritten DEF ClientInv
<1> QED
  BY <1>1, <1>2, <1>4, <1>8, ClientMoves, NothingWritten DEF q2

LEMMA DeleteServe ==
  ASSUME ServeInv, NEW c \in Clients, Delete(c)
  PROVE  ServeInv'
<1> DEFINE q == req[c]
           q2 == req'[c]
           k == Head(q.left)
<1>1. q.pc = "deleting" /\ UNCHANGED <<stored, merged>> /\ UNCHANGED process /\ LockedBy(c, k) = {}
  BY DEF Delete
<1>2. Whole(q) /\ Taken(q) /\ \A x \in DOMAIN tx[c] : tx[c][x] = {}
  BY <1>1, ClientKeeps DEF Active, ClientInv
<1>3. tx' = tx \/ tx' = [tx EXCEPT ![c] = Put(@, k, {})]
  BY DEF Delete
<1>4. /\ DOMAIN req' = Clients /\ DOMAIN tx' = Clients
      /\ \A d \in Clients \ {c} : req'[d] = req[d] /\ tx'[d] = tx[d]
      /\ q2 = [q EXCEPT !.left = Tail(@)]
      /\ tx'[c] = tx[c] \/ tx'[c] = Put(tx[c], k, {})
  BY <1>3 DEF ServeInv, Delete
<1>5. /\ DOMAIN tx'[c] \subseteq DOMAIN tx[c] \cup {k}
      /\ \A x \in DOMAIN tx'[c] : tx'[c][x] = {}
  BY <1>2, <1>4 DEF Put
<1> HIDE DEF q2
<1>6. q2.pc = "deleting" /\ q2.r = q.r /\ q2.rel = q.rel /\ q2.p = q.p /\ Whole(q2)
  BY <1>1, <1>2, <1>4 DEF Whole
<1>7. q.r.method = "DELETE"
  BY <1>1, <1>2 DEF Taken, Doing
<1>8. Taken(q2) /\ Shows(q2, secrets)
  BY <1>2, <1>6, <1>7 DEF Taken, OverRelation, Doing, Shows
<1>9. ClientInv(q2, tx'[c], stored, secrets)
  BY <1>5, <1>6, <1>8 DEF ClientInv
<1>10. ASSUME NEW d \in Clients \ {c}, q2.r.place[2] = Name(d)
       PROVE  DOMAIN tx'[c] \cap DOMAIN tx[d] = {}
  <2>1. Name(d) = Name(c)
    BY <1>6, <1>10 DEF Name
  <2>2. DOMAIN tx[c] \cap DOMAIN tx[d] = {}
    BY <2>1 DEF ServeInv, Apart
  <2>3. k \notin DOMAIN tx[d]
    BY <1>1, <2>1 DEF LockedBy
  <2> QED
    BY <1>5, <2>2, <2>3
<1> QED
  BY <1>1, <1>4, <1>9, <1>10, ClientMoves DEF q2

LEMMA HeadAndTail ==
  ASSUME NEW S, NEW s \in Seq(S), s # <<>>
  PROVE  /\ Head(s) \in S /\ Tail(s) \in Seq(S)
         /\ ToSet(s) = {Head(s)} \cup ToSet(Tail(s))
<1>1. /\ Len(s) \in Nat \ {0} /\ DOMAIN s = 1..Len(s) /\ Head(s) = s[1] /\ Tail(s) \in Seq(S)
      /\ DOMAIN Tail(s) = 1..Len(s) - 1 /\ \A i \in 1..Len(s) - 1 : Tail(s)[i] = s[i + 1]
  OBVIOUS
<1>2. ASSUME NEW i \in 1..Len(s)
      PROVE  s[i] = Head(s) \/ \E j \in DOMAIN Tail(s) : Tail(s)[j] = s[i]
  <2>1. i = 1 \/ (i - 1 \in 1..Len(s) - 1 /\ (i - 1) + 1 = i)
    BY <1>1
  <2> QED
    BY <1>1, <2>1
<1>3. \A j \in DOMAIN Tail(s) : \E i \in DOMAIN s : s[i] = Tail(s)[j]
  <2> SUFFICES ASSUME NEW j \in DOMAIN Tail(s) PROVE \E i \in DOMAIN s : s[i] = Tail(s)[j]
    OBVIOUS
  <2>1. j + 1 \in DOMAIN s /\ s[j + 1] = Tail(s)[j]
    BY <1>1
  <2> QED
    BY <2>1
<1>4. 1 \in DOMAIN s
  BY <1>1
<1>5. ToSet(s) = {Head(s)} \cup ToSet(Tail(s))
  <2>1. \A x \in ToSet(s) : x \in {Head(s)} \cup ToSet(Tail(s))
    <3> SUFFICES ASSUME NEW i \in DOMAIN s PROVE s[i] \in {Head(s)} \cup ToSet(Tail(s))
      BY DEF ToSet
    <3> QED
      BY <1>1, <1>2 DEF ToSet
  <2>2. ToSet(Tail(s)) \subseteq ToSet(s)
    BY <1>3 DEF ToSet
  <2>3. Head(s) \in ToSet(s)
    BY <1>1, <1>4 DEF ToSet
  <2> QED
    BY <2>1, <2>2, <2>3
<1> QED
  BY <1>1, <1>4, <1>5

(* What a write may change of a table shows its columns whole. *)
LEMMA ShownWhole ==
  ASSUME NEW t \in DOMAIN Created, NEW p, p.select = {}, NEW row \in RowsFor(t)
  PROVE  Project(WriteTable(t), p, row) = row
<1> DEFINE rel == WriteTable(t)
<1>1. ColumnNames(rel) = NamesIn(Created[t].columns) /\ \A n : IsExposed(rel, n) <=> n \in ColumnNames(rel)
  BY WriteTableIs
<1>2. row = [n \in NamesIn(Created[t].columns) |-> row[n]]
  BY DEF RowsFor
<1> HIDE DEF rel
<1>3. Project(rel, p, row) = [col \in {n \in ColumnNames(rel) : IsExposed(rel, n)} |-> row[col]]
  BY DEF Project
<1>4. {n \in ColumnNames(rel) : IsExposed(rel, n)} = NamesIn(Created[t].columns)
  BY <1>1
<1>5. Project(rel, p, row) = row
  BY <1>2, <1>3, <1>4
<1> QED
  BY <1>5 DEF rel

LEMMA PostIs ==
  ASSUME ServeInv, NEW c \in Clients, req[c].pc = "POST"
  PROVE  /\ Whole(req[c]) /\ Taken(req[c]) /\ req[c].r.method = "POST"
         /\ Name(c) \in DOMAIN Created /\ Relation(c) = WriteTable(Name(c)) /\ req[c].p.select = {}
         /\ Keyed(Name(c), stored[Name(c)]) /\ Given(ToSet(req[c].r.body))
         /\ Writes(req[c], tx[c], stored[Name(c)])
<1>1. /\ Whole(req[c]) /\ Taken(req[c]) /\ req[c].r.method = "POST"
      /\ Writes(req[c], tx[c], stored[Name(c)])
  BY ClientKeeps DEF Active, ClientInv, Name
<1>2. /\ Name(c) \in DOMAIN Created /\ Relation(c) = WriteTable(Name(c)) /\ req[c].p.select = {}
      /\ req[c].r \in Requests
  BY <1>1 DEF Taken, OverRelation, Doing, Name, Relation
<1>3. Keyed(Name(c), stored[Name(c)])
  BY <1>2 DEF ServeInv, StoredInv
<1>4. Given(ToSet(req[c].r.body))
  BY <1>2, RequestsAssumption DEF Given
<1> QED
  BY <1>1, <1>2, <1>3, <1>4

LEMMA UpsertServe ==
  ASSUME ServeInv, NEW c \in Clients, Upsert(c)
  PROVE  ServeInv'
<1> DEFINE q == req[c]
           q2 == req'[c]
           t == Name(c)
           rel == WriteTable(t)
           rows == stored[t]
           S == ToSet(q.r.body)
           given == Head(q.left)
           k == KeyOf(rel, given)
           w == tx[c]
           old == IF k \in DOMAIN w THEN w[k] ELSE WithKey(rel, rows, k)
           row == IF old = {} THEN Inserted(rel, given, Defaults[t])
                  ELSE Merged(rel, given, CHOOSE o \in old : TRUE)
<1>1. /\ q.pc = "POST" /\ q.left # <<>> /\ UNCHANGED <<stored, merged>> /\ UNCHANGED process
      /\ Insertable(c) /\ LockedBy(c, NextKey(c)) = {}
  BY DEF Upsert
<1>2. /\ Whole(q) /\ Taken(q) /\ q.r.method = "POST"
      /\ t \in DOMAIN Created /\ q.rel = rel /\ q.p.select = {} /\ Keyed(t, rows) /\ Given(S)
      /\ Writes(q, w, rows) /\ t = q.r.place[2]
  BY <1>1, PostIs DEF Relation, Name
<1>3. HasKey(rel, given) /\ NextKey(c) = k /\ SeenBy(c, k) = old /\ Proposed(c) = Inserted(rel, given, Defaults[t])
  BY <1>1, <1>2 DEF Insertable, NextKey, SeenBy, Proposed, Relation
<1>4. \/ /\ KeyOnly(rel, given) /\ req' = [req EXCEPT ![c].left = Tail(@)] /\ UNCHANGED tx
      \/ /\ tx' = [tx EXCEPT ![c] = Put(@, k, {row})]
         /\ req' = [req EXCEPT ![c].left = Tail(@), ![c].wrote = Append(@, given),
                               ![c].data = Append(@, Project(rel, q.p, row))]
  <2> DEFINE seen == SeenBy(c, NextKey(c))
             put == IF seen = {} THEN Proposed(c) ELSE Merged(Relation(c), given, CHOOSE o \in seen : TRUE)
  <2>1. \/ /\ KeyOnly(Relation(c), given) /\ req' = [req EXCEPT ![c].left = Tail(@)] /\ UNCHANGED tx
        \/ /\ tx' = [tx EXCEPT ![c] = Put(@, NextKey(c), {put})]
           /\ req' = [req EXCEPT ![c].left = Tail(@), ![c].wrote = Append(@, given),
                                 ![c].data = Append(@, Project(Relation(c), q.p, put))]
    BY DEF Upsert
  <2>2. Relation(c) = rel
    BY <1>2 DEF Relation
  <2>3. NextKey(c) = k /\ seen = old
    BY <1>3
  <2>4. put = row
    <3> HIDE DEF seen, old, rel, given
    <3> QED
      BY <1>3, <2>2, <2>3
  <2> HIDE DEF put, row, k, rel, given, seen, old
  <2> QED
    BY <2>1, <2>2, <2>3, <2>4
<1>5. /\ DOMAIN req' = Clients /\ DOMAIN tx' = Clients
      /\ \A d \in Clients \ {c} : req'[d] = req[d] /\ tx'[d] = tx[d]
      /\ \/ /\ KeyOnly(rel, given) /\ q2 = [q EXCEPT !.left = Tail(@)] /\ tx'[c] = w
         \/ /\ tx'[c] = Put(w, k, {row})
            /\ q2 = [q EXCEPT !.left = Tail(@), !.wrote = Append(@, given),
                              !.data = Append(@, Project(rel, q.p, row))]
  <2>1. DOMAIN req = Clients /\ DOMAIN tx = Clients
    BY DEF ServeInv
  <2> HIDE DEF row, rel, given, k
  <2> QED
    BY <1>4, <2>1
<1>6. k \notin DOMAIN w => DOMAIN w \cup {k} = DOMAIN Put(w, k, {row})
  BY DEF Put
<1>7. ASSUME NEW d \in Clients \ {c}, t = Name(d)
      PROVE  DOMAIN tx'[c] \cap DOMAIN tx[d] = {}
  <2>1. DOMAIN w \cap DOMAIN tx[d] = {}
    BY <1>7 DEF ServeInv, Apart
  <2>2. k \notin DOMAIN tx[d]
    <3> HIDE DEF k
    <3> QED
      BY <1>1, <1>3, <1>7 DEF LockedBy
  <2>3. DOMAIN tx'[c] \subseteq DOMAIN w \cup {k}
    <3> HIDE DEF k, row, q2, w
    <3> QED
      BY <1>5 DEF Put
  <2> QED
    BY <2>1, <2>2, <2>3
<1> DEFINE body == q.r.body
<1>8. /\ Laying(t, S, q.wrote, w, rows) /\ q.left \in Seq(S) /\ q.data \in Seq(RowsFor(t))
      /\ \A i \in DOMAIN q.data :
           LastUnder(rel, q.data, i) => KeyOf(rel, q.data[i]) \in DOMAIN w /\ w[KeyOf(rel, q.data[i])] = {q.data[i]}
      /\ \A g \in S : KeyOf(rel, g) \in DOMAIN w \/ KeyOnly(rel, g) \/ g \in ToSet(q.left)
  BY <1>2 DEF Writes
<1>9. given \in S /\ Tail(q.left) \in Seq(S) /\ ToSet(q.left) = {given} \cup ToSet(Tail(q.left))
  BY <1>1, <1>8, HeadAndTail
<1> HIDE DEF q, q2, rel, rows, S, given, k, w, old, row, t
<1>10. /\ Laying(t, S, Append(q.wrote, given), Put(w, k, {row}), rows)
       /\ row \in RowsFor(t) /\ KeyOf(rel, row) = k
  BY <1>2, <1>3, <1>8, <1>9, LayingNext DEF rel, k, old, row
<1>11. Project(rel, q.p, row) = row
  BY <1>2, <1>10, ShownWhole DEF rel
<1>12. CASE KeyOnly(rel, given) /\ q2 = [q EXCEPT !.left = Tail(@)] /\ tx'[c] = w
  <2>1. /\ q2.pc = q.pc /\ q2.r = q.r /\ q2.rel = q.rel /\ q2.p = q.p /\ q2.left = Tail(q.left)
        /\ q2.wrote = q.wrote /\ q2.data = q.data /\ Whole(q2)
    BY <1>2, <1>12 DEF Whole
  <2>2. Taken(q2) /\ Shows(q2, secrets)
    BY <1>2, <2>1 DEF Taken, OverRelation, Doing, Shows
  <2>3. Writes(q2, w, rows)
    BY <1>2, <1>8, <1>9, <1>12, <2>1 DEF Writes, S, rel
  <2>4. ClientInv(q2, tx'[c], stored, secrets)
    BY <1>1, <1>2, <1>12, <2>1, <2>2, <2>3 DEF ClientInv, q, rows
  <2>5. q2.r.place[2] = t
    BY <1>2, <2>1
  <2> QED
    BY <1>1, <1>5, <1>7, <2>4, <2>5, ClientMoves DEF q2
<1>13. CASE /\ tx'[c] = Put(w, k, {row})
            /\ q2 = [q EXCEPT !.left = Tail(@), !.wrote = Append(@, given),
                              !.data = Append(@, Project(rel, q.p, row))]
  <2> DEFINE w2 == Put(w, k, {row})
             more == Append(q.data, row)
  <2>1. /\ q2.pc = q.pc /\ q2.r = q.r /\ q2.rel = q.rel /\ q2.p = q.p /\ q2.left = Tail(q.left)
        /\ q2.wrote = Append(q.wrote, given) /\ q2.data = more /\ Whole(q2)
    BY <1>2, <1>11, <1>13 DEF Whole
  <2>2. Taken(q2) /\ Shows(q2, secrets)
    BY <1>2, <2>1 DEF Taken, OverRelation, Doing, Shows
  <2>3. DOMAIN w2 = DOMAIN w \cup {k} /\ w2[k] = {row} /\ \A x \in DOMAIN w : x # k => w2[x] = w[x]
    BY DEF Put
  <2>4. /\ more \in Seq(RowsFor(t)) /\ Len(more) = Len(q.data) + 1 /\ Len(q.data) \in Nat
        /\ DOMAIN more = 1..Len(q.data) + 1 /\ DOMAIN q.data = 1..Len(q.data)
        /\ \A i \in DOMAIN q.data : more[i] = q.data[i]
        /\ more[Len(q.data) + 1] = row
    BY <1>8, <1>10, AppendProperties
  <2> HIDE DEF w2, more
  <2>5. ASSUME NEW i \in DOMAIN more, LastUnder(rel, more, i)
        PROVE  KeyOf(rel, more[i]) \in DOMAIN w2 /\ w2[KeyOf(rel, more[i])] = {more[i]}
    <3>1. CASE i = Len(q.data) + 1
      BY <1>10, <2>3, <2>4, <3>1
    <3>2. CASE i # Len(q.data) + 1
      <4>1. i \in DOMAIN q.data /\ more[i] = q.data[i]
        BY <2>4, <3>2
      <4>2. KeyOf(rel, q.data[i]) # k
        <5>1. Len(q.data) + 1 \in (i + 1)..Len(more)
          BY <2>4, <4>1
        <5> QED
          BY <1>10, <2>4, <2>5, <4>1, <5>1 DEF LastUnder
      <4>3. LastUnder(rel, q.data, i)
        <5>1. \A j \in (i + 1)..Len(q.data) : j \in (i + 1)..Len(more) /\ more[j] = q.data[j]
          BY <2>4, <4>1
        <5> QED
          BY <2>5, <4>1, <5>1 DEF LastUnder
      <4> QED
        BY <1>8, <2>3, <4>1, <4>2, <4>3
    <3> QED
      BY <3>1, <3>2
  <2>6. \A g \in S : KeyOf(rel, g) \in DOMAIN w2 \/ KeyOnly(rel, g) \/ g \in ToSet(q2.left)
    BY <1>8, <1>9, <2>1, <2>3 DEF k
  <2>7. Writes(q2, w2, rows)
    <3>1. Laying(t, S, q2.wrote, w2, rows)
      BY <1>10, <2>1 DEF w2
    <3>2. q2.r.place[2] = t /\ ToSet(q2.r.body) = S /\ WriteTable(t) = rel
      BY <1>2, <2>1 DEF S, rel
    <3> QED
      BY <1>9, <2>1, <2>4, <2>5, <2>6, <3>1, <3>2 DEF Writes
  <2>8. q2.r.place[2] = t
    BY <1>2, <2>1
  <2>9. tx'[c] = w2
    BY <1>13 DEF w2
  <2>10. ClientInv(q2, tx'[c], stored, secrets)
    BY <1>1, <1>2, <2>1, <2>2, <2>7, <2>8, <2>9 DEF ClientInv, q, rows
  <2> QED
    BY <1>1, <1>5, <1>7, <2>8, <2>10, ClientMoves DEF q2
<1> QED
  BY <1>5, <1>12, <1>13 DEF q, q2, rel, given, k, w, old, row, t, rows

LEMMA UpsertFailsServe ==
  ASSUME ServeInv, NEW c \in Clients, UpsertFails(c)
  PROVE  ServeInv'
<1>1. InDatabase(c) /\ Answer(c, 422) /\ UNCHANGED <<stored, merged>> /\ UNCHANGED process
  BY DEF UpsertFails, InDatabase
<1> QED
  BY <1>1, AnswerServe

LEMMA AbortServe ==
  ASSUME ServeInv, NEW c \in Clients, Abort(c)
  PROVE  ServeInv'
BY AnswerServe DEF Abort

(* What a commit makes of its table, and what it should. *)
LEMMA CommitIs ==
  ASSUME ServeInv, NEW c \in Clients, req[c].pc \in {"POST", "deleting"}
  PROVE  /\ Name(c) \in DOMAIN Created /\ Relation(c) = WriteTable(Name(c))
         /\ Keyed(Name(c), stored[Name(c)]) /\ Leaves(Name(c), tx[c])
         /\ Committed(c) = After(Name(c), tx[c], stored[Name(c)])
         /\ MergedAfter(c) = Committed(c)
<1> DEFINE t == Name(c)
           w == tx[c]
<1>1. Whole(req[c]) /\ Taken(req[c]) /\ ClientInv(req[c], w, stored, secrets)
  BY ClientKeeps DEF Active
<1>2. t \in DOMAIN Created /\ Relation(c) = WriteTable(t)
  BY <1>1 DEF Taken, OverRelation, Doing, Name, Relation
<1>3. Keyed(t, stored[t]) /\ merged = stored
  BY <1>2 DEF ServeInv, StoredInv
<1>4. Committed(c) = After(t, w, stored[t])
  BY <1>2 DEF Committed, After
<1>5. CASE req[c].pc = "POST"
  <2>1. Given(ToSet(req[c].r.body)) /\ Laying(t, ToSet(req[c].r.body), req[c].wrote, w, stored[t])
    BY <1>5, PostIs DEF Writes, Name
  <2>2. Leaves(t, w)
    BY <1>2, <1>3, <2>1, LayingLeaves
  <2>3. MergedAfter(c) = Committed(c)
    <3> DEFINE rel == WriteTable(t)
               keys == {KeyOf(rel, req[c].wrote[i]) : i \in DOMAIN req[c].wrote}
               Lay(k) == {Laid(rel, req[c].wrote, k, row) : row \in Beneath(rel, stored[t], Defaults[t], k)}
    <3>1. DOMAIN w = keys /\ \A k \in keys : w[k] = Lay(k)
      BY <2>1 DEF Laying
    <3>2. MergedAfter(c) = {row \in stored[t] : KeyOf(rel, row) \notin keys} \cup UNION {Lay(k) : k \in keys}
      BY <1>2, <1>3, <1>5 DEF MergedAfter, LaidOver
    <3> HIDE DEF keys, Lay
    <3>3. {w[k] : k \in DOMAIN w} = {Lay(k) : k \in keys}
      BY <3>1
    <3> QED
      BY <1>4, <3>1, <3>2, <3>3 DEF After
  <2> QED
    BY <1>2, <1>3, <1>4, <2>2, <2>3
<1>6. CASE req[c].pc = "deleting"
  <2>1. \A k \in DOMAIN w : w[k] = {}
    BY <1>1, <1>6 DEF ClientInv
  <2>2. UNION {w[k] : k \in DOMAIN w} = {}
    BY <2>1
  <2>3. Leaves(t, w)
    BY <2>1, <2>2, FS_EmptySet DEF Leaves
  <2>4. MergedAfter(c) = Committed(c)
    BY <1>2, <1>3, <1>6, <2>2 DEF MergedAfter, Committed
  <2> QED
    BY <1>2, <1>3, <1>4, <2>3, <2>4
<1> QED
  BY <1>5, <1>6

(* Who else writes the table goes on where it was: what it has written is   *)
(* laid over rows that are still there.                                     *)
LEMMA LayingStays ==
  ASSUME NEW t \in DOMAIN Created, NEW S, NEW wrote, NEW w, NEW rows, NEW w2,
         Keyed(t, rows), Leaves(t, w2), Laying(t, S, wrote, w, rows), DOMAIN w \cap DOMAIN w2 = {}
  PROVE  Laying(t, S, wrote, w, After(t, w2, rows))
<1> DEFINE rel == WriteTable(t)
<1>1. ASSUME NEW k \in DOMAIN w
      PROVE  Beneath(rel, After(t, w2, rows), Defaults[t], k) = Beneath(rel, rows, Defaults[t], k)
  <2>1. WithKey(rel, After(t, w2, rows), k) = WithKey(rel, rows, k)
    BY AfterIs
  <2> QED
    BY <2>1 DEF Beneath
<1> QED
  BY <1>1 DEF Laying

LEMMA CommitServe ==
  ASSUME ServeInv, NEW c \in Clients, Commit(c)
  PROVE  ServeInv'
<1> DEFINE t == Name(c)
           w == tx[c]
           gone == {k \in DOMAIN w : w[k] = {}}
<1>1. /\ req[c].pc \in {"POST", "deleting"} /\ UNCHANGED process
      /\ stored' = [stored EXCEPT ![t] = Committed(c)]
      /\ merged' = [merged EXCEPT ![t] = MergedAfter(c)]
      /\ tx' = [tx EXCEPT ![c] = NoWrites]
  BY DEF Commit
<1>2. PICK status \in {200, 500} :
        req' = [d \in Clients |->
                  IF d = c THEN [req[c] EXCEPT !.pc = "answered", !.status = status]
                  ELSE IF req[d].pc = "deleting" /\ Name(d) = Name(c)
                       THEN [req[d] EXCEPT !.left = Without(@, gone)]
                       ELSE req[d]]
  BY DEF Commit
<1>3. /\ t \in DOMAIN Created /\ Keyed(t, stored[t]) /\ Leaves(t, w)
      /\ Committed(c) = After(t, w, stored[t]) /\ MergedAfter(c) = Committed(c)
  BY <1>1, CommitIs
<1>4. DOMAIN req = Clients /\ DOMAIN tx = Clients /\ StoredInv /\ Apart
      /\ \A d \in Clients : ClientInv(req[d], tx[d], stored, secrets)
  BY DEF ServeInv
<1>5. t \in DOMAIN stored /\ stored'[t] = After(t, w, stored[t]) /\ merged' = stored'
      /\ DOMAIN stored' = DOMAIN stored /\ \A u \in DOMAIN stored : u # t => stored'[u] = stored[u]
  BY <1>1, <1>3, <1>4 DEF StoredInv
<1>6. StoredInv'
  <2>1. \A u \in DOMAIN Created : u \in DOMAIN stored' /\ Keyed(u, stored'[u])
    BY <1>3, <1>4, <1>5, AfterIs DEF StoredInv
  <2> QED
    BY <1>5, <2>1 DEF StoredInv
<1>7. DOMAIN req' = Clients /\ DOMAIN tx' = Clients /\ tx'[c] = NoWrites
      /\ \A d \in Clients \ {c} : tx'[d] = tx[d]
  BY <1>1, <1>2, <1>4
<1> HIDE DEF gone
<1>8. ClientInv(req'[c], NoWrites, stored', secrets)
  <2> DEFINE q == req[c]
             q2 == req'[c]
  <2>1. Whole(q) /\ Taken(q) /\ q2 = [q EXCEPT !.pc = "answered", !.status = status]
    BY <1>1, <1>2, ClientKeeps DEF Active
  <2> HIDE DEF q2
  <2>2. /\ q2.pc = "answered" /\ q2.r = q.r /\ q2.rel = q.rel /\ q2.p = q.p /\ Whole(q2)
    BY <2>1 DEF Whole
  <2>3. q.r.method # "GET"
    BY <1>1, <2>1 DEF Taken, Doing
  <2>4. Taken(q2) /\ Shows(q2, secrets)
    BY <2>1, <2>2, <2>3 DEF Taken, OverRelation, Doing, Shows
  <2>5. ClientInv(q2, NoWrites, stored', secrets)
    BY <2>2, <2>4 DEF ClientInv
  <2> QED
    BY <2>5 DEF q2
<1>9. ASSUME NEW d \in Clients \ {c}
      PROVE  /\ ClientInv(req'[d], tx[d], stored', secrets)
             /\ tx[d] # NoWrites => req'[d].r = req[d].r
  <2> DEFINE q == req[d]
             q2 == req'[d]
  <2>1. ClientInv(q, tx[d], stored, secrets)
    BY <1>4
  <2>2. CASE q.pc = "deleting" /\ Name(d) = Name(c)
    <3>1. q2 = [q EXCEPT !.left = Without(@, gone)]
      BY <1>2, <2>2
    <3>2. Whole(q) /\ Taken(q) /\ q.r.method = "DELETE"
      BY <2>1, <2>2 DEF ClientInv, Taken, Doing
    <3> HIDE DEF q2
    <3>3. q2.pc = q.pc /\ q2.r = q.r /\ q2.rel = q.rel /\ q2.p = q.p /\ Whole(q2)
      BY <3>1, <3>2 DEF Whole
    <3>4. Taken(q2) /\ Shows(q2, secrets)
      BY <3>2, <3>3 DEF Taken, OverRelation, Doing, Shows
    <3>5. ClientInv(q2, tx[d], stored', secrets)
      BY <2>1, <2>2, <3>3, <3>4 DEF ClientInv
    <3> QED
      BY <3>3, <3>5 DEF q2
  <2>3. CASE ~(q.pc = "deleting" /\ Name(d) = Name(c))
    <3>1. q2 = q
      BY <1>2, <2>3
    <3>2. ASSUME q.pc = "POST"
          PROVE  Writes(q, tx[d], stored'[q.r.place[2]])
      <4>1. /\ Name(d) \in DOMAIN Created /\ Writes(q, tx[d], stored[Name(d)]) /\ Name(d) = q.r.place[2]
        BY <3>2, PostIs DEF Name
      <4>2. CASE Name(d) # t
        <5>1. stored'[Name(d)] = stored[Name(d)]
          BY <1>4, <1>5, <4>1, <4>2 DEF StoredInv
        <5> QED
          BY <4>1, <5>1
      <4>3. CASE Name(d) = t
        <5>1. DOMAIN tx[d] \cap DOMAIN w = {}
          BY <1>4, <4>3 DEF Apart
        <5>2. Laying(t, ToSet(q.r.body), q.wrote, tx[d], stored[t])
          BY <4>1, <4>3 DEF Writes
        <5>3. Laying(t, ToSet(q.r.body), q.wrote, tx[d], stored'[t])
          BY <1>3, <1>5, <5>1, <5>2, LayingStays
        <5>4. q.r.place[2] = t /\ Writes(q, tx[d], stored[t])
          BY <4>1, <4>3
        <5> HIDE DEF q, t
        <5>5. Writes(q, tx[d], stored'[t])
          BY <5>3, <5>4 DEF Writes
        <5> QED
          BY <5>4, <5>5
      <4> QED
        BY <4>2, <4>3
    <3> QED
      BY <2>1, <3>1, <3>2 DEF ClientInv
  <2> QED
    BY <2>2, <2>3
<1>10. Apart'
  <2> SUFFICES ASSUME NEW d \in Clients, NEW e \in Clients, d # e,
                      req'[d].r.place[2] = req'[e].r.place[2]
               PROVE  DOMAIN tx'[d] \cap DOMAIN tx'[e] = {}
    BY DEF Apart, Name
  <2>1. CASE tx'[d] = NoWrites \/ tx'[e] = NoWrites
    BY <2>1, NothingWritten
  <2>2. CASE tx'[d] # NoWrites /\ tx'[e] # NoWrites
    <3>1. d # c /\ e # c /\ tx'[d] = tx[d] /\ tx'[e] = tx[e]
      BY <1>7, <2>2
    <3>2. Name(d) = Name(e)
      BY <1>9, <2>2, <3>1 DEF Name
    <3> QED
      BY <1>4, <3>1, <3>2 DEF Apart
  <2> QED
    BY <2>1, <2>2
<1>11. \A d \in Clients : ClientInv(req'[d], tx'[d], stored', secrets')
  BY <1>1, <1>7, <1>8, <1>9 DEF process
<1> QED
  BY <1>6, <1>7, <1>10, <1>11 DEF ServeInv

(* The process *)
LEMMA SignalServe ==
  ASSUME ServeInv, Signal
  PROVE  ServeInv'
<1>1. UNCHANGED <<stored, merged, secrets>>
  BY DEF Signal
<1>2. StoredInv'
  BY <1>1 DEF ServeInv, StoredInv
<1>3. CASE signals = 1
  <2>1. DOMAIN req' = Clients /\ DOMAIN tx' = Clients
        /\ \A c \in Clients : tx'[c] = NoWrites /\ req'[c] = Idle(req[c].sent)
    BY <1>3 DEF Signal
  <2>2. \A c \in Clients : ClientInv(req'[c], tx'[c], stored', secrets')
    BY <2>1, IdleInv
  <2>3. Apart'
    BY <2>1, NothingWritten DEF Apart
  <2> QED
    BY <1>2, <2>1, <2>2, <2>3 DEF ServeInv
<1>4. CASE signals # 1
  BY <1>1, <1>4 DEF Signal, ServeInv, StoredInv, Apart, Name
<1> QED
  BY <1>3, <1>4

LEMMA UnservedKeeps ==
  ASSUME ServeInv, UNCHANGED <<stored, merged, secrets, req, tx>>
  PROVE  ServeInv'
BY DEF ServeInv, StoredInv, Apart, Name

LEMMA ClientServe ==
  ASSUME StartInv, ServeInv, NEW c \in Clients,
         (\E r \in Requests : Receive(c, r)) \/ Step(c) \/ Abort(c)
  PROVE  ServeInv'
BY ReceiveServe, AbortServe, ReadServe, CountServe, UpsertServe, UpsertFailsServe, PickServe,
   DeleteServe, CommitServe, CloseServe DEF Step

LEMMA ServeKeeps ==
  ASSUME StartInv, ServeInv, [Next]_vars
  PROVE  ServeInv'
<1>1. CASE Signal
  BY <1>1, SignalServe
<1>2. CASE Startup \/ PlaidMigrates \/ StartupWaitPasses \/ ShutdownTimeout \/ Exit
  <2>1. UNCHANGED <<stored, merged, secrets, req, tx>>
    BY <1>2 DEF Startup, Poll, Prepare, LoadCatalog, PlaidMigrates, StartupWaitPasses,
                ShutdownTimeout, Exit, NoRequest
  <2> QED
    BY <2>1, UnservedKeeps
<1>3. CASE UNCHANGED vars
  BY <1>3, UnservedKeeps DEF vars
<1> QED
  BY <1>1, <1>2, <1>3, ClientServe DEF Next

-----------------------------------------------------------------------------
(* The theorems of the service *)

TopperInv == StartInv /\ ServeInv

LEMMA TopperKeeps == Spec => []TopperInv
<1>1. Init => TopperInv
  BY StartInit, ServeInit DEF TopperInv
<1>2. TopperInv /\ [Next]_vars => TopperInv'
  BY StartKeeps, ServeKeeps DEF TopperInv
<1> QED
  BY <1>1, <1>2, PTL DEF Spec

(* What is stored is what the committed requests, laid over each other in   *)
(* the order of their commits, leave: no interleaving of upserts and        *)
(* deletes, timeouts or cancellations loses, mixes or half-writes a row     *)
(* (BuildUpsert, handleUpsert).                                             *)
THEOREM CommittedRowsMerge == Spec => []RowsMergeInCommitOrder
<1>1. TopperInv => RowsMergeInCommitOrder
  BY DEF TopperInv, ServeInv, StoredInv, RowsMergeInCommitOrder
<1> QED
  BY <1>1, TopperKeeps, PTL

(* What is read of plaidsync's rows is the same whatever the denied columns *)
(* hold (PlaidDenylist, exposedColumn, Projection).                         *)
THEOREM DeniedColumnsStayHidden == Spec => []AnswersHideDenied
<1> SUFFICES ASSUME TopperInv PROVE AnswersHideDenied
  BY TopperKeeps, PTL
<1> SUFFICES ASSUME NEW c \in Clients, Served(c), req[c].r.method = "GET", Relation(c).mode = "read",
                    NEW s \in DOMAIN Public
             PROVE  /\ req[c].data \in Select(Relation(c), req[c].p, Public[s][Relation(c).source])
                    /\ req[c].p.count =>
                         req[c].left = <<Total(Relation(c), req[c].p, Public[s][Relation(c).source])>>
  BY DEF AnswersHideDenied
<1> DEFINE q == req[c]
           rows == Public[secrets][q.rel.source]
           others == Public[s][q.rel.source]
<1>1. Taken(q) /\ Shows(q, secrets) /\ secrets \in DOMAIN Public /\ q.pc = "answered" /\ q.status = 200
  BY ClientKeeps DEF Served, Active, TopperInv, StartInv
<1>2. ReadRelation(q.rel) /\ Asks(q.rel, q.p)
  <2>1. q.rel # WriteTable(q.r.place[2]) \/ q.r.place[2] \notin DOMAIN Created
    BY WriteTableIs DEF Relation
  <2> QED
    BY <1>1, <2>1 DEF Taken, OverRelation, Doing
<1>3. Sound(q.rel)
  BY <1>2, ReadSound
<1>4. ByExposed(q.rel) /\ IsFiniteSet(rows) /\ ShowsSame(q.rel, rows, others)
  BY <1>1, <1>3 DEF Sound, Tells
<1>5. /\ Total(q.rel, q.p, others) = Total(q.rel, q.p, rows)
      /\ Select(q.rel, q.p, rows) \subseteq Select(q.rel, q.p, others)
  BY <1>2, <1>4, TellAlike
<1>6. q.data \in Select(q.rel, q.p, rows) /\ (q.p.count => q.left = <<Total(q.rel, q.p, rows)>>)
  BY <1>1, <1>2 DEF Shows
<1> QED
  BY <1>5, <1>6 DEF Relation

(* The page of a relation with a key is determined by its rows and by what  *)
(* is asked: the order is total, whatever is asked for first                *)
(* (Relation.Tiebreak, writeOrderBy).                                       *)
THEOREM PagesDoNotVary == Spec => []PagesAreStable
<1> SUFFICES ASSUME TopperInv PROVE PagesAreStable
  BY TopperKeeps, PTL
<1> SUFFICES ASSUME NEW c \in Clients, req[c].pc = "GET", Relation(c).tiebreak # <<>>
             PROVE  Cardinality(Select(Relation(c), req[c].p, RowsOf(Relation(c)))) = 1
  BY DEF PagesAreStable
<1> DEFINE q == req[c]
           rel == Relation(c)
<1>1. Taken(q) /\ secrets \in DOMAIN Public /\ rel = q.rel
  BY ClientKeeps DEF Active, TopperInv, StartInv, Relation
<1>2. OverRelation(q) /\ Asks(rel, q.p)
  BY <1>1 DEF Taken, Doing
<1>3. ByExposed(rel) /\ Tells(rel, RowsOf(rel))
  <2>1. CASE ReadRelation(rel)
    <3>1. Sound(rel)
      BY <2>1, ReadSound
    <3>2. RowsOf(rel) = Public[secrets][rel.source]
      BY <3>1 DEF Sound, RowsOf
    <3> HIDE DEF rel
    <3> QED
      BY <1>1, <3>1, <3>2 DEF Sound
  <2>2. ASSUME NEW t \in DOMAIN Created, rel = WriteTable(t)
        PROVE  ByExposed(rel) /\ Tells(rel, RowsOf(rel))
    <3>1. /\ rel.mode = "readwrite" /\ rel.source = <<"topper", t>> /\ rel.tiebreak = Created[t].pk
          /\ \A n : IsExposed(rel, n) => n \in NamesIn(Created[t].columns)
          /\ ByExposed(rel)
      BY <2>2, WriteTableIs
    <3>2. RowsOf(rel) = stored[t] /\ Keyed(t, stored[t])
      BY <3>1 DEF RowsOf, TopperInv, ServeInv, StoredInv
    <3> HIDE DEF rel
    <3>3. \A row \in stored[t] : \A n : IsExposed(rel, n) => row[n] \in Value
      BY <3>1, <3>2 DEF Keyed, RowsFor
    <3> QED
      BY <3>1, <3>2, <3>3 DEF Tells, Keyed
  <2> QED
    BY <1>1, <1>2, <2>1, <2>2 DEF OverRelation
<1> HIDE DEF rel, q
<1>4. rel.tiebreak # <<>> => Cardinality(Select(rel, q.p, RowsOf(rel))) = 1
  BY <1>2, <1>3, OnePage
<1> QED
  BY <1>4 DEF rel, q

(* Only a commit answers an upsert with 200. *)
LEMMA ServedByCommit ==
  ASSUME ServeInv, [Next]_vars, NEW c \in Clients, Served(c)', req[c].pc = "POST"
  PROVE  Commit(c)
<1>1. req'[c].pc = "answered" /\ req'[c].status = 200 /\ DOMAIN req = Clients
  BY DEF Served, ServeInv
<1>2. req' # req
  BY <1>1
<1>3. ASSUME Startup \/ PlaidMigrates \/ StartupWaitPasses \/ ShutdownTimeout \/ Exit
      PROVE  FALSE
  BY <1>2, <1>3 DEF Startup, Poll, Prepare, LoadCatalog, PlaidMigrates, StartupWaitPasses,
                    ShutdownTimeout, Exit, NoRequest
<1>4. ~Signal
  <2> SUFFICES ASSUME Signal PROVE FALSE
    OBVIOUS
  <2>1. req'[c] = Idle(req[c].sent)
    BY <1>2 DEF Signal
  <2> QED
    BY <1>1, <2>1 DEF Idle
<1>5. PICK d \in Clients : (\E r \in Requests : Receive(d, r)) \/ Step(d) \/ Abort(d)
  BY <1>2, <1>3, <1>4 DEF Next, vars
<1>6. d = c
  <2> SUFFICES ASSUME d # c PROVE FALSE
    OBVIOUS
  <2>1. c # d /\ DOMAIN req = Clients
    BY <1>1
  <2>2. Commit(d) => req'[c] = req[c]
    <3> SUFFICES ASSUME Commit(d) PROVE req'[c] = req[c]
      OBVIOUS
    <3> DEFINE gone == {k \in DOMAIN tx[d] : tx[d][k] = {}}
    <3>1. PICK status \in {200, 500} :
            req' = [e \in Clients |->
                      IF e = d THEN [req[d] EXCEPT !.pc = "answered", !.status = status]
                      ELSE IF req[e].pc = "deleting" /\ Name(e) = Name(d)
                           THEN [req[e] EXCEPT !.left = Without(@, gone)]
                           ELSE req[e]]
      BY DEF Commit
    <3> QED
      BY <2>1, <3>1
  <2>3. (\E r \in Requests : Receive(d, r)) => req'[c] = req[c]
    BY <2>1 DEF Receive
  <2>4. Close(d) \/ Abort(d) \/ Delete(d) \/ UpsertFails(d) => req'[c] = req[c]
    BY <2>1 DEF Close, Abort, Delete, UpsertFails, Answer
  <2>5. Read(d) \/ Count(d) => req'[c] = req[c]
    BY <2>1 DEF Read, Count
  <2>6. Upsert(d) => req'[c] = req[c]
    BY <2>1 DEF Upsert
  <2>7. Pick(d) => req'[c] = req[c]
    BY <2>1 DEF Pick
  <2> QED
    BY <1>1, <1>5, <2>2, <2>3, <2>4, <2>5, <2>6, <2>7 DEF Step
<1>7. Whole(req[c])
  BY PostIs
<1>8. ~Upsert(c)
  <2> SUFFICES ASSUME Upsert(c) PROVE FALSE
    OBVIOUS
  <2>1. req'[c].pc = "POST"
    <3> DEFINE rel == Relation(c)
               given == Head(req[c].left)
               old == SeenBy(c, NextKey(c))
               row == IF old = {} THEN Proposed(c) ELSE Merged(rel, given, CHOOSE o \in old : TRUE)
    <3>1. \/ req' = [req EXCEPT ![c].left = Tail(@)]
          \/ req' = [req EXCEPT ![c].left = Tail(@), ![c].wrote = Append(@, given),
                                ![c].data = Append(@, Project(rel, req[c].p, row))]
      BY DEF Upsert
    <3> HIDE DEF rel, given, row
    <3>2. /\ [req EXCEPT ![c].left = Tail(@)][c].pc = req[c].pc
          /\ [req EXCEPT ![c].left = Tail(@), ![c].wrote = Append(@, given),
                         ![c].data = Append(@, Project(rel, req[c].p, row))][c].pc = req[c].pc
      BY <1>1, <1>7 DEF Whole
    <3> QED
      BY <1>1, <3>1, <3>2
  <2> QED
    BY <1>1, <2>1
<1>9. ASSUME NEW status, status # 200, Answer(c, status)
      PROVE  FALSE
  <2>1. req'[c] = [req[c] EXCEPT !.pc = "answered", !.status = status]
    BY <1>1, <1>9 DEF Answer
  <2>2. req'[c].status = status
    BY <1>7, <2>1 DEF Whole
  <2> QED
    BY <1>1, <1>9, <2>2
<1>10. ~Abort(c) /\ ~UpsertFails(c)
  BY <1>9 DEF Abort, UpsertFails
<1>11. \A r \in Requests : ~Receive(c, r)
  BY DEF Receive, Active
<1>12. ~Read(c) /\ ~Count(c) /\ ~Pick(c) /\ ~Delete(c) /\ ~Close(c)
  BY DEF Read, Count, Pick, Delete, Close
<1> QED
  BY <1>5, <1>6, <1>8, <1>10, <1>11, <1>12 DEF Step

(* An upsert that is answered 200 has stored what it returns, and every row *)
(* that it was given (handleUpsert).                                        *)
THEOREM AnsweredUpsertsAreStored == Spec => AnswersShowWhatIsStored
<1>1. ASSUME TopperInv, [Next]_vars, NEW c \in Clients, Served(c)', req[c].pc = "POST"
      PROVE  LET rel == Relation(c)
                 data == req'[c].data
                 LastOfKey(i) == \A j \in (i + 1)..Len(data) : KeyOf(rel, data[i]) # KeyOf(rel, data[j])
             IN /\ \A i \in DOMAIN data : LastOfKey(i) => data[i] \in stored'[Name(c)]
                /\ \A i \in DOMAIN req[c].r.body :
                     WithKey(rel, stored'[Name(c)], KeyOf(rel, req[c].r.body[i])) # {}
                       \/ KeyOnly(rel, req[c].r.body[i])
  <2> DEFINE q == req[c]
             t == Name(c)
             rel == WriteTable(t)
             w == tx[c]
  <2>1. ServeInv
    BY <1>1 DEF TopperInv
  <2>2. Commit(c)
    BY <1>1, <2>1, ServedByCommit
  <2>3. /\ t \in DOMAIN Created /\ Relation(c) = rel /\ Keyed(t, stored[t]) /\ Leaves(t, w)
        /\ Committed(c) = After(t, w, stored[t])
    BY <1>1, <2>1, CommitIs
  <2>4. stored'[t] = After(t, w, stored[t])
    BY <2>1, <2>2, <2>3 DEF Commit, ServeInv, StoredInv
  <2>5. Whole(q) /\ Writes(q, w, stored[t]) /\ q.r.place[2] = t
    BY <1>1, <2>1, PostIs DEF Name
  <2>6. q.left = <<>> /\ req'[c].data = q.data
    <3> DEFINE gone == {k \in DOMAIN tx[c] : tx[c][k] = {}}
    <3>1. PICK status \in {200, 500} :
            req' = [d \in Clients |->
                      IF d = c THEN [req[c] EXCEPT !.pc = "answered", !.status = status]
                      ELSE IF req[d].pc = "deleting" /\ Name(d) = Name(c)
                           THEN [req[d] EXCEPT !.left = Without(@, gone)]
                           ELSE req[d]]
      BY <2>2 DEF Commit
    <3>3. req'[c] = [q EXCEPT !.pc = "answered", !.status = status]
      BY <3>1
    <3>2. req'[c].data = q.data
      BY <2>5, <3>3 DEF Whole
    <3> QED
      BY <2>2, <3>2 DEF Commit, Finished
  <2>7. /\ \A i \in DOMAIN q.data :
             LastUnder(rel, q.data, i) => KeyOf(rel, q.data[i]) \in DOMAIN w /\ w[KeyOf(rel, q.data[i])] = {q.data[i]}
        /\ \A given \in ToSet(q.r.body) : KeyOf(rel, given) \in DOMAIN w \/ KeyOnly(rel, given)
                                            \/ given \in ToSet(q.left)
        /\ Laying(t, ToSet(q.r.body), q.wrote, w, stored[t])
    BY <2>5 DEF Writes
  <2>8. Given(ToSet(q.r.body))
    BY <1>1, <2>1, PostIs
  <2> HIDE DEF q, t, rel, w
  <2>9. ASSUME NEW i \in DOMAIN q.data, LastUnder(rel, q.data, i)
        PROVE  q.data[i] \in stored'[t]
    BY <2>4, <2>7, <2>9 DEF After
  <2>10. ASSUME NEW i \in DOMAIN q.r.body
         PROVE  WithKey(rel, stored'[t], KeyOf(rel, q.r.body[i])) # {} \/ KeyOnly(rel, q.r.body[i])
    <3> DEFINE k == KeyOf(rel, q.r.body[i])
    <3>1. k \in DOMAIN w \/ KeyOnly(rel, q.r.body[i])
      BY <2>6, <2>7 DEF ToSet
    <3>2. ASSUME k \in DOMAIN w
          PROVE  WithKey(rel, stored'[t], k) # {}
      <4> HIDE DEF k
      <4>1. WithKey(rel, stored'[t], k) = w[k]
        BY <2>3, <2>4, <3>2, AfterIs DEF rel
      <4>2. w[k] # {}
        BY <2>3, <2>7, <2>8, <3>2, LayingRows
      <4> QED
        BY <4>1, <4>2
    <3> QED
      BY <3>1, <3>2
  <2>11. Relation(c) = rel /\ Name(c) = t /\ req[c] = q /\ req'[c].data = q.data
    BY <2>3, <2>6 DEF q, t
  <2> QED
    BY <2>9, <2>10, <2>11 DEF LastUnder
<1>2. TopperInv /\ [Next]_vars =>
        [\A c \in Clients : Served(c)' /\ req[c].pc = "POST" =>
           LET rel == Relation(c)
               data == req'[c].data
               LastOfKey(i) == \A j \in (i + 1)..Len(data) : KeyOf(rel, data[i]) # KeyOf(rel, data[j])
           IN /\ \A i \in DOMAIN data : LastOfKey(i) => data[i] \in stored'[Name(c)]
              /\ \A i \in DOMAIN req[c].r.body :
                   WithKey(rel, stored'[Name(c)], KeyOf(rel, req[c].r.body[i])) # {}
                     \/ KeyOnly(rel, req[c].r.body[i])]_vars
  BY <1>1
<1> QED
  BY <1>2, TopperKeeps, PTL DEF Spec, AnswersShowWhatIsStored

-----------------------------------------------------------------------------
(* The response cache, for any number of callers and keys, any TTL, query     *)
(* timeout and capacity.  What a stored entry promises, and what a fill in   *)
(* flight has left of its deadline, add up (Dated): the query is in the      *)
(* deadline, the deadline is at most QueryTimeout from its start, and        *)
(* Expires is TTL after its end.                                             *)

Entries == [body : Nat, readAt : Nat, expires : Nat]
Calls == [pc : {"idle", "asked", "missed", "waiting", "leading", "filling", "read", "done"},
          key : Paths, entry : Entries, deadline : Nat, ok : BOOLEAN]

CacheTyped == now \in Nat /\ db \in Nat /\ call \in [Callers -> Calls]

Stored ==
  \A k \in DOMAIN m : m[k] \in Entries /\ m[k].expires <= m[k].readAt + QueryTimeout + TTL

(* Each fill is within its deadline, and what it read is young enough. *)
Dated ==
  \A c \in Callers :
    /\ call[c].pc = "filling" => call[c].deadline <= now + QueryTimeout
    /\ call[c].pc = "read" => call[c].deadline <= call[c].entry.readAt + QueryTimeout
    /\ call[c].pc \in {"filling", "read"} => now <= call[c].deadline
    /\ call[c].pc = "done" /\ call[c].ok => now < call[c].entry.readAt + TTL + QueryTimeout

CacheInv == CacheTyped /\ Stored /\ Dated /\ StalenessBounded

LEMMA Numbers == TTL \in Nat /\ TTL > 0 /\ QueryTimeout \in Nat
BY TopperCacheAssumption

LEMMA CacheInitKeeps == CacheInit => CacheInv
<1> SUFFICES ASSUME CacheInit
             PROVE  CacheInv
  OBVIOUS
<1>1. DOMAIN m = {} /\ m = [k \in {} |-> NoBody]
  BY DEF CacheInit
<1>2. NoBody \in Entries
  BY DEF NoBody, Entries
<1>3. PICK k \in Paths : call = [c \in Callers |-> [pc |-> "idle", key |-> k, entry |-> NoBody,
                                                   deadline |-> 0, ok |-> TRUE]]
  BY DEF CacheInit
<1>4. call \in [Callers -> Calls] /\ \A c \in Callers : call[c].pc = "idle"
  BY <1>2, <1>3 DEF Calls, Entries
<1> QED
  BY <1>1, <1>4 DEF CacheInit, CacheInv, CacheTyped, Stored, Dated, StalenessBounded

(* A caller's record changes; the clock does not. *)
LEMMA OneCallMoves ==
  ASSUME CacheInv, NEW c \in Callers, NEW r \in Calls, call' = [call EXCEPT ![c] = r],
         UNCHANGED <<now, db>>, Stored', StalenessBounded',
         r.pc = "filling" => r.deadline = now + QueryTimeout,
         r.pc = "read" => /\ call[c].pc = "filling" /\ r.deadline = call[c].deadline
                          /\ r.entry.readAt = now,
         r.pc = "done" /\ r.ok => now < r.entry.readAt + TTL + QueryTimeout
  PROVE  CacheInv'
<1>1. call \in [Callers -> Calls] /\ now \in Nat
  BY DEF CacheInv, CacheTyped
<1>2. call' \in [Callers -> Calls] /\ call'[c] = r
      /\ \A d \in Callers : d # c => call'[d] = call[d]
  BY <1>1
<1>3. CacheTyped'
  BY <1>2 DEF CacheInv, CacheTyped
<1>4. ASSUME NEW d \in Callers
      PROVE  /\ call'[d].pc = "filling" => call'[d].deadline <= now + QueryTimeout
             /\ call'[d].pc = "read" => call'[d].deadline <= call'[d].entry.readAt + QueryTimeout
             /\ call'[d].pc \in {"filling", "read"} => now <= call'[d].deadline
             /\ call'[d].pc = "done" /\ call'[d].ok
                  => now < call'[d].entry.readAt + TTL + QueryTimeout
  <2>1. CASE d # c
    BY <1>2, <2>1 DEF CacheInv, Dated
  <2>2. CASE d = c
    BY <1>1, <1>2, <2>2, Numbers DEF CacheInv, Dated
  <2> QED
    BY <2>1, <2>2
<1>5. Dated'
  BY <1>4 DEF CacheInv, Dated
<1> QED
  BY <1>3, <1>5 DEF CacheInv

(* A hit is younger than its entry's promise. *)
LEMMA HitIsYoung ==
  ASSUME CacheInv, NEW c \in Callers, Hit(c)
  PROVE  /\ m[call[c].key] \in Entries
         /\ now < m[call[c].key].readAt + TTL + QueryTimeout
<1> DEFINE e == m[call[c].key]
<1>1. call[c].key \in DOMAIN m /\ now < e.expires
  BY DEF Hit, Expirations, Expired
<1>2. e \in Entries /\ e.expires <= e.readAt + QueryTimeout + TTL /\ now \in Nat
  BY <1>1 DEF CacheInv, Stored, CacheTyped
<1>3. e.readAt \in Nat /\ e.expires \in Nat
  BY <1>2 DEF Entries
<1> QED
  BY <1>1, <1>2, <1>3, Numbers

LEMMA Dropped ==
  ASSUME CacheInv, NEW c \in Callers, DropIfExpired(c)
  PROVE  Stored'
BY DEF CacheInv, Stored, DropIfExpired, Restrict

LEMMA Unanswered == NoAnswer => StalenessBounded'
BY DEF NoAnswer, StalenessBounded

LEMMA Answered ==
  ASSUME NEW cs, NEW e \in Entries, now \in Nat, UNCHANGED now, Reply(cs, e),
         now < e.readAt + TTL + QueryTimeout
  PROVE  StalenessBounded'
<1>1. \A r \in replies' : r.age = now - e.readAt
  BY DEF Reply
<1>2. e.readAt \in Nat
  BY DEF Entries
<1> QED
  BY <1>1, <1>2, Numbers DEF StalenessBounded

-----------------------------------------------------------------------------
(* Each step keeps CacheInv *)

LEMMA CallSteps ==
  ASSUME CacheInv, NEW c \in Callers,
         \/ Ask(c) \/ LoadHit(c) \/ LoadMiss(c) \/ Join(c) \/ Lead(c) \/ LoadAgain(c)
         \/ Query(c) \/ FillFails(c) \/ Store(c)
  PROVE  CacheInv'
<1>1. /\ call \in [Callers -> Calls] /\ call[c] \in Calls /\ call[c].entry \in Entries
      /\ now \in Nat /\ db \in Nat
  BY DEF CacheInv, CacheTyped, Calls
<1>2. Stored
  BY DEF CacheInv
<1>3. NoBody \in Entries
  BY DEF NoBody, Entries
<1>4. CASE Ask(c)
  <2>1. PICK k \in Paths : call' = [call EXCEPT ![c] = [call[c] EXCEPT !.pc = "asked", !.key = k]]
    BY <1>1, <1>4 DEF Ask
  <2> DEFINE r == [call[c] EXCEPT !.pc = "asked", !.key = k]
  <2>2. r \in Calls /\ r.pc = "asked"
    BY <1>1 DEF Calls
  <2>3. Stored' /\ StalenessBounded' /\ UNCHANGED <<now, db>>
    BY <1>2, <1>4, Unanswered DEF Ask, Stored
  <2> QED
    BY <2>1, <2>2, <2>3, OneCallMoves
<1>5. CASE LoadHit(c)
  <2>1. Released(c) \in Calls /\ Released(c).pc = "idle"
    BY <1>1, <1>3 DEF Released, Calls
  <2>2. Stored' /\ UNCHANGED <<now, db>>
    BY <1>2, <1>5 DEF LoadHit, Stored
  <2>3. StalenessBounded'
    BY <1>1, <1>5, HitIsYoung, Answered DEF LoadHit
  <2> QED
    BY <1>5, <2>1, <2>2, <2>3, OneCallMoves DEF LoadHit
<1>6. CASE LoadMiss(c) \/ Join(c) \/ Lead(c)
  <2>1. PICK pc \in {"missed", "waiting", "leading"} : Goes(c, pc)
    BY <1>6 DEF LoadMiss, Join, Lead
  <2> DEFINE r == [call[c] EXCEPT !.pc = pc]
  <2>2. r \in Calls /\ r.pc = pc /\ call' = [call EXCEPT ![c] = r]
    BY <1>1, <2>1 DEF Calls, Goes
  <2>3. Stored'
    BY <1>2, <1>6, Dropped DEF LoadMiss, Join, Lead, Stored
  <2>4. StalenessBounded' /\ UNCHANGED <<now, db>>
    BY <1>6, Unanswered DEF LoadMiss, Join, Lead
  <2> QED
    BY <2>2, <2>3, <2>4, OneCallMoves
<1>7. CASE LoadAgain(c)
  <2>1. StalenessBounded' /\ UNCHANGED <<now, db>>
    BY <1>7, Unanswered DEF LoadAgain
  <2>2. CASE FoundAgain(c)
    <3> DEFINE e == m[call[c].key]
               r == [call[c] EXCEPT !.pc = "done", !.entry = e]
    <3>1. e \in Entries /\ now < e.readAt + TTL + QueryTimeout
      BY <2>2, HitIsYoung DEF FoundAgain
    <3>2. r \in Calls /\ r.pc = "done" /\ r.entry = e
      BY <1>1, <3>1 DEF Calls
    <3>3. call' = [call EXCEPT ![c] = r]
      BY <1>1, <1>7, <2>2 DEF LoadAgain
    <3>4. Stored'
      BY <1>2, <1>7, <2>2 DEF LoadAgain, Stored
    <3> QED
      BY <2>1, <3>1, <3>2, <3>3, <3>4, OneCallMoves
  <2>3. CASE ~FoundAgain(c)
    <3> DEFINE r == [call[c] EXCEPT !.pc = "filling", !.deadline = now + QueryTimeout]
    <3>0. now + QueryTimeout \in Nat
      BY <1>1, Numbers
    <3>1. r \in Calls /\ r.pc = "filling" /\ r.deadline = now + QueryTimeout
      BY <1>1, <3>0 DEF Calls
    <3>2. call' = [call EXCEPT ![c] = r]
      BY <1>1, <1>7, <2>3 DEF LoadAgain
    <3>3. Stored'
      BY <1>7, <2>3, Dropped DEF LoadAgain
    <3> QED
      BY <2>1, <3>1, <3>2, <3>3, OneCallMoves
  <2> QED
    BY <2>2, <2>3
<1>8. CASE Query(c)
  <2> DEFINE r == [call[c] EXCEPT !.pc = "read", !.entry.body = db, !.entry.readAt = now]
  <2>1. r.entry = [[call[c].entry EXCEPT !.body = db] EXCEPT !.readAt = now]
        /\ r.pc = "read" /\ r.deadline = call[c].deadline
    BY <1>1 DEF Calls, Entries
  <2>2. r \in Calls /\ r.entry.readAt = now
    BY <1>1, <2>1 DEF Calls, Entries
  <2>3. call' = [call EXCEPT ![c] = r]
    BY <1>8 DEF Query
  <2>4. Stored' /\ StalenessBounded' /\ UNCHANGED <<now, db>> /\ call[c].pc = "filling"
    BY <1>2, <1>8, Unanswered DEF Query, Stored
  <2> QED
    BY <2>1, <2>2, <2>3, <2>4, OneCallMoves
<1>9. CASE FillFails(c)
  <2> DEFINE r == [call[c] EXCEPT !.pc = "done", !.entry = NoBody, !.ok = FALSE]
  <2>1. r \in Calls /\ r.pc = "done" /\ ~r.ok
    BY <1>1, <1>3 DEF Calls
  <2>2. call' = [call EXCEPT ![c] = r]
    BY <1>9 DEF FillFails
  <2>3. Stored' /\ StalenessBounded' /\ UNCHANGED <<now, db>>
    BY <1>2, <1>9, Unanswered DEF FillFails, Stored
  <2> QED
    BY <2>1, <2>2, <2>3, OneCallMoves
<1>10. CASE Store(c)
  <2> DEFINE e == [call[c].entry EXCEPT !.expires = now + TTL]
             r == [call[c] EXCEPT !.pc = "done", !.entry = e]
  <2>1. e \in Entries /\ e.readAt = call[c].entry.readAt /\ e.expires = now + TTL
    BY <1>1, Numbers DEF Entries
  <2>2. now <= e.readAt + QueryTimeout
    <3>1. call[c].deadline <= e.readAt + QueryTimeout /\ now <= call[c].deadline
      BY <1>10, <2>1 DEF Store, CacheInv, Dated
    <3>2. call[c].deadline \in Nat /\ e.readAt \in Nat
      BY <1>1, <2>1 DEF Calls, Entries
    <3> QED
      BY <1>1, <3>1, <3>2, Numbers
  <2>3. e.readAt \in Nat
    BY <2>1 DEF Entries
  <2>4. now < e.readAt + TTL + QueryTimeout /\ e.expires <= e.readAt + QueryTimeout + TTL
    BY <1>1, <2>1, <2>2, <2>3, Numbers
  <2>5. r \in Calls /\ r.pc = "done" /\ r.entry = e
    BY <1>1, <2>1 DEF Calls
  <2>6. call' = [call EXCEPT ![c] = r]
    BY <1>1, <1>10 DEF Store
  <2>7. PICK ks \in Kept :
          m' = [k \in ks \cup {call[c].key} |-> IF k = call[c].key THEN e ELSE m[k]]
    BY <1>10 DEF Store
  <2>8. ks \subseteq DOMAIN m
    BY <2>7 DEF Kept
  <2>9. Stored'
    BY <1>2, <2>1, <2>4, <2>7, <2>8 DEF Stored
  <2>10. StalenessBounded' /\ UNCHANGED <<now, db>>
    BY <1>10, Unanswered DEF Store
  <2> QED
    BY <2>4, <2>5, <2>6, <2>9, <2>10, OneCallMoves
<1> QED
  BY <1>4, <1>5, <1>6, <1>7, <1>8, <1>9, <1>10

(* Who waited is released with the leader. *)
LEMMA Landing ==
  ASSUME CacheInv, NEW c \in Callers, Land(c)
  PROVE  CacheInv'
<1>1. /\ call \in [Callers -> Calls] /\ call[c].entry \in Entries /\ now \in Nat
      /\ call[c].pc = "done" /\ UNCHANGED <<now, db, m>>
  BY DEF CacheInv, CacheTyped, Calls, Land
<1>2. \A d \in Callers : Released(d) \in Calls /\ Released(d).pc = "idle"
  <2>1. NoBody \in Entries
    BY DEF NoBody, Entries
  <2> QED
    BY <1>1, <2>1 DEF Released, Calls
<1>3. PICK cs : call' = [d \in Callers |-> IF d \in cs THEN Released(d) ELSE call[d]]
  BY DEF Land
<1>4. call' \in [Callers -> Calls] /\ \A d \in Callers : call'[d] = call[d] \/ call'[d].pc = "idle"
  BY <1>1, <1>2, <1>3
<1>5. CacheTyped' /\ Stored' /\ Dated'
  BY <1>1, <1>4 DEF CacheInv, CacheTyped, Stored, Dated
<1>6. StalenessBounded'
  <2>1. CASE call[c].ok
    <3>1. PICK ds : Reply(ds, call[c].entry)
      BY <2>1 DEF Land
    <3>2. now < call[c].entry.readAt + TTL + QueryTimeout
      BY <1>1, <2>1 DEF CacheInv, Dated
    <3> QED
      BY <1>1, <3>1, <3>2, Answered
  <2>2. CASE ~call[c].ok
    BY <2>2, Unanswered DEF Land
  <2> QED
    BY <2>1, <2>2
<1> QED
  BY <1>5, <1>6 DEF CacheInv

LEMMA TimePasses ==
  ASSUME CacheInv, Tick
  PROVE  CacheInv'
<1>1. now \in Nat /\ now' = now + 1 /\ UNCHANGED <<db, m, call>> /\ call \in [Callers -> Calls]
  BY DEF CacheInv, CacheTyped, Tick
<1>2. StalenessBounded'
  BY Unanswered DEF Tick
<1>3. ASSUME NEW c \in Callers
      PROVE  /\ call[c].pc = "filling" => call[c].deadline <= now' + QueryTimeout
             /\ call[c].pc \in {"filling", "read"} => now' <= call[c].deadline
             /\ call[c].pc # "done"
  <2>1. call[c].deadline \in Nat
    BY <1>1 DEF Calls
  <2> QED
    BY <1>1, <2>1, Numbers DEF CacheInv, Dated, Tick
<1>4. Dated'
  BY <1>1, <1>3 DEF CacheInv, Dated
<1> QED
  BY <1>1, <1>2, <1>4 DEF CacheInv, CacheTyped, Stored

LEMMA CacheStepKeeps == CacheInv /\ [CacheNext]_cacheVars => CacheInv'
<1> SUFFICES ASSUME CacheInv, [CacheNext]_cacheVars
             PROVE  CacheInv'
  OBVIOUS
<1>1. ASSUME NEW c \in Callers, Ask(c) \/ CallerStep(c)
      PROVE  CacheInv'
  BY <1>1, CallSteps, Landing DEF CallerStep
<1>2. CASE CommitElsewhere
  <2>1. StalenessBounded'
    BY <1>2, Unanswered DEF CommitElsewhere
  <2> QED
    BY <1>2, <2>1 DEF CommitElsewhere, CacheInv, CacheTyped, Stored, Dated
<1>3. CASE Tick
  BY <1>3, TimePasses
<1>4. CASE UNCHANGED cacheVars
  BY <1>4 DEF cacheVars, CacheInv, CacheTyped, Stored, Dated, StalenessBounded
<1> QED
  BY <1>1, <1>2, <1>3, <1>4 DEF CacheNext

(* Whatever is stored, evicted, refilled or waited for, an answer misses     *)
(* only commits of less than TTL plus one query before it (Cache.Do,         *)
(* readBody's deadline).                                                     *)
THEOREM StalenessIsBounded == CacheSpec => []StalenessBounded
<1>1. CacheInv => StalenessBounded
  BY DEF CacheInv
<1> QED
  BY <1>1, CacheInitKeeps, CacheStepKeeps, PTL DEF CacheSpec

-----------------------------------------------------------------------------
(* Reads of a key never go back.  Whatever can still be answered for a key   *)
(* is at least as new as what has been: the stored entry, and what the one   *)
(* flight of the key has read.  No entry is stored while a fill is under way *)
(* (LoadAgain has dropped it), so no hit can come between.                   *)

Leads(c) == call[c].pc \in {"leading", "filling", "read", "done"}
HasBody(c) == call[c].pc = "read" \/ (call[c].pc = "done" /\ call[c].ok)

Newest ==
  /\ shown \in [Paths -> Nat] /\ \A k \in Paths : shown[k] <= db
  /\ DOMAIN m \subseteq Paths /\ \A k \in DOMAIN m : shown[k] <= m[k].body /\ m[k].body <= db

OneFlight ==
  /\ flight \in [Paths -> Callers \cup {Nobody}]
  /\ \A c \in Callers : Leads(c) => flight[call[c].key] = c

Fills ==
  \A c \in Callers :
    /\ call[c].pc \in {"filling", "read"} => call[c].key \notin DOMAIN m
    /\ HasBody(c) => shown[call[c].key] <= call[c].entry.body /\ call[c].entry.body <= db
    /\ call[c].pc = "done" /\ call[c].ok /\ call[c].key \in DOMAIN m
         => m[call[c].key].body = call[c].entry.body

OInv == CacheInv /\ Newest /\ OneFlight /\ Fills

LEMMA Bodies ==
  ASSUME CacheInv
  PROVE  /\ db \in Nat
         /\ \A c \in Callers : /\ call[c] \in Calls /\ call[c].key \in Paths
                               /\ call[c].entry \in Entries /\ call[c].entry.body \in Nat
         /\ \A k \in DOMAIN m : m[k] \in Entries /\ m[k].body \in Nat
<1>1. \A e \in Entries : e.body \in Nat
  BY DEF Entries
<1>2. \A c \in Callers : call[c] \in Calls
  BY DEF CacheInv, CacheTyped
<1>3. \A c \in Callers : call[c].key \in Paths /\ call[c].entry \in Entries
  BY <1>2 DEF Calls
<1> QED
  BY <1>1, <1>2, <1>3 DEF CacheInv, CacheTyped, Stored

LEMMA InitOrdered == CacheInit => OInv
<1> SUFFICES ASSUME CacheInit
             PROVE  OInv
  OBVIOUS
<1>1. CacheInv
  BY CacheInitKeeps
<1>2. DOMAIN m = {} /\ db = 0 /\ shown = [k \in Paths |-> 0] /\ flight = [k \in Paths |-> Nobody]
  BY DEF CacheInit
<1>3. \A c \in Callers : call[c].pc = "idle"
  BY DEF CacheInit
<1> QED
  BY <1>1, <1>2, <1>3 DEF OInv, Newest, OneFlight, Fills, Leads, HasBody

(* A call moves and answers nothing; entries may be dropped. *)
LEMMA OneCallOrdered ==
  ASSUME OInv, CacheInv', NEW c \in Callers, NEW r \in Calls, call' = [call EXCEPT ![c] = r],
         UNCHANGED <<db, shown>>, DOMAIN m' \subseteq DOMAIN m,
         \A k \in DOMAIN m' : m'[k] = m[k],
         \/ UNCHANGED flight
         \/ flight[r.key] = Nobody /\ flight' = [flight EXCEPT ![r.key] = c],
         r.pc \in {"leading", "filling", "read", "done"} => flight'[r.key] = c,
         r.pc \in {"filling", "read"} => r.key \notin DOMAIN m',
         r.pc = "read" \/ (r.pc = "done" /\ r.ok)
           => shown[r.key] <= r.entry.body /\ r.entry.body <= db,
         r.pc = "done" /\ r.ok /\ r.key \in DOMAIN m' => m'[r.key].body = r.entry.body
  PROVE  OInv'
<1>1. /\ call'[c] = r
      /\ \A d \in Callers : d # c => call'[d] = call[d]
      /\ \A d \in Callers : call[d].key \in Paths /\ r.key \in Paths
  BY Bodies DEF OInv, CacheInv, CacheTyped, Calls
<1>2. Newest'
  BY DEF OInv, Newest
<1>3. OneFlight'
  <2>1. flight' \in [Paths -> Callers \cup {Nobody}]
    BY DEF OInv, OneFlight
  <2>2. ASSUME NEW d \in Callers, d # c, Leads(d)
        PROVE  flight'[call[d].key] = d
    <3>1. flight[call[d].key] = d /\ d # Nobody
      BY <2>2, TopperCacheAssumption DEF OInv, OneFlight
    <3> QED
      BY <1>1, <3>1 DEF OInv, OneFlight
  <2> QED
    BY <1>1, <2>1, <2>2 DEF OneFlight, Leads
<1>4. Fills'
  BY <1>1 DEF OInv, Fills, HasBody
<1> QED
  BY <1>2, <1>3, <1>4 DEF OInv

LEMMA CallsOrdered ==
  ASSUME OInv, CacheInv', NEW c \in Callers,
         Ask(c) \/ LoadMiss(c) \/ Join(c) \/ Lead(c) \/ LoadAgain(c) \/ Query(c) \/ FillFails(c)
  PROVE  OInv'
<1>1. /\ call \in [Callers -> Calls] /\ call[c] \in Calls /\ call[c].key \in Paths
      /\ call[c].entry \in Entries /\ now \in Nat /\ db \in Nat
  BY Bodies DEF OInv, CacheInv, CacheTyped
<1>2. UNCHANGED shown
  BY DEF Ask, LoadMiss, Join, Lead, LoadAgain, Query, FillFails, NoAnswer
<1>3. ASSUME DropIfExpired(c)
      PROVE  DOMAIN m' \subseteq DOMAIN m /\ \A k \in DOMAIN m' : m'[k] = m[k]
  BY <1>3 DEF DropIfExpired, Restrict
<1>4. NoBody \in Entries
  BY DEF NoBody, Entries
<1>5. CASE Ask(c)
  <2>1. PICK k \in Paths : call' = [call EXCEPT ![c] = [call[c] EXCEPT !.pc = "asked", !.key = k]]
    BY <1>1, <1>5 DEF Ask
  <2> DEFINE r == [call[c] EXCEPT !.pc = "asked", !.key = k]
  <2>2. r \in Calls /\ r.pc = "asked"
    BY <1>1 DEF Calls
  <2> QED
    BY <1>2, <1>5, <2>1, <2>2, OneCallOrdered DEF Ask
<1>6. CASE LoadMiss(c) \/ Join(c)
  <2>1. PICK pc \in {"missed", "waiting"} : Goes(c, pc)
    BY <1>6 DEF LoadMiss, Join
  <2> DEFINE r == [call[c] EXCEPT !.pc = pc]
  <2>2. r \in Calls /\ r.pc = pc /\ call' = [call EXCEPT ![c] = r]
    BY <1>1, <2>1 DEF Calls, Goes
  <2>3. DOMAIN m' \subseteq DOMAIN m /\ \A k \in DOMAIN m' : m'[k] = m[k]
    BY <1>3, <1>6 DEF LoadMiss, Join
  <2>4. UNCHANGED <<db, flight>>
    BY <1>6 DEF LoadMiss, Join
  <2> QED
    BY <1>2, <2>2, <2>3, <2>4, OneCallOrdered
<1>7. CASE Lead(c)
  <2> DEFINE r == [call[c] EXCEPT !.pc = "leading"]
  <2>1. r \in Calls /\ r.pc = "leading" /\ r.key = call[c].key /\ call' = [call EXCEPT ![c] = r]
    BY <1>1, <1>7 DEF Calls, Goes, Lead
  <2>2. flight[r.key] = Nobody /\ flight' = [flight EXCEPT ![r.key] = c] /\ UNCHANGED <<db, m>>
    BY <1>7, <2>1 DEF Lead, Flying
  <2>3. flight'[r.key] = c
    BY <1>1, <2>1, <2>2 DEF OInv, OneFlight
  <2> QED
    BY <1>2, <2>1, <2>2, <2>3, OneCallOrdered
<1>8. CASE LoadAgain(c)
  <2>1. flight[call[c].key] = c /\ UNCHANGED <<db, flight>>
    BY <1>8 DEF LoadAgain, OInv, OneFlight, Leads
  <2>2. CASE FoundAgain(c)
    <3> DEFINE e == m[call[c].key]
               r == [call[c] EXCEPT !.pc = "done", !.entry = e]
    <3>1. e \in Entries /\ call[c].key \in DOMAIN m
      BY <2>2, HitIsYoung DEF FoundAgain, Hit, OInv
    <3>2. r \in Calls /\ r.pc = "done" /\ r.entry = e /\ r.key = call[c].key
      BY <1>1, <3>1 DEF Calls
    <3>3. call' = [call EXCEPT ![c] = r] /\ UNCHANGED m
      BY <1>1, <1>8, <2>2 DEF LoadAgain
    <3>4. shown[r.key] <= r.entry.body /\ r.entry.body <= db
      BY <3>1, <3>2 DEF OInv, Newest
    <3> QED
      BY <1>2, <2>1, <3>1, <3>2, <3>3, <3>4, OneCallOrdered
  <2>3. CASE ~FoundAgain(c)
    <3> DEFINE r == [call[c] EXCEPT !.pc = "filling", !.deadline = now + QueryTimeout]
    <3>0. now + QueryTimeout \in Nat
      BY <1>1, Numbers
    <3>1. r \in Calls /\ r.pc = "filling" /\ r.key = call[c].key
      BY <1>1, <3>0 DEF Calls
    <3>2. call' = [call EXCEPT ![c] = r] /\ DropIfExpired(c)
      BY <1>1, <1>8, <2>3 DEF LoadAgain
    <3>3. r.key \notin DOMAIN m'
      BY <2>3, <3>1, <3>2 DEF DropIfExpired, Restrict, FoundAgain, Hit
    <3> QED
      BY <1>2, <1>3, <2>1, <3>1, <3>2, <3>3, OneCallOrdered
  <2> QED
    BY <2>2, <2>3
<1>9. CASE Query(c)
  <2> DEFINE r == [call[c] EXCEPT !.pc = "read", !.entry.body = db, !.entry.readAt = now]
  <2>1. r.entry = [[call[c].entry EXCEPT !.body = db] EXCEPT !.readAt = now]
        /\ r.pc = "read" /\ r.key = call[c].key
    BY <1>1 DEF Calls, Entries
  <2>2. r \in Calls /\ r.entry.body = db
    BY <1>1, <2>1 DEF Calls, Entries
  <2>3. call' = [call EXCEPT ![c] = r] /\ UNCHANGED <<db, flight, m>>
    BY <1>9 DEF Query
  <2>4. flight[r.key] = c /\ r.key \notin DOMAIN m
    BY <1>9, <2>1 DEF Query, OInv, OneFlight, Fills, Leads
  <2>5. shown[r.key] <= db
    BY <1>1, <2>1 DEF OInv, Newest
  <2> HIDE DEF r
  <2>6. shown[r.key] <= r.entry.body /\ r.entry.body <= db
    BY <1>1, <2>2, <2>5
  <2> QED
    BY <1>2, <2>1, <2>2, <2>3, <2>4, <2>6, OneCallOrdered
<1>10. CASE FillFails(c)
  <2> DEFINE r == [call[c] EXCEPT !.pc = "done", !.entry = NoBody, !.ok = FALSE]
  <2>1. r \in Calls /\ r.pc = "done" /\ ~r.ok /\ r.key = call[c].key
    BY <1>1, <1>4 DEF Calls
  <2>2. call' = [call EXCEPT ![c] = r] /\ UNCHANGED <<db, flight, m>>
    BY <1>10 DEF FillFails
  <2>3. flight[r.key] = c
    BY <1>10, <2>1 DEF FillFails, OInv, OneFlight, Leads
  <2> QED
    BY <1>2, <2>1, <2>2, <2>3, OneCallOrdered
<1> QED
  BY <1>5, <1>6, <1>7, <1>8, <1>9, <1>10

(* What is stored is what its flight has read: nobody else fills the key. *)
LEMMA StoreOrdered ==
  ASSUME OInv, CacheInv', NEW c \in Callers, Store(c)
  PROVE  OInv'
<1> DEFINE e == [call[c].entry EXCEPT !.expires = now + TTL]
           r == [call[c] EXCEPT !.pc = "done", !.entry = e]
           key == call[c].key
<1>1. /\ call \in [Callers -> Calls] /\ call[c] \in Calls /\ key \in Paths
      /\ call[c].entry \in Entries /\ now \in Nat /\ call[c].pc = "read"
      /\ UNCHANGED <<db, flight, shown>>
  BY Bodies DEF OInv, CacheInv, CacheTyped, Store, NoAnswer
<1>2. e.body = call[c].entry.body /\ e \in Entries
  BY <1>1, Numbers DEF Entries
<1>3. r.pc = "done" /\ r.entry = e /\ r.key = key
  BY <1>1, <1>2 DEF Calls
<1>4. PICK ks \in Kept : m' = [k \in ks \cup {key} |-> IF k = key THEN e ELSE m[k]]
  BY <1>1 DEF Store
<1>5. ks \subseteq DOMAIN m
  BY <1>4 DEF Kept
<1>6. call' = [call EXCEPT ![c] = r]
  BY <1>1 DEF Store
<1>7. /\ call'[c] = r /\ \A d \in Callers : d # c => call'[d] = call[d]
      /\ key \in DOMAIN m' /\ m'[key] = e
      /\ \A k \in DOMAIN m' : k # key => k \in DOMAIN m /\ m'[k] = m[k]
  BY <1>1, <1>4, <1>5, <1>6
<1>8. shown[key] <= e.body /\ e.body <= db
  BY <1>1, <1>2 DEF OInv, Fills, HasBody
<1> HIDE DEF e, r, key
<1>9. \A d \in Callers : Leads(d) /\ d # c => call[d].key # key
  BY <1>1 DEF OInv, OneFlight, Leads, key
<1>10. Newest'
  BY <1>1, <1>7, <1>8 DEF OInv, Newest
<1>11. OneFlight'
  BY <1>1, <1>3, <1>7 DEF OInv, OneFlight, Leads, key
<1>12. ASSUME NEW d \in Callers
       PROVE  /\ call'[d].pc \in {"filling", "read"} => call'[d].key \notin DOMAIN m'
              /\ HasBody(d)' => shown[call'[d].key] <= call'[d].entry.body
                               /\ call'[d].entry.body <= db
              /\ call'[d].pc = "done" /\ call'[d].ok /\ call'[d].key \in DOMAIN m'
                   => m'[call'[d].key].body = call'[d].entry.body
  <2>1. CASE d = c
    BY <1>3, <1>7, <1>8, <2>1
  <2>2. CASE d # c
    BY <1>7, <1>9, <2>2 DEF OInv, Fills, HasBody, Leads
  <2> QED
    BY <2>1, <2>2
<1>13. Fills'
  BY <1>1, <1>12 DEF Fills
<1> QED
  BY <1>10, <1>11, <1>13 DEF OInv

(* An answer for a key: nothing of the key that can still be answered is     *)
(* older than it.                                                            *)
LEMMA AnswerOrdered ==
  ASSUME OInv, NEW cs, NEW c \in cs, NEW e \in Entries, Reply(cs, e), NEW k \in Paths,
         \A d \in cs : call[d].key = k, e.body <= db
  PROVE  /\ shown' \in [Paths -> Nat]
         /\ \A j \in Paths : shown'[j] <= db /\ (j # k => shown'[j] = shown[j])
         /\ shown'[k] = e.body \/ shown'[k] = shown[k]
         /\ shown[k] <= e.body => /\ shown'[k] = e.body
                                  /\ \A r \in replies' : r.body >= shown[r.key]
<1>1. (CHOOSE d \in cs : TRUE) \in cs
  OBVIOUS
<1>2. /\ replies' = {[key |-> k, body |-> e.body, age |-> now - e.readAt]}
      /\ shown' = [shown EXCEPT ![k] = IF e.body > shown[k] THEN e.body ELSE shown[k]]
  BY <1>1 DEF Reply, OInv, Newest
<1>3. e.body \in Nat /\ shown \in [Paths -> Nat] /\ db \in Nat /\ \A j \in Paths : shown[j] <= db
  BY Bodies DEF OInv, Newest, Entries
<1>4. shown'[k] = (IF e.body > shown[k] THEN e.body ELSE shown[k])
      /\ \A j \in Paths : j # k => shown'[j] = shown[j]
  BY <1>2, <1>3
<1>5. shown' \in [Paths -> Nat]
  BY <1>2, <1>3
<1>6. shown[k] <= e.body => shown'[k] = e.body /\ \A r \in replies' : r.body >= shown[r.key]
  BY <1>2, <1>3, <1>4
<1>7. \A j \in Paths : shown'[j] <= db
  BY <1>3, <1>4
<1> QED
  BY <1>4, <1>5, <1>6, <1>7

LEMMA HitOrdered ==
  ASSUME OInv, CacheInv', NEW c \in Callers, LoadHit(c)
  PROVE  OInv' /\ \A r \in replies' : r.body >= shown[r.key]
<1> DEFINE key == call[c].key
           e == m[key]
<1>1. /\ call \in [Callers -> Calls] /\ key \in Paths /\ key \in DOMAIN m
      /\ e \in Entries /\ shown[key] <= e.body /\ e.body <= db
      /\ UNCHANGED <<db, m, flight>>
  BY Bodies DEF OInv, CacheInv, CacheTyped, LoadHit, Hit, Newest
<1>2. Reply({c}, e)
  BY DEF LoadHit
<1>3. /\ shown' \in [Paths -> Nat]
      /\ \A j \in Paths : shown'[j] <= db /\ (j # key => shown'[j] = shown[j])
      /\ shown'[key] = e.body /\ \A r \in replies' : r.body >= shown[r.key]
  BY <1>1, <1>2, AnswerOrdered
<1>4. /\ call'[c] = Released(c) /\ \A d \in Callers : d # c => call'[d] = call[d]
      /\ Released(c).pc = "idle"
  <2>1. call[c] \in Calls
    BY <1>1
  <2>2. Released(c).pc = "idle"
    BY <2>1 DEF Released, Calls
  <2> QED
    BY <1>1, <2>2 DEF LoadHit
<1>5. Newest' /\ OneFlight'
  BY <1>1, <1>3, <1>4 DEF OInv, Newest, OneFlight, Leads
<1>6. ASSUME NEW d \in Callers, d # c
      PROVE  /\ call[d].pc \in {"filling", "read"} => call[d].key \notin DOMAIN m
             /\ HasBody(d) => shown'[call[d].key] <= call[d].entry.body /\ call[d].entry.body <= db
             /\ call[d].pc = "done" /\ call[d].ok /\ call[d].key \in DOMAIN m
                  => m[call[d].key].body = call[d].entry.body
  <2>1. CASE call[d].key = key
    <3>1. /\ call[d].pc \notin {"filling", "read"}
          /\ call[d].pc = "done" /\ call[d].ok => e.body = call[d].entry.body
      BY <1>1, <2>1 DEF OInv, Fills
    <3> QED
      BY <1>1, <1>3, <2>1, <3>1, Bodies DEF HasBody, OInv
  <2>2. CASE call[d].key # key
    BY <1>3, <2>2, Bodies DEF OInv, Fills
  <2> QED
    BY <2>1, <2>2
<1>7. Fills'
  BY <1>1, <1>4, <1>6 DEF Fills, HasBody
<1> QED
  BY <1>3, <1>5, <1>7 DEF OInv

LEMMA LandOrdered ==
  ASSUME OInv, CacheInv', NEW c \in Callers, Land(c)
  PROVE  OInv' /\ \A r \in replies' : r.body >= shown[r.key]
<1> DEFINE key == call[c].key
           e == call[c].entry
           cs == {c} \cup {d \in Callers : call[d].pc = "waiting" /\ call[d].key = call[c].key}
<1>1. /\ call \in [Callers -> Calls] /\ key \in Paths /\ e \in Entries /\ call[c].pc = "done"
      /\ UNCHANGED <<db, m>> /\ flight' = [flight EXCEPT ![key] = Nobody]
  BY Bodies DEF OInv, CacheInv, CacheTyped, Land, Landed
<1>2. call' = [d \in Callers |-> IF d \in cs THEN Released(d) ELSE call[d]]
  BY DEF Land
<1>3. \A d \in Callers : Released(d).pc = "idle"
  BY <1>1 DEF Released, Calls
<1>4. ASSUME NEW d \in Callers, Leads(d)'
      PROVE  d # c /\ call'[d] = call[d] /\ Leads(d) /\ call[d].key # key
  <2>1. d \notin cs /\ call'[d] = call[d]
    BY <1>2, <1>3, <1>4 DEF Leads
  <2>2. Leads(d) /\ d # c
    BY <1>4, <2>1 DEF Leads
  <2>3. Leads(c)
    BY <1>1 DEF Leads
  <2> QED
    BY <2>1, <2>2, <2>3 DEF OInv, OneFlight
<1>5. OneFlight'
  BY <1>1, <1>4, Bodies DEF OInv, OneFlight
<1>6. /\ shown' \in [Paths -> Nat]
      /\ \A j \in Paths : shown'[j] <= db /\ (j # key => shown'[j] = shown[j])
      /\ key \in DOMAIN m => shown'[key] <= m[key].body
      /\ \A r \in replies' : r.body >= shown[r.key]
  <2>1. CASE call[c].ok
    <3>1. Reply(cs, e)
      BY <2>1 DEF Land
    <3>2. shown[key] <= e.body /\ e.body <= db
      BY <1>1, <2>1 DEF OInv, Fills, HasBody
    <3>3. c \in cs /\ \A d \in cs : call[d].key = key
      OBVIOUS
    <3> HIDE DEF key, e, cs
    <3>4. /\ shown' \in [Paths -> Nat]
          /\ \A j \in Paths : shown'[j] <= db /\ (j # key => shown'[j] = shown[j])
          /\ shown'[key] = e.body /\ \A r \in replies' : r.body >= shown[r.key]
      BY <1>1, <3>1, <3>2, <3>3, AnswerOrdered
    <3>5. key \in DOMAIN m => m[key].body = e.body
      BY <1>1, <2>1 DEF OInv, Fills, key, e
    <3>6. e.body \in Nat
      BY <1>1 DEF Entries
    <3> QED
      BY <3>4, <3>5, <3>6
  <2>2. CASE ~call[c].ok
    <3>1. UNCHANGED shown /\ replies' = {}
      BY <2>2 DEF Land, NoAnswer
    <3> QED
      BY <1>1, <3>1 DEF OInv, Newest
  <2> QED
    BY <2>1, <2>2
<1> HIDE DEF key, e, cs
<1>7. Newest'
  BY <1>1, <1>6 DEF OInv, Newest
<1>8. Fills'
  <2> SUFFICES ASSUME NEW d \in Callers, Leads(d)'
               PROVE  /\ call[d].pc \in {"filling", "read"} => call[d].key \notin DOMAIN m
                      /\ HasBody(d) => shown'[call[d].key] <= call[d].entry.body
                                      /\ call[d].entry.body <= db
                      /\ call[d].pc = "done" /\ call[d].ok /\ call[d].key \in DOMAIN m
                           => m[call[d].key].body = call[d].entry.body
    BY <1>1, <1>4 DEF Fills, HasBody, Leads
  <2>1. call[d].key # key /\ call[d].key \in Paths
    BY <1>4, Bodies DEF OInv
  <2> QED
    BY <1>6, <2>1 DEF OInv, Fills
<1> QED
  BY <1>5, <1>6, <1>7, <1>8 DEF OInv

LEMMA StepOrdered ==
  ASSUME OInv, [CacheNext]_cacheVars
  PROVE  OInv' /\ [\A r \in replies' : r.body >= shown[r.key]]_cacheVars
<1>1. CacheInv'
  BY CacheStepKeeps DEF OInv
<1>2. ASSUME NEW c \in Callers, Ask(c) \/ CallerStep(c)
      PROVE  OInv' /\ \A r \in replies' : r.body >= shown[r.key]
  <2>1. CASE Ask(c) \/ LoadMiss(c) \/ Join(c) \/ Lead(c) \/ LoadAgain(c) \/ Query(c) \/ FillFails(c)
    <3>1. replies' = {}
      BY <2>1 DEF Ask, LoadMiss, Join, Lead, LoadAgain, Query, FillFails, NoAnswer
    <3> QED
      BY <1>1, <2>1, <3>1, CallsOrdered
  <2>2. CASE Store(c)
    BY <1>1, <2>2, StoreOrdered DEF Store, NoAnswer
  <2>3. CASE LoadHit(c)
    BY <1>1, <2>3, HitOrdered
  <2>4. CASE Land(c)
    BY <1>1, <2>4, LandOrdered
  <2> QED
    BY <1>2, <2>1, <2>2, <2>3, <2>4 DEF CallerStep
<1>3. CASE CommitElsewhere
  <2>1. db \in Nat /\ db' = db + 1 /\ UNCHANGED <<m, flight, call, shown>> /\ replies' = {}
    BY <1>3, Bodies DEF CommitElsewhere, NoAnswer, OInv
  <2>2. Newest'
    BY <2>1, Bodies DEF OInv, Newest
  <2>3. OneFlight' /\ Fills'
    BY <2>1, Bodies DEF OInv, OneFlight, Fills, Leads, HasBody
  <2> QED
    BY <1>1, <2>1, <2>2, <2>3 DEF OInv
<1>4. CASE Tick \/ UNCHANGED cacheVars
  <2>1. UNCHANGED <<db, m, flight, call, shown>> /\ (replies' = {} \/ UNCHANGED cacheVars)
    BY <1>4 DEF Tick, NoAnswer, cacheVars
  <2> QED
    BY <1>1, <2>1 DEF OInv, Newest, OneFlight, Fills, Leads, HasBody
<1> QED
  BY <1>2, <1>3, <1>4 DEF CacheNext

(* However calls overlap, entries expire, are evicted and are filled again,  *)
(* an answer for a key is never older than one given before it (Cache.Do,    *)
(* singleflight.Group.Do).                                                   *)
THEOREM ReadsAreOrdered == CacheSpec => ReadsNeverGoBack
<1>1. CacheInit => OInv
  BY InitOrdered
<1>2. OInv /\ [CacheNext]_cacheVars => OInv'
  BY StepOrdered
<1>3. OInv /\ [CacheNext]_cacheVars => [\A r \in replies' : r.body >= shown[r.key]]_cacheVars
  BY StepOrdered
<1> QED
  BY <1>1, <1>2, <1>3, PTL DEF CacheSpec, ReadsNeverGoBack
=============================================================================
