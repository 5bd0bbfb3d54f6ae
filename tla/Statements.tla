----------------------------- MODULE Statements -----------------------------
(***************************************************************************)
(* The statements the topper builds from a checked request                 *)
(* (internal/query: select, upsert, delete) and what Postgres answers to   *)
(* them.  Rows are functions from column names to values; a table is a set *)
(* of rows.  NULL is not equal, unequal or comparable to anything; a       *)
(* comparison with it is not true, and no statement negates one.           *)
(***************************************************************************)
EXTENDS Grammar, FiniteSetsExt

CONSTANTS NULL, Like(_, _)

(* predicate *)
Means(c, v) ==
  CASE c.op = "null"    -> v = NULL
    [] c.op = "notnull" -> v # NULL
    [] v = NULL         -> FALSE
    [] c.op = "in"      -> \E i \in DOMAIN c.vals : v = c.vals[i]
    [] c.op = "eq"      -> v = c.vals[1]
    [] c.op = "neq"     -> v # c.vals[1]
    [] c.op = "gt"      -> v > c.vals[1]
    [] c.op = "gte"     -> v >= c.vals[1]
    [] c.op = "lt"      -> v < c.vals[1]
    [] c.op = "lte"     -> v <= c.vals[1]
    [] c.op \in {"like", "ilike"} -> Like(v, c.vals[1])

Holds(c, row) == Means(c, row[c.col])

(* userPredicates, and writeWhere, which adds those of the relation.       *)
Asked(p, row) ==
  /\ \A c \in p.conds : Holds(c, row)
  /\ \A group \in p.or : \E c \in group : Holds(c, row)

Where(rel, p, row) ==
  /\ Asked(p, row)
  /\ \A i \in DOMAIN rel.forced : Holds(rel.forced[i], row)
  /\ \A i \in DOMAIN rel.toggles : rel.toggles[i].key \notin p.on
                                     => Holds(rel.toggles[i].whenOff, row)

(* writeOrderBy: the term asked for, else the relation's own, else the     *)
(* primary key, and then the tiebreak columns.  One that is there already  *)
(* is not added in the code; added, it would order nothing.                *)
OrderAsked(rel, p) == p.order   \* mutant: no tiebreak

OrderTerms(rel, p) ==
  LET Ascending(cols) == [i \in DOMAIN cols |-> [col |-> cols[i], desc |-> FALSE]]
      first == IF p.order # <<>> THEN p.order
               ELSE IF rel.defaultOrder # <<>> THEN rel.defaultOrder
               ELSE Ascending(rel.pk)
  IN first \o Ascending(rel.tiebreak)

(* Postgres sorts NULL above every value.                                  *)
Below(v, w) == v # NULL /\ (w = NULL \/ v < w)

Precedes(terms, r, s) ==
  \E i \in DOMAIN terms :
    /\ \A j \in 1..(i - 1) : r[terms[j].col] = s[terms[j].col]
    /\ IF terms[i].desc THEN Below(s[terms[i].col], r[terms[i].col])
                        ELSE Below(r[terms[i].col], s[terms[i].col])

(* Projection: what of a row is answered.                                  *)
Project(rel, p, row) ==
  LET named == IF p.select = {} THEN ColumnNames(rel) ELSE UNION {ToSet(s) : s \in p.select}
  IN [col \in {n \in named : IsExposed(rel, n)} |-> row[col]]

(* The answers to BuildSelect: every order the terms allow, cut to a page. *)
Pages(rel, p, rows) ==
  LET terms == OrderTerms(rel, p)
      matching == {r \in rows : Where(rel, p, r)}
      sorted == {s \in SetToSeqs(matching) :
                   \A i, j \in DOMAIN s : i < j => ~Precedes(terms, s[j], s[i])}
      Page(s) == [i \in {i \in 1..p.limit : p.offset + i \in DOMAIN s} |-> s[p.offset + i]]
  IN {Page(s) : s \in sorted}

Select(rel, p, rows) ==
  {[i \in DOMAIN page |-> Project(rel, p, page[i])] : page \in Pages(rel, p, rows)}

(* BuildCount *)
Total(rel, p, rows) == Cardinality({r \in rows : Where(rel, p, r)})

(* BuildDelete: a delete without a condition is refused.                   *)
DeleteOK(p) == p.conds # {} \/ p.or # {}

(* BuildUpsert.  given is a row of the request: the columns it has a value *)
(* for.  It is refused when it names what is no exposed column, or nothing *)
(* that can be written; generated columns are dropped.                     *)
Supplied(rel, given) == {n \in DOMAIN given : ColumnOf(rel, n).writable}

UpsertOK(rel, given) ==
  /\ \A n \in DOMAIN given : IsExposed(rel, n)
  /\ Supplied(rel, given) # {}

HasKey(rel, given) == rel.pk # <<>> /\ ToSet(rel.pk) \subseteq Supplied(rel, given)

(* ON CONFLICT DO UPDATE: a row that exists takes the supplied columns.    *)
Replaced(rel, given, row) ==   \* mutant: a row is replaced, not merged
  [col \in DOMAIN row |-> IF col \in DOMAIN given THEN given[col] ELSE NULL]

Merged(rel, given, row) ==
  [col \in DOMAIN row |-> IF col \in Supplied(rel, given) THEN given[col] ELSE row[col]]

(* A row that does not exist takes the others' defaults.                   *)
Inserted(rel, given, defaults) == Merged(rel, given, defaults)

(* ON CONFLICT DO NOTHING: only the key was supplied.                      *)
KeyOnly(rel, given) == HasKey(rel, given) /\ Supplied(rel, given) = ToSet(rel.pk)
=============================================================================
