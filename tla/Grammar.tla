------------------------------- MODULE Grammar -------------------------------
(***************************************************************************)
(* The topper's query grammar (internal/query/grammar.go): which query     *)
(* strings are accepted for a relation, and what they then ask for.        *)
(*                                                                         *)
(* A query string is a function from its keys to the sequences of their    *)
(* values.  Values are taken apart already: the value of select is the     *)
(* sequence of names between its commas, that of limit and offset a number *)
(* (-1 for what is not one), a filter one of                               *)
(*   [form: "op", op, val]   [form: "in", vals]   [form: "is", notNull]    *)
(*   [form: "bare", val]     [form: "malformed"]                           *)
(* and the value of or a sequence of [col, filter], or [blank] for what is *)
(* only space between two commas.                                          *)
(***************************************************************************)
EXTENDS Catalog, Integers

CONSTANTS MaxLimit, DefaultLimit, MaxInValues

ASSUME LimitsAssumption ==
  /\ MaxLimit \in Nat /\ DefaultLimit \in 1..MaxLimit
  /\ MaxInValues \in Nat

Reserved == {"select", "order_by", "order", "limit", "offset", "count", "or"}

SqlOps == {"eq", "neq", "gt", "gte", "lt", "lte", "like", "ilike"}

(* Keys that may be given once: all the reserved ones but or, and toggles. *)
SingleKeys(rel, q) ==
  {k \in DOMAIN q : k \in Reserved \ {"or"} \/ (k \notin Reserved /\ HasToggle(rel, k))}

ParseSelect(rel, names) ==
  /\ names # <<>>
  /\ \A i \in DOMAIN names : IsExposed(rel, names[i])
  /\ IsInjective(names)

(* parseFilter: the condition a filter means, in a set, empty when it is   *)
(* malformed.  A value without an operator means equality, where allowed.  *)
ParseFilter(col, f, allowBare) ==
  CASE f.form = "op" /\ f.op \in SqlOps -> {[col |-> col, op |-> f.op, vals |-> <<f.val>>]}
    [] f.form = "in" /\ f.vals # <<>>   -> {[col |-> col, op |-> "in", vals |-> f.vals]}
    [] f.form = "is" -> {[col |-> col, op |-> IF f.notNull THEN "notnull" ELSE "null", vals |-> <<>>]}
    [] f.form = "bare" /\ allowBare     -> {[col |-> col, op |-> "eq", vals |-> <<f.val>>]}
    [] OTHER -> {}

(* checkCond *)
Applicable(rel, c) ==
  /\ c.op \in {"like", "ilike"} => ColumnOf(rel, c.col).textLike
  /\ c.op = "in" => Len(c.vals) <= MaxInValues

(* A column, checked (exposedColumn), with a filter, parsed and checked.   *)
Conditions(rel, col, f, allowBare) ==
  IF IsExposed(rel, col)
  THEN {c \in ParseFilter(col, f, allowBare) : Applicable(rel, c)}
  ELSE {}

(* parseOrGroup, and the splitting at top level: terms that are blank are  *)
(* skipped, but one must be left.                                          *)
Terms(group) == {t \in ToSet(group) : "blank" \notin DOMAIN t}

OrGroupOK(rel, group) ==
  /\ Terms(group) # {}
  /\ \A t \in Terms(group) : Conditions(rel, t.col, t.filter, FALSE) # {}

OrGroup(rel, group) == UNION {Conditions(rel, t.col, t.filter, FALSE) : t \in Terms(group)}

FilterKeys(rel, q) == {k \in DOMAIN q : k \notin Reserved /\ ~HasToggle(rel, k)}

Accepted(rel, q) ==
  /\ \A k \in SingleKeys(rel, q) : Len(q[k]) = 1
  /\ "select" \in DOMAIN q => ParseSelect(rel, q["select"][1])
  /\ "order_by" \in DOMAIN q => IsExposed(rel, q["order_by"][1])
  /\ "order" \in DOMAIN q => "order_by" \in DOMAIN q /\ q["order"][1] \in {"asc", "desc"}
  /\ "limit" \in DOMAIN q => q["limit"][1] \in 1..MaxLimit
  /\ "offset" \in DOMAIN q => q["offset"][1] >= 0
  /\ "count" \in DOMAIN q => q["count"][1] \in {"exact", "none", ""}
  /\ "or" \in DOMAIN q => \A i \in DOMAIN q["or"] : OrGroupOK(rel, q["or"][i])
  /\ \A k \in DOMAIN q : k \notin Reserved /\ HasToggle(rel, k) => q[k][1] \in {"1", "0"}
  /\ \A k \in FilterKeys(rel, q) :
       \A i \in DOMAIN q[k] : Conditions(rel, k, q[k][i], TRUE) # {}

(* What an accepted query asks for (query.Params).  A key that is given     *)
(* twice means both filters.                                               *)
ParamsOf(rel, q) ==
  LET First(k, default) == IF k \in DOMAIN q THEN q[k][1] ELSE default
  IN [select  |-> IF "select" \in DOMAIN q THEN {q["select"][1]} ELSE {},
      conds   |-> UNION {UNION {Conditions(rel, k, q[k][i], TRUE) : i \in DOMAIN q[k]}
                           : k \in FilterKeys(rel, q)},
      or      |-> IF "or" \in DOMAIN q
                  THEN {OrGroup(rel, q["or"][i]) : i \in DOMAIN q["or"]} ELSE {},
      order   |-> IF "order_by" \in DOMAIN q
                  THEN <<[col |-> q["order_by"][1], desc |-> First("order", "asc") = "desc"]>>
                  ELSE <<>>,
      limit   |-> First("limit", DefaultLimit),
      offset  |-> First("offset", 0),
      count   |-> First("count", "none") = "exact",
      on      |-> {k \in DOMAIN q : HasToggle(rel, k) /\ q[k][1] = "1"}]

(* Parse: the parameters, in a set that is empty when the query is refused *)
(* (400).                                                                  *)
Parse(rel, q) == IF Accepted(rel, q) THEN {ParamsOf(rel, q)} ELSE {}
===============================================================================
