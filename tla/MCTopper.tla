------------------------------ MODULE MCTopper ------------------------------
(* A topper over one table and one view of plaidsync's, which is still      *)
(* migrating when the topper starts, and one table of its own.              *)
EXTENDS Topper

CONSTANTS Absent, Placeholder, Junk, TooLarge
Cfg == INSTANCE Config

Col(n) == [name |-> n, udt |-> "text", generated |-> FALSE]
Tab(cols) == [base |-> TRUE, columns |-> [i \in DOMAIN cols |-> Col(cols[i])], pk |-> <<"id">>]
No == [x \in {} |-> <<>>]

\* plaidsync: the items after its first migration, the streams after its second.
Items == <<"public", "items">>
Streams == <<"public", "streams">>
MCSchema == [v \in 0..2 |->
  IF v = 0 THEN No
  ELSE IF v = 1 THEN Items :> Tab(<<"id", "token", "status">>)
  ELSE Items :> Tab(<<"id", "token", "status">>) @@ Streams :> Tab(<<"id", "item", "day">>)]

View(n) == [name |-> n, from |-> {}, reads |-> {}, columns |-> <<>>, defaultOrder |-> <<>>, tiebreak |-> <<>>, forced |-> <<>>, toggles |-> <<>>]
Ok == [col |-> "status", op |-> "eq", vals |-> <<1>>]
MCCatalogSpec ==
  [readTables |-> {"items", "streams"}, denied |-> "items" :> {"token"},
   views |-> <<
     [View("live") EXCEPT !.from = {"items"}, !.forced = <<Ok>>],
     [View("joined") EXCEPT !.reads = {Streams}, !.columns = <<Col("id"), Col("day")>>,
                              !.tiebreak = <<"id">>,
                              !.defaultOrder = <<[col |-> "day", desc |-> TRUE]>>,
                              !.toggles = <<[key |-> "all", whenOff |->
                                             [col |-> "day", op |-> "notnull", vals |-> <<>>]]>>]>>]

ItemRows(a, b) == {[id |-> 1, token |-> a, status |-> 1], [id |-> 2, token |-> b, status |-> 1],
                   [id |-> 3, token |-> a, status |-> 2]}
StreamRows == {[id |-> 1, item |-> 1, day |-> 5], [id |-> 2, item |-> 1, day |-> 5],
               [id |-> 3, item |-> 2, day |-> NULL]}
JoinedRows == {[id |-> r.id, day |-> r.day] : r \in StreamRows}
Rows(a, b) == Items :> ItemRows(a, b) @@ Streams :> StreamRows @@ <<"view", "joined">> :> JoinedRows
MCPublic == [s \in {1, 2} |-> IF s = 1 THEN Rows(1, 2) ELSE Rows(2, 1)]

MCCreated == "budgets" :> Tab(<<"id", "amount", "notes">>)
Budget(i, a, n) == [id |-> i, amount |-> a, notes |-> n]
MCContents == {"budgets" :> {}, "budgets" :> {Budget(1, 2, 3), Budget(2, 2, NULL)}}

\* What Load makes of two values of TOPPER_WRITE_TABLES; it refuses the third.
Words(names) == [i \in DOMAIN names |-> [name |-> names[i], shape |-> "word"]]
MCWriteTables == {Cfg!Names(list) : list \in
  {list \in {Words(<<"budgets">>), Words(<<"budgets", "budget">>), Words(<<"budgets", "views">>)} :
     Cfg!CheckWriteTables(list)}}
MCDefaults == "budgets" :> [id |-> NULL, amount |-> NULL, notes |-> NULL]
MCValid(row) == row.amount # NULL /\ row.amount >= 0
MCLike(v, w) == v >= w

Token(text) == [text |-> text, bytes |-> 32]
Entry(name, scope) == [name |-> Words(<<name>>)[1], scope |-> scope, token |-> Token(name)]
MCKeys == Cfg!Scopes(<<Entry("reader", "read"), Entry("writer", "readwrite")>>)

Get(place, q) == [token |-> Token("reader"), method |-> "GET", place |-> place, query |-> q, body |-> <<>>]
Post(body) == [token |-> Token("writer"), method |-> "POST", place |-> <<"table", "budgets">>,
               query |-> No, body |-> body]
Del(q) == [Post(<<>>) EXCEPT !.method = "DELETE", !.query = q]
Eq(v) == <<[form |-> "op", op |-> "eq", val |-> v]>>
Table(n) == <<"table", n>>

MCRequests == {
  Get(Table("items"), "order_by" :> <<"status">> @@ "limit" :> <<2>> @@ "offset" :> <<0>>),
  Get(Table("items"), "token" :> Eq(1) @@ "count" :> <<"exact">>),
  Get(Table("items"), "order_by" :> <<"token">> @@ "order" :> <<"desc">> @@ "select" :> << <<"id">> >>),
  Get(<<"view", "live">>, "or" :> << <<[col |-> "id", filter |-> Eq(1)[1]],
                                       [col |-> "status", filter |-> [form |-> "is", notNull |-> FALSE]]>> >>
                          @@ "count" :> <<"exact">>),
  Get(<<"view", "joined">>, "all" :> <<"1">> @@ "limit" :> <<1>> @@ "offset" :> <<1>>),
  Get(Table("nowhere"), No),
  [Get(Table("budgets"), "amount" :> <<[form |-> "in", vals |-> <<1, 2>>]>>) EXCEPT !.token = Token("writer")],
  [Post(<<[id |-> 1, amount |-> 1]>>) EXCEPT !.token = Token("reader")],
  [Post(<<[id |-> 1, amount |-> 1]>>) EXCEPT !.token = Token("stranger")],
  [Post(<<[id |-> 1, amount |-> 1]>>) EXCEPT !.place = Table("items")],
  Post(<<[id |-> 1, amount |-> 1, notes |-> 1], [id |-> 2, amount |-> 2]>>),
  Post(<<[id |-> 2, amount |-> 1, notes |-> 2], [id |-> 1, amount |-> 2]>>),
  Post(<<[id |-> 1, amount |-> 2], [id |-> 2, notes |-> 1]>>),
  Post(<<[id |-> 1, amount |-> 2], [id |-> 1, notes |-> 1]>>),
  Post(<<[id |-> 1, other |-> 1]>>),
  Del("amount" :> Eq(2)),
  Del(No)}
=============================================================================
