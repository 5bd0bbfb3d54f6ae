----------------------------- MODULE MCPlaidsync -----------------------------
EXTENDS Plaidsync

Account(id) == "account_id" :> id @@ "name" :> "n" @@ "type" :> "depository"
Transaction(id, n) == "transaction_id" :> id @@ "account_id" :> "a1" @@ "name" :> "n"
                      @@ "amount" :> n @@ "date" :> 1
Stream(id, acct, n) == "stream_id" :> id @@ "account_id" :> acct @@ "first_date" :> 1
                       @@ "last_date" :> 2 @@ "average_amount.amount" :> n

Id(id) == "transaction_id" :> id
Page(added, modified, removed) == "added" :> added @@ "modified" :> modified @@ "removed" :> removed
Accts(ids) == "accounts" :> [n \in DOMAIN ids |-> Account(ids[n])]
Inflow(ss) == "inflow_streams" :> ss

MCFeed == [i \in Items |->
  IF i = "i1"
  THEN <<[page |-> Page(<<Transaction("t1", 12340001), Transaction("t2", 7)>>, <<>>, <<Id("t1")>>),
          accounts |-> Accts(<<"a1">>)],
         [page |-> Page(<<Transaction("t3", -5000) @@ "pending" :> TRUE>>,
                        <<Transaction("t1", 12340002), Transaction("t3", -5001)>>, <<Id("t0")>>),
          accounts |-> Accts(<<"a1", "a2">>)]>>
  ELSE <<[page |-> "added" :> <<>>, accounts |-> Accts(<<"b1">>)]>>]

Rent(n) == Stream("rent", "a1", n)
Gym == Stream("gym", "a1", 5)
Pay == Stream("pay", "a2", -20005000)
MCLists == [i \in Items |->
  IF i = "i1"
  THEN <<Inflow(<<Rent(12345000), Gym>>),
         Inflow(<<Rent(12344999)>>) @@ "outflow_streams" :> <<Pay>> >>
  ELSE << <<>> >>]

MCFaults == {[kind |-> "refused"],
             Body("added" :> <<Transaction("t4", 1), Transaction("t5", BAD)>>
                  @@ "outflow_streams" :> <<Pay, "stream_id" :> "s">>
                  @@ "accounts" :> <<Account("a9") @@ "mask" :> BAD>>)}
=============================================================================
