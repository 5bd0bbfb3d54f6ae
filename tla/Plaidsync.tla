------------------------------ MODULE Plaidsync ------------------------------
(***************************************************************************)
(* The plaidsync process and its recurring streams add-on: run() and      *)
(* serve() of cmd/plaidsync, the life of the job runner inside them, and    *)
(* RefreshRecurring, which a worker calls after a sync and the sweep calls  *)
(* at start, so that two refreshes of an item may run at once.  The answers *)
(* of Plaid go through the decoders of PlaidClient.                         *)
(*                                                                         *)
(* A refresh asks Plaid first and locks the item's row afterwards, for its  *)
(* transaction: what it writes, and its COMMIT, are two steps.  A sync is    *)
(* one step here: ItemSync has its steps, JobQueue the workers' queue.      *)
(***************************************************************************)
EXTENDS PlaidClient, FiniteSets

CONSTANTS Items,
          Workers,     \* PLAIDSYNC_SYNC_CONCURRENCY of them
          Sweep,       \* the goroutine of refreshStaleRecurring
          Feed,        \* Feed[i][n]: the item's n-th page, and its accounts then
          Lists,       \* Lists[i][n]: the n-th value of its recurring streams
          Faults,      \* answers that are refused, torn or malformed
          Triggered,   \* bound: the items that jobs come for and clients remove
          MaxStarts    \* bound on the starts of the process

VARIABLES main,      \* where run() is
          stopping,  \* the process got a signal: ctx is canceled
          starts,
          runner,    \* where runner.Run is
          listed,    \* Plaid: Lists[i][listed[i]] is what it reports now
          item,      \* the rows of plaid_items
          accounts,  \* plaid_accounts, by account_id
          ledger,    \* transactions, by transaction_id
          streams,   \* plaid_recurring_streams, by stream_id
          holder,    \* the refresher whose transaction has locked the item's row
          job,       \* the local state of each refresher
          todo       \* the items left to the sweep

process == <<main, stopping, starts, runner>>
tables == <<item, accounts, ledger, streams>>
vars == <<process, listed, tables, holder, job, todo>>

Refreshers == Workers \cup {Sweep}

(* pages is the cursor: NULL is 0.  checked and refreshed: recurring_checked_at *)
(* and recurring_refreshed_at are not NULL.                                     *)
NewItem == [cred |-> TRUE, pages |-> 0, checked |-> FALSE, refreshed |-> FALSE]
At(pc) == [pc |-> pc, item |-> NULL, rows |-> <<>>, tx |-> <<>>]
Resting == [r \in Refreshers |-> At(IF r = Sweep THEN "done" ELSE "idle")]
Empty == [id \in {} |-> NULL]

(* INSERT ... ON CONFLICT DO UPDATE, and WHERE EXISTS of a known account *)
Upserted(table, new) == [id \in DOMAIN table \cup DOMAIN new |->
                           IF id \in DOMAIN new THEN new[id] ELSE table[id]]
KeyedOver(rows, at, key) == [id \in {rows[n].row[key] : n \in at} |->
                               rows[CHOOSE n \in at :
                                      /\ rows[n].row[key] = id
                                      /\ \A m \in at : rows[m].row[key] = id => m <= n]]
Keyed(rows, key) == KeyedOver(rows, DOMAIN rows, key)

(* What the client returns, for every answer of Plaid. *)
Body(body) == [kind |-> "body", body |-> body]
Pages == [i \in Items |-> [n \in DOMAIN Feed[i] |-> SyncTransactions(Body(Feed[i][n].page))]]
Listings == [i \in Items |-> [n \in DOMAIN Feed[i] |-> GetAccounts(Body(Feed[i][n].accounts))]]
Answers == [i \in Items |-> [n \in DOMAIN Lists[i] |-> GetRecurringTransactions(Body(Lists[i][n]))]]
NoPage == UNION {SyncTransactions(answer) : answer \in Faults}
NoListing == UNION {GetAccounts(answer) : answer \in Faults}
NoStreams == UNION {GetRecurringTransactions(answer) : answer \in Faults}

(* The streams in a list, and which way their money goes. *)
Elements(body) == Range(Member(body, "inflow_streams")) \X {"inflow"}
                  \cup Range(Member(body, "outflow_streams")) \X {"outflow"}

(* What a page of the item's feed tells of transactions, in its order. *)
Told == [i \in Items |-> [n \in DOMAIN Feed[i] |->
           Member(Feed[i][n].page, "added") \o Member(Feed[i][n].page, "modified")]]
Dropped == [i \in Items |-> [n \in DOMAIN Feed[i] |-> Range(Member(Feed[i][n].page, "removed"))]]
Mentioned(i) == UNION {Range(Told[i][n]) \cup Dropped[i][n] : n \in DOMAIN Feed[i]}

(* A fault fails every decoder.  Plaid's ids are unique: a stream's tells its *)
(* item and its account, and is in a list once; an account is one item's, and *)
(* a transaction.                                                            *)
Garbled(o, fields, required) == \/ \E f \in FieldsOf(fields) : Field(o, f) = BAD
                                \/ \E f \in required : ~Given(o, f)
Listed(i) == UNION {Elements(Lists[i][v]) : v \in DOMAIN Lists[i]}
Same(x, y, id) == id \in DOMAIN x /\ id \in DOMAIN y /\ x[id] = y[id]
IsSequence(s) == s \in Seq(Range(s))

ASSUME PlaidsyncAssumption ==
  /\ NULL \notin Refreshers /\ IsFiniteSet(Items) /\ Triggered \subseteq Items
  /\ \A answer \in Faults : answer.kind = "body" =>
       /\ \E o \in Range(Member(answer.body, "accounts")) :
            Garbled(o, AccountFields, {"account_id", "name", "type"})
       /\ \E o \in Range(Member(answer.body, "added")) :
            Garbled(o, TransactionFields, {"transaction_id", "account_id", "name"})
       /\ \E x \in Elements(answer.body) : Garbled(x[1], StreamFields, {"stream_id", "account_id"})
  /\ \A i \in Items :
       /\ IsSequence(Feed[i]) /\ Feed[i] # <<>> /\ IsSequence(Lists[i]) /\ Lists[i] # <<>>
       /\ \A n \in DOMAIN Feed[i] :
            /\ IsSequence(Member(Feed[i][n].accounts, "accounts"))
            /\ \A f \in {"added", "modified", "removed"} : IsSequence(Member(Feed[i][n].page, f))
            /\ \A o \in Range(Told[i][n]) : Field(o, "pending") \in BOOLEAN \cup {NULL, BAD}
       /\ \A v \in DOMAIN Lists[i] :
            /\ IsSequence(Member(Lists[i][v], "inflow_streams"))
            /\ IsSequence(Member(Lists[i][v], "outflow_streams"))
            /\ \A x, y \in Elements(Lists[i][v]) : Same(x[1], y[1], "stream_id") => x = y
       /\ \A x \in Listed(i), f \in {"average_amount.amount", "last_amount.amount"} :
            Field(x[1], f) \in Int \cup {NULL, BAD}
  /\ \A i, j \in Items : \A x \in Listed(i) :
       /\ \A y \in Listed(j) : Same(x[1], y[1], "stream_id") =>
            i = j /\ Field(x[1], "account_id") = Field(y[1], "account_id")
       /\ \A n \in DOMAIN Feed[j] : \A o \in Range(Member(Feed[j][n].accounts, "accounts")) :
            Same(x[1], o, "account_id") => i = j
  /\ \A i, j \in Items : \A x \in Mentioned(i), y \in Mentioned(j) :
       Same(x, y, "transaction_id") => i = j
  /\ NULL \notin BOOLEAN

(* ApplySyncBatch on the rows: what is added or modified is upserted, then    *)
(* what is removed marked so; a row that was removed stays so.               *)
Applied(table, page) ==
  LET rows == Upserted(table, Keyed(page.added \o page.modified, "transaction_id"))
      removed == {o["transaction_id"] : o \in Range(page.removed)}
  IN  [id \in DOMAIN rows |->
         [raw |-> rows[id].raw, row |-> rows[id].row,
          removed |-> id \in removed \/ (id \in DOMAIN table /\ table[id].removed)]]

(* The foreign key of transactions. *)
Referenced(rows, accts) == \A id \in DOMAIN rows : rows[id].row.account_id \in DOMAIN accts

(* What a sync of an earlier process stored, of each item. *)
FirstAccounts(i) == Keyed(CHOOSE accts \in Listings[i][1] : TRUE, "account_id")
FirstRows(i) == Applied(Empty, CHOOSE page \in Pages[i][1] : TRUE)
Storable == {i \in Items : /\ Pages[i][1] # {} /\ Listings[i][1] # {}
                           /\ Referenced(FirstRows(i), FirstAccounts(i))}
Joint(of) == [id \in UNION {DOMAIN of[i] : i \in DOMAIN of} |->
                of[CHOOSE i \in DOMAIN of : id \in DOMAIN of[i]][id]]

Init ==
  /\ main = "down" /\ stopping = FALSE /\ starts = 0 /\ runner = "none"
  /\ listed = [i \in Items |-> 1]
  /\ \E synced \in {{}, Storable} :
       /\ item = [i \in Items |-> IF i \in synced THEN [NewItem EXCEPT !.pages = 1] ELSE NewItem]
       /\ accounts = Joint([i \in synced |-> FirstAccounts(i)])
       /\ ledger = Joint([i \in synced |-> FirstRows(i)])
  /\ streams = Empty
  /\ holder = [i \in Items |-> NULL]
  /\ job = Resting /\ todo = <<>>

-----------------------------------------------------------------------------
(* run() and serve() *)

Start ==
  /\ main = "down" /\ starts < MaxStarts
  /\ main' = "starting" /\ starts' = starts + 1
  /\ UNCHANGED <<stopping, runner, listed, tables, holder, job, todo>>

(* The configuration, the keyring, the database or its migration; a signal   *)
(* makes the latter two fail.                                                *)
StartupFails ==
  /\ main = "starting"
  /\ main' = "down" /\ stopping' = FALSE
  /\ UNCHANGED <<starts, runner, listed, tables, holder, job, todo>>

(* The runner gets its goroutine; the listener opens, or serve returns. *)
RunnerStarts ==
  /\ main = "starting"
  /\ main' \in {"serving", "joining"} /\ runner' = "requeueing"
  /\ UNCHANGED <<stopping, starts, listed, tables, holder, job, todo>>

(* Serve only returns on an accept failure. *)
ServerFails ==
  /\ main = "serving"
  /\ main' = "joining"
  /\ UNCHANGED <<stopping, starts, runner, listed, tables, holder, job, todo>>

Signal ==
  /\ main # "down" /\ ~stopping
  /\ stopping' = TRUE
  /\ UNCHANGED <<main, starts, runner, listed, tables, holder, job, todo>>

(* Shutdown returns, or has waited ShutdownTimeout and Close ends the rest. *)
Drain ==
  /\ main = "serving" /\ stopping
  /\ main' = "joining"
  /\ UNCHANGED <<stopping, starts, runner, listed, tables, holder, job, todo>>

AtOnce == TRUE   \* mutant: run() does not wait for the runner
RunnerDone == runner \in {"stopped", "failed"}

Exit ==
  /\ main = "joining" /\ RunnerDone
  /\ main' = "down" /\ stopping' = FALSE /\ runner' = "none"
  /\ UNCHANGED <<starts, listed, tables, holder, job, todo>>

(* The process is killed, or gets its second signal: Postgres rolls back. *)
Kill ==
  /\ main # "down"
  /\ main' = "down" /\ stopping' = FALSE /\ runner' = "none"
  /\ holder' = [i \in Items |-> NULL] /\ job' = Resting /\ todo' = <<>>
  /\ UNCHANGED <<starts, listed, tables>>

-----------------------------------------------------------------------------
(* runner.Run *)

Requeue ==
  /\ runner = "requeueing"
  /\ \/ runner' = "running" /\ job' = [job EXCEPT ![Sweep] = At("list")]
     \/ runner' = "failed" /\ job' = job
  /\ UNCHANGED <<main, stopping, starts, listed, tables, holder, todo>>

RunnerStops ==
  /\ runner = "running" /\ stopping /\ job = Resting
  /\ runner' = "stopped"
  /\ UNCHANGED <<main, stopping, starts, listed, tables, holder, job, todo>>

Claimable == TRUE   \* mutant: the worker does not look at ctx
Claims == ~stopping

(* The worker's job is a sync of the item: what /transactions/sync and        *)
(* /accounts/get answered is stored.  The last page answers again when there  *)
(* is nothing new.                                                            *)
Following(i) == IF item[i].pages < Len(Feed[i]) THEN item[i].pages + 1 ELSE item[i].pages

Success(i, page, accts) ==
  /\ item' = [item EXCEPT ![i].pages = Following(i)]
  /\ accounts' = Upserted(accounts, Keyed(accts, "account_id"))
  /\ ledger' = Applied(ledger, page)
  /\ Referenced(ledger', accounts')   \* or it is rolled back

Sync(w, i) ==
  /\ runner = "running" /\ Claims /\ job[w].pc = "idle"
  /\ item[i].cred /\ holder[i] = NULL
  /\ \E page \in NoPage \cup Pages[i][Following(i)],
        accts \in NoListing \cup Listings[i][Following(i)] :
       Success(i, page, accts)
  /\ job' = [job EXCEPT ![w] = [At("read") EXCEPT !.item = i]]
  /\ UNCHANGED <<process, listed, streams, holder, todo>>

(* ItemsDueRecurringRefresh: never checked first, then the ones checked       *)
(* before the cutoff; how long ago that was is not kept.                      *)
ListDue ==
  /\ job[Sweep].pc = "list"
  /\ \/ \E old \in SUBSET Items :
          LET due == {i \in Items : item[i].cred /\ item[i].pages > 0
                                    /\ (item[i].checked => i \in old)}
          IN  \E order \in SetToSeqs(due) :
                /\ \A m, n \in DOMAIN order :
                     ~item[order[n]].checked /\ item[order[m]].checked => n < m
                /\ todo' = order /\ job' = [job EXCEPT ![Sweep] = At("next")]
     \/ todo' = todo /\ job' = [job EXCEPT ![Sweep] = At("done")]   \* the query fails
  /\ UNCHANGED <<process, listed, tables, holder>>

SweepNext ==
  /\ job[Sweep].pc = "next"
  /\ IF todo = <<>> \/ stopping
     THEN job' = [job EXCEPT ![Sweep] = At("done")] /\ todo' = <<>>
     ELSE /\ job' = [job EXCEPT ![Sweep] = [At("read") EXCEPT !.item = Head(todo)]]
          /\ todo' = Tail(todo)
  /\ UNCHANGED <<process, listed, tables, holder>>

-----------------------------------------------------------------------------
(* RefreshRecurring *)

Becomes(r, pc) == job' = [job EXCEPT ![r].pc = pc]
Return(r) == job' = [job EXCEPT ![r] = At(IF r = Sweep THEN "next" ELSE "idle")]
GivesUp(r) ==   \* mutant: the sweep ends at its first failure
  job' = [job EXCEPT ![r] = At(IF r = Sweep THEN "done" ELSE "idle")]
ReturnError(r) == Return(r)

ReadCredential(r) ==
  LET i == job[r].item
  IN  /\ job[r].pc = "read"
      /\ \/ item[i].cred /\ Becomes(r, "ask")
         \/ ~item[i].cred /\ ReturnError(r)   \* ErrNotFound
         \/ Becomes(r, "fail")                  \* the read, or the keyring
      /\ UNCHANGED <<process, listed, tables, holder, todo>>

AskPlaid(r) ==
  LET i == job[r].item
  IN  /\ job[r].pc = "ask"
      /\ \E decoded \in {NoStreams} \cup {Answers[i][listed[i]]} :
           \/ decoded = {} /\ Becomes(r, "fail")
           \/ \E rows \in decoded : job' = [job EXCEPT ![r].pc = "replace", ![r].rows = rows]
      /\ UNCHANGED <<process, listed, tables, holder, todo>>

AnyRow(i) == TRUE   \* mutant: the item's row is not locked
RowFree(i) == holder[i] = NULL

StaysRemoved(s) == IF s.row.stream_id \in DOMAIN streams   \* mutant: removed_at is kept
                   THEN streams[s.row.stream_id].live ELSE TRUE
Revived(s) == TRUE

(* ReplaceRecurringStreams up to its COMMIT: the item's row is locked, each   *)
(* stream upserted (nothing where its account is unknown), and the item's      *)
(* other live streams get removed_at.                                         *)
Replace(r) ==
  LET i == job[r].item
      Written(new) == [id \in DOMAIN new |->
                         [item |-> i, live |-> Revived(new[id]), content |-> new[id]]]
      Stale(ids) == {id \in DOMAIN streams : streams[id].item = i /\ streams[id].live} \ ids
  IN  /\ job[r].pc = "replace" /\ RowFree(i)
      /\ holder' = [holder EXCEPT ![i] = r]
      /\ \E new \in {KeyedOver(job[r].rows,
                               {n \in DOMAIN job[r].rows :
                                  job[r].rows[n].row.account_id \in DOMAIN accounts},
                               "stream_id")},
            stale \in {Stale({job[r].rows[n].row.stream_id : n \in DOMAIN job[r].rows})} :
           job' = [job EXCEPT ![r].pc = "commit",
                              ![r].tx = Upserted([id \in stale |-> [streams[id] EXCEPT !.live = FALSE]],
                                                 Written(new))]
      /\ UNCHANGED <<process, listed, tables, todo>>

Unlock(r) == holder' = [i \in Items |-> IF holder[i] = r THEN NULL ELSE holder[i]]

(* The transaction commits; the answer to COMMIT may be lost. *)
Commit(r) ==
  /\ job[r].pc = "commit"
  /\ streams' = Upserted(streams, job[r].tx)
  /\ item' = [item EXCEPT ![job[r].item].checked = TRUE, ![job[r].item].refreshed = TRUE]
  /\ Unlock(r)
  /\ Return(r) \/ Becomes(r, "fail")
  /\ UNCHANGED <<process, listed, accounts, ledger, todo>>

InTransaction(r) == job[r].pc \in {"replace", "commit"}

StoreFails(r) ==
  /\ InTransaction(r)
  /\ Unlock(r) /\ Becomes(r, "fail")
  /\ UNCHANGED <<process, listed, tables, todo>>

(* Every call that is waiting returns; a canceled context records nothing. *)
Interrupted(r) ==
  /\ stopping /\ (InTransaction(r) \/ job[r].pc \in {"read", "ask"})
  /\ Unlock(r) /\ ReturnError(r)
  /\ UNCHANGED <<process, listed, tables, todo>>

(* RecordRecurringFailure, on a context of its own that lasts 10 s.  The      *)
(* UPDATE waits for the row.                                                  *)
RecordFailure(r) ==
  LET i == job[r].item
  IN  /\ job[r].pc = "fail"
      /\ \/ RowFree(i) /\ item' = [item EXCEPT ![i].checked = TRUE]
         \/ item' = item
      /\ ReturnError(r)
      /\ UNCHANGED <<process, listed, accounts, ledger, streams, holder, todo>>

-----------------------------------------------------------------------------
(* Plaid's list changes (external); DELETE /v1/items/{id} purges the          *)
(* credential.                                                                *)
PlaidChanges(i) ==
  /\ listed[i] < Len(Lists[i])
  /\ listed' = [listed EXCEPT ![i] = @ + 1]
  /\ UNCHANGED <<process, tables, holder, job, todo>>

RemoveItem(i) ==
  /\ main = "serving" /\ item[i].cred /\ RowFree(i)
  /\ item' = [item EXCEPT ![i].cred = FALSE]
  /\ UNCHANGED <<process, listed, accounts, ledger, streams, holder, job, todo>>

-----------------------------------------------------------------------------
Process == StartupFails \/ RunnerStarts \/ Drain \/ Exit \/ Requeue \/ RunnerStops
Refresh(r) ==
  \/ ReadCredential(r) \/ AskPlaid(r) \/ Replace(r) \/ Commit(r)
  \/ StoreFails(r) \/ Interrupted(r) \/ RecordFailure(r)

Next ==
  \/ Start \/ Process \/ ServerFails \/ Signal \/ Kill
  \/ ListDue \/ SweepNext
  \/ \E r \in Refreshers : Refresh(r)
  \/ \E w \in Workers, i \in Triggered : Sync(w, i)
  \/ \E i \in Triggered : PlaidChanges(i) \/ RemoveItem(i)

Spec == Init /\ [][Next]_vars

(* A goroutine that can go on does; a timeout ends a call that does not       *)
(* answer.  Nothing makes jobs come, nor Plaid and the database answer.        *)
Fairness ==
  /\ WF_vars(Process) /\ WF_vars(ListDue \/ SweepNext \/ Refresh(Sweep))
  /\ \A w \in Workers : WF_vars(Refresh(w))

LiveSpec == Spec /\ Fairness

-----------------------------------------------------------------------------
(* Properties *)

(* The accounts an item has listed by its n-th page; none is ever deleted. *)
KnownAfter(i, n) ==
  {Field(o, "account_id") : o \in UNION {Range(Member(Feed[i][k].accounts, "accounts")) : k \in 1..n}}

(* The cent that is nearest, of two that are as near the one further from 0. *)
Abs(n) == IF n < 0 THEN -n ELSE n
IsCent(c, n) ==
  IF n = NULL THEN c = NULL
  ELSE /\ c % Cent = 0 /\ 2 * Abs(c - n) <= Cent
       /\ 2 * Abs(c - n) = Cent => Abs(c) > Abs(n)

Shows(s, o, direction) ==
  /\ s.raw = o /\ s.direction = direction
  /\ s.row.stream_id = o["stream_id"] /\ s.row.account_id = o["account_id"]
  /\ IsCent(s.row.average_amount, Field(o, "average_amount.amount"))
  /\ IsCent(s.row.last_amount, Field(o, "last_amount.amount"))

LiveIn(table, i) == {table[id] : id \in {x \in DOMAIN table : table[x].item = i /\ table[x].live}}
Live(i) == LiveIn(streams, i)

(* The live streams of an item are those of one list, but for the ones whose *)
(* account is not among those known.                                         *)
AreList(live, body, known) ==
  LET shown == {x \in Elements(body) : x[1]["account_id"] \in known}
  IN  /\ \A x \in shown : \E s \in live : Shows(s.content, x[1], x[2])
      /\ \A s \in live : \E x \in shown : Shows(s.content, x[1], x[2])

(* What ReplaceRecurringStreams promises (recurring.go:141, "makes streams    *)
(* the item's complete stream list in one transaction"), whatever the other   *)
(* refresher, a sync, a crash or a lost COMMIT does: the live rows are one    *)
(* answer Plaid gave, every amount its nearest cent, never a mix of two.      *)
StreamsAreOneAnswer ==
  \A i \in Items :
    IF item[i].refreshed
    THEN \E v \in 1..listed[i], n \in 1..item[i].pages :
           AreList(Live(i), Lists[i][v], KnownAfter(i, n))
    ELSE Live(i) = {}

(* The object is the last a page tells of its transaction. *)
Tells(i, n, id) == \E o \in Range(Told[i][n]) : o["transaction_id"] = id
Drops(i, n, id) == \E o \in Dropped[i][n] : o["transaction_id"] = id
LastOf(i, n, o) ==
  \E k \in DOMAIN Told[i][n] :
    /\ Told[i][n][k] = o
    /\ \A l \in DOMAIN Told[i][n] : Told[i][n][l]["transaction_id"] = o["transaction_id"] => l <= k

(* The row is what the first pages of the item tell of the transaction. *)
Serves(t, id, i, pages) ==
  /\ \E n \in 1..pages : LastOf(i, n, t.raw) /\ \A m \in (n + 1)..pages : ~Tells(i, m, id)
  /\ t.removed <=> \E n \in 1..pages : Drops(i, n, id) /\ \E m \in 1..n : Tells(i, m, id)
Fits(t, id) ==
  /\ t.raw["transaction_id"] = id /\ t.row.transaction_id = id
  /\ t.row.amount = t.raw["amount"] /\ t.row.date = t.raw["date"]
  /\ t.row.account_id = t.raw["account_id"]
  /\ t.row.pending = (Field(t.raw, "pending") = TRUE)

(* decode.go:21, "one element that cannot be decoded fails the whole         *)
(* response": whatever fails or comes garbled, the rows stored are those of   *)
(* the pages up to the cursor and of no other, each with the last that the    *)
(* pages tell of it, to the amount's last digit, and marked as removed when a *)
(* page said so after it had been told of ("Plaid does not resurrect a        *)
(* removed transaction", transactions.go:22).                                 *)
RowsAsServed ==
  /\ \A i \in Items : \A n \in 1..item[i].pages : \A o \in Range(Told[i][n]) :
       o["transaction_id"] \in DOMAIN ledger
  /\ \A id \in DOMAIN ledger :
       /\ Fits(ledger[id], id) /\ \E i \in Items : Serves(ledger[id], id, i, item[i].pages)
       /\ ledger[id].row.account_id \in DOMAIN accounts

(* main.go:135: run() closes the pool when it returns, so no refresher may   *)
(* be at work, hold a row or be able to claim a job by then.                 *)
PoolClosedLast ==
  main \in {"down", "starting"} =>
    /\ job = Resting /\ runner = "none"
    /\ \A i \in Items : holder[i] = NULL

(* The order of the commits is not that of the answers (recurring.go:175):    *)
(* the sweep may put an older list back.  The refreshes after later syncs     *)
(* mend it, and revive the streams that were marked as removed meanwhile.     *)
WorkerCommits(i) == \E w \in Workers : job[w].item = i /\ Commit(w)
Current(i) == AreList(Live(i), Lists[i][listed[i]], DOMAIN accounts)
StreamsCatchUp ==
  \A i \in Triggered : []<><<WorkerCommits(i)>>_vars => <>[]Current(i)

(* runner.go:262: the sweep refreshes "every syncable item never checked or   *)
(* last checked more than one scheduler interval ago": one that fails does    *)
(* not keep it from the next.                                                 *)
EveryDueItemTried ==
  \A i \in Items :
    (i \in Range(todo)) ~> (job[Sweep].item = i \/ stopping \/ main = "down")

(* main.go:8, the service "shuts down gracefully on SIGINT or SIGTERM": every *)
(* wait of run() ends once ctx is canceled, whatever is in flight.            *)
SignalEnds == stopping ~> main = "down"

(* What main.go:7 says: the process "exits non-zero with a message on stderr  *)
(* when any startup step fails".                                              *)
StartupFailureEnds == (runner = "failed" \/ main = "joining") ~> main = "down"
================================================================================
