------------------------------ MODULE SyncBatch ------------------------------
(***************************************************************************)
(* What one complete pagination of Plaid's /transactions/sync does to the  *)
(* three tables it touches: plaid_items, plaid_accounts and transactions   *)
(* (plaid-backend-golang/internal/store: sync_batch.go, accounts.go,       *)
(* transactions.go).  Everything here is a pure operator from the tables   *)
(* before the transaction to the tables it would commit; Ledger runs them  *)
(* against a growing feed.                                                 *)
(*                                                                         *)
(* A row keeps the columns the invariants of the store are about.  raw is  *)
(* Plaid's whole object, of which only the account, the                    *)
(* pending_transaction_id and a version are told apart.  A timestamp is    *)
(* the number of the batch that stamped it, and 0 is SQL NULL.             *)
(***************************************************************************)
EXTENDS Naturals, Sequences

CONSTANTS AccountIds,   \* account_id values
          TxnIds,       \* transaction_id values
          Versions,     \* distinguishes successive raw payloads of a transaction
          NULL          \* SQL NULL, and Plaid's empty cursor

ASSUME NullAssumption == NULL \notin TxnIds

Payload == [acct : AccountIds, pend : TxnIds \cup {NULL}, ver : Versions]
Transaction == [id : TxnIds, raw : Payload]

(* A table is a function from the primary keys it holds to their rows: a     *)
(* transaction's is [raw, first_seen_at, removed_at, superseded_by,          *)
(* superseded_at], an account's [first_seen_at, missing_since].  A stamp is  *)
(* 0 when it is NULL.                                                        *)

LatestStamp(old, now) == now   \* mutant: the stamp is taken anew each time

(* COALESCE(old, clock_timestamp()) *)
FirstStamp(old, now) == IF old = 0 THEN now ELSE old

-----------------------------------------------------------------------------
(* Accounts *)

UpsertAccountsStayMissing(accounts, listed, now) ==   \* mutant: missing_since is kept
  [a \in DOMAIN accounts \cup listed |->
     IF a \in DOMAIN accounts THEN accounts[a] ELSE [first_seen_at |-> now, missing_since |-> 0]]

(* An account Plaid lists is inserted, or un-flagged when it had gone missing. *)
UpsertAccounts(accounts, listed, now) ==
  [a \in DOMAIN accounts \cup listed |->
     CASE a \notin DOMAIN accounts -> [first_seen_at |-> now, missing_since |-> 0]
       [] a \in DOMAIN accounts \cap listed -> [accounts[a] EXCEPT !.missing_since = 0]
       [] OTHER -> accounts[a]]

MarkMissingAccounts(accounts, seen, now) ==
  [a \in DOMAIN accounts |->
     IF a \in seen THEN accounts[a]
     ELSE [accounts[a] EXCEPT !.missing_since = FirstStamp(@, now)]]

(* Steps 1 and 2: an empty listing flags nothing. *)
ApplyAccounts(accounts, listed, now) ==
  LET upserted == UpsertAccounts(accounts, listed, now)
  IN  IF listed = {} THEN upserted ELSE MarkMissingAccounts(upserted, listed, now)

-----------------------------------------------------------------------------
(* Transactions *)

DedupeFirstWins(upserts) ==   \* mutant: the first occurrence wins
  [t \in {upserts[i].id : i \in DOMAIN upserts} |->
     LET at == {i \in DOMAIN upserts : upserts[i].id = t}
     IN  upserts[CHOOSE i \in at : \A j \in at : i <= j].raw]

(* Each id once, its last occurrence winning. *)
DedupeTransactions(upserts) ==
  [t \in {upserts[i].id : i \in DOMAIN upserts} |->
     LET at == {i \in DOMAIN upserts : upserts[i].id = t}
     IN  upserts[CHOOSE i \in at : \A j \in at : j <= i].raw]

UpsertReplacingRows(txns, new, now) ==   \* mutant: a conflict writes a fresh row
  [t \in DOMAIN txns \cup DOMAIN new |->
     IF t \notin DOMAIN new THEN txns[t]
     ELSE [raw |-> new[t], first_seen_at |-> now, removed_at |-> 0,
           superseded_by |-> NULL, superseded_at |-> 0]]

(* INSERT ... ON CONFLICT DO UPDATE of raw and the columns derived from it. *)
(* An identical raw writes nothing; no conflict touches the stamps.         *)
UpsertTransactions(txns, new, now) ==
  [t \in DOMAIN txns \cup DOMAIN new |->
     CASE t \notin DOMAIN new -> txns[t]
       [] t \in DOMAIN new \cap DOMAIN txns -> [txns[t] EXCEPT !.raw = new[t]]
       [] OTHER -> [raw |-> new[t], first_seen_at |-> now, removed_at |-> 0,
                    superseded_by |-> NULL, superseded_at |-> 0]]

(* Unknown ids are ignored and a second removal keeps the first stamp. *)
SoftDeleteTransactions(txns, ids, now) ==
  [t \in DOMAIN txns |->
     IF t \in ids THEN [txns[t] EXCEPT !.removed_at = FirstStamp(@, now)] ELSE txns[t]]

(* UPDATE transactions p SET superseded_by = l.posted FROM l: every pair of *)
(* links whose pending row exists and is not already linked to that posted  *)
(* row re-points it; with several pairs for one row, any one of them wins.  *)
Superseded(txns, links, now) ==
  LET posted(p) == {q \in TxnIds : <<p, q>> \in links /\ q # txns[p].superseded_by}
      hit == {p \in DOMAIN txns : posted(p) # {}}
  IN  {[p \in DOMAIN txns |->
          IF p \in hit
          THEN [txns[p] EXCEPT !.superseded_by = pick[p], !.superseded_at = FirstStamp(@, now)]
          ELSE txns[p]] : pick \in {f \in [hit -> TxnIds] : \A p \in hit : f[p] \in posted(p)}}

(* The posted rows of this batch name their pending rows (forward), and any *)
(* stored row may name a row of this batch (reverse), in that order.        *)
ForwardLinks(new) == {<<new[t].pend, t>> : t \in {u \in DOMAIN new : new[u].pend # NULL}}

NoReverseLinks(txns, new) == {}   \* mutant: only posted rows look for their pending row

ReverseLinks(txns, new) ==
  {link \in (DOMAIN new) \X (DOMAIN txns) : txns[link[2]].raw.pend = link[1]}

LinkPendingTransactions(txns, new, now) ==
  UNION {Superseded(linked, ReverseLinks(linked, new), now) :
           linked \in Superseded(txns, ForwardLinks(new), now)}

(* The rows steps 3 to 5 may leave. *)
ApplyTransactions(txns, new, removed, now) ==
  LinkPendingTransactions(
    SoftDeleteTransactions(UpsertTransactions(txns, new, now), removed, now), new, now)

-----------------------------------------------------------------------------
(* Whether ApplySyncBatch goes through: it returns an error when the item is *)
(* removed, the cursor is empty, or a transaction names an account that is   *)
(* neither listed nor stored (foreign key).                                  *)

Accepted(db, batch) ==
  LET new == DedupeTransactions(batch.upserts)
  IN  /\ db.item.status # "removed"
      /\ batch.next_cursor # NULL
      /\ \A t \in DOMAIN new : new[t].acct \in batch.accounts \cup DOMAIN db.accounts

(* The tables the transaction may commit; none when it returns an error. *)
ApplySyncBatch(db, batch, now) ==
  LET new == DedupeTransactions(batch.upserts)
  IN  IF ~Accepted(db, batch) THEN {}
      ELSE {[item |-> [status |-> "active", cursor |-> batch.next_cursor, error |-> FALSE],
             accounts |-> ApplyAccounts(db.accounts, batch.accounts, now),
             txns |-> txns] : txns \in ApplyTransactions(db.txns, new, batch.removed, now)}
=============================================================================
