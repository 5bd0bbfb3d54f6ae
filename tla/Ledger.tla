-------------------------------- MODULE Ledger --------------------------------
(***************************************************************************)
(* One item's stored ledger following Plaid's feed.  Plaid publishes a     *)
(* history of added, modified and removed transactions; each successful    *)
(* sync drains the history from the saved cursor, in pages cut anywhere,   *)
(* and commits it with SyncBatch!ApplySyncBatch.  The steps of the engine  *)
(* that lead to a commit, its lock, retries and crashes are in ItemSync;   *)
(* here a sync is its commit, since a transaction that does not commit     *)
(* leaves nothing.                                                         *)
(*                                                                         *)
(* A cursor is the number of events it has consumed.                       *)
(***************************************************************************)
EXTENDS SyncBatch, FiniteSets, SequencesExt

CONSTANTS Predecessor,  \* the pending transaction a posted one replaces, or NULL
          MaxEvents,    \* bound on Plaid's history
          MaxBatches    \* bound on committed batches

ASSUME LedgerAssumption ==
  /\ Predecessor \in [TxnIds -> TxnIds \cup {NULL}]
  /\ NULL \notin Nat
  /\ Versions \subseteq Nat
  /\ MaxEvents \in Nat /\ MaxBatches \in Nat

VARIABLES feed,     \* Plaid's history of the item, oldest first
          db,       \* the item row, its accounts and its transactions
          now,      \* the number of batches committed: the clock of the stamps
          listing   \* the last non-empty account list a batch committed (history variable)

vars == <<feed, db, now, listing>>

(* An event of the feed is [kind, id], with the raw payload if it is added   *)
(* or modified and not removed.  The item row is [status, cursor, error]:    *)
(* its cursor is how far in the feed it is, or NULL.                         *)

Position(cursor) == IF cursor = NULL THEN 0 ELSE cursor

UpsertsOf(t, n) == {i \in 1..n : feed[i].id = t /\ feed[i].kind # "removed"}
RemovedIn(t, n) == \E i \in 1..n : feed[i].id = t /\ feed[i].kind = "removed"
LatestRaw(t, n) == feed[CHOOSE i \in UpsertsOf(t, n) : \A j \in UpsertsOf(t, n) : j <= i].raw

-----------------------------------------------------------------------------
(* Plaid: external. *)

(* A transaction appears, possibly as modified (its first state predates the *)
(* item), or changes, even after its removal.  It keeps its account and      *)
(* never retracts the pending transaction it names.                          *)
PublishUpsert(t) ==
  \E kind \in {"added", "modified"}, raw \in Payload :
    LET before == UpsertsOf(t, Len(feed)) IN
      /\ Len(feed) < MaxEvents
      /\ raw.pend \in {NULL, Predecessor[t]}
      /\ raw.ver = Cardinality(before) + 1
      /\ before # {} => LET old == LatestRaw(t, Len(feed)) IN
                          /\ kind = "modified" /\ raw.acct = old.acct
                          /\ old.pend # NULL => raw.pend = old.pend
      /\ feed' = Append(feed, [kind |-> kind, id |-> t, raw |-> raw])
      /\ UNCHANGED <<db, now, listing>>

(* Any transaction it has published may be reported removed, repeatedly. *)
PublishRemoval(t) ==
  /\ Len(feed) < MaxEvents
  /\ UpsertsOf(t, Len(feed)) # {}
  /\ feed' = Append(feed, [kind |-> "removed", id |-> t])
  /\ UNCHANGED <<db, now, listing>>

-----------------------------------------------------------------------------
(* The batch paginate accumulates from the events from+1..to when the pages *)
(* end after the events in cuts: of every page its added rows, then its     *)
(* modified rows.                                                           *)
PageOf(i, cuts) == Cardinality({c \in cuts : c < i})

Accumulates(i, j, cuts) ==
  \/ PageOf(i, cuts) < PageOf(j, cuts)
  \/ /\ PageOf(i, cuts) = PageOf(j, cuts)
     /\ \/ feed[i].kind = "added" /\ feed[j].kind = "modified"
        \/ feed[i].kind = feed[j].kind /\ i < j

InPageOrder(S, cuts) ==
  CHOOSE order \in SetToSeqs(S) :
    \A k, l \in DOMAIN order : k < l => Accumulates(order[k], order[l], cuts)

Batch(from, to, cuts, listed) ==
  LET events == (from + 1)..to
      order == InPageOrder({i \in events : feed[i].kind # "removed"}, cuts)
  IN  [accounts |-> listed,
       upserts |-> [k \in DOMAIN order |-> [id |-> feed[order[k]].id, raw |-> feed[order[k]].raw]],
       removed |-> {feed[i].id : i \in {j \in events : feed[j].kind = "removed"}},
       next_cursor |-> to]

(* The events from+1..to, cut into any pages. *)
Drained(from, to) == {Batch(from, to, cuts, {}) : cuts \in SUBSET ((from + 1)..(to - 1))}

(* What a sync may drain: everything published up to some point at or after *)
(* the cursor, with whatever account list Plaid gives.                      *)
Batches ==
  LET from == Position(db.item.cursor)
      drained == UNION {Drained(from, to) : to \in from..Len(feed)}
  IN  {[batch EXCEPT !.accounts = listed] : batch \in drained, listed \in SUBSET AccountIds}

CommitBatch ==
  /\ now < MaxBatches
  /\ \E batch \in Batches :
       /\ db' \in ApplySyncBatch(db, batch, now + 1)
       /\ listing' = IF batch.accounts = {} THEN listing ELSE batch.accounts
  /\ now' = now + 1
  /\ UNCHANGED feed

(* The batch is refused: the transaction rolls back and the engine sets the *)
(* status error, which finds no row when the item is removed.               *)
RefuseBatch ==
  /\ db.item.status # "removed"
  /\ \E batch \in Batches : ~Accepted(db, batch)
  /\ db' = [db EXCEPT !.item.status = "error", !.item.error = TRUE]
  /\ UNCHANGED <<feed, now, listing>>

(* UpsertItem of the existing item: a re-link keeps the cursor. *)
Relink ==
  /\ db' = [db EXCEPT !.item.status = "active", !.item.error = FALSE]
  /\ UNCHANGED <<feed, now, listing>>

MarkItemRemoved ==
  /\ db' = [db EXCEPT !.item.status = "removed"]
  /\ UNCHANGED <<feed, now, listing>>

Init ==
  /\ feed = <<>>
  /\ db = [item |-> [status |-> "active", cursor |-> NULL, error |-> FALSE],
           accounts |-> <<>>, txns |-> <<>>]
  /\ now = 0
  /\ listing = {}

Next ==
  \/ \E t \in TxnIds : PublishUpsert(t) \/ PublishRemoval(t)
  \/ CommitBatch \/ RefuseBatch
  \/ Relink \/ MarkItemRemoved

Spec == Init /\ [][Next]_vars

-----------------------------------------------------------------------------
(* Properties *)

(* However the history was cut into batches and pages, and whichever batches *)
(* were refused on the way, the stored rows are those of the events up to    *)
(* the saved cursor: each transaction Plaid upserted, with its latest raw,   *)
(* marked removed exactly when Plaid removed it (ApplySyncBatch steps 3, 4   *)
(* and 6 commit together).                                                   *)
LedgerFollowsFeed ==
  LET n == Position(db.item.cursor) IN
    /\ DOMAIN db.txns = {t \in TxnIds : UpsertsOf(t, n) # {}}
    /\ \A t \in DOMAIN db.txns :
         /\ db.txns[t].raw = LatestRaw(t, n)
         /\ db.txns[t].removed_at # 0 <=> RemovedIn(t, n)

(* A pending row is linked exactly when a stored row names it, and to one    *)
(* that does, in whichever order the two arrived: a consumer that filters    *)
(* on superseded_by never counts both (linkPendingTransactions).             *)
PendingLinksExact ==
  \A p \in DOMAIN db.txns :
    LET posted == {q \in DOMAIN db.txns : db.txns[q].raw.pend = p}
    IN  IF posted = {} THEN db.txns[p].superseded_by = NULL
        ELSE db.txns[p].superseded_by \in posted /\ db.txns[p].superseded_at # 0

(* An account is flagged missing exactly when the last listing that named    *)
(* any account left it out, and an account the listing names is stored       *)
(* (upsertAccounts, markMissingAccounts and their order).                    *)
MissingMatchesListing ==
  /\ listing \subseteq DOMAIN db.accounts
  /\ \A a \in DOMAIN db.accounts : db.accounts[a].missing_since # 0 <=> a \notin listing

(* The stored rows that name a row as the pending one they replace. *)
PostedOf(p) == {q \in DOMAIN db.txns : db.txns[q].raw.pend = p}

(* The rows that fetching again what is already committed may leave: the     *)
(* history up to the saved cursor, from any point on, in any pages.          *)
Replays ==
  LET n == Position(db.item.cursor)
      drained == UNION {Drained(from, n) : from \in {m \in 0..n : n > 0}}
  IN  UNION {{after.txns : after \in ApplySyncBatch(db, batch, now + 1)} : batch \in drained}

(* A replay changes no row, but that of a pending row which several stored   *)
(* rows name it may choose another of these, keeping the time of the link    *)
(* (upsertTransactionSQL compares raw; the links take any row that names a   *)
(* pending one and is not yet its superseded_by).                            *)
ReplayOnlyRelinks ==
  \A txns \in Replays :
    /\ DOMAIN txns = DOMAIN db.txns
    /\ \A t \in DOMAIN txns :
         \/ txns[t] = db.txns[t]
         \/ /\ db.txns[t].superseded_by \in PostedOf(t)
            /\ \E q \in PostedOf(t) : txns[t] = [db.txns[t] EXCEPT !.superseded_by = q]

(* "Replays are no-ops ... an identical row is left untouched" (README.md of *)
(* the backend).                                                             *)
ReplaysAreNoOps == \A txns \in Replays : txns = db.txns

KeepsStamps ==
  /\ \A t \in DOMAIN db.txns :
       /\ t \in DOMAIN db'.txns
       /\ LET old == db.txns[t]
              new == db'.txns[t]
          IN  /\ new.first_seen_at = old.first_seen_at
              /\ old.removed_at # 0 => new.removed_at = old.removed_at
              /\ old.superseded_at # 0 =>
                   new.superseded_at = old.superseded_at /\ new.superseded_by # NULL
  /\ \A a \in DOMAIN db.accounts :
       /\ a \in DOMAIN db'.accounts
       /\ LET old == db.accounts[a].missing_since
              new == db'.accounts[a].missing_since
          IN  old # 0 /\ new # 0 => new = old

(* No step deletes a row or rewrites a stamp: first_seen_at, removed_at and  *)
(* superseded_at keep the time of the first occasion, a link is never        *)
(* undone, and an account that stays missing keeps missing_since.            *)
StampsWrittenOnce == [][KeepsStamps]_vars
=============================================================================
