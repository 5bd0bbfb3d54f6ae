------------------------------- MODULE ItemSync -------------------------------
(***************************************************************************)
(* One plaid_items row and everything that writes it concurrently: calls   *)
(* of Engine.SyncItem (internal/sync/engine.go) by the workers, the        *)
(* DELETE and Link handlers of the API, webhooks, and the process being    *)
(* stopped or killed at any point.                                         *)
(*                                                                         *)
(* A step is what happens between two points where another actor can see   *)
(* or change shared state: a committed statement, a call to Plaid, a       *)
(* commit.  WithItemLock holds the advisory lock and the row lock from the *)
(* moment they are granted to the end of its transaction, so one variable  *)
(* stands for both: a sync finds the advisory lock taken and gives up, and *)
(* an UPDATE of the row by anyone else waits (RowFree).                    *)
(*                                                                         *)
(* Plaid's history is a count of events; a sync accumulates the set of the *)
(* events it was given.  What an event does to the rows is in SyncBatch    *)
(* and Ledger.                                                             *)
(***************************************************************************)
EXTENDS Naturals, Sequences

CONSTANTS Syncers,         \* concurrent calls of SyncItem
          ReauthStatuses,  \* item statuses that wait for Link update mode
          MaxAttempts,     \* PLAIDSYNC_SYNC_MAX_ATTEMPTS
          MaxEvents,       \* bound on Plaid's history
          NULL

ASSUME ItemSyncAssumption ==
  /\ NULL \notin Nat /\ NULL \notin Syncers
  /\ MaxAttempts \in Nat \ {0}
  /\ MaxEvents \in Nat
  /\ ReauthStatuses \cap {"active", "error", "removed"} = {}

VARIABLES published,  \* Plaid: how many events the item's history has
          alive,      \* Plaid: the item exists (/item/remove has not been called)
          status, cursor, applied, cred,   \* the row; cred: encrypted_access_token IS NOT NULL
          runs,       \* sync_runs, those that moved the cursor: <<cursor_before, cursor_after>>
          lock,       \* the call of SyncItem whose transaction holds the item, or NULL
          run,        \* the local state of every call of SyncItem
          remover,    \* DELETE /v1/items/{id}: where it is
          linker,     \* linkItem and completeHosted: where it is
          stopping    \* the process has been told to stop: every context is canceled

row == <<status, cursor, applied, cred, runs>>
api == <<remover, linker>>
plaid == <<published, alive>>
vars == <<plaid, row, lock, run, api, stopping>>

Statuses == {"active", "error", "removed"} \cup ReauthStatuses
Failures == {"retryable_error", "needs_reauth", "fatal", "error"}
Outcomes == {"success", "locked", "canceled", "skipped", "none"} \cup Failures

(* runRecorded is staged \in {"rows", "run"}. *)
Run == [pc : {"idle", "locked", "paging", "accounts", "commit", "record", "set_status"},
        before : {"active", "error"},               \* statusBefore
        orig : Nat \cup {NULL},                     \* cursorBefore
        pos : Nat,                                  \* the cursor of the next page
        got : SUBSET Nat,                           \* the events accumulated
        attempt : Nat,
        outcome : Outcomes,
        staged : {"none", "rows", "run", "aborted"}]  \* what the open transaction holds

Idle(outcome) == [pc |-> "idle", before |-> "active", orig |-> NULL, pos |-> 0, got |-> {},
                  attempt |-> 0, outcome |-> outcome, staged |-> "none"]

Becomes(s, r) == run' = [run EXCEPT ![s] = r]

Position(c) == IF c = NULL THEN 0 ELSE c

AlwaysFree == TRUE   \* mutant: no row lock

(* An UPDATE of the item's row by a statement outside the sync's transaction *)
(* waits until that transaction ends (FOR NO KEY UPDATE).                    *)
RowFree == lock = NULL

(* UPDATE plaid_items ... WHERE status <> 'removed' *)
AnyStatus == TRUE    \* mutant: the WHERE is dropped
NotRemoved == status # "removed"

Init ==
  /\ published = 0 /\ alive = TRUE
  /\ status = "active" /\ cursor = NULL /\ applied = {} /\ cred = TRUE /\ runs = <<>>
  /\ lock = NULL
  /\ run = [s \in Syncers |-> Idle("none")]
  /\ remover = "idle" /\ linker = "idle" /\ stopping = FALSE

-----------------------------------------------------------------------------
(* Plaid: external.  The history of an item that exists grows. *)
PlaidPublishes ==
  /\ alive /\ published < MaxEvents
  /\ published' = published + 1
  /\ UNCHANGED <<alive, row, lock, run, api, stopping>>

-----------------------------------------------------------------------------
(* SyncItem: taking the item *)

(* pg_try_advisory_xact_lock and the SELECT ... FOR NO KEY UPDATE that loads *)
(* the item.                                                                 *)
WithoutTryLock(s) ==   \* mutant: the advisory lock is not tried
  run[s].pc = "idle" /\ ~stopping
Unlocked(s) ==
  run[s].pc = "idle" /\ ~stopping /\ lock = NULL

TakeItem(s) ==
  /\ Unlocked(s)
  /\ status \in {"active", "error"}
  /\ lock' = s
  /\ Becomes(s, [Idle("none") EXCEPT !.pc = "locked", !.before = status,
                                     !.orig = cursor, !.pos = Position(cursor)])
  /\ UNCHANGED <<plaid, row, api, stopping>>

(* A removed item, and one that waits for a human, is left alone. *)
SkipItem(s) ==
  /\ Unlocked(s)
  /\ status \notin {"active", "error"}
  /\ Becomes(s, Idle("skipped"))
  /\ UNCHANGED <<plaid, row, lock, api, stopping>>

FindItemLocked(s) ==
  /\ run[s].pc = "idle" /\ ~stopping /\ lock # NULL
  /\ Becomes(s, [Idle("locked") EXCEPT !.pc = "record"])
  /\ UNCHANGED <<plaid, row, lock, api, stopping>>

(* The transaction cannot be opened, or the lock not asked for. *)
TransactionFailsToOpen(s) ==
  /\ run[s].pc = "idle" /\ ~stopping
  /\ Becomes(s, [Idle("error") EXCEPT !.pc = "record"])
  /\ UNCHANGED <<plaid, row, lock, api, stopping>>

-----------------------------------------------------------------------------
(* SyncItem: inside the transaction *)

(* recordFailure and recordRun: the audit row goes into the transaction, or  *)
(* its insert fails and with it everything in the transaction.               *)
Stage(s, outcome, staged) ==
  Becomes(s, [run[s] EXCEPT !.pc = "commit", !.outcome = outcome, !.staged = staged])

StageRun(s, outcome) == \E staged \in {"run", "aborted"} : Stage(s, outcome, staged)

ReadCredential(s) ==
  /\ run[s].pc = "locked"
  /\ \/ /\ cred
        /\ Becomes(s, [run[s] EXCEPT !.pc = "paging", !.attempt = 1])
     \/ StageRun(s, "fatal")   \* the keyring cannot open it
  /\ UNCHANGED <<plaid, row, lock, api, stopping>>

(* /transactions/sync answers with the events up to some later point, and    *)
(* has_more unless that is all there is.                                     *)
FetchPage(s) ==
  /\ run[s].pc = "paging" /\ alive /\ published > 0
  /\ \E to \in run[s].pos..published :
       /\ to > run[s].pos \/ to = published
       /\ Becomes(s, [run[s] EXCEPT !.pc = IF to = published THEN "accounts" ELSE "paging",
                                    !.pos = to,
                                    !.got = @ \cup ((run[s].pos + 1)..to)])
  /\ UNCHANGED <<plaid, row, lock, api, stopping>>

(* Plaid has not finished the item's first pull: an empty cursor. *)
NotReady(s) ==
  /\ run[s].pc = "paging" /\ alive /\ published = 0
  /\ StageRun(s, "success")
  /\ UNCHANGED <<plaid, row, lock, api, stopping>>

RestartInPlace(r) == [r EXCEPT !.got = {}, !.attempt = @ + 1]   \* mutant: no rewind
RestartForever(r) == [r EXCEPT !.pos = Position(r.orig), !.got = {}]   \* mutant: not counted

(* Everything accumulated is discarded and the pagination starts over. *)
Restart(r) == [r EXCEPT !.pos = Position(r.orig), !.got = {}, !.attempt = @ + 1]

OneAttemptMore(r) == r.attempt <= MaxAttempts   \* mutant: off by one
AttemptsLeft(r) == r.attempt < MaxAttempts

PageFails(s) ==
  /\ run[s].pc = "paging"
  /\ \E class \in Failures :
       IF class = "retryable_error" /\ AttemptsLeft(run[s])
       THEN Becomes(s, Restart(run[s]))
       ELSE StageRun(s, class)
  /\ UNCHANGED <<plaid, row, lock, api, stopping>>

AccountsFail(s) ==
  /\ run[s].pc = "accounts"
  /\ \E class \in Failures : StageRun(s, class)
  /\ UNCHANGED <<plaid, row, lock, api, stopping>>

(* /accounts/get, ApplySyncBatch and RecordSyncRun, of which nothing shows  *)
(* before the commit.                                                       *)
ApplyBatch(s) ==
  /\ run[s].pc = "accounts" /\ alive
  /\ Stage(s, "success", "rows")
  /\ UNCHANGED <<plaid, row, lock, api, stopping>>

TransactionLeftOpen(s) ==   \* mutant: no rollback
  /\ run[s].pc \in {"locked", "accounts"}
  /\ Becomes(s, [Idle("error") EXCEPT !.pc = "record"])
  /\ UNCHANGED <<plaid, row, lock, api, stopping>>

(* The callback returns an error (the credential cannot be read, the batch  *)
(* is not applied, its run row is not stored): the transaction rolls back.  *)
TransactionFails(s) ==
  /\ run[s].pc \in {"locked", "accounts"}
  /\ Becomes(s, [Idle("error") EXCEPT !.pc = "record"])
  /\ lock' = NULL
  /\ UNCHANGED <<plaid, row, api, stopping>>

CommitStaged(s) ==
  IF run[s].staged = "rows"
  THEN /\ cursor' = run[s].pos
       /\ applied' = applied \cup run[s].got
       /\ status' = "active"
       /\ runs' = IF run[s].pos = Position(run[s].orig) THEN runs
                  ELSE Append(runs, <<Position(run[s].orig), run[s].pos>>)
       /\ UNCHANGED cred
  ELSE UNCHANGED row

Commit(s) ==
  /\ run[s].pc = "commit" /\ run[s].staged \in {"rows", "run"}
  /\ CommitStaged(s)
  /\ lock' = NULL
  /\ Becomes(s, IF run[s].outcome = "success" THEN Idle("success")
                ELSE [Idle(run[s].outcome) EXCEPT !.pc = "set_status", !.before = run[s].before])
  /\ UNCHANGED <<plaid, api, stopping>>

(* After a failed commit the engine writes the audit row again only if the   *)
(* transaction did not hold one.                                             *)
AfterFailedCommit(r) ==
  [Idle("error") EXCEPT !.pc = IF r.staged = "aborted" THEN "record" ELSE "set_status"]

CommitFails(s) ==
  /\ run[s].pc = "commit"
  /\ lock' = NULL
  /\ Becomes(s, AfterFailedCommit(run[s]))
  /\ UNCHANGED <<plaid, row, api, stopping>>

(* The commit happens and its acknowledgement is lost. *)
CommitUnacknowledged(s) ==
  /\ run[s].pc = "commit" /\ run[s].staged \in {"rows", "run"}
  /\ CommitStaged(s)
  /\ lock' = NULL
  /\ Becomes(s, AfterFailedCommit(run[s]))
  /\ UNCHANGED <<plaid, api, stopping>>

(* The context is canceled: rollback, unless the commit was already on its *)
(* way, and nothing else is written.                                       *)
Cancel(s) ==
  /\ stopping /\ run[s].pc \in {"locked", "paging", "accounts", "commit"}
  /\ \/ UNCHANGED row
     \/ run[s].pc = "commit" /\ run[s].staged # "aborted" /\ CommitStaged(s)
  /\ lock' = NULL
  /\ Becomes(s, Idle("canceled"))
  /\ UNCHANGED <<plaid, api, stopping>>

-----------------------------------------------------------------------------
(* SyncItem: after the transaction *)

(* RecordSyncRun outside the transaction, whose own failure is only logged. *)
RecordRun(s) ==
  /\ run[s].pc = "record"
  /\ Becomes(s, IF run[s].outcome = "error" THEN [run[s] EXCEPT !.pc = "set_status"]
                ELSE Idle(run[s].outcome))
  /\ UNCHANGED <<plaid, row, lock, api, stopping>>

(* setItemStatusAfterFailure; the write outlives a canceled context. *)
FailureStatuses(r) ==
  CASE r.outcome = "retryable_error" -> {r.before}
    [] r.outcome = "needs_reauth" -> ReauthStatuses
    [] OTHER -> {"error"}

SetItemStatus(new) == status' = IF NotRemoved THEN new ELSE status

SetStatusAfterFailure(s) ==
  /\ run[s].pc = "set_status"
  /\ RowFree
  /\ \E new \in FailureStatuses(run[s]) : SetItemStatus(new)
  /\ Becomes(s, Idle(run[s].outcome))
  /\ UNCHANGED <<plaid, cursor, applied, cred, runs, lock, api, stopping>>

(* It has ten seconds, which another sync may hold the row for. *)
StatusWriteTimesOut(s) ==
  /\ run[s].pc = "set_status"
  /\ Becomes(s, Idle(run[s].outcome))
  /\ UNCHANGED <<plaid, row, lock, api, stopping>>

-----------------------------------------------------------------------------
(* The API *)

(* DELETE /v1/items/{id}: the item is not removed and its token is read; *)
RemoveItem ==
  /\ remover = "idle" /\ ~stopping
  /\ status # "removed" /\ cred
  /\ remover' = "revoking"
  /\ UNCHANGED <<plaid, row, lock, run, linker, stopping>>

(* Plaid removes it, or no longer knows it; *)
RevokeAtPlaid ==
  /\ remover = "revoking"
  /\ alive' = FALSE
  /\ remover' = "marking"
  /\ UNCHANGED <<published, row, lock, run, linker, stopping>>

(* the row is marked, and its credential purged. *)
MarkItemRemoved ==
  /\ remover = "marking"
  /\ RowFree
  /\ status' = "removed" /\ cred' = FALSE
  /\ remover' = "idle"
  /\ UNCHANGED <<plaid, cursor, applied, runs, lock, run, linker, stopping>>

(* linkItem exchanges a public token, or completeHosted reads the stored    *)
(* credential of an update-mode session, *)
ExchangePublicToken ==
  /\ linker = "idle" /\ ~stopping /\ alive
  /\ linker' = "exchanged"
  /\ UNCHANGED <<plaid, row, lock, run, remover, stopping>>

FinishUpdateMode ==
  /\ linker = "idle" /\ ~stopping /\ cred
  /\ linker' = "enriched"
  /\ UNCHANGED <<plaid, row, lock, run, remover, stopping>>

(* and stores it (UpsertItem), linkItem once more after /item/get. *)
UpsertItem ==
  /\ linker \in {"exchanged", "enriched"}
  /\ RowFree
  /\ status' = "active" /\ cred' = TRUE
  /\ linker' = IF linker = "exchanged" THEN "enriching" ELSE "idle"
  /\ UNCHANGED <<plaid, cursor, applied, runs, lock, run, remover, stopping>>

EnrichItem ==
  /\ linker = "enriching" /\ alive
  /\ linker' = "enriched"
  /\ UNCHANGED <<plaid, row, lock, run, remover, stopping>>

(* A handler ends wherever Plaid, the database or its client fails it. *)
HandlerFails ==
  /\ \/ remover # "idle" /\ remover' = "idle" /\ UNCHANGED linker
     \/ linker # "idle" /\ linker' = "idle" /\ UNCHANGED remover
  /\ UNCHANGED <<plaid, row, lock, run, stopping>>

(* An ITEM webhook: ERROR, PENDING_DISCONNECT, PENDING_EXPIRATION,           *)
(* USER_PERMISSION_REVOKED or LOGIN_REPAIRED.                                *)
Webhook ==
  /\ ~stopping /\ RowFree
  /\ \E new \in {"active", "error"} \cup ReauthStatuses : SetItemStatus(new)
  /\ UNCHANGED <<plaid, cursor, applied, cred, runs, lock, run, api, stopping>>

-----------------------------------------------------------------------------
(* The process *)

Shutdown ==
  /\ ~stopping /\ stopping' = TRUE
  /\ UNCHANGED <<plaid, row, lock, run, api>>

(* The process ends, whatever it was doing, and a new one starts: Postgres   *)
(* rolls back what was open.                                                 *)
Crash ==
  /\ lock' = NULL
  /\ run' = [s \in Syncers |-> Idle("none")]
  /\ remover' = "idle" /\ linker' = "idle"
  /\ stopping' = FALSE
  /\ UNCHANGED <<plaid, row>>

SyncStep(s) ==
  \/ ReadCredential(s) \/ FetchPage(s) \/ NotReady(s) \/ PageFails(s)
  \/ AccountsFail(s) \/ ApplyBatch(s) \/ TransactionFails(s)
  \/ Commit(s) \/ CommitFails(s) \/ CommitUnacknowledged(s) \/ Cancel(s)
  \/ RecordRun(s) \/ SetStatusAfterFailure(s) \/ StatusWriteTimesOut(s)

Next ==
  \/ PlaidPublishes
  \/ \E s \in Syncers : \/ TakeItem(s) \/ SkipItem(s) \/ FindItemLocked(s)
                        \/ TransactionFailsToOpen(s) \/ SyncStep(s)
  \/ RemoveItem \/ RevokeAtPlaid \/ MarkItemRemoved
  \/ ExchangePublicToken \/ FinishUpdateMode \/ UpsertItem \/ EnrichItem \/ Webhook
  \/ HandlerFails
  \/ Shutdown \/ Crash

Spec == Init /\ [][Next]_vars

-----------------------------------------------------------------------------
(* Fairness.  Every step of a sync ends: the Plaid client's HTTP timeout and *)
(* the context end a call, the backoff is a timer, and a statement that      *)
(* waits for the row gives up.  The UPDATE of a removal has no timeout; the  *)
(* queue Postgres keeps for a row lock lets it in before syncs that came     *)
(* later, hence strong fairness.                                             *)
Fairness ==
  /\ \A s \in Syncers : WF_vars(SyncStep(s))
  /\ SF_vars(MarkItemRemoved)

FairSpec == Spec /\ Fairness

-----------------------------------------------------------------------------
(* Properties *)

Holds(s) == run[s].pc \in {"locked", "paging", "accounts", "commit"}

(* Every variable has its type, and no sync makes more attempts than        *)
(* PLAIDSYNC_SYNC_MAX_ATTEMPTS (paginate).                                   *)
TypeOK ==
  /\ published \in Nat /\ alive \in BOOLEAN
  /\ status \in Statuses /\ cursor \in Nat \cup {NULL} /\ applied \subseteq Nat
  /\ cred \in BOOLEAN /\ runs \in Seq(Nat \X Nat)
  /\ lock \in Syncers \cup {NULL}
  /\ run \in [Syncers -> Run] /\ \A s \in Syncers : run[s].attempt \in 0..MaxAttempts
  /\ remover \in {"idle", "revoking", "marking"}
  /\ linker \in {"idle", "exchanged", "enriching", "enriched"}
  /\ stopping \in BOOLEAN

(* A sync that is under way holds the item, alone; the row is what it loaded *)
(* when it took it (statusBefore, cursorBefore and the credential stay true  *)
(* across every call to Plaid), and what it has accumulated is the history   *)
(* from that cursor, without a gap, whatever was retried (WithItemLock,      *)
(* paginate).                                                                *)
SyncOwnsItem ==
  \A s \in Syncers :
    /\ Holds(s) <=> lock = s
    /\ Holds(s) => /\ cursor = run[s].orig /\ status = run[s].before /\ cred
                   /\ run[s].pos \in Position(cursor)..published
                   /\ run[s].got = (Position(cursor) + 1)..run[s].pos

(* The successful audit rows, in the order they were committed, cut the      *)
(* history up to the saved cursor into consecutive intervals: no event is    *)
(* counted by two runs or by none, even when a commit's acknowledgement was  *)
(* lost (RecordSyncRun in the transaction of ApplySyncBatch).                *)
RunsTileHistory ==
  /\ \A i \in DOMAIN runs : runs[i][1] < runs[i][2]
  /\ \A i \in DOMAIN runs : runs[i][1] = IF i = 1 THEN 0 ELSE runs[i - 1][2]
  /\ Position(cursor) = IF runs = <<>> THEN 0 ELSE runs[Len(runs)][2]

(* status = 'removed' exactly when the credential is NULL: no interleaving   *)
(* of syncs, removals, links and webhooks produces a row that the CHECK      *)
(* constraints of migrations/00001 would refuse.                             *)
CredentialCheck == status = "removed" <=> ~cred

(* What the rows and the cursor go through is AtomicFeed.                    *)
AF == INSTANCE AtomicFeed WITH NULL <- NULL, published <- published,
                               cursor <- cursor, applied <- applied
ImplementsAtomicFeed == AF!FeedSpec

(* Every call of SyncItem returns: retries are bounded, and no step waits    *)
(* for a lock for ever.                                                      *)
EverySyncEnds == \A s \in Syncers : run[s].pc # "idle" ~> run[s].pc = "idle"

(* A removal that has revoked the item at Plaid is not held up for ever by   *)
(* the syncs that keep taking the row (MarkItemRemoved waits for the lock).  *)
RemovalCompletes == remover = "marking" ~> remover = "idle"
=============================================================================
