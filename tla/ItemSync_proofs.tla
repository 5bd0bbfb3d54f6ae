---------------------------- MODULE ItemSync_proofs ----------------------------
(***************************************************************************)
(* Proofs about ItemSync, for any number of concurrent syncs, of attempts  *)
(* and of events: its type invariant, the safety invariants the runs       *)
(* check, and that what happens to the row implements AtomicFeed.          *)
(*                                                                         *)
(* SyncOwnsItem carries the argument: a sync that is under way has the     *)
(* lock, so the row is still what it loaded and its commit extends exactly *)
(* the history that is applied.  RowStep says what one step can do to the  *)
(* row, and the invariants about the row and the refinement follow from it.*)
(***************************************************************************)
EXTENDS ItemSync, TLAPS

USE DEF row, api, plaid

(* The rows stored are those of the events up to the cursor. *)
HistoryApplied == Position(cursor) <= published /\ applied = 1..Position(cursor)

IInv == TypeOK /\ SyncOwnsItem /\ CredentialCheck /\ HistoryApplied /\ RunsTileHistory

(* The steps of one call of SyncItem. *)
SyncAction(s) ==
  TakeItem(s) \/ SkipItem(s) \/ FindItemLocked(s) \/ TransactionFailsToOpen(s) \/ SyncStep(s)

-----------------------------------------------------------------------------
(* Types *)

(* The values the steps assign. *)
LEMMA Values ==
  /\ {"success", "locked", "canceled", "skipped", "none", "error", "fatal"} \subseteq Outcomes
  /\ Failures \subseteq Outcomes
  /\ {"active", "error", "removed"} \subseteq Statuses /\ ReauthStatuses \subseteq Statuses
BY DEF Outcomes, Failures, Statuses

(* The local states TypeOK allows, *)
BoundedRun == {r \in Run : r.attempt \in 0..MaxAttempts}

LEMMA RunTyped == TypeOK => run \in [Syncers -> BoundedRun]
BY DEF TypeOK, BoundedRun

LEMMA IdleTyped == \A outcome \in Outcomes : Idle(outcome) \in BoundedRun
BY ItemSyncAssumption DEF Idle, BoundedRun, Run

(* and everything but that. *)
RestTyped ==
  /\ published \in Nat /\ alive \in BOOLEAN
  /\ status \in Statuses /\ cursor \in Nat \cup {NULL} /\ applied \subseteq Nat
  /\ cred \in BOOLEAN /\ runs \in Seq(Nat \X Nat)
  /\ lock \in Syncers \cup {NULL}
  /\ remover \in {"idle", "revoking", "marking"}
  /\ linker \in {"idle", "exchanged", "enriching", "enriched"}
  /\ stopping \in BOOLEAN

LEMMA TypeParts == /\ TypeOK <=> RestTyped /\ run \in [Syncers -> BoundedRun]
                   /\ TypeOK' <=> RestTyped' /\ run' \in [Syncers -> BoundedRun]
BY DEF TypeOK, RestTyped, BoundedRun

LEMMA StageBecomes ==
  ASSUME TypeOK, NEW s \in Syncers, NEW outcome \in Outcomes,
         NEW staged \in {"rows", "run", "aborted"}, Stage(s, outcome, staged)
  PROVE  \E r \in BoundedRun : Becomes(s, r)
<1> DEFINE r == [run[s] EXCEPT !.pc = "commit", !.outcome = outcome, !.staged = staged]
<1>1. r \in BoundedRun
  BY RunTyped DEF BoundedRun, Run
<1>2. Becomes(s, r)
  BY DEF Stage
<1> QED
  BY <1>1, <1>2

LEMMA FetchBecomes ==
  ASSUME TypeOK, NEW s \in Syncers, FetchPage(s)
  PROVE  \E r \in BoundedRun : Becomes(s, r)
<1>1. PICK to \in run[s].pos..published :
        Becomes(s, [run[s] EXCEPT !.pc = IF to = published THEN "accounts" ELSE "paging",
                                  !.pos = to, !.got = @ \cup ((run[s].pos + 1)..to)])
  BY DEF FetchPage
<1>2. /\ run[s] \in BoundedRun /\ to \in Nat
      /\ run[s].got \cup ((run[s].pos + 1)..to) \in SUBSET Nat
  BY RunTyped DEF BoundedRun, Run
<1> QED
  BY <1>1, <1>2 DEF BoundedRun, Run

LEMMA RestartTyped ==
  ASSUME NEW r \in BoundedRun, AttemptsLeft(r)
  PROVE  Restart(r) \in BoundedRun
<1>1. Position(r.orig) \in Nat /\ r.attempt + 1 \in 0..MaxAttempts
  BY ItemSyncAssumption DEF BoundedRun, Run, Position, AttemptsLeft
<1>2. r \in Run /\ r.attempt + 1 \in Nat
  BY DEF BoundedRun
<1>3. Restart(r) \in Run
  BY <1>1, <1>2 DEF Restart, Run
<1>4. Restart(r).attempt = r.attempt + 1
  BY DEF Restart
<1> QED
  BY <1>1, <1>3, <1>4 DEF BoundedRun

LEMMA ReadBecomes ==
  ASSUME TypeOK, NEW s \in Syncers, ReadCredential(s)
  PROVE  \E r \in BoundedRun : Becomes(s, r)
<1>1. CASE Becomes(s, [run[s] EXCEPT !.pc = "paging", !.attempt = 1])
  <2> DEFINE r == [run[s] EXCEPT !.pc = "paging", !.attempt = 1]
  <2>1. run[s] \in Run
    BY RunTyped DEF BoundedRun
  <2>2. r \in Run /\ r.attempt = 1
    BY <2>1 DEF Run
  <2>3. 1 \in 0..MaxAttempts
    BY ItemSyncAssumption
  <2> QED
    BY <1>1, <2>2, <2>3 DEF BoundedRun
<1>2. CASE StageRun(s, "fatal")
  BY <1>2, StageBecomes, Values DEF StageRun
<1> QED
  BY <1>1, <1>2 DEF ReadCredential

LEMMA CommitStagedTyped ==
  ASSUME TypeOK, NEW s \in Syncers, CommitStaged(s)
  PROVE  /\ status' \in Statuses /\ cursor' \in Nat \cup {NULL} /\ applied' \subseteq Nat
         /\ cred' \in BOOLEAN /\ runs' \in Seq(Nat \X Nat)
<1>1. run[s].pos \in Nat /\ run[s].got \subseteq Nat /\ Position(run[s].orig) \in Nat
  BY RunTyped DEF BoundedRun, Run, Position
<1>2. Append(runs, <<Position(run[s].orig), run[s].pos>>) \in Seq(Nat \X Nat)
  BY <1>1 DEF TypeOK
<1> QED
  BY <1>1, <1>2, Values DEF CommitStaged, TypeOK

LEMMA PageFailsBecomes ==
  ASSUME TypeOK, NEW s \in Syncers, PageFails(s)
  PROVE  \E r \in BoundedRun : Becomes(s, r)
<1>1. PICK class \in Failures : IF class = "retryable_error" /\ AttemptsLeft(run[s])
                                THEN Becomes(s, Restart(run[s])) ELSE StageRun(s, class)
  BY DEF PageFails
<1>2. CASE class = "retryable_error" /\ AttemptsLeft(run[s])
  BY <1>1, <1>2, RunTyped, RestartTyped
<1>3. CASE ~(class = "retryable_error" /\ AttemptsLeft(run[s]))
  BY <1>1, <1>3, StageBecomes, Values DEF StageRun
<1> QED
  BY <1>2, <1>3

(* Every step of a sync leaves it in a state of its type, *)
LEMMA SyncBecomes ==
  ASSUME TypeOK, NEW s \in Syncers, SyncAction(s)
  PROVE  \E r \in BoundedRun : Becomes(s, r)
<1>1. CASE TakeItem(s)
  BY <1>1, Values, IdleTyped DEF TakeItem, Idle, Position, BoundedRun, Run, TypeOK
<1>2. CASE SkipItem(s)
  BY <1>2, Values, IdleTyped DEF SkipItem
<1>3. CASE FindItemLocked(s)
  BY <1>3, ItemSyncAssumption, Values DEF FindItemLocked, Idle, BoundedRun, Run
<1>4. CASE TransactionFailsToOpen(s)
  BY <1>4, ItemSyncAssumption, Values DEF TransactionFailsToOpen, Idle, BoundedRun, Run
<1>5. CASE ReadCredential(s)
  BY <1>5, ReadBecomes
<1>6. CASE FetchPage(s)
  BY <1>6, FetchBecomes
<1>7. CASE NotReady(s)
  BY <1>7, StageBecomes, Values DEF NotReady, StageRun
<1>8. CASE PageFails(s)
  BY <1>8, PageFailsBecomes
<1>9. CASE AccountsFail(s)
  BY <1>9, StageBecomes, Values DEF AccountsFail, StageRun
<1>10. CASE ApplyBatch(s)
  BY <1>10, StageBecomes, Values DEF ApplyBatch
<1>11. CASE TransactionFails(s)
  BY <1>11, ItemSyncAssumption, Values DEF TransactionFails, Idle, BoundedRun, Run
<1>12. CASE Commit(s)
  BY <1>12, RunTyped, IdleTyped DEF Commit, Idle, BoundedRun, Run
<1>13. CASE CommitFails(s)
  BY <1>13, Values, RunTyped, IdleTyped DEF CommitFails, AfterFailedCommit, Idle,
     BoundedRun, Run
<1>14. CASE CommitUnacknowledged(s)
  BY <1>14, Values, IdleTyped DEF CommitUnacknowledged, AfterFailedCommit, Idle, BoundedRun,
     Run
<1>15. CASE Cancel(s)
  BY <1>15, Values, IdleTyped DEF Cancel
<1>16. CASE RecordRun(s)
  <2>1. run[s] \in BoundedRun /\ run[s].outcome \in Outcomes
    BY RunTyped DEF BoundedRun, Run
  <2>2. [run[s] EXCEPT !.pc = "set_status"] \in BoundedRun
    BY <2>1 DEF BoundedRun, Run
  <2>3. Idle(run[s].outcome) \in BoundedRun
    BY <2>1, IdleTyped
  <2> QED
    BY <1>16, <2>2, <2>3 DEF RecordRun
<1>17. CASE SetStatusAfterFailure(s)
  BY <1>17, RunTyped, IdleTyped DEF SetStatusAfterFailure, BoundedRun, Run
<1>18. CASE StatusWriteTimesOut(s)
  BY <1>18, RunTyped, IdleTyped DEF StatusWriteTimesOut, BoundedRun, Run
<1>q. QED
  BY <1>1, <1>2, <1>3, <1>4, <1>5, <1>6, <1>7, <1>8, <1>9, <1>10, <1>11, <1>12, <1>13,
     <1>14, <1>15, <1>16, <1>17, <1>18 DEF SyncAction, SyncStep

(* and the row and the lock of theirs. *)
LEMMA SyncTyped ==
  ASSUME TypeOK, NEW s \in Syncers, SyncAction(s)
  PROVE  RestTyped'
<1>1. CASE TakeItem(s)
  BY <1>1 DEF TakeItem, TypeOK, RestTyped
<1>2. CASE SkipItem(s)
  BY <1>2 DEF SkipItem, TypeOK, RestTyped
<1>3. CASE FindItemLocked(s)
  BY <1>3 DEF FindItemLocked, TypeOK, RestTyped
<1>4. CASE TransactionFailsToOpen(s)
  BY <1>4 DEF TransactionFailsToOpen, TypeOK, RestTyped
<1>5. CASE ReadCredential(s)
  BY <1>5 DEF ReadCredential, TypeOK, RestTyped
<1>6. CASE FetchPage(s)
  BY <1>6 DEF FetchPage, TypeOK, RestTyped
<1>7. CASE NotReady(s)
  BY <1>7 DEF NotReady, TypeOK, RestTyped
<1>8. CASE PageFails(s)
  BY <1>8 DEF PageFails, TypeOK, RestTyped
<1>9. CASE AccountsFail(s)
  BY <1>9 DEF AccountsFail, TypeOK, RestTyped
<1>10. CASE ApplyBatch(s)
  BY <1>10 DEF ApplyBatch, TypeOK, RestTyped
<1>11. CASE TransactionFails(s)
  BY <1>11 DEF TransactionFails, TypeOK, RestTyped
<1>12. CASE Commit(s)
  BY <1>12, CommitStagedTyped DEF Commit, TypeOK, RestTyped
<1>13. CASE CommitFails(s)
  BY <1>13 DEF CommitFails, TypeOK, RestTyped
<1>14. CASE CommitUnacknowledged(s)
  BY <1>14, CommitStagedTyped DEF CommitUnacknowledged, TypeOK, RestTyped
<1>15. CASE Cancel(s)
  BY <1>15, CommitStagedTyped DEF Cancel, TypeOK, RestTyped
<1>16. CASE RecordRun(s)
  BY <1>16 DEF RecordRun, TypeOK, RestTyped
<1>17. CASE SetStatusAfterFailure(s)
  BY <1>17, Values DEF SetStatusAfterFailure, FailureStatuses, SetItemStatus, TypeOK,
     RestTyped, Run
<1>18. CASE StatusWriteTimesOut(s)
  BY <1>18 DEF StatusWriteTimesOut, TypeOK, RestTyped
<1>q. QED
  BY <1>1, <1>2, <1>3, <1>4, <1>5, <1>6, <1>7, <1>8, <1>9, <1>10, <1>11, <1>12, <1>13,
     <1>14, <1>15, <1>16, <1>17, <1>18 DEF SyncAction, SyncStep

(* So do the others. *)
LEMMA TypePreserved ==
  ASSUME TypeOK, [Next]_vars
  PROVE  TypeOK'
<1>1. CASE PlaidPublishes
  BY <1>1 DEF PlaidPublishes, TypeOK
<1>2. CASE RemoveItem
  BY <1>2 DEF RemoveItem, TypeOK
<1>3. CASE RevokeAtPlaid
  BY <1>3 DEF RevokeAtPlaid, TypeOK
<1>4. CASE MarkItemRemoved
  BY <1>4, Values DEF MarkItemRemoved, TypeOK
<1>5. CASE ExchangePublicToken
  BY <1>5 DEF ExchangePublicToken, TypeOK
<1>6. CASE FinishUpdateMode
  BY <1>6 DEF FinishUpdateMode, TypeOK
<1>7. CASE UpsertItem
  BY <1>7, Values DEF UpsertItem, TypeOK
<1>8. CASE EnrichItem
  BY <1>8 DEF EnrichItem, TypeOK
<1>9. CASE Webhook
  BY <1>9, Values DEF Webhook, SetItemStatus, TypeOK
<1>10. CASE HandlerFails
  BY <1>10 DEF HandlerFails, TypeOK
<1>11. CASE Shutdown
  BY <1>11 DEF Shutdown, TypeOK
<1>12. CASE Crash
  <2>1. run' \in [Syncers -> BoundedRun]
    BY <1>12, IdleTyped, Values DEF Crash
  <2>2. RestTyped'
    BY <1>12 DEF Crash, RestTyped, TypeOK
  <2> QED
    BY <2>1, <2>2, TypeParts
<1>13. ASSUME NEW s \in Syncers, SyncAction(s)
     PROVE  TypeOK'
  <2>1. run' \in [Syncers -> BoundedRun]
    BY <1>13, SyncBecomes, RunTyped DEF Becomes
  <2> QED
    BY <1>13, <2>1, SyncTyped, TypeParts
<1>14. CASE UNCHANGED vars
  BY <1>14 DEF vars, TypeOK
<1>q. QED
  BY <1>1, <1>2, <1>3, <1>4, <1>5, <1>6, <1>7, <1>8, <1>9, <1>10, <1>11, <1>12, <1>13, <1>14
     DEF Next, SyncAction

-----------------------------------------------------------------------------
(* Ownership *)

LEMMA EmptyInterval == \A n \in Nat : (n + 1)..n = {}
OBVIOUS

LEMMA PositionTyped == \A c \in Nat \cup {NULL} : Position(c) \in Nat
BY DEF Position

(* A sync keeps the item it has, and its steps leave the others' alone. *)
LEMMA SyncKeepsOwnership ==
  ASSUME TypeOK, SyncOwnsItem, CredentialCheck, HistoryApplied, NEW s \in Syncers, SyncAction(s)
  PROVE  SyncOwnsItem'
<1>1. CASE TakeItem(s)
  <2>1. /\ lock' = s /\ \A u \in Syncers \ {s} : run'[u] = run[u] /\ ~Holds(u)
        /\ UNCHANGED <<plaid, row>>
    BY <1>1, ItemSyncAssumption DEF TakeItem, Becomes, Unlocked, SyncOwnsItem
  <2>2. /\ run'[s].pc = "locked" /\ run'[s].before = status /\ run'[s].orig = cursor
        /\ run'[s].pos = Position(cursor) /\ run'[s].got = {}
    BY <1>1 DEF TakeItem, Becomes, Idle, TypeOK
  <2>3. cred /\ Position(cursor) \in Position(cursor)..published
    BY <1>1, PositionTyped DEF TakeItem, CredentialCheck, HistoryApplied, TypeOK
  <2>4. {} = (Position(cursor) + 1)..Position(cursor)
    BY PositionTyped DEF TypeOK
  <2> QED
    BY <2>1, <2>2, <2>3, <2>4 DEF SyncOwnsItem, Holds
<1>2. CASE SkipItem(s)
  BY <1>2 DEF SkipItem, Becomes, Unlocked, Idle, SyncOwnsItem, Holds
<1>3. CASE FindItemLocked(s)
  BY <1>3 DEF FindItemLocked, Becomes, SyncOwnsItem, Holds
<1>4. CASE TransactionFailsToOpen(s)
  BY <1>4 DEF TransactionFailsToOpen, Becomes, SyncOwnsItem, Holds
<1>5. CASE ReadCredential(s)
  <2>1. /\ \A u \in Syncers \ {s} : run'[u] = run[u]
        /\ UNCHANGED <<plaid, row, lock>> /\ run[s].pc = "locked"
    BY <1>5 DEF ReadCredential, StageRun, Stage, Becomes, TypeOK
  <2>2. CASE Becomes(s, [run[s] EXCEPT !.pc = "paging", !.attempt = 1])
    <3>1. /\ run'[s].pc = "paging" /\ run'[s].before = run[s].before
          /\ run'[s].orig = run[s].orig /\ run'[s].pos = run[s].pos
          /\ run'[s].got = run[s].got
      BY <2>2 DEF Becomes, TypeOK
    <3> QED
      BY <2>1, <3>1 DEF SyncOwnsItem, Holds
  <2>3. CASE StageRun(s, "fatal")
    <3>1. /\ run'[s].pc = "commit" /\ run'[s].before = run[s].before
          /\ run'[s].orig = run[s].orig /\ run'[s].pos = run[s].pos
          /\ run'[s].got = run[s].got
      BY <2>3 DEF StageRun, Stage, Becomes, TypeOK
    <3> QED
      BY <2>1, <3>1 DEF SyncOwnsItem, Holds
  <2> QED
    BY <1>5, <2>2, <2>3 DEF ReadCredential
<1>6. CASE FetchPage(s)
  BY <1>6 DEF FetchPage, Becomes, SyncOwnsItem, Holds, TypeOK, Position
<1>7. CASE NotReady(s)
  BY <1>7 DEF NotReady, Becomes, StageRun, Stage, SyncOwnsItem, Holds
<1>8. CASE PageFails(s)
  <2>1. /\ \A u \in Syncers \ {s} : run'[u] = run[u]
        /\ UNCHANGED <<plaid, row, lock>> /\ run[s].pc = "paging"
    BY <1>8 DEF PageFails, StageRun, Stage, Becomes, TypeOK
  <2>2. CASE Becomes(s, Restart(run[s]))
    <3>1. /\ run'[s].pc = "paging" /\ run'[s].before = run[s].before
          /\ run'[s].orig = run[s].orig /\ run'[s].pos = Position(run[s].orig)
          /\ run'[s].got = {}
      BY <2>1, <2>2 DEF Restart, Becomes, TypeOK
    <3>2. run[s].orig = cursor
      BY <2>1 DEF SyncOwnsItem, Holds
    <3>3. Position(cursor) \in Nat /\ Position(cursor) \in Position(cursor)..published
      BY PositionTyped DEF HistoryApplied, TypeOK
    <3>4. {} = (Position(cursor) + 1)..Position(cursor)
      BY <3>3
    <3> QED
      BY <2>1, <3>1, <3>3, <3>4 DEF SyncOwnsItem, Holds
  <2>3. CASE \E class \in Failures : StageRun(s, class)
    <3>1. /\ run'[s].pc = "commit" /\ run'[s].before = run[s].before
          /\ run'[s].orig = run[s].orig /\ run'[s].pos = run[s].pos
          /\ run'[s].got = run[s].got
      BY <2>3 DEF StageRun, Stage, Becomes, TypeOK
    <3> QED
      BY <2>1, <3>1 DEF SyncOwnsItem, Holds
  <2> QED
    BY <1>8, <2>2, <2>3 DEF PageFails
<1>9. CASE AccountsFail(s)
  BY <1>9 DEF AccountsFail, Becomes, StageRun, Stage, SyncOwnsItem, Holds
<1>10. CASE ApplyBatch(s)
  BY <1>10 DEF ApplyBatch, Becomes, Stage, SyncOwnsItem, Holds
<1>11. CASE TransactionFails(s)
  BY <1>11, ItemSyncAssumption DEF TransactionFails, Becomes, SyncOwnsItem, Holds, TypeOK
<1>12. CASE Commit(s)
  BY <1>12, ItemSyncAssumption DEF Commit, Becomes, Idle, SyncOwnsItem, Holds, TypeOK
<1>13. CASE CommitFails(s)
  BY <1>13, ItemSyncAssumption DEF CommitFails, Becomes, AfterFailedCommit, SyncOwnsItem,
     Holds, TypeOK
<1>14. CASE CommitUnacknowledged(s)
  BY <1>14, ItemSyncAssumption DEF CommitUnacknowledged, Becomes, AfterFailedCommit,
     SyncOwnsItem, Holds, TypeOK
<1>15. CASE Cancel(s)
  BY <1>15, ItemSyncAssumption DEF Cancel, Becomes, Idle, SyncOwnsItem, Holds, TypeOK
<1>16. CASE RecordRun(s)
  BY <1>16 DEF RecordRun, Becomes, Idle, SyncOwnsItem, Holds
<1>17. CASE SetStatusAfterFailure(s)
  BY <1>17, ItemSyncAssumption DEF SetStatusAfterFailure, Becomes, RowFree, Idle,
     SyncOwnsItem, Holds
<1>18. CASE StatusWriteTimesOut(s)
  BY <1>18 DEF StatusWriteTimesOut, Becomes, Idle, SyncOwnsItem, Holds
<1>q. QED
  BY <1>1, <1>2, <1>3, <1>4, <1>5, <1>6, <1>7, <1>8, <1>9, <1>10, <1>11, <1>12, <1>13,
     <1>14, <1>15, <1>16, <1>17, <1>18 DEF SyncAction, SyncStep

(* No one else changes the row of an item that a sync has. *)
LEMMA OwnershipPreserved ==
  ASSUME TypeOK, SyncOwnsItem, CredentialCheck, HistoryApplied, [Next]_vars
  PROVE  SyncOwnsItem'
<1>1. CASE PlaidPublishes
  BY <1>1 DEF PlaidPublishes, SyncOwnsItem, Holds, TypeOK
<1>2. CASE RemoveItem
  BY <1>2 DEF RemoveItem, SyncOwnsItem, Holds
<1>3. CASE RevokeAtPlaid
  BY <1>3 DEF RevokeAtPlaid, SyncOwnsItem, Holds
<1>4. CASE MarkItemRemoved
  BY <1>4, ItemSyncAssumption DEF MarkItemRemoved, RowFree, SyncOwnsItem, Holds
<1>5. CASE ExchangePublicToken
  BY <1>5 DEF ExchangePublicToken, SyncOwnsItem, Holds
<1>6. CASE FinishUpdateMode
  BY <1>6 DEF FinishUpdateMode, SyncOwnsItem, Holds
<1>7. CASE UpsertItem
  BY <1>7, ItemSyncAssumption DEF UpsertItem, RowFree, SyncOwnsItem, Holds
<1>8. CASE EnrichItem
  BY <1>8 DEF EnrichItem, SyncOwnsItem, Holds
<1>9. CASE Webhook
  BY <1>9, ItemSyncAssumption DEF Webhook, RowFree, SyncOwnsItem, Holds
<1>10. CASE HandlerFails
  BY <1>10 DEF HandlerFails, SyncOwnsItem, Holds
<1>11. CASE Shutdown
  BY <1>11 DEF Shutdown, SyncOwnsItem, Holds
<1>12. CASE Crash
  BY <1>12, ItemSyncAssumption DEF Crash, Idle, SyncOwnsItem, Holds
<1>13. ASSUME NEW s \in Syncers, SyncAction(s)
     PROVE  SyncOwnsItem'
  BY <1>13, SyncKeepsOwnership
<1>14. CASE UNCHANGED vars
  BY <1>14 DEF vars, SyncOwnsItem, Holds
<1>q. QED
  BY <1>1, <1>2, <1>3, <1>4, <1>5, <1>6, <1>7, <1>8, <1>9, <1>10, <1>11, <1>12, <1>13, <1>14
     DEF Next, SyncAction

-----------------------------------------------------------------------------
(* The row *)

(* What a step that is not a commit does to the status and the credential. *)
CredentialStep ==
  \/ UNCHANGED <<status, cred>>
  \/ status' = "removed" /\ cred' = FALSE
  \/ status' = "active" /\ cred' = TRUE
  \/ status # "removed" /\ status' # "removed" /\ cred' = cred

Commits == \E s \in Syncers : Holds(s) /\ CommitStaged(s) /\ UNCHANGED published

Stays == /\ UNCHANGED <<cursor, applied, runs>> /\ CredentialStep
         /\ published' \in {published, published + 1}

(* The statuses a failure or a webhook sets are not "removed". *)
LEMMA StatusesKept ==
  ASSUME NEW new \in {"active", "error"} \cup ReauthStatuses, SetItemStatus(new), UNCHANGED cred
  PROVE  CredentialStep
<1>1. new # "removed"
  BY ItemSyncAssumption
<1> QED
  BY <1>1 DEF SetItemStatus, NotRemoved, CredentialStep

(* What one step does to the row: a sync that holds the item commits, or the *)
(* cursor, the rows and the audit rows stay as they are.                     *)
LEMMA RowStep ==
  ASSUME TypeOK, SyncOwnsItem, [Next]_vars
  PROVE  Commits \/ Stays
<1>1. CASE PlaidPublishes
  BY <1>1 DEF PlaidPublishes, Stays, CredentialStep
<1>2. CASE RemoveItem \/ RevokeAtPlaid
  BY <1>2 DEF RemoveItem, RevokeAtPlaid, Stays, CredentialStep
<1>3. CASE MarkItemRemoved
  BY <1>3 DEF MarkItemRemoved, Stays, CredentialStep
<1>4. CASE ExchangePublicToken \/ FinishUpdateMode \/ EnrichItem
  BY <1>4 DEF ExchangePublicToken, FinishUpdateMode, EnrichItem, Stays, CredentialStep
<1>5. CASE UpsertItem
  BY <1>5 DEF UpsertItem, Stays, CredentialStep
<1>6. CASE Webhook
  BY <1>6, StatusesKept DEF Webhook, Stays
<1>7. CASE HandlerFails \/ Shutdown \/ Crash \/ UNCHANGED vars
  BY <1>7 DEF HandlerFails, Shutdown, Crash, vars, Stays, CredentialStep
<1>8. ASSUME NEW s \in Syncers, SyncAction(s)
      PROVE  Commits \/ Stays
  <2>1. CASE Commit(s)
    BY <2>1 DEF Commit, Commits, Holds
  <2>2. CASE CommitUnacknowledged(s)
    BY <2>2 DEF CommitUnacknowledged, Commits, Holds
  <2>3. CASE Cancel(s)
    <3>1. Holds(s) /\ UNCHANGED published /\ (CommitStaged(s) \/ UNCHANGED row)
      BY <2>3 DEF Cancel, Holds
    <3> QED
      BY <3>1 DEF Commits, Stays, CredentialStep
  <2>4. CASE SetStatusAfterFailure(s)
    <3>1. PICK new \in FailureStatuses(run[s]) : SetItemStatus(new)
      BY <2>4 DEF SetStatusAfterFailure
    <3>2. run[s].before \in {"active", "error"}
      BY RunTyped DEF BoundedRun, Run
    <3>3. new \in {"active", "error"} \cup ReauthStatuses
      BY <3>2 DEF FailureStatuses
    <3> QED
      BY <2>4, <3>1, <3>3, StatusesKept DEF SetStatusAfterFailure, Stays
  <2>5. CASE UNCHANGED <<plaid, row>>
    BY <2>5 DEF Stays, CredentialStep
  <2> QED
    BY <1>8, <2>1, <2>2, <2>3, <2>4, <2>5 DEF SyncAction, SyncStep, TakeItem, SkipItem,
       FindItemLocked, TransactionFailsToOpen, ReadCredential, FetchPage, NotReady,
       PageFails, AccountsFail, ApplyBatch, TransactionFails, CommitFails, RecordRun,
       StatusWriteTimesOut
<1> QED
  BY <1>1, <1>2, <1>3, <1>4, <1>5, <1>6, <1>7, <1>8 DEF Next, SyncAction

LEMMA IntervalsJoin ==
  ASSUME NEW m \in Nat, NEW n \in Nat, m <= n
  PROVE  (1..m) \cup ((m + 1)..n) = 1..n
OBVIOUS

(* The intervals of the audit rows tile 1..n. *)
Tiles(rs, n) ==
  /\ \A i \in DOMAIN rs : rs[i][1] < rs[i][2]
  /\ \A i \in DOMAIN rs : rs[i][1] = IF i = 1 THEN 0 ELSE rs[i - 1][2]
  /\ n = IF rs = <<>> THEN 0 ELSE rs[Len(rs)][2]

LEMMA TilesExtend ==
  ASSUME NEW rs \in Seq(Nat \X Nat), NEW m \in Nat, NEW n \in Nat, Tiles(rs, m), m < n
  PROVE  Tiles(Append(rs, <<m, n>>), n)
<1> DEFINE new == Append(rs, <<m, n>>)
<1>1. /\ Len(rs) \in Nat /\ new \in Seq(Nat \X Nat) /\ Len(new) = Len(rs) + 1
      /\ \A i \in 1..Len(rs) : new[i] = rs[i]
      /\ new[Len(rs) + 1] = <<m, n>>
      /\ DOMAIN new = 1..(Len(rs) + 1) /\ DOMAIN rs = 1..Len(rs)
  OBVIOUS
<1> HIDE DEF new
<1>2. new[Len(rs) + 1][1] = m /\ new[Len(rs) + 1][2] = n
  BY <1>1
<1>3. \A i \in 1..(Len(rs) + 1) : i \in 1..Len(rs) \/ i = Len(rs) + 1
  BY <1>1
<1>4. \A i \in DOMAIN new : new[i][1] < new[i][2]
  BY <1>1, <1>2, <1>3 DEF Tiles
<1>5. \A i \in 1..Len(rs) : new[i][1] = IF i = 1 THEN 0 ELSE new[i - 1][2]
  <2> SUFFICES ASSUME NEW i \in 1..Len(rs)
               PROVE  new[i][1] = IF i = 1 THEN 0 ELSE new[i - 1][2]
    OBVIOUS
  <2>1. new[i] = rs[i] /\ (i # 1 => new[i - 1] = rs[i - 1])
    <3>1. i # 1 => i - 1 \in 1..Len(rs)
      BY <1>1
    <3> QED
      BY <1>1, <3>1
  <2>2. rs[i][1] = IF i = 1 THEN 0 ELSE rs[i - 1][2]
    BY DEF Tiles
  <2> QED
    BY <2>1, <2>2
<1>6. new[Len(rs) + 1][1] = IF Len(rs) + 1 = 1 THEN 0 ELSE new[Len(rs)][2]
  <2>1. CASE rs = <<>>
    BY <1>1, <2>1 DEF Tiles
  <2>2. CASE rs # <<>>
    <3>1. Len(rs) \in 1..Len(rs)
      BY <2>2
    <3>2. Len(rs) + 1 # 1 /\ new[Len(rs)] = rs[Len(rs)] /\ m = rs[Len(rs)][2]
      BY <1>1, <2>2 DEF Tiles
    <3> QED
      BY <1>2, <3>2
  <2> QED
    BY <2>1, <2>2
<1>7. \A i \in DOMAIN new : new[i][1] = IF i = 1 THEN 0 ELSE new[i - 1][2]
  <2> SUFFICES ASSUME NEW i \in DOMAIN new
               PROVE  new[i][1] = IF i = 1 THEN 0 ELSE new[i - 1][2]
    OBVIOUS
  <2>1. CASE i \in 1..Len(rs)
    BY <1>5, <2>1
  <2>2. CASE i = Len(rs) + 1
    <3>1. Len(rs) + 1 - 1 = Len(rs)
      BY <1>1
    <3> QED
      BY <1>6, <2>2
  <2> QED
    BY <1>1, <2>1, <2>2
<1>8. new # <<>>
  <2>1. Len(new) # 0 /\ Len(<<>>) = 0
    BY <1>1
  <2> QED
    BY <2>1
<1>9. Tiles(new, n)
  BY <1>1, <1>4, <1>7 DEF Tiles
<1> QED
  BY <1>9 DEF new

(* A commit extends what is applied by exactly the history up to the new    *)
(* cursor, and the audit rows by the interval between the two.               *)
LEMMA CommitExtends ==
  ASSUME IInv, NEW s \in Syncers, Holds(s), CommitStaged(s), UNCHANGED published
  PROVE  /\ HistoryApplied' /\ RunsTileHistory' /\ CredentialCheck'
         /\ AF!Advance \/ UNCHANGED <<published, cursor, applied>>
<1>1. CASE run[s].staged # "rows"
  BY <1>1 DEF CommitStaged, IInv, HistoryApplied, RunsTileHistory, CredentialCheck
<1>2. CASE run[s].staged = "rows"
  <2> DEFINE from == Position(cursor)
             to == run[s].pos
  <2>1. /\ from \in Nat /\ to \in Nat /\ from <= to /\ to <= published /\ published \in Nat
        /\ run[s].orig = cursor /\ run[s].got = (from + 1)..to /\ cred
    <3>1. from \in Nat /\ published \in Nat
      BY PositionTyped DEF IInv, TypeOK
    <3>2. /\ run[s].orig = cursor /\ run[s].got = (from + 1)..to /\ cred
          /\ to \in from..published
      BY DEF IInv, SyncOwnsItem
    <3> QED
      BY <3>1, <3>2
  <2>2. cursor' = to /\ Position(cursor)' = to
    BY <1>2, <2>1, ItemSyncAssumption DEF CommitStaged, Position
  <2>3. applied' = 1..to
    BY <1>2, <2>1, IntervalsJoin DEF CommitStaged, IInv, HistoryApplied
  <2>4. HistoryApplied'
    BY <2>1, <2>2, <2>3 DEF HistoryApplied
  <2>5. CredentialCheck'
    BY <1>2, <2>1 DEF CommitStaged, CredentialCheck
  <2>6. RunsTileHistory'
    <3>1. runs \in Seq(Nat \X Nat) /\ Tiles(runs, from)
      BY DEF IInv, TypeOK, RunsTileHistory, Tiles
    <3>2. runs' = IF to = from THEN runs ELSE Append(runs, <<from, to>>)
      BY <1>2, <2>1 DEF CommitStaged
    <3>3. Tiles(runs', to)
      BY <2>1, <3>1, <3>2, TilesExtend
    <3> QED
      BY <2>2, <3>3 DEF RunsTileHistory, Tiles
  <2>7. AF!Advance
    <3>1. to \in AF!Position(cursor)..published
      BY <2>1 DEF Position, AF!Position
    <3> QED
      BY <2>2, <2>3, <3>1 DEF AF!Advance
  <2> QED
    BY <2>4, <2>5, <2>6, <2>7
<1> QED
  BY <1>1, <1>2

-----------------------------------------------------------------------------
(* The inductive invariant *)

LEMMA InitIInv == Init => IInv
<1> SUFFICES ASSUME Init
             PROVE  IInv
  OBVIOUS
<1>1. run \in [Syncers -> BoundedRun]
  BY IdleTyped, Values DEF Init
<1>2. TypeOK
  <2>1. status \in Statuses
    BY Values DEF Init
  <2>2. runs \in Seq(Nat \X Nat) /\ applied \subseteq Nat /\ published \in Nat
    BY DEF Init
  <2>3. alive \in BOOLEAN /\ cred \in BOOLEAN /\ stopping \in BOOLEAN
    BY DEF Init
  <2>4. /\ cursor \in Nat \cup {NULL} /\ lock \in Syncers \cup {NULL}
        /\ remover \in {"idle", "revoking", "marking"}
        /\ linker \in {"idle", "exchanged", "enriching", "enriched"}
    BY DEF Init
  <2>5. RestTyped
    BY <2>1, <2>2, <2>3, <2>4 DEF RestTyped
  <2> QED
    BY <1>1, <2>5, TypeParts
<1>3. SyncOwnsItem
  BY ItemSyncAssumption DEF Init, SyncOwnsItem, Holds, Idle
<1>4. CredentialCheck /\ HistoryApplied /\ RunsTileHistory
  BY DEF Init, CredentialCheck, HistoryApplied, RunsTileHistory, Position
<1> QED
  BY <1>2, <1>3, <1>4 DEF IInv

LEMMA IInvPreserved == IInv /\ [Next]_vars => IInv'
<1> SUFFICES ASSUME IInv, [Next]_vars
             PROVE  IInv'
  OBVIOUS
<1>1. TypeOK'
  BY TypePreserved DEF IInv
<1>2. SyncOwnsItem'
  BY OwnershipPreserved DEF IInv
<1>3. CASE Commits
  BY <1>1, <1>2, <1>3, CommitExtends DEF Commits, IInv
<1>4. CASE Stays
  <2>1. CredentialCheck'
    BY <1>4 DEF Stays, CredentialStep, CredentialCheck, IInv
  <2>2. Position(cursor)' = Position(cursor) /\ Position(cursor) \in Nat
    BY <1>4, PositionTyped DEF Stays, IInv, TypeOK
  <2>3. HistoryApplied'
    BY <1>4, <2>2 DEF Stays, HistoryApplied, IInv, TypeOK
  <2>4. RunsTileHistory'
    BY <1>4 DEF Stays, RunsTileHistory, IInv
  <2> QED
    BY <1>1, <1>2, <2>1, <2>3, <2>4 DEF IInv
<1> QED
  BY <1>3, <1>4, RowStep DEF IInv

LEMMA Inductive == Spec => []IInv
BY InitIInv, IInvPreserved, PTL DEF Spec

-----------------------------------------------------------------------------
(* Theorems *)

(* Every variable keeps its type, whatever is interleaved, fails or crashes, *)
(* and no call of SyncItem makes more attempts than MaxAttempts.             *)
THEOREM TypeCorrect == Spec => []TypeOK
<1>1. IInv => TypeOK
  BY DEF IInv
<1> QED
  BY <1>1, Inductive, PTL

(* A sync under way holds the item alone, the row is what it loaded, and it  *)
(* has accumulated the history from there without a gap (WithItemLock,       *)
(* paginate), with any number of concurrent calls and retries.               *)
THEOREM Ownership == Spec => []SyncOwnsItem
<1>1. IInv => SyncOwnsItem
  BY DEF IInv
<1> QED
  BY <1>1, Inductive, PTL

(* The CHECK constraints that tie the status to the credential are never     *)
(* violated by an interleaving of syncs, removals, links and webhooks.       *)
THEOREM CredentialTied == Spec => []CredentialCheck
<1>1. IInv => CredentialCheck
  BY DEF IInv
<1> QED
  BY <1>1, Inductive, PTL

(* The successful audit rows tile the history up to the saved cursor.        *)
THEOREM RunsTile == Spec => []RunsTileHistory
<1>1. IInv => RunsTileHistory
  BY DEF IInv
<1> QED
  BY <1>1, Inductive, PTL

(* The row goes through what AtomicFeed allows: cursor and rows move forward *)
(* together, to some point of Plaid's history, or not at all.                *)
THEOREM Refinement == Spec => ImplementsAtomicFeed
<1>1. Init => AF!FeedInit
  BY DEF Init, AF!FeedInit
<1>2. IInv /\ [Next]_vars => [AF!FeedNext]_(AF!feedVars)
  <2> SUFFICES ASSUME IInv, [Next]_vars
               PROVE  [AF!FeedNext]_(AF!feedVars)
    OBVIOUS
  <2>1. CASE Commits
    BY <2>1, CommitExtends DEF Commits, AF!FeedNext, AF!feedVars
  <2>2. CASE Stays
    BY <2>2 DEF Stays, AF!FeedNext, AF!Publish, AF!feedVars
  <2> QED
    BY <2>1, <2>2, RowStep DEF IInv
<1> QED
  BY <1>1, <1>2, Inductive, PTL DEF Spec, ImplementsAtomicFeed, AF!FeedSpec
================================================================================
