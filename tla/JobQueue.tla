------------------------------- MODULE JobQueue -------------------------------
(***************************************************************************)
(* sync_jobs and the process that works it: Runner.Enqueue called by HTTP  *)
(* handlers, webhooks, the scheduler and follow-up timers; the workers;    *)
(* shutdown, crash and restart (internal/jobs/runner.go,                   *)
(* internal/store/queue.go, internal/store/jobs.go).                       *)
(*                                                                         *)
(* A step is one statement on the database, or one critical section of     *)
(* Runner.mu.  SyncItem is cut where the runner can tell: it takes the     *)
(* item's lock, and it ends; the steps in between are in ItemSync.         *)
(*                                                                         *)
(* Rows are recycled: of a finished job, which nothing reads, the outcome  *)
(* is kept, and it may leave the model (Forget), so that a bounded set of  *)
(* job ids stands for an unbounded table.                                  *)
(***************************************************************************)
EXTENDS Naturals, Sequences, FiniteSets, SequencesExt

CONSTANTS Items, JobIds, Workers,
          Kinds,          \* "manual", and "automatic": initial, webhook, scheduled
          Callers,        \* concurrent calls of Enqueue; one of them is Scheduler
          Scheduler,
          ReauthStatus,   \* stands for the statuses that wait for Link update mode
          MaxFollowUps,   \* len(NotReadyDelays)
          MaxFaults,      \* bound on shutdowns, crashes and database failures
          NULL

ASSUME JobQueueAssumption ==
  /\ Scheduler \in Callers /\ Kinds \subseteq {"manual", "automatic"} /\ "automatic" \in Kinds
  /\ NULL \notin Items /\ NULL \notin JobIds /\ NULL \notin Workers /\ NULL \notin Callers
  /\ ReauthStatus \notin {"active", "error", "removed"}
  /\ MaxFollowUps \in Nat /\ MaxFaults \in Nat

VARIABLES job,      \* sync_jobs
          line,     \* the unfinished jobs, by created_at
          status,   \* plaid_items.status
          ready,    \* Plaid has finished the item's first pull
          synced,   \* last_successful_sync_at IS NOT NULL
          process,  \* plaidsync: see Process
          worker,   \* where each worker is in process()
          holder,   \* the worker whose SyncItem took the item's lock, or NULL
          call,     \* where each call of Enqueue is
          mu,       \* the call that is inside Runner.mu, or NULL
          notReady, \* Runner.notReady
          timers,   \* follow-up timers running
          faults

table == <<job, line>>
item == <<status, ready, synced>>
follow == <<notReady, timers>>
vars == <<table, item, process, worker, holder, call, mu, follow, faults>>

Terminal == {"succeeded", "failed", "skipped"}
Live == {"queued", "running"}
Statuses == {"active", "error", "removed", ReauthStatus}
Syncable == {"active", "error"}

(* starting: the HTTP server is up, RequeueRunningJobs is not done; broken:  *)
(* it failed and Run has returned, the server still serves.                  *)
Process == {"down", "starting", "working", "broken", "stopping"}

(* requeued is a history variable.                                           *)
Job == [item : Items \cup {NULL}, kind : Kinds,
        state : Live \cup Terminal \cup {"none"}, requeued : BOOLEAN]
NoJob == [item |-> NULL, kind |-> "automatic", state |-> "none", requeued |-> FALSE]

(* finish: FinishJob(state) is next; after says what process() does then.    *)
Worker == [pc : {"idle", "lookup", "sync", "syncing", "finish", "after"},
           job : JobIds \cup {NULL}, item : Items \cup {NULL}, state : Terminal \cup {"none"},
           after : {"nothing", "reset", "follow"}]
Idle == [pc |-> "idle", job |-> NULL, item |-> NULL, state |-> "none", after |-> "nothing"]

Call == [pc : {"idle", "lock", "create"}, item : Items \cup {NULL}, kind : Kinds]
NoCall == [pc |-> "idle", item |-> NULL, kind |-> "automatic"]

Init ==
  /\ job = [j \in JobIds |-> NoJob] /\ line = <<>>
  /\ status = [i \in Items |-> "active"]
  /\ ready \in [Items -> BOOLEAN]
  /\ synced = [i \in Items |-> FALSE]
  /\ process = "starting"
  /\ worker = [w \in Workers |-> Idle]
  /\ holder = [i \in Items |-> NULL]
  /\ call = [c \in Callers |-> NoCall] /\ mu = NULL
  /\ notReady = [i \in Items |-> 0] /\ timers = [i \in Items |-> 0]
  /\ faults = 0

Fault == faults < MaxFaults /\ faults' = faults + 1

-----------------------------------------------------------------------------
(* Enqueue *)

Serving == process \in {"starting", "working", "broken", "stopping"}

(* GetItem: a removed item, or one waiting for a human, is refused. *)
GetItem(c, i, kind) ==
  /\ call[c].pc = "idle"
  /\ status[i] \in Syncable
  /\ call' = [call EXCEPT ![c] = [pc |-> "lock", item |-> i, kind |-> kind]]

(* A handler, or a webhook, of a server that still drains. *)
Request(c, i) ==
  /\ c # Scheduler /\ Serving
  /\ \E kind \in Kinds : GetItem(c, i, kind)
  /\ UNCHANGED <<table, item, process, worker, holder, mu, follow, faults>>

ActiveOnly == {"active"}   \* mutant of ListSyncableItems
Scheduled == {"active", "error"}

(* ScheduleAll, of an item of ListSyncableItems. *)
Schedule(i) ==
  /\ process = "working"
  /\ status[i] \in Scheduled /\ GetItem(Scheduler, i, "automatic")
  /\ UNCHANGED <<table, item, process, worker, holder, mu, follow, faults>>

TimerFires(c, i) ==
  /\ c # Scheduler /\ process = "working" /\ timers[i] > 0
  /\ timers' = [timers EXCEPT ![i] = @ - 1]
  /\ \/ GetItem(c, i, "automatic")
     \/ status[i] \notin Syncable /\ UNCHANGED call
  /\ UNCHANGED <<table, item, process, worker, holder, mu, notReady, faults>>

QueuedJobs(i) == {j \in JobIds : job[j].item = i /\ job[j].state = "queued"}

NoMutex == TRUE   \* mutant: the check and the insert are not serialised
MutexFree == mu = NULL

(* The oldest queued job of the item, of whatever kind, answers the call, *)
FindQueuedJob(c) ==
  /\ call[c].pc = "lock" /\ MutexFree
  /\ QueuedJobs(call[c].item) # {}
  /\ call' = [call EXCEPT ![c] = NoCall]
  /\ UNCHANGED <<table, item, process, worker, holder, mu, follow, faults>>

(* or there is none, *)
FindNoQueuedJob(c) ==
  /\ call[c].pc = "lock" /\ MutexFree
  /\ QueuedJobs(call[c].item) = {}
  /\ mu' = c
  /\ call' = [call EXCEPT ![c].pc = "create"]
  /\ UNCHANGED <<table, item, process, worker, holder, follow, faults>>

(* and a job is created. *)
CreateJob(c) ==
  /\ call[c].pc = "create"
  /\ \E j \in JobIds :
       /\ job[j].state = "none"
       /\ job' = [job EXCEPT ![j] = [item |-> call[c].item, kind |-> call[c].kind,
                                     state |-> "queued", requeued |-> FALSE]]
       /\ line' = Append(line, j)
  /\ mu' = NULL
  /\ call' = [call EXCEPT ![c] = NoCall]
  /\ UNCHANGED <<item, process, worker, holder, follow, faults>>

(* A statement fails, or the caller goes away. *)
EnqueueFails(c) ==
  /\ call[c].pc # "idle"
  /\ \/ Fault
     \/ process = "stopping" /\ UNCHANGED faults
  /\ mu' = IF mu = c THEN NULL ELSE mu
  /\ call' = [call EXCEPT ![c] = NoCall]
  /\ UNCHANGED <<table, item, process, worker, holder, follow>>

-----------------------------------------------------------------------------
(* Claiming *)

AnyUnfinished(j) == line # <<>> /\ j = line[1]   \* mutant: no WHERE state

(* The oldest queued job. *)
Claimable(j) ==
  /\ job[j].state = "queued"
  /\ \E n \in DOMAIN line :
       line[n] = j /\ \A m \in 1..(n - 1) : job[line[m]].state # "queued"

Start(j) == job' = [job EXCEPT ![j].state = "running"]

ClaimJob(w) ==
  /\ process = "working" /\ worker[w].pc = "idle"
  /\ \E j \in JobIds :
       /\ Claimable(j)
       /\ Start(j)
       /\ worker' = [worker EXCEPT ![w] = [pc |-> "lookup", job |-> j, item |-> job[j].item,
                                         state |-> "none", after |-> "nothing"]]
  /\ UNCHANGED <<line, item, process, holder, call, mu, follow, faults>>

(* The UPDATE commits and its answer is lost, to a canceled context or a    *)
(* broken connection.                                                       *)
ClaimLost(w) ==
  /\ process \in {"working", "stopping"} /\ worker[w].pc = "idle"
  /\ Fault
  /\ \E j \in JobIds : Claimable(j) /\ Start(j)
  /\ UNCHANGED <<line, item, process, worker, holder, call, mu, follow>>

-----------------------------------------------------------------------------
(* process(): up to SyncItem *)

Working(w) == worker[w].job
ItemOf(w) == worker[w].item

ToFinish(w, state, after) ==
  worker' = [worker EXCEPT ![w] = [pc |-> "finish", job |-> Working(w), item |-> ItemOf(w),
                                   state |-> state, after |-> after]]

(* GetItem and the checks on what it returned: the job is skipped, *)
Skip(w) ==
  /\ worker[w].pc = "lookup" /\ process = "working"
  /\ status[ItemOf(w)] \in {"removed", ReauthStatus}
  /\ ToFinish(w, "skipped", "nothing")
  /\ UNCHANGED <<table, item, process, holder, call, mu, follow, faults>>

(* or debounced, if the last success is less than MinInterval ago, *)
Debounce(w) ==
  /\ worker[w].pc = "lookup" /\ process = "working"
  /\ status[ItemOf(w)] \in Syncable
  /\ job[Working(w)].kind = "manual" /\ synced[ItemOf(w)]
  /\ ToFinish(w, "skipped", "nothing")
  /\ UNCHANGED <<table, item, process, holder, call, mu, follow, faults>>

(* or goes on. *)
BeginSync(w) ==
  /\ worker[w].pc = "lookup" /\ process = "working"
  /\ status[ItemOf(w)] \in Syncable
  /\ worker' = [worker EXCEPT ![w].pc = "sync"]
  /\ UNCHANGED <<table, item, process, holder, call, mu, follow, faults>>

(* GetItem returns an error: of the database, or of the canceled context. *)
LookUpFails(w) ==
  /\ worker[w].pc = "lookup"
  /\ \/ process = "working" /\ Fault
     \/ process = "stopping" /\ UNCHANGED faults
  /\ ToFinish(w, "failed", "nothing")
  /\ UNCHANGED <<table, item, process, holder, call, mu, follow>>

-----------------------------------------------------------------------------
(* process(): SyncItem.  Every failure of it ends with the job failed. *)

TakeItem(w) ==
  /\ worker[w].pc = "sync" /\ process = "working"
  /\ holder[ItemOf(w)] = NULL
  /\ IF status[ItemOf(w)] \in Syncable
     THEN /\ holder' = [holder EXCEPT ![ItemOf(w)] = w]
          /\ worker' = [worker EXCEPT ![w].pc = "syncing"]
     ELSE /\ ToFinish(w, "failed", "nothing")
          /\ UNCHANGED holder
  /\ UNCHANGED <<table, item, process, call, mu, follow, faults>>

FindItemLocked(w) ==
  /\ worker[w].pc = "sync" /\ process = "working"
  /\ holder[ItemOf(w)] # NULL
  /\ ToFinish(w, "skipped", "nothing")
  /\ UNCHANGED <<table, item, process, holder, call, mu, follow, faults>>

ReleaseItem(w) == holder' = [holder EXCEPT ![ItemOf(w)] = NULL]

SyncSucceeds(w) ==
  /\ worker[w].pc = "syncing" /\ ready[ItemOf(w)]
  /\ status' = [status EXCEPT ![ItemOf(w)] = "active"]
  /\ synced' = [synced EXCEPT ![ItemOf(w)] = TRUE]
  /\ ReleaseItem(w)
  /\ ToFinish(w, "succeeded", "reset")
  /\ UNCHANGED <<table, ready, process, call, mu, follow, faults>>

SyncNotReady(w) ==
  /\ worker[w].pc = "syncing" /\ ~ready[ItemOf(w)]
  /\ ReleaseItem(w)
  /\ ToFinish(w, "succeeded", "follow")
  /\ UNCHANGED <<table, item, process, call, mu, follow, faults>>

(* The status is the one the failure implies, or as it was. *)
SyncFails(w) ==
  /\ worker[w].pc = "syncing"
  /\ \E new \in {"error", ReauthStatus, status[ItemOf(w)]} :
       status' = [status EXCEPT ![ItemOf(w)] = new]
  /\ ReleaseItem(w)
  /\ ToFinish(w, "failed", "nothing")
  /\ UNCHANGED <<table, ready, synced, process, call, mu, follow, faults>>

CallTimedOut == process \in {"working", "stopping"}   \* mutant: a timeout taken for a shutdown
Canceled == process = "stopping"

(* The context is canceled: the job stays running. *)
SyncCanceled(w) ==
  /\ Canceled /\ worker[w].pc \in {"sync", "syncing"}
  /\ IF worker[w].pc = "syncing" THEN ReleaseItem(w) ELSE UNCHANGED holder
  /\ worker' = [worker EXCEPT ![w] = Idle]
  /\ UNCHANGED <<table, item, process, call, mu, follow, faults>>

-----------------------------------------------------------------------------
(* process(): after SyncItem *)

(* The job is behind the worker, whether its state was written or not. *)
LeaveJob(w) ==
  worker' = [worker EXCEPT ![w] = IF @.after = "nothing" THEN Idle
                                  ELSE [@ EXCEPT !.pc = "after", !.job = NULL]]

FinishJob(w) ==
  /\ worker[w].pc = "finish"
  /\ IF job[Working(w)].state \in Live
     THEN /\ job' = [job EXCEPT ![Working(w)] = [NoJob EXCEPT !.state = worker[w].state]]
          /\ line' = Remove(line, Working(w))
     ELSE UNCHANGED table   \* ErrJobState
  /\ LeaveJob(w)
  /\ UNCHANGED <<item, process, holder, call, mu, follow, faults>>

(* It fails, and is only logged. *)
FinishFails(w) ==
  /\ worker[w].pc = "finish"
  /\ Fault
  /\ LeaveJob(w)
  /\ UNCHANGED <<table, item, process, holder, call, mu, follow>>

ResetFollowUps(w) ==
  /\ worker[w].pc = "after" /\ worker[w].after = "reset" /\ mu = NULL
  /\ notReady' = [notReady EXCEPT ![ItemOf(w)] = 0]
  /\ worker' = [worker EXCEPT ![w] = Idle]
  /\ UNCHANGED <<table, item, process, holder, call, mu, timers, faults>>

FollowUpsLeft(i) == notReady[i] < MaxFollowUps

(* retryNotReady *)
FollowUp(w) ==
  /\ worker[w].pc = "after" /\ worker[w].after = "follow" /\ mu = NULL
  /\ IF FollowUpsLeft(ItemOf(w))
     THEN /\ notReady' = [notReady EXCEPT ![ItemOf(w)] = @ + 1]
          /\ timers' = [timers EXCEPT ![ItemOf(w)] = @ + 1]
     ELSE UNCHANGED follow
  /\ worker' = [worker EXCEPT ![w] = Idle]
  /\ UNCHANGED <<table, item, process, holder, call, mu, faults>>

-----------------------------------------------------------------------------
(* The process *)

Boot ==
  /\ process = "down" /\ process' = "starting"
  /\ UNCHANGED <<table, item, worker, holder, call, mu, follow, faults>>

RunningJobs == {j \in JobIds : job[j].state = "running"}

(* Before any worker of this process runs; the server already serves. *)
RequeueRunningJobs ==
  /\ process = "starting" /\ process' = "working"
  /\ job' = [j \in JobIds |-> IF j \in RunningJobs
                              THEN [job[j] EXCEPT !.state = "queued", !.requeued = TRUE]
                              ELSE job[j]]
  /\ UNCHANGED <<line, item, worker, holder, call, mu, follow, faults>>

RequeueFails ==
  /\ process = "starting" /\ process' = "broken"
  /\ Fault
  /\ UNCHANGED <<table, item, worker, holder, call, mu, follow>>

(* A signal: the workers' context is canceled, and the timers end. *)
Shutdown ==
  /\ process \in {"starting", "working", "broken"} /\ process' = "stopping"
  /\ timers' = [i \in Items |-> 0]
  /\ Fault
  /\ UNCHANGED <<table, item, worker, holder, call, mu, notReady>>

(* What was in memory is gone; Postgres still has what was open. *)
ProcessEnds ==
  /\ process' = "down"
  /\ worker' = [w \in Workers |-> Idle]
  /\ call' = [c \in Callers |-> NoCall] /\ mu' = NULL
  /\ notReady' = [i \in Items |-> 0] /\ timers' = [i \in Items |-> 0]
  /\ UNCHANGED <<table, item, holder>>

(* Every worker has returned; requests outlive the drain at most until now. *)
Exit ==
  /\ process = "stopping" /\ \A w \in Workers : worker[w].pc = "idle"
  /\ ProcessEnds
  /\ UNCHANGED faults

Crash == process # "down" /\ Fault /\ ProcessEnds

-----------------------------------------------------------------------------
(* Around it *)

PlaidGetsReady(i) ==
  /\ ~ready[i] /\ ready' = [ready EXCEPT ![i] = TRUE]
  /\ UNCHANGED <<table, status, synced, process, worker, holder, call, mu, follow, faults>>

(* A webhook, a link or a removal: an UPDATE of the row waits for the sync *)
(* that holds it, and only a link gives a removed item a status again.     *)
ChangeStatus(i) ==
  /\ holder[i] = NULL
  /\ \E new \in IF status[i] = "removed" THEN {"active"} ELSE Statuses \ {status[i]} :
       status' = [status EXCEPT ![i] = new]
  /\ UNCHANGED <<table, ready, synced, process, worker, holder, call, mu, follow, faults>>

(* Postgres notices that the client of a transaction is gone. *)
RollBack(i) ==
  /\ holder[i] # NULL
  /\ ~(worker[holder[i]].pc = "syncing" /\ ItemOf(holder[i]) = i)
  /\ holder' = [holder EXCEPT ![i] = NULL]
  /\ UNCHANGED <<table, item, process, worker, call, mu, follow, faults>>

(* A finished job leaves the model. *)
Forget(j) ==
  /\ job[j].state \in Terminal /\ \A w \in Workers : worker[w].job # j
  /\ job' = [job EXCEPT ![j] = NoJob]
  /\ UNCHANGED <<line, item, process, worker, holder, call, mu, follow, faults>>

EnqueueStep(c) == FindQueuedJob(c) \/ FindNoQueuedJob(c) \/ CreateJob(c) \/ EnqueueFails(c)

WorkerStep(w) ==
  \/ ClaimJob(w) \/ Skip(w) \/ Debounce(w) \/ BeginSync(w) \/ LookUpFails(w)
  \/ TakeItem(w) \/ FindItemLocked(w)
  \/ SyncSucceeds(w) \/ SyncNotReady(w) \/ SyncFails(w) \/ SyncCanceled(w)
  \/ FinishJob(w) \/ FinishFails(w) \/ ResetFollowUps(w) \/ FollowUp(w)

ProcessStep == Boot \/ RequeueRunningJobs \/ RequeueFails \/ Exit

Next ==
  \/ \E c \in Callers : EnqueueStep(c) \/ (\E i \in Items : Request(c, i) \/ TimerFires(c, i))
  \/ \E w \in Workers : WorkerStep(w) \/ ClaimLost(w)
  \/ \E i \in Items : Schedule(i) \/ PlaidGetsReady(i) \/ ChangeStatus(i) \/ RollBack(i)
  \/ \E j \in JobIds : Forget(j)
  \/ ProcessStep \/ Shutdown \/ Crash

Spec == Init /\ [][Next]_vars

-----------------------------------------------------------------------------
(* Fairness: goroutines run, a worker that waits for Runner.mu gets it (a    *)
(* sync.Mutex goes to who has waited longest), statements and calls to Plaid *)
(* end, the ticker comes again, MinInterval passes, and a sync that is tried *)
(* again and again is not failed by Plaid every time.                        *)
Waited(w) == BeginSync(w) \/ ResetFollowUps(w) \/ FollowUp(w)

Fairness ==
  /\ WF_vars(ProcessStep)
  /\ \A w \in Workers : WF_vars(WorkerStep(w))
  /\ \A c \in Callers : WF_vars(EnqueueStep(c))
  /\ WF_vars(\E j \in JobIds : Forget(j))
  /\ \A i \in Items : /\ WF_vars(PlaidGetsReady(i)) /\ WF_vars(RollBack(i)) /\ SF_vars(Schedule(i))
                      /\ SF_vars(\E w \in Workers : ItemOf(w) = i /\ Waited(w))
                      /\ SF_vars(\E w \in Workers : ItemOf(w) = i /\ SyncSucceeds(w))

FairSpec == Spec /\ Fairness

-----------------------------------------------------------------------------
(* Properties *)

Busy(w) == worker[w].pc \in {"lookup", "sync", "syncing", "finish"}

(* The job a worker is at is running and no other worker is at it, so that   *)
(* the outcome written is that of its one sync (ClaimJob's SKIP LOCKED, and  *)
(* RequeueRunningJobs before the first worker).                              *)
WorkersOwnJobs ==
  /\ \A w \in Workers : Busy(w) => /\ job[Working(w)].state = "running"
                                   /\ job[Working(w)].item = ItemOf(w)
  /\ \A v, w \in Workers : Busy(v) /\ Busy(w) /\ v # w => Working(v) # Working(w)

(* Apart from jobs a restart put back, an item has at most one queued job,   *)
(* whoever calls Enqueue at the same time (Runner.mu).                       *)
OneQueuedJobPerItem ==
  \A i \in Items : \A j, k \in QueuedJobs(i) : j = k \/ job[j].requeued \/ job[k].requeued

Orphan(j) == /\ job[j].state = "running" /\ \A w \in Workers : ~(Busy(w) /\ Working(w) = j)

(* A queued job ends.  The exceptions: after a fault it may stay running,    *)
(* with nobody at it until the next start, and a process whose               *)
(* RequeueRunningJobs failed works no job.                                   *)
EveryJobEnds ==
  \A j \in JobIds : job[j].state = "queued"
                      ~> \/ job[j].state \in Terminal
                         \/ faults > 0 /\ Orphan(j)
                         \/ process = "broken"

(* An item that can be synced is synced again and again, although a job may  *)
(* be skipped because the item is locked, debounced together with a webhook  *)
(* it answers, failed or lost, and the timers too: the scheduler comes round *)
(* (ScheduleAll, ListSyncableItems).                                         *)
ItemsKeepSyncing ==
  \A i \in Items : []<>(\/ \E w \in Workers : /\ worker[w].pc = "finish" /\ ItemOf(w) = i
                                              /\ worker[w].after = "reset"
                        \/ status[i] \notin Syncable
                        \/ process = "broken")
=============================================================================
