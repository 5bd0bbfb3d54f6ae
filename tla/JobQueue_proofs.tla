---------------------------- MODULE JobQueue_proofs ----------------------------
(***************************************************************************)
(* Proofs about JobQueue, for any number of items, jobs, workers and       *)
(* callers and any bound on faults: a job is worked by one worker at a     *)
(* time, and an item has one queued job besides those a restart put back.  *)
(*                                                                         *)
(* The first rests on when RequeueRunningJobs can run: no worker is at a   *)
(* job before it is done (WorkersRest).  The second rests on what the call *)
(* inside Runner.mu knows: no queued job of its item, other than requeued  *)
(* ones, can appear while it is there (MutexHeld).                         *)
(***************************************************************************)
EXTENDS JobQueue, TLAPS

USE DEF table, item, follow

Typed ==
  /\ job \in [JobIds -> Job] /\ worker \in [Workers -> Worker]
  /\ process \in Process
  /\ call \in [Callers -> Call] /\ mu \in Callers \cup {NULL}

(* A process that has not requeued the running jobs has no worker. *)
WorkersRest ==
  process \in {"down", "starting", "broken"} => \A w \in Workers : worker[w].pc = "idle"

BusyWithJob == \A w \in Workers : Busy(w) => Working(w) \in JobIds

(* The call that is about to create a job has the mutex, and found none. *)
MutexHeld ==
  \A c \in Callers : call[c].pc = "create" =>
    /\ mu = c
    /\ \A j \in QueuedJobs(call[c].item) : job[j].requeued

IInv == Typed /\ WorkersRest /\ BusyWithJob /\ WorkersOwnJobs /\ MutexHeld /\ OneQueuedJobPerItem

-----------------------------------------------------------------------------
(* What the steps of a worker come to *)

BusyPc == {"lookup", "sync", "syncing", "finish"}

(* w goes on in process(), at the same job or at none. *)
GoesOn(w) ==
  /\ worker[w].pc # "idle"
  /\ \E r \in Worker :
       /\ worker' = [worker EXCEPT ![w] = r]
       /\ r.pc \in BusyPc => Busy(w) /\ r.job = Working(w) /\ r.item = ItemOf(w)

(* It goes on without touching the queue. *)
Proceeds(w) ==
  \/ Skip(w) \/ Debounce(w) \/ BeginSync(w) \/ LookUpFails(w) \/ TakeItem(w)
  \/ FindItemLocked(w) \/ SyncSucceeds(w) \/ SyncNotReady(w) \/ SyncFails(w)
  \/ SyncCanceled(w) \/ FinishFails(w) \/ ResetFollowUps(w) \/ FollowUp(w)

LEMMA IdleTyped == Idle \in Worker
BY DEF Idle, Worker

LEMMA ToFinishTyped ==
  ASSUME Typed, NEW w \in Workers, Busy(w), NEW state \in Terminal,
         NEW after \in {"nothing", "reset", "follow"}, ToFinish(w, state, after)
  PROVE  GoesOn(w)
<1> DEFINE r == [pc |-> "finish", job |-> Working(w), item |-> ItemOf(w),
                 state |-> state, after |-> after]
<1>1. worker[w] \in Worker
  BY DEF Typed
<1>2. r \in Worker
  BY <1>1 DEF Worker, Working, ItemOf
<1>3. worker' = [worker EXCEPT ![w] = r]
  BY DEF ToFinish
<1> QED
  BY <1>2, <1>3 DEF GoesOn, Busy, Working, ItemOf

LEMMA StepsGoOn ==
  ASSUME Typed, NEW w \in Workers, Proceeds(w)
  PROVE  GoesOn(w) /\ UNCHANGED <<job, process, call, mu>>
<1>0. worker[w] \in Worker /\ {"skipped", "failed", "succeeded"} \subseteq Terminal
  BY DEF Typed, Terminal
<1>1. CASE Skip(w)
  BY <1>0, <1>1, ToFinishTyped DEF Skip, Busy
<1>2. CASE Debounce(w)
  BY <1>0, <1>2, ToFinishTyped DEF Debounce, Busy
<1>3. CASE BeginSync(w)
  <2>1. [worker[w] EXCEPT !.pc = "sync"] \in Worker
    BY <1>0 DEF Worker
  <2>2. worker' = [worker EXCEPT ![w] = [worker[w] EXCEPT !.pc = "sync"]]
    BY <1>3 DEF BeginSync, Typed
  <2>3. [worker[w] EXCEPT !.pc = "sync"].job = Working(w)
        /\ [worker[w] EXCEPT !.pc = "sync"].item = ItemOf(w)
    BY <1>0 DEF Worker, Working, ItemOf
  <2> QED
    BY <1>3, <2>1, <2>2, <2>3 DEF BeginSync, GoesOn, Busy
<1>4. CASE LookUpFails(w)
  BY <1>0, <1>4, ToFinishTyped DEF LookUpFails, Busy
<1>5. CASE TakeItem(w)
  <2>1. CASE status[ItemOf(w)] \in Syncable
    <3>1. [worker[w] EXCEPT !.pc = "syncing"] \in Worker
      BY <1>0 DEF Worker
    <3>2. worker' = [worker EXCEPT ![w] = [worker[w] EXCEPT !.pc = "syncing"]]
      BY <1>5, <2>1 DEF TakeItem, Typed
    <3>3. [worker[w] EXCEPT !.pc = "syncing"].job = Working(w)
          /\ [worker[w] EXCEPT !.pc = "syncing"].item = ItemOf(w)
      BY <1>0 DEF Worker, Working, ItemOf
    <3> QED
      BY <1>5, <3>1, <3>2, <3>3 DEF TakeItem, GoesOn, Busy
  <2>2. CASE status[ItemOf(w)] \notin Syncable
    BY <1>0, <1>5, <2>2, ToFinishTyped DEF TakeItem, Busy
  <2> QED
    BY <2>1, <2>2
<1>6. CASE FindItemLocked(w)
  BY <1>0, <1>6, ToFinishTyped DEF FindItemLocked, Busy
<1>7. CASE SyncSucceeds(w)
  BY <1>0, <1>7, ToFinishTyped DEF SyncSucceeds, Busy
<1>8. CASE SyncNotReady(w)
  BY <1>0, <1>8, ToFinishTyped DEF SyncNotReady, Busy
<1>9. CASE SyncFails(w)
  BY <1>0, <1>9, ToFinishTyped DEF SyncFails, Busy
<1>10. CASE SyncCanceled(w)
  BY <1>10, IdleTyped DEF SyncCanceled, GoesOn, Idle, BusyPc
<1>11. CASE FinishFails(w)
  <2> DEFINE r == IF worker[w].after = "nothing" THEN Idle
                  ELSE [worker[w] EXCEPT !.pc = "after", !.job = NULL]
  <2>1. r \in Worker /\ r.pc \notin BusyPc
    BY <1>0, IdleTyped DEF Worker, Idle, BusyPc
  <2>2. worker' = [worker EXCEPT ![w] = r]
    BY <1>11 DEF FinishFails, LeaveJob, Typed
  <2> QED
    BY <1>11, <2>1, <2>2 DEF FinishFails, GoesOn
<1>12. CASE ResetFollowUps(w)
  BY <1>12, IdleTyped DEF ResetFollowUps, GoesOn, Idle, BusyPc
<1>13. CASE FollowUp(w)
  BY <1>13, IdleTyped DEF FollowUp, GoesOn, Idle, BusyPc
<1> QED
  BY <1>1, <1>2, <1>3, <1>4, <1>5, <1>6, <1>7, <1>8, <1>9, <1>10, <1>11, <1>12, <1>13
     DEF Proceeds

-----------------------------------------------------------------------------
(* Each kind of step keeps IInv *)

LEMMA NullIsNone == NULL \notin JobIds /\ NULL \notin Callers
BY JobQueueAssumption

LEMMA WorkerGoesOn ==
  ASSUME IInv, NEW w \in Workers, GoesOn(w), UNCHANGED <<job, process, call, mu>>
  PROVE  IInv'
<1>1. PICK r \in Worker :
        /\ worker' = [worker EXCEPT ![w] = r]
        /\ r.pc \in BusyPc => Busy(w) /\ r.job = Working(w) /\ r.item = ItemOf(w)
  BY DEF GoesOn
<1>2. worker[w].pc # "idle" /\ worker \in [Workers -> Worker]
  BY DEF GoesOn, IInv, Typed
<1>3. \A v \in Workers : /\ v # w => worker'[v] = worker[v]
                         /\ worker'[w] = r
  BY <1>1, <1>2
<1>4. Typed'
  BY <1>1, <1>2 DEF IInv, Typed
<1>5. WorkersRest'
  BY <1>2, <1>3 DEF IInv, WorkersRest
<1>6. \A v \in Workers : Busy(v)' => Busy(v) /\ Working(v)' = Working(v) /\ ItemOf(v)' = ItemOf(v)
  BY <1>1, <1>3 DEF Busy, Working, ItemOf, BusyPc
<1>7. BusyWithJob'
  BY <1>6 DEF IInv, BusyWithJob
<1>8. WorkersOwnJobs'
  BY <1>6 DEF IInv, WorkersOwnJobs
<1>9. MutexHeld' /\ OneQueuedJobPerItem'
  BY DEF IInv, MutexHeld, OneQueuedJobPerItem, QueuedJobs
<1> QED
  BY <1>4, <1>5, <1>7, <1>8, <1>9 DEF IInv

(* A job that was queued is running: nobody was at it. *)
LEMMA Started ==
  ASSUME IInv, NEW j \in JobIds, job[j].state = "queued", Start(j)
  PROVE  /\ job' \in [JobIds -> Job]
         /\ job'[j].state = "running" /\ job'[j].item = job[j].item
         /\ \A k \in JobIds : k # j => job'[k] = job[k]
         /\ \A v \in Workers : Busy(v) => Working(v) # j
         /\ \A i \in Items : /\ QueuedJobs(i)' \subseteq QueuedJobs(i)
                             /\ \A k \in QueuedJobs(i)' : job'[k] = job[k]
<1>1. job \in [JobIds -> Job]
  BY DEF IInv, Typed
<1>2. [job[j] EXCEPT !.state = "running"] \in Job
      /\ [job[j] EXCEPT !.state = "running"].state = "running"
      /\ [job[j] EXCEPT !.state = "running"].item = job[j].item
  BY <1>1 DEF Job, Live
<1>3. job' = [job EXCEPT ![j] = [job[j] EXCEPT !.state = "running"]]
  BY <1>1 DEF Start
<1>4. \A k \in JobIds : k # j => job'[k] = job[k]
  BY <1>1, <1>3
<1>5. job'[j].state = "running" /\ job'[j].item = job[j].item /\ job' \in [JobIds -> Job]
  BY <1>1, <1>2, <1>3
<1>6. \A v \in Workers : Busy(v) => Working(v) # j
  BY DEF IInv, WorkersOwnJobs
<1>7. ASSUME NEW i \in Items, NEW k \in QueuedJobs(i)'
      PROVE  k \in QueuedJobs(i) /\ job'[k] = job[k]
  BY <1>4, <1>5 DEF QueuedJobs
<1> QED
  BY <1>4, <1>5, <1>6, <1>7

LEMMA JobClaimed ==
  ASSUME IInv, NEW w \in Workers, ClaimJob(w)
  PROVE  IInv'
<1>1. PICK j \in JobIds :
        /\ job[j].state = "queued" /\ Start(j)
        /\ worker' = [worker EXCEPT ![w] = [pc |-> "lookup", job |-> j, item |-> job[j].item,
                                           state |-> "none", after |-> "nothing"]]
  BY DEF ClaimJob, Claimable
<1> DEFINE r == [pc |-> "lookup", job |-> j, item |-> job[j].item,
                  state |-> "none", after |-> "nothing"]
<1>2. /\ job \in [JobIds -> Job] /\ worker \in [Workers -> Worker]
      /\ process = "working" /\ UNCHANGED <<process, call, mu>>
  BY DEF ClaimJob, IInv, Typed
<1>3. r \in Worker /\ r.pc = "lookup" /\ r.job = j /\ r.item = job[j].item
  <2>1. job[j].item \in Items \cup {NULL}
    BY <1>2 DEF Job
  <2> QED
    BY <2>1 DEF Worker
<1>4. worker' \in [Workers -> Worker] /\ worker'[w] = r
      /\ \A v \in Workers : v # w => worker'[v] = worker[v]
  BY <1>1, <1>2, <1>3
<1>5. /\ job' \in [JobIds -> Job]
      /\ job'[j].state = "running" /\ job'[j].item = job[j].item
      /\ \A k \in JobIds : k # j => job'[k] = job[k]
      /\ \A v \in Workers : Busy(v) => Working(v) # j
      /\ \A i \in Items : /\ QueuedJobs(i)' \subseteq QueuedJobs(i)
                          /\ \A k \in QueuedJobs(i)' : job'[k] = job[k]
  BY <1>1, Started
<1>6. Typed' /\ WorkersRest'
  BY <1>2, <1>4, <1>5 DEF IInv, Typed, WorkersRest
<1>7. \A v \in Workers : Busy(v)' => \/ v = w /\ Working(v)' = j /\ ItemOf(v)' = job[j].item
                                     \/ /\ v # w /\ Busy(v) /\ Working(v)' = Working(v)
                                        /\ ItemOf(v)' = ItemOf(v)
  BY <1>3, <1>4 DEF Busy, Working, ItemOf
<1>8. BusyWithJob'
  BY <1>7 DEF IInv, BusyWithJob
<1>9. WorkersOwnJobs'
  BY <1>5, <1>7 DEF IInv, BusyWithJob, WorkersOwnJobs
<1>10. MutexHeld'
  <2> SUFFICES ASSUME NEW c \in Callers, call[c].pc = "create"
               PROVE  mu = c /\ \A k \in QueuedJobs(call[c].item)' : job'[k].requeued
    BY <1>2 DEF MutexHeld, QueuedJobs
  <2>1. mu = c /\ \A k \in QueuedJobs(call[c].item) : job[k].requeued
    BY DEF IInv, MutexHeld
  <2>2. \A k \in QueuedJobs(call[c].item)' : k \in QueuedJobs(call[c].item) /\ job'[k] = job[k]
    BY <1>2, <1>5 DEF QueuedJobs
  <2> QED
    BY <2>1, <2>2
<1>11. OneQueuedJobPerItem'
  BY <1>5 DEF IInv, OneQueuedJobPerItem
<1> QED
  BY <1>6, <1>8, <1>9, <1>10, <1>11 DEF IInv

LEMMA ClaimAnswerLost ==
  ASSUME IInv, NEW w \in Workers, ClaimLost(w)
  PROVE  IInv'
<1>1. PICK j \in JobIds : job[j].state = "queued" /\ Start(j)
  BY DEF ClaimLost, Claimable
<1>2. UNCHANGED <<process, worker, call, mu>>
  BY DEF ClaimLost
<1>3. /\ job' \in [JobIds -> Job]
      /\ \A k \in JobIds : k # j => job'[k] = job[k]
      /\ \A v \in Workers : Busy(v) => Working(v) # j
      /\ \A i \in Items : /\ QueuedJobs(i)' \subseteq QueuedJobs(i)
                          /\ \A k \in QueuedJobs(i)' : job'[k] = job[k]
  BY <1>1, Started
<1>4. Typed' /\ WorkersRest' /\ BusyWithJob'
  BY <1>2, <1>3 DEF IInv, Typed, WorkersRest, BusyWithJob, Busy, Working
<1>5. WorkersOwnJobs'
  BY <1>2, <1>3 DEF IInv, BusyWithJob, WorkersOwnJobs, Busy, Working, ItemOf
<1>6. MutexHeld'
  <2> SUFFICES ASSUME NEW c \in Callers, call[c].pc = "create"
               PROVE  mu = c /\ \A k \in QueuedJobs(call[c].item)' : job'[k].requeued
    BY <1>2 DEF MutexHeld, QueuedJobs
  <2>1. mu = c /\ \A k \in QueuedJobs(call[c].item) : job[k].requeued
    BY DEF IInv, MutexHeld
  <2>2. \A k \in QueuedJobs(call[c].item)' : k \in QueuedJobs(call[c].item) /\ job'[k] = job[k]
    <3>1. job'[j].state = "running"
      BY <1>1, Started
    <3> QED
      BY <1>2, <1>3, <3>1 DEF QueuedJobs
  <2> QED
    BY <2>1, <2>2
<1>7. OneQueuedJobPerItem'
  BY <1>3 DEF IInv, OneQueuedJobPerItem
<1> QED
  BY <1>4, <1>5, <1>6, <1>7 DEF IInv

(* Of the jobs, only its own changes, and that one is not queued after it. *)
LEMMA JobFinished ==
  ASSUME IInv, NEW w \in Workers, FinishJob(w)
  PROVE  IInv'
<1> DEFINE r == IF worker[w].after = "nothing" THEN Idle
                ELSE [worker[w] EXCEPT !.pc = "after", !.job = NULL]
           j == Working(w)
<1>1. /\ job \in [JobIds -> Job] /\ worker \in [Workers -> Worker] /\ worker[w] \in Worker
      /\ worker[w].pc = "finish" /\ UNCHANGED <<process, call, mu>>
  BY DEF FinishJob, LeaveJob, IInv, Typed
<1>2. r \in Worker /\ r.pc \notin BusyPc
  BY <1>1, IdleTyped DEF Worker, Idle, BusyPc
<1>3. worker' = [worker EXCEPT ![w] = r]
  BY <1>1 DEF FinishJob, LeaveJob
<1>4. j \in JobIds /\ job[j].state = "running"
  BY <1>1 DEF IInv, BusyWithJob, WorkersOwnJobs, Busy
<1>5. job' = [job EXCEPT ![j] = [NoJob EXCEPT !.state = worker[w].state]]
  BY <1>1, <1>4 DEF FinishJob, LeaveJob, Live
<1>6. worker[w].state \in Terminal \cup {"none"}
  BY <1>1, <1>4 DEF Worker
<1>7. [NoJob EXCEPT !.state = worker[w].state] \in Job
      /\ [NoJob EXCEPT !.state = worker[w].state].state # "queued"
  BY <1>6, JobQueueAssumption DEF NoJob, Job, Terminal
<1>8. /\ job' \in [JobIds -> Job] /\ job'[j].state # "queued"
      /\ \A k \in JobIds : k # j => job'[k] = job[k]
  BY <1>1, <1>4, <1>5, <1>7
<1>9. \A v \in Workers : Busy(v)' => /\ v # w /\ Busy(v) /\ Working(v)' = Working(v)
                                     /\ ItemOf(v)' = ItemOf(v)
  BY <1>1, <1>2, <1>3 DEF Busy, Working, ItemOf, BusyPc
<1>10. \A v \in Workers : v # w /\ Busy(v) => Working(v) # j
  BY <1>1 DEF IInv, WorkersOwnJobs, Busy
<1>11. Typed' /\ WorkersRest'
  BY <1>1, <1>2, <1>3, <1>8 DEF IInv, Typed, WorkersRest
<1>12. BusyWithJob' /\ WorkersOwnJobs'
  BY <1>8, <1>9, <1>10 DEF IInv, BusyWithJob, WorkersOwnJobs
<1>13. \A i \in Items : \A k \in QueuedJobs(i)' : k \in QueuedJobs(i) /\ job'[k] = job[k]
  BY <1>8 DEF QueuedJobs
<1>14. MutexHeld'
  <2> SUFFICES ASSUME NEW c \in Callers, call[c].pc = "create"
               PROVE  mu = c /\ \A k \in QueuedJobs(call[c].item)' : job'[k].requeued
    BY <1>1 DEF MutexHeld, QueuedJobs
  <2>1. mu = c /\ \A k \in QueuedJobs(call[c].item) : job[k].requeued
    BY DEF IInv, MutexHeld
  <2>2. \A k \in QueuedJobs(call[c].item)' : k \in QueuedJobs(call[c].item) /\ job'[k] = job[k]
    BY <1>1, <1>8 DEF QueuedJobs
  <2> QED
    BY <2>1, <2>2
<1>15. OneQueuedJobPerItem'
  BY <1>13 DEF IInv, OneQueuedJobPerItem
<1> QED
  BY <1>11, <1>12, <1>14, <1>15 DEF IInv

(* Enqueue *)

LEMMA Called ==
  ASSUME IInv, NEW c \in Callers, NEW i \in Items, NEW kind \in Kinds, GetItem(c, i, kind),
         UNCHANGED <<job, process, worker, mu>>
  PROVE  IInv'
<1> DEFINE r == [pc |-> "lock", item |-> i, kind |-> kind]
<1>1. call \in [Callers -> Call] /\ r \in Call /\ call' = [call EXCEPT ![c] = r]
  BY DEF GetItem, IInv, Typed, Call
<1>2. /\ call' \in [Callers -> Call]
      /\ \A d \in Callers : call'[d].pc = "create" => d # c /\ call'[d] = call[d]
  BY <1>1
<1>3. Typed' /\ WorkersRest' /\ BusyWithJob'
  BY <1>2 DEF IInv, Typed, WorkersRest, BusyWithJob, Busy, Working
<1>4. WorkersOwnJobs' /\ OneQueuedJobPerItem'
  BY DEF IInv, WorkersOwnJobs, OneQueuedJobPerItem, QueuedJobs, Busy, Working, ItemOf
<1>5. MutexHeld'
  BY <1>2 DEF IInv, MutexHeld, QueuedJobs
<1> QED
  BY <1>3, <1>4, <1>5 DEF IInv

(* Who leaves the mutex was the one inside it. *)
LEMMA Returns ==
  ASSUME IInv, NEW c \in Callers, call' = [call EXCEPT ![c] = NoCall],
         mu' = mu \/ (mu = c /\ mu' = NULL), UNCHANGED <<job, process, worker>>
  PROVE  IInv'
<1>1. /\ call' \in [Callers -> Call] /\ mu' \in Callers \cup {NULL}
      /\ \A d \in Callers : call'[d].pc = "create" => d # c /\ call'[d] = call[d]
  <2>1. NoCall \in Call /\ NoCall.pc = "idle"
    BY JobQueueAssumption DEF NoCall, Call
  <2> QED
    BY <2>1 DEF IInv, Typed
<1>2. Typed' /\ WorkersRest' /\ BusyWithJob'
  BY <1>1 DEF IInv, Typed, WorkersRest, BusyWithJob, Busy, Working
<1>3. WorkersOwnJobs' /\ OneQueuedJobPerItem'
  BY DEF IInv, WorkersOwnJobs, OneQueuedJobPerItem, QueuedJobs, Busy, Working, ItemOf
<1>4. MutexHeld'
  BY <1>1 DEF IInv, MutexHeld, QueuedJobs
<1> QED
  BY <1>2, <1>3, <1>4 DEF IInv

LEMMA NoneFound ==
  ASSUME IInv, NEW c \in Callers, FindNoQueuedJob(c)
  PROVE  IInv'
<1>1. /\ call \in [Callers -> Call] /\ call[c] \in Call /\ mu = NULL /\ mu' = c
      /\ call' = [call EXCEPT ![c] = [call[c] EXCEPT !.pc = "create"]]
      /\ QueuedJobs(call[c].item) = {} /\ UNCHANGED <<job, process, worker>>
  BY DEF FindNoQueuedJob, MutexFree, IInv, Typed
<1>2. [call[c] EXCEPT !.pc = "create"] \in Call
      /\ [call[c] EXCEPT !.pc = "create"].item = call[c].item
  BY <1>1 DEF Call
<1>3. /\ call' \in [Callers -> Call] /\ call'[c].item = call[c].item
      /\ \A d \in Callers : d # c => call'[d] = call[d]
  BY <1>1, <1>2
<1>4. Typed' /\ WorkersRest' /\ BusyWithJob'
  BY <1>1, <1>3 DEF IInv, Typed, WorkersRest, BusyWithJob, Busy, Working
<1>5. WorkersOwnJobs' /\ OneQueuedJobPerItem'
  BY <1>1 DEF IInv, WorkersOwnJobs, OneQueuedJobPerItem, QueuedJobs, Busy, Working, ItemOf
<1>6. \A d \in Callers : call'[d].pc = "create" => d = c
  BY <1>1, <1>3, NullIsNone DEF IInv, MutexHeld
<1>7. MutexHeld'
  BY <1>1, <1>3, <1>6 DEF MutexHeld, QueuedJobs
<1> QED
  BY <1>4, <1>5, <1>7 DEF IInv

(* The mutex is what makes the new job the only one. *)
LEMMA JobCreated ==
  ASSUME IInv, NEW c \in Callers, CreateJob(c)
  PROVE  IInv'
<1> DEFINE i == call[c].item
           new == [item |-> i, kind |-> call[c].kind, state |-> "queued", requeued |-> FALSE]
<1>1. /\ job \in [JobIds -> Job] /\ call \in [Callers -> Call] /\ call[c] \in Call
      /\ call[c].pc = "create" /\ call' = [call EXCEPT ![c] = NoCall] /\ mu' = NULL
      /\ UNCHANGED <<process, worker>>
  BY DEF CreateJob, IInv, Typed
<1>2. PICK j \in JobIds : job[j].state = "none" /\ job' = [job EXCEPT ![j] = new]
  BY DEF CreateJob
<1>3. new \in Job
  BY <1>1 DEF Call, Job, Live
<1>4. /\ job' \in [JobIds -> Job] /\ job'[j] = new
      /\ \A k \in JobIds : k # j => job'[k] = job[k]
  BY <1>1, <1>2, <1>3
<1>5. mu = c /\ \A k \in QueuedJobs(i) : job[k].requeued
  BY <1>1 DEF IInv, MutexHeld
<1>6. /\ call' \in [Callers -> Call]
      /\ \A d \in Callers : call'[d].pc # "create"
  <2>1. NoCall \in Call /\ NoCall.pc = "idle"
    BY JobQueueAssumption DEF NoCall, Call
  <2>2. \A d \in Callers : d # c => call[d].pc # "create"
    BY <1>5 DEF IInv, MutexHeld
  <2> QED
    BY <1>1, <2>1, <2>2
<1>7. Typed' /\ WorkersRest' /\ BusyWithJob'
  BY <1>1, <1>4, <1>6 DEF IInv, Typed, WorkersRest, BusyWithJob, Busy, Working
<1>8. \A v \in Workers : Busy(v) => Working(v) # j
  BY <1>2 DEF IInv, WorkersOwnJobs
<1>9. WorkersOwnJobs'
  BY <1>1, <1>4, <1>8 DEF IInv, BusyWithJob, WorkersOwnJobs, Busy, Working, ItemOf
<1>10. MutexHeld'
  BY <1>6 DEF MutexHeld
<1>11. OneQueuedJobPerItem'
  <2> SUFFICES ASSUME NEW h \in Items, NEW k \in QueuedJobs(h)', NEW l \in QueuedJobs(h)'
               PROVE  k = l \/ job'[k].requeued \/ job'[l].requeued
    BY DEF OneQueuedJobPerItem
  <2>1. CASE k # j /\ l # j
    BY <1>4, <2>1 DEF QueuedJobs, IInv, OneQueuedJobPerItem
  <2>2. CASE k = j /\ l # j
    BY <1>4, <1>5, <2>2 DEF QueuedJobs
  <2>3. CASE k # j /\ l = j
    BY <1>4, <1>5, <2>3 DEF QueuedJobs
  <2> QED
    BY <2>1, <2>2, <2>3
<1> QED
  BY <1>7, <1>9, <1>10, <1>11 DEF IInv

LEMMA CallSteps ==
  ASSUME IInv, NEW c \in Callers, NEW i \in Items,
         EnqueueStep(c) \/ Request(c, i) \/ TimerFires(c, i) \/ Schedule(i)
  PROVE  IInv'
<1>1. CASE FindQueuedJob(c)
  BY <1>1, Returns DEF FindQueuedJob
<1>2. CASE FindNoQueuedJob(c)
  BY <1>2, NoneFound
<1>3. CASE CreateJob(c)
  BY <1>3, JobCreated
<1>4. CASE EnqueueFails(c)
  BY <1>4, Returns DEF EnqueueFails
<1>5. CASE Request(c, i)
  BY <1>5, Called DEF Request
<1>6. CASE Schedule(i)
  BY <1>6, Called, JobQueueAssumption DEF Schedule
<1>7. CASE TimerFires(c, i)
  <2>1. CASE GetItem(c, i, "automatic")
    BY <1>7, <2>1, Called, JobQueueAssumption DEF TimerFires
  <2>2. CASE UNCHANGED call
    BY <1>7, <2>2 DEF TimerFires, IInv, Typed, WorkersRest, BusyWithJob, WorkersOwnJobs, MutexHeld,
                      OneQueuedJobPerItem, QueuedJobs, Busy, Working, ItemOf
  <2> QED
    BY <1>7, <2>1, <2>2 DEF TimerFires
<1> QED
  BY <1>1, <1>2, <1>3, <1>4, <1>5, <1>6, <1>7 DEF EnqueueStep

-----------------------------------------------------------------------------
(* The process *)

(* No worker is at a job that is put back. *)
LEMMA Requeued ==
  ASSUME IInv, RequeueRunningJobs
  PROVE  IInv'
<1>1. /\ job \in [JobIds -> Job] /\ process' \in Process
      /\ UNCHANGED <<worker, call, mu>>
      /\ \A w \in Workers : ~Busy(w)
  BY DEF RequeueRunningJobs, IInv, Typed, WorkersRest, Process, Busy
<1>2. \A j \in JobIds : \/ job'[j] = job[j]
                        \/ job'[j] \in Job /\ job'[j].state = "queued" /\ job'[j].requeued
  <2> SUFFICES ASSUME NEW j \in JobIds, job[j].state = "running"
               PROVE  job'[j] \in Job /\ job'[j].state = "queued" /\ job'[j].requeued
    BY DEF RequeueRunningJobs, RunningJobs
  <2>1. job'[j] = [job[j] EXCEPT !.state = "queued", !.requeued = TRUE]
    BY DEF RequeueRunningJobs, RunningJobs
  <2>2. job[j] \in Job
    BY <1>1
  <2> QED
    BY <2>1, <2>2 DEF Job, Live
<1>3. Typed'
  BY <1>1, <1>2 DEF IInv, Typed, RequeueRunningJobs
<1>4. WorkersRest' /\ BusyWithJob' /\ WorkersOwnJobs'
  BY <1>1 DEF RequeueRunningJobs, WorkersRest, BusyWithJob, WorkersOwnJobs, Busy
<1>5. MutexHeld'
  BY <1>1, <1>2 DEF IInv, MutexHeld, QueuedJobs
<1>6. OneQueuedJobPerItem'
  BY <1>2 DEF IInv, OneQueuedJobPerItem, QueuedJobs
<1> QED
  BY <1>3, <1>4, <1>5, <1>6 DEF IInv

LEMMA ProcessSteps ==
  ASSUME IInv, ProcessStep \/ Shutdown \/ Crash
  PROVE  IInv'
<1>1. CASE RequeueRunningJobs
  BY <1>1, Requeued
<1>2. CASE Boot \/ RequeueFails \/ Shutdown
  <2>1. /\ UNCHANGED <<job, worker, call, mu>>
        /\ process' \in {"starting", "broken", "stopping"}
        /\ process' # "stopping" => process \in {"down", "starting"}
    BY <1>2 DEF Boot, RequeueFails, Shutdown
  <2>2. Typed' /\ WorkersRest'
    BY <2>1 DEF IInv, Typed, WorkersRest, Process
  <2> QED
    BY <2>1, <2>2 DEF IInv, BusyWithJob, WorkersOwnJobs, MutexHeld, OneQueuedJobPerItem,
                      QueuedJobs, Busy, Working, ItemOf
<1>3. CASE ProcessEnds
  <2>1. NoCall \in Call /\ NoCall.pc = "idle" /\ Idle.pc = "idle"
    BY JobQueueAssumption DEF NoCall, Call, Idle
  <2>2. Typed'
    BY <1>3, <2>1, IdleTyped DEF ProcessEnds, IInv, Typed, Process
  <2>3. \A w \in Workers : worker'[w].pc = "idle"
    BY <1>3, <2>1 DEF ProcessEnds
  <2>4. WorkersRest' /\ BusyWithJob' /\ WorkersOwnJobs'
    BY <2>3 DEF WorkersRest, BusyWithJob, WorkersOwnJobs, Busy
  <2>5. MutexHeld'
    BY <1>3, <2>1 DEF ProcessEnds, MutexHeld
  <2>6. OneQueuedJobPerItem'
    BY <1>3 DEF ProcessEnds, IInv, OneQueuedJobPerItem, QueuedJobs
  <2> QED
    BY <2>2, <2>4, <2>5, <2>6 DEF IInv
<1> QED
  BY <1>1, <1>2, <1>3 DEF ProcessStep, Exit, Crash

(* A job that is forgotten had ended. *)
LEMMA Forgotten ==
  ASSUME IInv, NEW j \in JobIds, Forget(j)
  PROVE  IInv'
<1>1. /\ job \in [JobIds -> Job] /\ job' = [job EXCEPT ![j] = NoJob]
      /\ job[j].state \in Terminal /\ UNCHANGED <<process, worker, call, mu>>
  BY DEF Forget, IInv, Typed
<1>2. NoJob \in Job /\ NoJob.state = "none"
  BY JobQueueAssumption DEF NoJob, Job
<1>3. /\ job' \in [JobIds -> Job] /\ job'[j].state # "queued"
      /\ \A k \in JobIds : k # j => job'[k] = job[k]
  BY <1>1, <1>2
<1>4. \A v \in Workers : Busy(v) => Working(v) # j
  BY <1>1 DEF IInv, WorkersOwnJobs, Terminal
<1>5. Typed' /\ WorkersRest' /\ BusyWithJob'
  BY <1>1, <1>3 DEF IInv, Typed, WorkersRest, BusyWithJob, Busy, Working
<1>6. WorkersOwnJobs'
  BY <1>1, <1>3, <1>4 DEF IInv, BusyWithJob, WorkersOwnJobs, Busy, Working, ItemOf
<1>7. MutexHeld'
  BY <1>1, <1>3 DEF IInv, MutexHeld, QueuedJobs
<1>8. OneQueuedJobPerItem'
  BY <1>3 DEF IInv, OneQueuedJobPerItem, QueuedJobs
<1> QED
  BY <1>5, <1>6, <1>7, <1>8 DEF IInv

-----------------------------------------------------------------------------
(* The theorems *)

LEMMA InitKeeps == Init => IInv
<1> SUFFICES ASSUME Init
             PROVE  IInv
  OBVIOUS
<1>1. /\ NoJob \in Job /\ NoJob.state = "none" /\ NoCall \in Call /\ NoCall.pc = "idle"
      /\ Idle.pc = "idle"
  BY JobQueueAssumption DEF NoJob, Job, NoCall, Call, Idle
<1>2. Typed
  BY <1>1, IdleTyped DEF Init, Typed, Process
<1>3. /\ \A w \in Workers : worker[w].pc = "idle"
      /\ \A j \in JobIds : job[j].state = "none"
      /\ \A c \in Callers : call[c].pc = "idle"
  BY <1>1 DEF Init
<1> QED
  BY <1>2, <1>3 DEF IInv, WorkersRest, BusyWithJob, WorkersOwnJobs, MutexHeld,
                    OneQueuedJobPerItem, QueuedJobs, Busy

LEMMA StepKeeps == IInv /\ [Next]_vars => IInv'
<1> SUFFICES ASSUME IInv, [Next]_vars
             PROVE  IInv'
  OBVIOUS
<1>1. ASSUME NEW w \in Workers, WorkerStep(w) \/ ClaimLost(w)
      PROVE  IInv'
  <2>1. CASE ClaimJob(w)
    BY <2>1, JobClaimed
  <2>2. CASE FinishJob(w)
    BY <2>2, JobFinished
  <2>3. CASE ClaimLost(w)
    BY <2>3, ClaimAnswerLost
  <2>4. CASE Proceeds(w)
    <3>1. GoesOn(w) /\ UNCHANGED <<job, process, call, mu>>
      BY <2>4, StepsGoOn DEF IInv
    <3> QED
      BY <3>1, WorkerGoesOn
  <2> QED
    BY <1>1, <2>1, <2>2, <2>3, <2>4 DEF WorkerStep, Proceeds
<1>2. ASSUME NEW c \in Callers, EnqueueStep(c)
      PROVE  IInv'
  BY <1>2, Returns, NoneFound, JobCreated DEF EnqueueStep, FindQueuedJob, EnqueueFails
<1>3. ASSUME NEW c \in Callers, NEW i \in Items, Request(c, i) \/ TimerFires(c, i)
      PROVE  IInv'
  BY <1>3, CallSteps
<1>4. ASSUME NEW i \in Items,
             Schedule(i) \/ PlaidGetsReady(i) \/ ChangeStatus(i) \/ RollBack(i)
      PROVE  IInv'
  <2>1. CASE Schedule(i)
    BY <2>1, CallSteps, JobQueueAssumption
  <2>2. CASE PlaidGetsReady(i) \/ ChangeStatus(i) \/ RollBack(i)
    BY <2>2 DEF PlaidGetsReady, ChangeStatus, RollBack, IInv, Typed, WorkersRest, BusyWithJob,
                WorkersOwnJobs, MutexHeld, OneQueuedJobPerItem, QueuedJobs, Busy, Working, ItemOf
  <2> QED
    BY <1>4, <2>1, <2>2
<1>5. ASSUME NEW j \in JobIds, Forget(j)
      PROVE  IInv'
  BY <1>5, Forgotten
<1>6. CASE ProcessStep \/ Shutdown \/ Crash
  BY <1>6, ProcessSteps
<1>7. CASE UNCHANGED vars
  BY <1>7 DEF vars, IInv, Typed, WorkersRest, BusyWithJob, WorkersOwnJobs, MutexHeld,
              OneQueuedJobPerItem, QueuedJobs, Busy, Working, ItemOf
<1> QED
  BY <1>1, <1>2, <1>3, <1>4, <1>5, <1>6, <1>7 DEF Next

LEMMA IInvHolds == Spec => []IInv
BY InitKeeps, StepKeeps, PTL DEF Spec

(* A job that a worker is at is running, is of the item the worker syncs,    *)
(* and is nobody else's: claims of concurrent workers, claims whose answer   *)
(* is lost, jobs put back by a restart and finished jobs included            *)
(* (ClaimJob and RequeueRunningJobs in queue.go, process in runner.go).      *)
THEOREM JobsAreOwned == Spec => []WorkersOwnJobs
<1>1. IInv => WorkersOwnJobs
  BY DEF IInv
<1> QED
  BY <1>1, IInvHolds, PTL

(* However many handlers, webhooks, timers and scheduler rounds call Enqueue *)
(* at the same time, an item has at most one queued job that no restart put  *)
(* back (Runner.mu around the check and the insert, runner.go).              *)
THEOREM OneJobIsQueued == Spec => []OneQueuedJobPerItem
<1>1. IInv => OneQueuedJobPerItem
  BY DEF IInv
<1> QED
  BY <1>1, IInvHolds, PTL
=============================================================================
