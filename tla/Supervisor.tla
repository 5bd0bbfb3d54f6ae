------------------------------ MODULE Supervisor ------------------------------
(***************************************************************************)
(* The desktop app's local stack (desktop/src/main): the supervisor's      *)
(* queue of start, stop and restart, the processes it spawns and waits     *)
(* for, which may exit at any time, requests of the renderer, quitting,    *)
(* and the app being killed and launched again.                            *)
(*                                                                         *)
(* A step runs up to the next await.  Postgres is embedded-postgres, of    *)
(* which this code uses that start() returns when the server is up or      *)
(* fails when it has exited, that stop() returns when it is down, and that *)
(* a data directory in use is refused.                                     *)
(***************************************************************************)
EXTENDS Naturals, Sequences, FiniteSets

CONSTANTS MaxRequests,  \* bound on what the renderer asks
          MaxLaunches,  \* bound on how often the app is launched
          NULL

ASSUME SupervisorAssumption ==
  MaxRequests \in Nat /\ MaxLaunches \in Nat \ {0} /\ NULL \notin Nat

VARIABLES main,      \* the main process: "up", "quitting" (app.quit() again) or "dead"
          quitting,  \* before-quit has been seen
          phase,     \* AppState.phase
          services,  \* AppState.services, the phase of each
          child,     \* Service.child and Postgres.server: the spawn it holds, or NULL
          queue,     \* the operations that wait in op, in order
          op,        \* the operation that runs, or "none"
          at,        \* where it is: what it does, to which service
          config,    \* the settings in memory: how often they were changed; 0: not set up
          saved,     \* those in the files, which a launch reads
          asked,     \* those when a restart was last asked for (history variable)
          read,      \* the settings doStart has read
          procs,     \* processes this launch has spawned that are alive
          orphans,   \* those of earlier launches
          spawned, requests, launches

state == <<phase, services, child>>
running == <<queue, op, at, read>>
settings == <<config, saved, asked>>
processes == <<procs, orphans, spawned>>
vars == <<main, quitting, state, running, settings, processes, requests, launches>>

Services == {"postgres", "plaidsync", "topper"}
After == [postgres |-> "plaidsync", plaidsync |-> "topper"]
Before == [topper |-> "plaidsync", plaidsync |-> "postgres"]

(* A process is [service, id, database, config]: the spawn it is, the spawn  *)
(* of Postgres it connects to, and the settings it was given.  An operation  *)
(* is "start", "stop", "restart" or "quit", the stop of before-quit.         *)
Nowhere == [doing |-> "nothing", service |-> "topper"]
At(doing, s) == at' = [doing |-> doing, service |-> s]

Configured == config > 0

Launched ==
  /\ main' = "up" /\ quitting' = FALSE
  /\ config' = saved /\ asked' = saved
  /\ phase' = IF saved > 0 THEN "stopped" ELSE "setup"
  /\ services' = [s \in Services |-> "stopped"]
  /\ child' = [s \in Services |-> NULL]
  /\ queue' = <<"start">> /\ op' = "none" /\ at' = Nowhere /\ read' = 0

Init ==
  /\ main = "up" /\ quitting = FALSE
  /\ config \in {0, 1} /\ saved = config /\ asked = config
  /\ phase = IF config > 0 THEN "stopped" ELSE "setup"
  /\ services = [s \in Services |-> "stopped"]
  /\ child = [s \in Services |-> NULL]
  /\ queue = <<"start">> /\ op = "none" /\ at = Nowhere /\ read = 0
  /\ procs = {} /\ orphans = {} /\ spawned = 0
  /\ requests = 0 /\ launches = 1

Up == main # "dead"
Running(doing) == Up /\ at.doing = doing

-----------------------------------------------------------------------------
(* The queue: operations run one after the other. *)

MayRun == queue # <<>> /\ op = "none"

(* doStop's and doStart's first steps; tearDown goes from the topper down.  *)
TearDown == At("stopping", "topper")

QuitsAfter(o) == main' = IF o = "quit" THEN "quitting" ELSE main

EndOp(o) == op' = "none" /\ at' = Nowhere /\ QuitsAfter(o)

(* The settings are read when a start begins. *)
ReadsOnce == read' = IF read = 0 THEN config ELSE read   \* mutant: by the first start only
ReadsSettings == read' = config

BeginStart(o) ==
  IF Configured
  THEN /\ phase' = "starting" /\ services' = [services EXCEPT !["postgres"] = "starting"]
       /\ op' = o /\ At("spawning", "postgres") /\ ReadsSettings
       /\ UNCHANGED main
  ELSE /\ phase' = "setup" /\ EndOp(o)
       /\ UNCHANGED <<services, read>>

Start ==
  /\ Up /\ MayRun /\ Head(queue) = "start" /\ phase # "ready"
  /\ queue' = Tail(queue)
  /\ BeginStart("start")
  /\ UNCHANGED <<quitting, child, settings, processes, requests, launches>>

NothingToStop == phase \in {"stopped", "setup"}

Stop ==
  /\ Up /\ MayRun /\ Head(queue) # "start" /\ ~NothingToStop
  /\ queue' = Tail(queue)
  /\ phase' = "stopping" /\ op' = Head(queue) /\ TearDown
  /\ UNCHANGED <<main, quitting, services, child, read, settings, processes, requests, launches>>

StopNothing ==
  /\ Up /\ MayRun /\ Head(queue) # "start" /\ NothingToStop
  /\ queue' = Tail(queue)
  /\ IF Head(queue) = "restart" THEN BeginStart("restart")
     ELSE EndOp(Head(queue)) /\ UNCHANGED <<phase, services, read>>
  /\ UNCHANGED <<quitting, child, settings, processes, requests, launches>>

-----------------------------------------------------------------------------
(* doStart *)

(* Whatever was starting has failed; everything is torn down. *)
FailStart ==
  /\ services' = [s \in Services |-> IF services[s] = "starting" THEN "error" ELSE services[s]]
  /\ phase' = "error"
  /\ TearDown

(* A second server on the data directory exits at once. *)
DirectoryInUse == \E p \in procs \cup orphans : p.service = "postgres"

Spawn ==
  /\ Running("spawning")
  /\ LET s == at.service
     IN  /\ s = "postgres" => ~DirectoryInUse
         /\ child[s] = NULL
         /\ procs' = procs \cup {[service |-> s, id |-> spawned + 1, config |-> read,
                                  database |-> IF s = "postgres" THEN NULL ELSE child["postgres"]]}
         /\ spawned' = spawned + 1
         /\ child' = IF s = "postgres" THEN child ELSE [child EXCEPT ![s] = spawned + 1]
         /\ At("waiting", s)
  /\ UNCHANGED <<main, quitting, phase, services, queue, op, read, settings, orphans, requests, launches>>

(* No port, or no process. *)
SpawnFails ==
  /\ Running("spawning")
  /\ FailStart
  /\ UNCHANGED <<main, quitting, child, queue, op, read, settings, processes, requests, launches>>

(* server.start() has returned; prepare() comes next. *)
PostgresIsUp ==
  /\ Running("waiting") /\ at.service = "postgres"
  /\ \E p \in procs : p.service = "postgres" /\ child' = [child EXCEPT !["postgres"] = p.id]
  /\ At("preparing", "postgres")
  /\ UNCHANGED <<main, quitting, phase, services, queue, op, read, settings, processes, requests,
                 launches>>

DatabaseIsUp(p) == p.service = "postgres" \/ \E d \in procs : d.id = p.database

(* The database is prepared, or /readyz, which pings it, has answered. *)
IsReady ==
  /\ Running(IF at.service = "postgres" THEN "preparing" ELSE "waiting")
  /\ \E p \in procs : p.service = at.service /\ DatabaseIsUp(p)
  /\ IF at.service = "topper"
     THEN /\ phase' = "ready" /\ EndOp(op)
          /\ services' = [services EXCEPT !["topper"] = "ready"]
     ELSE /\ At("spawning", After[at.service])
          /\ services' = [services EXCEPT ![at.service] = "ready",
                                          ![After[at.service]] = "starting"]
          /\ UNCHANGED <<phase, op, main>>
  /\ UNCHANGED <<quitting, child, queue, read, settings, processes, requests, launches>>

(* The process has exited during startup; prepare() may fail by itself.     *)
StartFails ==
  /\ \/ Running("waiting") /\ ~\E p \in procs : p.service = at.service
     \/ Running("preparing")
  /\ FailStart
  /\ UNCHANGED <<main, quitting, child, queue, op, read, settings, processes, requests, launches>>

(* It was not ready in time: SIGTERM. *)
NoDeadline == FALSE   \* mutant: /readyz is polled for ever
Deadline ==
  /\ Running("waiting") /\ at.service # "postgres"
  /\ At("giving_up", at.service)
  /\ UNCHANGED <<main, quitting, state, queue, op, read, settings, processes, requests, launches>>

GivenUp ==
  /\ Running("giving_up") /\ child[at.service] = NULL
  /\ FailStart
  /\ UNCHANGED <<main, quitting, child, queue, op, read, settings, processes, requests, launches>>

-----------------------------------------------------------------------------
(* tearDown: stop() of each service in reverse order.  It sends SIGTERM, and *)
(* SIGKILL after 15 seconds, and returns when the child has exited; without *)
(* a child it returns at once.                                              *)
WithoutWaitingForExit(s) == TRUE   \* mutant: only the signal is sent
HasExited(s) == ~\E p \in procs : p.id = child[s]

ServiceForgotten ==   \* mutant: stop() gives its child up
  /\ Running("stopping") /\ at.service # "postgres"
  /\ services' = [services EXCEPT ![at.service] = "stopped"]
  /\ child' = [child EXCEPT ![at.service] = NULL]
  /\ At("stopping", Before[at.service])
  /\ UNCHANGED <<main, quitting, phase, queue, op, read, settings, processes, requests, launches>>

ServiceStopped ==
  /\ Running("stopping") /\ at.service # "postgres"
  /\ HasExited(at.service)
  /\ services' = [services EXCEPT ![at.service] = "stopped"]
  /\ At("stopping", Before[at.service])
  /\ UNCHANGED <<main, quitting, phase, child, queue, op, read, settings, processes, requests,
                 launches>>

StopPostgres ==
  /\ Running("stopping") /\ at.service = "postgres"
  /\ HasExited("postgres")
  /\ child' = [child EXCEPT !["postgres"] = NULL]
  /\ UNCHANGED <<quitting, queue, settings, processes, requests, launches>>

(* The tearDown of a start that failed; of a stop; and of a restart. *)
FailedStartEnds ==
  /\ StopPostgres /\ phase = "error"
  /\ services' = [services EXCEPT !["postgres"] = "stopped"]
  /\ EndOp(op)
  /\ UNCHANGED <<phase, read>>

StopEnds ==
  /\ StopPostgres /\ phase = "stopping" /\ op # "restart"
  /\ services' = [services EXCEPT !["postgres"] = "stopped"]
  /\ phase' = IF Configured THEN "stopped" ELSE "setup"
  /\ EndOp(op)
  /\ UNCHANGED read

RestartGoesOn ==
  /\ StopPostgres /\ phase = "stopping" /\ op = "restart"
  /\ BeginStart("restart")

-----------------------------------------------------------------------------
(* The processes *)

(* The "exit" event of a child: this.child = undefined. *)

Exits(p) ==
  /\ p \in procs /\ procs' = procs \ {p}
  /\ child' = IF Up /\ p.service # "postgres" THEN [child EXCEPT ![p.service] = NULL] ELSE child
  /\ UNCHANGED <<main, quitting, phase, services, running, settings, orphans, spawned, requests,
                 launches>>

OrphanExits(p) ==
  /\ p \in orphans /\ orphans' = orphans \ {p}
  /\ UNCHANGED <<main, quitting, state, running, settings, procs, spawned, requests, launches>>

-----------------------------------------------------------------------------
(* The app *)

Enqueue(o) == queue' = Append(queue, o)

Asks ==
  /\ main = "up" /\ requests < MaxRequests /\ requests' = requests + 1
  /\ UNCHANGED <<main, quitting, state, op, at, read, processes, launches>>

(* app:restart *)
Restart ==
  /\ Asks /\ Enqueue("restart") /\ asked' = config
  /\ UNCHANGED <<config, saved>>

(* app:saveSetup and app:updateSettings: memory changes, then the files, and *)
(* services are restarted.                                                   *)
Save ==
  /\ Asks /\ Enqueue("restart")
  /\ config' = config + 1 /\ saved' = config' /\ asked' = config'

(* The write throws after this.config was assigned, and nothing is restarted. *)
SaveFails ==
  /\ Asks /\ config' = config + 1
  /\ UNCHANGED <<queue, saved, asked>>

(* It rewrites config.json from memory; no service is given what it changes. *)
MarkKekBackedUp ==
  /\ main = "up" /\ Configured
  /\ saved' = config
  /\ UNCHANGED <<main, quitting, state, running, config, asked, processes, requests, launches>>

Request == Restart \/ Save \/ SaveFails \/ MarkKekBackedUp

BeforeQuit ==
  /\ main = "up" /\ ~quitting
  /\ quitting' = TRUE
  /\ Enqueue("quit")
  /\ UNCHANGED <<main, state, op, at, read, settings, processes, requests, launches>>

(* The second app.quit() is not prevented. *)
Exit ==
  /\ main = "quitting" /\ main' = "dead"
  /\ UNCHANGED <<quitting, state, running, settings, processes, requests, launches>>

Killed ==
  /\ Up /\ launches < MaxLaunches /\ main' = "dead"
  /\ UNCHANGED <<quitting, state, running, settings, processes, requests, launches>>

Launch ==
  /\ main = "dead" /\ launches < MaxLaunches
  /\ launches' = launches + 1
  /\ Launched
  /\ orphans' = orphans \cup procs /\ procs' = {}
  /\ UNCHANGED <<saved, spawned, requests>>

SupervisorStep ==
  \/ Start \/ Stop \/ StopNothing
  \/ Spawn \/ SpawnFails \/ PostgresIsUp \/ IsReady \/ StartFails \/ Deadline \/ GivenUp
  \/ ServiceStopped \/ FailedStartEnds \/ StopEnds \/ RestartGoesOn

Next ==
  \/ SupervisorStep
  \/ \E p \in procs : Exits(p)
  \/ \E p \in orphans : OrphanExits(p)
  \/ Request \/ BeforeQuit \/ Exit \/ Killed \/ Launch

Spec == Init /\ [][Next]_vars

-----------------------------------------------------------------------------
(* Fairness.  The main process runs; a service that is told to stop exits,  *)
(* SIGKILL at the latest.  Of Postgres, which has no deadline, it assumes    *)
(* that a starting server gets up or exits, that prepare() returns, and that *)
(* a server told to stop exits.                                              *)
Told(s) == at.doing \in {"stopping", "giving_up"} /\ at.service = s

Fairness ==
  /\ WF_vars(SupervisorStep) /\ WF_vars(Exit)
  /\ \A s \in Services :
       WF_vars(Up /\ Told(s) /\ \E p \in procs : p.service = s /\ Exits(p))

FairSpec == Spec /\ Fairness

-----------------------------------------------------------------------------
(* Properties *)

Idle == op = "none" /\ queue = <<>>

(* A service of this launch runs at most once; the data directory has one   *)
(* server, over crashes and launches; and at most one plaidsync is connected *)
(* to a running database, which RequeueRunningJobs takes for granted        *)
(* (Supervisor.enqueue, Service.stop).                                      *)
OneOfEach ==
  LET alive == procs \cup orphans
      servers == {p \in alive : p.service = "postgres"}
      Syncers(d) == {p \in alive : p.service = "plaidsync" /\ p.database = d.id}
  IN  /\ \A p, q \in procs : p.service = q.service => p = q
      /\ Cardinality(servers) <= 1
      /\ \A d \in servers : Cardinality(Syncers(d)) <= 1

(* When no operation runs or waits, the phase is the truth about what runs: *)
(* nothing unless it is ready, and then processes that all have one version  *)
(* of the settings, that of the last restart or successful save, or a later  *)
(* one which a failed save has left in memory, however saves, starts and     *)
(* exits interleaved (Supervisor.set, doStart, tearDown, ipc.ts).            *)
IdlePhaseIsTrue ==
  Up /\ Idle => /\ phase \in {"stopped", "setup", "error", "ready"}
                /\ phase # "ready" => procs = {}
                /\ \E c \in asked..config : \A p \in procs : p.config = c

(* "stops the services in reverse order": the database is never stopped     *)
(* under a service of this launch that uses it (Supervisor.tearDown).       *)
DatabaseStopsLast ==
  Running("stopping") /\ at.service = "postgres"
    => \A p \in procs : p.service = "postgres"

(* Every start, stop and restart ends, wherever a step of it fails and       *)
(* whenever a process exits: that of a service by itself (Service.start's    *)
(* deadline, Service.stop's SIGKILL), that of Postgres, whose start, prepare *)
(* and stop have no deadline, if the server comes up or exits and goes down  *)
(* when told (Fairness).                                                     *)
EveryOperationEnds == op # "none" ~> op = "none" \/ main = "dead"

=============================================================================
