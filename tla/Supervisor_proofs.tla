--------------------------- MODULE Supervisor_proofs ---------------------------
(***************************************************************************)
(* Proofs about Supervisor, for any number of requests and launches: each  *)
(* service runs once, the database is stopped last, and the phase is true. *)
(*                                                                         *)
(* All rest on Service.child (Held): while the app is up it is the only   *)
(* process of its service, so that a spawn that finds none there, and a    *)
(* stop that has seen it exit, know that there is none.  Orphans of        *)
(* earlier launches use databases that no later spawn can be (Apart).      *)
(***************************************************************************)
EXTENDS Supervisor, FiniteSetTheorems, TLAPS

USE DEF state, running, processes, settings

alive == procs \cup orphans
Place == [doing : {"nothing", "stopping", "spawning", "waiting", "preparing", "giving_up"},
          service : Services]

Typed ==
  /\ spawned \in Nat /\ at \in Place
  /\ child \in [Services -> Nat \cup {NULL}]
  /\ \A s \in Services : child[s] # NULL => child[s] <= spawned
  /\ \A p \in alive : /\ p.service \in Services /\ p.id \in Nat /\ p.id <= spawned
                      /\ p.database # NULL => p.database \in Nat /\ p.database <= spawned

(* The child of a service is its only process. *)
Held ==
  /\ \A p, q \in alive : p.id = q.id => p = q
  /\ Up => \A p \in procs : p.service # "postgres" => child[p.service] = p.id
  /\ \A p, q \in procs : p.service = q.service => p = q

(* What an earlier launch has left behind uses no database of this one. *)
Apart ==
  \A q \in orphans :
    /\ \A p \in procs : q.database # p.id /\ (p.database # NULL => q.database # p.database)
    /\ child["postgres"] # NULL => q.database # child["postgres"]

OneServer == \A p, q \in alive : p.service = "postgres" /\ q.service = "postgres" => p = q

Syncers == {p \in alive : p.service = "plaidsync"}
OneSyncer == \A p, q \in Syncers : p.database = q.database /\ p.database # NULL => p = q

(* A service that tearDown has passed does not run. *)
Below ==
  Running("stopping") =>
    \A p \in procs : /\ at.service # "topper" => p.service # "topper"
                     /\ at.service = "postgres" => p.service # "plaidsync"

IInv == Typed /\ Held /\ Apart /\ OneServer /\ OneSyncer /\ Below

LEMMA NullIsNone == NULL \notin Nat
BY SupervisorAssumption

LEMMA Places ==
  \A doing \in {"stopping", "spawning", "waiting", "preparing", "giving_up"}, s \in Services :
    At(doing, s) => at' \in Place /\ at'.doing = doing /\ at'.service = s
BY DEF At, Place

LEMMA NowhereIs == Nowhere \in Place /\ Nowhere.doing = "nothing"
BY DEF Nowhere, Place, Services

LEMMA InitKeeps == Init => IInv
<1> SUFFICES ASSUME Init
             PROVE  IInv
  OBVIOUS
<1>1. procs = {} /\ orphans = {} /\ spawned = 0 /\ at = Nowhere /\ child = [s \in Services |-> NULL]
  BY DEF Init
<1>2. \A s \in Services : child[s] = NULL
  BY <1>1
<1>3. "postgres" \in Services
  BY DEF Services
<1>4. Typed /\ Held /\ Apart
  BY <1>1, <1>2, <1>3, NowhereIs DEF Typed, Held, Apart, alive
<1> QED
  BY <1>1, <1>4, NowhereIs DEF IInv, OneServer, OneSyncer, Syncers, Below, alive, Running

(* The children and the processes are as they were. *)
LEMMA NothingSpawned ==
  ASSUME IInv, UNCHANGED <<child, procs, orphans, spawned>>, at' \in Place, Up' => Up, Below'
  PROVE  IInv'
BY DEF IInv, Typed, Held, Apart, OneServer, OneSyncer, Syncers, alive

(* tearDown begins, or is not what is done. *)
LEMMA NotBelow ==
  ASSUME IInv, at'.doing # "stopping" \/ at'.service = "topper"
  PROVE  Below'
BY DEF Below, Running

-----------------------------------------------------------------------------
(* Each step keeps IInv *)

LEMMA ProcessSpawned ==
  ASSUME IInv, Spawn
  PROVE  IInv'
<1> DEFINE s == at.service
           d == IF s = "postgres" THEN NULL ELSE child["postgres"]
           new == [service |-> s, id |-> spawned + 1, config |-> read, database |-> d]
<1>1. /\ s \in Services /\ Up /\ at.doing = "spawning" /\ child[s] = NULL
      /\ s = "postgres" => ~DirectoryInUse
      /\ procs' = procs \cup {new} /\ spawned' = spawned + 1 /\ At("waiting", s)
      /\ child' = IF s = "postgres" THEN child ELSE [child EXCEPT ![s] = spawned + 1]
      /\ UNCHANGED <<main, orphans>>
  BY DEF Spawn, Running, IInv, Typed, Place
<1>2. /\ spawned \in Nat /\ child \in [Services -> Nat \cup {NULL}] /\ "postgres" \in Services
      /\ \A x \in Services : child[x] # NULL => child[x] <= spawned
      /\ \A p \in alive : /\ p.service \in Services /\ p.id \in Nat /\ p.id <= spawned
                          /\ p.database # NULL => p.database \in Nat /\ p.database <= spawned
  BY DEF IInv, Typed, Services
<1>3. /\ new.service = s /\ new.id = spawned + 1 /\ new.database = d
      /\ d # NULL => d \in Nat /\ d <= spawned /\ d = child["postgres"]
  BY <1>2
<1> HIDE DEF new, d
<1>4. /\ child' \in [Services -> Nat \cup {NULL}]
      /\ \A x \in Services : child'[x] = child[x] \/ (x = s /\ x # "postgres" /\ child'[x] = spawned + 1)
      /\ s # "postgres" => child'[s] = spawned + 1
  BY <1>1, <1>2
<1>5. Typed'
  <2>1. \A x \in Services : child'[x] # NULL => child'[x] <= spawned'
    BY <1>1, <1>2, <1>4
  <2>2. \A p \in alive' : /\ p.service \in Services /\ p.id \in Nat /\ p.id <= spawned'
                          /\ p.database # NULL => p.database \in Nat /\ p.database <= spawned'
    BY <1>1, <1>2, <1>3 DEF alive
  <2> QED
    BY <1>1, <1>2, <1>4, <2>1, <2>2, Places DEF Typed
<1>6. \A p \in procs : p.service # s
  <2>1. CASE s = "postgres"
    BY <1>1, <2>1 DEF DirectoryInUse
  <2>2. CASE s # "postgres"
    BY <1>1, <1>2, <2>2, NullIsNone DEF IInv, Held, alive
  <2> QED
    BY <2>1, <2>2
<1>7. Held'
  <2>1. \A p \in alive : p.id # new.id
    BY <1>2, <1>3
  <2>2. \A p, q \in alive' : p.id = q.id => p = q
    BY <1>1, <2>1 DEF IInv, Held, alive
  <2>3. \A p \in procs' : p.service # "postgres" => child'[p.service] = p.id
    BY <1>1, <1>2, <1>3, <1>4, <1>6 DEF IInv, Held, alive
  <2>4. \A p, q \in procs' : p.service = q.service => p = q
    BY <1>1, <1>3, <1>6 DEF IInv, Held
  <2> QED
    BY <2>2, <2>3, <2>4 DEF Held
<1>8. Apart'
  <2> SUFFICES ASSUME NEW q \in orphans
               PROVE  /\ \A p \in procs' : /\ q.database # p.id
                                           /\ p.database # NULL => q.database # p.database
                      /\ child'["postgres"] # NULL => q.database # child'["postgres"]
    BY <1>1 DEF Apart
  <2>1. q.database # new.id
    <3>1. q.database # NULL => q.database \in Nat /\ q.database <= spawned
      BY <1>2 DEF alive
    <3> QED
      BY <1>2, <1>3, <3>1, NullIsNone
  <2>2. child'["postgres"] = child["postgres"]
    BY <1>1, <1>2, <1>4
  <2> QED
    BY <1>1, <1>3, <2>1, <2>2 DEF IInv, Apart
<1>9. OneServer'
  BY <1>1, <1>3 DEF IInv, OneServer, DirectoryInUse, alive
<1>10. OneSyncer'
  BY <1>1, <1>3, <1>6 DEF IInv, OneSyncer, Syncers, Apart, alive
<1>11. Below'
  BY <1>1, Places, NotBelow
<1> QED
  BY <1>5, <1>7, <1>8, <1>9, <1>10, <1>11 DEF IInv

(* Where an operation begins or ends: not in the middle of a tearDown. *)
LEMMA Begins ==
  ASSUME NEW o, BeginStart(o)
  PROVE  at' \in Place /\ at'.doing # "stopping"
<1>1. CASE Configured
  BY <1>1, Places DEF BeginStart, Services
<1>2. CASE ~Configured
  BY <1>2, NowhereIs DEF BeginStart, EndOp
<1> QED
  BY <1>1, <1>2

(* A request changes the settings and the queue.                             *)
LEMMA Asked ==
  ASSUME Request
  PROVE  /\ Up /\ UNCHANGED <<main, phase, child, op, at, read, procs, orphans, spawned>>
         /\ \/ Enqueue("restart") /\ asked' = config'
            \/ UNCHANGED <<queue, asked>>
         /\ \/ config' = config + 1 /\ saved' \in {saved, config'}
            \/ config' = config /\ saved' \in {saved, config}
BY DEF Request, Restart, Save, SaveFails, MarkKekBackedUp, Asks, Up

LEMMA SameProcesses ==
  ASSUME IInv,
         \/ Start \/ Stop \/ StopNothing \/ SpawnFails \/ IsReady \/ StartFails \/ Deadline
         \/ GivenUp \/ Request \/ BeforeQuit \/ Exit \/ Killed
  PROVE  IInv'
<1>1. UNCHANGED <<child, procs, orphans, spawned>>
  BY Asked DEF Start, Stop, StopNothing, SpawnFails, IsReady, StartFails, Deadline, GivenUp,
         BeforeQuit, Exit, Killed
<1>2. Up' => Up
  BY Asked DEF Start, Stop, StopNothing, SpawnFails, IsReady, StartFails, Deadline, GivenUp,
         BeforeQuit, Exit, Killed, Up, Running
<1>3. at \in Place /\ at.service \in Services /\ "topper" \in Services
  BY DEF IInv, Typed, Place, Services
<1>4. at' \in Place /\ (at'.doing # "stopping" \/ at'.service = "topper" \/ UNCHANGED at)
  <2>1. CASE Start
    BY <2>1, Begins DEF Start
  <2>2. CASE StopNothing
    <3>1. CASE Head(queue) = "restart"
      BY <2>2, <3>1, Begins DEF StopNothing
    <3>2. CASE Head(queue) # "restart"
      BY <2>2, <3>2, NowhereIs DEF StopNothing, EndOp
    <3> QED
      BY <3>1, <3>2
  <2>3. CASE Stop \/ SpawnFails \/ StartFails \/ GivenUp
    <3>1. At("stopping", "topper")
      BY <2>3 DEF Stop, SpawnFails, StartFails, GivenUp, FailStart, TearDown
    <3> QED
      BY <1>3, <3>1, Places
  <2>4. CASE IsReady
    <3>1. CASE at.service = "topper"
      BY <2>4, <3>1, NowhereIs DEF IsReady, EndOp
    <3>2. CASE at.service # "topper"
      <4>1. After[at.service] \in Services
        BY <1>3, <3>2 DEF After, Services
      <4>2. At("spawning", After[at.service])
        BY <2>4, <3>2 DEF IsReady
      <4> QED
        BY <4>1, <4>2, Places
    <3> QED
      BY <3>1, <3>2
  <2>5. CASE Deadline
    BY <1>3, <2>5, Places DEF Deadline
  <2>6. CASE Request \/ BeforeQuit \/ Exit \/ Killed
    BY <1>3, <2>6, Asked DEF BeforeQuit, Exit, Killed
  <2> QED
    BY <2>1, <2>2, <2>3, <2>4, <2>5, <2>6
<1>5. Below'
  <2>1. CASE UNCHANGED at
    BY <1>1, <1>2, <2>1 DEF IInv, Below, Running
  <2> QED
    BY <1>4, <2>1, NotBelow
<1> QED
  BY <1>1, <1>2, <1>4, <1>5, NothingSpawned

(* stop() returns when the child has exited: none of its service runs. *)
LEMMA TearDownGoesOn ==
  ASSUME IInv, ServiceStopped
  PROVE  IInv'
<1>1. /\ UNCHANGED <<main, child, procs, orphans, spawned>> /\ Up /\ at.doing = "stopping"
      /\ at.service \in Services \ {"postgres"} /\ At("stopping", Before[at.service])
      /\ HasExited(at.service)
  BY DEF ServiceStopped, Running, IInv, Typed, Place
<1>2. \A p \in procs : p.service # at.service
  BY <1>1 DEF IInv, Held, HasExited
<1>3. Before[at.service] = (IF at.service = "topper" THEN "plaidsync" ELSE "postgres")
      /\ Before[at.service] \in Services
  BY <1>1 DEF Before, Services
<1>4. at' \in Place /\ at'.service = (IF at.service = "topper" THEN "plaidsync" ELSE "postgres")
  BY <1>1, <1>3, Places
<1>5. Below'
  <2>1. CASE at.service = "topper"
    BY <1>1, <1>2, <1>4, <2>1 DEF Below
  <2>2. CASE at.service = "plaidsync"
    BY <1>1, <1>2, <1>4, <2>2 DEF IInv, Below, Running
  <2> QED
    BY <1>1, <2>1, <2>2 DEF Services
<1> QED
  BY <1>1, <1>4, <1>5, NothingSpawned DEF Up

(* The database of this launch. *)
LEMMA DatabaseNamed ==
  ASSUME IInv, UNCHANGED <<procs, orphans, spawned>>, at' \in Place, Up' => Up,
         at'.doing # "stopping" \/ at'.service = "topper",
         NEW d \in Nat \cup {NULL}, child' = [child EXCEPT !["postgres"] = d],
         d # NULL => d <= spawned /\ \A q \in orphans : q.database # d
  PROVE  IInv'
<1>1. /\ child \in [Services -> Nat \cup {NULL}] /\ "postgres" \in Services
      /\ \A s \in Services : child[s] # NULL => child[s] <= spawned
  BY DEF IInv, Typed, Services
<1>2. /\ child' \in [Services -> Nat \cup {NULL}] /\ child'["postgres"] = d
      /\ \A s \in Services : s # "postgres" => child'[s] = child[s]
  BY <1>1
<1>3. Typed'
  BY <1>1, <1>2 DEF IInv, Typed, alive
<1>4. Held'
  BY <1>2 DEF IInv, Typed, Held, alive
<1>5. Apart'
  BY <1>2 DEF IInv, Apart
<1>6. OneServer' /\ OneSyncer'
  BY DEF IInv, OneServer, OneSyncer, Syncers, alive
<1>7. Below'
  BY NotBelow
<1> QED
  BY <1>3, <1>4, <1>5, <1>6, <1>7 DEF IInv

LEMMA DatabaseSteps ==
  ASSUME IInv, PostgresIsUp \/ FailedStartEnds \/ StopEnds \/ RestartGoesOn
  PROVE  IInv'
<1>1. CASE PostgresIsUp
  <2>1. PICK p \in procs : p.service = "postgres" /\ child' = [child EXCEPT !["postgres"] = p.id]
    BY <1>1 DEF PostgresIsUp
  <2>2. p.id \in Nat /\ p.id <= spawned
    BY DEF IInv, Typed, alive
  <2>3. \A q \in orphans : q.database # p.id
    BY DEF IInv, Apart
  <2>4. UNCHANGED <<main, procs, orphans, spawned>> /\ at' \in Place /\ at'.doing = "preparing"
    BY <1>1, Places DEF PostgresIsUp, Services
  <2> QED
    BY <2>1, <2>2, <2>3, <2>4, DatabaseNamed DEF Up
<1>2. CASE FailedStartEnds \/ StopEnds \/ RestartGoesOn
  <2>1. child' = [child EXCEPT !["postgres"] = NULL] /\ UNCHANGED <<procs, orphans, spawned>> /\ Up
    BY <1>2 DEF FailedStartEnds, StopEnds, RestartGoesOn, StopPostgres, Running
  <2>2. at' \in Place /\ at'.doing # "stopping"
    <3>1. CASE FailedStartEnds \/ StopEnds
      BY <3>1, NowhereIs DEF FailedStartEnds, StopEnds, EndOp
    <3>2. CASE RestartGoesOn
      BY <3>2, Begins DEF RestartGoesOn
    <3> QED
      BY <1>2, <3>1, <3>2
  <2> QED
    BY <2>1, <2>2, DatabaseNamed
<1> QED
  BY <1>1, <1>2

-----------------------------------------------------------------------------
(* The processes *)

LEMMA ProcessExits ==
  ASSUME IInv, NEW p \in procs, Exits(p)
  PROVE  IInv'
<1>1. /\ procs' = procs \ {p} /\ UNCHANGED <<main, at, orphans, spawned>>
      /\ child' = IF Up /\ p.service # "postgres" THEN [child EXCEPT ![p.service] = NULL] ELSE child
  BY DEF Exits
<1>2. /\ child \in [Services -> Nat \cup {NULL}] /\ p.service \in Services /\ "postgres" \in Services
      /\ \A s \in Services : child[s] # NULL => child[s] <= spawned
  BY DEF IInv, Typed, Services, alive
<1>3. /\ child' \in [Services -> Nat \cup {NULL}]
      /\ \A s \in Services : \/ child'[s] = child[s]
                             \/ s = p.service /\ child'[s] = NULL /\ s # "postgres"
  BY <1>1, <1>2
<1>4. \A q \in procs' : q \in procs /\ q # p /\ q.service # p.service
  BY <1>1 DEF IInv, Held
<1>5. Typed'
  BY <1>1, <1>2, <1>3 DEF IInv, Typed, alive
<1>6. Held'
  <2>1. \A q \in procs' : q.service \in Services /\ child'[q.service] = child[q.service]
    BY <1>3, <1>4 DEF IInv, Typed, alive
  <2> QED
    BY <1>1, <1>4, <2>1 DEF IInv, Held, Up, alive
<1>7. child'["postgres"] = child["postgres"]
  BY <1>2, <1>3
<1>8. Apart' /\ OneServer' /\ OneSyncer'
  BY <1>1, <1>4, <1>7 DEF IInv, Apart, OneServer, OneSyncer, Syncers, alive
<1>9. Below'
  BY <1>1, <1>4 DEF IInv, Below, Running, Up
<1> QED
  BY <1>5, <1>6, <1>8, <1>9 DEF IInv

LEMMA OrphanEnds ==
  ASSUME IInv, NEW p \in orphans, OrphanExits(p)
  PROVE  IInv'
<1>1. orphans' = orphans \ {p} /\ UNCHANGED <<main, at, child, procs, spawned>>
  BY DEF OrphanExits
<1>2. Typed' /\ Held'
  BY <1>1 DEF IInv, Typed, Held, Up, alive
<1>3. Apart' /\ OneServer' /\ OneSyncer'
  BY <1>1 DEF IInv, Apart, OneServer, OneSyncer, Syncers, alive
<1>4. Below'
  BY <1>1 DEF IInv, Below, Running, Up
<1> QED
  BY <1>2, <1>3, <1>4 DEF IInv

LEMMA LaunchedAgain ==
  ASSUME IInv, Launch
  PROVE  IInv'
<1>1. /\ orphans' = orphans \cup procs /\ procs' = {} /\ UNCHANGED spawned
      /\ child' = [s \in Services |-> NULL] /\ at' = Nowhere
  BY DEF Launch, Launched
<1>2. alive' = alive /\ "postgres" \in Services
  BY <1>1 DEF alive, Services
<1>3. Typed' /\ Held'
  BY <1>1, <1>2, NowhereIs DEF IInv, Typed, Held
<1>4. Apart' /\ OneServer' /\ OneSyncer'
  BY <1>1, <1>2 DEF IInv, Apart, OneServer, OneSyncer, Syncers
<1>5. Below'
  BY <1>1 DEF Below
<1> QED
  BY <1>3, <1>4, <1>5 DEF IInv

-----------------------------------------------------------------------------
(* The theorems *)

LEMMA StepKeeps == IInv /\ [Next]_vars => IInv'
<1> SUFFICES ASSUME IInv, [Next]_vars
             PROVE  IInv'
  OBVIOUS
<1>1. CASE SupervisorStep
  BY <1>1, SameProcesses, ProcessSpawned, TearDownGoesOn, DatabaseSteps DEF SupervisorStep
<1>2. CASE \E p \in procs : Exits(p)
  BY <1>2, ProcessExits
<1>3. CASE \E p \in orphans : OrphanExits(p)
  BY <1>3, OrphanEnds
<1>4. CASE Request \/ BeforeQuit \/ Exit \/ Killed
  BY <1>4, SameProcesses
<1>5. CASE Launch
  BY <1>5, LaunchedAgain
<1>6. CASE UNCHANGED vars
  BY <1>6 DEF vars, IInv, Typed, Held, Apart, OneServer, OneSyncer, Syncers, Below, Running, Up, alive
<1> QED
  BY <1>1, <1>2, <1>3, <1>4, <1>5, <1>6 DEF Next

LEMMA AtMostOne ==
  ASSUME NEW S, \A x, y \in S : x = y
  PROVE  Cardinality(S) <= 1
<1>1. CASE S = {}
  BY <1>1, FS_EmptySet
<1>2. CASE S # {}
  <2>1. PICK x \in S : S = {x}
    BY <1>2
  <2>2. Cardinality({x}) = 1
    BY FS_Singleton
  <2> QED
    BY <2>1, <2>2
<1> QED
  BY <1>1, <1>2

(* Over any number of starts, stops, crashes of processes and launches after *)
(* a kill, a service of this launch runs once, the data directory has one    *)
(* server, and a running database one plaidsync (Service.child, and          *)
(* Postgres refusing a directory in use).                                    *)
THEOREM EachRunsOnce == Spec => []OneOfEach
<1>1. IInv => OneOfEach
  <2> SUFFICES ASSUME IInv
               PROVE  OneOfEach
    OBVIOUS
  <2> DEFINE servers == {p \in alive : p.service = "postgres"}
             Users(d) == {p \in alive : p.service = "plaidsync" /\ p.database = d.id}
  <2>1. \A p, q \in procs : p.service = q.service => p = q
    BY DEF IInv, Held
  <2>2. Cardinality(servers) <= 1
    <3>1. \A p, q \in servers : p = q
      BY DEF IInv, OneServer
    <3> QED
      BY <3>1, AtMostOne
  <2>3. ASSUME NEW d \in servers
        PROVE  Cardinality(Users(d)) <= 1
    <3>1. d.id # NULL
      BY NullIsNone DEF IInv, Typed
    <3>2. \A p, q \in Users(d) : p = q
      BY <3>1 DEF IInv, OneSyncer, Syncers
    <3> QED
      BY <3>2, AtMostOne
  <2> QED
    BY <2>1, <2>2, <2>3 DEF OneOfEach, alive
<1> QED
  BY <1>1, InitKeeps, StepKeeps, PTL DEF Spec

(* When tearDown comes to Postgres, no service of this launch that uses the  *)
(* database is left: stop() of each has waited for its exit                  *)
(* (Supervisor.tearDown, Service.stop).                                      *)
THEOREM PostgresIsLast == Spec => []DatabaseStopsLast
<1>1. IInv => DatabaseStopsLast
  BY DEF IInv, Typed, Below, DatabaseStopsLast, Services, alive
<1> QED
  BY <1>1, InitKeeps, StepKeeps, PTL DEF Spec

-----------------------------------------------------------------------------
(* The phase is the truth.  A start begins when nothing runs (Quiet), and    *)
(* what runs has the settings doStart read last (Counted), which are those a *)
(* restart was last asked for, or later ones, unless a restart waits         *)
(* (Recent).  tearDown finds the server by its child, which it has but while *)
(* it comes up (ServerKnown).                                                *)

Ops == {"start", "stop", "restart", "quit"}
Starting == {"spawning", "waiting", "preparing", "giving_up"}
RestartWaits == \E i \in DOMAIN queue : queue[i] = "restart"

Quiet ==
  op = "none" => /\ at.doing = "nothing" /\ phase \in {"stopped", "setup", "error", "ready"}
                 /\ phase # "ready" => procs = {}
Counted ==
  /\ config \in Nat /\ saved \in Nat /\ asked \in Nat /\ read \in Nat
  /\ read <= config /\ asked <= config
  /\ \A p \in procs : p.config = read
Recent ==
  ~RestartWaits /\ (at.doing \in Starting \/ (op = "none" /\ procs # {})) => asked <= read
ServerKnown ==
  \A p \in procs : p.service = "postgres" =>
    child["postgres"] = p.id \/ (at.doing = "waiting" /\ at.service = "postgres")

Truth == Counted /\ (Up => queue \in Seq(Ops) /\ Quiet /\ Recent /\ ServerKnown)

LEMMA Queues ==
  ASSUME queue \in Seq(Ops)
  PROVE  /\ \A o \in Ops : queue' = Append(queue, o) =>
              /\ queue' \in Seq(Ops)
              /\ RestartWaits' <=> RestartWaits \/ o = "restart"
         /\ queue # <<>> /\ queue' = Tail(queue) =>
              /\ queue' \in Seq(Ops) /\ Head(queue) \in Ops
              /\ RestartWaits /\ Head(queue) # "restart" => RestartWaits'
<1>1. ASSUME NEW o \in Ops, queue' = Append(queue, o)
      PROVE  queue' \in Seq(Ops) /\ (RestartWaits' <=> RestartWaits \/ o = "restart")
  BY <1>1 DEF RestartWaits
<1>2. ASSUME queue # <<>>, queue' = Tail(queue)
      PROVE  /\ queue' \in Seq(Ops) /\ Head(queue) \in Ops
             /\ RestartWaits /\ Head(queue) # "restart" => RestartWaits'
  <2>1. queue' \in Seq(Ops) /\ Head(queue) \in Ops /\ Len(queue') = Len(queue) - 1
    BY <1>2
  <2>2. ASSUME NEW i \in DOMAIN queue, queue[i] = "restart", Head(queue) # "restart"
        PROVE  i - 1 \in DOMAIN queue' /\ queue'[i - 1] = "restart"
    BY <1>2, <2>1, <2>2
  <2> QED
    BY <2>1, <2>2 DEF RestartWaits
<1> QED
  BY <1>1, <1>2

(* tearDown has come to its end. *)
LEMMA AllStopped ==
  ASSUME IInv, Truth, StopPostgres
  PROVE  procs = {}
<1>1. Up /\ at.doing = "stopping" /\ at.service = "postgres"
  BY DEF StopPostgres, Running
<1>2. \A p \in procs : p.service \in Services /\ p.service # "topper" /\ p.service # "plaidsync"
  BY <1>1 DEF IInv, Typed, Below, Running, alive
<1>3. \A p \in procs : p.service = "postgres" => p.id = child["postgres"]
  BY <1>1 DEF Truth, ServerKnown
<1> QED
  BY <1>1, <1>2, <1>3 DEF StopPostgres, HasExited, Services

LEMMA StartBegins ==
  ASSUME Truth, NEW o \in {"start", "restart"}, BeginStart(o), procs = {},
         UNCHANGED <<procs, settings>>, queue' \in Seq(Ops)
  PROVE  Truth'
<1>1. CASE Configured
  BY <1>1 DEF BeginStart, At, Truth, Quiet, Counted, Recent, ServerKnown, ReadsSettings
<1>2. CASE ~Configured
  BY <1>2 DEF BeginStart, EndOp, Nowhere, Truth, Quiet, Counted, Recent, ServerKnown, Starting
<1> QED
  BY <1>1, <1>2

LEMMA DequeuesTruly ==
  ASSUME IInv, Truth, Start \/ Stop \/ StopNothing
  PROVE  Truth'
<1>1. /\ Up /\ op = "none" /\ queue # <<>> /\ queue' = Tail(queue)
      /\ UNCHANGED <<procs, settings, child>>
  BY DEF Start, Stop, StopNothing, MayRun
<1>2. /\ queue' \in Seq(Ops) /\ Head(queue) \in Ops
      /\ RestartWaits /\ Head(queue) # "restart" => RestartWaits'
  BY <1>1, Queues DEF Truth
<1>3. CASE Start
  <2>1. procs = {}
    BY <1>1, <1>3 DEF Start, Truth, Quiet
  <2> QED
    BY <1>1, <1>2, <1>3, <2>1, StartBegins DEF Start
<1>4. CASE Stop
  <2>1. at'.doing = "stopping" /\ op' = Head(queue) /\ UNCHANGED read
    BY <1>4 DEF Stop, TearDown, At
  <2> QED
    BY <1>1, <1>2, <2>1 DEF Truth, Quiet, Counted, Recent, ServerKnown, Starting, Ops
<1>5. CASE StopNothing
  <2>1. procs = {} /\ phase \in {"stopped", "setup"}
    BY <1>1, <1>5 DEF StopNothing, NothingToStop, Truth, Quiet
  <2>2. CASE Head(queue) = "restart"
    BY <1>1, <1>2, <1>5, <2>1, <2>2, StartBegins DEF StopNothing
  <2>3. CASE Head(queue) # "restart"
    <3>1. op' = "none" /\ at'.doing = "nothing" /\ UNCHANGED <<phase, read>>
      BY <1>5, <2>3 DEF StopNothing, EndOp, Nowhere
    <3> QED
      BY <1>1, <1>2, <2>1, <3>1 DEF Truth, Quiet, Counted, Recent, ServerKnown, Starting
  <2> QED
    BY <2>2, <2>3
<1> QED
  BY <1>3, <1>4, <1>5

LEMMA StartsTruly ==
  ASSUME IInv, Truth, Spawn \/ PostgresIsUp \/ IsReady \/ Deadline
  PROVE  Truth'
<1>1. /\ Up /\ at.doing \in Starting /\ at \in Place /\ op # "none"
      /\ UNCHANGED <<queue, read, settings>>
  BY DEF Spawn, PostgresIsUp, IsReady, Deadline, Running, Starting, Truth, Quiet, IInv, Typed, Up
<1>2. RestartWaits' <=> RestartWaits
  BY <1>1 DEF RestartWaits
<1> USE DEF Truth, Quiet, Counted, Recent, ServerKnown
<1>3. CASE Spawn
  <2> DEFINE s == at.service
             p == [service |-> s, id |-> spawned + 1, config |-> read,
                   database |-> IF s = "postgres" THEN NULL ELSE child["postgres"]]
  <2>1. /\ at'.doing = "waiting" /\ at'.service = s /\ op' = op /\ procs' = procs \cup {p}
        /\ s = "postgres" => ~DirectoryInUse
        /\ child' = IF s = "postgres" THEN child ELSE [child EXCEPT ![s] = spawned + 1]
        /\ at.doing = "spawning"
    BY <1>3 DEF Spawn, Running, At
  <2>2. \A q \in procs' : q.config = read
    BY <1>1, <2>1
  <2>3. "postgres" \in Services /\ child \in [Services -> Nat \cup {NULL}]
    BY DEF IInv, Typed, Services
  <2>4. ServerKnown'
    BY <1>1, <2>1, <2>3 DEF DirectoryInUse
  <2> QED
    BY <1>1, <1>2, <2>1, <2>2, <2>4 DEF Starting
<1>4. CASE PostgresIsUp
  <2>1. PICK p \in procs : p.service = "postgres" /\ child' = [child EXCEPT !["postgres"] = p.id]
    BY <1>4 DEF PostgresIsUp
  <2>2. child'["postgres"] = p.id
    BY <2>1 DEF IInv, Typed, Services
  <2>3. \A q \in procs : q.service = "postgres" => q = p
    BY <2>1 DEF IInv, Held
  <2>4. at'.doing = "preparing" /\ UNCHANGED <<op, procs>>
    BY <1>4 DEF PostgresIsUp, At
  <2> QED
    BY <1>1, <1>2, <2>2, <2>3, <2>4 DEF Starting
<1>5. CASE IsReady
  <2>1. /\ UNCHANGED <<child, procs>>
        /\ at.doing = IF at.service = "postgres" THEN "preparing" ELSE "waiting"
    BY <1>5 DEF IsReady, Running
  <2>2. ServerKnown'
    BY <1>1, <2>1
  <2>3. CASE at.service = "topper"
    <3>1. phase' = "ready" /\ op' = "none" /\ at'.doing = "nothing"
      BY <1>5, <2>3 DEF IsReady, EndOp, Nowhere
    <3> QED
      BY <1>1, <1>2, <2>1, <2>2, <3>1 DEF Starting
  <2>4. CASE at.service # "topper"
    <3>1. at'.doing = "spawning" /\ op' = op
      BY <1>5, <2>4 DEF IsReady, At
    <3> QED
      BY <1>1, <1>2, <2>1, <2>2, <3>1 DEF Starting
  <2> QED
    BY <2>3, <2>4
<1>6. CASE Deadline
  <2>1. at'.doing = "giving_up" /\ at.service # "postgres" /\ UNCHANGED <<op, phase, child, procs>>
    BY <1>6 DEF Deadline, At
  <2> QED
    BY <1>1, <1>2, <2>1 DEF Starting
<1> QED
  BY <1>3, <1>4, <1>5, <1>6

LEMMA TearsDownTruly ==
  ASSUME IInv, Truth, SpawnFails \/ StartFails \/ GivenUp \/ ServiceStopped
  PROVE  Truth'
<1>1. /\ Up /\ at.doing # "nothing" /\ at'.doing = "stopping"
      /\ UNCHANGED <<queue, op, read, settings, child, procs>>
  BY DEF SpawnFails, StartFails, GivenUp, ServiceStopped, FailStart, TearDown, At, Running
<1>2. at.doing = "waiting" /\ at.service = "postgres" => \A p \in procs : p.service # "postgres"
  BY DEF SpawnFails, StartFails, GivenUp, ServiceStopped, Running
<1>3. op # "none"
  BY <1>1 DEF Truth, Quiet
<1> QED
  BY <1>1, <1>2, <1>3 DEF Truth, Quiet, Counted, Recent, ServerKnown, Starting

LEMMA EndsTruly ==
  ASSUME IInv, Truth, FailedStartEnds \/ StopEnds \/ RestartGoesOn
  PROVE  Truth'
<1>1. Up /\ procs = {} /\ UNCHANGED <<queue, procs, settings>> /\ queue \in Seq(Ops)
  BY AllStopped DEF FailedStartEnds, StopEnds, RestartGoesOn, StopPostgres, Running, Truth
<1>2. CASE FailedStartEnds \/ StopEnds
  <2>1. /\ op' = "none" /\ at'.doing = "nothing" /\ UNCHANGED read
        /\ phase' \in {"stopped", "setup", "error"}
    BY <1>2 DEF FailedStartEnds, StopEnds, EndOp, Nowhere
  <2> QED
    BY <1>1, <2>1 DEF Truth, Quiet, Counted, Recent, ServerKnown, Starting
<1>3. CASE RestartGoesOn
  BY <1>1, <1>3, StartBegins DEF RestartGoesOn
<1> QED
  BY <1>2, <1>3

LEMMA OthersKeepTruth ==
  ASSUME IInv, Truth,
         \/ \E p \in procs : Exits(p)
         \/ \E p \in orphans : OrphanExits(p)
         \/ Request \/ BeforeQuit \/ Exit \/ Killed \/ Launch \/ UNCHANGED vars
  PROVE  Truth'
<1> USE DEF Truth, Quiet, Counted, Recent, ServerKnown
<1>1. ASSUME NEW p \in procs, Exits(p)
      PROVE  Truth'
  <2>1. /\ procs' = procs \ {p} /\ UNCHANGED <<main, phase, queue, op, at, read, settings>>
        /\ child' = child \/ (p.service # "postgres" /\ child' = [child EXCEPT ![p.service] = NULL])
    BY <1>1 DEF Exits
  <2>2. child'["postgres"] = child["postgres"]
    BY <2>1 DEF IInv, Typed, Services
  <2> QED
    BY <2>1, <2>2 DEF Up, RestartWaits
<1>2. CASE (\E p \in orphans : OrphanExits(p)) \/ UNCHANGED vars
  BY <1>2 DEF OrphanExits, vars, Up, RestartWaits
<1>3. CASE Request
  <2>1. Counted'
    BY <1>3, Asked
  <2>2. CASE Enqueue("restart")
    <3>1. queue' \in Seq(Ops) /\ RestartWaits'
      BY <1>3, <2>2, Asked, Queues DEF Ops, Enqueue
    <3> QED
      BY <1>3, <2>1, <3>1, Asked
  <2>3. CASE UNCHANGED <<queue, asked>>
    BY <1>3, <2>1, <2>3, Asked DEF RestartWaits
  <2> QED
    BY <1>3, <2>2, <2>3, Asked
<1>4. CASE BeforeQuit
  <2>1. /\ Up /\ queue' = Append(queue, "quit")
        /\ UNCHANGED <<main, phase, child, op, at, read, settings, procs>>
    BY <1>4 DEF BeforeQuit, Enqueue, Up
  <2>2. queue' \in Seq(Ops) /\ (RestartWaits' <=> RestartWaits)
    BY <2>1, Queues DEF Ops
  <2> QED
    BY <2>1, <2>2
<1>5. CASE Exit \/ Killed
  BY <1>5 DEF Exit, Killed, Up
<1>6. CASE Launch
  <2>1. /\ procs' = {} /\ queue' = <<"start">> /\ op' = "none" /\ at'.doing = "nothing"
        /\ phase' \in {"stopped", "setup"}
        /\ config' = saved /\ asked' = saved /\ read' = 0 /\ UNCHANGED saved
    BY <1>6 DEF Launch, Launched, Nowhere
  <2>2. queue' \in Seq(Ops)
    BY <2>1 DEF Ops
  <2> QED
    BY <2>1, <2>2 DEF Starting
<1> QED
  BY <1>1, <1>2, <1>3, <1>4, <1>5, <1>6

(* When no operation runs or waits, the phase tells what runs: nothing but   *)
(* in "ready", and then processes with one version of the settings, that of  *)
(* the last restart asked for or a later one, however saves, failed saves,   *)
(* restarts, failures and exits came together (doStart, tearDown, ipc.ts).   *)
THEOREM PhaseIsTrue == Spec => []IdlePhaseIsTrue
<1>1. Init => Truth
  <2> SUFFICES ASSUME Init
               PROVE  Truth
    OBVIOUS
  <2>1. /\ procs = {} /\ queue = <<"start">> /\ op = "none" /\ at.doing = "nothing"
        /\ phase \in {"stopped", "setup"}
        /\ config \in {0, 1} /\ saved = config /\ asked = config /\ read = 0
    BY DEF Init, Nowhere
  <2> QED
    BY <2>1 DEF Truth, Quiet, Counted, Recent, ServerKnown, Ops, Starting
<1>2. IInv /\ Truth /\ [Next]_vars => Truth'
  BY DequeuesTruly, StartsTruly, TearsDownTruly, EndsTruly, OthersKeepTruth
     DEF Next, SupervisorStep
<1>3. Truth => IdlePhaseIsTrue
  <2> SUFFICES ASSUME Truth, Up, Idle
               PROVE  /\ phase \in {"stopped", "setup", "error", "ready"}
                      /\ phase # "ready" => procs = {}
                      /\ \E c \in asked..config : \A p \in procs : p.config = c
    BY DEF IdlePhaseIsTrue
  <2>1. ~RestartWaits /\ op = "none"
    BY DEF Idle, RestartWaits
  <2>2. \E c \in asked..config : \A p \in procs : p.config = c
    <3>1. CASE procs = {}
      BY <3>1 DEF Truth, Counted
    <3>2. CASE procs # {}
      BY <2>1, <3>2 DEF Truth, Counted, Recent
    <3> QED
      BY <3>1, <3>2
  <2> QED
    BY <2>1, <2>2 DEF Truth, Quiet
<1> QED
  BY <1>1, <1>2, <1>3, InitKeeps, StepKeeps, PTL DEF Spec
=============================================================================
