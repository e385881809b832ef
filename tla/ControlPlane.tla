---------------------------- MODULE ControlPlane ----------------------------
(***************************************************************************)
(* The processes of a deployment starting, running and stopping: servers,  *)
(* of which one at a time may act, and the worker.  Each reconciles the    *)
(* job queues with its own build's policies; a server then takes the       *)
(* singleton lock, a session lock of the database that is lost with the    *)
(* session; the worker announces itself and keeps its row fresh.  The      *)
(* status banner is worked out from that row.  Processes are killed and    *)
(* started again, during an upgrade with another build; sessions break;    *)
(* a dead process's session may outlive it.  What a server writes of       *)
(* itself is left out: nothing reads it.                                   *)
(***************************************************************************)
EXTENDS Integers, Sequences, FiniteSets

CONSTANTS
    Servers,            \* the places a server process may run
    Builds,             \* the releases it may run
    NoBuild,
    StaleAfter,         \* WORKER_STALE_AFTER_MS
    MaxFleetTime, MaxBoots, MaxBroken      \* bounds

ASSUME ControlPlaneAssumption ==
    /\ "worker" \notin Servers /\ NoBuild \notin Builds
    /\ {StaleAfter, MaxFleetTime, MaxBoots, MaxBroken} \subseteq Nat

VARIABLES
    fleetNow,
    process,        \* by process: where its start-up is, its build, the schema it found, the queue it is at
    queueRows,      \* by queue: the build whose policy is stored, NoBuild when there is no such queue
    workerRow,      \* the worker's row of processIdentity
    beat,           \* a heartbeat on its way to the database
    lockHolder,     \* whose session holds the lock
    session,        \* by server: the session it took the lock in, as the server knows it
    schemaNow,      \* the latest migration applied
    lastAlive,      \* by build and schema: when a worker was last up that started with it
    boots, broken

fleetVars == <<fleetNow, process, queueRows, workerRow, beat, lockHolder, session, schemaNow, lastAlive, boots, broken>>

Processes == Servers \cup {"worker"}
Off == [at |-> "off"]
NoRow == [build |-> NoBuild]
NoBeat == -1
Free == "free"
Orphaned == "orphaned"      \* held in the session of a process that is gone

\* No server has a name that stands for none.
ASSUME ServerNamesAssumption == {Free, Orphaned} \cap Servers = {}

At(p) == process[p].at
GoTo(p, at) == process' = [process EXCEPT ![p].at = at]

-----------------------------------------------------------------------------
(* reconcileQueues, each call to the queue library an await. *)

\* A policy with a dead letter queue, and that queue, which has none.
DeadLetterOf(q) == IF q = "deliver" THEN "deadletter" ELSE "none"
QueuePolicies == <<"deliver", "deadletter">>
Queues == {QueuePolicies[k] : k \in DOMAIN QueuePolicies}

OrderedForCreation ==
    SelectSeq(QueuePolicies, LAMBDA q : DeadLetterOf(q) = "none")
    \o SelectSeq(QueuePolicies, LAMBDA q : DeadLetterOf(q) # "none")

\* What the order comes to for these policies.
ASSUME CreationOrder == OrderedForCreation = <<"deadletter", "deliver">>

QueueAt(p) == OrderedForCreation[process[p].queue]

\* The library makes a queue that is not there, and refuses one whose dead letter queue is not.
CreateQueue(p) ==
    /\ At(p) = "create"
    /\ DeadLetterOf(QueueAt(p)) # "none" => queueRows[DeadLetterOf(QueueAt(p))] # NoBuild
    /\ queueRows' = [queueRows EXCEPT ![QueueAt(p)] = IF @ = NoBuild THEN process[p].build ELSE @]
    /\ GoTo(p, "update")
    /\ UNCHANGED <<fleetNow, workerRow, beat, lockHolder, session, schemaNow, lastAlive, boots, broken>>

UpdateQueue(p) ==
    /\ At(p) = "update"
    /\ queueRows' = [queueRows EXCEPT ![QueueAt(p)] = process[p].build]
    /\ GoTo(p, "verify")
    /\ UNCHANGED <<fleetNow, workerRow, beat, lockHolder, session, schemaNow, lastAlive, boots, broken>>

\* What the start-up goes on to once the queues are done: a server, which now reads the schema, to its
\* lock; the worker, which read it first, to work.
AfterQueues(p) == IF p = "worker" THEN "working" ELSE "lock"

\* A queue that reads back otherwise than configured ends the process.
VerifyQueue(p) ==
    /\ At(p) = "verify"
    /\ process' =
         CASE queueRows[QueueAt(p)] # process[p].build -> [process EXCEPT ![p] = Off]
           [] queueRows[QueueAt(p)] = process[p].build /\ process[p].queue < Len(OrderedForCreation) ->
                [process EXCEPT ![p].queue = @ + 1, ![p].at = "create"]
           [] OTHER -> [process EXCEPT ![p].at = AfterQueues(p),
                                       ![p].schema = IF p = "worker" THEN @ ELSE schemaNow]
    /\ UNCHANGED <<fleetNow, queueRows, workerRow, beat, lockHolder, session, schemaNow, lastAlive, boots, broken>>

-----------------------------------------------------------------------------
(* startWorker and the worker's row. *)

Boot(p, b, at) ==
    /\ process[p] = Off /\ boots < MaxBoots
    /\ boots' = boots + 1
    /\ process' = [process EXCEPT ![p] = [at |-> at, build |-> b, schema |-> schemaNow, queue |-> 1]]

\* Mutation of AnnouncedRow: a row that is there keeps the build it was made with.
AnnouncedRowKept(row, at) ==
    [build |-> IF row = NoRow THEN process["worker"].build ELSE row.build,
     schema |-> process["worker"].schema, seenAt |-> at]

\* announce: the row is this worker's, seen now.
AnnouncedRow(row, at) == [build |-> process["worker"].build, schema |-> process["worker"].schema, seenAt |-> at]

StartWorker(b) ==
    /\ Boot("worker", b, "announce")
    /\ lastAlive' = [lastAlive EXCEPT ![<<b, schemaNow>>] = fleetNow]
    /\ UNCHANGED <<fleetNow, queueRows, workerRow, beat, lockHolder, session, schemaNow, broken>>

Announce ==
    /\ At("worker") = "announce"
    /\ workerRow' = AnnouncedRow(workerRow, fleetNow)
    /\ GoTo("worker", "create")
    /\ UNCHANGED <<fleetNow, queueRows, beat, lockHolder, session, schemaNow, lastAlive, boots, broken>>

\* startHeartbeat: the time is read when the write is sent, and the write may outlast the process.
SendHeartbeat ==
    /\ At("worker") \notin {"off", "announce"} /\ beat = NoBeat
    /\ beat' = fleetNow
    /\ UNCHANGED <<fleetNow, process, queueRows, workerRow, lockHolder, session, schemaNow, lastAlive, boots, broken>>

WriteHeartbeat ==
    /\ beat # NoBeat
    /\ workerRow' = [workerRow EXCEPT !.seenAt = beat]
    /\ beat' = NoBeat
    /\ UNCHANGED <<fleetNow, process, queueRows, lockHolder, session, schemaNow, lastAlive, boots, broken>>

\* A failed heartbeat is not tried again.
LoseHeartbeat ==
    /\ beat # NoBeat /\ beat' = NoBeat
    /\ UNCHANGED <<fleetNow, process, queueRows, workerRow, lockHolder, session, schemaNow, lastAlive, boots, broken>>

-----------------------------------------------------------------------------
(* startServer and the singleton lock. *)

StartServer(s, b) ==
    /\ Boot(s, b, "create")
    /\ UNCHANGED <<fleetNow, queueRows, workerRow, beat, lockHolder, session, schemaNow, lastAlive, broken>>

\* acquireSingletonLock: pg_try_advisory_lock answers at once; the answer is on its way.
TryLock(s) ==
    /\ At(s) = "lock"
    /\ process' = [process EXCEPT ![s].at = IF lockHolder = Free THEN "granted" ELSE "refused"]
    /\ lockHolder' = IF lockHolder = Free THEN s ELSE lockHolder
    /\ session' = [session EXCEPT ![s] = "open"]
    /\ UNCHANGED <<fleetNow, queueRows, workerRow, beat, schemaNow, lastAlive, boots, broken>>

\* Mutation of MayServe: a replica serves whatever the answer.
MayServeAnyway(s) == session[s] = "open"

\* The lock was granted, and the session lasted until the answer came.
MayServe(s) == session[s] = "open" /\ At(s) = "granted"

\* Without the lock the process ends; with it the rest of the start-up, up to the timers and the
\* handler of a lost lock, runs without an await.
LockAnswered(s) ==
    /\ At(s) \in {"granted", "refused"}
    /\ IF MayServe(s)
       THEN GoTo(s, "serving") /\ UNCHANGED <<session, lockHolder>>
       ELSE /\ process' = [process EXCEPT ![s] = Off]
            /\ session' = [session EXCEPT ![s] = "none"]
            /\ lockHolder' = IF lockHolder = s THEN Free ELSE lockHolder
    /\ UNCHANGED <<fleetNow, queueRows, workerRow, beat, schemaNow, lastAlive, boots, broken>>

\* The database ends a session, and with it the lock; the server does not know yet.
SessionBreaks(s) ==
    /\ session[s] = "open" /\ broken < MaxBroken
    /\ broken' = broken + 1
    /\ session' = [session EXCEPT ![s] = "broken"]
    /\ lockHolder' = IF lockHolder = s THEN Free ELSE lockHolder
    /\ UNCHANGED <<fleetNow, process, queueRows, workerRow, beat, schemaNow, lastAlive, boots>>

\* lockLostHandler: the server closes and the process exits.
LockLost(s) ==
    /\ At(s) = "serving" /\ session[s] = "broken"
    /\ process' = [process EXCEPT ![s] = Off]
    /\ session' = [session EXCEPT ![s] = "none"]
    /\ UNCHANGED <<fleetNow, queueRows, workerRow, beat, lockHolder, schemaNow, lastAlive, boots, broken>>

-----------------------------------------------------------------------------
\* A process stops or is killed at any point; the database may take a while to end its session.
Dies(p) ==
    /\ process[p] # Off
    /\ process' = [process EXCEPT ![p] = Off]
    /\ session' = [s \in Servers |-> IF s = p THEN "none" ELSE session[s]]
    /\ lockHolder' = IF lockHolder = p THEN Orphaned ELSE lockHolder
    /\ UNCHANGED <<fleetNow, queueRows, workerRow, beat, schemaNow, lastAlive, boots, broken>>

SessionReaped ==
    /\ lockHolder = Orphaned /\ lockHolder' = Free
    /\ UNCHANGED <<fleetNow, process, queueRows, workerRow, beat, session, schemaNow, lastAlive, boots, broken>>

Migrate ==
    /\ schemaNow = 1 /\ schemaNow' = 2
    /\ UNCHANGED <<fleetNow, process, queueRows, workerRow, beat, lockHolder, session, lastAlive, boots, broken>>

WorkerUp == process["worker"] # Off
FleetTimePasses ==
    /\ fleetNow < MaxFleetTime
    /\ fleetNow' = fleetNow + 1
    /\ lastAlive' = IF WorkerUp THEN [lastAlive EXCEPT ![<<process["worker"].build, process["worker"].schema>>] = fleetNow'] ELSE lastAlive
    /\ UNCHANGED <<process, queueRows, workerRow, beat, lockHolder, session, schemaNow, boots, broken>>

-----------------------------------------------------------------------------
(* The status banner, as a serving server works it out. *)

IsStale == fleetNow - workerRow.seenAt > StaleAfter

ConditionFor(s) ==
    CASE workerRow = NoRow -> "worker-missing"
      [] workerRow # NoRow /\ IsStale -> "worker-stale"
      [] workerRow # NoRow /\ ~IsStale /\ workerRow.build # process[s].build -> "version-skew"
      [] workerRow # NoRow /\ ~IsStale /\ workerRow.build = process[s].build
           /\ workerRow.schema # process[s].schema -> "schema-skew"
      [] OTHER -> "healthy"

-----------------------------------------------------------------------------
FleetInit ==
    /\ fleetNow = 0
    /\ process = [p \in Processes |-> Off]
    /\ queueRows = [q \in Queues |-> NoBuild]
    /\ workerRow = NoRow /\ beat = NoBeat
    /\ lockHolder = Free /\ session = [s \in Servers |-> "none"]
    /\ schemaNow = 1
    /\ lastAlive = [w \in Builds \X {1, 2} |-> -1]
    /\ boots = 0 /\ broken = 0

FleetNext ==
    \/ \E p \in Processes : CreateQueue(p) \/ UpdateQueue(p) \/ VerifyQueue(p) \/ Dies(p)
    \/ \E b \in Builds : StartWorker(b) \/ \E s \in Servers : StartServer(s, b)
    \/ Announce \/ SendHeartbeat \/ WriteHeartbeat \/ LoseHeartbeat
    \/ \E s \in Servers : TryLock(s) \/ LockAnswered(s) \/ SessionBreaks(s) \/ LockLost(s)
    \/ SessionReaped \/ Migrate \/ FleetTimePasses

FleetSpec == FleetInit /\ [][FleetNext]_fleetVars

-----------------------------------------------------------------------------
(* Properties. *)

\* Every server that serves holds the lock, or lost it and has not heard: two act at once only for
\* as long as that takes (acquireSingletonLock, startServer).
ServersActAlone ==
    \A s \in Servers : At(s) = "serving" => lockHolder = s \/ session[s] = "broken"

\* The banner is quiet only while a worker of the server's build and schema was up no longer ago
\* than StaleAfter (conditionFor, announce, heartbeat).
QuietMeansAWorker ==
    \A s \in Servers :
        At(s) = "serving" /\ ConditionFor(s) = "healthy" =>
            fleetNow - lastAlive[<<process[s].build, process[s].schema>>] <= StaleAfter

\* A process that is up has its queues, and no queue names a dead letter queue that is not there
\* (orderedForCreation, reconcileQueues).
QueuesAreThere ==
    /\ \A q \in Queues : queueRows[q] # NoBuild /\ DeadLetterOf(q) # "none" => queueRows[DeadLetterOf(q)] # NoBuild
    /\ \A p \in Processes : At(p) \in {"lock", "granted", "refused", "serving", "working"} => \A q \in Queues : queueRows[q] # NoBuild

\* What a running deployment may rely on of its own processes.
ControlPlaneIsSound == ServersActAlone /\ QuietMeansAWorker /\ QueuesAreThere
=============================================================================
