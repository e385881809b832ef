--------------------------- MODULE HostLifecycle ---------------------------
(***************************************************************************)
(* The life of one host row: enrolment, provisioning under a leased claim, *)
(* re-trusting its SSH host key, and removal through a teardown job that   *)
(* the worker runs and pg-boss retries.  Calls of the host controller run  *)
(* concurrently in the server process; each database statement or          *)
(* transaction is one step, and the remote work between them is not        *)
(* covered by any lock.  Rows of different hosts share nothing, so one row *)
(* and one machine are enough.                                             *)
(***************************************************************************)
EXTENDS Naturals, FiniteSets

CONSTANTS
    Provisioners,   \* concurrent calls of HostController.provision
    Keys,           \* SSH host keys the machine may present
    Steps,          \* number of steps of provisionHost
    WriteSteps,     \* the steps that leave something on the machine; the rest only read
    RetryLimit,     \* HOST_TEARDOWN_POLICY.retryLimit
    MaxAttempts,    \* bound: provisioning attempt ids handed out
    MaxJobs,        \* bound: teardown jobs enqueued
    MaxBots         \* bound: instance rows on the host

ASSUME StepsAssumption == /\ Steps \in Nat \ {0}
                          /\ WriteSteps \subseteq 1..Steps
ASSUME BoundsAssumption == /\ RetryLimit \in Nat
                           /\ MaxAttempts \in Nat
                           /\ MaxJobs \in Nat
                           /\ MaxBots \in Nat

VARIABLES
    row,        \* the host row
    bots,       \* how many instance rows name this host
    machine,    \* the remote machine: the key it presents, what setup left on it
    prov,       \* the provisioning calls in progress
    writes,     \* progress writes sent but not awaited
    probed,     \* the key a re-trust call has read and verified, or None
    jobs,       \* the teardown queue
    lastAttempt \* ids handed out by randomUUID so far, in order

vars == <<row, bots, machine, prov, writes, probed, jobs, lastAttempt>>

-----------------------------------------------------------------------------
None == 0   \* SQL null: no attempt id, no key read, no step

Gone == {"deleted", "cleaned"}  \* removed outright, removed after a teardown
Present == {"pending", "provisioning", "ready", "error", "removing"}
HostStatus == Present \cup Gone \cup {"absent"}
Attempt == 1..MaxAttempts
JobId == 1..MaxJobs
StepMark == [by : Attempt, at : 1..Steps]
NoStep == [by |-> None, at |-> None]

Holding == {"claimed", "working", "step", "failing"}
Idle == [pc |-> "idle", expected |-> "absent", attempt |-> None, key |-> None, at |-> None]
NoJob == [state |-> "none", key |-> None, tries |-> 0]
SettledJob == {"done", "dead", "lost"}

(***************************************************************************)
(* The row's nullable columns are kept as sentinels; "stale" stands for a  *)
(* provisioningClaimedAt older than PROVISIONING_LEASE_MS, "setUp" for a   *)
(* non-null osRelease, "failed" and "tearErr" for a recorded               *)
(* provisioningError and teardownError.  A step mark also remembers which  *)
(* attempt reported it: the code keeps the name only.                      *)
(***************************************************************************)
Row == [status : HostStatus, attempt : Attempt \cup {None}, stale : BOOLEAN,
        setUp : BOOLEAN, trusted : Keys \cup {None}, step : StepMark \cup {NoStep},
        failed : BOOLEAN, tearErr : BOOLEAN]
Machine == [key : Keys, files : SUBSET WriteSteps]
Call == [pc : Holding \cup {"idle", "found"}, expected : HostStatus,
         attempt : Attempt \cup {None}, key : Keys \cup {None}, at : 0..Steps]
Job == [state : {"none", "queued", "active", "cleaned"} \cup SettledJob,
        key : Keys \cup {None}, tries : 0..(RetryLimit + 1)]

ASSUME KeysAssumption == None \notin Keys

Exists == row.status \in Present

\* isProvisioningClaimStale is false of a claim: somebody may be at work.
LiveClaim == row.status = "provisioning" /\ ~row.stale

-----------------------------------------------------------------------------
Init ==
    /\ row = [status |-> "absent", attempt |-> None, stale |-> FALSE, setUp |-> FALSE,
              trusted |-> None, step |-> NoStep, failed |-> FALSE, tearErr |-> FALSE]
    /\ bots = 0
    /\ machine \in [key : Keys, files : {{}}]
    /\ prov = [p \in Provisioners |-> Idle]
    /\ writes = {}
    /\ probed = None
    /\ jobs = [j \in JobId |-> NoJob]
    /\ lastAttempt = 0

\* enroll: trusts the key it probed, which the operator confirmed.  The machine
\* may have been given another one before the row is inserted.
Enroll ==
    /\ row.status = "absent"
    /\ \E k \in Keys : row' = [row EXCEPT !.status = "pending", !.trusted = k]
    /\ UNCHANGED <<bots, machine, prov, writes, probed, jobs, lastAttempt>>

\* provision, up to its transaction: the status read here is the one the
\* claim will insist on.
ProvisionRead(p) ==
    /\ prov[p].pc = "idle"
    /\ Exists
    /\ ~LiveClaim
    /\ prov' = [prov EXCEPT ![p].pc = "found", ![p].expected = row.status]
    /\ UNCHANGED <<row, bots, machine, writes, probed, jobs, lastAttempt>>

\* The where clause of claimForProvisioning.
Claimable(expected) ==
    \/ row.status = "provisioning" /\ row.stale
    \/ expected # "provisioning" /\ row.status = expected

\* The claiming transaction, under the host's advisory lock.
ProvisionClaim(p) ==
    /\ prov[p].pc = "found"
    /\ Claimable(prov[p].expected)
    /\ lastAttempt < MaxAttempts
    /\ lastAttempt' = lastAttempt + 1
    /\ row' = [row EXCEPT !.status = "provisioning", !.attempt = lastAttempt + 1,
                          !.stale = FALSE, !.failed = FALSE, !.step = NoStep]
    /\ prov' = [prov EXCEPT ![p].pc = "claimed", ![p].attempt = lastAttempt + 1,
                            ![p].key = row.trusted, ![p].at = None]
    /\ UNCHANGED <<bots, machine, writes, probed, jobs>>

\* The claim matched no row: HostNotFoundError or HostConcurrentlyModifiedError.
ProvisionRefused(p) ==
    /\ prov[p].pc = "found"
    /\ ~Claimable(prov[p].expected)
    /\ prov' = [prov EXCEPT ![p] = Idle]
    /\ UNCHANGED <<row, bots, machine, writes, probed, jobs, lastAttempt>>

\* transport.connect verifies the fingerprint read under the lock.
Connect(p) ==
    /\ prov[p].pc = "claimed"
    /\ machine.key = prov[p].key
    /\ prov' = [prov EXCEPT ![p].pc = "working"]
    /\ UNCHANGED <<row, bots, machine, writes, probed, jobs, lastAttempt>>

\* advance() reports the next step; onProgress sends a write and does not wait.
ReportStep(p) ==
    /\ prov[p].pc = "working"
    /\ prov[p].at < Steps
    /\ prov' = [prov EXCEPT ![p].pc = "step", ![p].at = @ + 1]
    /\ writes' = writes \cup {[by |-> prov[p].attempt, at |-> prov[p].at + 1]}
    /\ UNCHANGED <<row, bots, machine, probed, jobs, lastAttempt>>

\* The step's command runs on the machine.
RunStep(p) ==
    /\ prov[p].pc = "step"
    /\ machine' = [machine EXCEPT !.files = @ \cup ({prov[p].at} \cap WriteSteps)]
    /\ prov' = [prov EXCEPT ![p].pc = "working"]
    /\ UNCHANGED <<row, bots, writes, probed, jobs, lastAttempt>>

\* recordProvisioningProgress, whenever the write reaches the database; one
\* that fails is swallowed.
ProgressLost(w) ==
    /\ w \in writes
    /\ writes' = writes \ {w}
    /\ UNCHANGED <<row, bots, machine, prov, probed, jobs, lastAttempt>>

\* Mutations of ProgressLands: any attempt's write lands; one lands after the
\* failure was recorded.
ProgressOfAnyAttempt(w) ==
    /\ w \in writes
    /\ writes' = writes \ {w}
    /\ row' = IF Exists /\ ~row.failed THEN [row EXCEPT !.step = w] ELSE row
    /\ UNCHANGED <<bots, machine, prov, probed, jobs, lastAttempt>>

ProgressAfterFailure(w) ==
    /\ w \in writes
    /\ writes' = writes \ {w}
    /\ row' = IF Exists /\ row.attempt = w.by THEN [row EXCEPT !.step = w] ELSE row
    /\ UNCHANGED <<bots, machine, prov, probed, jobs, lastAttempt>>

ProgressLands(w) ==
    /\ w \in writes
    /\ writes' = writes \ {w}
    /\ row' = IF Exists /\ row.attempt = w.by /\ ~row.failed
                THEN [row EXCEPT !.step = w] ELSE row
    /\ UNCHANGED <<bots, machine, prov, probed, jobs, lastAttempt>>

\* Connecting or a step failed: recordProvisioningFailure, which may itself
\* fail, in which case finalizeProvisioning is not tried either.
ProvisionFail(p) ==
    LET mine == Exists /\ row.attempt = prov[p].attempt
        mark == [by |-> prov[p].attempt, at |-> prov[p].at]
        step == IF prov[p].at = None THEN row.step ELSE mark
    IN  /\ prov[p].pc \in {"claimed", "working", "step"}
        /\ \/ /\ row' = IF mine THEN [row EXCEPT !.failed = TRUE, !.step = step] ELSE row
              /\ prov' = [prov EXCEPT ![p].pc = "failing"]
           \/ /\ prov' = [prov EXCEPT ![p] = Idle]
              /\ UNCHANGED row
        /\ UNCHANGED <<bots, machine, writes, probed, jobs, lastAttempt>>

\* Mutation of Owns: whoever finishes, while the host is being provisioned.
OwnsAnyAttempt(p) == row.status = "provisioning"

\* The where clause of finalizeProvisioning.
Owns(p) == row.status = "provisioning" /\ row.attempt = prov[p].attempt

\* The failed call releases its claim, if it still has it and the transaction
\* does not fail; otherwise the claim is left to its lease.
ProvisionRelease(p) ==
    /\ prov[p].pc = "failing"
    /\ \/ UNCHANGED row
       \/ Owns(p) /\ row' = [row EXCEPT !.status = "error", !.attempt = None, !.stale = FALSE]
    /\ prov' = [prov EXCEPT ![p] = Idle]
    /\ UNCHANGED <<bots, machine, writes, probed, jobs, lastAttempt>>

\* Every step succeeded: the last transaction marks the host ready, or fails:
\* the claim was taken over, or the database refused.
ProvisionFinish(p) ==
    /\ prov[p].pc = "working"
    /\ prov[p].at = Steps
    /\ \/ UNCHANGED row
       \/ Owns(p) /\ row' = [row EXCEPT !.status = "ready", !.attempt = None,
                                         !.stale = FALSE, !.setUp = TRUE]
    /\ prov' = [prov EXCEPT ![p] = Idle]
    /\ UNCHANGED <<bots, machine, writes, probed, jobs, lastAttempt>>

\* The claim turns PROVISIONING_LEASE_MS old.
LeaseExpires ==
    /\ LiveClaim
    /\ row' = [row EXCEPT !.stale = TRUE]
    /\ UNCHANGED <<bots, machine, prov, writes, probed, jobs, lastAttempt>>

\* retrustHostKey reads the presented key and the operator's fingerprint matches.
RetrustProbe ==
    /\ Exists
    /\ probed = None
    /\ probed' = machine.key
    /\ UNCHANGED <<row, bots, machine, prov, writes, jobs, lastAttempt>>

\* Mutation of RetrustCommit: a live claim does not stop it.
RetrustAnyway ==
    /\ probed # None
    /\ probed' = None
    /\ row' = IF Exists THEN [row EXCEPT !.trusted = probed] ELSE row
    /\ UNCHANGED <<bots, machine, prov, writes, jobs, lastAttempt>>

\* Its transaction under the lock: refused while a claim is live, and when
\* the row has gone.
RetrustCommit ==
    /\ probed # None
    /\ probed' = None
    /\ row' = IF Exists /\ ~LiveClaim THEN [row EXCEPT !.trusted = probed] ELSE row
    /\ UNCHANGED <<bots, machine, prov, writes, jobs, lastAttempt>>

\* Mutation of RemoveOutright: only a ready host counts as set up.
RemoveUnlessReady ==
    /\ Exists /\ bots = 0 /\ ~LiveClaim
    /\ row.status # "ready"
    /\ row' = [row EXCEPT !.status = "deleted"]
    /\ UNCHANGED <<bots, machine, prov, writes, probed, jobs, lastAttempt>>

\* remove, its transaction under the lock.  Without bots and without a live
\* claim, a host that never finished setup is deleted.
RemoveOutright ==
    /\ Exists /\ bots = 0 /\ ~LiveClaim
    /\ ~row.setUp
    /\ row' = [row EXCEPT !.status = "deleted"]
    /\ UNCHANGED <<bots, machine, prov, writes, probed, jobs, lastAttempt>>

\* Mutation of RequestTeardown: the instances are not counted.
RequestTeardownUncounted(j) ==
    /\ Exists /\ ~LiveClaim
    /\ row.setUp
    /\ jobs[j] = NoJob
    /\ row' = [row EXCEPT !.status = "removing", !.tearErr = FALSE]
    /\ jobs' = [jobs EXCEPT ![j] = [state |-> "queued", key |-> row.trusted, tries |-> 0]]
    /\ UNCHANGED <<bots, machine, prov, writes, probed, lastAttempt>>

\* A host that was set up is marked removing in the transaction that
\* enqueues the job which will clean it.
RequestTeardown(j) ==
    /\ Exists /\ bots = 0 /\ ~LiveClaim
    /\ row.setUp
    /\ jobs[j] = NoJob
    /\ row' = [row EXCEPT !.status = "removing", !.tearErr = FALSE]
    /\ jobs' = [jobs EXCEPT ![j] = [state |-> "queued", key |-> row.trusted, tries |-> 0]]
    /\ UNCHANGED <<bots, machine, prov, writes, probed, lastAttempt>>

\* InstanceController.create inserts under the host's lock; remove deletes.
CreateBot ==
    /\ row.status = "ready"
    /\ bots < MaxBots
    /\ bots' = bots + 1
    /\ UNCHANGED <<row, machine, prov, writes, probed, jobs, lastAttempt>>

RemoveBot ==
    /\ bots > 0
    /\ bots' = bots - 1
    /\ UNCHANGED <<row, machine, prov, writes, probed, jobs, lastAttempt>>

-----------------------------------------------------------------------------
\* The worker takes a teardown job.
JobTake(j) ==
    /\ jobs[j].state = "queued"
    /\ jobs' = [jobs EXCEPT ![j].state = "active", ![j].tries = @ + 1]
    /\ UNCHANGED <<row, bots, machine, prov, writes, probed, lastAttempt>>

\* tearDownHost over a connection verified against the payload's fingerprint
\* leaves nothing behind.
JobClean(j) ==
    /\ jobs[j].state = "active"
    /\ machine.key = jobs[j].key
    /\ machine' = [machine EXCEPT !.files = {}]
    /\ jobs' = [jobs EXCEPT ![j].state = "cleaned"]
    /\ UNCHANGED <<row, bots, prov, writes, probed, lastAttempt>>

\* onCleaned: deleteAfterTeardown removes a row that is still "removing".
JobDone(j) ==
    /\ jobs[j].state = "cleaned"
    /\ row' = IF row.status = "removing" THEN [row EXCEPT !.status = "cleaned"] ELSE row
    /\ jobs' = [jobs EXCEPT ![j].state = "done"]
    /\ UNCHANGED <<bots, machine, prov, writes, probed, lastAttempt>>

\* Mutations of AfterFailure: one retry too many; retries without end.
OneRetryMore(j, outcome) ==
    [jobs EXCEPT ![j].state = IF jobs[j].tries <= RetryLimit + 1 THEN "queued" ELSE outcome]

RetryForever(j, outcome) ==
    [jobs EXCEPT ![j].state = "queued", ![j].tries = 0]

\* pg-boss gives a failed job back to the queue until its retries are spent.
AfterFailure(j, outcome) ==
    [jobs EXCEPT ![j].state = IF jobs[j].tries <= RetryLimit THEN "queued" ELSE outcome]

\* A teardown interrupted part way may already have removed some files.
PartlyCleaned(j) ==
    \E left \in SUBSET machine.files :
        /\ machine.key # jobs[j].key => left = machine.files
        /\ machine' = [machine EXCEPT !.files = left]

\* Mutation of JobFail: the reason is not recorded.
JobFailUnrecorded(j) ==
    /\ jobs[j].state \in {"active", "cleaned"}
    /\ PartlyCleaned(j)
    /\ jobs' = AfterFailure(j, "dead")
    /\ UNCHANGED <<row, bots, prov, writes, probed, lastAttempt>>

\* The job throws after recording why: unreachable, key changed, something
\* left behind, or the row could not be deleted.
JobFail(j) ==
    /\ jobs[j].state \in {"active", "cleaned"}
    /\ PartlyCleaned(j)
    /\ row' = IF Exists THEN [row EXCEPT !.tearErr = TRUE] ELSE row
    /\ jobs' = AfterFailure(j, "dead")
    /\ UNCHANGED <<bots, prov, writes, probed, lastAttempt>>

\* The worker dies, the job expires, or the failure cannot be written (it is
\* swallowed): the retry comes, or runs out, with nothing recorded.
JobLost(j) ==
    /\ jobs[j].state \in {"active", "cleaned"}
    /\ PartlyCleaned(j)
    /\ jobs' = AfterFailure(j, "lost")
    /\ UNCHANGED <<row, bots, prov, writes, probed, lastAttempt>>

\* The machine is rebuilt or its SSH keys regenerated.
MachineRekeyed ==
    /\ \E k \in Keys \ {machine.key} : machine' = [machine EXCEPT !.key = k]
    /\ UNCHANGED <<row, bots, prov, writes, probed, jobs, lastAttempt>>

\* The server restarts: its calls and their unsent writes are lost.
ServerCrash ==
    /\ \/ \E p \in Provisioners : prov[p] # Idle
       \/ writes # {} \/ probed # None
    /\ prov' = [p \in Provisioners |-> Idle]
    /\ writes' = {}
    /\ probed' = None
    /\ UNCHANGED <<row, bots, machine, jobs, lastAttempt>>

-----------------------------------------------------------------------------
ProvisionStep(p) ==
    \/ ProvisionRead(p) \/ ProvisionClaim(p) \/ ProvisionRefused(p)
    \/ Connect(p) \/ ReportStep(p) \/ RunStep(p)
    \/ ProvisionFail(p) \/ ProvisionRelease(p) \/ ProvisionFinish(p)

JobStep(j) == JobTake(j) \/ JobClean(j) \/ JobDone(j) \/ JobFail(j) \/ JobLost(j)

Next ==
    \/ Enroll \/ LeaseExpires \/ RetrustProbe \/ RetrustCommit
    \/ RemoveOutright \/ CreateBot \/ RemoveBot
    \/ MachineRekeyed \/ ServerCrash
    \/ \E p \in Provisioners : ProvisionStep(p)
    \/ \E w \in writes : ProgressLands(w) \/ ProgressLost(w)
    \/ \E j \in JobId : RequestTeardown(j) \/ JobStep(j)

Spec == Init /\ [][Next]_vars

\* The worker keeps polling its queue, and a teardown is bounded by the
\* timeouts of its commands; nothing else is owed progress.
FairSpec == Spec /\ \A j \in JobId : WF_vars(JobStep(j))

-----------------------------------------------------------------------------
\* Every variable holds a value of the shape the schema and the code give it.
TypeOK ==
    /\ row \in Row
    /\ bots \in 0..MaxBots
    /\ machine \in Machine
    /\ prov \in [Provisioners -> Call]
    /\ writes \subseteq StepMark
    /\ probed \in Keys \cup {None}
    /\ jobs \in [JobId -> Job]
    /\ lastAttempt \in 0..MaxAttempts

\* Only the call that claimed a host last ends its set-up, however many calls still work on the
\* machine after their claims ran out: the host becomes ready when that call has run every step,
\* with no failure on record and, unless its lease has run out, over the trusted key; it becomes
\* an error only with that call's failure on record (finalizeProvisioning, provision).
FinishedByItsHolder ==
    [][row.status = "provisioning" /\ row'.status \in {"ready", "error"} =>
         \E p \in Provisioners :
             /\ prov[p].attempt = lastAttempt /\ prov'[p] = Idle
             /\ \/ /\ row'.status = "ready" /\ prov[p].pc = "working" /\ prov[p].at = Steps
                   /\ ~row.failed /\ (row.stale \/ prov[p].key = row.trusted)
                \/ row'.status = "error" /\ prov[p].pc = "failing" /\ row.failed]_vars

\* While a claim is live, the call that holds it works over the host key the
\* row trusts: re-trusting is refused, and the key was read under the lock.
TrustedKeyInUse ==
    \A p \in Provisioners :
        prov[p].pc \in Holding /\ Owns(p) /\ ~row.stale => prov[p].key = row.trusted

\* The progress the dashboard shows was reported by the latest attempt,
\* however late an earlier attempt's write arrives.
StepOfLatestAttempt == row.step # NoStep => row.step.by = lastAttempt

\* A bot's host is neither being removed nor gone: create and remove take the
\* host's lock in turn (and the foreign key is never what saves the row).
BotsKeepTheirHost == bots > 0 => row.status \in Present \ {"removing"}

\* A host marked "removing" has a job that will clean it, or says why the clean-up failed, or the
\* last try of a job vanished with nothing recorded (the worker died or could not write); and in
\* every case remove would accept it again, having no bots, no claim and something to clean.
RemovalIsPending ==
    row.status = "removing" =>
        /\ bots = 0 /\ row.setUp
        /\ \/ row.tearErr
           \/ \E j \in JobId : jobs[j].state \in {"queued", "active", "cleaned"}
           \/ \E j \in JobId : jobs[j].state = "lost" /\ jobs[j].tries > RetryLimit

\* A recorded setup failure keeps the step it names: progress writes that
\* arrive after it change nothing until the next claim clears the failure.
FailureKeepsItsStep == [][row.failed /\ row'.failed => row'.step = row.step]_vars

\* A host that finished setup leaves the table only through a teardown that
\* found nothing left (remove never deletes it outright).
RemovedOnlyWhenCleaned ==
    [][row.setUp /\ row.status \in Present /\ row'.status \in Gone
         => row'.status = "cleaned" /\ \E j \in JobId : jobs[j].state = "cleaned"]_vars

\* Every teardown job ends: it cleans the host or spends its retries.
TeardownSettles ==
    \A j \in JobId : jobs[j].state = "queued" ~> jobs[j].state \in SettledJob

\* host.controller.test.ts says removal refuses while instances remain
\* "rather than orphaning them on a host it is cleaning".
NoBotOnAHostBeingCleaned ==
    \A j \in JobId : jobs[j].state \in {"active", "cleaned"} => bots = 0

-----------------------------------------------------------------------------
(***************************************************************************)
(* The claim of a host as a fenced lease: attempt ids are its numbers, the *)
(* step on show is what was reported, and the trusted key is what it       *)
(* guards.  A row that is gone has no claim.                               *)
(***************************************************************************)
Lease == INSTANCE FencedLease WITH
    LeaseValues <- Keys \cup {None},
    holder <- IF Exists THEN row.attempt ELSE None,
    expired <- Exists /\ row.stale,
    issued <- lastAttempt,
    reported <- row.step.by,
    guarded <- row.trusted

\* Provisioning, re-trusting and removing a host keep the promises of a fenced lease: nothing takes a
\* live claim over, a call that lost its claim reports nothing, and the trusted key stays while a
\* claim is live (claimForProvisioning, recordProvisioningProgress, retrustHostKey, remove).
ClaimIsAFencedLease == Lease!LeaseSpec
=============================================================================
