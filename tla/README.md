# open-mcc-manager: a TLA+ verification project

open-mcc-manager is a self-hosted control plane for Minecraft Console Client
bots. A server process offers the API, opens SSH connections to Linux hosts and
keeps its state in PostgreSQL; a worker process takes jobs from pg-boss queues
that live in the same database. Bots run on the hosts as systemd units. The
correctness questions worth a model checker come from three facts:

- a change is a sequence *transaction, remote commands, transaction*, so every
  guard is checked before work that takes minutes and again after it;
- the processes share rows, not memory: each protects its work by conditional
  updates, leases, row locks and unique indexes;
- either process may restart, a remote command may time out and still take
  effect, and a job may be retried after it already did its work.

The modules here model that control logic, and that of the scripts and browser
pages that take part in it. TLC checks it on small instances, and TLAPS proves,
for every instance, the safety of fifteen parts: the host lifecycle, the changes of
a bot, alert delivery and destinations, shared connections, members, the processes,
the preparation and enrolment of hosts, the update check, the collection of
artifacts, schedules, the set-up check, reachability (but for its sums) and the
configuration forms.

## Inventory

What each part of the system keeps, what it does, what is hard in it and what
would make it wrong. The complete list, with the parts left out and the reason,
is `components` in `PROJECT.json`; `hazards` there lists the hard spots line by
line with the properties that watch them.

**Host lifecycle** (`packages/core/src/host`). Keeps the `host` row: status,
trusted host key, set-up attempt and its start time, step reached, failure.
Operations: `enroll`, `provision` (a leased claim on the row, then the set-up
steps over SSH, each reported by a progress write that nobody awaits, then
`finalizeProvisioning` or `recordProvisioningFailure`), `retrust` (probe, then replace
the trusted key), `remove` (delete a host that was never set up, otherwise mark
it and queue a teardown). Hard: two provisioning calls and a lease that runs out
under one of them; progress writes arriving late; re-trusting under a running
set-up; creating a bot while the host is removed. Correct if one call at most
can finalise an attempt, over the key the row trusts, and a host with bots is
never taken away.

**Host teardown** (`packages/core/src/job/host-teardown.job.ts`, worker). A
pg-boss job per removal, retried by pg-boss; cleans the machine and deletes the
row, or records why it could not. Hard: the worker dies half way, a failure that
cannot be recorded, partial cleaning. Correct if a removal is always pending,
explained or done, and a set-up host disappears only when clean.

**Alert delivery** (`packages/core/src/notification`). Keeps `notification`,
`notification_delivery` and `notification_destination` rows, the delivery queue
and its dead letters. `announce` writes a notification with one delivery and one
job per enabled destination; the handler looks the delivery up, sends, and
settles it in a transaction that also queues the next try or sets a dead letter
aside. Operators create, switch, remove destinations and retry or dismiss
failed deliveries. Hard: nothing locks between the look and the settle;
`settleDelivery` writes unconditionally; a job that throws, expires or dies is
never retried by the queue. Correct if no queued delivery is forgotten, none is
sent twice without a fault, a settled one stays settled, and a destination's
health is that of its latest answer.

**Instance changes and sign-in** (`packages/core/src/instance`). Keeps the
`instance` row with a configuration claim and a sign-in claim, the latest
settings, the control token; on the host the unit, its environment and its
document. Operations: create, start, restart, stop, save, remove under the
configuration claim; begin a Microsoft sign-in under the sign-in claim; complete
and cancel without one; reconciliation records a failed unit. Hard: commands that
time out and land later, leases, restarts of the server, systemd starting the
unit by itself. Correct if changes exclude each other on the host, including
those that timed out, a started bot runs what was saved, and a removed bot
leaves nothing behind.

**Connection status and incidents** (`packages/core/src/status`). Keeps each
bot's condition, its open interval, events, incident, flapping mark and journal
cursor. The server's poller reads the journal in batches and records each
change in a transaction; a delayed job lets the worker escalate a loss that
outlasts its grace period. Hard: the two transactions read without locking and
lock two rows in opposite orders; the cursor is saved apart from the changes; a
cursor may be refused. Correct if the interval agrees with the condition, an
interrupted bot is watched, and alerts are neither false nor repeated.

**Scheduled commands, sleep windows and tasks** (`scheduler.ts`, `due.ts`,
`schedule.ts`, `task-scheduler.ts`, `task-signals.ts`). Keep a command row with
the time it last ran, a sleep window and its two systemd timers on the host,
task rows with their runs, joins read from the journal and a cursor. A tick every
30 seconds claims what is due in the database and then sends it. Hard: days of 23
and 25 hours, a tick beside an edit, a restart between claim, send and outcome,
two timers written by four commands, and taken away by four whose exit codes nobody
looks at. Correct if nothing is sent twice for one occasion, records say no more than
happened, and the timers are the window's, but for what a refused clear leaves.

**Artifact collection** (`artifact.ts`, worker). Keeps a cursor into the bot's
player list and the stored chunks; empties the list and deletes replays once they
are stored. Hard: the bot writes meanwhile, collectors overlap, the list's name
changes. Correct if nothing is deleted that was not stored.

**Set-up check** (`reconcile.ts`, `config-drift.ts`). Compares rows with the units,
files and configuration on a host. Hard: it reads for seconds while both change.
Correct if "converged" means that, and no secret is told.

**Live control, console and forms** (`live-control.ts`, `control.ts`, pages of a
bot). Keep a remembered "the bot is running", the page's reading, drafts of the
settings, a command history in the browser. Hard: an answer that comes after a
stop, a draft over a newer version. Correct if an answer from before a stop lets no
later call through, the audit log tells what was done, no password is kept, and no save
undoes a change its author had not seen.

**Tasks on a bot's page, and its printed text** (`instance-tasks.tsx`,
`minecraft-text.ts`). Keep the tasks last read, a draft whose parts have keys, a
save and a removal under way; lines and spans keyed by where they start. Hard:
saving, pausing or removing from an old copy, an answer lost after the task was
stored, codes at the end of a text. Correct if a pause edits nothing, nothing that
cannot run is stored, a retry or a stale save adds no task unasked, and the console
shows every printed character once in its style.

**Host reachability** (`health-poller.ts`, `reachability.ts`, `rollup.ts`). Keeps a
condition, intervals and events per host. Hard: polls cut short, refused writes,
boundaries of the bars, overlaps rounded to seconds. Correct if the timeline is one,
agrees with the answers and adds up but for the roundings.

**Transport** (`packages/transport`, `host-reader.ts`). Shared read connections with
leases, deadlines, idle closing, a hard age and a channel limiter. Hard: a
connection retired or evicted under a waiting reader, a leaked slot. Correct if a
reader never uses a key no longer trusted, slots add up and no connection leaks.

**Preparing and enrolling a host** (`host-setup.ts`, `check.ts`,
`express-install.ts`, the wizard). Keep the machine's state, the wizard's form and
the calls under way. Hard: runs of the script that overlap, answers that come after
the form or the machine changed. Correct if a fingerprint is printed only by a
prepared machine, check and provisioning agree, root goes only to a confirmed key,
and only what was checked is enrolled.

**Destinations and senders** (`destination.controller.ts`, `egress.ts`, `pinned.ts`,
`smtp.client.ts`). Keep sealed settings with a signing key and its predecessor.
Hard: two administrators at once, names that resolve elsewhere, a line lost after
the message. Correct if tests stay within their limits, the old key overlaps, only
vetted addresses are reached and one attempt hands over one copy at most.

**Members** (`member.controller.ts`, `bootstrap-owner.ts`). Keep accounts,
memberships, invitations. Hard: two first owners, owners removing one another.
Correct if there is one organisation, always with an owner, and an invitation
works once.

**Processes** (`bootstrap.ts`, `singleton.ts`, `queue-setup.ts`,
`process-identity.repository.ts`). Keep an advisory lock, queue rows and the
worker's heartbeat. Hard: broken sessions, upgrades. Correct if one server acts,
queues are there, and the banner is quiet only with a worker.

**Self-host and updates** (`self-host.sh`, `install.sh`, `update-check.ts`). Keep the
account's `authorized_keys` and key pair, `.env`, and the update row. Hard: a signal
between two writes, other people's edits, a check that dies. Correct if a failed run
leaves nothing but an empty `authorized_keys` at worst, an offer is backed, and no
check that found no release takes an update's offer back.

**Retention, audit, keys, schema**: single statements, or code of libraries.

The parts interact through rows. Creating a bot takes the host's row lock that
removal takes; teardown and delivery and escalation run in the worker on jobs
the server committed together with the rows they concern; status changes end in
`announce`, inside the transaction that records them.

## Modules

| Module | Models | Source |
| --- | --- | --- |
| `HostLifecycle` | host row, set-up calls, machine, teardown jobs | `host.controller.ts`, `host.repository.ts`, `provision.ts`, `teardown.ts`, `host-teardown.job.ts` |
| `AlertDelivery` | announcing, delivering, retrying, dead letters, destinations | `announce.ts`, `delivery.job.ts`, `destination.controller.ts`, `notification.repository.ts` |
| `InstanceClaims` | changes of one bot and its sign-in | `instance.controller.ts`, `instance.repository.ts`, `authenticate.ts`, `unit.ts`, `removal.ts` |
| `StatusIncidents` | journal reading, incidents, escalation | `status.controller.ts`, `status.repository.ts`, `instance-observer.ts`, `connection.ts`, `incident.ts`, `producer.ts` |
| `FencedLease` | what a leased claim promises; `HostLifecycle` implements it | |
| `TaskScheduler` | tasks: ticks, joins, claims, runs | `task-scheduler.ts`, `task.repository.ts`, `task-signals.ts`, `task.ts` |
| `BotSchedules` | scheduled commands and sleep windows | `scheduler.ts`, `due.ts`, `schedule.ts`, `instance.controller.ts` |
| `ArtifactCollection` | player lists and replays | `artifact.ts`, `artifact.repository.ts` |
| `SetupCheck` | comparing a host with what is saved | `reconcile.ts`, `config-drift.ts`, `config.ts` |
| `ConfigForms` | the forms over a bot's configuration | `instance-settings-form.tsx`, `instance.controller.ts` |
| `TaskEditor` | the tasks of a bot's page | `instance-tasks.tsx`, `schedule.ts`, `instance.controller.ts` |
| `FormattedText` | printed text into lines and spans | `minecraft-text.ts` |
| `LiveControl` | live calls, console, history | `live-control.ts`, `control.ts`, `mcp.ts`, `console-composer.tsx` |
| `HostReachability` | polling, condition, intervals, bars | `health-poller.ts`, `reachability.ts`, `rollup.ts` |
| `ReadConnections` | shared connections and channels | `read-connections.ts`, `limiter.ts`, `connection.ts`, `host-reader.ts` |
| `HostPreparation` | setup script, host check, facts | `host-setup.ts`, `check.ts`, `podman-facts.ts`, `express-install.ts` |
| `EnrolWizard` | the wizard and root session | `enroll-host-steps.tsx`, `root-session.ts` |
| `MessageSenders` | egress policy, pinning, providers, SMTP | `egress.ts`, `pinned.ts`, `sender.ts`, `smtp.client.ts` |
| `Destinations` | managing destinations, the alerts page | `destination.controller.ts`, `_authenticated.alerts.tsx` |
| `Membership` | registration, invitations, members | `bootstrap-owner.ts`, `member.controller.ts`, `members.ts` |
| `ControlPlane` | processes, singleton lock, queues, heartbeat | `bootstrap.ts`, `singleton.ts`, `queue-setup.ts`, `fleet-status.ts` |
| `SelfHost` | installer and self-host script | `self-host.sh`, `install.sh`, `self-host.controller.ts` |
| `UpdateCheck`, `ReleaseNotes` | the update check; reading release notes | `update-check.ts`, `update-status.ts`, `release-notes.ts` |
| `InstanceClaimsProofs`, `AlertDeliveryProofs`, `TaskSchedulerProofs` | theorems about the module each is named after | |
| `StatusAndTasksProofs` | theorems about `StatusIncidents` and `TaskEditor` | |
| `OperatorProofs` | theorems about `Destinations`, `Membership`, `HostPreparation`, `UpdateCheck`, `EnrolWizard` and `ControlPlane` | |
| `ConnectionProofs` | theorems about `ReadConnections`, `LiveControl`, `SelfHost` and `MessageSenders` | |
| `BotProofs` | theorems about `ArtifactCollection`, `BotSchedules`, `SetupCheck`, `HostReachability`, `ConfigForms` and `HostLifecycle` | |
| `ListOps` | `filter` as the web code uses it, the sum `rollUpWindow` reduces to | `instance-tasks.tsx`, `rollup.ts` |
| `Loops` | lemmas about loops, filters, sums and lists that the proofs share | |
| `MCHost`, `MCAlert`, `MCInstance`, `MCStatus` | instances of one module | |
| `MCBot`, `MCOperators`, `MCOnboarding` | instances of several modules each | |

A transaction is one action where its statements cannot be told apart from
outside, and is split where it reads what another transaction may change before
it locks (READ COMMITTED). A remote command is one action; so is each way it can
end.

### HostLifecycle

One host is enough: rows of two hosts share nothing. `row` is the host row
(`Row`), `stale` standing for "the lease of the attempt is over"; `machine` is
what is on the host and which key it presents; `prov` are the running
`provision` calls; `writes` are the progress writes in flight, `jobs` the
teardown jobs, `probed` the key a `retrust` has seen but not stored, and
`lastAttempt` the attempt ids handed out.

A call goes `ProvisionRead` → `ProvisionClaim` (or `ProvisionRefused`) →
`Connect` → `ReportStep`/`RunStep` per step → `ProvisionFinish`,
`ProvisionFail` or `ProvisionRelease`. `Claimable` is the `WHERE` clause of
`claimForProvisioning`, `Owns` that of `finalizeProvisioning`. A step's remote
effects are abstracted to "wrote something or not" (`WriteSteps`). A lease may
run out at any time (`LeaseExpires`): nothing in the code ties the length of a
set-up to it, and exclusivity does not depend on it.

A host whose first set-up failed half way is deleted outright and what it wrote
stays on the machine (`host.controller.ts:144`); `RemovedOnlyWhenCleaned` is
therefore claimed for hosts that were set up once.

### AlertDelivery

`state` is the state of each delivery (event, destination), `jobs` counts the
jobs waiting for it by attempt number, `letters` its dead letters; `handler` is
what each worker slot has in hand between its awaits; `ann` and `retrying` hold
what `announce` and the operator's retry have read and not yet committed.
`accepted` counts acknowledgements of the receiver and `observed` the latest
answer settled: history, for the properties. The network's answer is a choice
among the classes of `outcome.ts`. `Abort` is a handler that ends without
settling: an exception, a job that expired, or a worker that died.

### InstanceClaims

`row` holds both claims and the settings, `host` the unit, environment and
document on the machine, `late` the commands that timed out. `Program` gives the
commands of each change in order; `Exec`, `ExecFails` and `TimesOut` run one.
After a time-out the call keeps its claim (`claimedExec`), and the command may
still take effect (`Lands`) until the lease is over. `Quiet` guards the expiry of
a lease when `Stalls` is false: the waits of each change fit its lease, which
the repository's own tests check (`instance.controller.test.ts:1893`,
`authenticate.test.ts:1020`). With `Stalls` true a call may outlast its lease.
The layout steps of a create are grouped, and so are the four remote steps of a
removal, as `wipe`: what a removal cut short between them leaves is the business of the
next removal, which starts over. `HostMoves`
is systemd: it may restart, start or stop the unit when it is laid down, which
also stands for the timers of a sleep window.

### StatusIncidents

`journal` is the bot's log reduced to the lines that carry a signal, `db` what is
committed, `lock` who holds the condition row and the open interval's row,
`poller` and `worker` what the two transactions have read and not yet written.
The poller closes the interval and then writes the condition, the worker the
other way round: they can deadlock (`Deadlocked`; PostgreSQL fails one), and a
poller that waited for the interval finds that another was opened
(`OpenConflicts`, the unique index). Reading includes the line of the cursor and
withholds the last line of a full batch, as `instance-observer.ts` does. `afresh` counts
the times a bot with a known condition was read from the seed: after a restart
between the record and the cursor, or a refused cursor.

### The other components

Each models the steps of its code between awaits; what is told below is what a
reader could not guess.

- `FencedLease` is abstract: one holder, a number no earlier holder had, take-over
  only after the lease ran out, reports by the latest holder alone, a guarded value
  that changes only while nobody's lease runs. `HostLifecycle!Lease` maps the host
  row to it (attempt ids are the numbers, the step on show the report, the trusted
  key the guarded value) and `ClaimIsAFencedLease` says every step of the host is a
  step of the lease or none, which is also proved.
- `TaskScheduler`: `Zone` gives the local day and minute of each instant, so that a
  minute may come twice or not at all. A claim key is what the unique index is over.
  `delivered` is history: what the bot received, by key. A respawn is left out. Of
  joins noted at the same time a tick may take any, since the order of the query
  leaves it open. `OncePerStart` asks for one first login of a start only within the
  time signals are kept (120 days): of a bot that runs on and is not joined for as
  long the row that says so is gone, and the next join counts as the first again.
  The proof found that limit; `SignalRetention` in the run is short enough to reach it.
- `BotSchedules`: `LocalTime` likewise; `RanBefore` is the claim's guard with
  `startOfLocalDay` as the code computes it, wrong by an hour on two days of a year;
  `OncePerLocalDay` shows that `isDue` covers for it. `unsettled` marks what the
  code leaves open: calls that overlapped, a host lost or a failed save. A command
  refused while a window is set is undone (`HostStepRefused`); one refused while timers
  are taken away is passed over (`ClearStepRefused`), since `removeSleepTimers` looks at no
  exit code, and the clear deletes the row all the same. `leftBehind` marks that case,
  the only one in which timers may stand without a stored window.
- `ArtifactCollection`: a read of the list, its fingerprint and the unit's state are
  one step, since one remote command makes them; emptying compares the fingerprint
  on the host in the same command.
- `ReadConnections`: `Retrust` changes the row and `Evict` follows it; the property
  allows the moment between them. Closing a connection abandons every read that
  waits in its queue, as `shutDown` does.
- `SetupCheck`: a configuration is a value by key; `quiet` says nothing changed
  during the check. Renaming, deleting or adding a key is a value `nothing`.
- `HostPreparation`: a machine is a record of the facts the script, the check and
  provisioning look at; a section of the script may leave any machine its commands
  can, or stop. The script refuses an account without a login shell or a home folder;
  the check looks at the user's systemd and at rootless Podman, and provisioning at the
  home folder as well, which the check never does.
- `HostReachability`: `Second` is how many units of the clock make a second, two in the
  run, so that every overlap is rounded as `overlapSeconds` does. The bars and the
  page's figure round separately; `BarsAddUp` allows each interval half a second per bar
  and half a second in the whole, and no more.
- `LiveControl`: a check that is being waited for may be joined by later calls and given
  up by a stop. `passed` is history: in which run a call asked, and of which run the
  answer was that let it on. A call that was already waiting when the bot stopped does
  go on with the old answer (`instance.controller.ts:432`); one that asks after
  the stop does not, and that is what `LiveCallsAreSound` says.
- `UpdateCheck`: a check finds any release that was published, the latest or not, as
  GitHub may answer after a release was withdrawn or made for an older line, and
  `RecordedVersion` stores it: an offer may be taken back by a check that found a
  release, and only by such a one. A recorded source that cannot be used
  (`SourceEdited`) ends a check before it asks.
- `EnrolWizard`: what answers at an address is a host key and may be swapped; an
  answer reaches the page unless its mutation was reset, started again or unmounted.
- `MessageSenders`: addresses are numbers narrowed to `ByteBits` a byte; the code's
  comparison byte by byte (`Within`) is checked against arithmetic (`InBlock`). `Power` is
  the power of two, written as a function so that it can be proved about. A reply of SMTP
  is settled by `ClassifySmtpReply`, whose successes are 200 to 399: an answer of that
  kind to AUTH LOGIN or DATA, where another was expected, counts the mail as delivered
  although no server took it. `OneCopyPerAttempt` says where that happens and that
  it happens nowhere else.
- `Destinations`: from its first write to its commit a transaction is one step; what
  it read before may be stale, and `overwritten` marks a row written over like that.
- `SelfHost`: every write of the script and the note that follows it are two steps,
  with a signal possible between them (`unnoted`), as is an edit of
  `authorized_keys` by somebody else (`disturbed`). Making the file (`CreateFile`) and
  appending to it (`AppendEntry`) are steps of their own: a run that ends between
  them leaves the file, empty, and `.ssh`, because `take_back` looks at the file only for
  a run that appended to it; `FailureLeavesNothing` names that remainder.
- `ReleaseNotes` is an algorithm: a line is one of the kinds the patterns tell
  apart, the loop of `parseReleaseNotes` is a fold over lines, and the reference is
  a count of fences from the top.
- `FormattedText` is an algorithm too: one character stands for each kind the parser
  tells apart, a colour has `HexDigits` digits, and the reference gives each place
  its style from the codes before it.
- `TaskEditor`: a press in the form is a step, also while a save is under way, and a
  success closes whichever draft is open by then, as the code does. `begun` marks
  the draft a row was inserted from.

## Runs

The calls, announcers and events of an instance are interchangeable, and the runs
without liveness use that symmetry. All runs switch the deadlock check off: a system whose host, bot or destination
was removed, or whose bounds are spent, has nothing more to do.

| Run | Instance | Shows |
| --- | --- | --- |
| `host_setup` | 2 calls, 2 keys, 2 steps, 2 attempts | a host is finished by the call that holds its claim, over the trusted key; late progress writes do no harm; bots keep their host |
| `host_removal` | 1 call, 2 jobs, 1 retry, fair | a removal is pending, explained, or lost on its last try, and would be accepted again; a set-up host goes only when clean; every teardown job ends |
| `host_wiped_bot` | as above, 2 keys | finding 1 |
| `alert_one_worker` | 2 events, 2 announcers, 1 handler, 2 tries by the operator, 1 fault | no queued delivery is forgotten, failed ones are set aside, no duplicates without faults, delivered is final |
| `alert_flow` | 2 events, 2 handlers, no fault and no retry by the operator, fair | health is that of the latest answer; queued deliveries settle where no worker dies |
| `instance_changes` | 2 calls, all changes, server restarts, 3 claim ids | changes exclude each other and late commands; started as saved; removed leaves nothing |
| `instance_leases` | 2 saves that may outlast their lease, restarts | no save overwrites another unseen |
| `status_watch` | 3 lines, 2 incidents, 1 reading afresh, batches of 2, grace 1 | interval, watch, quiet after close, recoveries, flapping, nothing skipped |
| `status_timer_lost` | 2 lines, 1 reading afresh, fair | finding 2 |
| `bot_upkeep` | `BotSchedules`, `ArtifactCollection`, `ConfigForms`, `SetupCheck`, `ReadConnections`, `HostReachability`, `LiveControl`, `FormattedText` | scheduled once a local day and timers as set; nothing deleted that was not stored; no save undoes an unseen change; "converged" is true; readers, slots and connections; timeline, badge and bars; no later call on an answer from before a stop, an honest audit log; text shown as printed |
| `operators` | `TaskScheduler`, `TaskEditor`, `Membership`, `Destinations` | runs once and true records; tasks as they were edited; an owner, invitations once; throttled tests and key overlap |
| `onboarding` | `HostPreparation`, `EnrolWizard`, `SelfHost`, `UpdateCheck`, `ReleaseNotes`, `ControlPlane`, `MessageSenders` | printed means prepared; enrolled was checked and root only to a confirmed key; the script's word; updates offered; notes whole; one server, queues, an honest banner; vetted addresses and one copy |

The last three put several modules in one run. Their modules share no variable, so
the run's module has a variable `part` that is chosen at the start and each
behaviour takes the steps of that part alone: the states are the sum of the parts'
and not their product, and each property is checked in its part as if it were run
alone. Actors of different parts are given the same model values, which is what
makes one symmetry set enough: a permutation acts on the part that moves and leaves
the initial state of the others as it is.

A run's invariant is often a conjunction of named parts (`AlertsAreKept`,
`OneChangeAtATime`, `TasksRunAndAreRecorded`, `ConsoleIsSound`, ...), each with its own comment in its module;
a type invariant, where there is one, is such a part.

Why the bounds suffice for what is claimed. Two calls and two attempts give
every overlap of an old and a new holder; a third would repeat it. Two keys tell
"the trusted one" from "the other one". Two steps, one of which writes, give a
failure before, between and after. Two teardown jobs are the removal and a
second removal after the host came back. For alerts, two events give two
deliveries of one destination that settle in either order, and deliveries of two
destinations meet nowhere but in `announce`. Three claim ids are one change, its
successor and a third that finds what both left. In the journal three lines are
a loss, a rejoin and a loss; with batches of two the cap is reached. One
transaction that records two changes at once would need four lines and is beyond
this instance.

In the sums, two actors of each kind give every overlap of two; one more would
repeat it. The local times hold a minute that comes twice and one that is skipped,
and days on both sides. `Machines` are those that differ from a prepared machine in
at most two respects or from a bare one in one. Addresses are four bits, all of them
asked for, with ranges of each length the code's lists have in kind. Release notes
are every text of four lines of the kinds told apart, printed texts every one of
five characters, of which a colour in digits takes four. Three constraints, all named
`Apart`, keep apart what only multiplies: in `MCBot` a renamed player list from
replays, a third live call from stops, and a third save of a form from a second
edit and from a failed one; in `MCOperators` a task's joins from edits of one that runs by the clock,
the second edit and second join from stops and crashes, an administrator's
fourth press from messages, a draft of more than a press from the other page,
and one of more than two from requests unless it is of a new task; in
`MCOnboarding` a third start of a process from a broken session, a third edit of
the wizard's form from a fourth call, and a second change of what a name resolves
to from a second attempt. `RunsAsScheduled` needs what the code's constants give: a
run row is kept longer than its trigger can come back (`RunRetention`, seven days there,
against minutes of catching up and the hours of a local day) and a tick ends before
the next but one (`TickMax`). `TaskConstants` states it as an assumption; without it,
one step beyond either limit, TLC finds a run sent twice.

Every property has a mutant in `PROJECT.json`: a change to one mapped definition
of the kind a slip in the code would be (a dropped guard, a missing reset, a
write in the wrong order), under which TLC finds the property violated. The modules
keep further mutations, each marked "Mutation of", for the other parts of a
conjunction: among them `ClaimableAnyway` and `CanRunUnverified` in
`InstanceClaims`, `RetryWithoutJob` and `TakeUnchecked` in `AlertDelivery`,
`WorthAnnouncingAlways` in `StatusIncidents`, `SleepLeave` in `BotSchedules`,
`FinishFailedCounted` in `TaskScheduler`, `AfterCodeLate` in `FormattedText`,
`RowTrusted` in `ReadConnections`, `BucketStartAligned` in `HostReachability`.

## Fairness

- `HostLifecycle!FairSpec`: weak fairness of each job's steps. The worker polls
  its queue for ever, and each command of a teardown has a timeout.
- `AlertDelivery!FairSpec`: weak fairness of the worker's steps. Sends have
  timeouts. The run has no faults: with one, a delivery may stay queued, which
  `src/docs/alerts-ui-plan.md:154-156` acknowledges.
- `StatusIncidents!FairSpec`: time passes (strong fairness, because the bound
  `Horizon` holds the clock while a change is being recorded), polls that were begun
  go on, the worker takes due jobs; strong fairness of the escalation's steps, for PostgreSQL grants row locks in
  the order they were asked for; deadlocks are broken.

Nothing an operator does, and no new poll, line or failure, is ever owed.

## What is proved

TLAPS checks the theorems of the modules named `...Proofs`, for every value of
the constants that the assumptions of the model allow: any number of calls,
readers, keys, events, faults, where TLC has two. Each safety theorem follows
from an inductive invariant, named here with what it adds to the property, which
is seldom inductive alone.

**`HostLifecycle`** (in `BotProofs`), from `StepsAssumption`, `BoundsAssumption` and
`KeysAssumption` (the bounds are natural numbers, there is a step, the steps that
write are steps, and no key is the null key): `TypeCorrect`,
`LiveClaimUsesTrustedKey`, `ProgressIsCurrent`, `BotsAreHosted`,
`RemovalsArePending`, the invariants of the two host runs, and `OnlyTheHolderFinishes`,
`FailureStepIsKept` and `SetUpHostsAreCleaned`, their action properties. All follow from
`HostInvariant`, `Spec => []HostInv`, which adds

- `AttemptsHandedOut` (no call, row or write knows an attempt id that was not
  handed out) and `RowAttemptIsLatest` (the row names the latest one): without
  them a step could find an "old" attempt equal to the one claimed next, which
  is what the fence of the finaliser and the order of progress writes turn on;
- `TryLeft` (a job that is queued or active has a try left), which bounds the
  retries and makes "pending" mean something in `RemovalIsPending`;
- `RunningNotFailed` (a row that is being set up records no failure), so that a
  failure and a claim never coexist and late progress finds no row to write.

`HostClaimIsALease` is the refinement: `HostLifecycle` implements `FencedLease`.
Its steps need `ClaimMatchesStatus` beside `HostInv` (a host being set up is
claimed, a claim outside set-up has run out), without which giving back a claim
could not be told from losing it.

**`InstanceClaimsProofs`**: `ClaimsAreDistinct` (`ShapeInv`) and `NoSaveIsLost`
hold with and without calls that outlast their lease; `NoSaveIsLost` needs
`SavesAreCurrent`, that a save which still owns its claim read the settings the row
has. `OneChangeWorks` and `HostIsAsReported` assume `~Stalls`, which is what the
waits of the controller are set up for and its tests check
(`instance.controller.test.ts:1893`); with `Stalls` they are false, as the code
accepts. `OneChangeWorks` follows from `HoldInv`: a change at work holds the live
claim (`ChangesHold`), so does every command it left behind (`LateHold`), and the
call that left it keeps the claim (`LateIsKept`). `HostIsAsReported` adds `WorkInv`:
what each point of the program of a start and of a removal has already put on the
host, and that nothing but a command of its own is left of a sign-in.

**`AlertDeliveryProofs`**: `TypeCorrect`, `NothingIsForgotten`, `FailuresAreSetAside`
and `DeliveriesHaveParents` are inductive together (`KeptInv`). `HealthIsOfTheLatest`
adds `HealthFollows`, which says in which column of a destination's row the time of
its latest answer is. `NothingIsSentTwice`, and with it `NoAlertIsLost` and
`DeliveredStays`, assume `OneHandlerEach`: no two handlers serve one destination's
queue. The worker registers one handler for each queue
(`src/apps/worker/src/bootstrap.ts:287-288`), and the control plane is run with one
worker. `OnceInv` counts: each acknowledgement but the last was paid for by a fault,
and the last one too unless nothing more will be sent.

**`ConnectionProofs`** holds those of the parts that reach out of the server.

For `ReadConnections`, from `ReadAssumption` (a limit of at least one channel, finitely
many readers): `ReadersAreTrusted`, `SlotsAreNotLost`, `ConnectionsHold`.
`ReadInv` ties readers to connections (`ReaderOK`: a read is under way only on a
lease that was handed out, over a connection that is not closed; a lease is to the
host as the reader looked it up), the entry to connections (`EntryOK`: what is
installed is open and not retired, what is pending is opening) and a connection's
count and queue to the readers that hold a slot or wait for one (`SlotsOK`: the
queue has no reader twice). The proof is organised by what steps do to slots:
`SlotTaken`, `SlotLeft`, `SlotFreed`, and `ConnsClosed` for everything that closes.

For `LiveControl`, from `LiveAssumption` (bounds are natural numbers, the hotbar is slots),
for any calls and slots: `CallsAreSound`, which is `ConsoleIsSound` without the parsing of
printed text. `PassedInRun` says of a call that waits that the answer it waits for was
asked in the run it started in or a later one, and `CheckedInRun` that a check others may
still join is of the run the bot is in. `LiveInv` says that a remembered answer, and a check on its way to
bring one, is of the run the bot is in, since stopping forgets both; and it
counts: what is recorded with what waits to be recorded is what the client did, and
that with what waits for the client is what was pressed.

For `SelfHost`, from `SelfHostAssumption` (bounds are natural numbers) alone, for any
number of administrators, runs and edits by others: `ScriptKeepsItsWord`. `SelfInv` adds

- where the script stands, what it has seen to (`Placed`), and that a write without its
  note is only at the places where a signal can come between the two;
- that what the run noted is what it changed since it started (`Noted`), for all but
  `authorized_keys`, which others edit; that file is, while nobody else edits it, as the run
  found it, with the entry at its end from the append to its removal (`FileNoted`). Taking
  the entry back gives the old file because the filter takes the line out where it stands
  last (`LastIsOut`, `AppendedIsOut`);
- while nobody else edits the file at all, that every line is restricted and the offer in
  `.env` is backed not only now but in what the run found (`Untouched`), so that taking back
  never takes what the offer rests on.

For `MessageSenders`, from `SendAssumption` (a byte has at least one bit; ranges, answers
and settings are well formed; a mail server is not named with http): `SendsReachVettedAddresses`,
for any width of a byte, ranges, policy and answers, at whatever moment the name's answer
changes. `SendInv` keeps that every pinned address is vetted for the settings of the
attempt, that each connection opened went to such an address, that what took the mail
is at one address, and at which stage a conversation that counts as delivered ended. `OnlyVettedAddresses` is stated with arithmetic, and the code compares masked bytes, so the
proof needs that the two agree: `WithinIsInBlock`, from lemmas about powers of two and
quotients (`PowerOfSum`, `QuotientTwice`, `QuotientOfSum`).

**`StatusAndTasksProofs`** holds the proofs that go through lists of any length a
member at a time.

For `StatusIncidents`, from `TimesAssumption`, `CountsAssumption` and
`OwnersAssumption` (times and bounds are natural numbers; the server, the handlers
and "nobody" are three things), for any journal, batch, number of handlers and
tries: `ConditionCarried`, `CausesComeFirst`, `NoLineIsSkipped`, the invariants of
`status_watch`, and its action property `ClosedIsQuiet`. `StatusInv` adds

- of what is committed (`CommittedInv`), that no event, job or alert is of an incident
  beyond those opened (`Numbered`), that whoever was told of the open incident was
  told of no other recovery since (`Told`), that the condition remembers the last
  flapping alert (`Cooled`), and that a bot that is interrupted has an open incident
  that was not escalated, whose job is not due before its grace period is over
  (`Watched`), the last only until the bot is read afresh, which is the finding below;
- of a poll (`PollInv`), that the changes it carries lead from what it had seen to
  what its last line says, and fit the condition although a handler may have
  committed since (`Fits`: an interrupted bot may have become "down"); what it found
  out about the first change before it held a row is still true when it writes;
- of a handler (`HandlerInv`), that past its claim it holds the condition row and its
  incident can still be claimed; without the lock a rejoin could come between.

What a poll reads and writes are loops over lists of any length. The library's
induction theorem cannot be used (it takes an operator), so two lemmas state what is
needed of it for sets: `EveryNumber` (a set with 0, closed under successor, has every
natural number, since the least one missing would have a predecessor) and
`LoopHasResults` (a loop over a list has its sequence of results). Each loop has a
lemma on top: what every line of a batch keeps, and what every round of the
transaction keeps.

For `TaskEditor`, from `EditorAssumption` (bounds are natural numbers, no command is
blank, one can be sent, a week has days), for any number of pages, tasks, keystrokes
and losses: `EditsAreKept`, the invariant of the `operators` run. `EditorInv` adds

- that the keys of a draft's parts are those handed out on its page (`KeysFit`), from
  which the next key is new; a filter keeps the members it keeps in their order, each
  once (`FilteredKeeps`), so that a removal leaves the others apart, and it returns a
  list whose members are all kept as it is (`AllKept`), so that a pause sends the task;
- that a new draft is in one page's hands (`DraftsApart`), and that one which its page
  can still store without a loss, because it is open or its save is on its way, was
  stored only as often as something was lost (`SavedOnce`): an answered save closes the
  draft or leaves one that was not stored.

**`OperatorProofs`** holds those of what operators set up and the processes that serve it.

- `Membership`, from `NamesAssumption` (the markers for "nobody" and "the
  founder" are not requests or invitations): `EntryIsKept`. `AccessInv` says what a
  request may count on at each of its steps: the lock it holds, that the account it
  made is nobody's membership, that the removal it decided on leaves an owner, that
  the invitations it is about to cancel still wait; `CallsApart` keeps two requests
  from minding one account.
- `Destinations`, from `DestAssumption` (finitely many deliveries; no page is
  named as the unset one): `DestinationsKept`. `KeysFollow` says which keys a row has
  kept, from which what is usable follows; `TestsLocked`, that a page which counted the
  tests holds the lock and that what it counted still leaves room, because all other
  steps create no test and time only takes tests out of a window; `PagesFit`, that a page
  never asks past its end, rests on a lemma about the last page.
- `ControlPlane`, from `ServerNamesAssumption` and `CreationOrder` (that
  `orderedForCreation` puts a dead letter queue before the queue that names it, which
  TLC evaluates on the queues of the code): `OneServerActs`, `BannerIsTrue`,
  `FleetIsSound`. `FleetInv` adds that a lock granted and not lost is held, that a
  process past a queue has made it, and that neither the worker's row nor a heartbeat
  on its way says anything was seen later than such a worker was up.
- `EnrolWizard`: `WizardVets`. `EnrolInv` ties what is shown, what is being enrolled
  and what a root credential is on its way to, to what was asked about: an enrolment
  under way keeps the last step open (`AnswersRight`), a confirmed key stands beside
  the address it was read from (`ConfirmedRight`).
- `HostPreparation`, for any set of machines (`MachinesAssumption` says only what a
  machine's facts are): `PreparedIsTrue`. `PrepareInv` says what each section of a run
  has made sure of (`RunsLeave`); it stands because no section takes back what another
  makes sure of, which is a lemma about the script.
- `UpdateCheck`: `UpdatesAreBacked`. `UpdateInv` adds that an answer on its way is of a
  published release (`AnswersArePublished`), that what was offered is what the row says
  (`OffersAreBacked`), and a count: each question that came too soon was paid for by a
  fault, and so was a latest one whose answer is lost (`AsksArePaidFor`), without which
  the next one too soon would not be.

**`BotProofs`** holds those of the work on bots beside the change of one, and of
`HostLifecycle` above.

- `ArtifactCollection`, with at least one name for the list: `CollectedIsStored`.
  `CollectInv` says when what a collector carries is good for a file: if the file still
  shows the cursor's mark at the cursor's offset, all up to there is stored; if it shows
  what a read found at its end, it holds the chunk that was read. Both survive renames,
  truncation and other collectors because an entry is written once, in one place
  (`EntriesOnce`). The proof attempt found a mistake of the model: the history of what
  was emptied took in replays that were still on the host.
- `BotSchedules`: `SchedulesHold`, from `LocalTimeAssumption` (a clock that shows
  something) and `DaysAscend` (no zone is set back past midnight). `CommandInv` needs
  that one tick is at work at a time: the row it read tells all that was sent of it
  (`TickKnows`), so the date of the last run is enough, where the claim's midnight
  alone is not. `SleepInv` follows a call that overlapped no other step by step, through
  refused commands that are undone and refused ones that are passed over (`CallWrote`).
- `SetupCheck`: `ChecksAreHonest`. `SetupInv` says of a check still at work what the
  property says of one that is over: undisturbed, it has found nothing exactly when all
  it has read so far is right (`FoundSoFar`).
- `HostReachability`: `StatusPageIsHonest`, and `ReachabilityRecorded` for the record
  without the bars. `ReachInv` adds that a poll records one answer at most, of the
  moment it began (`Polling`), and that the last alerting event is of the latest
  incident, open exactly while the host is down (`Incidents`). For the bars, the
  intervals start in order and none in the future (`Ascends`); what an interval overlaps
  two windows in a row is what it overlaps both together, each but for half a second of
  rounding, so the sums of the bars join into that of the page within the bound of
  `BarsAddUp`; and what the intervals overlap a window that ends now grows, one
  after the other, to the whole of it since the first started. The sums are `Summed`, a
  function of how far along the list it is, which `Loops` unfolds.
- `ConfigForms`: `NothingIsUndoneUnseen`. `FormsInv` follows a draft: it differs from
  its version only where it was edited, a save carries such a draft under the claim, and
  the version it inserts is the draft.

**`TaskSchedulerProofs`**, from `TasksAssumption` (`Zone` is a list of days and minutes,
variants have finitely many times, and the two limits of `RunRetention` above):
`TasksRunSoundly`, for any number of ticks, variants, edits, joins, stops and crashes.
`TasksInv` has one part for each thing that outlives a step.

- `DeliveriesSound`: what was delivered is sealed. Its key has a run still; or is of a
  task that is gone, whose id no new one gets; or the sweep that took the run for its age
  came so late that no tick at work, and none to come, has the occasion among its
  claims. This is where the two limits on `RunRetention` are used, one for joins, one
  for a minute that comes twice in a local day.
- `ClaimsSound`: what a tick has planned from rows it read before is of a key that was
  not delivered, or has its run; what it is sending is recorded as running, and the bot
  has received as much as the tick has counted, after a failure perhaps more.
- `SignalsSound`, `JoinsSound` and `FirstsSound`: every line of the journal behind the
  cursor is noted while rows of its age are kept (so a cursor saved late repeats, and
  never skips), a process has one first join among the rows, and a first login was sent
  for one that had such a row.
- `IntervalsSound`: the interval is armed past what was sent by the shortest gap, in
  the row, in what a tick has read of it, and in what it claims.
- `RunsSound`, `WorldTypes` and `TickTypes`: a run records no more than was received,
  and one tick is at work at a time, for no longer than `TickMax`.

The proof attempts changed the model twice: the choice among joins of one time, which
had been fixed, and the limit of `OncePerStart`.

Only model-checked:

- liveness (`TeardownSettles`, `QueuedSettles`, `InterruptedSettles`),
  which is outside the prover's reach, as is `ENABLED`;
- `ReleaseNotes` and `FormattedText`, which recurse over their text with operators
  the provers cannot take.

## Findings

Each is a statement of the repository that the modelled code does not keep; the
run named gives the trace.

1. `host_wiped_bot`: `provision` accepts a host that is being removed, which can
   then become ready and be given a bot, and the waiting teardown job cleans the
   machine under it.
2. `status_timer_lost`: reading a bot afresh moves the time of its loss under an
   incident whose only timer is set; the timer fires early and the bot stays
   interrupted unannounced.

Met on the way and kept as hazards with a note, without a run: a bot that needs
its sign-in can be stopped and then started; cancelling a sign-in releases the claim
of one that is still being begun; a unit reading taken before a start and recorded
after it marks the started bot failed; a stretch in which nobody polled counts for
the interval before it; two edits of one destination that overlap overwrite one
another; an unexpected success at AUTH LOGIN or DATA settles a mail as delivered that
no server took; a clear of a sleep window whose commands are refused deletes the row and
leaves the timers; pausing a task from an old page undoes a newer edit of it; and any success
on the tasks of a page closes the draft that is open, with what was typed.

## Not modelled

- In `AlertDelivery`: what `Destinations` models, which the delivery control never
  reads; deletion of old notifications.
- In `InstanceClaims`: sleep timers, except through `HostMoves`; renaming and other
  single statements.
- In `StatusIncidents`: removal of the bot under a poll, skipping a bot that needs
  its sign-in, the difference between a kick and a lost connection; a subscribed
  destination is assumed, so that every alert raised is stored.
- In `TaskScheduler`: respawns. In `ArtifactCollection`: archive formats. In
  `LiveControl`: reading the journal, and the components of chat messages. In
  `TaskEditor`: the gap between steps, the time zone, clock times. In `ReleaseNotes`: spans inside a block.
  In `ControlPlane`: what a server writes of itself, which nothing reads.
- The scripts under `src/scripts/sandbox`, which are integration tests against real
  containers; text handling beyond what properties tell apart; cryptography; the SSH
  protocol; layout and navigation of the web application; migrations.

## Plan

1. The configuration claim of `InstanceClaims` as a second implementation of
   `FencedLease`.
2. The composition of `StatusIncidents` with `AlertDelivery` through `announce`, and
   of `TaskScheduler` with `InstanceClaims` through the bot's status.
