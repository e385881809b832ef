--------------------------- MODULE TaskScheduler ---------------------------
(***************************************************************************)
(* Tasks of one bot: an ordered list of commands that is sent when the bot *)
(* joins, at times of the day, or at an interval.  The server's tick reads *)
(* the enabled tasks and the bot's state, drains the bot's journal of      *)
(* joins, works out which runs are claimed, and for each inserts a row     *)
(* with a unique key before it sends the first command.  Operators edit    *)
(* and delete the task, the bot stops and rejoins, and the server may      *)
(* restart between any two of these steps.                                 *)
(*                                                                         *)
(* A respawn is a join read from another source and is left out.           *)
(***************************************************************************)
EXTENDS Naturals, Sequences, FiniteSets, SequencesExt

CONSTANTS
    Ticks,           \* ticks of the timer that could be at work
    Zone,            \* the local day and minute at each instant
    Variants,        \* what operators make of the task
    Steps,           \* commands of the task
    Grace,           \* CATCH_UP_GRACE_MINUTES
    SignalCatchUp,   \* TASK_SIGNAL_CATCH_UP_MS
    AbandonAfter,    \* TASK_ABANDONED_AFTER_MS
    RunRetention,    \* TASK_RUN_RETENTION_DAYS
    SignalRetention, \* TASK_SIGNAL_RETENTION_DAYS
    Rounds,          \* JOIN_DRAIN_ROUNDS
    JournalMax,      \* JOURNAL_MAX_LINES
    TickMax,         \* bound: how long a tick lasts, by the timeouts of what it calls
    MaxJoins,        \* bound: lines of the journal
    MaxStops,        \* bound: stops of the bot
    MaxTaskEdits,        \* bound: edits of the task
    MaxCrashes       \* bound: restarts of the server

\* What the constants may be.  A run is kept until its trigger cannot come back:
\* a join that a tick may still catch up with, a minute of the same local day.
TaskConstants ==
    /\ Zone \in Seq([day : Nat, minute : Nat]) /\ Zone # <<>>
    /\ \A v \in Variants : /\ {v.enabled, v.onFirstLogin, v.onLogin} \subseteq BOOLEAN
                           /\ v.times \subseteq [days : SUBSET Nat, minute : Nat] /\ IsFiniteSet(v.times)
                           /\ v.every \subseteq Nat \ {0}
    /\ Steps \in Nat \ {0} /\ Rounds \in Nat \ {0} /\ JournalMax \in Nat \ {0}
    /\ {Grace, SignalCatchUp, AbandonAfter, TickMax, RunRetention, SignalRetention} \subseteq Nat
    /\ {MaxJoins, MaxStops, MaxTaskEdits, MaxCrashes} \subseteq Nat
    /\ SignalCatchUp + TickMax <= RunRetention
    /\ \A a, b \in DOMAIN Zone : Zone[a].day = Zone[b].day => b <= a + RunRetention
ASSUME TasksAssumption == TaskConstants

VARIABLES
    clock,
    bot,       \* is it running, and as which process
    journal,   \* the joins its journal shows
    task,      \* the task row
    taskEdits,     \* how often it was edited
    signals,   \* instanceSignal rows
    cursor,    \* instanceSignalCursor of the journal, NoValue before the seed
    seeded,    \* history: the last line a seed skipped to
    runs,      \* instanceTaskRun rows, by claim key
    tick,      \* ticks at work
    delivered, \* history: commands the bot received, by claim key
    crashes

vars == <<clock, bot, journal, task, taskEdits, signals, cursor, seeded, runs, tick, delivered, crashes>>

-----------------------------------------------------------------------------
NoValue == 0
Time == DOMAIN Zone
Process == 1..(MaxStops + 1)
Join == [process : Process, at : Time]
SignalRow == [process : Process, at : Time, first : BOOLEAN]

NoTask == [enabled |-> FALSE, onFirstLogin |-> FALSE, onLogin |-> FALSE, times |-> {},
           every |-> {}, id |-> NoValue, created |-> NoValue, next |-> NoValue, observed |-> NoValue]
Exists == task.id # NoValue

\* Claim keys: a join, a minute of a local day, or the moment an interval was
\* armed for, of one task.
LoginKey(id, s) == <<"login", id, s.process, s.at>>
TimeKey(id, day, minute) == <<"time", id, day, minute>>
IntervalKey(id, at) == <<"interval", id, at>>

Idle == [pc |-> "idle", at |-> NoValue, parts |-> NoTask, running |-> FALSE, round |-> 0,
         from |-> NoValue, next |-> NoValue, read |-> NoValue, claims |-> <<>>, sent |-> 0]

\* Values of a variable are changed one tick at a time.
TickTo(t, r) == tick' = [tick EXCEPT ![t] = r]

Init ==
    /\ clock = 1
    /\ bot = [up |-> FALSE, process |-> 1]
    /\ journal = <<>>
    /\ task = NoTask
    /\ taskEdits = 0
    /\ signals = {}
    /\ cursor = NoValue
    /\ seeded = NoValue
    /\ runs = <<>>
    /\ tick = [t \in Ticks |-> Idle]
    /\ delivered = <<>>
    /\ crashes = 0

-----------------------------------------------------------------------------
\* The world: time passes, the bot starts, stops, joins and rejoins.
Pass ==
    /\ clock < Len(Zone)
    /\ \A t \in Ticks : tick[t] # Idle => clock < tick[t].at + TickMax
    /\ clock' = clock + 1
    /\ UNCHANGED <<bot, journal, task, taskEdits, signals, cursor, seeded, runs, tick, delivered, crashes>>

BotJoins ==
    /\ Len(journal) < MaxJoins
    /\ bot.up
    /\ [process |-> bot.process, at |-> clock] \notin {journal[k] : k \in DOMAIN journal}
    /\ journal' = Append(journal, [process |-> bot.process, at |-> clock])
    /\ UNCHANGED <<clock, bot, task, taskEdits, signals, cursor, seeded, runs, tick, delivered, crashes>>

ClientStarts ==
    /\ ~bot.up
    /\ bot' = [bot EXCEPT !.up = TRUE]
    /\ UNCHANGED <<clock, journal, task, taskEdits, signals, cursor, seeded, runs, tick, delivered, crashes>>

ClientStops ==
    /\ bot.up
    /\ bot.process <= MaxStops
    /\ bot' = [up |-> FALSE, process |-> bot.process + 1]
    /\ UNCHANGED <<clock, journal, task, taskEdits, signals, cursor, seeded, runs, tick, delivered, crashes>>

\* A task without a trigger is refused.
ValidTask(v) == v.onFirstLogin \/ v.onLogin \/ v.times # {} \/ v.every # {}

\* A new task, or the old one with its commands, times and triggers replaced;
\* its interval is disarmed.
StoredTask(v) ==
    [enabled |-> v.enabled, onFirstLogin |-> v.onFirstLogin, onLogin |-> v.onLogin,
     times |-> v.times, every |-> v.every, next |-> NoValue, observed |-> NoValue,
     id |-> IF Exists THEN task.id ELSE taskEdits + 1,
     created |-> IF Exists THEN task.created ELSE clock]

SetTask(v) ==
    /\ taskEdits < MaxTaskEdits
    /\ ValidTask(v)
    /\ taskEdits' = taskEdits + 1
    /\ task' = StoredTask(v)
    /\ UNCHANGED <<clock, bot, journal, signals, cursor, seeded, runs, tick, delivered, crashes>>

\* deleteTask: the runs of the task go with it.
DeleteTask ==
    /\ Exists
    /\ task' = NoTask
    /\ runs' = <<>>
    /\ UNCHANGED <<clock, bot, journal, taskEdits, signals, cursor, seeded, tick, delivered, crashes>>

-----------------------------------------------------------------------------
\* Rows kept by the sweep of a tick at time at: runs still "running" for too
\* long are abandoned, old ones deleted unless they were still running.
Kept(f, keep) == [k \in {j \in DOMAIN f : keep[j]} |-> f[k]]
SweptRuns(at) ==
    LET stale == [k \in DOMAIN runs |->
                    runs[k].outcome = "running" /\ runs[k].started + AbandonAfter < at]
        after == [k \in DOMAIN runs |->
                    IF stale[k] THEN [runs[k] EXCEPT !.outcome = "abandoned"] ELSE runs[k]]
    IN  Kept(after, [k \in DOMAIN runs |->
                       after[k].started + RunRetention >= at \/ after[k].outcome = "running"])
SweptSignals(at) == {s \in signals : s.at + SignalRetention >= at}

WantsJoinSignal(row) == row.onFirstLogin \/ row.onLogin

\* A tick sweeps (the sweep may fail), reads the enabled tasks and whether
\* the bot runs; it goes on if there is a task and the bot could be read.
SweepAndRead(t) ==
    LET observes == bot.up /\ WantsJoinSignal(task)
    IN  /\ \/ runs' = SweptRuns(clock) /\ signals' = SweptSignals(clock)
           \/ UNCHANGED <<runs, signals>>
        /\ \/ /\ task.enabled
              /\ TickTo(t, [Idle EXCEPT
                     !.pc = IF observes THEN "read" ELSE "claim", !.at = clock, !.parts = task,
                     !.running = bot.up, !.from = IF observes THEN cursor ELSE NoValue])
           \/ UNCHANGED tick
        /\ UNCHANGED <<clock, bot, journal, task, taskEdits, cursor, seeded, delivered, crashes>>

\* Mutation of TickStart: a tick does not wait for the one before it.
TickStartsAnyway(t) == tick[t] = Idle /\ SweepAndRead(t)

\* The timer starts a tick unless one is still at work.
TickStart(t) ==
    /\ \A u \in Ticks : tick[u] = Idle
    /\ SweepAndRead(t)

\* The drain of the journal is over, however it went.
Drained(t) == [tick[t] EXCEPT !.pc = "claim", !.round = 0, !.from = NoValue, !.next = NoValue, !.read = NoValue]

\* readJoinSightings: from a cursor the journal is read on, the line of the
\* cursor included, at most JournalMax lines beyond it; without one only the
\* end of the journal is noted.  The cursor may be refused.
ReadUpTo(from) == IF from + JournalMax < Len(journal) THEN from + JournalMax ELSE Len(journal)

\* Mutation of ReadJoins: the cursor is saved before the joins are recorded.
ReadAndSave(t) ==
    /\ tick[t].pc = "read"
    /\ cursor' = IF tick[t].from = NoValue THEN Len(journal) ELSE ReadUpTo(tick[t].from)
    /\ seeded' = IF tick[t].from = NoValue THEN Len(journal) ELSE seeded
    /\ TickTo(t, [tick[t] EXCEPT !.pc = IF tick[t].from = NoValue THEN "claim" ELSE "record",
                                 !.next = tick[t].from, !.read = ReadUpTo(tick[t].from)])
    /\ UNCHANGED <<clock, bot, journal, task, taskEdits, signals, runs, delivered, crashes>>

ReadJoins(t) ==
    LET from == tick[t].from
    IN  /\ tick[t].pc = "read"
        /\ \/ /\ from # NoValue
              /\ TickTo(t, [tick[t] EXCEPT !.pc = "record", !.next = from, !.read = ReadUpTo(from)])
           \/ /\ from = NoValue
              /\ TickTo(t, IF journal = <<>> THEN Drained(t)
                           ELSE [tick[t] EXCEPT !.pc = "save", !.read = Len(journal)])
           \/ /\ from # NoValue                         \* the cursor is refused
              /\ TickTo(t, IF tick[t].round + 1 < Rounds
                             THEN [tick[t] EXCEPT !.from = NoValue, !.round = @ + 1] ELSE Drained(t))
           \/ TickTo(t, Drained(t))                   \* the read failed
        /\ UNCHANGED <<clock, bot, journal, task, taskEdits, signals, cursor, seeded, runs, delivered, crashes>>

\* recordJoinSightings: one row per join and identity, marked when its
\* process had not been seen to join before.
HasJoinedAs(rows, process) == \E s \in rows : s.process = process

\* Mutation of Recorded: whether the process joined before is not asked.
RecordedAsFirst(rows, j) ==
    IF \E s \in rows : s.process = j.process /\ s.at = j.at THEN rows
    ELSE rows \cup {[process |-> j.process, at |-> j.at, first |-> TRUE]}

Recorded(rows, j) ==
    IF \E s \in rows : s.process = j.process /\ s.at = j.at THEN rows
    ELSE rows \cup {[process |-> j.process, at |-> j.at, first |-> ~HasJoinedAs(rows, j.process)]}

RecordJoins(t) ==
    /\ tick[t].pc = "record"
    /\ signals' = Recorded(signals, journal[tick[t].next])
    /\ TickTo(t, [tick[t] EXCEPT !.next = @ + 1,
                                 !.pc = IF tick[t].next < tick[t].read THEN "record" ELSE "save"])
    /\ UNCHANGED <<clock, bot, journal, task, taskEdits, cursor, seeded, runs, delivered, crashes>>

\* saveCursor, and another round while the batches come back full.
SaveCursor(t) ==
    LET full == tick[t].from # NoValue /\ tick[t].read = tick[t].from + JournalMax
        again == full /\ tick[t].round + 1 < Rounds
    IN  /\ tick[t].pc = "save"
        /\ cursor' = tick[t].read
        /\ seeded' = IF tick[t].from = NoValue THEN tick[t].read ELSE seeded
        /\ TickTo(t, IF again THEN [tick[t] EXCEPT !.pc = "read", !.from = tick[t].read,
                                        !.round = @ + 1, !.next = NoValue, !.read = NoValue]
                     ELSE Drained(t))
        /\ UNCHANGED <<clock, bot, journal, task, taskEdits, signals, runs, delivered, crashes>>

-----------------------------------------------------------------------------
\* signalClaims: the newest join in the catch-up window, if it is younger
\* than the task and a trigger asks for it.
Recent(at) == {s \in signals : s.at + SignalCatchUp >= at}
LatestOf(rows) == {s \in rows : \A r \in rows : r.at <= s.at}
SignalClaims(row, s) ==
    IF s.at > row.created /\ (row.onLogin \/ (row.onFirstLogin /\ s.first))
      THEN {[key |-> LoginKey(row.id, s),
             trigger |-> IF row.onFirstLogin /\ s.first THEN "firstLogin" ELSE "login"]}
      ELSE {}

\* isDue and timeClaims: a day of the week is one of a set of local days.
IsDue(time, at) ==
    /\ Zone[at].day \in time.days
    /\ Zone[at].minute >= time.minute
    /\ Zone[at].minute - time.minute <= Grace
TimeClaims(row, at) ==
    {[key |-> TimeKey(row.id, Zone[at].day, time.minute), trigger |-> "time"] :
        time \in {each \in row.times : IsDue(each, at)}}

\* intervalPlan: the interval counts down while the bot runs, is held while
\* it does not, and is armed anew, by a random length, as it fires.
IntervalFires(row, at, running) ==
    row.every # {} /\ row.next # NoValue /\ running /\ at >= row.next

\* Mutation of ArmedAt: armed from the moment that was due, not from now.
ArmedFromDue(row, at, running) ==
    IF row.next = NoValue THEN {at + length : length \in row.every}
    ELSE IF IntervalFires(row, at, running) THEN {row.next + length : length \in row.every}
    ELSE IF running THEN {row.next} ELSE {row.next + (at - row.observed)}

ArmedAt(row, at, running) ==
    IF row.next = NoValue \/ IntervalFires(row, at, running) THEN {at + length : length \in row.every}
    ELSE IF running THEN {row.next} ELSE {row.next + (at - row.observed)}
IntervalClaims(row, at, running) ==
    IF IntervalFires(row, at, running)
      THEN {[key |-> IntervalKey(row.id, row.next), trigger |-> "interval"]} ELSE {}

\* armInterval is by id and is refused by the row's own constraint once the
\* task has no interval any more; a refused one ends the task's turn.
ArmRefused(row) == row.every # {} /\ task.id = row.id /\ task.every = {}
ArmInterval(row, at, running) ==
    IF row.every # {} /\ task.id = row.id
      THEN \E next \in ArmedAt(row, at, running) :
             task' = [task EXCEPT !.next = next, !.observed = at]
      ELSE UNCHANGED task

\* The claims of a task by the rows a tick has read: for its newest join (any
\* one of those that share the newest time), for its times in the order of the
\* day, and for its interval.
LoginClaims(row, at) ==
    LET rows == IF WantsJoinSignal(row) THEN Recent(at) ELSE {}
    IN  IF rows = {} THEN {{}} ELSE {SignalClaims(row, s) : s \in LatestOf(rows)}
InOrder(claims) == \A i, j \in DOMAIN claims : i < j => claims[i].key[4] < claims[j].key[4]
ClaimLists(row, at, running) ==
    {login \o times \o interval :
        login \in UNION {SetToSeqs(claims) : claims \in LoginClaims(row, at)},
        times \in {claims \in SetToSeqs(TimeClaims(row, at)) : InOrder(claims)},
        interval \in SetToSeqs(IntervalClaims(row, at, running))}

\* considerTask: the interval is armed before anything is claimed.
ConsiderTask(t) ==
    LET row == tick[t].parts
        at == tick[t].at
        running == tick[t].running
    IN  /\ tick[t].pc = "claim"
        /\ \/ ArmRefused(row) /\ TickTo(t, Idle) /\ UNCHANGED task
           \/ /\ ~ArmRefused(row)
              /\ ArmInterval(row, at, running)
              /\ \E claims \in ClaimLists(row, at, running) :
                    TickTo(t, IF running /\ claims # <<>>
                                THEN [tick[t] EXCEPT !.pc = "next", !.claims = claims] ELSE Idle)
        /\ UNCHANGED <<clock, bot, journal, taskEdits, signals, cursor, seeded, runs, delivered, crashes>>

\* The tick goes on to its next claim, or ends.
Onwards(t) ==
    IF Len(tick[t].claims) > 1
      THEN [tick[t] EXCEPT !.pc = "next", !.claims = Tail(@), !.sent = 0] ELSE Idle

\* claimRun: the row is inserted unless the key is taken; the insert fails if
\* the task is gone.
Key(t) == Head(tick[t].claims).key

\* Mutation of Claimable: the key is not unique.
ClaimableAgain(t) == TRUE

Claimable(t) == Key(t) \notin DOMAIN runs

ClaimRun(t) ==
    /\ tick[t].pc = "next"
    /\ IF task.id = tick[t].parts.id /\ Claimable(t)
         THEN /\ runs' = [k \in DOMAIN runs \cup {Key(t)} |->
                            IF k = Key(t) THEN [outcome |-> "running", steps |-> 0, started |-> tick[t].at]
                            ELSE runs[k]]
              /\ TickTo(t, [tick[t] EXCEPT !.pc = "send"])
         ELSE TickTo(t, Onwards(t)) /\ UNCHANGED runs
    /\ UNCHANGED <<clock, bot, journal, task, taskEdits, signals, cursor, seeded, delivered, crashes>>

\* sendStepsInOrder: the commands one after the other; the run fails where
\* one does not go through, whether or not the bot had received it, and at
\* once if the bot is not running.
Received(key) == IF key \in DOMAIN delivered THEN delivered[key].steps ELSE 0
Receives(t) ==
    [k \in DOMAIN delivered \cup {Key(t)} |->
        IF k # Key(t) THEN delivered[k]
        ELSE [steps |-> Received(k) + 1, trigger |-> Head(tick[t].claims).trigger, at |-> tick[t].at]]

SendStep(t) ==
    /\ tick[t].pc = "send"
    /\ tick[t].sent < Steps
    /\ bot.up \/ tick[t].sent > 0
    /\ delivered' = Receives(t)
    /\ TickTo(t, [tick[t] EXCEPT !.sent = @ + 1])
    /\ UNCHANGED <<clock, bot, journal, task, taskEdits, signals, cursor, seeded, runs, crashes>>

StepFails(t) ==
    /\ tick[t].pc = "send"
    /\ tick[t].sent < Steps
    /\ \/ UNCHANGED delivered
       \/ bot.up /\ delivered' = Receives(t)
    /\ TickTo(t, [tick[t] EXCEPT !.pc = "failed"])
    /\ UNCHANGED <<clock, bot, journal, task, taskEdits, signals, cursor, seeded, runs, crashes>>

\* finishRun is by id: nothing is written if the run is gone.
Finished(t, outcome, steps) ==
    IF Key(t) \in DOMAIN runs
      THEN [runs EXCEPT ![Key(t)].outcome = outcome, ![Key(t)].steps = steps] ELSE runs

FinishSent(t) ==
    /\ tick[t].pc = "send"
    /\ tick[t].sent = Steps
    /\ runs' = Finished(t, "sent", Steps)
    /\ TickTo(t, Onwards(t))
    /\ UNCHANGED <<clock, bot, journal, task, taskEdits, signals, cursor, seeded, delivered, crashes>>

\* What follows the last command may fail too: the audit record, the run's
\* own record, or the task's after it.  All count as a run that sent nothing.
FinishBreaks(t) ==
    /\ tick[t].pc = "send"
    /\ tick[t].sent = Steps
    /\ \/ UNCHANGED runs
       \/ runs' = Finished(t, "sent", Steps)
    /\ TickTo(t, [tick[t] EXCEPT !.pc = "failed", !.sent = 0])
    /\ UNCHANGED <<clock, bot, journal, task, taskEdits, signals, cursor, seeded, delivered, crashes>>

\* Mutation of FinishFailed: the step that failed is counted.
FinishFailedCounted(t) ==
    /\ tick[t].pc = "failed"
    /\ runs' = Finished(t, "failed", tick[t].sent + 1)
    /\ TickTo(t, Onwards(t))
    /\ UNCHANGED <<clock, bot, journal, task, taskEdits, signals, cursor, seeded, delivered, crashes>>

\* The failure is recorded if the database answers.
FinishFailed(t) ==
    /\ tick[t].pc = "failed"
    /\ runs' \in {Finished(t, "failed", tick[t].sent), runs}
    /\ TickTo(t, Onwards(t))
    /\ UNCHANGED <<clock, bot, journal, task, taskEdits, signals, cursor, seeded, delivered, crashes>>

\* The server restarts: ticks at work are gone.
ServerCrash ==
    /\ crashes < MaxCrashes
    /\ \E t \in Ticks : tick[t] # Idle
    /\ crashes' = crashes + 1
    /\ tick' = [t \in Ticks |-> Idle]
    /\ UNCHANGED <<clock, bot, journal, task, taskEdits, signals, cursor, seeded, runs, delivered>>

-----------------------------------------------------------------------------
TickStep(t) ==
    \/ ReadJoins(t) \/ RecordJoins(t) \/ SaveCursor(t) \/ ConsiderTask(t) \/ ClaimRun(t)
    \/ SendStep(t) \/ StepFails(t) \/ FinishSent(t) \/ FinishBreaks(t) \/ FinishFailed(t)

Next ==
    \/ Pass \/ BotJoins \/ ClientStarts \/ ClientStops \/ DeleteTask \/ ServerCrash
    \/ \E v \in Variants : SetTask(v)
    \/ \E t \in Ticks : TickStart(t) \/ TickStep(t)

Spec == Init /\ [][Next]_vars

-----------------------------------------------------------------------------
TypeOK ==
    /\ clock \in Time
    /\ bot \in [up : BOOLEAN, process : Process]
    /\ journal \in Seq(Join) /\ Len(journal) <= MaxJoins
    /\ task.id \in 0..MaxTaskEdits /\ task.every \subseteq Nat /\ task.next \in Nat
    /\ taskEdits \in 0..MaxTaskEdits /\ crashes \in 0..MaxCrashes
    /\ signals \subseteq SignalRow
    /\ {cursor, seeded} \subseteq 0..MaxJoins
    /\ \A k \in DOMAIN runs :
         /\ runs[k].outcome \in {"running", "sent", "failed", "abandoned"}
         /\ runs[k].steps \in 0..Steps /\ runs[k].started \in Time
    /\ \A t \in Ticks : tick[t].pc \in {"idle", "read", "record", "save", "claim", "next", "send", "failed"}

\* A run is carried out at most once: whatever restarts, re-reads of the
\* journal and sweeps happen between, the bot receives each command of a
\* claim at most once (claimRun's unique key, kept longer than a trigger can
\* come back).
RunOnce == \A k \in DOMAIN delivered : delivered[k].steps <= Steps

\* A task that runs on the first login runs once for each process of the bot,
\* however often that process rejoins and however the journal is re-read
\* (firstForProcess is decided as the join is recorded); a process that has not
\* joined for as long as signals are kept counts as one that never did
\* (pruneSignals).
OncePerStart ==
    \A j, k \in DOMAIN delivered :
        (/\ delivered[j].trigger = "firstLogin" /\ delivered[k].trigger = "firstLogin"
         /\ j[2] = k[2] /\ j[3] = k[3])
          => j = k \/ j[4] + SignalRetention < k[4] + SignalCatchUp \/ k[4] + SignalRetention < j[4] + SignalCatchUp

\* Two interval runs of a task are at least the shortest interval apart, also
\* across edits, stops of the bot and late ticks (intervalPlan arms from now).
Shortest == CHOOSE n \in UNION {v.every : v \in Variants} :
              \A m \in UNION {v.every : v \in Variants} : n <= m
SpacedIntervals ==
    \A j, k \in {key \in DOMAIN delivered : delivered[key].trigger = "interval"} :
        (j # k /\ j[2] = k[2] /\ delivered[j].at <= delivered[k].at)
          => delivered[k].at - delivered[j].at >= Shortest

\* The sweep takes a run for abandoned only when nobody is carrying it out
\* any more: a run a tick is sending is still recorded as running.
AbandonedIsNobodys ==
    \A t \in Ticks : (tick[t].pc = "send" /\ Key(t) \in DOMAIN runs /\ tick[t].parts.id = task.id)
        => runs[Key(t)].outcome = "running"

\* What a run records is no more than what the bot received: "sent" means
\* every command, and the count of a failed run never exceeds it.
OutcomeIsHonest ==
    \A k \in DOMAIN runs :
        /\ runs[k].outcome = "sent" => Received(k) = Steps
        /\ runs[k].steps <= Received(k)

\* The cursor never passes a join that was not recorded, save by a seed,
\* which takes the journal as read: a restart between reading, recording and
\* saving loses no join.
CursorBehindSignals ==
    \A k \in (seeded + 1)..cursor :
        (journal[k].at + SignalRetention >= clock) => \E s \in signals : s.process = journal[k].process /\ s.at = journal[k].at

\* A task runs when it is set to and never twice for one occasion (claimRun):
\* once for a claim key, once for a start of the bot, its intervals apart.
RunsAsScheduled == RunOnce /\ OncePerStart /\ SpacedIntervals

\* What is recorded of runs and joins is true, also after the server died in
\* the middle of either (sweep, finish, saveCursor).
RecordsAreTrue == TypeOK /\ AbandonedIsNobodys /\ OutcomeIsHonest /\ CursorBehindSignals

\* Tasks run as they are set, and what is recorded of them is so, whatever ticks, edits, stops and
\* restarts do to one another (runTaskSchedulerTick, setTask, runTask).
TasksRunAndAreRecorded == RunsAsScheduled /\ RecordsAreTrue
=============================================================================
