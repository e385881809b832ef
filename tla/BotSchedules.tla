---------------------------- MODULE BotSchedules ----------------------------
(***************************************************************************)
(* What a bot does by the clock besides its tasks: a scheduled command,    *)
(* sent by the server's tick once a local day, and a sleep window, kept by *)
(* two systemd timers on the host.  Pages of several operators pause and   *)
(* edit the command from the copy they show; sleep windows are set and     *)
(* cleared by calls that write the timers one at a time and may overlap.   *)
(***************************************************************************)
EXTENDS Naturals, Sequences, FiniteSets

CONSTANTS
    LocalTime,     \* local day and minute at each real minute
    CommandTimes,  \* days and minute a command is set to
    CatchUpGrace,  \* CATCH_UP_GRACE_MINUTES
    Windows,       \* sleep windows, by their timers' text
    SleepCalls,    \* calls that set or clear the window
    MaxVersions,   \* bound: edits of the command
    MaxFailures    \* bound: failures of a call to the host

ASSUME LocalTimeAssumption == LocalTime \in Seq([day : Nat, minute : Nat]) /\ LocalTime # <<>>
\* Clocks are set back within a day: no zone goes back past midnight.
ASSUME DaysAscend ==
    \A j, k \in DOMAIN LocalTime : j <= k => LocalTime[j].day <= LocalTime[k].day
ASSUME ScheduleBoundsAssumption ==
    CommandTimes \subseteq [days : SUBSET Nat, minute : Nat] /\ {CatchUpGrace, MaxVersions, MaxFailures} \subseteq Nat

VARIABLES
    minuteNow,   \* real time, in minutes
    command,     \* the instanceCommand row
    versions,    \* how often it was set
    shown,       \* the row a page shows
    commandTick, \* the tick at work
    sends,       \* history: <<version, local day>> for each send that was tried
    sleepRow,    \* the instanceSchedule row
    timers,      \* the two timers on the host: text and whether enabled
    sleepCall,   \* calls at work
    unsettled,   \* history: calls overlapped, or one could not be undone
    leftBehind,  \* history: the last call had a command refused that takes a timer away
    failures

commandVars == <<minuteNow, command, versions, shown, commandTick, sends>>
sleepVars == <<sleepRow, timers, sleepCall, unsettled, leftBehind, failures>>
scheduleVars == <<minuteNow, command, versions, shown, commandTick, sends,
                  sleepRow, timers, sleepCall, unsettled, leftBehind, failures>>

-----------------------------------------------------------------------------
Never == 0
NoCommand == [version |-> 0, days |-> {}, minute |-> 0, enabled |-> FALSE, lastRun |-> Never]
NoTick == [pc |-> "idle", at |-> 0, row |-> NoCommand]

Day(at) == LocalTime[at].day

\* isDue: in the grace after its minute, and not run on this local day.
CommandIsDue(row, at) ==
    /\ row.enabled
    /\ Day(at) \in row.days
    /\ LocalTime[at].minute >= row.minute
    /\ LocalTime[at].minute - row.minute <= CatchUpGrace
    /\ row.lastRun = Never \/ Day(row.lastRun) # Day(at)

\* startOfLocalDay: the minutes since midnight are taken off the instant, so
\* on a day whose clock changed it is not midnight.
RanBefore(row, at) == row.lastRun + LocalTime[at].minute < at

MinutePasses ==
    /\ minuteNow < Len(LocalTime)
    /\ minuteNow' = minuteNow + 1
    /\ UNCHANGED <<command, versions, shown, commandTick, sends>>

\* setScheduledCommand: the row is inserted or overwritten, its last run
\* forgotten.
Upsert(time, enabled) ==
    /\ versions < MaxVersions
    /\ versions' = versions + 1
    /\ command' = [version |-> versions + 1, days |-> time.days, minute |-> time.minute,
                   enabled |-> enabled, lastRun |-> Never]
    /\ UNCHANGED <<minuteNow, commandTick, sends>>

AddCommand(time) == Upsert(time, TRUE) /\ UNCHANGED shown

\* A page loads the row, and pauses or resumes it from what it shows, which
\* may be an older version.
PageLoads ==
    /\ shown' = command
    /\ UNCHANGED <<minuteNow, command, versions, commandTick, sends>>
PageToggles ==
    /\ shown # NoCommand
    /\ Upsert(shown, ~shown.enabled)
    /\ UNCHANGED shown

DeleteCommand ==
    /\ command # NoCommand
    /\ command' = NoCommand
    /\ UNCHANGED <<minuteNow, versions, shown, commandTick, sends>>

\* runSchedulerTick reads the enabled rows; a tick waits for the one before.
CommandTickStart ==
    /\ commandTick = NoTick
    /\ command.enabled
    /\ commandTick' = [pc |-> "claim", at |-> minuteNow, row |-> command]
    /\ UNCHANGED <<minuteNow, command, versions, shown, sends>>

\* Mutation of ClaimCommand: the row the tick read is not asked whether it is due.
ClaimUndue ==
    /\ commandTick.pc = "claim"
    /\ IF /\ command.version # 0
          /\ command.lastRun = Never \/ RanBefore(command, commandTick.at)
         THEN /\ command' = [command EXCEPT !.lastRun = commandTick.at]
              /\ commandTick' = [commandTick EXCEPT !.pc = "send"]
         ELSE UNCHANGED command /\ commandTick' = NoTick
    /\ UNCHANGED <<minuteNow, versions, shown, sends>>

\* The row read is due, and the row as it is now has not run since what is
\* taken for midnight: it is marked as run before the command is sent.
ClaimCommand ==
    /\ commandTick.pc = "claim"
    /\ IF /\ CommandIsDue(commandTick.row, commandTick.at)
          /\ command.version # 0
          /\ command.lastRun = Never \/ RanBefore(command, commandTick.at)
         THEN /\ command' = [command EXCEPT !.lastRun = commandTick.at]
              /\ commandTick' = [commandTick EXCEPT !.pc = "send"]
         ELSE UNCHANGED command /\ commandTick' = NoTick
    /\ UNCHANGED <<minuteNow, versions, shown, sends>>

\* runScheduledCommand: sent, or failed before or after the bot had it; a
\* failure is recorded as a run.
SendCommand ==
    /\ commandTick.pc = "send"
    /\ \/ sends' = Append(sends, <<commandTick.row.version, Day(commandTick.at)>>) /\ UNCHANGED command
       \/ /\ sends' \in {sends, Append(sends, <<commandTick.row.version, Day(commandTick.at)>>)}
          /\ command' \in {command, IF command.version = 0 THEN command
                                    ELSE [command EXCEPT !.lastRun = commandTick.at]}
    /\ commandTick' = NoTick
    /\ UNCHANGED <<minuteNow, versions, shown>>

CommandCrash ==
    /\ commandTick # NoTick
    /\ commandTick' = NoTick
    /\ UNCHANGED <<minuteNow, command, versions, shown, sends>>

CommandStep ==
    \/ MinutePasses \/ PageLoads \/ PageToggles \/ DeleteCommand
    \/ \E time \in CommandTimes : AddCommand(time)
    \/ CommandTickStart \/ ClaimCommand \/ SendCommand \/ CommandCrash

-----------------------------------------------------------------------------
NoWindow == "none"
Timer == {"stop", "start"}
NoTimers == [name \in Timer |-> [text |-> NoWindow, on |-> FALSE]]
TimersOf(window) == [name \in Timer |-> [text |-> window, on |-> window # NoWindow]]
NoCall == [pc |-> "idle", window |-> NoWindow, undoing |-> FALSE]

CallTo(c, r) == sleepCall' = [sleepCall EXCEPT ![c] = r]
Alone(c) == \A d \in SleepCalls : d # c => sleepCall[d] = NoCall

\* What a call does to the host, one command after the other: a window is
\* written and enabled (applySleepTimers), no window is disabled and removed
\* (removeSleepTimers).  A daemon-reload that fails is ignored by both, and
\* changes nothing: enabling and disabling reload the units themselves.
ClearSteps == {"disableStop", "removeStop", "disableStart", "removeStart"}
HostSteps(window) ==
    IF window = NoWindow THEN <<"disableStop", "removeStop", "disableStart", "removeStart">>
    ELSE <<"writeStop", "writeStart", "enableStop", "enableStart">>
StepOn(step) ==
    IF step \in {"writeStop", "enableStop", "disableStop", "removeStop"} THEN "stop" ELSE "start"
Touched(step, window) ==
    CASE step \in {"writeStop", "writeStart", "removeStop", "removeStart"} ->
            [timers EXCEPT ![StepOn(step)].text = window]
      [] OTHER -> [timers EXCEPT ![StepOn(step)].on = window # NoWindow]
AfterStep(step, window) ==
    LET steps == HostSteps(window)
        at == CHOOSE k \in DOMAIN steps : steps[k] = step
    IN  IF at = Len(steps) THEN "save" ELSE steps[at + 1]

\* setSleepWindow and clearSleepWindow start; nothing keeps them apart.
SleepBegin(c, window) ==
    /\ sleepCall[c] = NoCall
    /\ CallTo(c, [pc |-> HostSteps(window)[1], window |-> window, undoing |-> FALSE])
    /\ unsettled' = (unsettled \/ ~Alone(c))
    /\ leftBehind' = FALSE
    /\ UNCHANGED <<sleepRow, timers, failures>>

\* An undoing is over with its last command; a call has its row to save then.
GoesOn(c) ==
    LET next == AfterStep(sleepCall[c].pc, sleepCall[c].window)
    IN  CallTo(c, IF next = "save" /\ sleepCall[c].undoing THEN NoCall ELSE [sleepCall[c] EXCEPT !.pc = next])

HostStep(c) ==
    /\ sleepCall[c].pc \notin {"idle", "save", "undo"}
    /\ timers' = Touched(sleepCall[c].pc, sleepCall[c].window)
    /\ GoesOn(c)
    /\ UNCHANGED <<sleepRow, unsettled, leftBehind, failures>>

\* A command that is refused while a window is set is undone; a lost connection
\* is not, and neither is an undoing that fails.
HostStepRefused(c) ==
    /\ failures < MaxFailures
    /\ sleepCall[c].pc \notin {"idle", "save", "undo"} \cup ClearSteps
    /\ failures' = failures + 1
    /\ IF sleepCall[c].undoing
         THEN CallTo(c, NoCall) /\ unsettled' = TRUE
         ELSE CallTo(c, [sleepCall[c] EXCEPT !.pc = "undo"]) /\ UNCHANGED unsettled
    /\ UNCHANGED <<sleepRow, timers, leftBehind>>

\* No exit code is looked at where timers are taken away: a refused command is
\* passed over, and a clear goes on to delete the row.
ClearStepRefused(c) ==
    /\ failures < MaxFailures
    /\ sleepCall[c].pc \in ClearSteps
    /\ failures' = failures + 1
    /\ leftBehind' = TRUE
    /\ GoesOn(c)
    /\ UNCHANGED <<sleepRow, timers, unsettled>>

HostLost(c) ==
    /\ failures < MaxFailures
    /\ sleepCall[c].pc \notin {"idle", "save"}
    /\ failures' = failures + 1
    /\ CallTo(c, NoCall)
    /\ unsettled' = TRUE
    /\ UNCHANGED <<sleepRow, timers, leftBehind>>

\* Mutation of SleepUndo: a refused change is left half applied.
SleepLeave(c) ==
    /\ sleepCall[c].pc = "undo"
    /\ CallTo(c, NoCall)
    /\ UNCHANGED <<sleepRow, timers, unsettled, leftBehind, failures>>

\* The row as stored is applied again, or the timers removed without one.
SleepUndo(c) ==
    /\ sleepCall[c].pc = "undo"
    /\ CallTo(c, [pc |-> HostSteps(sleepRow)[1], window |-> sleepRow, undoing |-> TRUE])
    /\ UNCHANGED <<sleepRow, timers, unsettled, leftBehind, failures>>

SleepSave(c) ==
    /\ sleepCall[c].pc = "save"
    /\ sleepRow' = sleepCall[c].window
    /\ CallTo(c, NoCall)
    /\ UNCHANGED <<timers, unsettled, leftBehind, failures>>

\* The transaction fails, or the connection after the last command: the timers
\* stay as applied.
SleepSaveFails(c) ==
    /\ sleepCall[c].pc = "save"
    /\ failures < MaxFailures
    /\ failures' = failures + 1
    /\ unsettled' = TRUE
    /\ CallTo(c, NoCall)
    /\ UNCHANGED <<sleepRow, timers, leftBehind>>

SleepStep ==
    \E c \in SleepCalls :
        \/ \E window \in Windows \cup {NoWindow} : SleepBegin(c, window)
        \/ HostStep(c) \/ HostStepRefused(c) \/ ClearStepRefused(c) \/ HostLost(c)
        \/ SleepUndo(c) \/ SleepSave(c) \/ SleepSaveFails(c)

-----------------------------------------------------------------------------
ScheduleInit ==
    /\ minuteNow = 1 /\ command = NoCommand /\ versions = 0 /\ shown = NoCommand
    /\ commandTick = NoTick /\ sends = <<>>
    /\ sleepRow = NoWindow /\ timers = NoTimers /\ unsettled = FALSE /\ leftBehind = FALSE
    /\ failures = 0
    /\ sleepCall = [c \in SleepCalls |-> NoCall]

ScheduleNext ==
    \/ CommandStep /\ UNCHANGED sleepVars
    \/ SleepStep /\ UNCHANGED commandVars

ScheduleSpec == ScheduleInit /\ [][ScheduleNext]_scheduleVars

\* A version of a command is sent at most once on a local day, on days of 23
\* and 25 hours too, although the claim's midnight is off on those: the date
\* of the last run is asked as well (isDue, claimRun).
OncePerLocalDay ==
    \A j, k \in DOMAIN sends : sends[j] = sends[k] => j = k

\* When calls do not overlap and none lost its host, the timers on the host
\* are those of the stored window, refused changes included (setSleepWindow
\* applies the stored window again).  Timers without a stored window are left
\* only by a command that was refused while the last call took them away: a
\* clear then deletes the row all the same.
TimersMatchTheWindow ==
    (~unsettled /\ \A c \in SleepCalls : sleepCall[c] = NoCall) =>
        timers = TimersOf(sleepRow) \/ (leftBehind /\ sleepRow = NoWindow)

\* What a bot does on a schedule is what was set: a scheduled command is sent
\* at most once on a local day, and the timers on the host are the stored
\* window's, but for what a refused clear leaves.
ScheduledAsSet == OncePerLocalDay /\ TimersMatchTheWindow
=============================================================================
