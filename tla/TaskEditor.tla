---------------------------- MODULE TaskEditor ----------------------------
(***************************************************************************)
(* The tasks of a bot's page, in the browsers of several people.  A page   *)
(* shows the tasks its query last read, edits one of them or a new one as  *)
(* a draft, and sends the whole draft to be saved; pausing and resuming    *)
(* send the whole of the task as it is shown.  Requests may be lost, and   *)
(* so may their answers.  A task is known by its name, commands, signals,  *)
(* the days of its times and its interval; the gap between steps, the time *)
(* zone and the clock times are left out.                                  *)
(***************************************************************************)
EXTENDS Naturals, Sequences, FiniteSets, ListOps

CONSTANTS
    TaskPages,          \* the pages open on the bot
    Lines,              \* the commands a person may type
    Unsendable,         \* those the server refuses: not sendable, or with a credential
    Signals,            \* first login, every login, respawn
    WeekDays,
    MaxSteps, MaxTimes,     \* TASK_STEPS_MAX, TASK_TIMES_MAX
    MaxTasks, MaxTyped, MaxSent, MaxLost    \* bounds

Empty == ""             \* a text that is nothing once trimmed

ASSUME EditorAssumption ==
    /\ {MaxSteps, MaxTimes, MaxTasks, MaxTyped, MaxSent, MaxLost} \subseteq Nat
    /\ Empty \notin Lines /\ Lines \ Unsendable # {} /\ WeekDays # {}

VARIABLES
    taskRows,   \* the stored tasks, by id
    editors,    \* each page: what its query read, its draft, its requests
    taskIds,    \* the ids handed out
    drafted,    \* the new drafts begun
    typed, sent, lost

editorVars == <<taskRows, editors, taskIds, drafted, typed, sent, lost>>

Fields == Lines \cup {Empty}

\* Number() of what stands in a field of the interval
SecondsIn == [empty |-> 0, short |-> 5, hour |-> 3600]
ShortestInterval == 5   \* TASK_INTERVAL_MIN_SECONDS

NoDraft == [begun |-> 0]
NotSent == [at |-> "none"]

-----------------------------------------------------------------------------
(* Drafts: emptyDraft, draftOf, savable and submit. *)

\* The keys tell the steps and times of a page's drafts apart.
NextKey(page) == editors[page].keys + 1

EmptyDraft(page) ==
    [id |-> 0, name |-> Empty, steps |-> <<[key |-> NextKey(page), command |-> Empty]>>,
     signals |-> {}, times |-> <<>>, interval |-> {}, begun |-> drafted + 1]

TextOf(seconds) == CHOOSE text \in DOMAIN SecondsIn : SecondsIn[text] = seconds

DraftOf(row, keys) ==
    [id |-> row.id, name |-> row.name,
     steps |-> [k \in DOMAIN row.steps |-> [key |-> keys + k, command |-> row.steps[k]]],
     signals |-> row.signals,
     times |-> [k \in DOMAIN row.times |-> [key |-> keys + Len(row.steps) + k, days |-> row.times[k]]],
     interval |-> {[min |-> TextOf(i.min), max |-> TextOf(i.max)] : i \in row.interval}, begun |-> 0]

KeysFor(row) == Len(row.steps) + Len(row.times)

HasTrigger(draft) == draft.signals # {} \/ draft.times # <<>> \/ draft.interval # {}

Savable(draft) ==
    /\ draft.name # Empty
    /\ \E k \in DOMAIN draft.steps : draft.steps[k].command # Empty
    /\ HasTrigger(draft)

Without(parts, key) == Filtered(parts, [k \in DOMAIN parts |-> parts[k].key # key])

\* submit: steps left blank are dropped, and the interval is read as numbers.
Commands(steps) == [k \in DOMAIN steps |-> steps[k].command]
Submitted(draft, enabled) ==
    [id |-> draft.id, name |-> draft.name,
     steps |-> Filtered(Commands(draft.steps), [k \in DOMAIN draft.steps |-> draft.steps[k].command # Empty]),
     signals |-> draft.signals, times |-> [k \in DOMAIN draft.times |-> draft.times[k].days],
     interval |-> {[min |-> SecondsIn[i.min], max |-> SecondsIn[i.max]] : i \in draft.interval},
     enabled |-> enabled]

-----------------------------------------------------------------------------
(* The form. *)

Draft(page) == editors[page].draft
Editing(page) == Draft(page) # NoDraft

\* A keystroke or a press, also while a save is under way; the parts it adds take new keys.
ChangeAdding(page, draft, parts) ==
    /\ typed < MaxTyped /\ typed' = typed + 1
    /\ editors' = [editors EXCEPT ![page].draft = draft, ![page].keys = @ + parts]
    /\ UNCHANGED <<taskRows, taskIds, sent, lost>>

ChangeDraft(page, draft) == ChangeAdding(page, draft, 0) /\ UNCHANGED drafted

AddTask(page) ==
    /\ ~Editing(page)
    /\ ChangeAdding(page, EmptyDraft(page), 1)
    /\ drafted' = drafted + 1

\* The pencil: another draft that is open is dropped.
EditTask(page) ==
    \E row \in editors[page].shown :
        /\ ChangeAdding(page, DraftOf(row, editors[page].keys), KeysFor(row))
        /\ UNCHANGED drafted

CancelTask(page) == Editing(page) /\ ChangeDraft(page, NoDraft)

TypeName(page) ==
    /\ Editing(page)
    /\ \E name \in {Empty, "task"} \ {Draft(page).name} : ChangeDraft(page, [Draft(page) EXCEPT !.name = name])

\* setStep: every step with the key takes the command.
SetStep(page) ==
    /\ Editing(page)
    /\ \E k \in DOMAIN Draft(page).steps : \E command \in Fields \ {Draft(page).steps[k].command} :
         ChangeDraft(page, [Draft(page) EXCEPT !.steps =
             [j \in DOMAIN @ |-> IF @[j].key = @[k].key THEN [@[j] EXCEPT !.command = command] ELSE @[j]]])

AddStep(page) ==
    /\ Editing(page) /\ Len(Draft(page).steps) < MaxSteps
    /\ ChangeAdding(page, [Draft(page) EXCEPT !.steps = Append(@, [key |-> NextKey(page), command |-> Empty])], 1)
    /\ UNCHANGED drafted

RemoveStep(page) ==
    /\ Editing(page) /\ Len(Draft(page).steps) > 1
    /\ \E k \in DOMAIN Draft(page).steps :
         ChangeDraft(page, [Draft(page) EXCEPT !.steps = Without(@, @[k].key)])

Toggled(set, member) == IF member \in set THEN set \ {member} ELSE set \cup {member}

ToggleSignal(page) ==
    /\ Editing(page)
    /\ \E signal \in Signals : ChangeDraft(page, [Draft(page) EXCEPT !.signals = Toggled(@, signal)])

ToggleRepeat(page) ==
    /\ Editing(page)
    /\ ChangeDraft(page, [Draft(page) EXCEPT !.interval = IF @ = {} THEN {[min |-> "hour", max |-> "hour"]} ELSE {}])

SetInterval(page) ==
    /\ Editing(page)
    /\ \E i \in Draft(page).interval : \E end \in {"min", "max"}, text \in DOMAIN SecondsIn :
         /\ text # i[end]
         /\ ChangeDraft(page, [Draft(page) EXCEPT !.interval = {[i EXCEPT ![end] = text]}])

AddTime(page) ==
    /\ Editing(page) /\ Len(Draft(page).times) < MaxTimes
    /\ ChangeAdding(page, [Draft(page) EXCEPT !.times = Append(@, [key |-> NextKey(page), days |-> WeekDays])], 1)
    /\ UNCHANGED drafted

RemoveTime(page) ==
    /\ Editing(page)
    /\ \E k \in DOMAIN Draft(page).times :
         ChangeDraft(page, [Draft(page) EXCEPT !.times = Without(@, @[k].key)])

\* toggleDay: every time with the key has the day turned on or off.
ToggledAt(times, key, day) ==
    [j \in DOMAIN times |-> IF times[j].key = key
                            THEN [times[j] EXCEPT !.days = Toggled(times[j].days, day)] ELSE times[j]]

ToggleDay(page) ==
    /\ Editing(page)
    /\ \E k \in DOMAIN Draft(page).times : \E day \in WeekDays :
         ChangeDraft(page, [Draft(page) EXCEPT !.times = ToggledAt(@, @[k].key, day)])

-----------------------------------------------------------------------------
(* Requests.  A page has one save and one removal under way at the most. *)

Send(page, which, request) ==
    /\ sent < MaxSent /\ sent' = sent + 1
    /\ editors[page][which] = NotSent
    /\ editors' = [editors EXCEPT ![page][which] = request]
    /\ UNCHANGED <<taskRows, taskIds, drafted, typed, lost>>

\* Saving a draft resumes the task; it is of the draft alone.
SaveTask(page) ==
    /\ Editing(page) /\ Savable(Draft(page))
    /\ Send(page, "save", [at |-> "sent", input |-> Submitted(Draft(page), TRUE), shown |-> {},
                           begun |-> Draft(page).begun])

PauseTask(page) ==
    \E row \in editors[page].shown :
        Send(page, "save", [at |-> "sent", input |-> Submitted(DraftOf(row, editors[page].keys), ~row.enabled),
                            shown |-> {row}, begun |-> 0])

RemoveTask(page) ==
    \E row \in editors[page].shown : Send(page, "removal", [at |-> "sent", id |-> row.id])

-----------------------------------------------------------------------------
(* The server: setTask and deleteTask, a transaction each. *)

\* Mutation of Accepted: the days of a time are not looked at.
AcceptedAnyDays(input) ==
    /\ input.name # Empty /\ input.steps # <<>>
    /\ \A k \in DOMAIN input.steps : input.steps[k] \notin Unsendable
    /\ \A i \in input.interval : ShortestInterval <= i.min /\ i.min <= i.max
    /\ HasTrigger(input)

\* instanceTaskInput, sendableLine, refuseStoredCredential
Accepted(input) ==
    /\ input.name # Empty /\ Len(input.steps) \in 1..MaxSteps
    /\ \A k \in DOMAIN input.steps : input.steps[k] \notin Unsendable
    /\ Len(input.times) <= MaxTimes /\ \A k \in DOMAIN input.times : input.times[k] # {}
    /\ \A i \in input.interval : ShortestInterval <= i.min /\ i.min <= i.max
    /\ HasTrigger(input)

\* The row of an input, with the draft that it was inserted from.
Stored(input, id, begun) ==
    [id |-> id, name |-> input.name, steps |-> input.steps, signals |-> input.signals, times |-> input.times,
     interval |-> input.interval, enabled |-> input.enabled, begun |-> begun]

Target(input) == {row \in taskRows : row.id = input.id}

Answered(page, which, at) == editors' = [editors EXCEPT ![page][which].at = at]

ServerSets(page) ==
    LET request == editors[page].save input == request.input IN
    /\ request.at = "sent"
    /\ \/ /\ Accepted(input) /\ input.id = 0 /\ taskIds < MaxTasks
          /\ taskIds' = taskIds + 1
          /\ taskRows' = taskRows \cup {Stored(input, taskIds + 1, request.begun)}
          /\ Answered(page, "save", "done")
       \/ /\ Accepted(input) /\ input.id # 0
          /\ UNCHANGED taskIds
          /\ IF Target(input) = {}
             THEN UNCHANGED taskRows /\ Answered(page, "save", "refused")
             ELSE /\ taskRows' = {row \in taskRows : row.id # input.id}
                                 \cup {Stored(input, input.id, row.begun) : row \in Target(input)}
                  /\ Answered(page, "save", "done")
       \/ /\ ~Accepted(input)
          /\ UNCHANGED <<taskRows, taskIds>>
          /\ Answered(page, "save", "refused")
    /\ UNCHANGED <<drafted, typed, sent, lost>>

\* A task that is gone already is no error.
ServerDeletes(page) ==
    LET request == editors[page].removal IN
    /\ request.at = "sent"
    /\ taskRows' = {row \in taskRows : row.id # request.id}
    /\ Answered(page, "removal", "done")
    /\ UNCHANGED <<taskIds, drafted, typed, sent, lost>>

-----------------------------------------------------------------------------
(* The answers: onSuccess closes the draft, whichever is open by then, and    *)
(* has the page read its tasks again; onError leaves the draft.               *)

RequestKinds == {"save", "removal"}

Succeeded(page) ==
    \E which \in RequestKinds :
        /\ editors[page][which].at = "done"
        /\ editors' = [editors EXCEPT ![page].draft = NoDraft, ![page][which] = NotSent]
        /\ UNCHANGED <<taskRows, taskIds, drafted, typed, sent, lost>>

Refused(page) ==
    /\ editors[page].save.at = "refused"
    /\ editors' = [editors EXCEPT ![page].save = NotSent]
    /\ UNCHANGED <<taskRows, taskIds, drafted, typed, sent, lost>>

\* The request does not arrive, or its answer does not.
IsLost(page) ==
    \E which \in RequestKinds :
        /\ editors[page][which] # NotSent
        /\ lost < MaxLost /\ lost' = lost + 1
        /\ editors' = [editors EXCEPT ![page][which] = NotSent]
        /\ UNCHANGED <<taskRows, taskIds, drafted, typed, sent>>

ReadTasks(page) ==
    /\ editors[page].shown # taskRows
    /\ editors' = [editors EXCEPT ![page].shown = taskRows]
    /\ UNCHANGED <<taskRows, taskIds, drafted, typed, sent, lost>>

-----------------------------------------------------------------------------
\* Every page has read the one task there is.
FirstTask ==
    [id |-> 1, name |-> "task", steps |-> <<CHOOSE line \in Lines : line \notin Unsendable>>, signals |-> {},
     times |-> <<WeekDays>>, interval |-> {[min |-> 5, max |-> 3600]}, enabled |-> TRUE, begun |-> 0]

EditorInit ==
    /\ taskRows = {FirstTask} /\ taskIds = 1
    /\ editors = [page \in TaskPages |->
                    [shown |-> {FirstTask}, draft |-> NoDraft, keys |-> 0, save |-> NotSent, removal |-> NotSent]]
    /\ drafted = 0 /\ typed = 0 /\ sent = 0 /\ lost = 0

EditorNext ==
    \E page \in TaskPages :
        \/ AddTask(page) \/ EditTask(page) \/ CancelTask(page)
        \/ TypeName(page) \/ SetStep(page) \/ AddStep(page) \/ RemoveStep(page)
        \/ ToggleSignal(page) \/ ToggleRepeat(page) \/ SetInterval(page)
        \/ AddTime(page) \/ RemoveTime(page) \/ ToggleDay(page)
        \/ SaveTask(page) \/ PauseTask(page) \/ RemoveTask(page)
        \/ ServerSets(page) \/ ServerDeletes(page)
        \/ Succeeded(page) \/ Refused(page) \/ IsLost(page) \/ ReadTasks(page)

EditorSpec == EditorInit /\ [][EditorNext]_editorVars

-----------------------------------------------------------------------------
(* Properties. *)

\* No two parts of a draft answer to one key: a keystroke changes one step.
PartsAreApart ==
    \A page \in TaskPages : Editing(page) =>
        \A parts \in {Draft(page).steps, Draft(page).times} : \A j, k \in DOMAIN parts :
            j # k => parts[j].key # parts[k].key

\* What a pause or a resumption sends is the task that was shown, but for being on.
PauseIsNoEdit ==
    \A page \in TaskPages : LET request == editors[page].save IN
        request # NotSent => \A row \in request.shown :
            Stored(request.input, row.id, row.begun) = [row EXCEPT !.enabled = ~@]

\* Every stored task can run, though drafts that cannot are sent.
StoredCanRun ==
    \A row \in taskRows :
        /\ row.name # Empty /\ row.steps # <<>> /\ HasTrigger(row)
        /\ \A k \in DOMAIN row.steps : row.steps[k] \in Lines \ Unsendable
        /\ \A k \in DOMAIN row.times : row.times[k] # {}
        /\ \A i \in row.interval : i.min <= i.max /\ i.min > 0

\* A task comes from a draft that was begun as new, so that one saved late does not come back once it
\* is deleted; a draft is stored twice only where a request or an answer was lost.
StoredOnce ==
    /\ \A row \in taskRows : row.id # FirstTask.id => row.begun # 0
    /\ \A d \in 1..drafted : Cardinality({row \in taskRows : row.begun = d}) <= 1 + lost
    /\ \A r, q \in taskRows : r.id = q.id => r = q

\* The stored tasks are what people made of them on their pages, however late and however stale the
\* pages are (InstanceTasks, TaskForm, setTask, deleteTask): a pause edits nothing, a keystroke changes
\* one step, nothing that cannot run is stored, and neither a retry nor a stale save adds a task.
TasksAreAsEdited == PartsAreApart /\ PauseIsNoEdit /\ StoredCanRun /\ StoredOnce
=============================================================================
