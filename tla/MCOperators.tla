---------------------------- MODULE MCOperators ----------------------------
(* What several ticks, requests and pages do at the same time: a bot's        *)
(* scheduled tasks, the pages that edit them, the members of the              *)
(* organisation, and the alert destinations.  These parts share no state, so  *)
(* each behaviour takes the steps of one part, chosen at the start.           *)
EXTENDS TaskScheduler, TaskEditor, Membership, Destinations

VARIABLE part

Parts == {"tasks", "editor", "members", "destinations"}

operatorVars == <<part, vars, editorVars, accessVars, destVars>>

OperatorInit ==
    /\ part \in Parts
    /\ Init /\ EditorInit /\ AccessInit /\ DestInit

\* Part p takes the step: no other part's variables change.
Only(p) ==
    /\ part = p /\ UNCHANGED part
    /\ IF p = "tasks" THEN TRUE ELSE UNCHANGED vars
    /\ IF p = "editor" THEN TRUE ELSE UNCHANGED editorVars
    /\ IF p = "members" THEN TRUE ELSE UNCHANGED accessVars
    /\ IF p = "destinations" THEN TRUE ELSE UNCHANGED destVars

OperatorNext ==
    \/ Only("tasks") /\ Next
    \/ Only("editor") /\ EditorNext
    \/ Only("members") /\ AccessNext
    \/ Only("destinations") /\ DestNext

OperatorSpec == OperatorInit /\ [][OperatorNext]_operatorVars

-----------------------------------------------------------------------------
(* The instance.  Ticks, requests and pages are given the same values, and so  *)
(* are invitations and messages: they are interchangeable in every part, and   *)
(* only one part moves.                                                        *)
Alike == Permutations(Ticks) \cup Permutations(Messages)

\* Four instants of two local days: a minute of the first comes twice (the
\* clock is set back), one of the second is skipped (it is set forward).
LocalMinute(day, minute) == [day |-> day, minute |-> minute]
ChangingZone == <<LocalMinute(1, 1), LocalMinute(1, 2), LocalMinute(1, 1), LocalMinute(2, 2)>>

\* A task that runs at joins, at a minute of the day, or at intervals.
Untriggered == [enabled |-> TRUE, onFirstLogin |-> FALSE, onLogin |-> FALSE, times |-> {}, every |-> {}]
OnFirst == [Untriggered EXCEPT !.onFirstLogin = TRUE]
OnLogin == [OnFirst EXCEPT !.onLogin = TRUE]
Timed == [Untriggered EXCEPT !.times = {[days |-> {1, 2}, minute |-> 1]}]
Repeated == [Untriggered EXCEPT !.every = {1, 2}]
AllVariants == {OnFirst, OnLogin, Timed, Repeated}

PlainAddress == {[host |-> "any", sig |-> FALSE, query |-> FALSE, egress |-> TRUE]}

\* Bound: what a bot's joins do is kept apart from what the edits of a task
\* that runs by the clock do, a second edit and a second join from stops and
\* crashes, a fourth press of an administrator from messages, a draft that
\* takes more than a press from what the other page does, and one that takes
\* more than two from what is sent, but for the draft of a new task.
Alone(page) ==
    \A other \in TaskPages \ {page} :
        editors[other].keys = 0 /\ editors[other].save = NotSent /\ editors[other].removal = NotSent
Apart ==
    /\ journal # <<>> \/ WantsJoinSignal(task) => taskEdits <= 1 /\ task.times = {} /\ task.every = {}
    /\ taskEdits <= 1 \/ (bot.process = 1 /\ crashes = 0)
    /\ Len(journal) <= 1 \/ crashes = 0
    /\ presses <= 3 \/ \A t \in Messages : deliveries[t] = NoMessage
    /\ typed <= 1 \/ \E page \in TaskPages : Alone(page)
    /\ typed <= 2 \/ sent = 0 \/ drafted = 1
=============================================================================
