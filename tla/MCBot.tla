------------------------------- MODULE MCBot -------------------------------
(* What is done for a bot and its host beside the changes of InstanceClaims:  *)
(* its scheduled commands and sleep window, what it writes and prints, live   *)
(* control, the forms of its settings, the set-up check, the shared           *)
(* connections and the host's reachability.  These parts share no state, so   *)
(* each behaviour takes the steps of one part, chosen at the start.           *)
EXTENDS BotSchedules, ArtifactCollection, ConfigForms, SetupCheck, ReadConnections, HostReachability,
        LiveControl, FormattedText

VARIABLE part

Parts == {"commands", "sleep", "files", "forms", "check", "connections", "reachability", "live", "text"}

botVars == <<part, scheduleVars, collectVars, formVars, setupVars, readVars, reachVars,
             liveVars, printed>>

BotInit ==
    /\ part \in Parts
    /\ ScheduleInit /\ CollectInit /\ FormsInit /\ SetupInit /\ ReadInit /\ ReachInit
    /\ LiveInit /\ TextInit

\* Part p takes the step: no other part's variables change.
Only(p) ==
    /\ part = p /\ UNCHANGED part
    /\ IF p = "commands" THEN TRUE ELSE UNCHANGED commandVars
    /\ IF p = "sleep" THEN TRUE ELSE UNCHANGED sleepVars
    /\ IF p = "files" THEN TRUE ELSE UNCHANGED collectVars
    /\ IF p = "forms" THEN TRUE ELSE UNCHANGED formVars
    /\ IF p = "check" THEN TRUE ELSE UNCHANGED setupVars
    /\ IF p = "connections" THEN TRUE ELSE UNCHANGED readVars
    /\ IF p = "reachability" THEN TRUE ELSE UNCHANGED reachVars
    /\ IF p = "live" THEN TRUE ELSE UNCHANGED liveVars
    /\ IF p = "text" THEN TRUE ELSE UNCHANGED printed

BotNext ==
    \/ Only("commands") /\ CommandStep
    \/ Only("sleep") /\ SleepStep
    \/ Only("files") /\ CollectNext
    \/ Only("forms") /\ FormsNext
    \/ Only("check") /\ SetupNext
    \/ Only("connections") /\ ReadNext
    \/ Only("reachability") /\ ReachNext
    \/ Only("live") /\ LiveNext
    \/ Only("text") /\ TextNext

BotSpec == BotInit /\ [][BotNext]_botVars

\* What a person does to a running bot and sees of it is so (requireRunning, sendCommand,
\* parseFormattedText, consoleLines): calls go to a bot that runs and are recorded, and its console
\* shows what it printed.
ConsoleIsSound == LiveCallsAreSound /\ ConsoleIsFaithful

-----------------------------------------------------------------------------
(* The instance.  Calls, collectors and readers are given the same values:     *)
(* they are interchangeable in every part, and only one part moves.            *)
ActorsAlike == Permutations(Readers)

\* Three local days: a minute of the first comes twice (the clock is set back),
\* one of the second is skipped (it is set forward).
LocalMinute(day, minute) == [day |-> day, minute |-> minute]
ChangingDays ==
    <<LocalMinute(1, 0), LocalMinute(1, 1), LocalMinute(1, 1), LocalMinute(1, 2),
      LocalMinute(2, 0), LocalMinute(2, 2), LocalMinute(3, 0)>>
TwoTimes == {[days |-> {1, 2, 3}, minute |-> 0], [days |-> {1, 3}, minute |-> 2]}

OpenTabs == {<<"ann", "settings">>, <<"ann", "bots">>, <<"ben", "settings">>}

\* Bound: a player list that is given another name is kept apart from replays,
\* a third live call from stops, and a third save of a form from a second edit and from a failure.
Apart ==
    /\ renames = 0 \/ \A r \in Replays : replayFiles[r] = "none"
    /\ pressed <= 2 \/ liveBot.run = 1
    /\ presses <= 2 \/ (edits <= 1 /\ formFaults = 0)
=============================================================================
