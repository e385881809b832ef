----------------------------- MODULE SetupCheck -----------------------------
(***************************************************************************)
(* Checking a host against what is saved: which unit files, containers and *)
(* image it has, what its bots do, the configuration each has on disk      *)
(* against the one that would be rendered, and the summary the host page   *)
(* shows.  A check reads the rows first and then the host, one command at  *)
(* a time, over a connection that may be lost; meanwhile somebody on the   *)
(* host, the bots themselves and the operator go on changing things.       *)
(* A configuration is a value by key; keys are those the manager sets      *)
(* (Managed), pins (Fixed) and the operator may set (Operated).            *)
(***************************************************************************)
EXTENDS Naturals, FiniteSets

CONSTANTS
    SetupBots, Managed, Fixed, Operated,
    SecretKeys, Expanding,       \* the password; keys whose value the client expands
    MaxTampers, MaxSaves, MaxChecks   \* bounds

ASSUME SetupAssumption == {MaxTampers, MaxSaves, MaxChecks} \subseteq Nat

VARIABLES
    botHost,   \* what the host has: units, leftovers, image, podman's network stack
    disk,      \* by bot: its configuration, sections, environment file, unit state, journal, listening
    saved,     \* by bot: the row: desired status, settings, live control, player name known, whether the row can be read
    check,     \* the check under way or the last one
    summary,   \* what the host page shows
    tampers, rowSaves, checks

setupVars == <<botHost, disk, saved, check, summary, tampers, rowSaves, checks>>

AllKeys == Managed \cup Fixed \cup Operated
Values == {"default", "chosen", "odd"}
NotThere == "nothing"
Unreadable == "unreadable"
Variable == "variable"     \* text the client would expand

-----------------------------------------------------------------------------
(* The document a bot should have. *)

\* renderInstanceConfig: every managed key, the fixed ones at their fixed values, and of the operator's keys
\* those set.
RenderInstanceConfig(row) ==
    [k \in AllKeys |-> IF k \in Fixed THEN "default" ELSE row.settings[k]]

\* compareInstanceConfig
IsOperatorKey(k) == k \in Operated
IsSecretKey(k) == k \in SecretKeys
UnsafeExpansion(k, have) == k \in Expanding /\ have = Variable
KindOf(k, have) ==
    IF UnsafeExpansion(k, have) THEN "fixed" ELSE IF IsOperatorKey(k) THEN "operator" ELSE IF k \in Fixed THEN "fixed" ELSE "managed"

\* toPublicDrift: what is found for a secret or for the operator's own keys is not told.
\* Mutation of ToldValue: only secrets are withheld.
ToldValueOfOperator(k, have) ==
    IF have = NotThere THEN NotThere ELSE IF IsSecretKey(k) THEN "something else" ELSE have
ToldValue(k, have) ==
    IF have = NotThere THEN NotThere ELSE IF IsSecretKey(k) \/ IsOperatorKey(k) THEN "something else" ELSE have

\* Mutation of ConfigDriftOf: a key the document has no readable value for is passed over.
ConfigDriftOfReadable(b, want) ==
    {[bot |-> b, kind |-> KindOf(k, disk[b].config[k]), key |-> k, actual |-> ToldValue(k, disk[b].config[k])] :
        k \in {k \in AllKeys : want[k] # NotThere /\ disk[b].config[k] \notin {want[k], Unreadable}}}
ConfigDriftOf(b, want) ==
    LET have == disk[b].config
        differing == {k \in AllKeys : want[k] # NotThere /\ have[k] # want[k]}
    IN  {[bot |-> b, kind |-> KindOf(k, have[k]), key |-> k,
          actual |-> IF have[k] = Unreadable THEN NotThere ELSE ToldValue(k, have[k])] : k \in differing}
        \cup {[bot |-> b, kind |-> "unreadable", key |-> k, actual |-> NotThere] :
                k \in {k \in AllKeys : have[k] = Unreadable} \ differing}
        \cup (IF disk[b].sections THEN {[bot |-> b, kind |-> "section", key |-> "sections", actual |-> "some"]} ELSE {})

\* configDriftFor: no file, a file that does not parse, or its differences.
FileDrift(b, want) ==
    CASE disk[b].file = "missing" -> {[bot |-> b, kind |-> "managed", key |-> "file", actual |-> NotThere]}
      [] disk[b].file = "broken" -> {[bot |-> b, kind |-> "unreadable", key |-> "file", actual |-> NotThere]}
      [] OTHER -> ConfigDriftOf(b, want)

-----------------------------------------------------------------------------
(* What a bot is seen to do. *)

\* clientEmittedLines, looksStuck: what players say in chat is not the client's word.
Says(b, text) == [text |-> text, chat |-> FALSE] \in disk[b].journal
LooksStuck(b) == Says(b, "stuck") \/ (Says(b, "server info") /\ ~Says(b, "joined"))

\* Joining is looked for in every line.
SawJoin(b) == \E line \in disk[b].journal : line.text = "joined"

\* playerNameFrom, likewise.
SawName(b) == \E line \in disk[b].journal : line.text = "session valid"

Observed(b, row) == IF disk[b].unit = "active" /\ row.status = "running" /\ LooksStuck(b) THEN "stuck" ELSE disk[b].unit

DesiredStateIsSatisfied(desired, observed) ==
    CASE desired = "running" -> observed \in {"active", "activating"}
      [] observed = "stuck" -> FALSE
      [] desired = "stopped" -> observed = "inactive"
      [] OTHER -> TRUE

-----------------------------------------------------------------------------
(* reconcileHost *)
ChangesNothing == UNCHANGED <<botHost, disk, saved, tampers, rowSaves, checks>>

\* The rows, and the document of each whose stored settings can be read; then the connection.
CheckNow ==
    /\ check.at \in {"never", "done", "unknown"} /\ checks < MaxChecks
    /\ checks' = checks + 1
    /\ check' = [at |-> "facts", rows |-> saved, todo |-> {}, found |-> {}, joined |-> {}, failed |-> {}, seen |-> {}, quiet |-> TRUE]
    /\ UNCHANGED <<botHost, disk, saved, summary, tampers, rowSaves>>

\* The host is not ready, cannot be reached, refuses a command, answers what cannot be read, or stops answering.
CheckFails ==
    /\ check.at \in {"facts", "units", "state", "config", "env", "live"}
    /\ check' = [check EXCEPT !.at = "unknown"]
    /\ summary' = [verdict |-> "unknown"]
    /\ ChangesNothing

\* readHostFacts, leftoverContainers: one command, read in full or not at all.
ReadFacts ==
    /\ check.at = "facts"
    /\ check' = [check EXCEPT !.at = "units", !.found = @ \cup
         (IF botHost.stack THEN {} ELSE {[kind |-> "network-stack"]})
         \cup {[kind |-> "unexpected", unit |-> u] : u \in botHost.leftovers}
         \cup (IF botHost.image THEN {} ELSE {[kind |-> "missing", unit |-> "image"]})]
    /\ UNCHANGED summary /\ ChangesNothing

\* expectedUnits: the templates and the sleep timers of known bots, file by file.
ReadUnits ==
    /\ check.at = "units"
    /\ check' = [check EXCEPT !.at = "state", !.todo = SetupBots,
         !.found = @ \cup (IF botHost.units = "same" THEN {} ELSE {[kind |-> botHost.units, unit |-> "template"]})]
    /\ UNCHANGED summary /\ ChangesNothing

\* A round over the bots: b is done with, and after the last one the next round begins.
Round(b, after, entries) ==
    [check EXCEPT !.found = @ \cup entries,
                  !.todo = IF @ = {b} THEN SetupBots ELSE @ \ {b},
                  !.at = IF check.todo = {b} THEN after ELSE @]

ReadState(b) ==
    LET row == check.rows[b]
        observed == Observed(b, row)
        drift == IF DesiredStateIsSatisfied(row.status, observed) THEN {}
                 ELSE {[kind |-> "state", bot |-> b, desired |-> row.status, observed |-> observed]}
    IN
    /\ check.at = "state" /\ b \in check.todo
    /\ check' = [Round(b, "config", drift) EXCEPT
         !.joined = IF disk[b].unit = "active" /\ row.status = "running" /\ SawJoin(b) THEN @ \cup {b} ELSE @,
         !.seen = IF disk[b].unit = "active" /\ row.status = "running" /\ SawName(b) THEN @ \cup {b} ELSE @,
         !.failed = IF drift # {} /\ row.status = "running" /\ observed = "failed" THEN @ \cup {b} ELSE @]
    /\ UNCHANGED summary /\ ChangesNothing

ReadConfig(b) ==
    /\ check.at = "config" /\ b \in check.todo
    /\ check' = Round(b, "env", IF check.rows[b].readable THEN FileDrift(b, RenderInstanceConfig(check.rows[b]))
                                ELSE {[bot |-> b, kind |-> "unreadable", key |-> "file", actual |-> NotThere]})
    /\ UNCHANGED summary /\ ChangesNothing

ReadEnv(b) ==
    /\ check.at = "env" /\ b \in check.todo
    /\ check' = Round(b, "live", IF disk[b].env THEN {} ELSE {[bot |-> b, kind |-> "managed", key |-> "unit.env", actual |-> "something else"]})
    /\ UNCHANGED summary /\ ChangesNothing

\* silentLiveControl: asked of bots that joined and should answer.
\* Mutation of ProbeLive: a bot that has live control on is believed to answer.
ProbeLiveNot(b) ==
    /\ check.at = "live" /\ b \in check.todo
    /\ check' = Round(b, "end", {})
    /\ UNCHANGED summary /\ ChangesNothing
ProbeLive(b) ==
    /\ check.at = "live" /\ b \in check.todo
    /\ check' = Round(b, "end",
         IF b \in check.joined /\ check.rows[b].readable /\ check.rows[b].live /\ ~disk[b].listening
         THEN {[bot |-> b, kind |-> "unreachable", key |-> "McpServer", actual |-> NotThere]} ELSE {})
    /\ UNCHANGED summary /\ ChangesNothing

\* summariseDrift, groupConfigDrift: the settings' drift by bot, and which bots it makes unsafe or unreachable.
SummariseDrift(found) ==
    LET botsWith(kinds) == {d.bot : d \in {e \in found : e.kind \in kinds}}
    IN  IF found = {} THEN [verdict |-> "converged"]
        ELSE [verdict |-> "drifted", total |-> Cardinality(found),
              groups |-> botsWith({"managed", "fixed", "operator", "unreadable", "section", "unreachable"}),
              unsafe |-> botsWith({"fixed", "section"}), silent |-> botsWith({"unreachable"})]

\* A player name seen is saved, and a bot found failed is recorded so
\* while it is still meant to run (recordUnitFailure; its claim is in InstanceClaims).
EndCheck ==
    /\ check.at = "end"
    /\ check' = [check EXCEPT !.at = "done"]
    /\ summary' = SummariseDrift(check.found)
    /\ saved' = [b \in SetupBots |->
         [saved[b] EXCEPT !.named = @ \/ b \in check.seen,
                          !.status = IF b \in check.failed /\ @ = "running" THEN "error" ELSE @]]
    /\ UNCHANGED <<botHost, disk, tampers, rowSaves, checks>>

-----------------------------------------------------------------------------
\* Restart to fix, shown for a running bot whose settings differ: the document and the environment file are written anew (InstanceClaims has the whole change).
RestartToFix(b) ==
    /\ summary.verdict = "drifted" /\ b \in summary.groups /\ saved[b].status = "running" /\ saved[b].readable /\ rowSaves < MaxSaves
    /\ rowSaves' = rowSaves + 1
    /\ disk' = [disk EXCEPT ![b] = [@ EXCEPT !.config = RenderInstanceConfig(saved[b]), !.file = "there", !.sections = FALSE,
                                             !.env = TRUE, !.unit = "active", !.journal = {}, !.listening = FALSE]]
    /\ check' = [check EXCEPT !.quiet = FALSE]
    /\ UNCHANGED <<botHost, saved, summary, tampers, checks>>

\* The operator saves settings, or starts or stops a bot.
SaveSettings(b) ==
    /\ rowSaves < MaxSaves /\ rowSaves' = rowSaves + 1
    /\ \/ \E k \in Managed \cup Operated, v \in {"chosen", "odd"} : saved' = [saved EXCEPT ![b].settings[k] = v] /\ UNCHANGED disk
       \/ /\ saved[b].status = "running"
          /\ saved' = [saved EXCEPT ![b].status = "stopped"]
          /\ disk' = [disk EXCEPT ![b].unit = "inactive", ![b].listening = FALSE]
       \/ saved' = [saved EXCEPT ![b].live = TRUE] /\ UNCHANGED disk
       \/ saved' = [saved EXCEPT ![b].readable = FALSE] /\ UNCHANGED disk
    /\ check' = [check EXCEPT !.quiet = FALSE]
    /\ UNCHANGED <<botHost, summary, tampers, checks>>

\* Somebody on the host, podman upgrades and the bots themselves.
Tamper ==
    /\ tampers < MaxTampers /\ tampers' = tampers + 1
    /\ \/ /\ \/ \E u \in {"missing", "differs"} : botHost' = [botHost EXCEPT !.units = u]
             \/ \E u \in {"timer", "container"} : botHost' = [botHost EXCEPT !.leftovers = @ \cup {u}]
             \/ botHost' = [botHost EXCEPT !.image = FALSE]
             \/ botHost' = [botHost EXCEPT !.stack = FALSE]
          /\ UNCHANGED disk
       \/ /\ UNCHANGED botHost
          /\ \E b \in SetupBots :
               \/ \E k \in AllKeys, v \in Values \cup {NotThere, Unreadable, Variable} : disk' = [disk EXCEPT ![b].config[k] = v]
               \/ \E f \in {"missing", "broken"} : disk' = [disk EXCEPT ![b].file = f]
               \/ disk' = [disk EXCEPT ![b].sections = TRUE]
               \/ disk' = [disk EXCEPT ![b].env = FALSE]
               \/ \E u \in {"inactive", "failed", "activating"} : disk' = [disk EXCEPT ![b].unit = u]
               \/ \E t \in {"stuck", "server info", "joined", "session valid"}, c \in BOOLEAN :
                    disk' = [disk EXCEPT ![b].journal = @ \cup {[text |-> t, chat |-> c]}]
               \/ disk' = [disk EXCEPT ![b].listening = ~@]
    /\ check' = [check EXCEPT !.quiet = FALSE]
    /\ UNCHANGED <<saved, summary, rowSaves, checks>>

SetupInit ==
    /\ botHost = [units |-> "same", leftovers |-> {}, image |-> TRUE, stack |-> TRUE]
    /\ saved = [b \in SetupBots |-> [status |-> "running", live |-> FALSE, named |-> FALSE, readable |-> TRUE,
                  settings |-> [k \in AllKeys |-> IF k \in Managed THEN "default" ELSE NotThere]]]
    /\ disk = [b \in SetupBots |-> [config |-> RenderInstanceConfig(saved[b]), file |-> "there", sections |-> FALSE, env |-> TRUE,
                                    unit |-> "active", journal |-> {}, listening |-> FALSE]]
    /\ check = [at |-> "never", rows |-> saved, todo |-> {}, found |-> {}, joined |-> {}, failed |-> {}, seen |-> {}, quiet |-> TRUE]
    /\ summary = [verdict |-> "none"]
    /\ tampers = 0 /\ rowSaves = 0 /\ checks = 0

SetupNext ==
    \/ CheckNow \/ CheckFails \/ ReadFacts \/ ReadUnits \/ EndCheck \/ Tamper
    \/ \E b \in SetupBots : ReadState(b) \/ ReadConfig(b) \/ ReadEnv(b) \/ ProbeLive(b) \/ RestartToFix(b) \/ SaveSettings(b)

SetupSpec == SetupInit /\ [][SetupNext]_setupVars

-----------------------------------------------------------------------------
(* Properties. *)

\* What it means for the host to be as saved, stated of the host itself.
MachineMatches == botHost = [units |-> "same", leftovers |-> {}, image |-> TRUE, stack |-> TRUE]
BotMatches(b, row) ==
    /\ row.readable /\ disk[b].file = "there" /\ ~disk[b].sections /\ disk[b].env
    /\ \A k \in AllKeys : disk[b].config[k] # Unreadable /\ (RenderInstanceConfig(row)[k] # NotThere => disk[b].config[k] = RenderInstanceConfig(row)[k])
    /\ row.status = "running" => /\ disk[b].unit \in {"active", "activating"}
                                 /\ disk[b].unit = "active" => ~LooksStuck(b)
                                 /\ disk[b].unit = "active" /\ row.live /\ SawJoin(b) => disk[b].listening
    /\ row.status = "stopped" => disk[b].unit = "inactive"

\* A check during which nothing changed says "converged" exactly when the host is as saved, however it differs;
\* and it never tells what it found in a secret or in a setting of the operator's.
CheckIsHonest ==
    /\ check.at = "done" /\ check.quiet =>
         (check.found = {} <=> MachineMatches /\ \A b \in SetupBots : BotMatches(b, check.rows[b]))
    /\ \A d \in check.found : d.kind \in {"managed", "fixed", "operator"} /\ d.key \in SecretKeys \cup Operated
                                => d.actual \in {NotThere, "something else"}
=============================================================================
