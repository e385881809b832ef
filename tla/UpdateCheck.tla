---------------------------- MODULE UpdateCheck ----------------------------
(***************************************************************************)
(* The check for a newer release: the worker runs it from a job, sent by   *)
(* a schedule and when it starts, asks the project's release page and      *)
(* records what it learnt in one row; the server works out from that row   *)
(* and its own build what the update badge and dialog say.  A check may be *)
(* cut short, and its answer is anything the page can send: the release it *)
(* calls the latest may be any release, a newer one having been withdrawn  *)
(* or an older line given a fix.  A version is a number, and a development *)
(* build is version 0.                                                     *)
(***************************************************************************)
EXTENDS Integers, Sequences, FiniteSets

CONSTANTS
    CheckInterval,      \* UPDATE_CHECK_INTERVAL_MS
    MaxVersion, MaxUpdateTime, MaxUpdateFaults      \* bounds

ASSUME UpdateAssumption == {CheckInterval, MaxVersion, MaxUpdateTime, MaxUpdateFaults} \subseteq Nat

VARIABLES
    updateNow,
    published,      \* the versions ever published
    running,        \* the build that runs, Development or a version
    updateRow,      \* the row of updateState; usable: its source columns hold a repository name
    queued,         \* check jobs waiting
    checking,       \* the worker's check under way
    askedAt,        \* when the release page was asked
    offered,        \* the version a badge has offered to this build since a check last found a release
    updateFaults

updateVars == <<updateNow, published, running, updateRow, queued, checking, askedAt, offered, updateFaults>>

Development == 0
NeverChecked == [outcome |-> "none"]
NoVersion == 0
NoCheck == [at |-> "none"]
Outcomes == {"ok", "unreachable", "rate-limited", "not-found", "unreadable"}

-----------------------------------------------------------------------------
(* The worker: schedule, start-up and createUpdateCheck. *)

ScheduleFires ==
    /\ queued = 0 /\ updateNow % CheckInterval = 0
    /\ queued' = 1
    /\ UNCHANGED <<updateNow, published, running, updateRow, checking, askedAt, offered, updateFaults>>

ShouldCheckAtBoot(build) ==
    /\ build # Development
    /\ updateRow # NeverChecked => updateNow - updateRow.checkedAt > CheckInterval

\* The processes start again, with this build or another; a check under way is lost.
Restart(build) ==
    /\ updateFaults < MaxUpdateFaults /\ updateFaults' = updateFaults + 1
    /\ running' = build /\ checking' = NoCheck
    /\ offered' = IF build = running THEN offered ELSE NoVersion
    /\ queued' = queued + (IF ShouldCheckAtBoot(build) THEN 1 ELSE 0)
    /\ UNCHANGED <<updateNow, published, updateRow, askedAt>>

\* Mutation of CheckedRecently: every job asks.
CheckedRecentlyNever == FALSE

\* Whatever sent the job, a check less than half an interval old will do.
CheckedRecently ==
    updateRow # NeverChecked /\ 2 * (updateNow - updateRow.checkedAt) < CheckInterval

\* sourceOf: the project's own source until a row names one.
UsableSource == updateRow # NeverChecked => updateRow.usable

StartCheck ==
    /\ queued > 0 /\ checking = NoCheck
    /\ queued' = queued - 1
    /\ IF running = Development \/ CheckedRecently \/ ~UsableSource
       THEN UNCHANGED <<checking, askedAt>>
       ELSE /\ checking' = [at |-> "asking", checkedAt |-> updateNow]
            /\ askedAt' = Append(askedAt, updateNow)
    /\ UNCHANGED <<updateNow, published, running, updateRow, offered, updateFaults>>

\* readReleaseAnswer and checkFailureOf: whichever release the page names, when this manager can compare
\* its version, or one of the failures; a redirect counts as not found.
ReleaseAnswers == [outcome : {"ok"}, version : published] \cup [outcome : Outcomes \ {"ok"}, version : {NoVersion}]

GitHubAnswered(answer) ==
    /\ checking.at = "asking"
    /\ checking' = [at |-> "answered", checkedAt |-> checking.checkedAt,
                    outcome |-> answer.outcome, version |-> answer.version]
    /\ UNCHANGED <<updateNow, published, running, updateRow, queued, askedAt, offered, updateFaults>>

\* Mutation of RecordedVersion: what is recorded is what this check learnt.
RecordedVersionOnly == checking.version

\* columnsFor: a check that failed leaves the release an earlier one found.
RecordedVersion ==
    CASE checking.outcome = "ok" -> checking.version
      [] checking.outcome # "ok" /\ updateRow # NeverChecked -> updateRow.latest
      [] OTHER -> NoVersion

\* recordCheck: the source is written with the first row and left alone by every later check.
RecordCheck ==
    /\ checking.at = "answered"
    /\ updateRow' = [outcome |-> checking.outcome, checkedAt |-> checking.checkedAt,
                     latest |-> RecordedVersion, usable |-> UsableSource]
    /\ offered' = IF checking.outcome = "ok" THEN NoVersion ELSE offered
    /\ checking' = NoCheck
    /\ UNCHANGED <<updateNow, published, running, queued, askedAt, updateFaults>>

\* The write fails, and with it the job, which is not tried again.
RecordLost ==
    /\ checking.at = "answered" /\ updateFaults < MaxUpdateFaults
    /\ updateFaults' = updateFaults + 1
    /\ checking' = NoCheck
    /\ UNCHANGED <<updateNow, published, running, updateRow, queued, askedAt, offered>>

-----------------------------------------------------------------------------
(* The server and the page: updateStatusFor, releaseNotesFor and headlineOf. *)

IsNewerThan(candidate, build) == candidate > build

Available ==
    /\ running # Development /\ updateRow # NeverChecked
    /\ updateRow.latest # NoVersion /\ IsNewerThan(updateRow.latest, running)

Headline ==
    IF running = Development THEN "none"
    ELSE CASE updateRow = NeverChecked -> "Updates"
           [] Available -> "Update available"
           [] ~Available /\ updateRow # NeverChecked /\ updateRow.latest # NoVersion -> "Up to date"
           [] updateRow # NeverChecked /\ updateRow.latest = NoVersion /\ updateRow.outcome = "not-found" -> "No release found"
           [] OTHER -> "Update check failed"

ShowBadge ==
    /\ Available /\ offered # updateRow.latest
    /\ offered' = updateRow.latest
    /\ UNCHANGED <<updateNow, published, running, updateRow, queued, checking, askedAt, updateFaults>>

-----------------------------------------------------------------------------
Publish(version) ==
    /\ version \notin published
    /\ published' = published \cup {version}
    /\ UNCHANGED <<updateNow, running, updateRow, queued, checking, askedAt, offered, updateFaults>>

\* The source columns are edited in the database, where the manager itself never changes them.
SourceEdited ==
    /\ updateRow # NeverChecked
    /\ updateRow' = [updateRow EXCEPT !.usable = ~@]
    /\ UNCHANGED <<updateNow, published, running, queued, checking, askedAt, offered, updateFaults>>

UpdateTimePasses ==
    /\ updateNow < MaxUpdateTime /\ checking = NoCheck
    /\ updateNow' = updateNow + 1
    /\ UNCHANGED <<published, running, updateRow, queued, checking, askedAt, offered, updateFaults>>

UpdateInit ==
    /\ updateNow = 0
    /\ published = {} /\ running = 1
    /\ updateRow = NeverChecked
    /\ queued = 1 /\ checking = NoCheck
    /\ askedAt = <<>> /\ offered = NoVersion /\ updateFaults = 0

UpdateNext ==
    \/ ScheduleFires \/ StartCheck \/ RecordCheck \/ RecordLost
    \/ \E build \in 0..MaxVersion : Restart(build)
    \/ \E answer \in ReleaseAnswers : GitHubAnswered(answer)
    \/ \E version \in 1..MaxVersion : Publish(version)
    \/ ShowBadge \/ SourceEdited \/ UpdateTimePasses

UpdateSpec == UpdateInit /\ [][UpdateNext]_updateVars

-----------------------------------------------------------------------------
(* Properties. *)

\* An update is offered only when it was published and is newer than the build that offers it.  An
\* offer stands, and names the same release, until the build changes or a check finds a release, which
\* may be an older one: no check that failed, whose record was lost or that never asked takes it back.
\* And the dialog says it is up to date only when some check found a release no newer than the build.
OffersHold ==
    /\ Available => updateRow.latest \in published /\ updateRow.latest > running
    /\ offered # NoVersion => Available /\ updateRow.latest = offered
    /\ Headline = "Up to date" => updateRow.latest \in published /\ updateRow.latest <= running

\* The release page is asked at most once in half an interval, but for the checks whose record was
\* lost to a restart or a failed write.
AsksSparingly ==
    Cardinality({k \in 2..Len(askedAt) : 2 * (askedAt[k] - askedAt[k - 1]) < CheckInterval}) <= updateFaults

\* What the update check promises (createUpdateCheck, recordCheck, updateStatusFor).
UpdatesAreOffered == OffersHold /\ AsksSparingly
=============================================================================
