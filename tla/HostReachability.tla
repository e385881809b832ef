-------------------------- MODULE HostReachability --------------------------
(***************************************************************************)
(* What the server records of one host's answers: the health poller asks   *)
(* the host once a poll, recordHostReachability turns each answer into a   *)
(* condition, an interval and an event in one transaction, and the status  *)
(* page rolls the intervals up into bars.  A poll may be cut short by a    *)
(* restart, its lease may be refused without a word, either write may      *)
(* fail, and the host may be removed under it.  The clock counts units of  *)
(* which a second has Second (Date: milliseconds) and which pass between   *)
(* polls, not in one.                                                      *)
(***************************************************************************)
EXTENDS Integers, Sequences, FiniteSets, FiniteSetsExt, ListOps

CONSTANTS
    SuspectToDown,          \* HOST_SUSPECT_TO_DOWN_MS
    OfflineAfter,           \* OFFLINE_AFTER_MS
    PollEvery,              \* HEALTH_POLL_MS
    Second,                 \* units of the clock in a second
    BucketSize, BucketCount, \* BUCKET_SECONDS, in units, and how many make the range
    MaxPollTime, MaxStatusFaults, MaxPollRestarts, MaxHostTurns     \* bounds

ASSUME ReachabilityAssumption ==
    /\ {SuspectToDown, OfflineAfter, MaxPollTime, MaxStatusFaults, MaxPollRestarts, MaxHostTurns} \subseteq Nat
    /\ {PollEvery, Second, BucketSize, BucketCount} \subseteq Nat \ {0}

VARIABLES
    clockNow,
    answering,      \* whether the host answers
    hostThere,      \* its row is there
    polling,        \* the poller: off, idle, or where its poll is
    lastPoll,       \* when it last started one
    lastSeenAt,     \* host.lastSeenAt
    condition,      \* the row of statusCondition
    intervals,      \* of statusInterval, oldest first
    hostEvents,     \* of statusEvent, oldest first
    observed,       \* the answers recorded: when and what
    answeredAt,     \* when the host did answer
    incidentsMade, statusFaults, pollRestarts, hostTurns

reachVars == <<clockNow, answering, hostThere, polling, lastPoll, lastSeenAt, condition, intervals, hostEvents,
               observed, answeredAt, incidentsMade, statusFaults, pollRestarts, hostTurns>>
statusRows == <<condition, intervals, hostEvents, observed, incidentsMade>>

Unobserved == [state |-> "unknown"]
NotYet == -1
Open == -1
NoIncident == 0

-----------------------------------------------------------------------------
(* nextReachability: one failed check is suspect, failing for long enough is down. *)

FailingSince ==
    IF condition.state = "suspect" THEN condition.failureStartedAt ELSE clockNow

Reached ==
    [state |-> "up", failureStartedAt |-> NotYet,
     changed |-> condition.state # "up",
     event |-> CASE condition.state = "down" -> "host.recovered"
                 [] condition.state = "suspect" -> "host.check_recovered"
                 [] OTHER -> "none"]

\* Mutation of Unreached: the second failed check is down, however soon it comes.
UnreachedAnew ==
    CASE condition.state = "down" ->
            [state |-> "down", failureStartedAt |-> condition.failureStartedAt, changed |-> FALSE, event |-> "none"]
      [] condition.state = "suspect" ->
            [state |-> "down", failureStartedAt |-> FailingSince, changed |-> TRUE, event |-> "host.unreachable"]
      [] OTHER ->
            [state |-> "suspect", failureStartedAt |-> FailingSince, changed |-> TRUE, event |-> "host.check_failed"]

Unreached ==
    CASE condition.state = "down" ->
            [state |-> "down", failureStartedAt |-> condition.failureStartedAt, changed |-> FALSE, event |-> "none"]
      [] condition.state # "down" /\ clockNow - FailingSince >= SuspectToDown ->
            [state |-> "down", failureStartedAt |-> FailingSince, changed |-> TRUE, event |-> "host.unreachable"]
      [] condition.state = "suspect" /\ clockNow - FailingSince < SuspectToDown ->
            [state |-> "suspect", failureStartedAt |-> FailingSince, changed |-> FALSE, event |-> "none"]
      [] OTHER ->
            [state |-> "suspect", failureStartedAt |-> FailingSince, changed |-> TRUE, event |-> "host.check_failed"]

-----------------------------------------------------------------------------
(* recordHostReachability: one transaction. *)

ActiveIncident == IF condition = Unobserved THEN NoIncident ELSE condition.incident

\* The incident a change leaves the condition in: down takes a new one unless one is open.
IncidentAfter(state) ==
    CASE state = "up" -> NoIncident
      [] state = "down" /\ ActiveIncident = NoIncident -> incidentsMade + 1
      [] OTHER -> ActiveIncident

\* Mutation of EventIncident: a recovery carries no incident.
EventIncidentNone(state) == IncidentAfter(state)

\* A recovery's event carries the incident it ends.
EventIncident(state) ==
    IF IncidentAfter(state) # NoIncident THEN IncidentAfter(state) ELSE ActiveIncident

CloseOpenInterval ==
    IF intervals = <<>> THEN intervals
    ELSE [intervals EXCEPT ![Len(intervals)].endedAt = clockNow]

TouchCondition ==
    /\ condition' = [condition EXCEPT !.lastObservedAt = clockNow]
    /\ UNCHANGED <<intervals, hostEvents, incidentsMade>>

ChangeCondition(decision) ==
    /\ hostEvents' = IF decision.event = "none" THEN hostEvents
                     ELSE Append(hostEvents, [kind |-> decision.event, at |-> clockNow, incident |-> EventIncident(decision.state)])
    /\ intervals' = Append(CloseOpenInterval, [state |-> decision.state, startedAt |-> clockNow, endedAt |-> Open])
    /\ condition' = [state |-> decision.state, startedAt |-> clockNow, lastObservedAt |-> clockNow,
                     failureStartedAt |-> decision.failureStartedAt, incident |-> IncidentAfter(decision.state)]
    /\ incidentsMade' = Max({incidentsMade, IncidentAfter(decision.state)})

RecordHostReachability(reached) ==
    LET decision == IF reached THEN Reached ELSE Unreached IN
    /\ hostThere
    /\ observed' = observed \cup {[at |-> clockNow, reached |-> reached]}
    /\ IF decision.changed THEN ChangeCondition(decision) ELSE TouchCondition

-----------------------------------------------------------------------------
(* runHealthPoll, for this host. *)

\* The lease connects and the host is asked: it answers, or the poll throws.
PollHost ==
    /\ polling = "idle" /\ hostThere /\ lastPoll + PollEvery <= clockNow
    /\ lastPoll' = clockNow
    /\ polling' = IF answering THEN "answered" ELSE "failed"
    /\ answeredAt' = IF answering THEN answeredAt \cup {clockNow} ELSE answeredAt
    /\ UNCHANGED <<clockNow, answering, hostThere, lastSeenAt, statusRows, statusFaults, pollRestarts, hostTurns>>

\* The key is gone, or the row changed while connecting: nothing is recorded.
PollNotLeased ==
    /\ polling = "idle" /\ hostThere /\ lastPoll + PollEvery <= clockNow
    /\ statusFaults < MaxStatusFaults /\ statusFaults' = statusFaults + 1
    /\ lastPoll' = clockNow
    /\ UNCHANGED <<clockNow, answering, hostThere, polling, lastSeenAt, statusRows, answeredAt, pollRestarts, hostTurns>>

RecordSeen ==
    /\ polling = "answered"
    /\ polling' = "seen"
    /\ lastSeenAt' = IF hostThere THEN clockNow ELSE lastSeenAt
    /\ UNCHANGED <<clockNow, answering, hostThere, lastPoll, statusRows, answeredAt, statusFaults, pollRestarts, hostTurns>>

RecordReached ==
    /\ polling = "seen"
    /\ polling' = "idle"
    /\ RecordHostReachability(TRUE)
    /\ UNCHANGED <<clockNow, answering, hostThere, lastPoll, lastSeenAt, answeredAt, statusFaults, pollRestarts, hostTurns>>

RecordUnreached ==
    /\ polling = "failed"
    /\ polling' = "idle"
    /\ RecordHostReachability(FALSE)
    /\ UNCHANGED <<clockNow, answering, hostThere, lastPoll, lastSeenAt, answeredAt, statusFaults, pollRestarts, hostTurns>>

\* A write that throws, as it does once the host is gone: what answered is recorded as not
\* reached, and a failure to record that is only logged.
RecordFails ==
    /\ polling \in {"answered", "seen", "failed"}
    /\ \/ ~hostThere /\ UNCHANGED statusFaults
       \/ hostThere /\ statusFaults < MaxStatusFaults /\ statusFaults' = statusFaults + 1
    /\ polling' = IF polling = "failed" THEN "idle" ELSE "failed"
    /\ UNCHANGED <<clockNow, answering, hostThere, lastPoll, lastSeenAt, statusRows, answeredAt, pollRestarts, hostTurns>>

-----------------------------------------------------------------------------
PollerStops ==
    /\ polling # "off" /\ pollRestarts < MaxPollRestarts
    /\ polling' = "off" /\ pollRestarts' = pollRestarts + 1
    /\ UNCHANGED <<clockNow, answering, hostThere, lastPoll, lastSeenAt, statusRows, answeredAt, statusFaults, hostTurns>>

\* startHealthPoller: the first poll comes an interval later.
PollerStarts ==
    /\ polling = "off"
    /\ polling' = "idle" /\ lastPoll' = clockNow
    /\ UNCHANGED <<clockNow, answering, hostThere, lastSeenAt, statusRows, answeredAt, statusFaults, pollRestarts, hostTurns>>

HostTurns ==
    /\ hostTurns < MaxHostTurns
    /\ hostTurns' = hostTurns + 1 /\ answering' = ~answering
    /\ UNCHANGED <<clockNow, hostThere, polling, lastPoll, lastSeenAt, statusRows, answeredAt, statusFaults, pollRestarts>>

\* The rows about a removed host go with it; its events stay.
HostRemoved ==
    /\ hostThere /\ hostThere' = FALSE
    /\ condition' = Unobserved /\ intervals' = <<>>
    /\ UNCHANGED <<clockNow, answering, polling, lastPoll, lastSeenAt, hostEvents, observed, answeredAt,
                   incidentsMade, statusFaults, pollRestarts, hostTurns>>

\* A poll has a deadline well under an interval.
PollTimePasses ==
    /\ clockNow < MaxPollTime /\ polling \in {"off", "idle"}
    /\ polling = "idle" /\ hostThere => clockNow < lastPoll + PollEvery
    /\ clockNow' = clockNow + 1
    /\ UNCHANGED <<answering, hostThere, polling, lastPoll, lastSeenAt, statusRows, answeredAt, statusFaults, pollRestarts, hostTurns>>

-----------------------------------------------------------------------------
(* The status page: availabilityOver and rollUpBuckets of the host's intervals. *)

EndOf(i) == IF i.endedAt = Open THEN clockNow ELSE i.endedAt

Overlap(i, from, until) ==
    LET a == Max({i.startedAt, from}) b == Min({EndOf(i), until})
    IN IF b <= a THEN 0 ELSE b - a

\* Math.round, of a time in seconds: each overlap is rounded by itself.
Rounded(time) == (2 * time + Second) \div (2 * Second)
OverlapSeconds(i, from, until) == Rounded(Overlap(i, from, until))

\* bucketOf: suspect and unknown count as neither.
GoodStates == {"up"}
BadStates == {"down"}
UnknownStates == {"suspect", "unknown"}

RollUpWindow(states, from, until) ==
    Summed([k \in DOMAIN intervals |->
                IF intervals[k].state \in states THEN OverlapSeconds(intervals[k], from, until) ELSE 0])

RangeStart == clockNow - BucketSize * BucketCount

\* Mutation of BucketStart: every bucket starts on a whole step.
BucketStartAligned(k) == (clockNow \div BucketSize) * BucketSize - (BucketCount - k) * BucketSize

\* The buckets end with the one under way; the first reaches back to the start of the range.
BucketStart(k) ==
    IF k = 1 THEN RangeStart
    ELSE (clockNow \div BucketSize) * BucketSize - (BucketCount - k) * BucketSize

BucketEnd(k) == IF k = BucketCount THEN BucketStart(k) + BucketSize ELSE BucketStart(k + 1)

Availability(states) == RollUpWindow(states, RangeStart, clockNow)
BarsTotal(states) == Summed([k \in 1..BucketCount |-> RollUpWindow(states, BucketStart(k), BucketEnd(k))])

\* healthFor, of a host that is set up: the badge on the host's page.
HealthFor ==
    CASE lastSeenAt = NotYet -> "unknown"
      [] lastSeenAt # NotYet /\ clockNow - lastSeenAt > OfflineAfter -> "offline"
      [] OTHER -> "online"

-----------------------------------------------------------------------------
ReachInit ==
    /\ clockNow = 0
    /\ answering = TRUE /\ hostThere = TRUE
    /\ polling = "idle" /\ lastPoll = 0
    /\ lastSeenAt = NotYet
    /\ condition = Unobserved /\ intervals = <<>> /\ hostEvents = <<>>
    /\ observed = {} /\ answeredAt = {}
    /\ incidentsMade = 0 /\ statusFaults = 0 /\ pollRestarts = 0 /\ hostTurns = 0

ReachNext ==
    \/ PollHost \/ PollNotLeased
    \/ RecordSeen \/ RecordReached \/ RecordUnreached \/ RecordFails
    \/ PollerStops \/ PollerStarts
    \/ HostTurns \/ HostRemoved
    \/ PollTimePasses

ReachSpec == ReachInit /\ [][ReachNext]_reachVars

-----------------------------------------------------------------------------
(* Properties. *)

LatestCheck == CHOOSE o \in observed : \A p \in observed : p.at <= o.at

\* The intervals are one timeline: each starts where the one before ended, and the last is open
\* and is the condition's.
OneTimeline ==
    /\ \A k \in 1..(Len(intervals) - 1) :
         intervals[k].endedAt = intervals[k + 1].startedAt /\ intervals[k].state # intervals[k + 1].state
    /\ condition = Unobserved <=> intervals = <<>>
    /\ intervals # <<>> =>
         LET last == intervals[Len(intervals)] IN
         last.endedAt = Open /\ last.state = condition.state /\ last.startedAt = condition.startedAt

\* The condition says what the checks said: up is the latest answer; down is a failure SuspectToDown
\* old with no answer since; what lies between is suspect.
ConditionFollowsChecks ==
    condition # Unobserved =>
        /\ condition.lastObservedAt = LatestCheck.at
        /\ condition.state = "up" <=> LatestCheck.reached
        /\ condition.state # "up" =>
             /\ [at |-> condition.failureStartedAt, reached |-> FALSE] \in observed
             /\ ~\E o \in observed : o.reached /\ o.at > condition.failureStartedAt
             /\ condition.state = "down" <=> LatestCheck.at - condition.failureStartedAt >= SuspectToDown

Alerting(k) == hostEvents[k].kind \in {"host.unreachable", "host.recovered"}
QuietBetween(j, k) == \A i \in (j + 1)..(k - 1) : ~Alerting(i)

\* The alerting events of one host alternate, each recovery closes the outage before it, and no two
\* outages share an incident.
OutagesPairUp ==
    \A k \in DOMAIN hostEvents : Alerting(k) =>
        \/ /\ QuietBetween(0, k) /\ hostEvents[k].kind = "host.unreachable" /\ hostEvents[k].incident = 1
        \/ \E j \in 1..(k - 1) :
              /\ Alerting(j) /\ QuietBetween(j, k) /\ hostEvents[j].kind # hostEvents[k].kind
              /\ hostEvents[k].incident = hostEvents[j].incident + IF hostEvents[k].kind = "host.unreachable" THEN 1 ELSE 0

\* The badge says online only of a host that answered within OfflineAfter.
OnlineIsRecent ==
    HealthFor = "online" => \E t \in answeredAt : clockNow - t <= OfflineAfter

\* How many overlaps were rounded to make a figure of a window, and to make the bars.
Roundings(states, from, until) ==
    Summed([k \in DOMAIN intervals |->
                IF intervals[k].state \in states /\ Overlap(intervals[k], from, until) > 0 THEN 1 ELSE 0])
BarRoundings(states) == Summed([k \in 1..BucketCount |-> Roundings(states, BucketStart(k), BucketEnd(k))])

\* The page's figure and its bars are of the same time (availabilityOver, rollUpBuckets): but for half a
\* second for each overlap that was rounded, bar by bar they add up to the figure, and the whole is
\* the time since the first check, none of it counted twice.
BarsAddUp ==
    intervals # <<>> =>
        /\ \A states \in {GoodStates, BadStates, UnknownStates} :
             LET halves == BarRoundings(states) + Roundings(states, RangeStart, clockNow) IN
             /\ 2 * (BarsTotal(states) - Availability(states)) <= halves
             /\ 2 * (Availability(states) - BarsTotal(states)) <= halves
        /\ LET all == GoodStates \cup BadStates \cup UnknownStates
               whole == clockNow - Max({RangeStart, intervals[1].startedAt})
               halves == Roundings(all, RangeStart, clockNow)
           IN  /\ 2 * (Second * Availability(all) - whole) <= Second * halves
               /\ 2 * (whole - Second * Availability(all)) <= Second * halves

\* Reachability is recorded as the checks found it (recordHostReachability, nextReachability): one
\* timeline that agrees with the condition, a condition that agrees with the checks, outages that
\* open and close once each, and a badge that does not outlive the answers.
ReachabilityIsRecorded == OneTimeline /\ ConditionFollowsChecks /\ OutagesPairUp /\ OnlineIsRecent

\* What the status page shows of a host is true: what is recorded of it, and the bars made of that
\* (availabilityOver, rollUpBuckets), which add up but for their roundings.
ReachabilityIsHonest == ReachabilityIsRecorded /\ BarsAddUp
=============================================================================
