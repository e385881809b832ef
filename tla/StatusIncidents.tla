-------------------------- MODULE StatusIncidents --------------------------
(***************************************************************************)
(* What the product knows of one bot's connection.  The server's health    *)
(* poller reads the bot's journal from a stored cursor and records each    *)
(* change in one transaction: an event, an incident with a delayed         *)
(* escalation job, the open interval and the condition.  The worker takes  *)
(* the job when the grace period is over and, if the incident is still     *)
(* open, raises the disconnected alert in a transaction of its own.        *)
(*                                                                         *)
(* The two transactions run under READ COMMITTED and meet on two rows, the *)
(* condition and the open interval.  A transaction is split where it reads *)
(* what the other one writes and where it waits for a row; its writes show *)
(* at its commit.                                                          *)
(***************************************************************************)
EXTENDS Naturals, Sequences, FiniteSets, SequencesExt

CONSTANTS
    Server,       \* the server process, as an owner of row locks
    Workers,      \* escalation handlers that may run at once
    Grace,        \* INSTANCE_INTERRUPTED_TO_DOWN_MS
    BatchLines,   \* JOURNAL_MAX_LINES
    FlapLosses,   \* FLAPPING_THRESHOLD
    FlapWindow,   \* FLAPPING_WINDOW_MS
    RetryLimit,   \* STATUS_ESCALATE_POLICY.retryLimit
    MaxSignals,   \* bound: lines of the journal
    MaxIncidents, \* bound: incidents opened
    MaxAfresh,    \* bound: readings afresh over a known condition
    Horizon       \* bound: the time until which lines appear and changes are recorded

ASSUME TimesAssumption == Grace \in Nat /\ FlapWindow \in Nat \ {0} /\ Horizon \in Nat \ {0}
ASSUME CountsAssumption ==
    /\ BatchLines \in Nat \ {0}
    /\ FlapLosses \in Nat /\ RetryLimit \in Nat /\ MaxSignals \in Nat /\ MaxIncidents \in Nat
    /\ MaxAfresh \in Nat
ASSUME OwnersAssumption == Server \notin Workers /\ 0 \notin Workers \cup {Server}

VARIABLES
    clock,
    journal, \* the lines of the bot's unit that carry a signal
    db,      \* what is committed: condition, interval, events, alerts, jobs
    lock,    \* who holds the condition row and the open interval's row
    poller,  \* the server's reading of this bot
    worker,  \* the escalation handlers
    afresh   \* how often the bot was read afresh over a condition known already

vars == <<clock, journal, db, lock, poller, worker, afresh>>

-----------------------------------------------------------------------------
None == 0
Incident == 1..MaxIncidents
Time == 1..(Horizon + Grace)

Signal == [kind : {"joined", "lost", "stopped"}, at : Time]
State == {"joined", "interrupted", "down"}
EventKind == {"joined", "reconnected", "lost", "stopped"}
Change == [state : State, at : Time, event : EventKind]
Alert == [kind : {"disconnected", "reconnected", "flapping"},
          incident : Incident \cup {None}, at : Time \cup {None}]

\* Event keys are the source keys of statusEvent: kind and time for what the
\* journal says, the incident for an escalation (escalationKeyFor).
EventKey == (EventKind \X Time) \cup ({"escalate"} \X Incident)

Condition == [state : State \cup {"none"}, since : Time \cup {None},
              incident : Incident \cup {None}, flapped : Time \cup {None}]
Job == [status : {"none", "queued", "active", "done", "dead"},
        due : Time \cup {None}, tries : 0..RetryLimit]
Database == [cond : Condition, interval : State \cup {"none"}, events : SUBSET EventKey,
             alerts : Seq(Alert), jobs : [Incident -> Job], incidents : 0..MaxIncidents,
             cursor : 0..MaxSignals]

\* at is the journal position read from, next the one to be stored; tell is
\* what the announcement of the first change found, overtaken that the wait
\* for the interval ended with somebody else's commit.
Poller == [pc : {"idle", "read", "record", "close", "blocked", "write", "save"},
           seen : State \cup {"unknown"}, at : 0..MaxSignals, next : 0..MaxSignals,
           full : BOOLEAN, changes : Seq(Change), tell : BOOLEAN, overtaken : BOOLEAN]
Handler == [pc : {"idle", "read", "claim", "close", "commit", "end"},
            incident : Incident \cup {None}, try : 0..RetryLimit]

NotPolling == [pc |-> "idle", seen |-> "unknown", at |-> 0, next |-> 0, full |-> FALSE,
               changes |-> <<>>, tell |-> FALSE, overtaken |-> FALSE]
NotRunning == [pc |-> "idle", incident |-> None, try |-> 0]

Init ==
    /\ clock = 1
    /\ journal = <<>>
    /\ db = [cond |-> [state |-> "none", since |-> None, incident |-> None, flapped |-> None],
             interval |-> "none", events |-> {}, alerts |-> <<>>,
             jobs |-> [i \in Incident |-> [status |-> "none", due |-> None, tries |-> 0]],
             incidents |-> 0, cursor |-> 0]
    /\ lock = [cond |-> None, interval |-> None]
    /\ poller = NotPolling
    /\ worker = [w \in Workers |-> NotRunning]
    /\ afresh = 0

\* The locks that p holds are released when its transaction ends.
Freed(p) == [row \in DOMAIN lock |-> IF lock[row] = p THEN None ELSE lock[row]]

-----------------------------------------------------------------------------
\* The bot's journal grows; time passes.
Log(kind) ==
    /\ Len(journal) < MaxSignals /\ clock <= Horizon
    /\ journal' = Append(journal, [kind |-> kind, at |-> clock])
    /\ UNCHANGED <<clock, db, lock, poller, worker, afresh>>

Tick ==
    /\ clock < Horizon + Grace
    /\ poller.pc \in {"close", "blocked", "write"} => clock < Horizon
    /\ clock' = clock + 1
    /\ UNCHANGED <<journal, db, lock, poller, worker, afresh>>

-----------------------------------------------------------------------------
\* changesFromSignals: what a signal turns the connection into, when it says
\* nothing new, and the event it is recorded as.
Turn == [joined |-> "joined", lost |-> "interrupted", stopped |-> "down"]
SaysNothing(state, kind) == state = Turn[kind] \/ (kind = "lost" /\ state = "down")
EventOf(state, kind) ==
    IF kind = "joined" /\ state # "unknown" THEN "reconnected" ELSE kind

Followed(acc, s) ==
    IF SaysNothing(acc.state, s.kind) THEN acc
    ELSE [state |-> Turn[s.kind],
          changes |-> Append(acc.changes, [state |-> Turn[s.kind], at |-> s.at,
                                           event |-> EventOf(acc.state, s.kind)])]
Following(seen, signals) ==
    LET after[n \in 0..Len(signals)] ==
            IF n = 0 THEN [state |-> seen, changes |-> <<>>]
            ELSE Followed(after[n - 1], signals[n])
    IN  after
ChangesFromSignals(seen, signals) == Following(seen, signals)[Len(signals)].changes

\* connectionCursor and currentConnection.
PollStart ==
    /\ poller = NotPolling
    /\ poller' = [NotPolling EXCEPT !.pc = "read", !.at = db.cursor,
                    !.seen = IF db.cond.state = "none" THEN "unknown" ELSE db.cond.state]
    /\ UNCHANGED <<clock, journal, db, lock, worker, afresh>>

\* A first read takes the latest signal for the bot's state, whatever was
\* known before.
ReadSeed ==
    /\ poller.pc = "read" /\ poller.at = 0
    /\ poller' = IF journal = <<>> THEN NotPolling
                 ELSE [poller EXCEPT !.pc = "record", !.next = Len(journal),
                         !.changes = ChangesFromSignals("unknown", <<Last(journal)>>)]
    /\ afresh' = IF db.cond.state = "none" THEN afresh ELSE afresh + 1
    /\ afresh' <= MaxAfresh
    /\ UNCHANGED <<clock, journal, db, lock, worker>>

\* Mutation of Withheld: the last line is always taken for a lookahead.
WithheldAlways(full) == 1

\* Only a line beyond a full batch is held back.
Withheld(full) == IF full THEN 1 ELSE 0

\* A read that resumes shows the line at the cursor again, and one line more
\* than a batch if there is more; that line is not judged yet, and is where
\* the next read begins.
ReadOn ==
    /\ poller.pc = "read" /\ poller.at # 0
    /\ LET full == Len(journal) - poller.at + 1 > BatchLines
           next == IF full THEN poller.at + BatchLines ELSE Len(journal)
           judged == SubSeq(journal, poller.at, next - Withheld(full))
           changes == ChangesFromSignals(poller.seen, judged)
       IN  poller' = [poller EXCEPT !.next = next, !.full = full, !.changes = changes,
                                    !.pc = IF changes = <<>> THEN "save" ELSE "record"]
    /\ UNCHANGED <<clock, journal, db, lock, worker, afresh>>

\* The stored position is gone from the journal: read afresh in this cycle.
ReadRefused ==
    /\ poller.pc = "read" /\ poller.at # 0
    /\ poller' = [poller EXCEPT !.at = 0]
    /\ UNCHANGED <<clock, journal, db, lock, worker, afresh>>

-----------------------------------------------------------------------------
\* nextIncident: being back closes the incident, a loss opens one unless one
\* is open, a stop leaves it as it is.
NextIncident(d, ch) ==
    CASE ch.state = "joined" -> None
      [] ch.state = "interrupted" /\ d.cond.incident = None -> d.incidents + 1
      [] OTHER -> d.cond.incident

\* lastAnnouncedAmong, over the incident or, without one, over the bot: the
\* last of them is of this kind.
LastAnnounced(d, incident, kind) ==
    LET among == {k \in DOMAIN d.alerts : /\ d.alerts[k].kind # "flapping"
                                          /\ incident \in {None, d.alerts[k].incident}}
    IN  \E k \in among : d.alerts[k].kind = kind /\ \A m \in among : m <= k

\* Mutation of WorthAnnouncing: every reconnection is news.
WorthAnnouncingAlways(d, ch) == ch.event = "reconnected"

\* A recovery is announced when the problem was.
WorthAnnouncing(d, ch) ==
    ch.event = "reconnected" /\ LastAnnounced(d, d.cond.incident, "disconnected")

\* Mutation of MayFlap: the cooldown is not looked at.
MayFlapAgain(d, at) == TRUE

\* The condition of claimFlapping.
MayFlap(d, at) == d.cond.flapped = None \/ d.cond.flapped + FlapWindow <= at

\* recentLossesAt counts the loss just recorded among them.
Flaps(d, ch) ==
    /\ ch.event = "lost" /\ d.cond.state # "none"
    /\ Cardinality({k \in d.events \cup {<<"lost", ch.at>>} :
                       k[1] = "lost" /\ k[2] <= ch.at /\ k[2] + FlapWindow >= ch.at})
         >= FlapLosses
    /\ MayFlap(d, ch.at)

\* Mutation of EscalationDue: the job is sent without its delay.
EscalationAtOnce == clock

\* startAfterSeconds counts from when the loss is recorded.
EscalationDue == clock + Grace

\* One round of recordInstanceConnection's loop, on the database as the
\* transaction sees it; tell says whether a recovery is worth announcing.
RecordChange(d, ch, tell) ==
    LET key == <<ch.event, ch.at>>
        incident == NextIncident(d, ch)
        opened == incident > d.incidents
        recovery == IF tell /\ key \notin d.events
                      THEN <<[kind |-> "reconnected", incident |-> d.cond.incident, at |-> None]>>
                      ELSE <<>>
        flapping == IF Flaps(d, ch)
                      THEN <<[kind |-> "flapping", incident |-> None, at |-> ch.at]>> ELSE <<>>
    IN  [d EXCEPT
           !.events = @ \cup {key},
           !.alerts = @ \o recovery \o flapping,
           !.incidents = IF opened THEN incident ELSE @,
           !.jobs = IF opened
                      THEN [@ EXCEPT ![incident] = [status |-> "queued", due |-> EscalationDue,
                                                    tries |-> 0]]
                      ELSE @,
           !.interval = ch.state,
           !.cond = [state |-> ch.state, incident |-> incident,
                     since |-> IF ch.state = "joined" THEN None ELSE ch.at,
                     flapped |-> IF Flaps(d, ch) THEN ch.at ELSE @.flapped]]

\* The whole loop; the first change was announced before the transaction
\* held any row.
Rounds(d, changes, tell) ==
    LET after[n \in 0..Len(changes)] ==
            IF n = 0 THEN d
            ELSE RecordChange(after[n - 1], changes[n],
                              IF n = 1 THEN tell ELSE WorthAnnouncing(after[n - 1], changes[n]))
    IN  after
Recorded == Rounds(db, poller.changes, poller.tell)[Len(poller.changes)]

\* The transaction up to the first change's interval: it reads what was
\* announced last, and claims the flapping alert on the condition row.
RecordFirst ==
    /\ poller.pc = "record"
    /\ clock <= Horizon /\ Recorded.incidents <= MaxIncidents
    /\ Flaps(db, Head(poller.changes)) => lock.cond = None
    /\ lock' = [lock EXCEPT !.cond = IF Flaps(db, Head(poller.changes)) THEN Server ELSE @]
    /\ poller' = [poller EXCEPT !.pc = "close", !.tell = WorthAnnouncing(db, Head(poller.changes))]
    /\ UNCHANGED <<clock, journal, db, worker, afresh>>

\* closeOpenInterval takes the open interval's row, or waits for it.
CloseTakes ==
    /\ \/ poller.pc = "close"
       \/ poller.pc = "blocked" /\ ~poller.overtaken
    /\ lock.interval = None
    /\ lock' = [lock EXCEPT !.interval = Server]
    /\ poller' = [poller EXCEPT !.pc = "write"]
    /\ UNCHANGED <<clock, journal, db, worker, afresh>>

CloseWaits ==
    /\ poller.pc = "close" /\ lock.interval # None
    /\ poller' = [poller EXCEPT !.pc = "blocked"]
    /\ UNCHANGED <<clock, journal, db, lock, worker, afresh>>

\* When the wait ends with the other's commit, the row is closed already and
\* the one that replaced it was not seen: opening a second interval breaks
\* statusInterval_instance_open and the transaction fails.
OpenConflicts ==
    /\ poller.pc = "blocked" /\ poller.overtaken
    /\ poller' = NotPolling
    /\ lock' = Freed(Server)
    /\ UNCHANGED <<clock, journal, db, worker, afresh>>

\* upsertCondition takes the condition row; nothing after it waits.
RecordCommit ==
    /\ poller.pc = "write"
    /\ lock.cond \in {None, Server} /\ Recorded.incidents <= MaxIncidents
    /\ db' = Recorded
    /\ lock' = Freed(Server)
    /\ poller' = [poller EXCEPT !.pc = "save", !.tell = FALSE]
    /\ UNCHANGED <<clock, journal, worker, afresh>>

\* The cursor is stored in a transaction of its own; after a full batch the
\* drain reads on with the state it has itself recorded (connectionAfter).
SaveCursor ==
    /\ poller.pc = "save"
    /\ db' = [db EXCEPT !.cursor = poller.next]
    /\ poller' = IF ~poller.full THEN NotPolling
                 ELSE [NotPolling EXCEPT !.pc = "read", !.at = poller.next,
                         !.seen = IF poller.changes = <<>> THEN poller.seen
                                  ELSE Last(poller.changes).state]
    /\ UNCHANGED <<clock, journal, lock, worker, afresh>>

\* The server restarts, the host cannot be read, or a statement fails: the
\* open transaction is rolled back.
PollStops ==
    /\ poller # NotPolling
    /\ poller' = NotPolling
    /\ lock' = Freed(Server)
    /\ UNCHANGED <<clock, journal, db, worker, afresh>>

-----------------------------------------------------------------------------
JobOf(w) == db.jobs[worker[w].incident]

Take(w) ==
    /\ worker[w] = NotRunning
    /\ \E i \in Incident :
         /\ db.jobs[i].status = "queued" /\ db.jobs[i].due <= clock
         /\ db' = [db EXCEPT !.jobs[i].status = "active"]
         /\ worker' = [worker EXCEPT ![w] = [pc |-> "read", incident |-> i,
                                             try |-> db.jobs[i].tries]]
    /\ UNCHANGED <<clock, journal, lock, poller, afresh>>

\* findCondition and escalateIfStillDown.
StillDown(incident) ==
    /\ db.cond.incident = incident /\ db.cond.state = "interrupted"
    /\ clock - db.cond.since >= Grace

EscalateRead(w) ==
    /\ worker[w].pc = "read"
    /\ worker' = [worker EXCEPT ![w].pc = IF StillDown(worker[w].incident) THEN "claim" ELSE "end"]
    /\ UNCHANGED <<clock, journal, db, lock, poller, afresh>>

\* Mutation of Claimable: the condition read before is not looked at again.
ClaimableAnyway(incident) == TRUE

\* The condition of claimEscalation, on the row as it is when it is taken.
Claimable(incident) == db.cond.incident = incident /\ db.cond.state = "interrupted"

\* claimEscalation.  If the incident was escalated before, recordEvent finds
\* its key taken and the transaction ends with the claim alone.
EscalateClaim(w) ==
    /\ worker[w].pc = "claim"
    /\ lock.cond = None
    /\ LET i == worker[w].incident
           again == <<"escalate", i>> \in db.events
       IN  \/ /\ ~Claimable(i)
              /\ worker' = [worker EXCEPT ![w].pc = "end"]
              /\ UNCHANGED <<db, lock>>
           \/ /\ Claimable(i) /\ again
              /\ db' = [db EXCEPT !.cond.state = "down"]
              /\ worker' = [worker EXCEPT ![w].pc = "end"]
              /\ UNCHANGED lock
           \/ /\ Claimable(i) /\ ~again
              /\ lock' = [lock EXCEPT !.cond = w]
              /\ worker' = [worker EXCEPT ![w].pc = "close"]
              /\ UNCHANGED db
    /\ UNCHANGED <<clock, journal, poller, afresh>>

EscalateClose(w) ==
    /\ worker[w].pc = "close"
    /\ lock.interval = None
    /\ lock' = [lock EXCEPT !.interval = w]
    /\ worker' = [worker EXCEPT ![w].pc = "commit"]
    /\ UNCHANGED <<clock, journal, db, poller, afresh>>

\* Mutation of Escalated: no interval is opened for the outage.
EscalatedUncounted(i) ==
    [db EXCEPT !.cond.state = "down", !.events = @ \cup {<<"escalate", i>>},
               !.alerts = Append(@, [kind |-> "disconnected", incident |-> i, at |-> None])]

\* What escalateInstance writes.
Escalated(i) ==
    [db EXCEPT !.cond.state = "down", !.interval = "down",
               !.events = @ \cup {<<"escalate", i>>},
               !.alerts = Append(@, [kind |-> "disconnected", incident |-> i, at |-> None])]

EscalateCommit(w) ==
    /\ worker[w].pc = "commit"
    /\ db' = Escalated(worker[w].incident)
    /\ lock' = Freed(w)
    /\ poller' = [poller EXCEPT !.overtaken = @ \/ poller.pc = "blocked"]
    /\ worker' = [worker EXCEPT ![w].pc = "end"]
    /\ UNCHANGED <<clock, journal, afresh>>

\* pg-boss completes the job after its handler, unless the run has expired.
Complete(w) ==
    /\ worker[w].pc = "end"
    /\ db' = IF JobOf(w).status = "active" /\ JobOf(w).tries = worker[w].try
               THEN [db EXCEPT !.jobs[worker[w].incident].status = "done"] ELSE db
    /\ worker' = [worker EXCEPT ![w] = NotRunning]
    /\ UNCHANGED <<clock, journal, lock, poller, afresh>>

\* Mutation of Retried: the queue has no limit of retries.
RetriedForever(i) ==
    [db EXCEPT !.jobs[i] = [status |-> "queued", due |-> @.due, tries |-> @.tries + 1]]

\* The next try, or the dead-letter queue.
Retried(i) ==
    IF db.jobs[i].tries < RetryLimit
      THEN [db EXCEPT !.jobs[i] = [status |-> "queued", due |-> @.due, tries |-> @.tries + 1]]
      ELSE [db EXCEPT !.jobs[i].status = "dead"]

\* The handler throws, or the worker process dies.
EscalateFails(w) ==
    /\ worker[w].pc # "idle"
    /\ db' = IF JobOf(w).status = "active" /\ JobOf(w).tries = worker[w].try
               THEN Retried(worker[w].incident) ELSE db
    /\ lock' = Freed(w)
    /\ worker' = [worker EXCEPT ![w] = NotRunning]
    /\ UNCHANGED <<clock, journal, poller, afresh>>

\* expireInSeconds: the job is given up on while its handler goes on.
Expire(i) ==
    /\ db.jobs[i].status = "active"
    /\ \E w \in Workers : worker[w].incident = i /\ worker[w].try = db.jobs[i].tries
    /\ db' = Retried(i)
    /\ UNCHANGED <<clock, journal, lock, poller, worker, afresh>>

\* The server holds the interval and waits for the condition, the worker the
\* other way round: PostgreSQL makes one of the two fail.
Deadlocked(w) ==
    /\ poller.pc = "write" /\ lock.interval = Server
    /\ worker[w].pc = "close" /\ lock.cond = w

-----------------------------------------------------------------------------
PollStep ==
    \/ ReadSeed \/ ReadOn \/ ReadRefused
    \/ RecordFirst \/ CloseTakes \/ CloseWaits \/ OpenConflicts \/ RecordCommit
    \/ SaveCursor

EscalateStep(w) ==
    \/ EscalateRead(w) \/ EscalateClaim(w) \/ EscalateClose(w) \/ EscalateCommit(w)
    \/ Complete(w)

Next ==
    \/ Tick
    \/ \E kind \in DOMAIN Turn : Log(kind)
    \/ PollStart \/ PollStep \/ PollStops
    \/ \E w \in Workers : Take(w) \/ EscalateStep(w) \/ EscalateFails(w)
    \/ \E i \in Incident : Expire(i)

Spec == Init /\ [][Next]_vars

\* Time passes; a poll that was begun goes on; the worker keeps taking jobs
\* and gets every row lock it queues for; deadlocks are broken.
FairSpec ==
    /\ Spec
    /\ SF_vars(Tick)
    /\ WF_vars(PollStep)
    /\ \A w \in Workers :
         /\ WF_vars(Take(w))
         /\ SF_vars(EscalateStep(w))
         /\ WF_vars(Deadlocked(w) /\ (PollStops \/ EscalateFails(w)))

-----------------------------------------------------------------------------
\* Every variable has its shape.
TypeOK ==
    /\ clock \in Time
    /\ journal \in Seq(Signal)
    /\ db \in Database
    /\ lock \in [{"cond", "interval"} -> Workers \cup {Server, None}]
    /\ poller \in Poller
    /\ worker \in [Workers -> Handler]
    /\ afresh \in 0..MaxAfresh

\* An operator is told that a bot is disconnected only for the incident that
\* is open, and while the bot is still interrupted: a rejoin or a stop that
\* was recorded first keeps the escalation quiet, in whatever order the two
\* transactions read and wait.
ClosedStaysQuiet ==
    [][\A i \in Incident :
         LET told == [kind |-> "disconnected", incident |-> i, at |-> None]
         IN  told \in Range(db'.alerts) \ Range(db.alerts)
               => db.cond.incident = i /\ db.cond.state = "interrupted"]_vars

\* The open interval, from which availability is computed, is of the state
\* the condition shows, after every mixture of the two transactions, as long
\* as the journal is read on from where it was left.
IntervalMatchesCondition == afresh = 0 => db.interval = db.cond.state

\* While a bot is interrupted a job is pending that will look at its
\* incident once the grace period is over, unless that job ran out of tries:
\* no replay, batch or race uses the timer up too early, as long as the
\* journal is read on from where it was left.
InterruptedIsWatched ==
    afresh = 0 /\ db.cond.state = "interrupted" =>
        db.jobs[db.cond.incident].status \in {"queued", "active", "dead"}

\* A recovery is announced only to whoever was told of the problem: between
\* two recoveries a disconnection was announced.
RecoveryFollowsProblem ==
    \A k \in DOMAIN db.alerts : db.alerts[k].kind = "reconnected" =>
        \E j \in 1..(k - 1) :
            /\ db.alerts[j].kind = "disconnected"
            /\ \A m \in (j + 1)..(k - 1) : db.alerts[m].kind # "reconnected"

\* Two flapping alerts are a whole window apart, however often lines of the
\* journal are read again.
FlappingOncePerWindow ==
    \A j, k \in DOMAIN db.alerts :
        /\ j < k /\ db.alerts[j].kind = "flapping" /\ db.alerts[k].kind = "flapping"
        => db.alerts[j].at + FlapWindow <= db.alerts[k].at

\* When a poll has read to the end of the journal and stores its cursor, the
\* condition shows what the last line says, whatever batches, replays,
\* failures and escalations came before: no line was skipped.
CaughtUpIsRight ==
    poller.pc = "save" /\ ~poller.full =>
        LET last == journal[poller.next].kind
        IN  db.cond.state = Turn[last] \/ (last = "lost" /\ db.cond.state = "down")

\* What the plan of the alerts says, "the timer must be durable": a bot does
\* not stay interrupted unnoticed.  It comes back, stops, is announced as
\* disconnected, or the job that would do so is set aside.
InterruptedSettles ==
    \A i \in Incident :
        db.cond.incident = i /\ db.cond.state = "interrupted"
            ~> \/ db.cond.incident # i \/ db.cond.state # "interrupted"
               \/ db.jobs[i].status = "dead"

\* Taken together: the timeline and the pending job follow the condition
\* (recordInstanceStatus, escalate).
ConditionIsCarried == TypeOK /\ IntervalMatchesCondition /\ InterruptedIsWatched

\* Taken together: no alert without its cause, none twice (nextIncident).
AlertsHaveCauses == RecoveryFollowsProblem /\ FlappingOncePerWindow
=============================================================================
