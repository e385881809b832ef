--------------------------- MODULE AlertDelivery ---------------------------
(***************************************************************************)
(* Delivery of alerts to an organization's destinations.  An event is      *)
(* announced by inserting a notification, one delivery row for each        *)
(* subscribed destination and one job for each delivery in a single        *)
(* transaction.  The worker takes a job, re-reads the rows, sends, and     *)
(* settles: retries are its own (a settled attempt queues the next job in  *)
(* the same transaction), pg-boss never retries.  Operators meanwhile turn *)
(* destinations off and on, remove them, and retry or dismiss deliveries.  *)
(* Every statement or transaction is one step; nothing is locked across    *)
(* a send.                                                                 *)
(***************************************************************************)
EXTENDS Naturals, FiniteSets

CONSTANTS
    Events,      \* what is announced; an event's dedupe key is its identity
    Dests,       \* notification destinations
    Announcers,  \* transactions that announce concurrently
    Workers,     \* delivery handlers that run concurrently
    Serves,      \* the destinations whose queue a worker takes from
    RetryLimit,  \* DELIVERY_RETRY_LIMIT
    MaxRetries,  \* bound: retries asked for by operators
    MaxFaults    \* bound: handlers that end without settling

ASSUME ServesAssumption == Serves \in [Workers -> SUBSET Dests]
ASSUME LimitsAssumption == /\ RetryLimit \in Nat \ {0}
                           /\ MaxRetries \in Nat
                           /\ MaxFaults \in Nat

VARIABLES
    dest,      \* the destination rows
    notified,  \* events that have a notification row
    state,     \* the state column of each delivery row
    jobs,      \* jobs waiting in the delivery queues
    letters,   \* jobs in the dead-letter queue, for each delivery
    ann,       \* announcing transactions between their reads and their commit
    handler,   \* delivery handlers
    retrying,  \* deliveries an operator's retry has found fit to be retried
    clock,     \* the worker's clock, advanced by every answer
    accepted,  \* how often a receiver has acknowledged each delivery
    observed,  \* the latest answer, by the worker's clock, settled for each destination
    retries,   \* operator retries so far
    faults     \* handlers that ended without settling so far

vars == <<dest, notified, state, jobs, letters, ann, handler, retrying, clock,
          accepted, observed, retries, faults>>

-----------------------------------------------------------------------------
Deliveries == Events \X Dests
To(dl) == dl[2]
Attempts == 1..RetryLimit

Settled == {"delivered", "failed", "abandoned"}
DeliveryState == Settled \cup {"none", "queued"}

\* What a send may come to: classifyHttpStatus and its siblings, with 410
\* ("gone") told apart from other terminal refusals.
Outcome == {"delivered", "retryable", "terminal", "gone"}
NoOutcome == "none"

NoAnnouncement == [event |-> {}, to |-> {}]
NoDelivery == <<>>
Idle == [pc |-> "idle", dl |-> NoDelivery, attempt |-> 0, outcome |-> NoOutcome, at |-> 0]

\* A destination row; okAt, badAt and reason are lastSucceededAt,
\* lastFailedAt and whether lastFailureReason is set, 0 a null timestamp.
Destination == [status : {"absent", "on", "off", "removed"}, okAt : Nat, badAt : Nat,
                reason : BOOLEAN]
Fresh == [status |-> "on", okAt |-> 0, badAt |-> 0, reason |-> FALSE]

Announcement == [event : {{e} : e \in Events}, to : SUBSET Dests]
Handler == [pc : {"taken", "off", "live", "answered"}, dl : Deliveries,
            attempt : Attempts, outcome : Outcome \cup {NoOutcome}, at : Nat]

Exists(d) == dest[d].status \in {"on", "off"}
Enabled(d) == dest[d].status = "on"

\* The handler is at work on this delivery.
Carries(w, dl) == handler[w].pc # "idle" /\ handler[w].dl = dl

-----------------------------------------------------------------------------
Init ==
    /\ dest = [d \in Dests |-> [Fresh EXCEPT !.status = "absent"]]
    /\ notified = {}
    /\ state = [dl \in Deliveries |-> "none"]
    /\ jobs = [dl \in Deliveries |-> [k \in Attempts |-> 0]]
    /\ letters = [dl \in Deliveries |-> 0]
    /\ ann = [a \in Announcers |-> NoAnnouncement]
    /\ handler = [w \in Workers |-> Idle]
    /\ retrying = {}
    /\ clock = 0
    /\ accepted = [dl \in Deliveries |-> 0]
    /\ observed = [d \in Dests |-> [at |-> 0, ok |-> TRUE]]
    /\ retries = 0
    /\ faults = 0

\* create
Create(d) ==
    /\ dest[d].status = "absent"
    /\ dest' = [dest EXCEPT ![d] = Fresh]
    /\ UNCHANGED <<notified, state, jobs, letters, ann, handler, retrying, clock,
                   accepted, observed, retries, faults>>

\* setEnabled(true)
Enable(d) ==
    /\ dest[d].status = "off"
    /\ dest' = [dest EXCEPT ![d].status = "on"]
    /\ UNCHANGED <<notified, state, jobs, letters, ann, handler, retrying, clock,
                   accepted, observed, retries, faults>>

\* setEnabled(false) also abandons what is queued; a row it cannot see yet,
\* or one in a handler's hands, is left to the worker.
Disable(d) ==
    /\ Exists(d)
    /\ dest' = [dest EXCEPT ![d].status = "off"]
    /\ state' = [dl \in Deliveries |->
                    IF To(dl) = d /\ state[dl] = "queued" THEN "abandoned" ELSE state[dl]]
    /\ UNCHANGED <<notified, jobs, letters, ann, handler, retrying, clock, accepted,
                   observed, retries, faults>>

\* remove: the foreign keys delete the destination's deliveries with it.
Remove(d) ==
    /\ Exists(d)
    /\ dest' = [dest EXCEPT ![d].status = "removed"]
    /\ state' = [dl \in Deliveries |-> IF To(dl) = d THEN "none" ELSE state[dl]]
    /\ UNCHANGED <<notified, jobs, letters, ann, handler, retrying, clock, accepted,
                   observed, retries, faults>>

\* announce, up to its inserts: the enabled destinations subscribed to the
\* event (any of them may be).  A test alert reads its one destination alike.
AnnounceRead(a, e, to) ==
    /\ ann[a] = NoAnnouncement
    /\ to # {}
    /\ \A d \in to : Enabled(d)
    /\ ann' = [ann EXCEPT ![a] = [event |-> {e}, to |-> to]]
    /\ UNCHANGED <<dest, notified, state, jobs, letters, handler, retrying, clock,
                   accepted, observed, retries, faults>>

\* Mutation of AnnounceFits: deliveries do not reference their destination.
FitsWithoutDestination(a) == ann[a].event \cap notified = {}

\* The inserts go through: createNotification meets no row with its dedupe
\* key, and every destination is still there for the foreign key.
AnnounceFits(a) ==
    /\ ann[a].event \cap notified = {}
    /\ \A d \in ann[a].to : Exists(d)

Announced(a) == ann[a].event \X ann[a].to

\* The announcing transaction ends: all of its rows and jobs, or none.
AnnounceCommit(a) ==
    /\ ann[a] # NoAnnouncement
    /\ IF AnnounceFits(a)
         THEN /\ notified' = notified \cup ann[a].event
              /\ state' = [dl \in Deliveries |->
                             IF dl \in Announced(a) THEN "queued" ELSE state[dl]]
              /\ jobs' = [dl \in Deliveries |->
                            IF dl \in Announced(a) THEN [jobs[dl] EXCEPT ![1] = @ + 1]
                            ELSE jobs[dl]]
         ELSE UNCHANGED <<notified, state, jobs>>
    /\ ann' = [ann EXCEPT ![a] = NoAnnouncement]
    /\ UNCHANGED <<dest, letters, handler, retrying, clock, accepted, observed,
                   retries, faults>>

\* retry, up to its update: the delivery is there and its destination is on.
RetryRead(dl) ==
    /\ retries < MaxRetries
    /\ dl \notin retrying
    /\ state[dl] # "none"
    /\ Enabled(To(dl))
    /\ retrying' = retrying \cup {dl}
    /\ retries' = retries + 1
    /\ UNCHANGED <<dest, notified, state, jobs, letters, ann, handler, clock, accepted,
                   observed, faults>>

\* Mutation of RetryCommit: the new job is sent outside the transaction and lost.
RetryWithoutJob(dl) ==
    /\ dl \in retrying
    /\ retrying' = retrying \ {dl}
    /\ state' = IF state[dl] \in {"failed", "abandoned"}
                  THEN [state EXCEPT ![dl] = "queued"] ELSE state
    /\ UNCHANGED <<dest, notified, jobs, letters, ann, handler, clock, accepted,
                   observed, retries, faults>>

\* Mutation of RetryCommit: requeueDelivery does not look at the state.
RetryWhatever(dl) ==
    /\ dl \in retrying
    /\ retrying' = retrying \ {dl}
    /\ IF state[dl] # "none"
         THEN /\ state' = [state EXCEPT ![dl] = "queued"]
              /\ jobs' = [jobs EXCEPT ![dl][1] = @ + 1]
         ELSE UNCHANGED <<state, jobs>>
    /\ UNCHANGED <<dest, notified, letters, ann, handler, clock, accepted,
                   observed, retries, faults>>

\* requeueDelivery takes only a settled failure; its job starts at attempt 1.
RetryCommit(dl) ==
    /\ dl \in retrying
    /\ retrying' = retrying \ {dl}
    /\ IF state[dl] \in {"failed", "abandoned"}
         THEN /\ state' = [state EXCEPT ![dl] = "queued"]
              /\ jobs' = [jobs EXCEPT ![dl][1] = @ + 1]
         ELSE UNCHANGED <<state, jobs>>
    /\ UNCHANGED <<dest, notified, letters, ann, handler, clock, accepted,
                   observed, retries, faults>>

\* dismiss
Dismiss(dl) ==
    /\ state[dl] = "failed"
    /\ state' = [state EXCEPT ![dl] = "abandoned"]
    /\ UNCHANGED <<dest, notified, jobs, letters, ann, handler, retrying, clock,
                   accepted, observed, retries, faults>>

-----------------------------------------------------------------------------
Unsettled(dl) == state[dl] = "queued"

\* Mutation of Take: a settled delivery is sent again.
TakeUnchecked(w, dl, k) ==
    /\ handler[w] = Idle
    /\ To(dl) \in Serves[w]
    /\ jobs[dl][k] > 0
    /\ jobs' = [jobs EXCEPT ![dl][k] = @ - 1]
    /\ handler' = IF state[dl] = "none" THEN handler
                    ELSE [handler EXCEPT ![w] = [Idle EXCEPT !.pc = "taken", !.dl = dl,
                                                             !.attempt = k]]
    /\ UNCHANGED <<dest, notified, state, letters, ann, retrying, clock, accepted,
                   observed, retries, faults>>

\* The worker fetches a job; one whose delivery is missing or settled is
\* skipped and completes.
Take(w, dl, k) ==
    /\ handler[w] = Idle
    /\ To(dl) \in Serves[w]
    /\ jobs[dl][k] > 0
    /\ jobs' = [jobs EXCEPT ![dl][k] = @ - 1]
    /\ handler' = IF ~Unsettled(dl) THEN handler
                    ELSE [handler EXCEPT ![w] = [Idle EXCEPT !.pc = "taken", !.dl = dl,
                                                             !.attempt = k]]
    /\ UNCHANGED <<dest, notified, state, letters, ann, retrying, clock, accepted,
                   observed, retries, faults>>

\* findDestination.  Settling a delivery whose destination was removed
\* matches no row: the cascade took it too.
Look(w) ==
    LET d == To(handler[w].dl)
    IN  /\ handler[w].pc = "taken"
        /\ handler' = IF ~Exists(d) THEN [handler EXCEPT ![w] = Idle]
                      ELSE [handler EXCEPT ![w].pc = IF Enabled(d) THEN "live" ELSE "off"]
        /\ UNCHANGED <<dest, notified, state, jobs, letters, ann, retrying, clock,
                       accepted, observed, retries, faults>>

\* settleDelivery: an update by id, whatever the row's state is by now.
WithState(dl, to) == IF state[dl] = "none" THEN state ELSE [state EXCEPT ![dl] = to]

\* The destination was off when it was read: the delivery is abandoned.
SettleOff(w) ==
    /\ handler[w].pc = "off"
    /\ state' = WithState(handler[w].dl, "abandoned")
    /\ handler' = [handler EXCEPT ![w] = Idle]
    /\ UNCHANGED <<dest, notified, jobs, letters, ann, retrying, clock, accepted,
                   observed, retries, faults>>

\* The send ends, by an answer, a network failure or a thrown error (which
\* counts as terminal), and settledAt is read from the clock.
Send(w) ==
    LET dl == handler[w].dl
    IN  /\ handler[w].pc = "live"
        /\ clock' = clock + 1
        /\ \E o \in Outcome :
             /\ handler' = [handler EXCEPT ![w] = [@ EXCEPT !.pc = "answered",
                                                   !.outcome = o, !.at = clock + 1]]
             /\ accepted' = IF o = "delivered" THEN [accepted EXCEPT ![dl] = @ + 1]
                            ELSE accepted
        /\ UNCHANGED <<dest, notified, state, jobs, letters, ann, retrying, observed,
                       retries, faults>>

\* Mutation of MarkOutcome: the last write wins.
MarkUnguarded(d, at, ok) ==
    IF ok THEN [dest[d] EXCEPT !.okAt = at, !.reason = FALSE]
          ELSE [dest[d] EXCEPT !.badAt = at, !.reason = TRUE]

\* markDestinationOutcome: only an answer later than both stored ones counts.
MarkOutcome(d, at, ok) ==
    IF dest[d].okAt >= at \/ dest[d].badAt >= at THEN dest[d]
    ELSE IF ok THEN [dest[d] EXCEPT !.okAt = at, !.reason = FALSE]
               ELSE [dest[d] EXCEPT !.badAt = at, !.reason = TRUE]

\* The bookkeeping of a settled answer that every way of settling shares.
Observe(w, ok) ==
    LET d == To(handler[w].dl) IN
    /\ observed' = IF observed[d].at < handler[w].at
                     THEN [observed EXCEPT ![d] = [at |-> handler[w].at, ok |-> ok]]
                     ELSE observed
    /\ handler' = [handler EXCEPT ![w] = Idle]
    /\ UNCHANGED <<notified, ann, retrying, clock, accepted, retries, faults>>

Answered(w) == handler[w].pc = "answered" /\ state[handler[w].dl] # "none"

SettleDelivered(w) ==
    LET dl == handler[w].dl
        d == To(dl)
    IN  /\ Answered(w)
        /\ handler[w].outcome = "delivered"
        /\ state' = [state EXCEPT ![dl] = "delivered"]
        /\ dest' = [dest EXCEPT ![d] = MarkOutcome(d, handler[w].at, TRUE)]
        /\ UNCHANGED <<jobs, letters>>
        /\ Observe(w, TRUE)

GivesUp(w) ==
    \/ handler[w].outcome \in {"terminal", "gone"}
    \/ handler[w].outcome = "retryable" /\ handler[w].attempt >= RetryLimit

\* Mutation of SettleFailed: nothing is set aside.
SettleFailedQuietly(w) ==
    LET dl == handler[w].dl
        d == To(dl)
    IN  /\ Answered(w)
        /\ GivesUp(w)
        /\ state' = [state EXCEPT ![dl] = "failed"]
        /\ dest' = [dest EXCEPT ![d] = [MarkOutcome(d, handler[w].at, FALSE) EXCEPT
                                 !.status = IF handler[w].outcome = "gone" THEN "off" ELSE @]]
        /\ UNCHANGED <<jobs, letters>>
        /\ Observe(w, FALSE)

\* Mutation of SettleFailed: the outcome is stored as the state.
SettleFailedAsOutcome(w) ==
    LET dl == handler[w].dl
        d == To(dl)
    IN  /\ Answered(w)
        /\ GivesUp(w)
        /\ state' = [state EXCEPT ![dl] = handler[w].outcome]
        /\ letters' = [letters EXCEPT ![dl] = @ + 1]
        /\ dest' = [dest EXCEPT ![d] = [MarkOutcome(d, handler[w].at, FALSE) EXCEPT
                                 !.status = IF handler[w].outcome = "gone" THEN "off" ELSE @]]
        /\ UNCHANGED jobs
        /\ Observe(w, FALSE)

\* The delivery fails for good and is set aside in the dead-letter queue; a
\* destination that answered 410 is turned off.
SettleFailed(w) ==
    LET dl == handler[w].dl
        d == To(dl)
    IN  /\ Answered(w)
        /\ GivesUp(w)
        /\ state' = [state EXCEPT ![dl] = "failed"]
        /\ letters' = [letters EXCEPT ![dl] = @ + 1]
        /\ dest' = [dest EXCEPT ![d] = [MarkOutcome(d, handler[w].at, FALSE) EXCEPT
                                 !.status = IF handler[w].outcome = "gone" THEN "off" ELSE @]]
        /\ UNCHANGED jobs
        /\ Observe(w, FALSE)

\* Mutation of SettleRetry: the next attempt is sent outside the transaction
\* and lost.
SettleRetryUnsent(w) ==
    LET dl == handler[w].dl
        d == To(dl)
    IN  /\ Answered(w)
        /\ handler[w].outcome = "retryable"
        /\ ~GivesUp(w)
        /\ state' = [state EXCEPT ![dl] = "queued"]
        /\ dest' = [dest EXCEPT ![d] = MarkOutcome(d, handler[w].at, FALSE)]
        /\ UNCHANGED <<jobs, letters>>
        /\ Observe(w, FALSE)

\* The next attempt is queued by the transaction that settles this one.
SettleRetry(w) ==
    LET dl == handler[w].dl
        d == To(dl)
    IN  /\ Answered(w)
        /\ handler[w].outcome = "retryable"
        /\ ~GivesUp(w)
        /\ state' = [state EXCEPT ![dl] = "queued"]
        /\ jobs' = [jobs EXCEPT ![dl][handler[w].attempt + 1] = @ + 1]
        /\ dest' = [dest EXCEPT ![d] = MarkOutcome(d, handler[w].at, FALSE)]
        /\ UNCHANGED letters
        /\ Observe(w, FALSE)

\* The job fails: pg-boss, told never to retry, dead-letters it.
DeadLetter(w) ==
    /\ letters' = [letters EXCEPT ![handler[w].dl] = @ + 1]
    /\ handler' = [handler EXCEPT ![w] = Idle]
    /\ UNCHANGED <<dest, notified, state, jobs, ann, retrying, clock, accepted,
                   observed, retries>>

\* recordAttempt finds no delivery row for its foreign key and throws.
SettleMissing(w) ==
    /\ handler[w].pc = "answered"
    /\ state[handler[w].dl] = "none"
    /\ DeadLetter(w)
    /\ UNCHANGED faults

\* The worker dies, the job expires, or a statement throws before the
\* handler's transaction commits.
Abort(w) ==
    /\ handler[w].pc # "idle"
    /\ faults < MaxFaults
    /\ faults' = faults + 1
    /\ DeadLetter(w)

-----------------------------------------------------------------------------
WorkerStep(w) ==
    \/ \E dl \in Deliveries, k \in Attempts : Take(w, dl, k)
    \/ Look(w) \/ SettleOff(w) \/ Send(w)
    \/ SettleDelivered(w) \/ SettleFailed(w) \/ SettleRetry(w) \/ SettleMissing(w)

Next ==
    \/ \E d \in Dests : Create(d) \/ Enable(d) \/ Disable(d) \/ Remove(d)
    \/ \E a \in Announcers :
          \/ \E e \in Events, to \in SUBSET Dests : AnnounceRead(a, e, to)
          \/ AnnounceCommit(a)
    \/ \E dl \in Deliveries : RetryRead(dl) \/ RetryCommit(dl) \/ Dismiss(dl)
    \/ \E w \in Workers : WorkerStep(w) \/ Abort(w)

Spec == Init /\ [][Next]_vars

\* The worker keeps polling its queues and its sends have timeouts; nothing
\* an operator does is owed.
FairSpec == Spec /\ \A w \in Workers : WF_vars(WorkerStep(w))

-----------------------------------------------------------------------------
\* Every variable has its shape; no job or handler carries an attempt number
\* past the retry limit.
TypeOK ==
    /\ dest \in [Dests -> Destination]
    /\ notified \subseteq Events
    /\ state \in [Deliveries -> DeliveryState]
    /\ jobs \in [Deliveries -> [Attempts -> Nat]]
    /\ letters \in [Deliveries -> Nat]
    /\ ann \in [Announcers -> Announcement \cup {NoAnnouncement}]
    /\ handler \in [Workers -> Handler \cup {Idle}]
    /\ retrying \subseteq Deliveries
    /\ clock \in Nat
    /\ accepted \in [Deliveries -> Nat]
    /\ observed \in [Dests -> [at : Nat, ok : BOOLEAN]]
    /\ retries \in 0..MaxRetries
    /\ faults \in 0..MaxFaults

\* A delivery that reads "queued" is on its way: a job waits for it or a
\* handler has it.  Failing that, a dead letter names it (a job that threw).
QueuedIsCarried ==
    \A dl \in Deliveries : state[dl] = "queued" =>
        \/ \E k \in Attempts : jobs[dl][k] > 0
        \/ \E w \in Workers : Carries(w, dl)
        \/ letters[dl] > 0

\* A delivery that failed for good was set aside in the same transaction.
FailedIsSetAside == \A dl \in Deliveries : state[dl] = "failed" => letters[dl] > 0

\* Only the rows of notifications that were recorded exist, and only for
\* destinations that are still there (announce is all or nothing, removal cascades).
RowsHaveParents ==
    \A dl \in Deliveries : state[dl] # "none" => dl[1] \in notified /\ Exists(To(dl))

\* A receiver acknowledges a delivery once, and once more for each handler
\* that ended without settling; neither retries nor turning a destination
\* off and on under a running handler send it twice.
DuplicatesNeedFaults == \A dl \in Deliveries : accepted[dl] <= 1 + faults

\* An acknowledged delivery that was settled stays delivered: nothing queues,
\* fails or abandons it later.
DeliveredIsFinal ==
    [][\A dl \in Deliveries :
          state[dl] = "delivered" => state'[dl] \in {"delivered", "none"}]_vars

\* The health shown for a destination is that of the latest answer settled
\* for it, whichever order two handlers settle in.
HealthIsLatest ==
    \A d \in Dests : Exists(d) /\ observed[d].at > 0 =>
        IF observed[d].ok THEN ~dest[d].reason /\ dest[d].okAt = observed[d].at
                          ELSE dest[d].reason /\ dest[d].badAt = observed[d].at

\* A queued delivery does not stay queued: it is delivered, fails, is
\* abandoned, or goes with its destination.
QueuedSettles == \A dl \in Deliveries : state[dl] = "queued" ~> state[dl] # "queued"

\* Taken together: no delivery is dropped, sent again without cause or left
\* behind (announce, handleDelivery, retry).
AlertsAreKept ==
    TypeOK /\ QueuedIsCarried /\ FailedIsSetAside /\ RowsHaveParents /\ DuplicatesNeedFaults
=============================================================================
