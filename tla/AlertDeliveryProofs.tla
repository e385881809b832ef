------------------------ MODULE AlertDeliveryProofs ------------------------
(***************************************************************************)
(* Proofs about AlertDelivery, for any number of events, destinations,     *)
(* announcing transactions, handlers, retries and faults.  That nothing is *)
(* sent twice without a fault needs one more hypothesis, OneHandlerEach:   *)
(* no two handlers take from the queue of the same destination, as in a    *)
(* deployment with one worker, which polls each queue with one handler.    *)
(***************************************************************************)
EXTENDS AlertDelivery, TLAPS

USE LimitsAssumption

-----------------------------------------------------------------------------
\* A delivery names an event and a destination.
LEMMA DeliveryParts == \A dl \in Deliveries : dl[1] \in Events /\ To(dl) \in Dests
  BY DEF Deliveries, To

\* A handler at work has a delivery, an attempt and a place in its program.
LEMMA AtWork ==
    ASSUME TypeOK, NEW w \in Workers, handler[w].pc # "idle"
    PROVE  /\ handler[w] \in Handler
           /\ handler[w].dl \in Deliveries
           /\ To(handler[w].dl) \in Dests
           /\ handler[w].attempt \in Attempts
           /\ handler[w].at \in Nat
  <1>1. handler[w] \in Handler \cup {Idle}
      BY DEF TypeOK
  <1>2. handler[w] \in Handler
      BY <1>1 DEF Idle
  <1>3. QED
      BY <1>2, DeliveryParts DEF Handler

LEMMA TypeInit == Init => TypeOK
  <1> SUFFICES ASSUME Init PROVE TypeOK
      OBVIOUS
  <1>1. dest \in [Dests -> Destination]
      BY DEF Init, Destination, Fresh
  <1>2. /\ notified \subseteq Events /\ state \in [Deliveries -> DeliveryState]
        /\ jobs \in [Deliveries -> [Attempts -> Nat]] /\ letters \in [Deliveries -> Nat]
        /\ accepted \in [Deliveries -> Nat] /\ retrying \subseteq Deliveries
      BY DEF Init, DeliveryState
  <1>3. /\ ann \in [Announcers -> Announcement \cup {NoAnnouncement}]
        /\ handler \in [Workers -> Handler \cup {Idle}]
      BY DEF Init
  <1>4. observed \in [Dests -> [at : Nat, ok : BOOLEAN]]
      BY DEF Init
  <1>5. clock \in Nat /\ retries \in 0..MaxRetries /\ faults \in 0..MaxFaults
      BY DEF Init
  <1>6. QED
      BY <1>1, <1>2, <1>3, <1>4, <1>5 DEF TypeOK

\* A destination's row stays well formed under what the code assigns to it.
LEMMA DestinationUpdate ==
    ASSUME NEW r \in Destination, NEW s \in {"on", "off", "removed"}, NEW at \in Nat
    PROVE  /\ [r EXCEPT !.status = s] \in Destination
           /\ [r EXCEPT !.okAt = at, !.reason = FALSE] \in Destination
           /\ [r EXCEPT !.badAt = at, !.reason = TRUE] \in Destination
  BY DEF Destination

\* What an answer does to its destination's row: only the health columns change.
LEMMA MarkOutcomeType ==
    ASSUME TypeOK, NEW d \in Dests, NEW at \in Nat, NEW ok \in BOOLEAN
    PROVE  /\ MarkOutcome(d, at, ok) \in Destination
           /\ MarkOutcome(d, at, ok).status = dest[d].status
  <1>1. dest[d] \in Destination
      BY DEF TypeOK
  <1>2. MarkOutcome(d, at, ok) \in Destination
      BY <1>1, DestinationUpdate DEF MarkOutcome
  <1>3. MarkOutcome(d, at, ok).status = dest[d].status
      BY <1>1 DEF MarkOutcome, Destination
  <1>4. QED
      BY <1>2, <1>3

\* The ways to settle an answer, for one handler and its delivery.
Settles(w) == SettleDelivered(w) \/ SettleFailed(w) \/ SettleRetry(w)

\* Settling writes the state the outcome calls for and the destination's row, whose status it
\* leaves alone or turns off.
LEMMA Settling ==
    ASSUME TypeOK, NEW w \in Workers, Settles(w)
    PROVE  LET dl == handler[w].dl
               d == To(dl)
           IN  /\ handler[w] \in Handler /\ handler[w].pc = "answered" /\ dl \in Deliveries
               /\ d \in Dests /\ state[dl] # "none"
               /\ \E s \in {"delivered", "failed", "queued"} : state' = [state EXCEPT ![dl] = s]
               /\ \E r \in Destination :
                    /\ dest' = [dest EXCEPT ![d] = r]
                    /\ r.status \in {dest[d].status, "off"}
               /\ handler' = [handler EXCEPT ![w] = Idle]
               /\ UNCHANGED <<notified, ann, retrying, clock, accepted, retries, faults>>
  <1> DEFINE dl == handler[w].dl
             d == To(dl)
             at == handler[w].at
             m == MarkOutcome(d, at, FALSE)
             r == [m EXCEPT !.status = IF handler[w].outcome = "gone" THEN "off" ELSE m.status]
  <1>1. handler[w].pc = "answered" /\ state[dl] # "none"
      BY DEF Settles, SettleDelivered, SettleFailed, SettleRetry, Answered
  <1>2. handler[w] \in Handler /\ dl \in Deliveries /\ d \in Dests /\ at \in Nat
      BY <1>1, AtWork
  <1>3. \E s \in {"delivered", "failed", "queued"} : state' = [state EXCEPT ![dl] = s]
      BY DEF Settles, SettleDelivered, SettleFailed, SettleRetry
  <1>4. /\ m \in Destination /\ m.status = dest[d].status
        /\ MarkOutcome(d, at, TRUE) \in Destination
        /\ MarkOutcome(d, at, TRUE).status = dest[d].status
    <2>1. TRUE \in BOOLEAN /\ FALSE \in BOOLEAN
        OBVIOUS
    <2>2. QED
        BY <1>2, <2>1, MarkOutcomeType
  <1> HIDE DEF m
  <1>5. r \in Destination /\ r.status \in {dest[d].status, "off"}
      BY <1>4 DEF Destination
  <1> HIDE DEF r
  <1>6. \/ dest' = [dest EXCEPT ![d] = MarkOutcome(d, at, TRUE)]
        \/ dest' = [dest EXCEPT ![d] = r]
        \/ dest' = [dest EXCEPT ![d] = m]
      BY DEF Settles, SettleDelivered, SettleFailed, SettleRetry, m, r
  <1>7. \E q \in Destination : /\ dest' = [dest EXCEPT ![d] = q]
                               /\ q.status \in {dest[d].status, "off"}
      BY <1>4, <1>5, <1>6
  <1>8. /\ handler' = [handler EXCEPT ![w] = Idle]
        /\ UNCHANGED <<notified, ann, retrying, clock, accepted, retries, faults>>
      BY DEF Settles, SettleDelivered, SettleFailed, SettleRetry, Observe
  <1>9. QED
      BY <1>1, <1>2, <1>3, <1>7, <1>8

LEMMA TypeStep == TypeOK /\ [Next]_vars => TypeOK'
  <1> SUFFICES ASSUME TypeOK, [Next]_vars PROVE TypeOK'
      OBVIOUS
  <1>0. /\ dest \in [Dests -> Destination] /\ state \in [Deliveries -> DeliveryState]
        /\ jobs \in [Deliveries -> [Attempts -> Nat]] /\ letters \in [Deliveries -> Nat]
        /\ ann \in [Announcers -> Announcement \cup {NoAnnouncement}]
        /\ handler \in [Workers -> Handler \cup {Idle}] /\ accepted \in [Deliveries -> Nat]
        /\ observed \in [Dests -> [at : Nat, ok : BOOLEAN]] /\ clock \in Nat
        /\ 1 \in Attempts
      BY DEF TypeOK, Attempts
  <1>a. ASSUME NEW d \in Dests, NEW s \in {"on", "off", "removed"}
        PROVE  [dest EXCEPT ![d].status = s] \in [Dests -> Destination]
    <2>1. [dest[d] EXCEPT !.status = s] \in Destination
        BY <1>0, DestinationUpdate
    <2>2. QED
        BY <1>0, <2>1
  <1>b. ASSUME NEW dl \in Deliveries, NEW k \in Attempts
        PROVE  /\ [jobs EXCEPT ![dl][k] = @ + 1] \in [Deliveries -> [Attempts -> Nat]]
               /\ jobs[dl][k] > 0 =>
                    [jobs EXCEPT ![dl][k] = @ - 1] \in [Deliveries -> [Attempts -> Nat]]
      BY <1>0
  <1>c. ASSUME NEW w \in Workers, NEW h \in Handler \cup {Idle}
        PROVE  [handler EXCEPT ![w] = h] \in [Workers -> Handler \cup {Idle}]
      BY <1>0
  <1>d. {"none", "queued", "delivered", "failed", "abandoned"} \subseteq DeliveryState
      BY DEF DeliveryState, Settled
  <1>e. \A b \in Deliveries : [letters EXCEPT ![b] = @ + 1] \in [Deliveries -> Nat]
      BY <1>0
  <1>1. ASSUME NEW d \in Dests, Create(d) PROVE TypeOK'
    <2>1. Fresh \in Destination
        BY DEF Fresh, Destination
    <2>2. dest' \in [Dests -> Destination]
        BY <1>0, <1>1, <2>1 DEF Create
    <2>3. QED
        BY <1>1, <2>2 DEF Create, TypeOK
  <1>2. ASSUME NEW d \in Dests, Enable(d) PROVE TypeOK'
    <2>1. dest' \in [Dests -> Destination]
        BY <1>2, <1>a DEF Enable
    <2>2. QED
        BY <1>2, <2>1 DEF Enable, TypeOK
  <1>3. ASSUME NEW d \in Dests, Disable(d) \/ Remove(d) PROVE TypeOK'
    <2>1. dest' \in [Dests -> Destination]
        BY <1>3, <1>a DEF Disable, Remove
    <2>2. state' \in [Deliveries -> DeliveryState]
        BY <1>0, <1>3, <1>d DEF Disable, Remove
    <2>3. QED
        BY <1>3, <2>1, <2>2 DEF Disable, Remove, TypeOK
  <1>4. ASSUME NEW a \in Announcers, NEW e \in Events, NEW to \in SUBSET Dests, AnnounceRead(a, e, to)
        PROVE  TypeOK'
    <2>1. [event |-> {e}, to |-> to] \in Announcement
        BY DEF Announcement
    <2>2. ann' \in [Announcers -> Announcement \cup {NoAnnouncement}]
        BY <1>0, <1>4, <2>1 DEF AnnounceRead
    <2>3. QED
        BY <1>4, <2>2 DEF AnnounceRead, TypeOK
  <1>5. ASSUME NEW a \in Announcers, AnnounceCommit(a) PROVE TypeOK'
    <2>1. ann[a].event \subseteq Events
        BY <1>0 DEF Announcement, NoAnnouncement
    <2>2. notified' \subseteq Events
        BY <1>5, <2>1 DEF AnnounceCommit, TypeOK
    <2>3. state' \in [Deliveries -> DeliveryState]
        BY <1>0, <1>5, <1>d DEF AnnounceCommit
    <2>4. jobs' \in [Deliveries -> [Attempts -> Nat]]
      <3>1. \A dl \in Deliveries : [jobs[dl] EXCEPT ![1] = @ + 1] \in [Attempts -> Nat]
          BY <1>0
      <3>2. QED
          BY <1>0, <1>5, <3>1 DEF AnnounceCommit
    <2>5. ann' \in [Announcers -> Announcement \cup {NoAnnouncement}]
        BY <1>0, <1>5 DEF AnnounceCommit
    <2>6. QED
        BY <1>5, <2>2, <2>3, <2>4, <2>5 DEF AnnounceCommit, TypeOK
  <1>6. ASSUME NEW dl \in Deliveries, RetryRead(dl) PROVE TypeOK'
      BY <1>6 DEF RetryRead, TypeOK
  <1>7. ASSUME NEW dl \in Deliveries, RetryCommit(dl) PROVE TypeOK'
    <2>1. state' \in [Deliveries -> DeliveryState]
        BY <1>0, <1>7, <1>d DEF RetryCommit
    <2>2. jobs' \in [Deliveries -> [Attempts -> Nat]]
        BY <1>0, <1>7, <1>b DEF RetryCommit
    <2>3. QED
        BY <1>7, <2>1, <2>2 DEF RetryCommit, TypeOK
  <1>8. ASSUME NEW dl \in Deliveries, Dismiss(dl) PROVE TypeOK'
    <2>1. state' \in [Deliveries -> DeliveryState]
        BY <1>0, <1>8, <1>d DEF Dismiss
    <2>2. QED
        BY <1>8, <2>1 DEF Dismiss, TypeOK
  <1>9. ASSUME NEW w \in Workers, NEW dl \in Deliveries, NEW k \in Attempts, Take(w, dl, k)
        PROVE  TypeOK'
    <2> DEFINE h == [Idle EXCEPT !.pc = "taken", !.dl = dl, !.attempt = k]
    <2>1. h \in Handler
        BY DEF Idle, Handler
    <2>2. handler' \in [Workers -> Handler \cup {Idle}]
        BY <1>0, <1>9, <1>c, <2>1 DEF Take
    <2>3. jobs' \in [Deliveries -> [Attempts -> Nat]]
        BY <1>9, <1>b DEF Take
    <2>4. QED
        BY <1>9, <2>2, <2>3 DEF Take, TypeOK
  <1>10. ASSUME NEW w \in Workers, Look(w) PROVE TypeOK'
    <2>1. handler[w] \in Handler
        BY <1>10, AtWork DEF Look
    <2>2. \A pc \in {"live", "off"} : [handler[w] EXCEPT !.pc = pc] \in Handler
        BY <2>1 DEF Handler
    <2>3. \/ handler' = [handler EXCEPT ![w] = Idle]
          \/ handler' = [handler EXCEPT ![w] = [handler[w] EXCEPT !.pc = "live"]]
          \/ handler' = [handler EXCEPT ![w] = [handler[w] EXCEPT !.pc = "off"]]
        BY <1>0, <1>10 DEF Look
    <2>4. handler' \in [Workers -> Handler \cup {Idle}]
        BY <1>c, <2>2, <2>3
    <2>5. QED
        BY <1>10, <2>4 DEF Look, TypeOK
  <1>11. ASSUME NEW w \in Workers, SettleOff(w) PROVE TypeOK'
    <2>1. state' \in [Deliveries -> DeliveryState]
        BY <1>0, <1>11, <1>d DEF SettleOff, WithState
    <2>2. handler' \in [Workers -> Handler \cup {Idle}]
        BY <1>11, <1>c DEF SettleOff
    <2>3. QED
        BY <1>11, <2>1, <2>2 DEF SettleOff, TypeOK
  <1>12. ASSUME NEW w \in Workers, Send(w) PROVE TypeOK'
    <2> DEFINE dl == handler[w].dl
    <2>1. handler[w] \in Handler /\ dl \in Deliveries
        BY <1>12, AtWork DEF Send
    <2>2. PICK o \in Outcome :
            /\ handler' = [handler EXCEPT ![w] = [handler[w] EXCEPT !.pc = "answered",
                                                  !.outcome = o, !.at = clock + 1]]
            /\ accepted' = IF o = "delivered" THEN [accepted EXCEPT ![dl] = @ + 1] ELSE accepted
        BY <1>0, <1>12 DEF Send
    <2>3. [handler[w] EXCEPT !.pc = "answered", !.outcome = o, !.at = clock + 1] \in Handler
      <3>1. clock + 1 \in Nat
          BY <1>0
      <3>2. QED
          BY <2>1, <3>1 DEF Handler
    <2>4. handler' \in [Workers -> Handler \cup {Idle}]
        BY <1>c, <2>2, <2>3
    <2>5. accepted' \in [Deliveries -> Nat] /\ clock' \in Nat
        BY <1>0, <1>12, <2>1, <2>2 DEF Send
    <2>6. QED
        BY <1>12, <2>4, <2>5 DEF Send, TypeOK
  <1>13. ASSUME NEW w \in Workers, Settles(w) PROVE TypeOK'
    <2> DEFINE dl == handler[w].dl
               d == To(dl)
    <2>0. /\ handler[w] \in Handler /\ dl \in Deliveries /\ d \in Dests
          /\ \E s \in {"delivered", "failed", "queued"} : state' = [state EXCEPT ![dl] = s]
          /\ \E r \in Destination : dest' = [dest EXCEPT ![d] = r]
          /\ handler' = [handler EXCEPT ![w] = Idle]
          /\ UNCHANGED <<notified, ann, retrying, clock, accepted, retries, faults>>
        BY <1>13, Settling
    <2>1. state' \in [Deliveries -> DeliveryState] /\ dest' \in [Dests -> Destination]
        BY <1>0, <1>d, <2>0
    <2>2. handler' \in [Workers -> Handler \cup {Idle}]
        BY <1>c, <2>0
    <2>3. observed' \in [Dests -> [at : Nat, ok : BOOLEAN]]
      <3>1. handler[w].at \in Nat
          BY <2>0 DEF Handler
      <3>2. \E ok \in BOOLEAN : observed' = IF observed[d].at < handler[w].at
                                  THEN [observed EXCEPT ![d] = [at |-> handler[w].at, ok |-> ok]]
                                  ELSE observed
          BY <1>13 DEF Settles, SettleDelivered, SettleFailed, SettleRetry, Observe
      <3>3. QED
          BY <1>0, <2>0, <3>1, <3>2
    <2>4. letters' \in [Deliveries -> Nat]
      <3>1. \/ letters' = letters
            \/ letters' = [letters EXCEPT ![dl] = @ + 1]
          BY <1>13 DEF Settles, SettleDelivered, SettleFailed, SettleRetry
      <3>2. QED
          BY <1>0, <1>e, <2>0, <3>1
    <2>5. jobs' \in [Deliveries -> [Attempts -> Nat]]
      <3>1. CASE SettleRetry(w)
        <4>1. handler[w].attempt \in Attempts /\ ~(handler[w].attempt >= RetryLimit)
            BY <2>0, <3>1 DEF SettleRetry, GivesUp, Handler
        <4>2. handler[w].attempt + 1 \in Attempts
            BY <4>1 DEF Attempts
        <4>3. QED
            BY <1>b, <2>0, <3>1, <4>2 DEF SettleRetry
      <3>2. CASE SettleDelivered(w) \/ SettleFailed(w)
          BY <1>0, <3>2 DEF SettleDelivered, SettleFailed
      <3>3. QED
          BY <1>13, <3>1, <3>2 DEF Settles
    <2>6. QED
        BY <2>0, <2>1, <2>2, <2>3, <2>4, <2>5 DEF TypeOK
  <1>14. ASSUME NEW w \in Workers, SettleMissing(w) \/ Abort(w) PROVE TypeOK'
    <2>1. handler[w].dl \in Deliveries
        BY <1>14, AtWork DEF SettleMissing, Abort
    <2>2. letters' \in [Deliveries -> Nat]
        BY <1>14, <1>e, <2>1 DEF SettleMissing, Abort, DeadLetter
    <2>3. handler' \in [Workers -> Handler \cup {Idle}]
        BY <1>14, <1>c DEF SettleMissing, Abort, DeadLetter
    <2>4. faults' \in 0..MaxFaults
        BY <1>14 DEF SettleMissing, Abort, TypeOK
    <2>5. QED
        BY <1>14, <2>2, <2>3, <2>4 DEF SettleMissing, Abort, DeadLetter, TypeOK
  <1>15. ASSUME UNCHANGED vars PROVE TypeOK'
      BY <1>15 DEF vars, TypeOK
  <1>16. QED
      BY <1>1, <1>2, <1>3, <1>4, <1>5, <1>6, <1>7, <1>8, <1>9, <1>10, <1>11, <1>12, <1>13,
         <1>14, <1>15 DEF Next, WorkerStep, Settles

-----------------------------------------------------------------------------
\* What the rows, the jobs and the dead letters say together.
KeptInv == TypeOK /\ QueuedIsCarried /\ FailedIsSetAside /\ RowsHaveParents

\* Rows keep their parents while neither states nor destinations appear or go.
LEMMA ParentsFrame ==
    ASSUME RowsHaveParents, notified \subseteq notified',
           \A dl \in Deliveries : state'[dl] # "none" => state[dl] # "none",
           \A d \in Dests : Exists(d) => Exists(d)'
    PROVE  RowsHaveParents'
  BY DeliveryParts DEF RowsHaveParents

LEMMA ParentsStep == KeptInv /\ [Next]_vars => RowsHaveParents'
  <1> SUFFICES ASSUME KeptInv, [Next]_vars PROVE RowsHaveParents'
      OBVIOUS
  <1>0. /\ TypeOK /\ RowsHaveParents /\ dest \in [Dests -> Destination]
        /\ state \in [Deliveries -> DeliveryState]
      BY DEF KeptInv, TypeOK
  <1>1. ASSUME NEW d \in Dests, Create(d) \/ Enable(d) \/ Disable(d) PROVE RowsHaveParents'
    <2>1. \A b \in Dests : Exists(b) => Exists(b)'
        BY <1>0, <1>1 DEF Create, Enable, Disable, Exists, Destination, Fresh
    <2>2. \A dl \in Deliveries : state'[dl] # "none" => state[dl] # "none"
        BY <1>0, <1>1 DEF Create, Enable, Disable
    <2>3. UNCHANGED notified
        BY <1>1 DEF Create, Enable, Disable
    <2>4. QED
        BY <1>0, <2>1, <2>2, <2>3, ParentsFrame
  <1>2. ASSUME NEW d \in Dests, Remove(d) PROVE RowsHaveParents'
    <2>1. \A b \in Dests : b # d => (Exists(b) => Exists(b)')
        BY <1>0, <1>2 DEF Remove, Exists
    <2>2. \A dl \in Deliveries : state'[dl] # "none" => state[dl] # "none" /\ To(dl) # d
        BY <1>0, <1>2 DEF Remove
    <2>3. QED
        BY <1>0, <1>2, <2>1, <2>2, DeliveryParts DEF Remove, RowsHaveParents
  <1>3. ASSUME NEW a \in Announcers, AnnounceCommit(a) PROVE RowsHaveParents'
    <2>1. CASE AnnounceFits(a)
      <3>1. /\ notified' = notified \cup ann[a].event /\ UNCHANGED dest
            /\ \A dl \in Deliveries : state'[dl] = IF dl \in Announced(a) THEN "queued" ELSE state[dl]
          BY <1>0, <1>3, <2>1 DEF AnnounceCommit
      <3>2. \A dl \in Deliveries : dl \in Announced(a) => dl[1] \in ann[a].event /\ Exists(To(dl))
          BY <2>1 DEF Announced, AnnounceFits, To
      <3>3. QED
          BY <1>0, <3>1, <3>2 DEF RowsHaveParents, Exists
    <2>2. CASE ~AnnounceFits(a)
        BY <1>0, <1>3, <2>2 DEF AnnounceCommit, RowsHaveParents, Exists
    <2>3. QED
        BY <2>1, <2>2
  <1>4. ASSUME NEW dl \in Deliveries, RetryCommit(dl) \/ Dismiss(dl) PROVE RowsHaveParents'
    <2>1. \A b \in Deliveries : state'[b] # "none" => state[b] # "none"
        BY <1>0, <1>4 DEF RetryCommit, Dismiss
    <2>2. UNCHANGED <<notified, dest>>
        BY <1>4 DEF RetryCommit, Dismiss
    <2>3. QED
        BY <1>0, <2>1, <2>2, ParentsFrame DEF Exists
  <1>5. ASSUME NEW w \in Workers, SettleOff(w) PROVE RowsHaveParents'
    <2>1. \A b \in Deliveries : state'[b] # "none" => state[b] # "none"
        BY <1>0, <1>5 DEF SettleOff, WithState
    <2>2. UNCHANGED <<notified, dest>>
        BY <1>5 DEF SettleOff
    <2>3. QED
        BY <1>0, <2>1, <2>2, ParentsFrame DEF Exists
  <1>6. ASSUME NEW w \in Workers, Settles(w) PROVE RowsHaveParents'
    <2>1. \A b \in Deliveries : state'[b] # "none" => state[b] # "none"
        BY <1>0, <1>6, Settling
    <2>2. \A b \in Dests : Exists(b) => Exists(b)'
        BY <1>0, <1>6, Settling DEF Exists
    <2>3. UNCHANGED notified
        BY <1>0, <1>6, Settling
    <2>4. QED
        BY <1>0, <2>1, <2>2, <2>3, ParentsFrame
  <1>7. ASSUME UNCHANGED <<dest, notified, state>> PROVE RowsHaveParents'
      BY <1>0, <1>7 DEF RowsHaveParents, Exists
  <1>8. QED
      BY <1>1, <1>2, <1>3, <1>4, <1>5, <1>6, <1>7
      DEF Next, WorkerStep, Settles, AnnounceRead, RetryRead, Take, Look, Send, SettleMissing,
          Abort, DeadLetter, vars

\* A dead letter is never withdrawn.
LEMMA LettersStay ==
    ASSUME TypeOK, [Next]_vars, NEW dl \in Deliveries
    PROVE  letters[dl] > 0 => letters'[dl] > 0
  <1>0. letters \in [Deliveries -> Nat]
      BY DEF TypeOK
  <1>1. \/ UNCHANGED letters
        \/ \E b \in Deliveries : letters' = [letters EXCEPT ![b] = @ + 1]
    <2>1. ASSUME NEW w \in Workers, SettleFailed(w) \/ SettleMissing(w) \/ Abort(w)
          PROVE  \E b \in Deliveries : letters' = [letters EXCEPT ![b] = @ + 1]
      <3>1. handler[w].dl \in Deliveries
          BY <2>1, AtWork DEF SettleFailed, Answered, SettleMissing, Abort
      <3>2. QED
          BY <2>1, <3>1 DEF SettleFailed, SettleMissing, Abort, DeadLetter
    <2>2. QED
        BY <2>1
        DEF Next, WorkerStep, Create, Enable, Disable, Remove, AnnounceRead, AnnounceCommit,
            RetryRead, RetryCommit, Dismiss, Take, Look, SettleOff, Send, SettleDelivered,
            SettleRetry, vars
  <1>2. QED
      BY <1>0, <1>1

LEMMA FailedStep == KeptInv /\ [Next]_vars => FailedIsSetAside'
  <1> SUFFICES ASSUME KeptInv, [Next]_vars, NEW dl \in Deliveries, state'[dl] = "failed"
               PROVE  letters'[dl] > 0
      BY DEF FailedIsSetAside
  <1>0. /\ TypeOK /\ state \in [Deliveries -> DeliveryState] /\ letters \in [Deliveries -> Nat]
      BY DEF KeptInv, TypeOK
  <1>1. CASE state[dl] = "failed"
    <2>1. letters[dl] > 0
        BY <1>1 DEF KeptInv, FailedIsSetAside
    <2>2. QED
        BY <1>0, <2>1, LettersStay
  <1>2. CASE state[dl] # "failed"
    <2>1. PICK w \in Workers : SettleFailed(w)
      <3>1. ASSUME NEW w \in Workers, SettleOff(w) \/ SettleDelivered(w) \/ SettleRetry(w)
            PROVE  FALSE
          BY <1>0, <1>2, <3>1 DEF SettleOff, WithState, SettleDelivered, SettleRetry
      <3>2. ASSUME NEW d \in Dests, Disable(d) \/ Remove(d) PROVE FALSE
          BY <1>0, <1>2, <3>2 DEF Disable, Remove
      <3>3. ASSUME NEW a \in Announcers, AnnounceCommit(a) PROVE FALSE
          BY <1>0, <1>2, <3>3 DEF AnnounceCommit
      <3>4. ASSUME NEW b \in Deliveries, RetryCommit(b) \/ Dismiss(b) PROVE FALSE
          BY <1>0, <1>2, <3>4 DEF RetryCommit, Dismiss
      <3>5. QED
          BY <1>2, <3>1, <3>2, <3>3, <3>4
          DEF Next, WorkerStep, Create, Enable, AnnounceRead, RetryRead, Take, Look, Send,
              SettleMissing, Abort, DeadLetter, vars
    <2>2. handler[w].dl = dl
        BY <1>0, <1>2, <2>1 DEF SettleFailed
    <2>3. QED
        BY <1>0, <2>1, <2>2 DEF SettleFailed
  <1>3. QED
      BY <1>1, <1>2

\* What carries a delivery on: a job, a handler or, failing that, a dead letter.
OnItsWay(dl) ==
    \/ \E k \in Attempts : jobs[dl][k] > 0
    \/ \E w \in Workers : Carries(w, dl)
    \/ letters[dl] > 0

\* Steps that take neither its jobs nor its handlers from a delivery that reads "queued".
LEMMA CarriedFrame ==
    ASSUME KeptInv, [Next]_vars, NEW dl \in Deliveries, state[dl] = "queued",
           \A k \in Attempts : jobs[dl][k] > 0 => jobs'[dl][k] > 0,
           \A w \in Workers : Carries(w, dl) => Carries(w, dl)'
    PROVE  OnItsWay(dl)'
  <1>1. OnItsWay(dl)
      BY DEF KeptInv, QueuedIsCarried, OnItsWay
  <1>2. letters[dl] > 0 => letters'[dl] > 0
      BY LettersStay DEF KeptInv
  <1>3. QED
      BY <1>1, <1>2 DEF OnItsWay

LEMMA CarriedStep == KeptInv /\ [Next]_vars => QueuedIsCarried'
  <1> SUFFICES ASSUME KeptInv, [Next]_vars, NEW dl \in Deliveries, state'[dl] = "queued"
               PROVE  OnItsWay(dl)'
      BY DEF QueuedIsCarried, OnItsWay
  <1>0. /\ TypeOK /\ state \in [Deliveries -> DeliveryState] /\ letters \in [Deliveries -> Nat]
        /\ jobs \in [Deliveries -> [Attempts -> Nat]] /\ handler \in [Workers -> Handler \cup {Idle}]
        /\ 1 \in Attempts
    <2>1. 1 \in Attempts
        BY DEF Attempts
    <2>2. QED
        BY <2>1 DEF KeptInv, TypeOK
  <1>a. ASSUME NEW k \in Attempts, jobs' = [jobs EXCEPT ![dl][k] = @ + 1] PROVE OnItsWay(dl)'
    <2>1. jobs'[dl][k] > 0
        BY <1>0, <1>a
    <2>2. QED
        BY <2>1 DEF OnItsWay
  <1>b. ASSUME state[dl] = "queued", UNCHANGED <<jobs, handler>> PROVE OnItsWay(dl)'
      BY <1>b, CarriedFrame DEF Carries
  \* A handler that gives up another delivery.
  <1>c. ASSUME NEW w \in Workers, ~Carries(w, dl), \A v \in Workers \ {w} : handler'[v] = handler[v],
               state[dl] = "queued", \A k \in Attempts : jobs[dl][k] > 0 => jobs'[dl][k] > 0
        PROVE  OnItsWay(dl)'
      BY <1>c, CarriedFrame DEF Carries
  <1>1. ASSUME NEW d \in Dests, Create(d) \/ Enable(d) \/ Disable(d) \/ Remove(d) PROVE OnItsWay(dl)'
    <2>1. state[dl] = "queued"
        BY <1>0, <1>1 DEF Create, Enable, Disable, Remove
    <2>2. QED
        BY <1>1, <1>b, <2>1 DEF Create, Enable, Disable, Remove
  <1>2. ASSUME NEW a \in Announcers, AnnounceCommit(a) PROVE OnItsWay(dl)'
    <2>1. CASE AnnounceFits(a) /\ dl \in Announced(a)
      <3>1. jobs'[dl] = [jobs[dl] EXCEPT ![1] = @ + 1]
          BY <1>2, <2>1 DEF AnnounceCommit
      <3>2. jobs'[dl][1] > 0
          BY <1>0, <3>1
      <3>3. QED
          BY <1>0, <3>2 DEF OnItsWay
    <2>2. CASE ~(AnnounceFits(a) /\ dl \in Announced(a))
      <3>1. state[dl] = "queued" /\ jobs'[dl] = jobs[dl] /\ UNCHANGED handler
          BY <1>0, <1>2, <2>2 DEF AnnounceCommit
      <3>2. QED
          BY <3>1, CarriedFrame DEF Carries
    <2>3. QED
        BY <2>1, <2>2
  <1>3. ASSUME NEW b \in Deliveries, RetryCommit(b) PROVE OnItsWay(dl)'
    <2>1. CASE b = dl /\ jobs' = [jobs EXCEPT ![b][1] = @ + 1]
        BY <1>0, <1>a, <2>1
    <2>2. CASE b # dl /\ jobs' = [jobs EXCEPT ![b][1] = @ + 1]
      <3>1. state[dl] = "queued" /\ jobs'[dl] = jobs[dl] /\ UNCHANGED handler
          BY <1>0, <1>3, <2>2 DEF RetryCommit
      <3>2. QED
          BY <3>1, CarriedFrame DEF Carries
    <2>3. CASE UNCHANGED <<state, jobs>>
        BY <1>3, <1>b, <2>3 DEF RetryCommit
    <2>4. QED
        BY <1>3, <2>1, <2>2, <2>3 DEF RetryCommit
  <1>4. ASSUME NEW b \in Deliveries, Dismiss(b) PROVE OnItsWay(dl)'
    <2>1. state[dl] = "queued"
        BY <1>0, <1>4 DEF Dismiss
    <2>2. QED
        BY <1>4, <1>b, <2>1 DEF Dismiss
  <1>5. ASSUME NEW w \in Workers, NEW b \in Deliveries, NEW k \in Attempts, Take(w, b, k)
        PROVE  OnItsWay(dl)'
    <2>1. state[dl] = "queued" /\ handler[w].pc = "idle"
        BY <1>5 DEF Take, Idle
    <2>2. CASE b = dl
      <3>1. handler' = [handler EXCEPT ![w] = [Idle EXCEPT !.pc = "taken", !.dl = dl, !.attempt = k]]
          BY <1>5, <2>1, <2>2 DEF Take, Unsettled
      <3>2. handler'[w].pc = "taken" /\ handler'[w].dl = dl
          BY <1>0, <3>1 DEF Idle
      <3>3. QED
          BY <3>2 DEF OnItsWay, Carries
    <2>3. CASE b # dl
      <3>1. jobs'[dl] = jobs[dl] /\ \A v \in Workers \ {w} : handler'[v] = handler[v]
          BY <1>0, <1>5, <2>3 DEF Take
      <3>2. QED
          BY <1>c, <2>1, <3>1 DEF Carries
    <2>4. QED
        BY <2>2, <2>3
  <1>6. ASSUME NEW w \in Workers, Look(w) PROVE OnItsWay(dl)'
    <2>1. state[dl] = "queued" /\ UNCHANGED jobs /\ \A v \in Workers \ {w} : handler'[v] = handler[v]
        BY <1>0, <1>6 DEF Look
    <2>2. CASE ~Carries(w, dl)
        BY <1>c, <2>1, <2>2
    <2>3. CASE Carries(w, dl)
      <3>1. handler[w].dl = dl /\ Exists(To(dl))
          BY <2>1, <2>3 DEF Carries, KeptInv, RowsHaveParents
      <3>2. \E pc \in {"live", "off"} : handler' = [handler EXCEPT ![w].pc = pc]
          BY <1>6, <3>1 DEF Look
      <3>3. handler[w] \in Handler
          BY <1>0, <1>6, AtWork DEF Look
      <3>4. handler'[w].dl = dl /\ handler'[w].pc # "idle"
          BY <1>0, <3>1, <3>2, <3>3 DEF Handler
      <3>5. QED
          BY <3>4 DEF OnItsWay, Carries
    <2>4. QED
        BY <2>2, <2>3
  <1>7. ASSUME NEW w \in Workers, Send(w) PROVE OnItsWay(dl)'
    <2>1. state[dl] = "queued" /\ UNCHANGED jobs /\ handler[w] \in Handler
        BY <1>0, <1>7, AtWork DEF Send
    <2>2. PICK o \in Outcome :
            handler' = [handler EXCEPT ![w] = [handler[w] EXCEPT !.pc = "answered",
                                               !.outcome = o, !.at = clock + 1]]
        BY <1>0, <1>7 DEF Send
    <2>3. \A v \in Workers : Carries(v, dl) => Carries(v, dl)'
        BY <1>0, <2>1, <2>2 DEF Carries, Handler
    <2>4. QED
        BY <2>1, <2>3, CarriedFrame
  <1>8. ASSUME NEW w \in Workers, SettleOff(w) \/ SettleDelivered(w) \/ SettleFailed(w)
        PROVE  OnItsWay(dl)'
    <2>1. state[dl] = "queued" /\ handler[w].dl # dl /\ UNCHANGED jobs
        BY <1>0, <1>8 DEF SettleOff, WithState, SettleDelivered, SettleFailed
    <2>2. \A v \in Workers \ {w} : handler'[v] = handler[v]
        BY <1>0, <1>8 DEF SettleOff, SettleDelivered, SettleFailed, Observe
    <2>3. QED
        BY <1>c, <2>1, <2>2 DEF Carries
  <1>9. ASSUME NEW w \in Workers, SettleRetry(w) PROVE OnItsWay(dl)'
    <2> DEFINE b == handler[w].dl
               k == handler[w].attempt + 1
    <2>1. handler[w] \in Handler /\ b \in Deliveries
        BY <1>0, <1>9, AtWork DEF SettleRetry, Answered
    <2>2. k \in Attempts /\ jobs' = [jobs EXCEPT ![b][k] = @ + 1]
        BY <1>9, <2>1 DEF SettleRetry, GivesUp, Handler, Attempts
    <2>3. CASE b = dl
        BY <1>a, <2>2, <2>3
    <2>4. CASE b # dl
      <3>1. state[dl] = "queued" /\ jobs'[dl] = jobs[dl]
          BY <1>0, <1>9, <2>2, <2>4 DEF SettleRetry
      <3>2. \A v \in Workers \ {w} : handler'[v] = handler[v]
          BY <1>0, <1>9 DEF SettleRetry, Observe
      <3>3. QED
          BY <1>c, <2>4, <3>1, <3>2 DEF Carries
    <2>5. QED
        BY <2>3, <2>4
  <1>10. ASSUME NEW w \in Workers, SettleMissing(w) \/ Abort(w) PROVE OnItsWay(dl)'
    <2>1. /\ letters' = [letters EXCEPT ![handler[w].dl] = @ + 1] /\ state[dl] = "queued"
          /\ UNCHANGED jobs /\ \A v \in Workers \ {w} : handler'[v] = handler[v]
        BY <1>0, <1>10 DEF SettleMissing, Abort, DeadLetter
    <2>2. CASE handler[w].dl = dl
      <3>1. letters'[dl] > 0
          BY <1>0, <2>1, <2>2
      <3>2. QED
          BY <3>1 DEF OnItsWay
    <2>3. CASE handler[w].dl # dl
        BY <1>c, <2>1, <2>3 DEF Carries
    <2>4. QED
        BY <2>2, <2>3
  <1>11. ASSUME UNCHANGED <<state, jobs, handler>> PROVE OnItsWay(dl)'
      BY <1>11, <1>b
  <1>12. QED
      BY <1>1, <1>2, <1>3, <1>4, <1>5, <1>6, <1>7, <1>8, <1>9, <1>10, <1>11
      DEF Next, WorkerStep, AnnounceRead, RetryRead, vars

LEMMA KeptInit == Init => KeptInv
  BY TypeInit DEF Init, KeptInv, QueuedIsCarried, FailedIsSetAside, RowsHaveParents

LEMMA KeptStep == KeptInv /\ [Next]_vars => KeptInv'
  BY TypeStep, CarriedStep, FailedStep, ParentsStep DEF KeptInv

\* Every variable keeps its shape, however many handlers, retries and faults there are.
THEOREM TypeCorrect == Spec => []TypeOK
  <1>1. QED
      BY TypeInit, TypeStep, PTL DEF Spec

\* A delivery that reads "queued" has a job or a handler or, failing that, a dead letter: each
\* transaction that queues a delivery sends its job, and a handler settles before it lets go.
THEOREM NothingIsForgotten == Spec => []QueuedIsCarried
  <1>1. KeptInv => QueuedIsCarried
      BY DEF KeptInv
  <1>2. QED
      BY <1>1, KeptInit, KeptStep, PTL DEF Spec

\* A delivery that failed for good was set aside by the transaction that failed it.
THEOREM FailuresAreSetAside == Spec => []FailedIsSetAside
  <1>1. KeptInv => FailedIsSetAside
      BY DEF KeptInv
  <1>2. QED
      BY <1>1, KeptInit, KeptStep, PTL DEF Spec

\* A delivery's row has its notification and its destination: announce is all or nothing and the
\* removal of a destination takes its deliveries.
THEOREM DeliveriesHaveParents == Spec => []RowsHaveParents
  <1>1. KeptInv => RowsHaveParents
      BY DEF KeptInv
  <1>2. QED
      BY <1>1, KeptInit, KeptStep, PTL DEF Spec

-----------------------------------------------------------------------------
\* The row of a destination holds the time of the latest answer settled for it, in the column of
\* its outcome, and no later time in the other; one that was never created has no answers.
HealthFollows ==
    \A d \in Dests :
        /\ dest[d].status = "absent" => observed[d].at = 0
        /\ observed[d].at = 0 => dest[d].okAt = 0 /\ dest[d].badAt = 0
        /\ observed[d].at > 0 /\ observed[d].ok =>
             ~dest[d].reason /\ dest[d].okAt = observed[d].at /\ dest[d].badAt <= dest[d].okAt
        /\ observed[d].at > 0 /\ ~observed[d].ok =>
             dest[d].reason /\ dest[d].badAt = observed[d].at /\ dest[d].okAt <= dest[d].badAt

HealthInv == KeptInv /\ HealthFollows

\* Steps that turn destinations on or off, or remove them, keep their health.
LEMMA HealthFrame ==
    ASSUME HealthFollows, UNCHANGED observed,
           \A d \in Dests :
              /\ dest'[d].okAt = dest[d].okAt /\ dest'[d].badAt = dest[d].badAt
              /\ dest'[d].reason = dest[d].reason
              /\ dest'[d].status = "absent" => dest[d].status = "absent"
    PROVE  HealthFollows'
  BY DEF HealthFollows

\* An answer that is settled is marked if and only if it is the latest.
LEMMA HealthSettles ==
    ASSUME HealthInv, NEW d \in Dests, NEW at \in Nat, NEW ok \in BOOLEAN, Exists(d),
           NEW r \in Destination, dest' = [dest EXCEPT ![d] = r],
           r.status # "absent", r.okAt = MarkOutcome(d, at, ok).okAt,
           r.badAt = MarkOutcome(d, at, ok).badAt, r.reason = MarkOutcome(d, at, ok).reason,
           observed' = IF observed[d].at < at THEN [observed EXCEPT ![d] = [at |-> at, ok |-> ok]]
                       ELSE observed
    PROVE  HealthFollows'
  <1>0. /\ dest \in [Dests -> Destination] /\ observed \in [Dests -> [at : Nat, ok : BOOLEAN]]
        /\ dest[d] \in Destination /\ dest[d].okAt \in Nat /\ dest[d].badAt \in Nat
        /\ observed[d].at \in Nat /\ HealthFollows
      BY DEF HealthInv, KeptInv, TypeOK, Destination
  <1>1. \A b \in Dests : b # d => dest'[b] = dest[b] /\ observed'[b] = observed[b]
      BY <1>0
  <1>2. dest'[d] = r
      BY <1>0
  <1>3. CASE observed[d].at < at
    <2>1. dest[d].okAt < at /\ dest[d].badAt < at
        BY <1>0, <1>3 DEF HealthFollows
    <2>2. observed'[d] = [at |-> at, ok |-> ok] /\ at > 0
        BY <1>0, <1>3
    <2>3. CASE ok
      <3>1. MarkOutcome(d, at, ok) = [dest[d] EXCEPT !.okAt = at, !.reason = FALSE]
          BY <1>0, <2>1, <2>3 DEF MarkOutcome
      <3>2. r.okAt = at /\ r.badAt = dest[d].badAt
          BY <1>0, <3>1 DEF Destination
      <3>3. ~r.reason
          BY <1>0, <3>1 DEF Destination
      <3>4. QED
          <4> DEFINE H(b) ==
                /\ dest'[b].status = "absent" => observed'[b].at = 0
                /\ observed'[b].at = 0 => dest'[b].okAt = 0 /\ dest'[b].badAt = 0
                /\ observed'[b].at > 0 /\ observed'[b].ok =>
                     /\ ~dest'[b].reason /\ dest'[b].okAt = observed'[b].at
                     /\ dest'[b].badAt <= dest'[b].okAt
                /\ observed'[b].at > 0 /\ ~observed'[b].ok =>
                     /\ dest'[b].reason /\ dest'[b].badAt = observed'[b].at
                     /\ dest'[b].okAt <= dest'[b].badAt
          <4>1. observed'[d].at = at /\ observed'[d].ok
              BY <2>2, <2>3
          <4>2. dest'[d].okAt = at /\ dest'[d].badAt <= at /\ at # 0
              BY <1>0, <1>2, <2>1, <2>2, <3>2
          <4>3. dest'[d].status # "absent" /\ ~dest'[d].reason
              BY <1>2, <3>3
          <4>4. H(d)
              BY <4>1, <4>2, <4>3
          <4>5. \A b \in Dests : b # d => H(b)
              BY <1>0, <1>1 DEF HealthFollows
          <4>6. QED
              BY <4>4, <4>5 DEF HealthFollows
    <2>4. CASE ~ok
      <3>1. MarkOutcome(d, at, ok) = [dest[d] EXCEPT !.badAt = at, !.reason = TRUE]
          BY <1>0, <2>1, <2>4 DEF MarkOutcome
      <3>2. r.badAt = at /\ r.okAt = dest[d].okAt
          BY <1>0, <3>1 DEF Destination
      <3>3. r.reason
          BY <1>0, <3>1 DEF Destination
      <3>4. QED
          BY <1>0, <1>1, <1>2, <2>1, <2>2, <2>4, <3>2, <3>3 DEF HealthFollows
    <2>5. QED
        BY <2>3, <2>4
  <1>4. CASE ~(observed[d].at < at)
    <2>1. dest[d].okAt >= at \/ dest[d].badAt >= at
        BY <1>0, <1>4 DEF HealthFollows
    <2>2. MarkOutcome(d, at, ok) = dest[d]
        BY <2>1 DEF MarkOutcome
    <2>3. r.okAt = dest[d].okAt /\ r.badAt = dest[d].badAt /\ r.reason = dest[d].reason
        BY <2>2
    <2>4. UNCHANGED observed
        BY <1>4
    <2>5. QED
        BY <1>0, <1>1, <1>2, <2>3, <2>4, HealthFrame
  <1>5. QED
      BY <1>3, <1>4

LEMMA HealthStep == HealthInv /\ [Next]_vars => HealthFollows'
  <1> SUFFICES ASSUME HealthInv, [Next]_vars PROVE HealthFollows'
      OBVIOUS
  <1>0. /\ TypeOK /\ RowsHaveParents /\ HealthFollows /\ dest \in [Dests -> Destination]
        /\ \A d \in Dests : dest[d] \in Destination
      BY DEF HealthInv, KeptInv, TypeOK
  <1>1. ASSUME NEW d \in Dests, Create(d) PROVE HealthFollows'
    <2>1. observed[d].at = 0 /\ UNCHANGED observed
        BY <1>0, <1>1 DEF Create, HealthFollows
    <2>2. \A b \in Dests : dest'[b] = IF b = d THEN Fresh ELSE dest[b]
        BY <1>0, <1>1 DEF Create
    <2>3. QED
        BY <1>0, <2>1, <2>2 DEF HealthFollows, Fresh
  <1>2. ASSUME NEW d \in Dests, Enable(d) \/ Disable(d) \/ Remove(d) PROVE HealthFollows'
    <2>1. PICK s \in {"on", "off", "removed"} :
            dest' = [dest EXCEPT ![d] = [dest[d] EXCEPT !.status = s]]
        BY <1>0, <1>2 DEF Enable, Disable, Remove
    <2>2. \A b \in Dests : /\ dest'[b].okAt = dest[b].okAt /\ dest'[b].badAt = dest[b].badAt
                           /\ dest'[b].status = "absent" => dest[b].status = "absent"
        BY <1>0, <2>1 DEF Destination
    <2>3. \A b \in Dests : dest'[b].reason = dest[b].reason
        BY <1>0, <2>1 DEF Destination
    <2>4. UNCHANGED observed
        BY <1>2 DEF Enable, Disable, Remove
    <2>5. QED
        BY <1>0, <2>2, <2>3, <2>4, HealthFrame
  <1>3. ASSUME NEW w \in Workers, Settles(w) PROVE HealthFollows'
    <2> DEFINE d == To(handler[w].dl)
               at == handler[w].at
               m == MarkOutcome(d, at, FALSE)
               r == [m EXCEPT !.status = IF handler[w].outcome = "gone" THEN "off" ELSE m.status]
    <2>1. handler[w].pc = "answered" /\ state[handler[w].dl] # "none"
        BY <1>3 DEF Settles, SettleDelivered, SettleFailed, SettleRetry, Answered
    <2>2. d \in Dests /\ at \in Nat /\ handler[w].dl \in Deliveries
        BY <1>0, <2>1, AtWork
    <2>3. Exists(d)
        BY <1>0, <2>1, <2>2 DEF RowsHaveParents
    <2>4. /\ TRUE \in BOOLEAN /\ FALSE \in BOOLEAN /\ dest[d].status # "absent"
          /\ m \in Destination /\ m.status = dest[d].status
          /\ MarkOutcome(d, at, TRUE) \in Destination
          /\ MarkOutcome(d, at, TRUE).status = dest[d].status
      <3>1. TRUE \in BOOLEAN /\ FALSE \in BOOLEAN /\ dest[d].status # "absent"
          BY <2>3 DEF Exists
      <3>2. QED
          BY <1>0, <2>2, <3>1, MarkOutcomeType
    <2>5. CASE SettleDelivered(w)
      <3>1. dest' = [dest EXCEPT ![d] = MarkOutcome(d, at, TRUE)]
          BY <2>5 DEF SettleDelivered
      <3>2. observed' = IF observed[d].at < at
                          THEN [observed EXCEPT ![d] = [at |-> at, ok |-> TRUE]] ELSE observed
          BY <2>5 DEF SettleDelivered, Observe
      <3> HIDE DEF d, at, m
      <3>3. QED
          BY <2>2, <2>3, <2>4, <3>1, <3>2, HealthSettles
    <2>6. CASE SettleFailed(w)
      <3>1. dest' = [dest EXCEPT ![d] = r]
          BY <2>6 DEF SettleFailed
      <3>2. observed' = IF observed[d].at < at
                          THEN [observed EXCEPT ![d] = [at |-> at, ok |-> FALSE]] ELSE observed
          BY <2>6 DEF SettleFailed, Observe
      <3>3. /\ r \in Destination /\ r.status # "absent" /\ r.okAt = m.okAt /\ r.badAt = m.badAt
        <4> HIDE DEF m
        <4>1. QED
            BY <2>4 DEF Destination
      <3>4. r.reason = m.reason
        <4> HIDE DEF m
        <4>1. QED
            BY <2>4 DEF Destination
      <3> HIDE DEF d, at, r
      <3>5. QED
          BY <2>2, <2>3, <2>4, <3>1, <3>2, <3>3, <3>4, HealthSettles
    <2>7. CASE SettleRetry(w)
      <3>1. dest' = [dest EXCEPT ![d] = m]
          BY <2>7 DEF SettleRetry
      <3>2. observed' = IF observed[d].at < at
                          THEN [observed EXCEPT ![d] = [at |-> at, ok |-> FALSE]] ELSE observed
          BY <2>7 DEF SettleRetry, Observe
      <3> HIDE DEF d, at
      <3>3. QED
          BY <2>2, <2>3, <2>4, <3>1, <3>2, HealthSettles
    <2>8. QED
        BY <1>3, <2>5, <2>6, <2>7 DEF Settles
  <1>4. ASSUME UNCHANGED <<dest, observed>> PROVE HealthFollows'
      BY <1>0, <1>4, HealthFrame
  <1>5. QED
      BY <1>1, <1>2, <1>3, <1>4
      DEF Next, WorkerStep, Settles, AnnounceRead, AnnounceCommit, RetryRead, RetryCommit, Dismiss,
          Take, Look, SettleOff, Send, SettleMissing, Abort, DeadLetter, vars

\* A destination shows the outcome of its latest answer, in whatever order handlers settle
\* (markDestinationOutcome), for any number of handlers, operators and faults.
THEOREM HealthIsOfTheLatest == Spec => []HealthIsLatest
  <1>1. Init => HealthInv
    <2>1. Init => HealthFollows
        BY DEF Init, HealthFollows, Fresh
    <2>2. QED
        BY <2>1, KeptInit DEF HealthInv
  <1>2. HealthInv /\ [Next]_vars => HealthInv'
      BY KeptStep, HealthStep DEF HealthInv
  <1>3. HealthInv => HealthIsLatest
      BY DEF HealthInv, HealthFollows, HealthIsLatest
  <1>4. QED
      BY <1>1, <1>2, <1>3, PTL DEF Spec

-----------------------------------------------------------------------------
\* No two handlers take from the queue of one destination: the worker process registers one
\* handler for each queue it polls.
OneHandlerEach == \A v, w \in Workers : v # w => Serves[v] \cap Serves[w] = {}

Removed(d) == dest[d].status = "removed"

\* The handler holds an acknowledgement of this delivery that it has yet to settle.
HoldsAck(w, dl) ==
    Carries(w, dl) /\ handler[w].pc = "answered" /\ handler[w].outcome = "delivered"

\* The handler has yet to send this delivery.
Heads(w, dl) == Carries(w, dl) /\ handler[w].pc # "answered"

\* Nothing more will be sent for the delivery unless a handler fails: it is settled as
\* delivered, its acknowledgement is in hand, or it went with its destination.
Spent(dl) ==
    \/ state[dl] = "delivered"
    \/ \E w \in Workers : HoldsAck(w, dl)
    \/ Removed(To(dl)) /\ \A w \in Workers : ~Heads(w, dl)

\* A delivery in a handler's hands came off a queue the handler serves, is not settled as
\* delivered by anyone else, and has lost its row only if its destination was removed.
CarriedIsServed ==
    \A w \in Workers, dl \in Deliveries : Carries(w, dl) =>
        /\ To(dl) \in Serves[w]
        /\ state[dl] # "delivered"
        /\ state[dl] = "none" => Removed(To(dl))

\* Each acknowledgement but the last is paid for by a fault, and the last one too unless
\* the delivery is spent.
AcceptedOnce ==
    \A dl \in Deliveries :
        /\ accepted[dl] <= faults + 1
        /\ accepted[dl] <= faults \/ Spent(dl)

OnceInv == KeptInv /\ CarriedIsServed /\ AcceptedOnce

\* With one handler for each queue, a delivery has one carrier.
LEMMA SoleCarrier ==
    ASSUME OneHandlerEach, CarriedIsServed, NEW v \in Workers, NEW w \in Workers,
           NEW dl \in Deliveries, Carries(v, dl), Carries(w, dl)
    PROVE  v = w
  BY DEF OneHandlerEach, CarriedIsServed

\* What keeps a delivery spent.
LEMMA StaysSpent ==
    ASSUME NEW dl \in Deliveries, Spent(dl), Removed(To(dl)) => Removed(To(dl))',
           state[dl] = "delivered" => state'[dl] = "delivered",
           \A v \in Workers : HoldsAck(v, dl) => HoldsAck(v, dl)',
           \A v \in Workers : Heads(v, dl)' => Heads(v, dl)
    PROVE  Spent(dl)'
  BY DEF Spent

\* A step that records no acknowledgement keeps the count if it keeps what is spent spent.
LEMMA AcceptedFrame ==
    ASSUME AcceptedOnce, UNCHANGED <<accepted, faults>>,
           \A dl \in Deliveries : Spent(dl) => Spent(dl)'
    PROVE  AcceptedOnce'
  BY DEF AcceptedOnce

\* What keeps carried deliveries in order while no handler takes a new one.
LEMMA ServedFrame ==
    ASSUME CarriedIsServed,
           \A v \in Workers, dl \in Deliveries : Carries(v, dl)' =>
              /\ Carries(v, dl)
              /\ Removed(To(dl)) => Removed(To(dl))'
              /\ state'[dl] = "delivered" => state[dl] = "delivered"
              /\ state'[dl] = "none" => state[dl] = "none" \/ Removed(To(dl))'
    PROVE  CarriedIsServed'
  <1>1. ASSUME NEW w \in Workers, NEW dl \in Deliveries, Carries(w, dl)'
        PROVE  /\ To(dl) \in Serves[w] /\ state'[dl] # "delivered"
               /\ state'[dl] = "none" => Removed(To(dl))'
    <2>1. Carries(w, dl)
        BY <1>1
    <2>2. Removed(To(dl)) => Removed(To(dl))'
        BY <1>1
    <2>3. /\ state'[dl] = "delivered" => state[dl] = "delivered"
          /\ state'[dl] = "none" => state[dl] = "none" \/ Removed(To(dl))'
        BY <1>1
    <2>4. To(dl) \in Serves[w] /\ state[dl] # "delivered"
        BY <2>1 DEF CarriedIsServed
    <2>5. state[dl] = "none" => Removed(To(dl))
        BY <2>1 DEF CarriedIsServed
    <2>6. state'[dl] = "none" => Removed(To(dl))'
        BY <2>2, <2>3, <2>5 DEF Removed
    <2>7. QED
        BY <2>3, <2>4, <2>6
  <1>2. QED
      BY <1>1 DEF CarriedIsServed, To

\* No step brings a removed destination back.
LEMMA RemovedStays ==
    ASSUME TypeOK, RowsHaveParents, [Next]_vars
    PROVE  \A d \in Dests : Removed(d) => Removed(d)'
  <1>0. dest \in [Dests -> Destination]
      BY DEF TypeOK
  <1>1. ASSUME NEW b \in Dests, Create(b) \/ Enable(b) \/ Disable(b) \/ Remove(b)
        PROVE  \A d \in Dests : Removed(d) => Removed(d)'
      BY <1>0, <1>1 DEF Create, Enable, Disable, Remove, Removed, Exists, Destination
  <1>2. ASSUME NEW w \in Workers, Settles(w)
        PROVE  \A d \in Dests : Removed(d) => Removed(d)'
    <2> DEFINE b == To(handler[w].dl)
    <2>1. b \in Dests /\ handler[w].dl \in Deliveries /\ state[handler[w].dl] # "none"
        BY <1>2, Settling
    <2>2. Exists(b)
        BY <2>1 DEF RowsHaveParents
    <2>3. PICK r \in Destination : dest' = [dest EXCEPT ![b] = r]
        BY <1>2, Settling
    <2> HIDE DEF b
    <2>4. QED
        BY <1>0, <2>1, <2>2, <2>3 DEF Exists, Removed
  <1>3. UNCHANGED dest => \A d \in Dests : Removed(d) => Removed(d)'
      BY DEF Removed
  <1>4. QED
      BY <1>1, <1>2, <1>3
      DEF Next, WorkerStep, Settles, AnnounceRead, AnnounceCommit, RetryRead, RetryCommit, Dismiss,
          Take, Look, SettleOff, Send, SettleMissing, Abort, DeadLetter, vars

\* Deliveries stay in order in the hands of the handlers.
LEMMA ServedStep ==
    ASSUME OneHandlerEach, OnceInv, [Next]_vars
    PROVE  CarriedIsServed'
  <1>0. /\ TypeOK /\ RowsHaveParents /\ CarriedIsServed
        /\ state \in [Deliveries -> DeliveryState] /\ dest \in [Dests -> Destination]
        /\ DOMAIN handler = Workers
      BY DEF OnceInv, KeptInv, TypeOK
  <1>a. \A dl \in Deliveries : To(dl) \in Dests /\ (Removed(To(dl)) => Removed(To(dl))')
      BY <1>0, RemovedStays, DeliveryParts DEF Removed
  <1>b. ASSUME \A v \in Workers, dl \in Deliveries : Carries(v, dl)' => Carries(v, dl),
               \A dl \in Deliveries : state'[dl] = "delivered" => state[dl] = "delivered",
               \A dl \in Deliveries :
                  state'[dl] = "none" => state[dl] = "none" \/ Removed(To(dl))'
        PROVE  CarriedIsServed'
      BY <1>0, <1>a, <1>b, ServedFrame
  <1>1. ASSUME NEW d \in Dests, Create(d) \/ Enable(d) PROVE CarriedIsServed'
      BY <1>1, <1>b DEF Create, Enable, Carries
  <1>2. ASSUME NEW d \in Dests, Disable(d) PROVE CarriedIsServed'
      BY <1>0, <1>2, <1>b DEF Disable, Carries
  <1>3. ASSUME NEW d \in Dests, Remove(d) PROVE CarriedIsServed'
    <2>1. \A dl \in Deliveries :
             state'[dl] = IF To(dl) = d THEN "none" ELSE state[dl]
        BY <1>3 DEF Remove
    <2>2. Removed(d)'
        BY <1>0, <1>3 DEF Remove, Removed
    <2>3. UNCHANGED handler
        BY <1>3 DEF Remove
    <2>4. \A dl \in Deliveries : state'[dl] = "delivered" => state[dl] = "delivered"
        BY <2>1
    <2>5. \A dl \in Deliveries :
             state'[dl] = "none" => state[dl] = "none" \/ Removed(To(dl))'
        BY <2>1, <2>2 DEF Removed
    <2>6. QED
        BY <2>3, <2>4, <2>5, <1>b DEF Carries
  <1>4. ASSUME NEW a \in Announcers, AnnounceCommit(a) PROVE CarriedIsServed'
      BY <1>0, <1>4, <1>b DEF AnnounceCommit, Carries
  <1>5. ASSUME NEW dl \in Deliveries, RetryCommit(dl) \/ Dismiss(dl) PROVE CarriedIsServed'
      BY <1>0, <1>5, <1>b DEF RetryCommit, Dismiss, Carries
  <1>6. ASSUME NEW w \in Workers, NEW b \in Deliveries, NEW k \in Attempts, Take(w, b, k)
        PROVE  CarriedIsServed'
    <2>1. UNCHANGED <<state, dest>> /\ To(b) \in Serves[w]
        BY <1>6 DEF Take
    <2>2. CASE ~Unsettled(b)
        BY <1>6, <2>1, <2>2, <1>b DEF Take, Carries
    <2>3. CASE Unsettled(b)
      <3>1. state[b] = "queued"
          BY <2>3 DEF Unsettled
      <3>2. \A v \in Workers, dl \in Deliveries :
               Carries(v, dl)' => Carries(v, dl) \/ (v = w /\ dl = b)
          BY <1>0, <1>6, <2>3 DEF Take, Carries
      <3>3. ASSUME NEW v \in Workers, NEW dl \in Deliveries, Carries(v, dl)'
            PROVE  /\ To(dl) \in Serves[v] /\ state'[dl] # "delivered"
                   /\ state'[dl] = "none" => Removed(To(dl))'
        <4>1. CASE v = w /\ dl = b
            BY <2>1, <3>1, <4>1
        <4>2. CASE Carries(v, dl)
          <5>1. To(dl) \in Serves[v] /\ state[dl] # "delivered"
              BY <1>0, <4>2 DEF CarriedIsServed
          <5>2. state[dl] = "none" => Removed(To(dl))
              BY <1>0, <4>2 DEF CarriedIsServed
          <5>3. Removed(To(dl)) => Removed(To(dl))'
              BY <1>a
          <5>4. QED
              BY <2>1, <5>1, <5>2, <5>3 DEF Removed
        <4>3. QED
            BY <3>2, <3>3, <4>1, <4>2
      <3>4. QED
          BY <3>3 DEF CarriedIsServed, To
    <2>4. QED
        BY <2>2, <2>3
  <1>7. ASSUME NEW w \in Workers, Look(w) \/ Send(w) PROVE CarriedIsServed'
    <2>1. UNCHANGED state
        BY <1>7 DEF Look, Send
    <2>2. \A v \in Workers, dl \in Deliveries : Carries(v, dl)' => Carries(v, dl)
      <3>1. CASE Look(w)
          BY <1>0, <3>1 DEF Look, Carries, Idle
      <3>2. CASE Send(w)
          BY <1>0, <3>2 DEF Send, Carries
      <3>3. QED
          BY <1>7, <3>1, <3>2
    <2>3. QED
        BY <2>1, <2>2, <1>b
  <1>8. ASSUME NEW w \in Workers, SettleOff(w) PROVE CarriedIsServed'
      BY <1>0, <1>8, <1>b DEF SettleOff, WithState, Carries, Idle
  <1>9. ASSUME NEW w \in Workers, Settles(w) PROVE CarriedIsServed'
    <2> DEFINE b == handler[w].dl
    <2>1. /\ b \in Deliveries /\ Carries(w, b) /\ handler' = [handler EXCEPT ![w] = Idle]
        BY <1>9, <1>0, Settling DEF Carries
    <2>2. PICK s \in {"delivered", "failed", "queued"} : state' = [state EXCEPT ![b] = s]
        BY <1>9, <1>0, Settling
    <2>3. ASSUME NEW v \in Workers, NEW dl \in Deliveries, Carries(v, dl)'
          PROVE  Carries(v, dl) /\ dl # b
      <3>1. v # w /\ Carries(v, dl)
          BY <1>0, <2>1, <2>3 DEF Carries, Idle
      <3>2. QED
          BY <1>0, <2>1, <3>1, SoleCarrier
    <2> HIDE DEF b
    <2>4. \A dl \in Deliveries : dl # b => state'[dl] = state[dl]
        BY <1>0, <2>1, <2>2
    <2>5. QED
        BY <1>0, <1>a, <2>3, <2>4, ServedFrame
  <1>10. ASSUME NEW w \in Workers, SettleMissing(w) \/ Abort(w) PROVE CarriedIsServed'
      BY <1>0, <1>10, <1>b DEF SettleMissing, Abort, DeadLetter, Carries, Idle
  <1>11. ASSUME UNCHANGED <<state, handler>> PROVE CarriedIsServed'
      BY <1>11, <1>b DEF Carries
  <1>12. QED
      BY <1>1, <1>2, <1>3, <1>4, <1>5, <1>6, <1>7, <1>8, <1>9, <1>10, <1>11
      DEF Next, WorkerStep, Settles, AnnounceRead, RetryRead, vars

\* Acknowledgements are counted right: the first one spends the delivery.
LEMMA AcceptedStep ==
    ASSUME OneHandlerEach, OnceInv, [Next]_vars
    PROVE  AcceptedOnce'
  <1>0. /\ TypeOK /\ RowsHaveParents /\ CarriedIsServed /\ AcceptedOnce
        /\ state \in [Deliveries -> DeliveryState] /\ dest \in [Dests -> Destination]
        /\ DOMAIN handler = Workers /\ accepted \in [Deliveries -> Nat] /\ faults \in Nat
      BY DEF OnceInv, KeptInv, TypeOK
  <1>a. \A dl \in Deliveries : To(dl) \in Dests /\ (Removed(To(dl)) => Removed(To(dl))')
      BY <1>0, RemovedStays, DeliveryParts DEF Removed
  <1>b. ASSUME UNCHANGED <<accepted, faults>>,
               \A dl \in Deliveries : state[dl] = "delivered" => state'[dl] = "delivered",
               \A v \in Workers, dl \in Deliveries : HoldsAck(v, dl) => HoldsAck(v, dl)',
               \A v \in Workers, dl \in Deliveries : Heads(v, dl)' => Heads(v, dl)
        PROVE  AcceptedOnce'
    <2>1. ASSUME NEW dl \in Deliveries, Spent(dl) PROVE Spent(dl)'
        BY <1>a, <1>b, <2>1, StaysSpent
    <2>2. QED
        BY <1>0, <1>b, <2>1, AcceptedFrame
  <1>c. ASSUME NEW w \in Workers, handler' = [handler EXCEPT ![w] = Idle]
        PROVE  /\ \A v \in Workers, dl \in Deliveries : Heads(v, dl)' => Heads(v, dl)
               /\ \A v \in Workers, dl \in Deliveries :
                     v # w /\ HoldsAck(v, dl) => HoldsAck(v, dl)'
      BY <1>0, <1>c DEF Heads, HoldsAck, Carries, Idle
  <1>1. ASSUME NEW d \in Dests, Create(d) \/ Enable(d) \/ Disable(d) PROVE AcceptedOnce'
    <2>1. UNCHANGED <<accepted, faults, handler>>
        BY <1>1 DEF Create, Enable, Disable
    <2>2. \A dl \in Deliveries : state[dl] = "delivered" => state'[dl] = "delivered"
        BY <1>0, <1>1 DEF Create, Enable, Disable
    <2>3. QED
        BY <2>1, <2>2, <1>b DEF HoldsAck, Heads, Carries
  <1>2. ASSUME NEW d \in Dests, Remove(d) PROVE AcceptedOnce'
    <2>1. UNCHANGED <<accepted, faults, handler>>
        BY <1>2 DEF Remove
    <2>2. ASSUME NEW dl \in Deliveries, Spent(dl) PROVE Spent(dl)'
      <3>1. CASE To(dl) = d /\ state[dl] = "delivered"
        <4>1. Removed(To(dl))'
            BY <1>0, <1>2, <3>1 DEF Remove, Removed
        <4>2. \A v \in Workers : ~Carries(v, dl)
            BY <1>0, <3>1 DEF CarriedIsServed
        <4>3. \A v \in Workers : ~Heads(v, dl)'
            BY <2>1, <4>2 DEF Heads, Carries
        <4>4. QED
            BY <4>1, <4>3 DEF Spent
      <3>2. CASE ~(To(dl) = d /\ state[dl] = "delivered")
        <4>1. state[dl] = "delivered" => state'[dl] = "delivered"
            BY <1>2, <3>2 DEF Remove
        <4>2. \A v \in Workers : HoldsAck(v, dl) => HoldsAck(v, dl)'
            BY <2>1 DEF HoldsAck, Carries
        <4>3. \A v \in Workers : Heads(v, dl)' => Heads(v, dl)
            BY <2>1 DEF Heads, Carries
        <4>4. QED
            BY <1>a, <2>2, <4>1, <4>2, <4>3, StaysSpent
      <3>3. QED
          BY <3>1, <3>2
    <2>3. QED
        BY <1>0, <2>1, <2>2, AcceptedFrame
  <1>3. ASSUME NEW a \in Announcers, AnnounceCommit(a) PROVE AcceptedOnce'
    <2>1. UNCHANGED <<accepted, faults, handler>>
        BY <1>3 DEF AnnounceCommit
    <2>2. ASSUME NEW dl \in Deliveries, state[dl] = "delivered" PROVE state'[dl] = "delivered"
      <3>1. dl[1] \in notified
          BY <1>0, <2>2 DEF RowsHaveParents
      <3>2. AnnounceFits(a) => dl \notin Announced(a)
          BY <3>1 DEF AnnounceFits, Announced
      <3>3. QED
          BY <1>3, <2>2, <3>2 DEF AnnounceCommit
    <2>3. QED
        BY <2>1, <2>2, <1>b DEF HoldsAck, Heads, Carries
  <1>4. ASSUME NEW dl \in Deliveries, RetryCommit(dl) \/ Dismiss(dl) PROVE AcceptedOnce'
    <2>1. UNCHANGED <<accepted, faults, handler>>
        BY <1>4 DEF RetryCommit, Dismiss
    <2>2. \A b \in Deliveries : state[b] = "delivered" => state'[b] = "delivered"
        BY <1>0, <1>4 DEF RetryCommit, Dismiss
    <2>3. QED
        BY <2>1, <2>2, <1>b DEF HoldsAck, Heads, Carries
  <1>5. ASSUME NEW w \in Workers, NEW b \in Deliveries, NEW k \in Attempts, Take(w, b, k)
        PROVE  AcceptedOnce'
    <2>1. UNCHANGED <<state, dest, accepted, faults>>
        BY <1>5 DEF Take
    <2>2. CASE ~Unsettled(b)
        BY <1>5, <2>1, <2>2, <1>b DEF Take, HoldsAck, Heads, Carries
    <2>3. CASE Unsettled(b)
      <3>1. state[b] = "queued" /\ ~Removed(To(b))
          BY <1>0, <2>3 DEF Unsettled, RowsHaveParents, Exists, Removed
      <3>2. handler[w].pc = "idle" /\ \A v \in Workers : v # w => handler'[v] = handler[v]
          BY <1>0, <1>5, <2>3 DEF Take, Idle
      <3>3. handler'[w].pc = "taken" /\ handler'[w].dl = b
          BY <1>0, <1>5, <2>3 DEF Take, Idle
      <3>4. \A v \in Workers, dl \in Deliveries : HoldsAck(v, dl) => HoldsAck(v, dl)'
          BY <3>2 DEF HoldsAck, Carries
      <3>5. \A v \in Workers, dl \in Deliveries : dl # b /\ Heads(v, dl)' => Heads(v, dl)
          BY <3>2, <3>3 DEF Heads, Carries
      <3>6. ASSUME NEW dl \in Deliveries, Spent(dl) PROVE Spent(dl)'
        <4>1. CASE dl = b
            BY <3>1, <3>4, <3>6, <4>1 DEF Spent
        <4>2. CASE dl # b
            BY <1>a, <2>1, <3>4, <3>5, <3>6, <4>2, StaysSpent
        <4>3. QED
            BY <4>1, <4>2
      <3>7. QED
          BY <1>0, <2>1, <3>6, AcceptedFrame
    <2>4. QED
        BY <2>2, <2>3
  <1>6. ASSUME NEW w \in Workers, Look(w) PROVE AcceptedOnce'
    <2>1. UNCHANGED <<state, accepted, faults>> /\ handler[w].pc = "taken"
        BY <1>6 DEF Look
    <2>2. \A v \in Workers, dl \in Deliveries : HoldsAck(v, dl) => HoldsAck(v, dl)'
        BY <1>0, <1>6 DEF Look, HoldsAck, Carries
    <2>3. \A v \in Workers, dl \in Deliveries : Heads(v, dl)' => Heads(v, dl)
        BY <1>0, <1>6 DEF Look, Heads, Carries, Idle
    <2>4. QED
        BY <2>1, <2>2, <2>3, <1>b
  <1>7. ASSUME NEW w \in Workers, SettleOff(w) PROVE AcceptedOnce'
    <2> DEFINE b == handler[w].dl
    <2>1. /\ UNCHANGED <<accepted, faults>> /\ handler[w].pc = "off"
          /\ handler' = [handler EXCEPT ![w] = Idle] /\ state' = WithState(b, "abandoned")
        BY <1>7 DEF SettleOff
    <2>2. b \in Deliveries /\ Carries(w, b)
        BY <1>0, <2>1, AtWork DEF Carries
    <2>3. state[b] # "delivered"
        BY <1>0, <2>2 DEF CarriedIsServed
    <2>4. \A dl \in Deliveries : state[dl] = "delivered" => state'[dl] = "delivered"
        BY <1>0, <2>1, <2>2, <2>3 DEF WithState
    <2>5. \A v \in Workers, dl \in Deliveries : HoldsAck(v, dl) => HoldsAck(v, dl)'
        BY <1>c, <2>1 DEF HoldsAck
    <2>6. QED
        BY <2>1, <2>4, <2>5, <1>b, <1>c
  <1>8. ASSUME NEW w \in Workers, Send(w) PROVE AcceptedOnce'
    <2>1. UNCHANGED <<state, dest, faults>> /\ handler[w].pc = "live"
        BY <1>8 DEF Send
    <2>b. PICK b \in Deliveries : b = handler[w].dl
        BY <1>0, <2>1, AtWork
    <2>2. b \in Deliveries /\ Heads(w, b) /\ Carries(w, b)
        BY <2>1, <2>b DEF Heads, Carries
    <2>3. ~Spent(b) /\ state[b] # "delivered"
      <3>1. state[b] # "delivered"
          BY <1>0, <2>2 DEF CarriedIsServed
      <3>2. \A v \in Workers : ~HoldsAck(v, b)
          BY <1>0, <2>1, <2>2, SoleCarrier DEF HoldsAck
      <3>3. QED
          BY <2>2, <3>1, <3>2 DEF Spent
    <2>4. accepted[b] <= faults
        BY <1>0, <2>2, <2>3 DEF AcceptedOnce
    <2>5. /\ \A v \in Workers : v # w => handler'[v] = handler[v]
          /\ handler'[w].pc = "answered"
        BY <1>0, <1>8 DEF Send
    <2>6. handler'[w].dl = b
        BY <1>0, <1>8, <2>b DEF Send
    <2>7. \/ UNCHANGED accepted
          \/ /\ accepted' = [accepted EXCEPT ![b] = @ + 1]
             /\ handler'[w].outcome = "delivered"
        BY <1>0, <1>8, <2>b DEF Send
    <2>8. \A dl \in Deliveries : Spent(dl) => Spent(dl)'
      <3>1. \A v \in Workers, dl \in Deliveries : HoldsAck(v, dl) => HoldsAck(v, dl)'
          BY <2>1, <2>5 DEF HoldsAck, Carries
      <3>2. \A v \in Workers, dl \in Deliveries : Heads(v, dl)' => Heads(v, dl)
          BY <2>5 DEF Heads, Carries
      <3>3. QED
          BY <1>a, <2>1, <3>1, <3>2, StaysSpent
    <2>9. CASE UNCHANGED accepted
        BY <1>0, <2>1, <2>8, <2>9, AcceptedFrame
    <2>10. CASE accepted' = [accepted EXCEPT ![b] = @ + 1] /\ handler'[w].outcome = "delivered"
      <3>1. HoldsAck(w, b)'
          BY <2>5, <2>6, <2>10 DEF HoldsAck, Carries
      <3>2. Spent(b)'
          BY <3>1 DEF Spent
      <3>3. accepted'[b] <= faults + 1
          BY <1>0, <2>2, <2>4, <2>10
      <3>4. \A dl \in Deliveries : dl # b => accepted'[dl] = accepted[dl]
          BY <1>0, <2>2, <2>10
      <3>5. ASSUME NEW dl \in Deliveries
            PROVE  accepted'[dl] <= faults' + 1 /\ (accepted'[dl] <= faults' \/ Spent(dl)')
        <4>1. CASE dl = b
            BY <2>1, <3>2, <3>3, <4>1
        <4>2. CASE dl # b
            BY <1>0, <2>1, <2>8, <3>4, <4>2 DEF AcceptedOnce
        <4>3. QED
            BY <4>1, <4>2
      <3>6. QED
          BY <3>5 DEF AcceptedOnce
    <2>11. QED
        BY <2>7, <2>9, <2>10
  <1>9. ASSUME NEW w \in Workers, Settles(w) PROVE AcceptedOnce'
    <2>b. PICK b \in Deliveries : b = handler[w].dl
        BY <1>0, <1>9, Settling
    <2>1. /\ b \in Deliveries /\ Carries(w, b) /\ handler' = [handler EXCEPT ![w] = Idle]
          /\ UNCHANGED <<accepted, faults>> /\ state[b] # "none" /\ handler[w].pc = "answered"
        BY <1>9, <1>0, <2>b, Settling DEF Carries
    <2>2. \A dl \in Deliveries : dl # b => state'[dl] = state[dl]
        BY <1>0, <1>9, <2>b, Settling
    <2>3. CASE SettleDelivered(w)
      <3>1. state'[b] = "delivered"
          BY <1>0, <2>1, <2>3, <2>b DEF SettleDelivered
      <3>2. Spent(b)'
          BY <3>1 DEF Spent
      <3>3. ASSUME NEW dl \in Deliveries, Spent(dl), dl # b PROVE Spent(dl)'
        <4>1. \A v \in Workers : HoldsAck(v, dl) => HoldsAck(v, dl)'
            BY <1>c, <2>1, <2>b, <3>3 DEF HoldsAck, Carries
        <4>2. \A v \in Workers : Heads(v, dl)' => Heads(v, dl)
            BY <1>c, <2>1
        <4>3. QED
            BY <1>a, <2>2, <3>3, <4>1, <4>2, StaysSpent
      <3>4. QED
          BY <1>0, <2>1, <3>2, <3>3, AcceptedFrame
    <2>4. CASE SettleFailed(w) \/ SettleRetry(w)
      <3>1. handler[w].outcome # "delivered"
          BY <2>4 DEF SettleFailed, SettleRetry, GivesUp
      <3>2. \A v \in Workers, dl \in Deliveries : HoldsAck(v, dl) => HoldsAck(v, dl)'
          BY <1>c, <2>1, <3>1 DEF HoldsAck
      <3>3. state[b] # "delivered"
          BY <1>0, <2>1 DEF CarriedIsServed
      <3>4. \A dl \in Deliveries : state[dl] = "delivered" => state'[dl] = "delivered"
          BY <2>2, <3>3
      <3>5. QED
          BY <2>1, <3>2, <3>4, <1>b, <1>c
    <2>5. QED
        BY <1>9, <2>3, <2>4 DEF Settles
  <1>10. ASSUME NEW w \in Workers, SettleMissing(w) PROVE AcceptedOnce'
    <2>1. /\ UNCHANGED <<state, dest, accepted, faults>> /\ handler[w].pc = "answered"
          /\ handler' = [handler EXCEPT ![w] = Idle] /\ state[handler[w].dl] = "none"
        BY <1>10 DEF SettleMissing, DeadLetter
    <2>b. PICK b \in Deliveries : b = handler[w].dl
        BY <1>0, <2>1, AtWork
    <2>2. state[b] = "none" /\ Carries(w, b)
        BY <2>1, <2>b DEF Carries
    <2>3. Removed(To(b))
        BY <1>0, <2>1, <2>2 DEF CarriedIsServed
    <2>4. ASSUME NEW dl \in Deliveries, Spent(dl) PROVE Spent(dl)'
      <3>1. CASE dl = b
        <4>1. \A v \in Workers : ~Heads(v, b)'
          <5>1. ASSUME NEW v \in Workers, Heads(v, b)' PROVE FALSE
            <6>1. Heads(v, b) /\ Carries(v, b)
                BY <1>c, <2>1, <5>1 DEF Heads
            <6>2. v = w
                BY <1>0, <2>2, <6>1, SoleCarrier
            <6>3. QED
                BY <2>1, <6>1, <6>2 DEF Heads
          <5>2. QED
              BY <5>1
        <4>2. Removed(To(dl))'
            BY <1>a, <2>3, <3>1
        <4>3. QED
            BY <3>1, <4>1, <4>2 DEF Spent
      <3>2. CASE dl # b
        <4>1. \A v \in Workers : HoldsAck(v, dl) => HoldsAck(v, dl)'
            BY <1>c, <2>1, <2>b, <3>2 DEF HoldsAck, Carries
        <4>2. \A v \in Workers : Heads(v, dl)' => Heads(v, dl)
            BY <1>c, <2>1
        <4>3. QED
            BY <1>a, <2>1, <2>4, <4>1, <4>2, StaysSpent
      <3>3. QED
          BY <3>1, <3>2
    <2>5. QED
        BY <1>0, <2>1, <2>4, AcceptedFrame
  <1>11. ASSUME NEW w \in Workers, Abort(w) PROVE AcceptedOnce'
    <2>1. UNCHANGED accepted /\ faults' = faults + 1
        BY <1>11 DEF Abort, DeadLetter
    <2>2. QED
        BY <1>0, <2>1 DEF AcceptedOnce
  <1>12. ASSUME UNCHANGED <<state, handler, accepted, faults>> PROVE AcceptedOnce'
      BY <1>12, <1>b DEF HoldsAck, Heads, Carries
  <1>13. QED
      BY <1>1, <1>2, <1>3, <1>4, <1>5, <1>6, <1>7, <1>8, <1>9, <1>10, <1>11, <1>12
      DEF Next, WorkerStep, Settles, AnnounceRead, RetryRead, vars

LEMMA OnceInit == Init => OnceInv
  <1>1. Init => CarriedIsServed /\ AcceptedOnce
      BY DEF Init, CarriedIsServed, AcceptedOnce, Carries, Idle
  <1>2. QED
      BY <1>1, KeptInit DEF OnceInv

\* Deliveries are sent once: a receiver acknowledges one more often only after a handler ended
\* without settling.  The invariant is CarriedIsServed with AcceptedOnce.
THEOREM NothingIsSentTwice ==
    ASSUME OneHandlerEach
    PROVE  Spec => []DuplicatesNeedFaults
  <1>1. OnceInv /\ [Next]_vars => OnceInv'
      BY KeptStep, ServedStep, AcceptedStep DEF OnceInv
  <1>2. OnceInv => DuplicatesNeedFaults
    <2>1. OnceInv => faults \in Nat /\ \A dl \in Deliveries : accepted[dl] \in Nat
        BY DEF OnceInv, KeptInv, TypeOK
    <2>2. QED
        BY <2>1 DEF OnceInv, AcceptedOnce, DuplicatesNeedFaults
  <1>3. QED
      BY <1>1, <1>2, OnceInit, PTL DEF Spec

\* Alerts are kept: they are carried, set aside when they fail, have their parents, and are
\* sent once.
THEOREM NoAlertIsLost ==
    ASSUME OneHandlerEach
    PROVE  Spec => []AlertsAreKept
  <1>1. QED
      BY TypeCorrect, NothingIsForgotten, FailuresAreSetAside, DeliveriesHaveParents,
         NothingIsSentTwice, PTL DEF AlertsAreKept

\* A delivery that was settled as delivered stays so until its destination is removed.
THEOREM DeliveredStays ==
    ASSUME OneHandlerEach
    PROVE  Spec => DeliveredIsFinal
  <1>1. OnceInv /\ [Next]_vars => OnceInv'
      BY KeptStep, ServedStep, AcceptedStep DEF OnceInv
  <1>2. ASSUME OnceInv, [Next]_vars, NEW dl \in Deliveries, state[dl] = "delivered"
        PROVE  state'[dl] \in {"delivered", "none"}
    <2>0. /\ TypeOK /\ RowsHaveParents /\ CarriedIsServed
          /\ state \in [Deliveries -> DeliveryState]
        BY <1>2 DEF OnceInv, KeptInv, TypeOK
    <2>1. \A w \in Workers : ~Carries(w, dl)
        BY <1>2, <2>0 DEF CarriedIsServed
    <2>2. ASSUME NEW d \in Dests, Disable(d) \/ Remove(d) PROVE state'[dl] \in {"delivered", "none"}
        BY <1>2, <2>2 DEF Disable, Remove
    <2>3. ASSUME NEW a \in Announcers, AnnounceCommit(a) PROVE state'[dl] = "delivered"
      <3>1. dl[1] \in notified
          BY <1>2, <2>0 DEF RowsHaveParents
      <3>2. AnnounceFits(a) => dl \notin Announced(a)
          BY <3>1 DEF AnnounceFits, Announced
      <3>3. QED
          BY <1>2, <2>3, <3>2 DEF AnnounceCommit
    <2>4. ASSUME NEW b \in Deliveries, RetryCommit(b) \/ Dismiss(b) PROVE state'[dl] = "delivered"
        BY <1>2, <2>0, <2>4 DEF RetryCommit, Dismiss
    <2>5. ASSUME NEW w \in Workers, SettleOff(w) PROVE state'[dl] = "delivered"
        BY <1>2, <2>0, <2>1, <2>5 DEF SettleOff, WithState, Carries
    <2>6. ASSUME NEW w \in Workers, Settles(w) PROVE state'[dl] = "delivered"
        BY <1>2, <2>0, <2>1, <2>6, Settling DEF Carries
    <2>7. UNCHANGED state => state'[dl] = "delivered"
        BY <1>2
    <2>8. QED
        BY <1>2, <2>2, <2>3, <2>4, <2>5, <2>6, <2>7
        DEF Next, WorkerStep, Settles, Create, Enable, AnnounceRead, RetryRead, Take, Look, Send,
            SettleMissing, Abort, DeadLetter, vars
  <1>3. OnceInv /\ [Next]_vars => [\A dl \in Deliveries :
            state[dl] = "delivered" => state'[dl] \in {"delivered", "none"}]_vars
      BY <1>2
  <1>4. QED
      BY <1>1, <1>3, OnceInit, PTL DEF Spec, DeliveredIsFinal
=============================================================================
