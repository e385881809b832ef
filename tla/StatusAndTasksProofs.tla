------------------------ MODULE StatusAndTasksProofs ------------------------
(***************************************************************************)
(* Proofs about StatusIncidents, for any number of handlers, lines,        *)
(* incidents and tries, and about TaskEditor, for any number of pages,     *)
(* tasks, keystrokes and lost requests.  Both work on lists of any length, *)
(* a member at a time: each loop has a lemma that says what every round    *)
(* keeps.                                                                  *)
(***************************************************************************)
EXTENDS StatusIncidents, TaskEditor, Loops

-----------------------------------------------------------------------------
(* The journal's lines become changes (changesFromSignals).                 *)

\* The state the bot is taken to be in after the changes.
After(seen, changes) == IF changes = <<>> THEN seen ELSE changes[Len(changes)].state

\* What a line says of the state.
Agrees(state, kind) == state = Turn[kind] \/ (kind = "lost" /\ state = "down")

\* Each change is recorded as an event of its kind and happened by now.
EventFits(ch, now) ==
    /\ ch.state = "joined" <=> ch.event \in {"joined", "reconnected"}
    /\ ch.state = "interrupted" <=> ch.event = "lost"
    /\ ch.at <= now
EventsFit(changes, now) == \A n \in DOMAIN changes : EventFits(changes[n], now)

\* Only a bot that was there is lost.
Chained(seen, changes) ==
    \A n \in DOMAIN changes : changes[n].state = "interrupted" =>
        IF n = 1 THEN seen \in {"joined", "unknown"} ELSE changes[n - 1].state = "joined"

Seen == State \cup {"unknown"}
Follower == [state : Seen, changes : Seq(Change)]
Follows(acc, seen, now) ==
    acc.state = After(seen, acc.changes) /\ EventsFit(acc.changes, now) /\ Chained(seen, acc.changes)

\* One line followed.
LEMMA LineFollowed ==
    ASSUME NEW seen \in Seen, NEW now \in Nat, NEW acc \in Follower, Follows(acc, seen, now),
           NEW s \in Signal, s.at <= now
    PROVE  LET next == Followed(acc, s)
           IN  next \in Follower /\ Follows(next, seen, now) /\ Agrees(next.state, s.kind)
  <1> DEFINE change == [state |-> Turn[s.kind], at |-> s.at, event |-> EventOf(acc.state, s.kind)]
             next == Followed(acc, s)
  <1>1. /\ s.kind \in {"joined", "lost", "stopped"} /\ s.at \in Time
        /\ acc.state \in Seen /\ acc.changes \in Seq(Change)
      BY DEF Signal, Follower
  <1>2. Turn[s.kind] \in State /\ Turn[s.kind] = CASE s.kind = "joined" -> "joined"
                                                    [] s.kind = "lost" -> "interrupted"
                                                    [] s.kind = "stopped" -> "down"
      BY <1>1 DEF Turn, State
  <1>3. CASE SaysNothing(acc.state, s.kind)
      BY <1>3 DEF Followed, SaysNothing, Agrees
  <1>4. CASE ~SaysNothing(acc.state, s.kind)
    <2>1. next = [state |-> Turn[s.kind], changes |-> Append(acc.changes, change)]
        BY <1>4 DEF Followed
    <2>2. change \in Change /\ EventFits(change, now)
        BY <1>1, <1>2 DEF Change, EventKind, EventOf, EventFits
    <2>3. /\ next \in Follower /\ next.state = Turn[s.kind]
          /\ Len(next.changes) = Len(acc.changes) + 1 /\ next.changes # <<>>
          /\ DOMAIN next.changes = 1..(Len(acc.changes) + 1)
          /\ next.changes[Len(acc.changes) + 1] = change
          /\ \A n \in 1..Len(acc.changes) : next.changes[n] = acc.changes[n]
        BY <1>1, <1>2, <2>1, <2>2 DEF Follower, Seen
    <2> HIDE DEF next
    <2>4. next.state = After(seen, next.changes)
        BY <1>1, <2>3 DEF After
    <2>5. EventsFit(next.changes, now)
      <3>1. SUFFICES ASSUME NEW n \in DOMAIN next.changes PROVE EventFits(next.changes[n], now)
          BY DEF EventsFit
      <3>2. CASE n \in 1..Len(acc.changes)
          BY <1>1, <2>3, <3>2 DEF Follows, EventsFit
      <3>3. CASE n = Len(acc.changes) + 1
          BY <2>2, <2>3, <3>3
      <3>4. QED
          BY <1>1, <2>3, <3>2, <3>3
    <2>6. Chained(seen, next.changes)
      <3>1. SUFFICES ASSUME NEW n \in DOMAIN next.changes, next.changes[n].state = "interrupted"
                     PROVE  IF n = 1 THEN seen \in {"joined", "unknown"}
                            ELSE next.changes[n - 1].state = "joined"
          BY DEF Chained
      <3>2. CASE n \in 1..Len(acc.changes)
        <4>1. n \in DOMAIN acc.changes /\ acc.changes[n].state = "interrupted"
            BY <1>1, <2>3, <3>1, <3>2
        <4>2. n # 1 => n - 1 \in 1..Len(acc.changes)
            BY <1>1, <3>2
        <4>3. QED
            BY <2>3, <4>1, <4>2 DEF Follows, Chained
      <3>3. CASE n = Len(acc.changes) + 1
        <4>1. s.kind = "lost" /\ acc.state \in {"joined", "unknown"}
            BY <1>1, <1>2, <1>4, <2>3, <3>1, <3>3 DEF SaysNothing, Seen, State
        <4>2. CASE acc.changes = <<>>
            BY <4>1, <4>2, <3>3 DEF Follows, After
        <4>3. CASE acc.changes # <<>>
          <5>1. Len(acc.changes) \in Nat \ {0}
              BY <1>1, <4>3, EmptySeq
          <5>2. acc.changes[Len(acc.changes)] \in Change
              BY <1>1, <5>1
          <5>3. acc.state = "joined"
              BY <4>1, <4>3, <5>2 DEF Follows, After, Change, State
          <5>4. QED
              BY <2>3, <3>3, <4>3, <5>1, <5>3 DEF Follows, After
        <4>4. QED
            BY <4>2, <4>3
      <3>4. QED
          BY <1>1, <2>3, <3>1, <3>2, <3>3
    <2>7. Agrees(next.state, s.kind)
        BY <2>3 DEF Agrees
    <2>8. QED
        BY <2>3, <2>4, <2>5, <2>6, <2>7 DEF Follows, next
  <1>5. QED
      BY <1>3, <1>4

\* LoopHasResults, for followers.
LEMMA FollowerLoop ==
    ASSUME NEW base \in Follower, NEW N \in Nat, NEW round \in [1..N -> [Follower -> Follower]]
    PROVE  \E f \in [0..N -> Follower] : f[0] = base /\ \A n \in 1..N : f[n] = round[n][f[n - 1]]
  BY LoopHasResults

\* Following is what its definition says, line by line.
LEMMA LinesFollowed ==
    ASSUME NEW seen \in Seen, NEW signals \in Seq(Signal)
    PROVE  LET f == Following(seen, signals)
           IN  /\ f[0] = [state |-> seen, changes |-> <<>>]
               /\ \A n \in 1..Len(signals) : f[n] = Followed(f[n - 1], signals[n])
  <1> DEFINE N == Len(signals)
             base == [state |-> seen, changes |-> <<>>]
             round == [n \in 1..N |-> [acc \in Follower |-> Followed(acc, signals[n])]]
             Equation(f) == [n \in 0..N |-> IF n = 0 THEN base ELSE Followed(f[n - 1], signals[n])]
  <1>1. N \in Nat /\ base \in Follower
      BY DEF Follower
  <1>2. ASSUME NEW acc \in Follower, NEW s \in Signal PROVE Followed(acc, s) \in Follower
    <2>1. Turn[s.kind] \in State /\ EventOf(acc.state, s.kind) \in EventKind
        BY DEF Signal, Turn, State, EventOf, EventKind
    <2>2. [state |-> Turn[s.kind], at |-> s.at, event |-> EventOf(acc.state, s.kind)] \in Change
        BY <2>1 DEF Change, Signal
    <2>3. QED
        BY <2>1, <2>2 DEF Followed, Follower, Seen
  <1>3. \A n \in 1..N : signals[n] \in Signal
      BY ElementOfSeq
  <1> HIDE DEF base, N
  <1>4. round \in [1..N -> [Follower -> Follower]]
      BY <1>2, <1>3
  <1>5. \A n \in 1..N, acc \in Follower : round[n][acc] = Followed(acc, signals[n])
      OBVIOUS
  <1> HIDE DEF round
  <1>6. PICK f \in [0..N -> Follower] : f[0] = base /\ \A n \in 1..N : f[n] = round[n][f[n - 1]]
    <2> HIDE DEF Equation
    <2>1. QED
        BY <1>1, <1>4, FollowerLoop
  <1>7. f = Equation(f)
    <2>1. \A n \in 1..N : n - 1 \in 0..N
        BY <1>1
    <2>2. \A n \in 0..N : f[n] = IF n = 0 THEN base ELSE Followed(f[n - 1], signals[n])
        BY <1>1, <1>5, <1>6, <2>1
    <2>3. QED
        BY <1>6, <2>2
  <1>8. Following(seen, signals) = CHOOSE g : g = Equation(g)
      BY DEF Following, base, N
  <1>9. Following(seen, signals) = Equation(Following(seen, signals))
    <2> HIDE DEF Equation
    <2>1. QED
        BY <1>7, <1>8
  <1>10. QED
      BY <1>1, <1>9 DEF base, N

\* What a poll makes of the lines it has judged.
LEMMA ChangesFollow ==
    ASSUME NEW seen \in Seen, NEW now \in Nat, NEW signals \in Seq(Signal),
           \A n \in 1..Len(signals) : signals[n].at <= now
    PROVE  LET changes == ChangesFromSignals(seen, signals)
           IN  /\ changes \in Seq(Change) /\ EventsFit(changes, now) /\ Chained(seen, changes)
               /\ signals # <<>> => Agrees(After(seen, changes), signals[Len(signals)].kind)
  <1> DEFINE N == Len(signals)
             f == Following(seen, signals)
             S == {n \in Nat : n <= N =>
                      /\ f[n] \in Follower /\ Follows(f[n], seen, now)
                      /\ n # 0 => Agrees(f[n].state, signals[n].kind)}
  <1>1. N \in Nat /\ \A n \in 1..N : signals[n] \in Signal
      BY ElementOfSeq
  <1>2. f[0] = [state |-> seen, changes |-> <<>>] /\ \A n \in 1..N : f[n] = Followed(f[n - 1], signals[n])
      BY LinesFollowed
  <1> HIDE DEF N, f
  <1>3. 0 \in S
    <2>1. f[0].state = seen /\ f[0].changes = <<>> /\ f[0] \in Follower
        BY <1>2 DEF Follower
    <2>2. EventsFit(<<>>, now) /\ Chained(seen, <<>>)
        BY DEF EventsFit, Chained
    <2>3. QED
        BY <2>1, <2>2 DEF Follows, After
  <1>4. ASSUME NEW m \in Nat, m \in S PROVE m + 1 \in S
    <2>1. SUFFICES ASSUME m + 1 <= N
                   PROVE  /\ f[m + 1] \in Follower /\ Follows(f[m + 1], seen, now)
                          /\ Agrees(f[m + 1].state, signals[m + 1].kind)
        OBVIOUS
    <2>2. f[m] \in Follower /\ Follows(f[m], seen, now)
        BY <1>1, <1>4, <2>1
    <2>3. m + 1 \in 1..N /\ (m + 1) - 1 = m
        BY <1>1, <2>1
    <2>4. f[m + 1] = Followed(f[m], signals[m + 1]) /\ signals[m + 1] \in Signal /\ signals[m + 1].at <= now
        BY <1>1, <1>2, <2>3 DEF N
    <2>5. QED
        BY <2>2, <2>4, LineFollowed
  <1>5. N \in S
    <2> HIDE DEF S
    <2>1. QED
        BY <1>1, <1>3, <1>4, EveryNumber
  <1>6. /\ f[N] \in Follower /\ Follows(f[N], seen, now)
        /\ N # 0 => Agrees(f[N].state, signals[N].kind)
      BY <1>1, <1>5
  <1>7. ChangesFromSignals(seen, signals) = f[N].changes
      BY DEF ChangesFromSignals, f, N
  <1>8. signals # <<>> => N # 0
      BY EmptySeq DEF N
  <1>9. QED
      BY <1>6, <1>7, <1>8 DEF Follower, Follows, N

-----------------------------------------------------------------------------
(* One round of the transaction (recordInstanceConnection).  A ledger is a  *)
(* database whose incidents are not bounded: what the transaction sees      *)
(* between two of its rounds.                                               *)
AnyAlert == [kind : {"disconnected", "reconnected", "flapping"},
             incident : Nat, at : Time \cup {None}]
AnyCondition == [state : State \cup {"none"}, since : Time \cup {None},
                 incident : Nat, flapped : Time \cup {None}]
Ledger == [cond : AnyCondition, interval : State \cup {"none"},
           events : SUBSET ((EventKind \X Time) \cup ({"escalate"} \X (Nat \ {0}))),
           alerts : Seq(AnyAlert), jobs : [Incident -> Job], incidents : Nat,
           cursor : 0..MaxSignals]

\* The incidents that were opened are those up to the count.
Numbered(d) ==
    /\ d.cond.incident <= d.incidents
    /\ \A i \in Nat : <<"escalate", i>> \in d.events => i <= d.incidents
    /\ \A i \in Incident : d.jobs[i].status # "none" => i <= d.incidents
    /\ \A k \in DOMAIN d.alerts : d.alerts[k].incident <= d.incidents

\* Who was told of the incident that is open hears of its recovery.
Told(d) ==
    /\ \A k \in DOMAIN d.alerts : d.alerts[k].kind = "reconnected" =>
          \E j \in 1..(k - 1) :
              /\ d.alerts[j].kind = "disconnected"
              /\ \A m \in (j + 1)..(k - 1) : d.alerts[m].kind # "reconnected"
    /\ d.cond.incident # None =>
          \A j, k \in DOMAIN d.alerts :
              /\ j < k /\ d.alerts[j].kind = "disconnected" /\ d.alerts[k].kind = "reconnected"
              /\ d.alerts[j].incident = d.cond.incident
              => d.alerts[k].incident = d.cond.incident

\* The condition keeps when the bot was last said to flap.
Cooled(d) ==
    /\ \A k \in DOMAIN d.alerts : d.alerts[k].kind = "flapping" =>
          d.alerts[k].at \in Time /\ d.cond.flapped \in Time /\ d.alerts[k].at <= d.cond.flapped
    /\ \A j, k \in DOMAIN d.alerts :
          /\ j < k /\ d.alerts[j].kind = "flapping" /\ d.alerts[k].kind = "flapping"
          => d.alerts[j].at + FlapWindow <= d.alerts[k].at

\* A bot that was never read afresh: an incident is open from the loss to the
\* return, and its job will look at it when its grace period is over.
Watched(d) ==
    /\ d.interval = d.cond.state
    /\ d.cond.state \in {"joined", "none"} => d.cond.incident = None
    /\ d.cond.state = "interrupted" =>
          /\ d.cond.incident # None /\ <<"escalate", d.cond.incident>> \notin d.events
          /\ d.incidents <= MaxIncidents =>
                /\ d.jobs[d.cond.incident].status \in {"queued", "active", "dead"}
                /\ d.jobs[d.cond.incident].due >= d.cond.since + Grace

\* What one round writes.
LEMMA RoundWrites ==
    ASSUME clock \in 1..Horizon, NEW d \in Ledger, NEW ch \in Change, NEW tell \in BOOLEAN
    PROVE  LET e == RecordChange(d, ch, tell)
               due == [status |-> "queued", due |-> EscalationDue, tries |-> 0]
           IN  /\ e \in Ledger /\ e.cursor = d.cursor
               /\ e.interval = ch.state /\ e.cond.state = ch.state
               /\ e.cond.incident = NextIncident(d, ch)
               /\ e.cond.since = IF ch.state = "joined" THEN None ELSE ch.at
               /\ e.incidents = IF NextIncident(d, ch) > d.incidents THEN NextIncident(d, ch) ELSE d.incidents
               /\ \A i \in Incident :
                     e.jobs[i] = IF i = NextIncident(d, ch) /\ NextIncident(d, ch) > d.incidents
                                   THEN due ELSE d.jobs[i]
               /\ \A i : <<"escalate", i>> \in e.events <=> <<"escalate", i>> \in d.events
  <1> DEFINE key == <<ch.event, ch.at>>
             incident == NextIncident(d, ch)
             opened == incident > d.incidents
             e == RecordChange(d, ch, tell)
             due == [status |-> "queued", due |-> EscalationDue, tries |-> 0]
             recovery == IF tell /\ key \notin d.events
                           THEN <<[kind |-> "reconnected", incident |-> d.cond.incident, at |-> None]>>
                           ELSE <<>>
             flapping == IF Flaps(d, ch)
                           THEN <<[kind |-> "flapping", incident |-> None, at |-> ch.at]>> ELSE <<>>
             jobs == IF opened THEN [d.jobs EXCEPT ![incident] = due] ELSE d.jobs
             cond == [state |-> ch.state, incident |-> incident,
                      since |-> IF ch.state = "joined" THEN None ELSE ch.at,
                      flapped |-> IF Flaps(d, ch) THEN ch.at ELSE d.cond.flapped]
  <1>1. /\ d.cond.incident \in Nat /\ d.incidents \in Nat /\ d.cond.flapped \in Time \cup {None}
        /\ d.jobs \in [Incident -> Job] /\ d.alerts \in Seq(AnyAlert)
        /\ d.events \subseteq (EventKind \X Time) \cup ({"escalate"} \X (Nat \ {0}))
        /\ ch.state \in State /\ ch.at \in Time /\ ch.event \in EventKind
        /\ d.cursor \in 0..MaxSignals
      BY DEF Ledger, AnyCondition, Change
  <1>2. incident \in Nat
      BY <1>1 DEF NextIncident, None
  <1>3. due \in Job
      BY TimesAssumption, CountsAssumption DEF Job, EscalationDue, Time
  <1>4. jobs \in [Incident -> Job] /\ \A i \in Incident : jobs[i] = IF i = incident /\ opened THEN due ELSE d.jobs[i]
    <2> HIDE DEF due, incident
    <2>1. QED
        BY <1>1, <1>2, <1>3
  <1>5. cond \in AnyCondition
    <2> HIDE DEF incident
    <2>1. QED
        BY <1>1, <1>2 DEF AnyCondition
  <1>6. recovery \in Seq(AnyAlert) /\ flapping \in Seq(AnyAlert)
    <2>1. [kind |-> "reconnected", incident |-> d.cond.incident, at |-> None] \in AnyAlert
        BY <1>1 DEF AnyAlert
    <2>2. [kind |-> "flapping", incident |-> None, at |-> ch.at] \in AnyAlert
        BY <1>1 DEF AnyAlert, None
    <2>3. QED
        BY <2>1, <2>2
  <1>7. d.alerts \o recovery \o flapping \in Seq(AnyAlert)
    <2> HIDE DEF recovery, flapping
    <2>1. QED
        BY <1>1, <1>6, ConcatProperties
  <1>8. /\ key \in EventKind \X Time /\ d.events \cup {key} \subseteq (EventKind \X Time) \cup ({"escalate"} \X (Nat \ {0}))
        /\ \A i : <<"escalate", i>> \in d.events \cup {key} <=> <<"escalate", i>> \in d.events
      BY <1>1 DEF EventKind
  <1>9. e = [d EXCEPT !.events = d.events \cup {key}, !.alerts = d.alerts \o recovery \o flapping,
                      !.incidents = IF opened THEN incident ELSE d.incidents,
                      !.jobs = jobs, !.interval = ch.state, !.cond = cond]
      BY DEF RecordChange
  <1> HIDE DEF key, incident, opened, due, recovery, flapping, jobs, e
  <1>10. DOMAIN d = {"cond", "interval", "events", "alerts", "jobs", "incidents", "cursor"}
      BY DEF Ledger
  <1>11. /\ e.events = d.events \cup {key} /\ e.alerts = d.alerts \o recovery \o flapping
         /\ e.incidents = IF opened THEN incident ELSE d.incidents
         /\ e.jobs = jobs /\ e.interval = ch.state /\ e.cond = cond /\ e.cursor = d.cursor
      BY <1>9, <1>10
  <1>12. e \in Ledger
    <2>1. e = [cond |-> cond, interval |-> ch.state, events |-> d.events \cup {key},
               alerts |-> d.alerts \o recovery \o flapping, jobs |-> jobs,
               incidents |-> IF opened THEN incident ELSE d.incidents, cursor |-> d.cursor]
        BY <1>9, <1>10 DEF Ledger
    <2> HIDE DEF cond
    <2>2. QED
        BY <1>1, <1>2, <1>4, <1>5, <1>7, <1>8, <2>1 DEF Ledger
  <1>13. QED
      BY <1>4, <1>8, <1>11, <1>12 DEF e, due, incident, opened

\* The alerts one round writes come after the others: at most one recovery,
\* then at most one of flapping.
LEMMA RoundTells ==
    ASSUME clock \in 1..Horizon, NEW d \in Ledger, NEW ch \in Change, NEW tell \in BOOLEAN
    PROVE  LET e == RecordChange(d, ch, tell)
               old == Len(d.alerts)
           IN  /\ Len(e.alerts) >= old
               /\ \A k \in 1..old : e.alerts[k] = d.alerts[k]
               /\ e.cond.flapped = d.cond.flapped \/ (e.cond.flapped = ch.at /\ MayFlap(d, ch.at))
               /\ \A k \in (old + 1)..Len(e.alerts) :
                     \/ /\ k = old + 1 /\ tell
                        /\ e.alerts[k] = [kind |-> "reconnected", incident |-> d.cond.incident, at |-> None]
                     \/ /\ k = Len(e.alerts) /\ MayFlap(d, ch.at) /\ e.cond.flapped = ch.at
                        /\ e.alerts[k] = [kind |-> "flapping", incident |-> None, at |-> ch.at]
  <1> DEFINE key == <<ch.event, ch.at>>
             e == RecordChange(d, ch, tell)
             said == [kind |-> "reconnected", incident |-> d.cond.incident, at |-> None]
             flap == [kind |-> "flapping", incident |-> None, at |-> ch.at]
             recovery == IF tell /\ key \notin d.events THEN <<said>> ELSE <<>>
             flapping == IF Flaps(d, ch) THEN <<flap>> ELSE <<>>
             old == Len(d.alerts)
  <1>1. /\ e.alerts = d.alerts \o recovery \o flapping
        /\ e.cond.flapped = IF Flaps(d, ch) THEN ch.at ELSE d.cond.flapped
      BY DEF RecordChange, Ledger
  <1>2. d.alerts \in Seq(AnyAlert) /\ old \in Nat
      BY DEF Ledger
  <1>3. said \in AnyAlert /\ flap \in AnyAlert
      BY DEF AnyAlert, Ledger, AnyCondition, Change, None
  <1>4. Flaps(d, ch) => MayFlap(d, ch.at)
      BY DEF Flaps
  <1> HIDE DEF e, said, flap, key
  <1>5. recovery \in Seq(AnyAlert) /\ flapping \in Seq(AnyAlert)
      BY <1>3
  <1> DEFINE half == d.alerts \o recovery
  <1> HIDE DEF recovery, flapping
  <1>6. /\ half \in Seq(AnyAlert) /\ Len(half) \in Nat /\ Len(half) = old + Len(recovery)
        /\ \A k \in 1..Len(half) : half[k] = IF k <= old THEN d.alerts[k] ELSE recovery[k - old]
      BY <1>2, <1>5, ConcatProperties
  <1>7. /\ Len(e.alerts) = Len(half) + Len(flapping)
        /\ \A k \in 1..Len(e.alerts) :
              e.alerts[k] = IF k <= Len(half) THEN half[k] ELSE flapping[k - Len(half)]
      BY <1>1, <1>5, <1>6, ConcatProperties
  <1>8. /\ Len(recovery) = IF tell /\ key \notin d.events THEN 1 ELSE 0
        /\ Len(flapping) = IF Flaps(d, ch) THEN 1 ELSE 0
        /\ (tell /\ key \notin d.events) => recovery[1] = said
        /\ Flaps(d, ch) => flapping[1] = flap
      BY DEF recovery, flapping
  <1> HIDE DEF half, old
  <1>9. Len(e.alerts) >= old /\ \A k \in 1..old : e.alerts[k] = d.alerts[k]
      BY <1>2, <1>6, <1>7, <1>8
  <1>10. ASSUME NEW k \in (old + 1)..Len(e.alerts)
         PROVE  \/ k = old + 1 /\ tell /\ e.alerts[k] = said
                \/ k = Len(e.alerts) /\ Flaps(d, ch) /\ e.alerts[k] = flap
    <2>1. k \in 1..Len(e.alerts) /\ k > old
        BY <1>2, <1>10
    <2>2. CASE k <= Len(half)
        BY <1>2, <1>6, <1>7, <1>8, <2>1, <2>2
    <2>3. CASE k > Len(half)
      <3>1. Len(flapping) = 1 /\ k = Len(half) + 1 /\ Flaps(d, ch)
          BY <1>6, <1>7, <1>8, <2>1, <2>3
      <3>2. k - Len(half) = 1
          BY <1>6, <3>1
      <3>3. QED
          BY <1>6, <1>7, <1>8, <2>1, <2>3, <3>1, <3>2
    <2>4. QED
        BY <1>2, <1>6, <1>8, <2>1, <2>2, <2>3
  <1>11. QED
      BY <1>1, <1>4, <1>9, <1>10 DEF e, said, flap, old

\* What stays of a database after some rounds.
Grown(d, e) ==
    /\ d.incidents <= e.incidents /\ e.cursor = d.cursor
    /\ \A i \in Incident : i <= d.incidents => e.jobs[i] = d.jobs[i]
    /\ \A k \in DOMAIN e.alerts : e.alerts[k].kind = "disconnected" =>
          k \in DOMAIN d.alerts /\ e.alerts[k] = d.alerts[k]

\* The incidents stay numbered.
LEMMA RoundNumbers ==
    ASSUME clock \in 1..Horizon, NEW d \in Ledger, NEW ch \in Change, NEW tell \in BOOLEAN, Numbered(d)
    PROVE  LET e == RecordChange(d, ch, tell) IN Numbered(e) /\ Grown(d, e)
  <1> DEFINE e == RecordChange(d, ch, tell)
             next == NextIncident(d, ch)
             old == Len(d.alerts)
  <1>1. /\ d.cond.incident \in Nat /\ d.incidents \in Nat /\ d.alerts \in Seq(AnyAlert) /\ old \in Nat
        /\ DOMAIN d.alerts = 1..old
      BY DEF Ledger, AnyCondition
  <1>2. next \in Nat /\ next \in {None, d.incidents + 1, d.cond.incident}
      BY <1>1 DEF NextIncident, None
  <1>3. /\ e \in Ledger /\ e.cursor = d.cursor /\ e.cond.incident = next
        /\ e.incidents = IF next > d.incidents THEN next ELSE d.incidents
        /\ \A i \in Incident : i <= d.incidents => e.jobs[i] = d.jobs[i]
        /\ \A i \in Incident : e.jobs[i] = d.jobs[i] \/ i = next
        /\ \A i : <<"escalate", i>> \in e.events <=> <<"escalate", i>> \in d.events
    <2>1. Incident \subseteq Nat
        BY CountsAssumption DEF Incident
    <2> HIDE DEF next
    <2>2. QED
        BY <1>1, <1>2, <2>1, RoundWrites DEF next
  <1>4. /\ \A k \in 1..old : e.alerts[k] = d.alerts[k]
        /\ Len(e.alerts) \in Nat /\ Len(e.alerts) >= old /\ DOMAIN e.alerts = 1..Len(e.alerts)
        /\ \A k \in (old + 1)..Len(e.alerts) :
              e.alerts[k].kind # "disconnected" /\ e.alerts[k].incident \in {None, d.cond.incident}
    <2>1. e.alerts \in Seq(AnyAlert)
        BY <1>3 DEF Ledger
    <2> HIDE DEF e
    <2>2. /\ Len(e.alerts) >= old
          /\ \A k \in 1..old : e.alerts[k] = d.alerts[k]
          /\ \A k \in (old + 1)..Len(e.alerts) :
                \/ e.alerts[k] = [kind |-> "reconnected", incident |-> d.cond.incident, at |-> None]
                \/ e.alerts[k] = [kind |-> "flapping", incident |-> None, at |-> ch.at]
        BY RoundTells DEF e
    <2>3. QED
        BY <1>1, <2>1, <2>2
  <1>5. d.incidents <= e.incidents /\ next <= e.incidents /\ e.incidents \in Nat
      BY <1>1, <1>2, <1>3
  <1> HIDE DEF e, next, old
  <1>6. \A k \in DOMAIN e.alerts : e.alerts[k].incident <= e.incidents
    <2>1. TAKE k \in DOMAIN e.alerts
    <2>2. CASE k \in 1..old
      <3>1. e.alerts[k] = d.alerts[k] /\ d.alerts[k].incident <= d.incidents
          BY <1>1, <1>4, <2>2 DEF Numbered
      <3>2. d.alerts[k].incident \in Nat
        <4>1. d.alerts[k] \in AnyAlert
            BY <1>1, <2>2
        <4>2. QED
            BY <4>1 DEF AnyAlert
      <3>3. QED
          BY <1>1, <1>5, <3>1, <3>2
    <2>3. CASE k \in (old + 1)..Len(e.alerts)
      <3>1. e.alerts[k].incident = 0 \/ e.alerts[k].incident = d.cond.incident
          BY <1>4, <2>3 DEF None
      <3>2. d.cond.incident <= d.incidents
          BY DEF Numbered
      <3>3. QED
          BY <1>1, <1>5, <3>1, <3>2
    <2>4. k \in 1..old \/ k \in (old + 1)..Len(e.alerts)
        BY <1>1, <1>4, <2>1
    <2>5. QED
        BY <2>2, <2>3, <2>4
  <1>7. \A i \in Nat : <<"escalate", i>> \in e.events => i <= e.incidents
      BY <1>1, <1>3, <1>5 DEF Numbered
  <1>8. \A i \in Incident : e.jobs[i].status # "none" => i <= e.incidents
    <2>1. Incident \subseteq Nat
        BY CountsAssumption DEF Incident
    <2>2. QED
        BY <1>1, <1>3, <1>5, <2>1 DEF Numbered
  <1>9. Numbered(e)
      BY <1>3, <1>5, <1>6, <1>7, <1>8 DEF Numbered
  <1>10. \A k \in DOMAIN e.alerts : e.alerts[k].kind = "disconnected" =>
             k \in DOMAIN d.alerts /\ e.alerts[k] = d.alerts[k]
      BY <1>1, <1>4
  <1>11. Grown(d, e)
      BY <1>3, <1>5, <1>10 DEF Grown
  <1>12. QED
      BY <1>9, <1>11 DEF e

\* Recoveries follow problems, and flapping keeps its distance.
LEMMA RoundAnnounces ==
    ASSUME clock \in 1..Horizon, NEW d \in Ledger, NEW ch \in Change, NEW tell \in BOOLEAN,
           Numbered(d), Told(d), Cooled(d), EventFits(ch, clock), tell => WorthAnnouncing(d, ch)
    PROVE  LET e == RecordChange(d, ch, tell) IN Told(e) /\ Cooled(e)
  <1> DEFINE e == RecordChange(d, ch, tell)
             old == Len(d.alerts)
  <1>1. /\ d.cond.incident \in Nat /\ d.incidents \in Nat /\ d.alerts \in Seq(AnyAlert) /\ old \in Nat
        /\ DOMAIN d.alerts = 1..old /\ d.cond.flapped \in Time \cup {None}
        /\ ch.at \in Time /\ ch.state \in State
      BY DEF Ledger, AnyCondition, Change
  <1>2. Time \subseteq Nat /\ None \notin Time
      BY TimesAssumption DEF Time, None
  <1>3. e \in Ledger /\ e.cond.incident = NextIncident(d, ch)
      BY RoundWrites
  <1>4. /\ \A k \in 1..old : e.alerts[k] = d.alerts[k]
        /\ Len(e.alerts) \in Nat /\ Len(e.alerts) >= old /\ DOMAIN e.alerts = 1..Len(e.alerts)
        /\ e.cond.flapped = d.cond.flapped \/ (e.cond.flapped = ch.at /\ MayFlap(d, ch.at))
        /\ \A k \in (old + 1)..Len(e.alerts) :
              \/ /\ k = old + 1 /\ tell
                 /\ e.alerts[k] = [kind |-> "reconnected", incident |-> d.cond.incident, at |-> None]
              \/ /\ k = Len(e.alerts) /\ MayFlap(d, ch.at) /\ e.cond.flapped = ch.at
                 /\ e.alerts[k] = [kind |-> "flapping", incident |-> None, at |-> ch.at]
    <2>1. e.alerts \in Seq(AnyAlert)
        BY <1>3 DEF Ledger
    <2> HIDE DEF e
    <2>2. QED
        BY <1>1, <2>1, RoundTells DEF e
  <1> HIDE DEF e, old
  <1>5. ASSUME tell
        PROVE  /\ ch.state = "joined"
               /\ \E j \in 1..old : /\ d.alerts[j].kind = "disconnected"
                                    /\ \A m \in (j + 1)..old : d.alerts[m].kind # "reconnected"
    <2> DEFINE among == {k \in 1..old : /\ d.alerts[k].kind # "flapping"
                                        /\ d.cond.incident \in {None, d.alerts[k].incident}}
    <2>1. ch.event = "reconnected"
        BY <1>5 DEF WorthAnnouncing
    <2>2. PICK j \in among : d.alerts[j].kind = "disconnected" /\ \A m \in among : m <= j
        BY <1>1, <1>5 DEF WorthAnnouncing, LastAnnounced
    <2>3. ASSUME NEW m \in (j + 1)..old, d.alerts[m].kind = "reconnected" PROVE FALSE
      <3>1. m \in 1..old /\ j \in 1..old /\ j < m
          BY <1>1, <2>2, <2>3
      <3>2. CASE d.cond.incident = None
          BY <2>2, <2>3, <3>1, <3>2
      <3>3. CASE d.cond.incident # None
        <4>1. d.alerts[j].incident = d.cond.incident
            BY <2>2, <3>3
        <4>2. d.alerts[m].incident = d.cond.incident
            BY <1>1, <2>2, <2>3, <3>1, <3>3, <4>1 DEF Told
        <4>3. m \in among
            BY <2>3, <3>1, <4>2
        <4>4. QED
            BY <2>2, <3>1, <4>3
      <3>4. QED
          BY <3>2, <3>3
    <2>4. QED
        BY <2>1, <2>2, <2>3 DEF EventFits
  <1>6. \A k \in DOMAIN e.alerts : e.alerts[k].kind = "reconnected" =>
            \E j \in 1..(k - 1) :
                /\ e.alerts[j].kind = "disconnected"
                /\ \A m \in (j + 1)..(k - 1) : e.alerts[m].kind # "reconnected"
    <2>1. SUFFICES ASSUME NEW k \in DOMAIN e.alerts, e.alerts[k].kind = "reconnected"
                   PROVE  \E j \in 1..(k - 1) :
                              /\ e.alerts[j].kind = "disconnected"
                              /\ \A m \in (j + 1)..(k - 1) : e.alerts[m].kind # "reconnected"
        OBVIOUS
    <2>2. CASE k \in 1..old
      <3>1. d.alerts[k].kind = "reconnected"
          BY <1>4, <2>1, <2>2
      <3>2. PICK j \in 1..(k - 1) : /\ d.alerts[j].kind = "disconnected"
                                    /\ \A m \in (j + 1)..(k - 1) : d.alerts[m].kind # "reconnected"
          BY <1>1, <2>2, <3>1 DEF Told
      <3>3. \A m \in 1..(k - 1) : e.alerts[m] = d.alerts[m]
          BY <1>1, <1>4, <2>2
      <3>4. \A m \in (j + 1)..(k - 1) : m \in 1..(k - 1)
          BY <1>1, <2>2, <3>2
      <3>5. QED
          BY <3>2, <3>3, <3>4
    <2>3. CASE k \in (old + 1)..Len(e.alerts)
      <3>1. k = old + 1 /\ tell
          BY <1>4, <2>1, <2>3
      <3>2. PICK j \in 1..old : /\ d.alerts[j].kind = "disconnected"
                                /\ \A m \in (j + 1)..old : d.alerts[m].kind # "reconnected"
          BY <1>5, <3>1
      <3>3. k - 1 = old /\ \A m \in (j + 1)..old : m \in 1..old
          BY <1>1, <3>1, <3>2
      <3>4. QED
          BY <1>4, <3>2, <3>3
    <2>4. k \in 1..old \/ k \in (old + 1)..Len(e.alerts)
        BY <1>1, <1>4, <2>1
    <2>5. QED
        BY <2>2, <2>3, <2>4
  <1>7. e.cond.incident # None =>
            \A j, k \in DOMAIN e.alerts :
                /\ j < k /\ e.alerts[j].kind = "disconnected" /\ e.alerts[k].kind = "reconnected"
                /\ e.alerts[j].incident = e.cond.incident
                => e.alerts[k].incident = e.cond.incident
    <2>1. SUFFICES ASSUME e.cond.incident # None, NEW j \in DOMAIN e.alerts, NEW k \in DOMAIN e.alerts,
                          j < k, e.alerts[j].kind = "disconnected", e.alerts[k].kind = "reconnected",
                          e.alerts[j].incident = e.cond.incident
                   PROVE  e.alerts[k].incident = e.cond.incident
        OBVIOUS
    <2>2. ch.state # "joined" /\ ~tell
        BY <1>3, <1>5, <2>1 DEF NextIncident
    <2>3. j \in 1..old /\ k \in 1..old
        BY <1>1, <1>4, <2>1, <2>2
    <2>4. e.alerts[j] = d.alerts[j] /\ e.alerts[k] = d.alerts[k] /\ d.alerts[j].incident <= d.incidents
        BY <1>1, <1>4, <2>3 DEF Numbered
    <2>5. e.cond.incident = d.cond.incident
        BY <1>1, <1>3, <2>1, <2>2, <2>4 DEF NextIncident
    <2>6. QED
        BY <1>1, <2>1, <2>3, <2>4, <2>5 DEF Told
  <1>8. Told(e)
      BY <1>6, <1>7 DEF Told
  <1>9. \A k \in DOMAIN e.alerts : e.alerts[k].kind = "flapping" =>
            \/ k \in 1..old /\ d.alerts[k].kind = "flapping" /\ e.alerts[k] = d.alerts[k]
            \/ /\ k = Len(e.alerts) /\ k > old /\ MayFlap(d, ch.at)
               /\ e.cond.flapped = ch.at /\ e.alerts[k].at = ch.at
      BY <1>1, <1>4
  <1>10. \A k \in 1..old : d.alerts[k].kind = "flapping" =>
             /\ d.alerts[k].at \in Time /\ d.cond.flapped \in Time /\ d.alerts[k].at <= d.cond.flapped
             /\ MayFlap(d, ch.at) => d.alerts[k].at + FlapWindow <= ch.at
    <2>1. SUFFICES ASSUME NEW k \in 1..old, d.alerts[k].kind = "flapping"
                   PROVE  /\ d.alerts[k].at \in Time /\ d.cond.flapped \in Time
                          /\ d.alerts[k].at <= d.cond.flapped
                          /\ MayFlap(d, ch.at) => d.alerts[k].at + FlapWindow <= ch.at
        OBVIOUS
    <2>2. /\ d.alerts[k].at \in Time /\ d.cond.flapped \in Time
          /\ d.alerts[k].at <= d.cond.flapped
        BY <1>1, <2>1 DEF Cooled
    <2>3. MayFlap(d, ch.at) => d.cond.flapped + FlapWindow <= ch.at
        BY <1>2, <2>2 DEF MayFlap
    <2>4. d.alerts[k].at \in Nat /\ d.cond.flapped \in Nat /\ FlapWindow \in Nat /\ ch.at \in Nat
        BY <1>1, <1>2, <2>2, TimesAssumption
    <2>5. QED
        BY <2>2, <2>3, <2>4
  <1>11. \A k \in DOMAIN e.alerts : e.alerts[k].kind = "flapping" =>
             e.alerts[k].at \in Time /\ e.cond.flapped \in Time /\ e.alerts[k].at <= e.cond.flapped
    <2>1. SUFFICES ASSUME NEW k \in DOMAIN e.alerts, e.alerts[k].kind = "flapping"
                   PROVE  e.alerts[k].at \in Time /\ e.cond.flapped \in Time /\ e.alerts[k].at <= e.cond.flapped
        OBVIOUS
    <2>2. CASE k \in 1..old /\ d.alerts[k].kind = "flapping" /\ e.alerts[k] = d.alerts[k]
      <3>1. /\ e.alerts[k].at \in Time /\ e.alerts[k].at <= d.cond.flapped
            /\ MayFlap(d, ch.at) => e.alerts[k].at + FlapWindow <= ch.at
          BY <1>10, <2>2
      <3>2. FlapWindow \in Nat /\ e.alerts[k].at \in Nat /\ ch.at \in Nat
          BY <1>1, <1>2, <3>1, TimesAssumption
      <3>3. QED
          BY <1>1, <1>4, <1>10, <2>2, <3>1, <3>2
    <2>3. CASE e.cond.flapped = ch.at /\ e.alerts[k].at = ch.at
      <3>1. ch.at <= ch.at
        <4>1. \A n \in Nat : n <= n
            OBVIOUS
        <4>2. QED
            BY <1>1, <1>2, <4>1
      <3>2. e.alerts[k].at \in Time /\ e.cond.flapped \in Time
          BY <1>1, <2>3
      <3>3. e.alerts[k].at <= e.cond.flapped
          BY <2>3, <3>1, Zenon
      <3>4. QED
          BY <3>2, <3>3
    <2>4. QED
        BY <1>9, <2>1, <2>2, <2>3
  <1>12. \A j, k \in DOMAIN e.alerts :
             /\ j < k /\ e.alerts[j].kind = "flapping" /\ e.alerts[k].kind = "flapping"
             => e.alerts[j].at + FlapWindow <= e.alerts[k].at
    <2>1. SUFFICES ASSUME NEW j \in DOMAIN e.alerts, NEW k \in DOMAIN e.alerts,
                          j < k, e.alerts[j].kind = "flapping", e.alerts[k].kind = "flapping"
                   PROVE  e.alerts[j].at + FlapWindow <= e.alerts[k].at
        OBVIOUS
    <2>2. j \in 1..old /\ d.alerts[j].kind = "flapping" /\ e.alerts[j] = d.alerts[j]
        BY <1>1, <1>4, <1>9, <2>1
    <2>3. CASE k \in 1..old /\ d.alerts[k].kind = "flapping" /\ e.alerts[k] = d.alerts[k]
        BY <1>1, <2>1, <2>2, <2>3 DEF Cooled
    <2>4. CASE MayFlap(d, ch.at) /\ e.alerts[k].at = ch.at
        BY <1>10, <2>2, <2>4
    <2>5. QED
        BY <1>9, <2>1, <2>3, <2>4
  <1>13. QED
      BY <1>8, <1>11, <1>12 DEF e, Cooled

\* A loss opens an incident with a job that will look at it.
LEMMA RoundWatches ==
    ASSUME clock \in 1..Horizon, NEW d \in Ledger, NEW ch \in Change, NEW tell \in BOOLEAN,
           Numbered(d), Watched(d), EventFits(ch, clock),
           ch.state = "interrupted" => d.cond.state \in {"joined", "none"}
    PROVE  LET e == RecordChange(d, ch, tell)
           IN  Watched(e) /\ (e.cond.state = "interrupted" => e.cond.incident > d.incidents)
  <1> DEFINE e == RecordChange(d, ch, tell)
             next == NextIncident(d, ch)
             due == [status |-> "queued", due |-> EscalationDue, tries |-> 0]
  <1>1. d.cond.incident \in Nat /\ d.incidents \in Nat /\ ch.state \in State /\ ch.at \in Time
      BY DEF Ledger, AnyCondition, Change
  <1>2. /\ e.interval = ch.state /\ e.cond.state = ch.state /\ e.cond.incident = next
        /\ e.cond.since = IF ch.state = "joined" THEN None ELSE ch.at
        /\ e.incidents = IF next > d.incidents THEN next ELSE d.incidents
        /\ \A i \in Incident : e.jobs[i] = IF i = next /\ next > d.incidents THEN due ELSE d.jobs[i]
        /\ \A i : <<"escalate", i>> \in e.events <=> <<"escalate", i>> \in d.events
    <2> HIDE DEF next, due
    <2>1. QED
        BY RoundWrites DEF next, due
  <1> HIDE DEF e
  <1>3. ch.state = "joined" => next = None
      BY DEF NextIncident
  <1>4. ASSUME ch.state = "interrupted"
        PROVE  /\ next = d.incidents + 1 /\ next # None /\ <<"escalate", next>> \notin e.events
               /\ e.incidents = next
               /\ e.incidents <= MaxIncidents =>
                     e.jobs[next].status = "queued" /\ e.jobs[next].due >= ch.at + Grace
    <2>1. d.cond.incident = None
        BY <1>4 DEF Watched
    <2>2. next = d.incidents + 1
        BY <1>4, <2>1 DEF NextIncident
    <2> HIDE DEF next
    <2>3. next # None /\ next \in Nat /\ next > d.incidents /\ ~(next <= d.incidents)
        BY <1>1, <2>2 DEF None
    <2>4. <<"escalate", next>> \notin e.events
        BY <1>1, <1>2, <2>3 DEF Numbered
    <2>5. e.incidents = next
        BY <1>2, <2>3
    <2>6. ASSUME e.incidents <= MaxIncidents
          PROVE  e.jobs[next].status = "queued" /\ e.jobs[next].due >= ch.at + Grace
      <3>1. next \in Incident
          BY <1>1, <2>2, <2>3, <2>5, <2>6, CountsAssumption DEF Incident
      <3>2. e.jobs[next] = due
          BY <1>2, <2>3, <3>1
      <3>3. ch.at <= clock /\ clock \in Nat /\ ch.at \in Nat /\ Grace \in Nat
          BY <1>1, TimesAssumption DEF EventFits, Time
      <3>4. QED
          BY <3>2, <3>3 DEF EscalationDue
    <2>7. QED
        BY <2>2, <2>3, <2>4, <2>5, <2>6
  <1> HIDE DEF next
  <1>5. Watched(e)
    <2>1. e.cond.state \in {"joined", "none"} => e.cond.incident = None
        BY <1>1, <1>2, <1>3 DEF State
    <2>2. e.cond.state = "interrupted" =>
              /\ e.cond.incident # None /\ <<"escalate", e.cond.incident>> \notin e.events
              /\ e.incidents <= MaxIncidents =>
                    /\ e.jobs[e.cond.incident].status \in {"queued", "active", "dead"}
                    /\ e.jobs[e.cond.incident].due >= e.cond.since + Grace
        BY <1>2, <1>4
    <2>3. QED
        BY <1>2, <2>1, <2>2 DEF Watched
  <1>6. e.cond.state = "interrupted" => e.cond.incident > d.incidents
      BY <1>1, <1>2, <1>4
  <1>7. QED
      BY <1>5, <1>6 DEF e

-----------------------------------------------------------------------------
(* All rounds of the transaction.                                           *)

\* What a poll took the bot to be may have been escalated since.
Fits(seen, state) ==
    state = seen \/ (seen = "interrupted" /\ state = "down") \/ (seen = "unknown" /\ state = "none")

\* LoopHasResults, for ledgers.
LEMMA LedgerLoop ==
    ASSUME NEW base \in Ledger, NEW N \in Nat, NEW round \in [1..N -> [Ledger -> Ledger]]
    PROVE  \E f \in [0..N -> Ledger] : f[0] = base /\ \A n \in 1..N : f[n] = round[n][f[n - 1]]
  BY LoopHasResults

\* Rounds is what its definition says, round by round.
LEMMA RoundByRound ==
    ASSUME clock \in 1..Horizon, NEW d \in Ledger, NEW changes \in Seq(Change), NEW tell \in BOOLEAN
    PROVE  LET f == Rounds(d, changes, tell)
           IN  /\ f[0] = d
               /\ \A n \in 1..Len(changes) :
                     f[n] = RecordChange(f[n - 1], changes[n],
                                         IF n = 1 THEN tell ELSE WorthAnnouncing(f[n - 1], changes[n]))
  <1> DEFINE N == Len(changes)
             Round(x, n) == RecordChange(x, changes[n], IF n = 1 THEN tell ELSE WorthAnnouncing(x, changes[n]))
             round == [n \in 1..N |-> [x \in Ledger |-> Round(x, n)]]
             Equation(f) == [n \in 0..N |-> IF n = 0 THEN d ELSE Round(f[n - 1], n)]
  <1>1. N \in Nat /\ \A n \in 1..N : changes[n] \in Change
      BY ElementOfSeq
  <1> HIDE DEF N
  <1>2. \A n \in 1..N, x \in Ledger : Round(x, n) \in Ledger
    <2>1. SUFFICES ASSUME NEW n \in 1..N, NEW x \in Ledger PROVE Round(x, n) \in Ledger
        OBVIOUS
    <2>2. WorthAnnouncing(x, changes[n]) \in BOOLEAN
        BY DEF WorthAnnouncing, LastAnnounced
    <2>3. (IF n = 1 THEN tell ELSE WorthAnnouncing(x, changes[n])) \in BOOLEAN
        BY <2>2
    <2>4. QED
        BY <1>1, <2>1, <2>3, RoundWrites
  <1> HIDE DEF Round
  <1>3. round \in [1..N -> [Ledger -> Ledger]]
      BY <1>2
  <1>4. \A n \in 1..N, x \in Ledger : round[n][x] = Round(x, n)
      OBVIOUS
  <1> HIDE DEF round
  <1>5. PICK f \in [0..N -> Ledger] : f[0] = d /\ \A n \in 1..N : f[n] = round[n][f[n - 1]]
    <2> HIDE DEF Equation
    <2>1. QED
        BY <1>1, <1>3, LedgerLoop
  <1>6. f = Equation(f)
    <2>1. \A n \in 1..N : n - 1 \in 0..N
        BY <1>1
    <2>2. ASSUME NEW n \in 1..N PROVE f[n] = Round(f[n - 1], n)
      <3>1. f[n - 1] \in Ledger
          BY <1>5, <2>1
      <3>2. QED
          BY <1>4, <1>5, <3>1
    <2>3. \A n \in 0..N : f[n] = IF n = 0 THEN d ELSE Round(f[n - 1], n)
        BY <1>1, <1>5, <2>2
    <2>4. QED
        BY <1>5, <2>3
  <1>7. Rounds(d, changes, tell) = CHOOSE g : g = Equation(g)
      BY DEF Rounds, Round, N
  <1>8. Rounds(d, changes, tell) = Equation(Rounds(d, changes, tell))
    <2> HIDE DEF Equation
    <2>1. QED
        BY <1>6, <1>7
  <1>9. QED
      BY <1>1, <1>8 DEF Round, N

\* What the whole transaction keeps.
LEMMA RoundsKeep ==
    ASSUME clock \in 1..Horizon, NEW d \in Ledger, NEW changes \in Seq(Change), changes # <<>>,
           NEW tell \in BOOLEAN, tell => WorthAnnouncing(d, changes[1]),
           EventsFit(changes, clock), Numbered(d), Told(d), Cooled(d),
           NEW seen \in Seen, Fits(seen, d.cond.state)
    PROVE  LET e == Rounds(d, changes, tell)[Len(changes)]
           IN  /\ e \in Ledger /\ Numbered(e) /\ Told(e) /\ Cooled(e) /\ Grown(d, e)
               /\ e.cond.state = After(seen, changes)
               /\ Watched(d) /\ Chained(seen, changes) =>
                     Watched(e) /\ (e.cond.state = "interrupted" => e.cond.incident > d.incidents)
  <1> DEFINE N == Len(changes)
             f == Rounds(d, changes, tell)
             Watches == Watched(d) /\ Chained(seen, changes)
             S == {n \in Nat : n <= N =>
                     /\ f[n] \in Ledger /\ Numbered(f[n]) /\ Told(f[n]) /\ Cooled(f[n]) /\ Grown(d, f[n])
                     /\ n # 0 => f[n].cond.state = changes[n].state
                     /\ Watches => /\ Watched(f[n])
                                   /\ (n # 0 /\ f[n].cond.state = "interrupted")
                                        => f[n].cond.incident > d.incidents}
  <1>1. N \in Nat /\ N # 0 /\ DOMAIN changes = 1..N /\ \A n \in 1..N : changes[n] \in Change
      BY EmptySeq
  <1>2. f[0] = d /\ \A n \in 1..N : f[n] = RecordChange(f[n - 1], changes[n],
                                         IF n = 1 THEN tell ELSE WorthAnnouncing(f[n - 1], changes[n]))
      BY RoundByRound
  <1>3. d.incidents \in Nat /\ d.cond.state \in State \cup {"none"}
      BY DEF Ledger, AnyCondition
  <1> HIDE DEF N, f, Watches
  <1>4. 0 \in S
    <2>1. Grown(d, d)
        BY <1>3 DEF Grown
    <2>2. QED
        BY <1>2, <2>1 DEF Watches
  <1>5. ASSUME NEW m \in Nat, m \in S PROVE m + 1 \in S
    <2> DEFINE n == m + 1
               ch == changes[n]
               say == IF n = 1 THEN tell ELSE WorthAnnouncing(f[m], ch)
               e == RecordChange(f[m], ch, say)
    <2>1. SUFFICES ASSUME n <= N
                   PROVE  /\ f[n] \in Ledger /\ Numbered(f[n]) /\ Told(f[n]) /\ Cooled(f[n])
                          /\ Grown(d, f[n]) /\ f[n].cond.state = ch.state
                          /\ Watches => /\ Watched(f[n])
                                        /\ f[n].cond.state = "interrupted" => f[n].cond.incident > d.incidents
        OBVIOUS
    <2>2. /\ f[m] \in Ledger /\ Numbered(f[m]) /\ Told(f[m]) /\ Cooled(f[m]) /\ Grown(d, f[m])
          /\ m # 0 => f[m].cond.state = changes[m].state
          /\ Watches => Watched(f[m])
        BY <1>1, <1>5, <2>1
    <2>3. n \in 1..N /\ n - 1 = m /\ ch \in Change /\ EventFits(ch, clock)
        BY <1>1, <2>1 DEF EventsFit
    <2>4. f[n] = e
        BY <1>2, <2>3
    <2>5. say \in BOOLEAN /\ (say => WorthAnnouncing(f[m], ch))
      <3>1. CASE n = 1
          BY <1>2, <2>3, <3>1
      <3>2. CASE n # 1
          BY <3>2 DEF WorthAnnouncing, LastAnnounced
      <3>3. QED
          BY <3>1, <3>2
    <2> HIDE DEF say, e
    <2>6. e \in Ledger /\ e.cond.state = ch.state
        BY <2>2, <2>3, <2>5, RoundWrites DEF e
    <2>7. Numbered(e) /\ Grown(f[m], e)
        BY <2>2, <2>3, <2>5, RoundNumbers DEF e
    <2>8. Told(e) /\ Cooled(e)
        BY <2>2, <2>3, <2>5, RoundAnnounces DEF e
    <2>9. Grown(d, e)
      <3>1. f[m].incidents \in Nat /\ e.incidents \in Nat /\ Incident \subseteq Nat
          BY <2>2, <2>6, CountsAssumption DEF Ledger, Incident
      <3>2. QED
          BY <1>3, <2>2, <2>7, <3>1 DEF Grown
    <2>10. ASSUME Watches
           PROVE  Watched(e) /\ (e.cond.state = "interrupted" => e.cond.incident > d.incidents)
      <3>1. ASSUME ch.state = "interrupted" PROVE f[m].cond.state \in {"joined", "none"}
        <4>1. CASE m = 0
          <5>1. seen \in {"joined", "unknown"}
            <6>1. n = 1 /\ 1 \in DOMAIN changes
                BY <1>1, <2>3, <4>1
            <6>2. QED
                BY <2>10, <3>1, <6>1 DEF Watches, Chained
          <5>2. QED
              BY <1>2, <1>3, <4>1, <5>1 DEF Fits, State
        <4>2. CASE m # 0
          <5>1. changes[m].state = "joined"
              BY <1>1, <2>3, <2>10, <3>1, <4>2 DEF Watches, Chained
          <5>2. QED
              BY <2>2, <4>2, <5>1
        <4>3. QED
            BY <4>1, <4>2
      <3>2. Watched(e) /\ (e.cond.state = "interrupted" => e.cond.incident > f[m].incidents)
          BY <2>2, <2>3, <2>5, <2>10, <3>1, RoundWatches DEF e
      <3>3. f[m].incidents \in Nat /\ e.cond.incident \in Nat /\ d.incidents <= f[m].incidents
          BY <2>2, <2>6 DEF Ledger, AnyCondition, Grown
      <3>4. QED
          BY <1>3, <3>2, <3>3
    <2>11. QED
        BY <2>4, <2>6, <2>7, <2>8, <2>9, <2>10
  <1>6. N \in S
    <2> HIDE DEF S
    <2>1. QED
        BY <1>1, <1>4, <1>5, EveryNumber
  <1>7. /\ f[N] \in Ledger /\ Numbered(f[N]) /\ Told(f[N]) /\ Cooled(f[N]) /\ Grown(d, f[N])
        /\ f[N].cond.state = changes[N].state
        /\ Watches => Watched(f[N]) /\ (f[N].cond.state = "interrupted" => f[N].cond.incident > d.incidents)
      BY <1>1, <1>6
  <1>8. QED
      BY <1>7 DEF f, N, Watches, After

-----------------------------------------------------------------------------
(* The invariant.                                                           *)

\* The journal's lines are not of the future.
JournalInv ==
    Len(journal) <= MaxSignals /\ \A n \in DOMAIN journal : journal[n].at <= clock

\* What is committed; the last part as long as the bot was not read afresh.
CommittedInv ==
    /\ Numbered(db) /\ Told(db) /\ Cooled(db)
    /\ afresh = 0 => Watched(db)

\* What the poll has read fits the condition until it has stored its cursor.
InTransaction == {"close", "blocked", "write"}
Recording == InTransaction \cup {"record"}
PollInv ==
    LET state == After(poller.seen, poller.changes)
    IN  /\ db.cursor <= Len(journal) /\ poller.at <= Len(journal) /\ poller.next <= Len(journal)
        /\ poller.pc \in Recording \cup {"read"} => Fits(poller.seen, db.cond.state)
        /\ poller.pc = "save" => Fits(state, db.cond.state)
        /\ poller.pc = "read" => ~poller.full
        /\ poller.pc \in Recording \cup {"save"} =>
              /\ EventsFit(poller.changes, clock)
              /\ ~poller.full => poller.next # 0 /\ Agrees(state, journal[poller.next].kind)
        /\ poller.pc \in Recording =>
              poller.changes # <<>> /\ (afresh = 0 => Chained(poller.seen, poller.changes))
        /\ poller.pc \in InTransaction =>
              clock <= Horizon /\ (poller.tell => WorthAnnouncing(db, poller.changes[1]))

\* A handler that raises the alert holds the condition row from when it found
\* the bot interrupted; one that is done with its incident has no reason to
\* look again.
HandlerInv(w) ==
    /\ worker[w].pc # "idle" => worker[w].incident \in Incident /\ worker[w].incident <= db.incidents
    /\ worker[w].pc = "read" => db.jobs[worker[w].incident].due <= clock
    /\ worker[w].pc \in {"close", "commit"} => lock.cond = w /\ Claimable(worker[w].incident)
    /\ worker[w].pc = "end" /\ afresh = 0 => ~Claimable(worker[w].incident)

StatusInv ==
    TypeOK /\ JournalInv /\ CommittedInv /\ PollInv /\ \A w \in Workers : HandlerInv(w)

LEMMA NumbersAreNumbers ==
    /\ Incident \subseteq Nat \ {0} /\ Time \subseteq Nat \ {0}
    /\ Grace \in Nat /\ Horizon \in Nat /\ FlapWindow \in Nat /\ MaxIncidents \in Nat
    /\ RetryLimit \in Nat /\ MaxSignals \in Nat /\ MaxAfresh \in Nat /\ BatchLines \in Nat \ {0}
  BY TimesAssumption, CountsAssumption DEF Incident, Time

\* A database is a ledger, and a ledger with few enough incidents a database.
LEMMA LedgerOf == TypeOK => db \in Ledger
  <1>1. Condition \subseteq AnyCondition /\ Alert \subseteq AnyAlert /\ EventKey \subseteq (EventKind \X Time) \cup ({"escalate"} \X (Nat \ {0}))
    <2>1. Incident \cup {None} \subseteq Nat /\ Incident \subseteq Nat \ {0}
        BY NumbersAreNumbers DEF None
    <2>2. Condition \subseteq AnyCondition
        BY <2>1 DEF Condition, AnyCondition
    <2>3. Alert \subseteq AnyAlert
        BY <2>1 DEF Alert, AnyAlert
    <2>4. EventKey \subseteq (EventKind \X Time) \cup ({"escalate"} \X (Nat \ {0}))
        BY <2>1 DEF EventKey
    <2>5. QED
        BY <2>2, <2>3, <2>4
  <1>2. Seq(Alert) \subseteq Seq(AnyAlert)
      BY <1>1, SeqMonotonic
  <1>3. 0..MaxIncidents \subseteq Nat
      BY NumbersAreNumbers
  <1>4. QED
      BY <1>1, <1>2, <1>3 DEF TypeOK, Database, Ledger

LEMMA LedgerIsBounded ==
    ASSUME NEW d \in Ledger, Numbered(d), d.incidents <= MaxIncidents
    PROVE  d \in Database
  <1>1. /\ d.incidents \in Nat /\ d.cond \in AnyCondition /\ d.cond.incident \in Nat /\ d.alerts \in Seq(AnyAlert)
        /\ d.events \subseteq (EventKind \X Time) \cup ({"escalate"} \X (Nat \ {0}))
        /\ d.cond.incident <= d.incidents
      BY DEF Ledger, AnyCondition, Numbered
  <1>2. \A i \in Nat : i <= d.incidents => i \in Incident \cup {None}
      BY <1>1, NumbersAreNumbers DEF Incident, None
  <1>3. d.cond \in Condition
      BY <1>1, <1>2 DEF Condition, AnyCondition
  <1>4. d.events \subseteq EventKey
    <2>1. SUFFICES ASSUME NEW x \in d.events PROVE x \in EventKey
        OBVIOUS
    <2>2. CASE x \in EventKind \X Time
        BY <2>2 DEF EventKey
    <2>3. CASE x \in {"escalate"} \X (Nat \ {0})
      <3>1. PICK i \in Nat \ {0} : x = <<"escalate", i>>
          BY <2>3
      <3>2. i <= d.incidents
          BY <2>1, <3>1 DEF Numbered
      <3>3. i \in Incident
          BY <1>2, <3>1, <3>2 DEF None
      <3>4. QED
          BY <3>1, <3>3 DEF EventKey
    <2>4. QED
        BY <1>1, <2>1, <2>2, <2>3
  <1>5. d.alerts \in Seq(Alert)
    <2>1. ASSUME NEW k \in 1..Len(d.alerts) PROVE d.alerts[k] \in Alert
      <3>1. d.alerts[k] \in AnyAlert /\ d.alerts[k].incident <= d.incidents
          BY <1>1 DEF Numbered
      <3>2. d.alerts[k].incident \in Incident \cup {None}
          BY <1>2, <3>1 DEF AnyAlert
      <3>3. QED
          BY <3>1, <3>2 DEF Alert, AnyAlert
    <2>2. Len(d.alerts) \in Nat /\ d.alerts \in [1..Len(d.alerts) -> AnyAlert]
        BY <1>1, LenProperties
    <2>3. d.alerts \in [1..Len(d.alerts) -> Alert]
        BY <2>1, <2>2
    <2>4. QED
        BY <2>2, <2>3, SeqDef
  <1>6. d.incidents \in 0..MaxIncidents
      BY <1>1, NumbersAreNumbers
  <1>7. QED
      BY <1>3, <1>4, <1>5, <1>6 DEF Ledger, Database

-----------------------------------------------------------------------------
(* What steps leave alone.                                                  *)
LEMMA SameCommitted ==
    ASSUME StatusInv, UNCHANGED db, afresh' = 0 => afresh = 0
    PROVE  CommittedInv'
  BY DEF StatusInv, CommittedInv, Numbered, Told, Cooled, Watched

LEMMA SameHandlers ==
    ASSUME StatusInv, UNCHANGED <<db, worker>>, clock' \in Nat, clock <= clock', afresh' = 0 => afresh = 0,
           \A w \in Workers : lock.cond = w => lock'.cond = w
    PROVE  \A w \in Workers : HandlerInv(w)'
  <1>1. SUFFICES ASSUME NEW w \in Workers PROVE HandlerInv(w)'
      OBVIOUS
  <1>2. HandlerInv(w)
      BY DEF StatusInv
  <1>3. worker[w].pc # "idle" => db.jobs[worker[w].incident].due \in Nat
    <2>1. db.jobs \in [Incident -> Job]
        BY DEF StatusInv, TypeOK, Database
    <2>2. worker[w].pc # "idle" => db.jobs[worker[w].incident].due \in Time \cup {None}
        BY <1>2, <2>1 DEF HandlerInv, Job
    <2>3. Time \cup {None} \subseteq Nat
        BY NumbersAreNumbers DEF None
    <2>4. QED
        BY <2>2, <2>3
  <1>4. clock \in Nat
      BY NumbersAreNumbers DEF StatusInv, TypeOK
  <1>5. worker[w].pc = "read" => db.jobs[worker[w].incident].due <= clock'
      BY <1>2, <1>3, <1>4 DEF HandlerInv
  <1>6. QED
      BY <1>2, <1>5 DEF HandlerInv, Claimable

\* A poll that goes on as it is while a handler writes.
LEMMA SamePoll ==
    ASSUME StatusInv, UNCHANGED <<clock, journal>>, afresh' = 0 => afresh = 0,
           poller' = [poller EXCEPT !.overtaken = poller'.overtaken],
           db'.cursor = db.cursor,
           \A s \in Seen : Fits(s, db.cond.state) => Fits(s, db'.cond.state),
           (poller.pc \in InTransaction /\ WorthAnnouncing(db, poller.changes[1]))
               => WorthAnnouncing(db', poller.changes[1])
    PROVE  PollInv'
  <1>1. /\ poller'.pc = poller.pc /\ poller'.seen = poller.seen /\ poller'.at = poller.at
        /\ poller'.next = poller.next /\ poller'.full = poller.full /\ poller'.changes = poller.changes
        /\ poller'.tell = poller.tell
    <2>1. poller \in Poller
        BY DEF StatusInv, TypeOK
    <2> DEFINE o == poller'.overtaken
    <2>2. poller' = [poller EXCEPT !.overtaken = o]
        OBVIOUS
    <2> HIDE DEF o
    <2>3. QED
        BY <2>1, <2>2 DEF Poller
  <1> DEFINE state == After(poller.seen, poller.changes)
  <1>2. state' = state
      BY <1>1 DEF After
  <1>3. poller.seen \in Seen /\ poller.changes \in Seq(Change)
      BY DEF StatusInv, TypeOK, Poller, Seen
  <1>4. state \in Seen
    <2>1. poller.changes # <<>> => poller.changes[Len(poller.changes)] \in Change
        BY <1>3, EmptySeq
    <2>2. QED
        BY <1>3, <2>1 DEF After, Change, Seen
  <1>5. PollInv
      BY DEF StatusInv
  <1> HIDE DEF state
  <1>6. QED
      BY <1>1, <1>2, <1>3, <1>4, <1>5 DEF PollInv, state, EventsFit, Chained

\* A poll's own step leaves the database and the handlers alone.
LEMMA PollSteps ==
    ASSUME StatusInv, UNCHANGED <<clock, journal, db, worker>>, afresh' = 0 => afresh = 0,
           \A w \in Workers : lock.cond = w => lock'.cond = w,
           TypeOK', PollInv'
    PROVE  StatusInv'
  <1>1. clock \in Nat /\ clock' = clock /\ clock <= clock
      BY NumbersAreNumbers DEF StatusInv, TypeOK
  <1>2. \A w \in Workers : HandlerInv(w)'
      BY <1>1, SameHandlers
  <1>3. JournalInv'
      BY DEF StatusInv, JournalInv
  <1>4. QED
      BY <1>2, <1>3, SameCommitted DEF StatusInv

LEMMA OwnersAreDistinct ==
    ASSUME NEW w \in Workers
    PROVE  w # Server /\ w # None /\ Server # None
  BY OwnersAssumption DEF None

\* The rows that a poll gives back were its own.
LEMMA ServerFrees ==
    ASSUME TypeOK, lock' = Freed(Server)
    PROVE  /\ lock' \in [{"cond", "interval"} -> Workers \cup {Server, None}]
           /\ \A w \in Workers : lock.cond = w => lock'.cond = w
  BY OwnersAreDistinct DEF TypeOK, Freed

-----------------------------------------------------------------------------
(* The steps of the journal and of the poll.                                *)
LEMMA PollerFields ==
    ASSUME TypeOK
    PROVE  /\ clock \in Nat /\ clock \in Time /\ journal \in Seq(Signal) /\ Len(journal) \in Nat
           /\ poller \in Poller /\ poller.seen \in Seen /\ poller.changes \in Seq(Change)
           /\ poller.at \in 0..MaxSignals /\ poller.next \in 0..MaxSignals /\ poller.full \in BOOLEAN
           /\ poller.tell \in BOOLEAN /\ poller.overtaken \in BOOLEAN
           /\ db \in Database /\ db.cursor \in 0..MaxSignals
           /\ db.cond.state \in State \cup {"none"}
           /\ afresh \in 0..MaxAfresh
  <1>1. Time \subseteq Nat
      BY NumbersAreNumbers
  <1>2. poller \in Poller /\ db \in Database /\ journal \in Seq(Signal) /\ clock \in Time /\ afresh \in 0..MaxAfresh
      BY DEF TypeOK
  <1>3. /\ poller.seen \in Seen /\ poller.changes \in Seq(Change)
        /\ poller.at \in 0..MaxSignals /\ poller.next \in 0..MaxSignals
        /\ poller.full \in BOOLEAN /\ poller.tell \in BOOLEAN /\ poller.overtaken \in BOOLEAN
      BY <1>2 DEF Poller, Seen
  <1>4. db.cursor \in 0..MaxSignals /\ db.cond.state \in State \cup {"none"}
      BY <1>2 DEF Database, Condition
  <1>5. clock \in Nat /\ Len(journal) \in Nat
      BY <1>1, <1>2
  <1>6. QED
      BY <1>2, <1>3, <1>4, <1>5

LEMMA TickStep == ASSUME StatusInv, Tick PROVE StatusInv'
  <1>1. clock \in Nat /\ clock' = clock + 1 /\ UNCHANGED <<journal, db, lock, poller, worker, afresh>>
      BY PollerFields DEF StatusInv, Tick
  <1>2. TypeOK'
    <2>1. clock' \in Time
        BY <1>1, NumbersAreNumbers DEF Tick, Time
    <2>2. QED
        BY <1>1, <2>1 DEF StatusInv, TypeOK
  <1>3. JournalInv'
    <2>1. \A n \in DOMAIN journal : journal[n].at \in Nat
      <3>1. \A n \in DOMAIN journal : journal[n] \in Signal
          BY PollerFields DEF StatusInv
      <3>2. QED
          BY <3>1, NumbersAreNumbers DEF Signal
    <2>2. \A n \in DOMAIN journal : journal[n].at <= clock + 1
        BY <1>1, <2>1 DEF StatusInv, JournalInv
    <2>3. QED
        BY <1>1, <2>2 DEF StatusInv, JournalInv
  <1>4. PollInv'
    <2>1. EventsFit(poller.changes, clock) => EventsFit(poller.changes, clock + 1)
      <3>1. \A n \in DOMAIN poller.changes : poller.changes[n].at \in Nat
        <4>1. \A n \in DOMAIN poller.changes : poller.changes[n] \in Change
            BY PollerFields DEF StatusInv
        <4>2. QED
            BY <4>1, NumbersAreNumbers DEF Change
      <3>2. QED
          BY <1>1, <3>1 DEF EventsFit, EventFits
    <2>2. poller.pc \in InTransaction => clock + 1 <= Horizon
        BY <1>1, NumbersAreNumbers DEF Tick, InTransaction
    <2>3. QED
        BY <1>1, <2>1, <2>2 DEF StatusInv, PollInv, After, WorthAnnouncing, LastAnnounced
  <1>5. \A w \in Workers : HandlerInv(w)'
      BY <1>1, SameHandlers
  <1>6. CommittedInv'
      BY <1>1, SameCommitted
  <1>7. QED
      BY <1>2, <1>3, <1>4, <1>5, <1>6 DEF StatusInv

LEMMA LogStep == ASSUME StatusInv, NEW kind \in DOMAIN Turn, Log(kind) PROVE StatusInv'
  <1> DEFINE line == [kind |-> kind, at |-> clock]
  <1>1. /\ journal' = Append(journal, line) /\ UNCHANGED <<clock, db, lock, poller, worker, afresh>>
        /\ Len(journal) < MaxSignals
      BY DEF Log
  <1>2. line \in Signal
      BY PollerFields DEF StatusInv, Signal, Turn
  <1> HIDE DEF line
  <1>3. /\ journal' \in Seq(Signal) /\ Len(journal') = Len(journal) + 1
        /\ DOMAIN journal' = 1..(Len(journal) + 1) /\ DOMAIN journal = 1..Len(journal)
        /\ journal'[Len(journal) + 1] = line
        /\ \A n \in 1..Len(journal) : journal'[n] = journal[n]
      BY <1>1, <1>2, PollerFields DEF StatusInv
  <1>4. Len(journal) \in Nat /\ clock \in Nat
      BY PollerFields DEF StatusInv
  <1>5. TypeOK'
      BY <1>1, <1>3 DEF StatusInv, TypeOK
  <1>6. JournalInv'
    <2>1. Len(journal') <= MaxSignals
        BY <1>1, <1>3, <1>4, NumbersAreNumbers
    <2>2. \A n \in DOMAIN journal' : journal'[n].at <= clock
      <3>1. line.at <= clock
          BY <1>4 DEF line
      <3>2. \A n \in 1..Len(journal) : journal[n].at <= clock
          BY <1>3 DEF StatusInv, JournalInv
      <3>3. \A n \in 1..(Len(journal) + 1) : n \in 1..Len(journal) \/ n = Len(journal) + 1
          BY <1>4
      <3>4. QED
          BY <1>3, <3>1, <3>2, <3>3
    <2>3. QED
        BY <1>1, <2>1, <2>2 DEF JournalInv
  <1>7. PollInv'
    <2>1. PollInv /\ db.cursor \in Nat /\ poller.at \in Nat /\ poller.next \in Nat
        BY PollerFields DEF StatusInv
    <2>2. db.cursor <= Len(journal') /\ poller.at <= Len(journal') /\ poller.next <= Len(journal')
        BY <1>3, <1>4, <2>1 DEF PollInv
    <2>3. poller.next # 0 => journal'[poller.next] = journal[poller.next]
        BY <1>3, <1>4, <2>1 DEF PollInv
    <2>4. QED
        BY <1>1, <2>1, <2>2, <2>3 DEF PollInv, After, WorthAnnouncing, LastAnnounced
  <1>8. \A w \in Workers : HandlerInv(w)'
      BY <1>1, <1>4, SameHandlers
  <1>9. CommittedInv'
      BY <1>1, SameCommitted
  <1>10. QED
      BY <1>5, <1>6, <1>7, <1>8, <1>9 DEF StatusInv

\* The poll is over, or was given up: what is committed stays as it is.
LEMMA PollOver ==
    ASSUME StatusInv, UNCHANGED <<clock, journal, db, worker, afresh>>, poller' = NotPolling,
           lock' = lock \/ lock' = Freed(Server)
    PROVE  StatusInv'
  <1>1. /\ lock' \in [{"cond", "interval"} -> Workers \cup {Server, None}]
        /\ \A w \in Workers : lock.cond = w => lock'.cond = w
      BY ServerFrees DEF StatusInv, TypeOK
  <1>2. NotPolling \in Poller
      BY NumbersAreNumbers DEF NotPolling, Poller
  <1>3. TypeOK'
      BY <1>1, <1>2 DEF StatusInv, TypeOK
  <1>4. PollInv'
    <2>1. Len(journal) \in Nat
        BY PollerFields DEF StatusInv
    <2>2. db.cursor <= Len(journal)
        BY DEF StatusInv, PollInv
    <2>3. /\ poller'.pc = "idle" /\ poller'.at = 0 /\ poller'.next = 0
        BY DEF NotPolling
    <2>4. QED
        BY <2>1, <2>2, <2>3 DEF PollInv, Recording, InTransaction
  <1>5. QED
      BY <1>1, <1>3, <1>4, PollSteps

LEMMA PollStartStep == ASSUME StatusInv, PollStart PROVE StatusInv'
  <1>1. UNCHANGED <<clock, journal, db, lock, worker, afresh>>
      BY DEF PollStart
  <1> DEFINE seen == IF db.cond.state = "none" THEN "unknown" ELSE db.cond.state
  <1>2. /\ poller' \in Poller /\ poller'.pc = "read" /\ poller'.at = db.cursor /\ poller'.next = 0
        /\ poller'.seen = seen /\ ~poller'.full
    <2>1. db.cursor \in 0..MaxSignals /\ seen \in State \cup {"unknown"}
        BY PollerFields DEF StatusInv
    <2>2. poller' = [NotPolling EXCEPT !.pc = "read", !.at = db.cursor, !.seen = seen]
        BY DEF PollStart
    <2> HIDE DEF seen
    <2>3. poller' = [pc |-> "read", seen |-> seen, at |-> db.cursor, next |-> 0, full |-> FALSE,
                     changes |-> <<>>, tell |-> FALSE, overtaken |-> FALSE]
        BY <2>2 DEF NotPolling
    <2>4. 0 \in 0..MaxSignals /\ <<>> \in Seq(Change)
        BY NumbersAreNumbers
    <2>5. QED
        BY <2>1, <2>3, <2>4 DEF Poller
  <1>3. TypeOK'
      BY <1>1, <1>2 DEF StatusInv, TypeOK
  <1>4. PollInv'
    <2>1. db.cursor <= Len(journal) /\ Len(journal) \in Nat
        BY PollerFields DEF StatusInv, PollInv
    <2>2. Fits(seen, db.cond.state)
        BY DEF Fits
    <2>3. QED
        BY <1>1, <1>2, <2>1, <2>2 DEF PollInv, Recording, InTransaction
  <1>5. QED
      BY <1>1, <1>3, <1>4, PollSteps

LEMMA ReadRefusedStep == ASSUME StatusInv, ReadRefused PROVE StatusInv'
  <1>1. UNCHANGED <<clock, journal, db, lock, worker, afresh>>
      BY DEF ReadRefused
  <1>2. /\ poller' \in Poller /\ poller'.pc = "read" /\ poller'.at = 0 /\ poller'.next = poller.next
        /\ poller'.seen = poller.seen /\ poller'.full = poller.full
    <2>1. 0 \in 0..MaxSignals
        BY NumbersAreNumbers
    <2>2. QED
        BY <2>1, PollerFields DEF StatusInv, ReadRefused, Poller
  <1>3. TypeOK'
      BY <1>1, <1>2 DEF StatusInv, TypeOK
  <1>4. PollInv'
    <2>1. PollInv /\ Len(journal) \in Nat /\ poller.pc = "read"
        BY PollerFields DEF StatusInv, ReadRefused
    <2>2. QED
        BY <1>1, <1>2, <2>1 DEF PollInv, Recording, InTransaction
  <1>5. QED
      BY <1>1, <1>3, <1>4, PollSteps

LEMMA ReadSeedStep == ASSUME StatusInv, ReadSeed PROVE StatusInv'
  <1> DEFINE line == journal[Len(journal)]
             changes == ChangesFromSignals("unknown", <<line>>)
  <1>1. /\ UNCHANGED <<clock, journal, db, lock, worker>> /\ poller.pc = "read"
        /\ afresh' = IF db.cond.state = "none" THEN afresh ELSE afresh + 1
        /\ afresh' <= MaxAfresh
        /\ poller' = IF journal = <<>> THEN NotPolling
                     ELSE [poller EXCEPT !.pc = "record", !.next = Len(journal), !.changes = changes]
      BY DEF ReadSeed, Last
  <1>2. afresh \in 0..MaxAfresh /\ afresh' \in 0..MaxAfresh /\ (afresh' = 0 => afresh = 0 /\ db.cond.state = "none")
      BY <1>1, PollerFields, NumbersAreNumbers DEF StatusInv
  <1>3. CASE journal = <<>>
    <2>1. poller' = NotPolling
        BY <1>1, <1>3
    <2>2. NotPolling \in Poller
        BY NumbersAreNumbers DEF NotPolling, Poller
    <2>3. TypeOK'
        BY <1>1, <1>2, <2>1, <2>2 DEF StatusInv, TypeOK
    <2>4. PollInv'
      <3>1. Len(journal) \in Nat /\ db.cursor <= Len(journal)
          BY PollerFields DEF StatusInv, PollInv
      <3>2. poller'.pc = "idle" /\ poller'.at = 0 /\ poller'.next = 0
          BY <2>1 DEF NotPolling
      <3>3. QED
          BY <1>1, <3>1, <3>2 DEF PollInv, Recording, InTransaction
    <2>5. QED
        BY <1>1, <1>2, <2>3, <2>4, PollSteps
  <1>4. CASE journal # <<>>
    <2>1. Len(journal) \in Nat \ {0} /\ line \in Signal /\ line.at <= clock /\ Len(journal) <= MaxSignals
        BY <1>4, PollerFields, EmptySeq DEF StatusInv, JournalInv
    <2>2. /\ changes \in Seq(Change) /\ EventsFit(changes, clock) /\ Chained("unknown", changes)
          /\ Agrees(After("unknown", changes), line.kind)
      <3> HIDE DEF line
      <3>1. <<line>> \in Seq(Signal) /\ Len(<<line>>) = 1 /\ <<line>>[1] = line /\ <<line>> # <<>>
          BY <2>1
      <3>2. \A n \in 1..Len(<<line>>) : <<line>>[n].at <= clock
          BY <2>1, <3>1
      <3>3. clock \in Nat /\ "unknown" \in Seen
          BY PollerFields DEF StatusInv, Seen
      <3>4. QED
          BY <3>1, <3>2, <3>3, ChangesFollow
    <2> HIDE DEF changes
    <2>3. changes # <<>> /\ After(poller.seen, changes) = After("unknown", changes)
      <3>1. line.kind \in {"joined", "lost", "stopped"}
          BY <2>1 DEF Signal
      <3>2. Agrees("unknown", line.kind) => FALSE
          BY <3>1 DEF Agrees, Turn
      <3>3. QED
          BY <2>2, <3>2 DEF After
    <2>4. /\ poller' \in Poller /\ poller'.pc = "record" /\ poller'.at = poller.at
          /\ poller'.next = Len(journal) /\ poller'.seen = poller.seen /\ poller'.full = poller.full
          /\ poller'.changes = changes
      <3>1. poller' = [poller EXCEPT !.pc = "record", !.next = Len(journal), !.changes = changes]
          BY <1>1, <1>4
      <3>2. Len(journal) \in 0..MaxSignals
          BY <2>1, NumbersAreNumbers
      <3>3. QED
          BY <2>2, <3>1, <3>2, PollerFields DEF StatusInv, Poller
    <2>5. TypeOK'
        BY <1>1, <1>2, <2>4 DEF StatusInv, TypeOK
    <2>6. PollInv'
      <3>1. /\ PollInv /\ poller.at <= Len(journal) /\ db.cursor <= Len(journal)
            /\ Fits(poller.seen, db.cond.state) /\ ~poller.full
          BY <1>1 DEF StatusInv, PollInv
      <3>2. afresh' = 0 => poller.seen = "unknown"
          BY <1>2, <3>1, PollerFields DEF Fits, StatusInv, Seen, State
      <3>3. afresh' = 0 => Chained(poller.seen, changes)
          BY <2>2, <3>2
      <3>4. Len(journal) # 0 /\ Len(journal) <= Len(journal)
          BY <2>1
      <3> HIDE DEF line
      <3>6. line = journal[Len(journal)]
          BY DEF line
      <3>7. PollInv' = (LET state == After(poller'.seen, poller'.changes)
                        IN  /\ db.cursor <= Len(journal) /\ poller'.at <= Len(journal)
                            /\ poller'.next <= Len(journal)
                            /\ Fits(poller'.seen, db.cond.state)
                            /\ EventsFit(poller'.changes, clock)
                            /\ ~poller'.full => poller'.next # 0 /\ Agrees(state, journal[poller'.next].kind)
                            /\ poller'.changes # <<>> /\ (afresh' = 0 => Chained(poller'.seen, poller'.changes)))
          BY <1>1, <2>4 DEF PollInv, Recording, InTransaction
      <3>8. QED
          BY <2>2, <2>3, <2>4, <3>1, <3>3, <3>4, <3>6, <3>7
    <2>7. QED
        BY <1>1, <1>2, <2>5, <2>6, PollSteps
  <1>5. QED
      BY <1>3, <1>4

LEMMA ReadOnStep == ASSUME StatusInv, ReadOn PROVE StatusInv'
  <1> DEFINE full == Len(journal) - poller.at + 1 > BatchLines
             next == IF full THEN poller.at + BatchLines ELSE Len(journal)
             judged == SubSeq(journal, poller.at, next - Withheld(full))
             changes == ChangesFromSignals(poller.seen, judged)
             pc == IF changes = <<>> THEN "save" ELSE "record"
  <1>1. /\ UNCHANGED <<clock, journal, db, lock, worker, afresh>>
        /\ poller.pc = "read" /\ poller.at # 0
        /\ poller' = [poller EXCEPT !.next = next, !.full = full, !.changes = changes, !.pc = pc]
      BY DEF ReadOn
  <1>2. /\ Len(journal) \in Nat /\ poller.at \in Nat \ {0} /\ poller.at <= Len(journal)
        /\ Len(journal) <= MaxSignals /\ BatchLines \in Nat \ {0} /\ MaxSignals \in Nat
        /\ journal \in Seq(Signal) /\ poller.seen \in Seen /\ clock \in Nat
        /\ Fits(poller.seen, db.cond.state) /\ db.cursor <= Len(journal)
      BY <1>1, PollerFields, NumbersAreNumbers DEF StatusInv, PollInv, JournalInv
  <1>3. /\ next \in Nat \ {0} /\ next <= Len(journal) /\ next \in 0..MaxSignals /\ full \in BOOLEAN
        /\ next - Withheld(full) \in Nat /\ next - Withheld(full) <= Len(journal)
        /\ next - Withheld(full) >= poller.at
        /\ ~full => next - Withheld(full) = next
      BY <1>2 DEF Withheld
  <1> DEFINE last == next - Withheld(full)
  <1>4. /\ judged \in Seq(Signal) /\ Len(judged) = last - poller.at + 1 /\ judged # <<>>
        /\ \A n \in 1..Len(judged) : judged[n] = journal[poller.at + n - 1] /\ poller.at + n - 1 \in 1..Len(journal)
    <2> HIDE DEF next, full, last
    <2>1. last \in Nat /\ poller.at <= last /\ last <= Len(journal) /\ judged = SubSeq(journal, poller.at, last)
        BY <1>3 DEF last
    <2>2. \A n \in poller.at..last : n \in 1..Len(journal) /\ journal[n] \in Signal
        BY <1>2, <2>1
    <2>3. /\ judged \in Seq(Signal) /\ Len(judged) = last - poller.at + 1
          /\ \A n \in 1..(last - poller.at + 1) : judged[n] = journal[poller.at + n - 1]
      <3> HIDE DEF judged
      <3>1. poller.at \in Int /\ last \in Int /\ \A n \in poller.at..last : journal[n] \in Signal
          BY <1>2, <2>1, <2>2
      <3>2. /\ judged \in Seq(Signal) /\ Len(judged) = IF poller.at <= last THEN last - poller.at + 1 ELSE 0
            /\ \A n \in 1..(last - poller.at + 1) : judged[n] = journal[poller.at + n - 1]
          BY <2>1, <3>1, SubSeqProperties
      <3>3. QED
          BY <2>1, <3>2
    <2>4. \A n \in 1..(last - poller.at + 1) : poller.at + n - 1 \in 1..Len(journal)
        BY <1>2, <2>1
    <2>5. last - poller.at + 1 # 0
        BY <1>2, <2>1
    <2>6. QED
        BY <2>3, <2>4, <2>5
  <1>5. /\ changes \in Seq(Change) /\ EventsFit(changes, clock) /\ Chained(poller.seen, changes)
        /\ Agrees(After(poller.seen, changes), judged[Len(judged)].kind)
    <2> HIDE DEF judged
    <2>1. \A n \in 1..Len(judged) : judged[n].at <= clock
      <3>1. \A n \in 1..Len(journal) : journal[n].at <= clock
          BY <1>2 DEF StatusInv, JournalInv
      <3>2. QED
          BY <1>4, <3>1
    <2>2. QED
        BY <1>2, <1>4, <2>1, ChangesFollow
  <1>6. ~full => judged[Len(judged)] = journal[next]
    <2>1. last \in Nat /\ last >= poller.at /\ (~full => last = next)
        BY <1>3
    <2> HIDE DEF last, judged, next, full
    <2>2. Len(judged) \in 1..Len(judged) /\ poller.at + Len(judged) - 1 = last
        BY <1>2, <1>4, <2>1
    <2>3. QED
        BY <1>4, <2>1, <2>2
  <1> HIDE DEF full, next, judged, changes
  <1>7. /\ poller' \in Poller /\ poller'.pc = pc /\ poller'.at = poller.at
        /\ poller'.next = next /\ poller'.seen = poller.seen /\ poller'.full = full
        /\ poller'.changes = changes
      BY <1>1, <1>3, <1>5, PollerFields DEF StatusInv, Poller
  <1>8. TypeOK'
      BY <1>1, <1>7 DEF StatusInv, TypeOK
  <1>9. PollInv'
    <2> DEFINE state == After(poller.seen, changes)
    <2>1. changes = <<>> => Fits(state, db.cond.state)
        BY <1>2 DEF After
    <2>2. After(poller'.seen, poller'.changes) = state
        BY <1>7
    <2> HIDE DEF state
    <2>3. ~full => next # 0 /\ Agrees(state, journal[next].kind)
        BY <1>3, <1>5, <1>6 DEF state
    <2>4. changes # <<>> => Chained(poller.seen, changes)
        BY <1>5
    <2>5. CASE changes = <<>>
        BY <1>1, <1>2, <1>3, <1>5, <1>7, <2>1, <2>2, <2>3, <2>5 DEF PollInv, Recording, InTransaction
    <2>6. CASE changes # <<>>
        BY <1>1, <1>2, <1>3, <1>5, <1>7, <2>2, <2>3, <2>4, <2>6 DEF PollInv, Recording, InTransaction
    <2>7. QED
        BY <2>5, <2>6
  <1>10. QED
      BY <1>1, <1>8, <1>9, PollSteps

\* A poll in its transaction, before the commit.
LEMMA TransactionGoesOn ==
    ASSUME StatusInv, UNCHANGED <<clock, journal, db, worker, afresh>>,
           poller.pc \in Recording, poller'.pc \in InTransaction, poller' \in Poller,
           UNCHANGED <<poller.seen, poller.at, poller.next, poller.full, poller.changes>>,
           clock <= Horizon, poller'.tell => WorthAnnouncing(db, poller.changes[1]),
           lock' \in [{"cond", "interval"} -> Workers \cup {Server, None}],
           \A w \in Workers : lock.cond = w => lock'.cond = w
    PROVE  StatusInv'
  <1>1. TypeOK'
      BY DEF StatusInv, TypeOK
  <1>2. PollInv'
      BY DEF StatusInv, PollInv, After, Recording, InTransaction
  <1>3. QED
      BY <1>1, <1>2, PollSteps

LEMMA RecordFirstStep == ASSUME StatusInv, RecordFirst PROVE StatusInv'
  <1> DEFINE tell == WorthAnnouncing(db, Head(poller.changes))
             flaps == Flaps(db, Head(poller.changes))
  <1>1. /\ UNCHANGED <<clock, journal, db, worker, afresh>>
        /\ poller.pc = "record" /\ clock <= Horizon /\ (flaps => lock.cond = None)
        /\ lock' = [lock EXCEPT !.cond = IF flaps THEN Server ELSE @]
        /\ poller' = [poller EXCEPT !.pc = "close", !.tell = tell]
      BY DEF RecordFirst
  <1>2. poller.changes \in Seq(Change) /\ poller.changes # <<>>
      BY <1>1, PollerFields DEF StatusInv, PollInv, Recording
  <1>3. tell = WorthAnnouncing(db, poller.changes[1]) /\ tell \in BOOLEAN
      BY <1>2 DEF WorthAnnouncing, LastAnnounced
  <1> HIDE DEF tell, flaps
  <1>4. /\ poller' \in Poller /\ poller'.pc = "close" /\ poller'.tell = tell
        /\ UNCHANGED <<poller.seen, poller.at, poller.next, poller.full, poller.changes>>
      BY <1>1, <1>3, PollerFields DEF StatusInv, Poller
  <1>5. /\ lock' \in [{"cond", "interval"} -> Workers \cup {Server, None}]
        /\ \A w \in Workers : lock.cond = w => lock'.cond = w
      BY <1>1, OwnersAreDistinct DEF StatusInv, TypeOK
  <1>6. QED
      BY <1>1, <1>3, <1>4, <1>5, TransactionGoesOn DEF Recording, InTransaction

LEMMA CloseTakesStep == ASSUME StatusInv, CloseTakes PROVE StatusInv'
  <1>1. /\ UNCHANGED <<clock, journal, db, worker, afresh>> /\ poller.pc \in InTransaction
        /\ lock' = [lock EXCEPT !.interval = Server] /\ poller' = [poller EXCEPT !.pc = "write"]
      BY DEF CloseTakes, InTransaction
  <1>2. /\ poller' \in Poller /\ poller'.pc = "write" /\ poller'.tell = poller.tell
        /\ UNCHANGED <<poller.seen, poller.at, poller.next, poller.full, poller.changes>>
      BY <1>1, PollerFields DEF StatusInv, Poller
  <1>3. /\ lock' \in [{"cond", "interval"} -> Workers \cup {Server, None}]
        /\ \A w \in Workers : lock.cond = w => lock'.cond = w
      BY <1>1 DEF StatusInv, TypeOK
  <1>4. clock <= Horizon /\ (poller.tell => WorthAnnouncing(db, poller.changes[1]))
      BY <1>1 DEF StatusInv, PollInv
  <1>5. QED
      BY <1>1, <1>2, <1>3, <1>4, TransactionGoesOn DEF Recording, InTransaction

LEMMA CloseWaitsStep == ASSUME StatusInv, CloseWaits PROVE StatusInv'
  <1>1. /\ UNCHANGED <<clock, journal, db, lock, worker, afresh>> /\ poller.pc \in InTransaction
        /\ poller' = [poller EXCEPT !.pc = "blocked"]
      BY DEF CloseWaits, InTransaction
  <1>2. /\ poller' \in Poller /\ poller'.pc = "blocked" /\ poller'.tell = poller.tell
        /\ UNCHANGED <<poller.seen, poller.at, poller.next, poller.full, poller.changes>>
      BY <1>1, PollerFields DEF StatusInv, Poller
  <1>3. clock <= Horizon /\ (poller.tell => WorthAnnouncing(db, poller.changes[1]))
      BY <1>1 DEF StatusInv, PollInv
  <1>4. lock' \in [{"cond", "interval"} -> Workers \cup {Server, None}]
      BY <1>1 DEF StatusInv, TypeOK
  <1>5. QED
      BY <1>1, <1>2, <1>3, <1>4, TransactionGoesOn DEF Recording, InTransaction

LEMMA RecordCommitStep == ASSUME StatusInv, RecordCommit PROVE StatusInv'
  <1> DEFINE e == Rounds(db, poller.changes, poller.tell)[Len(poller.changes)]
             seen == poller.seen
             changes == poller.changes
  <1>1. /\ poller.pc = "write" /\ lock.cond \in {None, Server} /\ e.incidents <= MaxIncidents
        /\ db' = e /\ lock' = Freed(Server) /\ poller' = [poller EXCEPT !.pc = "save", !.tell = FALSE]
        /\ UNCHANGED <<clock, journal, worker, afresh>>
      BY DEF RecordCommit, Recorded
  <1>2. /\ TypeOK /\ PollInv /\ JournalInv /\ CommittedInv /\ \A w \in Workers : HandlerInv(w)
      BY DEF StatusInv
  <1>3. /\ db.cursor <= Len(journal) /\ poller.at <= Len(journal) /\ poller.next <= Len(journal)
        /\ Fits(seen, db.cond.state) /\ EventsFit(changes, clock) /\ changes # <<>>
        /\ ~poller.full => poller.next # 0 /\ Agrees(After(seen, changes), journal[poller.next].kind)
        /\ afresh = 0 => Chained(seen, changes)
        /\ clock <= Horizon /\ (poller.tell => WorthAnnouncing(db, changes[1]))
      BY <1>1, <1>2 DEF PollInv, Recording, InTransaction
  <1>4. clock \in 1..Horizon /\ db \in Ledger /\ changes \in Seq(Change) /\ poller.tell \in BOOLEAN /\ seen \in Seen
    <2>1. clock \in Nat /\ clock # 0 /\ Horizon \in Nat
        BY <1>2, PollerFields, NumbersAreNumbers
    <2>2. QED
        BY <1>2, <1>3, <2>1, PollerFields, LedgerOf
  <1>5. Numbered(db) /\ Told(db) /\ Cooled(db) /\ (afresh = 0 => Watched(db))
      BY <1>2 DEF CommittedInv
  <1> HIDE DEF e, seen, changes
  <1>6. /\ e \in Ledger /\ Numbered(e) /\ Told(e) /\ Cooled(e) /\ Grown(db, e)
        /\ e.cond.state = After(seen, changes)
        /\ Watched(db) /\ Chained(seen, changes) =>
              Watched(e) /\ (e.cond.state = "interrupted" => e.cond.incident > db.incidents)
      BY <1>3, <1>4, <1>5, RoundsKeep DEF e, seen, changes
  <1>7. CommittedInv'
      BY <1>1, <1>3, <1>5, <1>6 DEF CommittedInv
  <1>8. e \in Database
      BY <1>1, <1>6, LedgerIsBounded
  <1>9. /\ poller' \in Poller /\ poller'.pc = "save" /\ poller'.seen = seen /\ poller'.changes = changes
        /\ poller'.at = poller.at /\ poller'.next = poller.next /\ poller'.full = poller.full
      BY <1>1, <1>2, PollerFields DEF Poller, seen, changes
  <1>10. TypeOK'
      BY <1>1, <1>2, <1>8, <1>9, ServerFrees DEF TypeOK
  <1>11. PollInv'
    <2>1. Fits(After(seen, changes), e.cond.state) /\ e.cursor = db.cursor
        BY <1>6 DEF Fits, Grown
    <2>2. QED
        BY <1>1, <1>3, <1>9, <2>1 DEF PollInv, Recording, InTransaction
  <1>12. \A w \in Workers : HandlerInv(w)'
    <2>1. SUFFICES ASSUME NEW w \in Workers PROVE HandlerInv(w)'
        OBVIOUS
    <2>2. HandlerInv(w) /\ lock.cond # w
        BY <1>1, <1>2, OwnersAreDistinct
    <2>3. /\ db.incidents \in Nat /\ e.incidents \in Nat /\ db.incidents <= e.incidents
          /\ e.cond.incident \in Nat /\ Incident \subseteq Nat
        BY <1>4, <1>6, NumbersAreNumbers DEF Ledger, AnyCondition, Grown
    <2>4. worker[w].pc # "idle" =>
              /\ worker[w].incident \in Incident /\ worker[w].incident <= db.incidents
              /\ e.jobs[worker[w].incident] = db.jobs[worker[w].incident]
        BY <1>6, <2>2 DEF HandlerInv, Grown
    <2>5. worker[w].pc # "idle" => worker[w].incident <= e.incidents
      <3>1. \A a, b, c \in Nat : a <= b /\ b <= c => a <= c
          OBVIOUS
      <3>2. QED
          BY <2>3, <2>4, <3>1
    <2>6. worker[w].pc = "end" /\ afresh = 0 =>
              ~(e.cond.incident = worker[w].incident /\ e.cond.state = "interrupted")
        BY <1>3, <1>5, <1>6, <2>3, <2>4
    <2>7. QED
        BY <1>1, <2>2, <2>4, <2>5, <2>6 DEF HandlerInv, Claimable
  <1>13. JournalInv'
      BY <1>1, <1>2 DEF JournalInv
  <1>14. QED
      BY <1>7, <1>10, <1>11, <1>12, <1>13 DEF StatusInv

LEMMA SaveCursorStep == ASSUME StatusInv, SaveCursor PROVE StatusInv'
  <1> DEFINE state == After(poller.seen, poller.changes)
  <1>1. /\ poller.pc = "save" /\ db' = [db EXCEPT !.cursor = poller.next]
        /\ poller' = IF ~poller.full THEN NotPolling
                     ELSE [NotPolling EXCEPT !.pc = "read", !.at = poller.next, !.seen = state]
        /\ UNCHANGED <<clock, journal, lock, worker, afresh>>
      BY DEF SaveCursor, After, Last
  <1>2. TypeOK /\ PollInv /\ JournalInv /\ CommittedInv /\ \A w \in Workers : HandlerInv(w)
      BY DEF StatusInv
  <1>3. /\ poller.next \in 0..MaxSignals /\ poller.next \in Nat /\ poller.next <= Len(journal)
        /\ Fits(state, db.cond.state) /\ Len(journal) \in Nat /\ db \in Database
      BY <1>1, <1>2, PollerFields DEF PollInv
  <1>4. state \in Seen
    <2>1. poller.seen \in Seen /\ poller.changes \in Seq(Change)
        BY <1>2, PollerFields
    <2>2. poller.changes # <<>> => poller.changes[Len(poller.changes)] \in Change
        BY <2>1, EmptySeq
    <2>3. QED
        BY <2>1, <2>2 DEF After, Change, Seen
  <1> HIDE DEF state
  <1>5. /\ db' \in Database /\ db'.cursor = poller.next /\ db'.cond = db.cond /\ db'.interval = db.interval
        /\ db'.events = db.events /\ db'.alerts = db.alerts /\ db'.jobs = db.jobs /\ db'.incidents = db.incidents
      BY <1>1, <1>3 DEF Database
  <1>6. /\ poller' \in Poller /\ poller'.next = 0 /\ ~poller'.full
        /\ \/ poller'.pc = "idle" /\ poller'.at = 0
           \/ poller'.pc = "read" /\ poller'.at = poller.next /\ poller'.seen = state
    <2>1. 0 \in 0..MaxSignals /\ <<>> \in Seq(Change)
        BY NumbersAreNumbers
    <2>2. CASE ~poller.full
        BY <1>1, <2>1, <2>2 DEF NotPolling, Poller
    <2>3. CASE poller.full
      <3>1. poller' = [pc |-> "read", seen |-> state, at |-> poller.next, next |-> 0, full |-> FALSE,
                       changes |-> <<>>, tell |-> FALSE, overtaken |-> FALSE]
          BY <1>1, <2>3 DEF NotPolling
      <3>2. QED
          BY <1>3, <1>4, <2>1, <3>1 DEF Poller, Seen
    <2>4. QED
        BY <2>2, <2>3
  <1>7. TypeOK'
      BY <1>1, <1>2, <1>5, <1>6 DEF TypeOK
  <1>8. PollInv'
      BY <1>1, <1>3, <1>5, <1>6 DEF PollInv, Recording, InTransaction
  <1>9. CommittedInv'
      BY <1>1, <1>2, <1>5 DEF CommittedInv, Numbered, Told, Cooled, Watched
  <1>10. \A w \in Workers : HandlerInv(w)'
      BY <1>1, <1>2, <1>5 DEF HandlerInv, Claimable
  <1>11. JournalInv'
      BY <1>1, <1>2 DEF JournalInv
  <1>12. QED
      BY <1>7, <1>8, <1>9, <1>10, <1>11 DEF StatusInv

LEMMA PollStepKeeps == ASSUME StatusInv, PollStart \/ PollStep \/ PollStops PROVE StatusInv'
  <1>1. CASE OpenConflicts \/ PollStops
      BY <1>1, PollOver DEF OpenConflicts, PollStops
  <1>2. QED
      BY <1>1, PollStartStep, ReadSeedStep, ReadOnStep, ReadRefusedStep, RecordFirstStep, CloseTakesStep,
         CloseWaitsStep, RecordCommitStep, SaveCursorStep DEF PollStep

-----------------------------------------------------------------------------
(* The steps of the handlers and of the queue.                              *)
LEMMA HandlerFields ==
    ASSUME TypeOK, NEW w \in Workers
    PROVE  /\ worker \in [Workers -> Handler] /\ worker[w] \in Handler
           /\ worker[w].incident \in Incident \cup {None} /\ worker[w].try \in 0..RetryLimit
           /\ lock \in [{"cond", "interval"} -> Workers \cup {Server, None}]
           /\ db \in Database /\ db.jobs \in [Incident -> Job] /\ db.alerts \in Seq(Alert)
           /\ db.cond.incident \in Incident \cup {None} /\ db.incidents \in 0..MaxIncidents
  BY DEF TypeOK, Handler, Database, Condition

\* A handler that did not move, while another one or the queue wrote.
LEMMA HandlerStays ==
    ASSUME StatusInv, NEW v \in Workers, worker'[v] = worker[v], UNCHANGED <<clock, afresh>>,
           db'.incidents = db.incidents, db'.cond.incident = db.cond.incident,
           \A i \in Incident : db'.jobs[i].due = db.jobs[i].due,
           \/ db'.cond.state = db.cond.state
           \/ db'.cond.state # "interrupted" /\ lock.cond # v,
           lock.cond = v => lock'.cond = v
    PROVE  HandlerInv(v)'
  <1>1. HandlerInv(v)
      BY DEF StatusInv
  <1>2. QED
      BY <1>1 DEF HandlerInv, Claimable

\* A change of one job: neither due earlier nor done with while its incident
\* has to be looked at.
LEMMA JobMoves ==
    ASSUME StatusInv, NEW i \in Incident, NEW job \in Job, db' = [db EXCEPT !.jobs[i] = job],
           db.jobs[i].status # "none", job.due = db.jobs[i].due, UNCHANGED afresh,
           job.status \in {"queued", "active", "dead"} \/ ~(afresh = 0 /\ Claimable(i))
    PROVE  /\ db' \in Database /\ CommittedInv'
           /\ db'.cond = db.cond /\ db'.alerts = db.alerts /\ db'.incidents = db.incidents
           /\ db'.cursor = db.cursor
           /\ \A j \in Incident : db'.jobs[j].due = db.jobs[j].due
           /\ db'.jobs[i] = job
  <1>1. db \in Database /\ db.jobs \in [Incident -> Job]
      BY DEF StatusInv, TypeOK, Database
  <1>2. /\ db' \in Database /\ db'.cond = db.cond /\ db'.alerts = db.alerts /\ db'.incidents = db.incidents
        /\ db'.cursor = db.cursor /\ db'.events = db.events /\ db'.interval = db.interval
        /\ db'.jobs = [db.jobs EXCEPT ![i] = job]
      BY <1>1 DEF Database
  <1>3. \A j \in Incident : db'.jobs[j] = IF j = i THEN job ELSE db.jobs[j]
      BY <1>1, <1>2
  <1>4. CommittedInv
      BY DEF StatusInv
  <1>5. Numbered(db') /\ Told(db') /\ Cooled(db')
    <2>1. \A j \in Incident : db'.jobs[j].status # "none" => j <= db.incidents
        BY <1>3, <1>4 DEF CommittedInv, Numbered
    <2>2. Numbered(db')
        BY <1>2, <1>4, <2>1 DEF CommittedInv, Numbered
    <2>3. QED
        BY <1>2, <1>4, <2>2 DEF CommittedInv, Told, Cooled
  <1>6. ASSUME afresh = 0 PROVE Watched(db')
    <2>1. Watched(db)
        BY <1>4, <1>6 DEF CommittedInv
    <2>2. ASSUME db.cond.state = "interrupted"
          PROVE  /\ db'.jobs[db.cond.incident].status \in {"queued", "active", "dead"}
                 /\ db'.jobs[db.cond.incident].due >= db.cond.since + Grace
      <3>1. db.incidents <= MaxIncidents /\ db.cond.incident \in Incident
          BY <1>1, <2>1, <2>2, NumbersAreNumbers DEF Database, Condition, Watched
      <3>2. /\ db.jobs[db.cond.incident].status \in {"queued", "active", "dead"}
            /\ db.jobs[db.cond.incident].due >= db.cond.since + Grace
          BY <2>1, <2>2, <3>1 DEF Watched
      <3>3. CASE db.cond.incident = i
          BY <1>3, <1>6, <2>2, <3>2, <3>3 DEF Claimable
      <3>4. CASE db.cond.incident # i
          BY <1>3, <3>1, <3>2, <3>4
      <3>5. QED
          BY <3>3, <3>4
    <2>3. QED
        BY <1>2, <2>1, <2>2 DEF Watched
  <1>7. CommittedInv'
      BY <1>5, <1>6 DEF CommittedInv
  <1>8. QED
      BY <1>2, <1>3, <1>7

\* A step that writes jobs only leaves the poll as it is.
LEMMA PollUndisturbed ==
    ASSUME StatusInv, UNCHANGED <<clock, journal, poller, afresh>>,
           db'.cond = db.cond, db'.alerts = db.alerts, db'.cursor = db.cursor
    PROVE  PollInv' /\ JournalInv'
  <1>1. poller' = [poller EXCEPT !.overtaken = poller'.overtaken]
      BY DEF StatusInv, TypeOK, Poller
  <1>2. PollInv'
      BY <1>1, SamePoll DEF WorthAnnouncing, LastAnnounced
  <1>3. QED
      BY <1>2 DEF StatusInv, JournalInv

LEMMA TakeStep == ASSUME StatusInv, NEW w \in Workers, Take(w) PROVE StatusInv'
  <1>1. PICK i \in Incident :
          /\ db.jobs[i].status = "queued" /\ db.jobs[i].due <= clock
          /\ db' = [db EXCEPT !.jobs[i].status = "active"]
          /\ worker' = [worker EXCEPT ![w] = [pc |-> "read", incident |-> i, try |-> db.jobs[i].tries]]
      BY DEF Take
  <1>2. UNCHANGED <<clock, journal, lock, poller, afresh>>
      BY DEF Take
  <1> DEFINE job == [db.jobs[i] EXCEPT !.status = "active"]
  <1>3. /\ job \in Job /\ job.due = db.jobs[i].due /\ job.status = "active"
        /\ db.jobs[i] \in Job /\ db.jobs[i].tries \in 0..RetryLimit
      BY HandlerFields DEF StatusInv, Job
  <1>4. db' = [db EXCEPT !.jobs[i] = job]
      BY <1>1, HandlerFields DEF StatusInv, Database
  <1> HIDE DEF job
  <1>5. /\ db' \in Database /\ CommittedInv' /\ db'.cond = db.cond /\ db'.alerts = db.alerts
        /\ db'.incidents = db.incidents /\ db'.cursor = db.cursor
        /\ \A j \in Incident : db'.jobs[j].due = db.jobs[j].due
      BY <1>1, <1>2, <1>3, <1>4, JobMoves
  <1>6. /\ worker' \in [Workers -> Handler] /\ worker'[w].pc = "read" /\ worker'[w].incident = i
        /\ \A v \in Workers : v # w => worker'[v] = worker[v]
      BY <1>1, <1>3, HandlerFields DEF StatusInv, Handler
  <1>7. TypeOK'
      BY <1>2, <1>5, <1>6 DEF StatusInv, TypeOK
  <1>8. HandlerInv(w)'
    <2>1. i <= db.incidents
        BY <1>1 DEF StatusInv, CommittedInv, Numbered
    <2>2. QED
        BY <1>1, <1>2, <1>5, <1>6, <2>1 DEF HandlerInv
  <1>9. \A v \in Workers : v # w => HandlerInv(v)'
      BY <1>2, <1>5, <1>6, HandlerStays
  <1>10. PollInv' /\ JournalInv'
      BY <1>2, <1>5, PollUndisturbed
  <1>11. QED
      BY <1>5, <1>7, <1>8, <1>9, <1>10 DEF StatusInv

\* A handler moves on without writing.
LEMMA HandlerMoves ==
    ASSUME StatusInv, NEW w \in Workers, NEW pc, worker' = [worker EXCEPT ![w].pc = pc],
           pc \in {"idle", "read", "claim", "close", "commit", "end"},
           worker[w].pc # "idle", UNCHANGED <<clock, journal, db, poller, afresh>>,
           lock' \in [{"cond", "interval"} -> Workers \cup {Server, None}],
           \A v \in Workers : lock.cond = v => lock'.cond = v,
           pc # "read",
           pc \in {"close", "commit"} => lock'.cond = w /\ Claimable(worker[w].incident),
           pc = "end" /\ afresh = 0 => ~Claimable(worker[w].incident)
    PROVE  StatusInv'
  <1>1. /\ worker' \in [Workers -> Handler] /\ worker'[w].pc = pc
        /\ worker'[w].incident = worker[w].incident
        /\ \A v \in Workers : v # w => worker'[v] = worker[v]
      BY HandlerFields DEF StatusInv, Handler
  <1>2. TypeOK'
      BY <1>1 DEF StatusInv, TypeOK
  <1>3. HandlerInv(w)'
    <2>1. HandlerInv(w)
        BY DEF StatusInv
    <2>2. QED
        BY <1>1, <2>1 DEF HandlerInv, Claimable
  <1>4. \A v \in Workers : v # w => HandlerInv(v)'
      BY <1>1, HandlerStays
  <1>5. CommittedInv'
      BY SameCommitted
  <1>6. PollInv' /\ JournalInv'
      BY PollUndisturbed
  <1>7. QED
      BY <1>2, <1>3, <1>4, <1>5, <1>6 DEF StatusInv

LEMMA EscalateReadStep == ASSUME StatusInv, NEW w \in Workers, EscalateRead(w) PROVE StatusInv'
  <1> DEFINE i == worker[w].incident
             pc == IF StillDown(i) THEN "claim" ELSE "end"
  <1>1. /\ worker[w].pc = "read" /\ worker' = [worker EXCEPT ![w].pc = pc]
        /\ UNCHANGED <<clock, journal, db, lock, poller, afresh>>
      BY DEF EscalateRead
  <1>2. ASSUME afresh = 0, Claimable(i) PROVE StillDown(i)
    <2>1. HandlerInv(w) /\ Watched(db) /\ TypeOK
        BY <1>2 DEF StatusInv, CommittedInv
    <2>2. /\ db.jobs[i].due <= clock /\ i \in Incident /\ db.cond.incident = i
          /\ db.cond.state = "interrupted"
        BY <1>1, <1>2, <2>1 DEF HandlerInv, Claimable
    <2>3. db.incidents <= MaxIncidents
        BY <2>1, HandlerFields, NumbersAreNumbers
    <2>4. db.jobs[i].due >= db.cond.since + Grace
        BY <2>1, <2>2, <2>3 DEF Watched
    <2>5. /\ db.jobs[i].due \in Time \cup {None} /\ db.cond.since \in Time \cup {None}
        BY <2>1, <2>2 DEF TypeOK, Database, Job, Condition
    <2>6. db.jobs[i].due \in Nat /\ db.cond.since \in Nat /\ clock \in Nat /\ Grace \in Nat
      <3>1. Time \cup {None} \subseteq Nat
          BY NumbersAreNumbers DEF None
      <3>2. QED
          BY <2>1, <2>5, <3>1, PollerFields, NumbersAreNumbers
    <2>7. clock - db.cond.since >= Grace
        BY <2>2, <2>4, <2>6
    <2>8. QED
        BY <2>2, <2>7 DEF StillDown
  <1>3. lock' \in [{"cond", "interval"} -> Workers \cup {Server, None}]
      BY <1>1 DEF StatusInv, TypeOK
  <1> DEFINE p == pc
  <1>4. p \in {"claim", "end"} /\ (p = "end" /\ afresh = 0 => ~Claimable(i))
      BY <1>2
  <1> HIDE DEF p
  <1>5. worker' = [worker EXCEPT ![w].pc = p]
      BY <1>1 DEF p
  <1>6. QED
      BY <1>1, <1>3, <1>4, <1>5, HandlerMoves

LEMMA EscalateCloseStep == ASSUME StatusInv, NEW w \in Workers, EscalateClose(w) PROVE StatusInv'
  <1>1. /\ worker[w].pc = "close" /\ worker' = [worker EXCEPT ![w].pc = "commit"]
        /\ lock' = [lock EXCEPT !.interval = w] /\ UNCHANGED <<clock, journal, db, poller, afresh>>
      BY DEF EscalateClose
  <1>2. /\ lock' \in [{"cond", "interval"} -> Workers \cup {Server, None}] /\ lock'.cond = lock.cond
      BY <1>1, HandlerFields DEF StatusInv
  <1>3. lock.cond = w /\ Claimable(worker[w].incident)
      BY <1>1 DEF StatusInv, HandlerInv
  <1>4. QED
      BY <1>1, <1>2, <1>3, HandlerMoves

LEMMA EscalateClaimStep == ASSUME StatusInv, NEW w \in Workers, EscalateClaim(w) PROVE StatusInv'
  <1> DEFINE i == worker[w].incident
             again == <<"escalate", i>> \in db.events
  <1>1. worker[w].pc = "claim" /\ lock.cond = None /\ UNCHANGED <<clock, journal, poller, afresh>>
      BY DEF EscalateClaim
  <1>2. \A v \in Workers : lock.cond # v
      BY <1>1, OwnersAreDistinct
  <1>3. CASE ~Claimable(i) /\ worker' = [worker EXCEPT ![w].pc = "end"] /\ UNCHANGED <<db, lock>>
    <2>1. lock' \in [{"cond", "interval"} -> Workers \cup {Server, None}]
        BY <1>3 DEF StatusInv, TypeOK
    <2>2. QED
        BY <1>1, <1>3, <2>1, HandlerMoves
  <1>4. CASE /\ Claimable(i) /\ ~again /\ lock' = [lock EXCEPT !.cond = w]
             /\ worker' = [worker EXCEPT ![w].pc = "close"] /\ UNCHANGED db
    <2>1. lock' \in [{"cond", "interval"} -> Workers \cup {Server, None}] /\ lock'.cond = w
        BY <1>4, HandlerFields DEF StatusInv
    <2>2. QED
        BY <1>1, <1>2, <1>4, <2>1, HandlerMoves
  <1>5. CASE /\ Claimable(i) /\ again /\ db' = [db EXCEPT !.cond.state = "down"]
             /\ worker' = [worker EXCEPT ![w].pc = "end"] /\ UNCHANGED lock
    <2>1. TypeOK /\ CommittedInv /\ HandlerInv(w) /\ db \in Database /\ db.cond \in Condition
        BY DEF StatusInv, TypeOK, Database
    <2>2. afresh # 0
        BY <1>5, <2>1 DEF CommittedInv, Watched, Claimable
    <2>3. /\ db' \in Database /\ db'.cond.state = "down" /\ db'.cond.incident = db.cond.incident
          /\ db'.cond.flapped = db.cond.flapped
          /\ db'.events = db.events /\ db'.alerts = db.alerts /\ db'.jobs = db.jobs
          /\ db'.incidents = db.incidents /\ db'.cursor = db.cursor
      <3> DEFINE cond == [db.cond EXCEPT !.state = "down"]
      <3>1. cond \in Condition /\ cond.state = "down" /\ cond.incident = db.cond.incident
            /\ cond.flapped = db.cond.flapped
          BY <2>1 DEF Condition, State
      <3> HIDE DEF cond
      <3>2. db' = [db EXCEPT !.cond = cond]
          BY <1>5, <2>1 DEF cond, Database
      <3>3. QED
          BY <2>1, <3>1, <3>2 DEF Database
    <2>4. CommittedInv'
        BY <1>1, <2>1, <2>2, <2>3 DEF CommittedInv, Numbered, Told, Cooled
    <2>5. /\ worker' \in [Workers -> Handler] /\ worker'[w].pc = "end" /\ worker'[w].incident = i
          /\ \A v \in Workers : v # w => worker'[v] = worker[v]
        BY <1>5, <2>1, HandlerFields DEF Handler
    <2>6. TypeOK'
        BY <1>1, <1>5, <2>1, <2>3, <2>5 DEF TypeOK
    <2>7. HandlerInv(w)'
        BY <1>1, <2>1, <2>2, <2>3, <2>5 DEF HandlerInv
    <2>8. \A v \in Workers : v # w => HandlerInv(v)'
        BY <1>1, <1>2, <2>3, <2>5, HandlerStays
    <2>9. PollInv'
      <3>1. poller' = [poller EXCEPT !.overtaken = poller'.overtaken]
          BY <1>1, <2>1 DEF TypeOK, Poller
      <3>2. \A s \in Seen : Fits(s, db.cond.state) => Fits(s, db'.cond.state)
          BY <1>5, <2>3 DEF Fits, Claimable
      <3>3. WorthAnnouncing(db, poller.changes[1]) => WorthAnnouncing(db', poller.changes[1])
          BY <2>3 DEF WorthAnnouncing, LastAnnounced
      <3>4. QED
          BY <1>1, <2>3, <3>1, <3>2, <3>3, SamePoll
    <2>10. JournalInv'
        BY <1>1 DEF StatusInv, JournalInv
    <2>11. QED
        BY <2>4, <2>6, <2>7, <2>8, <2>9, <2>10 DEF StatusInv
  <1>6. QED
      BY <1>3, <1>4, <1>5 DEF EscalateClaim

\* The alert that is raised is the last one told.
LEMMA AlertRaised ==
    ASSUME StatusInv, NEW i \in Incident, i <= db.incidents, db.cond.incident = i
    PROVE  LET e == Escalated(i)
           IN  /\ e \in Database /\ Numbered(e) /\ Told(e) /\ Cooled(e) /\ Watched(e)
               /\ e.cond.state = "down" /\ e.cond.incident = db.cond.incident
               /\ e.incidents = db.incidents /\ e.cursor = db.cursor /\ e.jobs = db.jobs
               /\ \A ch : WorthAnnouncing(db, ch) => WorthAnnouncing(e, ch)
               /\ Range(e.alerts) = Range(db.alerts)
                     \cup {[kind |-> "disconnected", incident |-> i, at |-> None]}
  <1> DEFINE e == Escalated(i)
             told == [kind |-> "disconnected", incident |-> i, at |-> None]
             key == <<"escalate", i>>
             cond == [db.cond EXCEPT !.state = "down"]
             old == Len(db.alerts)
  <1>1. TypeOK /\ CommittedInv /\ db \in Database /\ db.cond \in Condition /\ db.alerts \in Seq(Alert)
      BY DEF StatusInv, TypeOK, Database
  <1>2. told \in Alert /\ key \in EventKey
      BY DEF Alert, EventKey
  <1>3. cond \in Condition /\ cond.state = "down" /\ cond.incident = i /\ cond.flapped = db.cond.flapped
      BY <1>1 DEF Condition, State
  <1>4. e = [db EXCEPT !.cond = cond, !.interval = "down", !.events = db.events \cup {key},
                       !.alerts = Append(db.alerts, told)]
      BY <1>1 DEF Escalated, Database
  <1> HIDE DEF told, key, cond, e
  <1> DEFINE alerts == Append(db.alerts, told)
  <1>5. /\ alerts \in Seq(Alert) /\ Len(alerts) = old + 1 /\ DOMAIN alerts = 1..(old + 1)
        /\ DOMAIN db.alerts = 1..old /\ old \in Nat
        /\ alerts[old + 1] = told /\ \A k \in 1..old : alerts[k] = db.alerts[k]
      BY <1>1, <1>2
  <1> HIDE DEF alerts, old
  <1>6. e = [db EXCEPT !.cond = cond, !.interval = "down", !.events = db.events \cup {key}, !.alerts = alerts]
      BY <1>4 DEF alerts
  <1>7. /\ e \in Database /\ e.cond = cond /\ e.interval = "down" /\ e.events = db.events \cup {key}
        /\ e.alerts = alerts /\ e.incidents = db.incidents /\ e.cursor = db.cursor /\ e.jobs = db.jobs
      BY <1>1, <1>2, <1>3, <1>5, <1>6 DEF Database, State
  <1>8. told.kind = "disconnected" /\ told.incident = i
      BY DEF told
  <1>9. \A k \in 1..(old + 1) : k \in 1..old \/ k = old + 1
      BY <1>5
  <1>10. Numbered(db) /\ Told(db) /\ Cooled(db)
      BY <1>1 DEF CommittedInv
  <1>11. Numbered(e)
    <2>1. \A j \in Nat : <<"escalate", j>> \in e.events => j <= e.incidents
        BY <1>7, <1>10 DEF Numbered, key
    <2>2. \A k \in DOMAIN e.alerts : e.alerts[k].incident <= e.incidents
      <3>1. \A k \in 1..old : db.alerts[k].incident <= db.incidents
          BY <1>5, <1>10 DEF Numbered
      <3>2. QED
          BY <1>5, <1>7, <1>8, <1>9, <3>1
    <2>3. QED
        BY <1>3, <1>7, <1>10, <2>1, <2>2 DEF Numbered
  <1>12. Told(e)
    <2>1. ASSUME NEW k \in DOMAIN e.alerts, e.alerts[k].kind = "reconnected"
          PROVE  \E j \in 1..(k - 1) :
                     /\ e.alerts[j].kind = "disconnected"
                     /\ \A m \in (j + 1)..(k - 1) : e.alerts[m].kind # "reconnected"
      <3>1. k \in 1..old /\ db.alerts[k].kind = "reconnected"
          BY <1>5, <1>7, <1>8, <1>9, <2>1
      <3>2. PICK j \in 1..(k - 1) : /\ db.alerts[j].kind = "disconnected"
                                    /\ \A m \in (j + 1)..(k - 1) : db.alerts[m].kind # "reconnected"
          BY <1>5, <1>10, <3>1 DEF Told
      <3>3. \A m \in 1..(k - 1) : e.alerts[m] = db.alerts[m]
          BY <1>5, <1>7, <3>1
      <3>4. \A m \in (j + 1)..(k - 1) : m \in 1..(k - 1)
          BY <1>5, <3>1, <3>2
      <3>5. QED
          BY <3>2, <3>3, <3>4
    <2>2. ASSUME NEW j \in DOMAIN e.alerts, NEW k \in DOMAIN e.alerts, j < k,
                 e.alerts[j].kind = "disconnected", e.alerts[k].kind = "reconnected",
                 e.alerts[j].incident = e.cond.incident, e.cond.incident # None
          PROVE  e.alerts[k].incident = e.cond.incident
      <3>1. k \in 1..old
          BY <1>5, <1>7, <1>8, <1>9, <2>2
      <3>2. j \in 1..old
          BY <1>5, <1>7, <2>2, <3>1
      <3>3. QED
          BY <1>3, <1>5, <1>7, <1>10, <2>2, <3>1, <3>2 DEF Told
    <2>3. QED
        BY <2>1, <2>2 DEF Told
  <1>13. Cooled(e)
    <2>1. \A k \in DOMAIN e.alerts : e.alerts[k].kind = "flapping" =>
              k \in DOMAIN db.alerts /\ e.alerts[k] = db.alerts[k]
        BY <1>5, <1>7, <1>8, <1>9
    <2>2. QED
        BY <1>3, <1>7, <1>10, <2>1 DEF Cooled
  <1>14. Watched(e)
      BY <1>3, <1>7 DEF Watched
  <1>15. ASSUME NEW ch, WorthAnnouncing(db, ch) PROVE WorthAnnouncing(e, ch)
    <2> DEFINE among == {k \in DOMAIN e.alerts : /\ e.alerts[k].kind # "flapping"
                                                 /\ e.cond.incident \in {None, e.alerts[k].incident}}
    <2>1. ch.event = "reconnected"
        BY <1>15 DEF WorthAnnouncing
    <2>2. old + 1 \in among /\ e.alerts[old + 1].kind = "disconnected"
        BY <1>3, <1>5, <1>7, <1>8
    <2>3. \A m \in among : m <= old + 1
        BY <1>5, <1>7
    <2>4. QED
        BY <2>1, <2>2, <2>3 DEF WorthAnnouncing, LastAnnounced
  <1>16. Range(alerts) = Range(db.alerts) \cup {told}
      BY <1>5, <1>9 DEF Range
  <1>17. QED
      BY <1>3, <1>7, <1>11, <1>12, <1>13, <1>14, <1>15, <1>16 DEF e, told

LEMMA EscalateCommitStep == ASSUME StatusInv, NEW w \in Workers, EscalateCommit(w) PROVE StatusInv'
  <1> DEFINE i == worker[w].incident
             e == Escalated(i)
             overtaken == poller.overtaken \/ poller.pc = "blocked"
  <1>1. /\ worker[w].pc = "commit" /\ db' = e /\ lock' = Freed(w)
        /\ poller' = [poller EXCEPT !.overtaken = overtaken]
        /\ worker' = [worker EXCEPT ![w].pc = "end"] /\ UNCHANGED <<clock, journal, afresh>>
      BY DEF EscalateCommit
  <1>2. /\ TypeOK /\ HandlerInv(w) /\ lock.cond = w /\ i \in Incident /\ i <= db.incidents
        /\ db.cond.incident = i /\ db.cond.state = "interrupted"
      BY <1>1 DEF StatusInv, HandlerInv, Claimable
  <1>3. /\ e \in Database /\ Numbered(e) /\ Told(e) /\ Cooled(e) /\ Watched(e)
        /\ e.cond.state = "down" /\ e.cond.incident = db.cond.incident
        /\ e.incidents = db.incidents /\ e.cursor = db.cursor /\ e.jobs = db.jobs
        /\ \A ch : WorthAnnouncing(db, ch) => WorthAnnouncing(e, ch)
      BY <1>2, AlertRaised
  <1> HIDE DEF e
  <1>4. CommittedInv'
      BY <1>1, <1>3 DEF CommittedInv
  <1>5. /\ worker' \in [Workers -> Handler] /\ worker'[w].pc = "end" /\ worker'[w].incident = i
        /\ \A v \in Workers : v # w => worker'[v] = worker[v]
      BY <1>1, <1>2, HandlerFields DEF Handler
  <1>6. /\ lock' \in [{"cond", "interval"} -> Workers \cup {Server, None}]
        /\ \A v \in Workers : v # w => lock.cond # v
      BY <1>1, <1>2 DEF TypeOK, Freed
  <1>7. poller' \in Poller /\ poller' = [poller EXCEPT !.overtaken = poller'.overtaken]
    <2>1. poller \in Poller /\ overtaken \in BOOLEAN
        BY <1>2, PollerFields
    <2> HIDE DEF overtaken
    <2>2. QED
        BY <1>1, <2>1 DEF Poller
  <1>8. TypeOK'
      BY <1>1, <1>2, <1>3, <1>5, <1>6, <1>7 DEF TypeOK
  <1>9. HandlerInv(w)'
      BY <1>1, <1>2, <1>3, <1>5 DEF HandlerInv, Claimable
  <1>10. \A v \in Workers : v # w => HandlerInv(v)'
      BY <1>1, <1>3, <1>5, <1>6, HandlerStays
  <1>11. PollInv'
    <2>1. \A s \in Seen : Fits(s, db.cond.state) => Fits(s, db'.cond.state)
        BY <1>1, <1>2, <1>3 DEF Fits
    <2>2. QED
        BY <1>1, <1>3, <1>7, <2>1, SamePoll
  <1>12. JournalInv'
      BY <1>1 DEF StatusInv, JournalInv
  <1>13. QED
      BY <1>4, <1>8, <1>9, <1>10, <1>11, <1>12 DEF StatusInv

\* A handler is gone; its job was changed or left.
LEMMA HandlerLeaves ==
    ASSUME StatusInv, NEW w \in Workers, worker' = [worker EXCEPT ![w] = NotRunning],
           lock' = lock \/ lock' = Freed(w), UNCHANGED <<clock, journal, poller, afresh>>,
           db' \in Database, CommittedInv', db'.cond = db.cond, db'.alerts = db.alerts,
           db'.incidents = db.incidents, db'.cursor = db.cursor,
           \A j \in Incident : db'.jobs[j].due = db.jobs[j].due
    PROVE  StatusInv'
  <1>1. TypeOK
      BY DEF StatusInv
  <1>2. /\ lock' \in [{"cond", "interval"} -> Workers \cup {Server, None}]
        /\ \A v \in Workers : v # w => (lock.cond = v => lock'.cond = v)
      BY <1>1 DEF TypeOK, Freed
  <1>3. NotRunning \in Handler
      BY NumbersAreNumbers DEF NotRunning, Handler
  <1>4. /\ worker' \in [Workers -> Handler] /\ worker'[w] = NotRunning
        /\ \A v \in Workers : v # w => worker'[v] = worker[v]
      BY <1>1, <1>3 DEF TypeOK
  <1>5. TypeOK'
      BY <1>1, <1>2, <1>4 DEF TypeOK
  <1>6. HandlerInv(w)'
      BY <1>4 DEF HandlerInv, NotRunning
  <1>7. \A v \in Workers : v # w => HandlerInv(v)'
      BY <1>2, <1>4, HandlerStays
  <1>8. PollInv' /\ JournalInv'
      BY PollUndisturbed
  <1>9. QED
      BY <1>5, <1>6, <1>7, <1>8 DEF StatusInv

LEMMA SameDatabase ==
    ASSUME StatusInv, UNCHANGED <<db, afresh>>
    PROVE  /\ db' \in Database /\ CommittedInv' /\ db'.cond = db.cond /\ db'.alerts = db.alerts
           /\ db'.incidents = db.incidents /\ db'.cursor = db.cursor
           /\ \A j \in Incident : db'.jobs[j].due = db.jobs[j].due
  BY SameCommitted DEF StatusInv, TypeOK

LEMMA JobRetried ==
    ASSUME StatusInv, NEW i \in Incident, db.jobs[i].status = "active", db' = Retried(i), UNCHANGED afresh
    PROVE  /\ db' \in Database /\ CommittedInv' /\ db'.cond = db.cond /\ db'.alerts = db.alerts
           /\ db'.incidents = db.incidents /\ db'.cursor = db.cursor
           /\ \A j \in Incident : db'.jobs[j].due = db.jobs[j].due
  <1> DEFINE again == db.jobs[i].tries < RetryLimit
             job == IF again THEN [db.jobs[i] EXCEPT !.status = "queued", !.tries = db.jobs[i].tries + 1]
                    ELSE [db.jobs[i] EXCEPT !.status = "dead"]
  <1>1. db \in Database /\ db.jobs \in [Incident -> Job] /\ db.jobs[i] \in Job
      BY DEF StatusInv, TypeOK, Database
  <1>2. job \in Job /\ job.due = db.jobs[i].due /\ job.status \in {"queued", "dead"}
    <2>1. db.jobs[i].tries \in 0..RetryLimit /\ RetryLimit \in Nat
        BY <1>1, NumbersAreNumbers DEF Job
    <2>2. again => db.jobs[i].tries + 1 \in 0..RetryLimit
        BY <2>1
    <2>3. QED
        BY <1>1, <2>2 DEF Job
  <1>3. db' = [db EXCEPT !.jobs[i] = job]
    <2>1. CASE again
      <3>1. job = [status |-> "queued", due |-> db.jobs[i].due, tries |-> db.jobs[i].tries + 1]
          BY <1>1, <2>1 DEF Job
      <3>2. QED
          BY <1>1, <2>1, <3>1 DEF Retried, Database
    <2>2. CASE ~again
        BY <1>1, <2>2 DEF Retried, Database
    <2>3. QED
        BY <2>1, <2>2
  <1> HIDE DEF job
  <1>4. QED
      BY <1>2, <1>3, JobMoves

LEMMA CompleteStep == ASSUME StatusInv, NEW w \in Workers, Complete(w) PROVE StatusInv'
  <1> DEFINE i == worker[w].incident
             job == [db.jobs[i] EXCEPT !.status = "done"]
             ours == JobOf(w).status = "active" /\ JobOf(w).tries = worker[w].try
  <1>1. /\ worker[w].pc = "end" /\ worker' = [worker EXCEPT ![w] = NotRunning]
        /\ db' = IF ours THEN [db EXCEPT !.jobs[i].status = "done"] ELSE db
        /\ UNCHANGED <<clock, journal, lock, poller, afresh>>
      BY DEF Complete
  <1>2. i \in Incident /\ (afresh = 0 => ~Claimable(i))
      BY <1>1 DEF StatusInv, HandlerInv
  <1>3. CASE ours
    <2>1. db \in Database /\ db.jobs[i] \in Job /\ db.jobs[i].status # "none"
        BY <1>2, <1>3 DEF StatusInv, TypeOK, Database, JobOf
    <2>2. job \in Job /\ job.due = db.jobs[i].due
        BY <2>1 DEF Job
    <2>3. db' = [db EXCEPT !.jobs[i] = job]
        BY <1>1, <1>2, <1>3, <2>1 DEF Database
    <2> HIDE DEF job
    <2>4. /\ db' \in Database /\ CommittedInv' /\ db'.cond = db.cond /\ db'.alerts = db.alerts
          /\ db'.incidents = db.incidents /\ db'.cursor = db.cursor
          /\ \A j \in Incident : db'.jobs[j].due = db.jobs[j].due
        BY <1>1, <1>2, <2>1, <2>2, <2>3, JobMoves
    <2>5. QED
        BY <1>1, <2>4, HandlerLeaves
  <1>4. CASE ~ours
      BY <1>1, <1>4, SameDatabase, HandlerLeaves
  <1>5. QED
      BY <1>3, <1>4

LEMMA EscalateFailsStep == ASSUME StatusInv, NEW w \in Workers, EscalateFails(w) PROVE StatusInv'
  <1> DEFINE i == worker[w].incident
             ours == JobOf(w).status = "active" /\ JobOf(w).tries = worker[w].try
  <1>1. /\ worker[w].pc # "idle" /\ worker' = [worker EXCEPT ![w] = NotRunning]
        /\ db' = IF ours THEN Retried(i) ELSE db
        /\ lock' = Freed(w) /\ UNCHANGED <<clock, journal, poller, afresh>>
      BY DEF EscalateFails
  <1>2. i \in Incident
      BY <1>1 DEF StatusInv, HandlerInv
  <1>3. CASE ours
    <2>1. db.jobs[i].status = "active"
        BY <1>3 DEF JobOf
    <2>2. QED
        BY <1>1, <1>2, <1>3, <2>1, JobRetried, HandlerLeaves
  <1>4. CASE ~ours
      BY <1>1, <1>4, SameDatabase, HandlerLeaves
  <1>5. QED
      BY <1>3, <1>4

LEMMA ExpireStep == ASSUME StatusInv, NEW i \in Incident, Expire(i) PROVE StatusInv'
  <1>1. /\ db.jobs[i].status = "active" /\ db' = Retried(i)
        /\ UNCHANGED <<clock, journal, lock, poller, worker, afresh>>
      BY DEF Expire
  <1>2. /\ db' \in Database /\ CommittedInv' /\ db'.cond = db.cond /\ db'.alerts = db.alerts
        /\ db'.incidents = db.incidents /\ db'.cursor = db.cursor
        /\ \A j \in Incident : db'.jobs[j].due = db.jobs[j].due
      BY <1>1, JobRetried
  <1>3. TypeOK'
      BY <1>1, <1>2 DEF StatusInv, TypeOK
  <1>4. \A v \in Workers : HandlerInv(v)'
      BY <1>1, <1>2, HandlerStays
  <1>5. PollInv' /\ JournalInv'
      BY <1>1, <1>2, PollUndisturbed
  <1>6. QED
      BY <1>2, <1>3, <1>4, <1>5 DEF StatusInv

-----------------------------------------------------------------------------
(* The invariant holds.                                                     *)
LEMMA StatusBegins == Init => StatusInv
  <1> SUFFICES ASSUME Init PROVE StatusInv
      OBVIOUS
  <1>1. /\ clock = 1 /\ journal = <<>> /\ poller = NotPolling /\ afresh = 0
        /\ lock = [cond |-> None, interval |-> None] /\ worker = [w \in Workers |-> NotRunning]
        /\ db.alerts = <<>> /\ db.events = {} /\ db.incidents = 0 /\ db.cursor = 0 /\ db.interval = "none"
        /\ db.cond = [state |-> "none", since |-> None, incident |-> None, flapped |-> None]
        /\ db.jobs = [i \in Incident |-> [status |-> "none", due |-> None, tries |-> 0]]
      BY DEF Init
  <1>2. TypeOK
    <2>1. /\ 0 \in 0..MaxSignals /\ 0 \in 0..MaxIncidents /\ 0 \in 0..RetryLimit /\ 0 \in 0..MaxAfresh
          /\ <<>> \in Seq(Alert) /\ <<>> \in Seq(Signal) /\ <<>> \in Seq(Change)
        BY NumbersAreNumbers
    <2>2. clock \in Time /\ journal \in Seq(Signal) /\ afresh \in 0..MaxAfresh
        BY <1>1, <2>1, TimesAssumption DEF Time
    <2>3. poller \in Poller /\ worker \in [Workers -> Handler]
        BY <1>1, <2>1 DEF Poller, NotPolling, Handler, NotRunning
    <2>4. lock \in [{"cond", "interval"} -> Workers \cup {Server, None}]
        BY <1>1
    <2>5. db.cond \in Condition
        BY <1>1 DEF Condition, State
    <2>6. db.jobs \in [Incident -> Job]
        BY <1>1, <2>1 DEF Job
    <2>7. db.interval \in State \cup {"none"} /\ db.events \in SUBSET EventKey
        BY <1>1
    <2>8. db = [cond |-> db.cond, interval |-> db.interval, events |-> db.events, alerts |-> db.alerts,
                jobs |-> db.jobs, incidents |-> db.incidents, cursor |-> db.cursor]
        BY DEF Init
    <2>9. db \in Database
        BY <1>1, <2>1, <2>5, <2>6, <2>7, <2>8 DEF Database
    <2>10. QED
        BY <1>1, <2>2, <2>3, <2>4, <2>9 DEF TypeOK
  <1>3. JournalInv /\ CommittedInv
      BY <1>1, NumbersAreNumbers DEF JournalInv, CommittedInv, Numbered, Told, Cooled, Watched, None
  <1>4. PollInv
      BY <1>1 DEF PollInv, NotPolling, Recording, InTransaction
  <1>5. \A w \in Workers : HandlerInv(w)
      BY <1>1 DEF HandlerInv, NotRunning
  <1>6. QED
      BY <1>2, <1>3, <1>4, <1>5 DEF StatusInv

LEMMA StatusStep == StatusInv /\ [Next]_vars => StatusInv'
  <1> SUFFICES ASSUME StatusInv, [Next]_vars PROVE StatusInv'
      OBVIOUS
  <1>1. CASE UNCHANGED vars
      BY <1>1 DEF vars, StatusInv, TypeOK, JournalInv, CommittedInv, PollInv, HandlerInv, Numbered, Told, Cooled,
                  Watched, After, WorthAnnouncing, LastAnnounced, Claimable
  <1>2. CASE Next
    <2>1. CASE Tick \/ \E kind \in DOMAIN Turn : Log(kind)
        BY <2>1, TickStep, LogStep
    <2>2. CASE PollStart \/ PollStep \/ PollStops
        BY <2>2, PollStepKeeps
    <2>3. CASE \E w \in Workers : Take(w) \/ EscalateStep(w) \/ EscalateFails(w)
        BY <2>3, TakeStep, EscalateReadStep, EscalateClaimStep, EscalateCloseStep, EscalateCommitStep,
           CompleteStep, EscalateFailsStep DEF EscalateStep
    <2>4. CASE \E i \in Incident : Expire(i)
        BY <2>4, ExpireStep
    <2>5. QED
        BY <1>2, <2>1, <2>2, <2>3, <2>4 DEF Next
  <1>3. QED
      BY <1>1, <1>2

\* The strengthened invariant of the condition, the poll, the handlers and
\* the jobs holds in every reachable state (recordInstanceConnection,
\* escalateIfStillDown).
THEOREM StatusInvariant == Spec => []StatusInv
  <1>1. QED
      BY StatusBegins, StatusStep, PTL DEF Spec

\* The open interval follows the condition, and an interrupted bot has a job
\* that will look at it, for any journal, batches, handlers and retries
\* (recordInstanceConnection, nextIncident, escalateInstance).
THEOREM ConditionCarried == Spec => []ConditionIsCarried
  <1>1. StatusInv => ConditionIsCarried
    <2>1. SUFFICES ASSUME StatusInv PROVE ConditionIsCarried
        OBVIOUS
    <2>2. TypeOK /\ IntervalMatchesCondition
        BY <2>1 DEF StatusInv, CommittedInv, Watched, IntervalMatchesCondition
    <2>3. db.incidents <= MaxIncidents
        BY <2>2, NumbersAreNumbers DEF TypeOK, Database
    <2>4. InterruptedIsWatched
        BY <2>1, <2>3 DEF StatusInv, CommittedInv, Watched, InterruptedIsWatched
    <2>5. QED
        BY <2>2, <2>4 DEF ConditionIsCarried
  <1>2. QED
      BY <1>1, StatusInvariant, PTL

\* Recoveries are announced after problems only and flapping once a window,
\* whatever is read again (WorthAnnouncing, claimFlapping).
THEOREM CausesComeFirst == Spec => []AlertsHaveCauses
  <1>1. StatusInv => AlertsHaveCauses
      BY DEF StatusInv, CommittedInv, Told, Cooled, AlertsHaveCauses, RecoveryFollowsProblem, FlappingOncePerWindow
  <1>2. QED
      BY <1>1, StatusInvariant, PTL

\* A poll that has read to the end leaves the condition its last line says:
\* no line is skipped by batches, replays or failures (changesFromSignals,
\* the drain's cursor).
THEOREM NoLineIsSkipped == Spec => []CaughtUpIsRight
  <1>1. StatusInv => CaughtUpIsRight
    <2>1. SUFFICES ASSUME StatusInv, poller.pc = "save", ~poller.full
                   PROVE  LET last == journal[poller.next].kind
                          IN  db.cond.state = Turn[last] \/ (last = "lost" /\ db.cond.state = "down")
        BY DEF CaughtUpIsRight
    <2> DEFINE last == journal[poller.next].kind
               state == After(poller.seen, poller.changes)
    <2>2. Fits(state, db.cond.state) /\ Agrees(state, last) /\ poller.next # 0 /\ poller.next <= Len(journal)
        BY <2>1 DEF StatusInv, PollInv
    <2>3. last \in {"joined", "lost", "stopped"}
      <3>1. poller.next \in 1..Len(journal)
          BY <2>1, <2>2, PollerFields DEF StatusInv
      <3>2. journal[poller.next] \in Signal
          BY <2>1, <3>1, PollerFields DEF StatusInv
      <3>3. QED
          BY <3>2 DEF Signal
    <2> HIDE DEF last, state
    <2>4. QED
        BY <2>2, <2>3 DEF Fits, Agrees, Turn, last
  <1>2. QED
      BY <1>1, StatusInvariant, PTL

LEMMA OnlyTheOpenIsTold ==
    ASSUME StatusInv, [Next]_vars
    PROVE  \A i \in Incident :
             LET told == [kind |-> "disconnected", incident |-> i, at |-> None]
             IN  told \in Range(db'.alerts) \ Range(db.alerts)
                   => db.cond.incident = i /\ db.cond.state = "interrupted"
  <1> SUFFICES ASSUME NEW i \in Incident,
                      [kind |-> "disconnected", incident |-> i, at |-> None] \in Range(db'.alerts),
                      [kind |-> "disconnected", incident |-> i, at |-> None] \notin Range(db.alerts)
               PROVE  db.cond.incident = i /\ db.cond.state = "interrupted"
      OBVIOUS
  <1> DEFINE told == [kind |-> "disconnected", incident |-> i, at |-> None]
  <1>1. TypeOK /\ db \in Database
      BY DEF StatusInv, TypeOK
  <1>2. db'.alerts # db.alerts
      OBVIOUS
  <1>3. CASE RecordCommit
    <2> DEFINE e == Rounds(db, poller.changes, poller.tell)[Len(poller.changes)]
    <2>1. db' = e /\ poller.pc = "write"
        BY <1>3 DEF RecordCommit, Recorded
    <2>2. /\ Fits(poller.seen, db.cond.state) /\ EventsFit(poller.changes, clock)
          /\ poller.changes # <<>> /\ clock <= Horizon
          /\ (poller.tell => WorthAnnouncing(db, poller.changes[1]))
        BY <2>1 DEF StatusInv, PollInv, Recording, InTransaction
    <2>3. clock \in 1..Horizon /\ db \in Ledger /\ poller.changes \in Seq(Change)
          /\ poller.tell \in BOOLEAN /\ poller.seen \in Seen
      <3>1. clock \in Nat /\ clock # 0 /\ Horizon \in Nat
          BY <1>1, PollerFields, NumbersAreNumbers
      <3>2. QED
          BY <1>1, <2>2, <3>1, PollerFields, LedgerOf
    <2>4. Numbered(db) /\ Told(db) /\ Cooled(db)
        BY DEF StatusInv, CommittedInv
    <2> HIDE DEF e
    <2>5. Grown(db, e)
        BY <2>2, <2>3, <2>4, RoundsKeep DEF e
    <2> HIDE DEF told
    <2>6. PICK k \in DOMAIN e.alerts : e.alerts[k] = told
        BY <2>1 DEF Range, told
    <2>7. told.kind = "disconnected"
        BY DEF told
    <2>8. told \in Range(db.alerts)
        BY <2>5, <2>6, <2>7 DEF Grown, Range
    <2>9. QED
        BY <2>8 DEF told
  <1>4. CASE \E w \in Workers : EscalateCommit(w)
    <2>1. PICK w \in Workers : EscalateCommit(w)
        BY <1>4
    <2>2. worker[w].pc = "commit" /\ db' = Escalated(worker[w].incident)
        BY <2>1 DEF EscalateCommit
    <2>3. /\ worker[w].incident \in Incident /\ worker[w].incident <= db.incidents
          /\ db.cond.incident = worker[w].incident /\ db.cond.state = "interrupted"
        BY <2>2 DEF StatusInv, HandlerInv, Claimable
    <2>4. Range(db'.alerts) = Range(db.alerts)
             \cup {[kind |-> "disconnected", incident |-> worker[w].incident, at |-> None]}
        BY <2>2, <2>3, AlertRaised
    <2>5. i = worker[w].incident
        BY <2>4
    <2>6. QED
        BY <2>3, <2>5
  <1>5. CASE UNCHANGED vars
      BY <1>2, <1>5 DEF vars
  <1>6. CASE Next /\ ~RecordCommit /\ ~\E w \in Workers : EscalateCommit(w)
    <2>1. db'.alerts = db.alerts
        BY <1>1, <1>6 DEF Next, Tick, Log, PollStart, PollStep, PollStops, ReadSeed, ReadOn, ReadRefused, RecordFirst,
               CloseTakes, CloseWaits, OpenConflicts, SaveCursor, Take, EscalateStep, EscalateRead,
               EscalateClaim, EscalateClose, Complete, EscalateFails, Expire, Retried, Database
    <2>2. QED
        BY <1>2, <2>1
  <1>7. QED
      BY <1>3, <1>4, <1>5, <1>6

\* The disconnected alert is raised for the incident that is open, and while
\* the bot is interrupted, in whatever order the two transactions read and
\* wait (claimEscalation, upsertCondition).
THEOREM ClosedIsQuiet == Spec => ClosedStaysQuiet
  <1>1. StatusInv /\ [Next]_vars =>
          [\A i \in Incident :
             LET told == [kind |-> "disconnected", incident |-> i, at |-> None]
             IN  told \in Range(db'.alerts) \ Range(db.alerts)
                   => db.cond.incident = i /\ db.cond.state = "interrupted"]_vars
      BY OnlyTheOpenIsTold
  <1>2. QED
      BY <1>1, StatusInvariant, PTL DEF Spec, ClosedStaysQuiet

-----------------------------------------------------------------------------
(* TaskEditor. *)

-----------------------------------------------------------------------------
(* The parts of a draft. *)

KeysFit(parts, keys) ==
    /\ \A k \in DOMAIN parts : parts[k].key <= keys
    /\ \A j, k \in DOMAIN parts : j # k => parts[j].key # parts[k].key

\* Removing a part leaves the others apart.
LEMMA WithoutKeepsApart ==
    ASSUME NEW D, NEW parts \in Seq(D), NEW keys, KeysFit(parts, keys), NEW key
    PROVE  Without(parts, key) \in Seq(D) /\ KeysFit(Without(parts, key), keys)
  <1> DEFINE keep == [k \in DOMAIN parts |-> parts[k].key # key]
             f == Filtered(parts, keep)
  <1>1. keep \in [DOMAIN parts -> BOOLEAN] /\ DOMAIN parts = 1..Len(parts)
      OBVIOUS
  <1> HIDE DEF keep
  <1>2. f \in Seq(D) /\ Keeps(parts, keep, Len(parts), f)
      BY <1>1, FilteredKeeps
  <1>3. Without(parts, key) = f
      BY DEF Without, keep
  <1> HIDE DEF f
  <1>4. PICK at \in [1..Len(f) -> 1..Len(parts)] : Finds(parts, keep, Len(parts), f, at)
      BY <1>2 DEF Keeps
  <1>5. Len(f) \in Nat /\ DOMAIN f = 1..Len(f) /\ Len(parts) \in Nat
      BY <1>2
  <1>6. \A k \in 1..Len(f) : f[k].key <= keys
      BY <1>1, <1>4 DEF Finds, KeysFit
  <1>7. \A j, k \in 1..Len(f) : j # k => at[j] # at[k]
    <2>1. \A j, k \in 1..Len(f) : j # k => j < k \/ k < j
        BY <1>5
    <2>2. \A j \in 1..Len(f) : at[j] \in Nat
        BY <1>4, <1>5
    <2>3. QED
        BY <1>4, <2>1, <2>2 DEF Finds
  <1>8. \A j, k \in 1..Len(f) : j # k => f[j].key # f[k].key
      BY <1>1, <1>4, <1>7 DEF Finds, KeysFit
  <1>9. QED
      BY <1>2, <1>3, <1>5, <1>6, <1>8 DEF KeysFit

-----------------------------------------------------------------------------
(* The invariant. *)

Seconds == {0, 5, 3600}
Names == {Empty, "task"}
Row == [id : Nat \ {0}, name : Names, steps : Seq(Lines), signals : SUBSET Signals, times : Seq(SUBSET WeekDays),
        interval : SUBSET [min : Seconds, max : Seconds], enabled : BOOLEAN, begun : Nat]
OpenDraft ==
    [id : Nat, name : Names, steps : Seq([key : Nat, command : Fields]), signals : SUBSET Signals,
     times : Seq([key : Nat, days : SUBSET WeekDays]),
     interval : SUBSET [min : DOMAIN SecondsIn, max : DOMAIN SecondsIn], begun : Nat]
Input == [id : Nat, name : Names, steps : Seq(Lines), signals : SUBSET Signals, times : Seq(SUBSET WeekDays),
          interval : SUBSET [min : Seconds, max : Seconds], enabled : BOOLEAN]
SaveRequest == [at : {"sent", "done", "refused"}, input : Input, shown : SUBSET Row, begun : Nat]
Removal == [at : {"sent", "done"}, id : Nat]
Editor == [shown : SUBSET Row, draft : OpenDraft \cup {NoDraft}, keys : Nat, save : SaveRequest \cup {NotSent},
           removal : Removal \cup {NotSent}]

EditorTypes ==
    /\ taskRows \in SUBSET Row /\ IsFiniteSet(taskRows)
    /\ editors \in [TaskPages -> Editor]
    /\ taskIds \in Nat \ {0} /\ drafted \in Nat /\ lost \in Nat

\* A page's keystrokes change one part of its draft; a draft is of a stored
\* task or was begun as a new one.
DraftOK(e) == e.draft # NoDraft =>
    /\ KeysFit(e.draft.steps, e.keys) /\ KeysFit(e.draft.times, e.keys)
    /\ e.draft.id = 0 <=> e.draft.begun # 0

\* A request to store a new task names its draft; a pause is no edit.
SaveOK(e) == e.save # NotSent =>
    /\ e.save.input.id = 0 => e.save.begun # 0
    /\ \A row \in e.save.shown : Stored(e.save.input, row.id, row.begun) = [row EXCEPT !.enabled = ~@]

\* The new drafts a page has in hand, open or sent.
Begun(e) == {e.draft.begun} \cup (IF e.save = NotSent THEN {} ELSE {e.save.begun})
Holds(e) == Begun(e) \ {0}

\* The draft d may still be stored from this page without a loss.
Storable(e, d) ==
    \/ e.save.at = "sent" /\ e.save.begun = d
    \/ e.draft.begun = d /\ ~(e.save.at = "done" /\ e.save.begun = d)

RowsOf(d) == {row \in taskRows : row.begun = d}

RowsOK ==
    \A row \in taskRows :
        /\ row.id <= taskIds /\ row.begun <= drafted
        /\ row.id # FirstTask.id => row.begun # 0
        /\ \A q \in taskRows : q.id = row.id => q = row

\* No two pages have a draft in hand that was begun as the same one.
DraftsApart ==
    /\ \A page \in TaskPages : Holds(editors[page]) \subseteq 1..drafted
    /\ \A p, q \in TaskPages : p # q => Holds(editors[p]) \cap Holds(editors[q]) = {}

\* A draft that may still be stored was stored only as often as requests or answers were lost.
SavedOnce ==
    \A d \in 1..drafted :
        /\ Cardinality(RowsOf(d)) <= 1 + lost
        /\ (\E page \in TaskPages : Storable(editors[page], d)) => Cardinality(RowsOf(d)) <= lost

PagesOK == \A page \in TaskPages : DraftOK(editors[page]) /\ SaveOK(editors[page])

EditorInv == EditorTypes /\ PagesOK /\ StoredCanRun /\ RowsOK /\ DraftsApart /\ SavedOnce

-----------------------------------------------------------------------------
\* What stores no task: the page becomes e.  It takes up no draft of another
\* page, and makes none storable again but by a loss.
LEMMA PageChanges ==
    ASSUME EditorInv, NEW page \in TaskPages, NEW e \in Editor, editors' = [editors EXCEPT ![page] = e],
           DraftOK(e), SaveOK(e), Holds(e) \subseteq Holds(editors[page]),
           taskRows' \subseteq taskRows, UNCHANGED <<taskIds, drafted>>, lost' \in {lost, lost + 1},
           lost' = lost => \A d \in Nat \ {0} : Storable(e, d) => Storable(editors[page], d)
    PROVE  EditorInv'
  <1>1. /\ editors'[page] = e /\ \A q \in TaskPages \ {page} : editors'[q] = editors[q]
        /\ editors' \in [TaskPages -> Editor]
      BY DEF EditorInv, EditorTypes
  <1>2. lost \in Nat /\ lost' \in Nat /\ lost <= lost'
      BY DEF EditorInv, EditorTypes
  <1>3. EditorTypes'
      BY <1>1, <1>2, FS_Subset DEF EditorInv, EditorTypes
  <1>4. PagesOK'
    <2>1. SUFFICES ASSUME NEW q \in TaskPages PROVE (DraftOK(editors[q]) /\ SaveOK(editors[q]))'
        BY DEF PagesOK
    <2>2. DraftOK(editors'[q]) /\ SaveOK(editors'[q])
        BY <1>1 DEF EditorInv, PagesOK
    <2>3. QED
        BY <2>2 DEF DraftOK, SaveOK, KeysFit, Stored, NoDraft, NotSent
  <1>5. StoredCanRun' /\ RowsOK'
      BY DEF EditorInv, StoredCanRun, RowsOK, HasTrigger, FirstTask
  <1>6. DraftsApart'
    <2>1. \A q \in TaskPages : Holds(editors'[q]) \subseteq Holds(editors[q])
        BY <1>1
    <2>2. QED
        BY <2>1 DEF EditorInv, DraftsApart, Holds, Begun
  <1>7. SavedOnce'
    <2>1. SUFFICES ASSUME NEW d \in 1..drafted
                   PROVE  /\ Cardinality(RowsOf(d)') <= 1 + lost'
                          /\ (\E q \in TaskPages : Storable(editors'[q], d)) => Cardinality(RowsOf(d)') <= lost'
        BY DEF SavedOnce, RowsOf, Storable
    <2>2. /\ Cardinality(RowsOf(d)) <= 1 + lost
          /\ (\E q \in TaskPages : Storable(editors[q], d)) => Cardinality(RowsOf(d)) <= lost
        BY <2>1 DEF EditorInv, SavedOnce
    <2>3. IsFiniteSet(RowsOf(d)) /\ RowsOf(d)' \subseteq RowsOf(d)
      <3>1. RowsOf(d) \subseteq taskRows /\ RowsOf(d)' \subseteq RowsOf(d)
          BY DEF RowsOf
      <3>2. QED
          BY <3>1, FS_Subset DEF EditorInv, EditorTypes
    <2>4. /\ Cardinality(RowsOf(d)) \in Nat /\ Cardinality(RowsOf(d)') \in Nat
          /\ Cardinality(RowsOf(d)') <= Cardinality(RowsOf(d))
        BY <2>3, FS_CardinalityType, FS_Subset
    <2>5. CASE lost' = lost + 1
        BY <1>2, <2>2, <2>4, <2>5
    <2>6. CASE lost' = lost
      <3>1. \A q \in TaskPages : Storable(editors'[q], d) => Storable(editors[q], d)
        <4>1. d \in Nat \ {0}
            BY DEF EditorInv, EditorTypes
        <4>2. QED
            BY <1>1, <2>6, <4>1
      <3>2. QED
          BY <1>2, <2>2, <2>4, <2>6, <3>1
    <2>7. QED
        BY <2>5, <2>6
  <1>8. QED
      BY <1>3, <1>4, <1>5, <1>6, <1>7 DEF EditorInv

\* A keystroke: the page's draft becomes d, with the keys given to its new parts.
LEMMA DraftChanges ==
    ASSUME EditorInv, NEW page \in TaskPages, NEW d \in OpenDraft \cup {NoDraft}, NEW parts \in Nat,
           ChangeAdding(page, d, parts), UNCHANGED drafted,
           d # NoDraft => /\ KeysFit(d.steps, editors[page].keys + parts)
                          /\ KeysFit(d.times, editors[page].keys + parts)
                          /\ d.id = 0 <=> d.begun # 0,
           d.begun \in {0, editors[page].draft.begun}
    PROVE  EditorInv'
  <1> DEFINE old == editors[page]
             e == [shown |-> old.shown, draft |-> d, keys |-> old.keys + parts, save |-> old.save,
                   removal |-> old.removal]
  <1>1. old \in Editor /\ editors \in [TaskPages -> Editor] /\ PagesOK /\ lost \in Nat
      BY DEF EditorInv, EditorTypes
  <1>2. e \in Editor /\ e.draft = d /\ e.save = old.save /\ e.keys = old.keys + parts
      BY <1>1 DEF Editor
  <1>3. editors' = [editors EXCEPT ![page].draft = d, ![page].keys = @ + parts]
        /\ UNCHANGED <<taskRows, taskIds, sent, lost>>
      BY DEF ChangeAdding
  <1>4. editors'[page] = e
      BY <1>1, <1>3 DEF Editor
  <1>5. editors' = [editors EXCEPT ![page] = e]
    <2> HIDE DEF e
    <2>1. DOMAIN editors' = TaskPages /\ \A q \in TaskPages \ {page} : editors'[q] = editors[q]
        BY <1>1, <1>3
    <2>2. editors' = [q \in TaskPages |-> editors'[q]]
        BY <1>1, <1>3
    <2>3. QED
        BY <1>1, <1>4, <2>1, <2>2
  <1>6. DraftOK(e) /\ SaveOK(e)
      BY <1>1, <1>2 DEF DraftOK, SaveOK, PagesOK
  <1>7. Holds(e) \subseteq Holds(old)
      BY <1>2 DEF Holds, Begun
  <1>8. \A n \in Nat \ {0} : Storable(e, n) => Storable(old, n)
      BY <1>2 DEF Storable
  <1> HIDE DEF e
  <1>9. QED
      BY <1>2, <1>3, <1>5, <1>6, <1>7, <1>8, PageChanges

-----------------------------------------------------------------------------
(* The form. *)

StepPart == [key : Nat, command : Fields]
TimePart == [key : Nat, days : SUBSET WeekDays]

\* The draft that is open, and its keys.
LEMMA OpenDraftOK ==
    ASSUME EditorInv, NEW page \in TaskPages, Editing(page)
    PROVE  LET d == editors[page].draft
           IN  /\ d \in OpenDraft /\ Draft(page) = d /\ d # NoDraft
               /\ d.steps \in Seq(StepPart) /\ d.times \in Seq(TimePart)
               /\ editors[page].keys \in Nat /\ (d.id = 0 <=> d.begun # 0)
               /\ KeysFit(d.steps, editors[page].keys) /\ KeysFit(d.times, editors[page].keys)
  <1>1. editors[page] \in Editor /\ editors[page].draft # NoDraft /\ Draft(page) = editors[page].draft
      BY DEF EditorInv, EditorTypes, Editing, Draft
  <1>2. DraftOK(editors[page])
      BY DEF EditorInv, PagesOK
  <1>3. editors[page].draft \in OpenDraft /\ editors[page].keys \in Nat
      BY <1>1 DEF Editor
  <1>4. editors[page].draft.steps \in Seq(StepPart) /\ editors[page].draft.times \in Seq(TimePart)
      BY <1>3 DEF OpenDraft, StepPart, TimePart
  <1>5. QED
      BY <1>1, <1>2, <1>3, <1>4 DEF DraftOK

\* Keys that are left alone fit more keys.
LEMMA KeysStillFit ==
    ASSUME NEW D, NEW parts \in Seq([key : Nat, command : D]) \cup Seq([key : Nat, days : D]), NEW keys \in Nat,
           NEW more \in Nat, KeysFit(parts, keys)
    PROVE  KeysFit(parts, keys + more)
  <1>1. \A k \in DOMAIN parts : parts[k].key \in Nat
    <2>1. CASE parts \in Seq([key : Nat, command : D])
      <3>1. \A k \in 1..Len(parts) : parts[k] \in [key : Nat, command : D]
          BY <2>1, ElementOfSeq
      <3>2. DOMAIN parts = 1..Len(parts)
          BY <2>1
      <3>3. QED
          BY <3>1, <3>2
    <2>2. CASE parts \in Seq([key : Nat, days : D])
      <3>1. \A k \in 1..Len(parts) : parts[k] \in [key : Nat, days : D]
          BY <2>2, ElementOfSeq
      <3>2. DOMAIN parts = 1..Len(parts)
          BY <2>2
      <3>3. QED
          BY <3>1, <3>2
    <2>3. QED
        BY <2>1, <2>2
  <1>2. QED
      BY <1>1 DEF KeysFit

\* The steps of the draft become others.
LEMMA StepsChange ==
    ASSUME EditorInv, NEW page \in TaskPages, Editing(page), NEW parts \in Nat, NEW steps \in Seq(StepPart),
           KeysFit(steps, editors[page].keys + parts), UNCHANGED drafted,
           ChangeAdding(page, [Draft(page) EXCEPT !.steps = steps], parts)
    PROVE  EditorInv'
  <1> DEFINE d == editors[page].draft
             new == [d EXCEPT !.steps = steps]
  <1>1. /\ d \in OpenDraft /\ Draft(page) = d /\ d.times \in Seq(TimePart)
        /\ editors[page].keys \in Nat /\ (d.id = 0 <=> d.begun # 0) /\ KeysFit(d.times, editors[page].keys)
      BY OpenDraftOK
  <1>2. new \in OpenDraft /\ new.steps = steps /\ new.times = d.times /\ new.id = d.id /\ new.begun = d.begun
      BY <1>1 DEF OpenDraft, StepPart
  <1>3. ChangeAdding(page, new, parts)
      BY <1>1
  <1>4. KeysFit(new.times, editors[page].keys + parts)
      BY <1>1, <1>2, KeysStillFit DEF TimePart
  <1> HIDE DEF new
  <1>5. QED
      BY <1>1, <1>2, <1>3, <1>4, DraftChanges

\* Its times become others.
LEMMA TimesChange ==
    ASSUME EditorInv, NEW page \in TaskPages, Editing(page), NEW parts \in Nat, NEW times \in Seq(TimePart),
           KeysFit(times, editors[page].keys + parts), UNCHANGED drafted,
           ChangeAdding(page, [Draft(page) EXCEPT !.times = times], parts)
    PROVE  EditorInv'
  <1> DEFINE d == editors[page].draft
             new == [d EXCEPT !.times = times]
  <1>1. /\ d \in OpenDraft /\ Draft(page) = d /\ d.steps \in Seq(StepPart)
        /\ editors[page].keys \in Nat /\ (d.id = 0 <=> d.begun # 0) /\ KeysFit(d.steps, editors[page].keys)
      BY OpenDraftOK
  <1>2. new \in OpenDraft /\ new.times = times /\ new.steps = d.steps /\ new.id = d.id /\ new.begun = d.begun
      BY <1>1 DEF OpenDraft, TimePart
  <1>3. ChangeAdding(page, new, parts)
      BY <1>1
  <1>4. KeysFit(new.steps, editors[page].keys + parts)
      BY <1>1, <1>2, KeysStillFit DEF StepPart
  <1> HIDE DEF new
  <1>5. QED
      BY <1>1, <1>2, <1>3, <1>4, DraftChanges

\* Neither changes, and no part is added.
LEMMA OtherChange ==
    ASSUME EditorInv, NEW page \in TaskPages, Editing(page), NEW new \in OpenDraft, ChangeDraft(page, new),
           new.steps = Draft(page).steps, new.times = Draft(page).times,
           new.id = Draft(page).id, new.begun = Draft(page).begun
    PROVE  EditorInv'
  <1> DEFINE d == editors[page].draft
  <1>1. /\ Draft(page) = d /\ editors[page].keys \in Nat /\ (d.id = 0 <=> d.begun # 0)
        /\ KeysFit(d.steps, editors[page].keys) /\ KeysFit(d.times, editors[page].keys)
      BY OpenDraftOK
  <1>2. ChangeAdding(page, new, 0) /\ UNCHANGED drafted /\ editors[page].keys + 0 = editors[page].keys
      BY <1>1 DEF ChangeDraft
  <1>3. QED
      BY <1>1, <1>2, DraftChanges

LEMMA TypeNameStep == ASSUME EditorInv, NEW page \in TaskPages, TypeName(page) PROVE EditorInv'
  <1>1. PICK name \in Names : ChangeDraft(page, [Draft(page) EXCEPT !.name = name])
      BY DEF TypeName, Names
  <1>2. Editing(page)
      BY DEF TypeName
  <1> DEFINE new == [Draft(page) EXCEPT !.name = name]
  <1>3. Draft(page) \in OpenDraft
      BY <1>2, OpenDraftOK
  <1>4. /\ new \in OpenDraft /\ new.steps = Draft(page).steps /\ new.times = Draft(page).times
        /\ new.id = Draft(page).id /\ new.begun = Draft(page).begun
      BY <1>3 DEF OpenDraft
  <1> HIDE DEF new
  <1>5. ChangeDraft(page, new)
      BY <1>1 DEF new
  <1>6. QED
      BY <1>2, <1>4, <1>5, OtherChange

LEMMA ToggleSignalStep == ASSUME EditorInv, NEW page \in TaskPages, ToggleSignal(page) PROVE EditorInv'
  <1>1. Editing(page)
      BY DEF ToggleSignal
  <1>2. Draft(page) \in OpenDraft
      BY <1>1, OpenDraftOK
  <1>3. PICK signals \in SUBSET Signals : ChangeDraft(page, [Draft(page) EXCEPT !.signals = signals])
    <2>1. PICK signal \in Signals : ChangeDraft(page, [Draft(page) EXCEPT !.signals = Toggled(@, signal)])
        BY DEF ToggleSignal
    <2> DEFINE signals == Toggled(Draft(page).signals, signal)
    <2>2. signals \in SUBSET Signals
        BY <1>2 DEF OpenDraft, Toggled
    <2>3. QED
        BY <2>1, <2>2
  <1> DEFINE new == [Draft(page) EXCEPT !.signals = signals]
  <1>4. /\ new \in OpenDraft /\ new.steps = Draft(page).steps /\ new.times = Draft(page).times
        /\ new.id = Draft(page).id /\ new.begun = Draft(page).begun
      BY <1>2 DEF OpenDraft
  <1> HIDE DEF new
  <1>5. ChangeDraft(page, new)
      BY <1>3 DEF new
  <1>6. QED
      BY <1>1, <1>4, <1>5, OtherChange

TextSpan == [min : DOMAIN SecondsIn, max : DOMAIN SecondsIn]
LEMMA SpanChange ==
    ASSUME EditorInv, NEW page \in TaskPages, Editing(page), NEW interval \in SUBSET TextSpan,
           ChangeDraft(page, [Draft(page) EXCEPT !.interval = interval])
    PROVE  EditorInv'
  <1> DEFINE new == [Draft(page) EXCEPT !.interval = interval]
  <1>1. Draft(page) \in OpenDraft
      BY OpenDraftOK
  <1>2. /\ new \in OpenDraft /\ new.steps = Draft(page).steps /\ new.times = Draft(page).times
        /\ new.id = Draft(page).id /\ new.begun = Draft(page).begun
      BY <1>1 DEF OpenDraft, TextSpan
  <1> HIDE DEF new
  <1>3. ChangeDraft(page, new)
      BY DEF new
  <1>4. QED
      BY <1>2, <1>3, OtherChange

LEMMA ToggleRepeatStep == ASSUME EditorInv, NEW page \in TaskPages, ToggleRepeat(page) PROVE EditorInv'
  <1> DEFINE interval == IF Draft(page).interval = {} THEN {[min |-> "hour", max |-> "hour"]} ELSE {}
  <1>1. Editing(page) /\ ChangeDraft(page, [Draft(page) EXCEPT !.interval = interval])
      BY DEF ToggleRepeat
  <1>2. interval \in SUBSET TextSpan
      BY DEF TextSpan, SecondsIn
  <1> HIDE DEF interval
  <1>3. QED
      BY <1>1, <1>2, SpanChange

LEMMA SetIntervalStep == ASSUME EditorInv, NEW page \in TaskPages, SetInterval(page) PROVE EditorInv'
  <1>1. Editing(page)
      BY DEF SetInterval
  <1>2. PICK i \in Draft(page).interval, end \in {"min", "max"}, text \in DOMAIN SecondsIn :
            ChangeDraft(page, [Draft(page) EXCEPT !.interval = {[i EXCEPT ![end] = text]}])
      BY DEF SetInterval
  <1>3. i \in TextSpan
      BY <1>1, OpenDraftOK DEF OpenDraft, TextSpan
  <1>4. {[i EXCEPT ![end] = text]} \in SUBSET TextSpan
      BY <1>3 DEF TextSpan
  <1>5. QED
      BY <1>1, <1>2, <1>4, SpanChange

\* One part's contents change, its key does not.
LEMMA ContentsChange ==
    ASSUME NEW D, NEW parts \in Seq(D), NEW keys, KeysFit(parts, keys),
           NEW other \in Seq(D), Len(other) = Len(parts),
           \A j \in 1..Len(parts) : other[j].key = parts[j].key
    PROVE  KeysFit(other, keys)
  BY DEF KeysFit

LEMMA SetStepStep == ASSUME EditorInv, NEW page \in TaskPages, SetStep(page) PROVE EditorInv'
  <1> DEFINE parts == Draft(page).steps
  <1>1. Editing(page)
      BY DEF SetStep
  <1>2. parts \in Seq(StepPart) /\ KeysFit(parts, editors[page].keys) /\ editors[page].keys \in Nat
      BY <1>1, OpenDraftOK
  <1>3. PICK k \in DOMAIN parts, command \in Fields :
            ChangeDraft(page, [Draft(page) EXCEPT !.steps =
                [j \in DOMAIN @ |-> IF @[j].key = @[k].key THEN [@[j] EXCEPT !.command = command] ELSE @[j]]])
      BY DEF SetStep
  <1> DEFINE steps == [j \in DOMAIN parts |-> IF parts[j].key = parts[k].key
                                              THEN [parts[j] EXCEPT !.command = command] ELSE parts[j]]
  <1>4. ChangeDraft(page, [Draft(page) EXCEPT !.steps = steps])
      BY <1>3
  <1> HIDE DEF parts
  <1>5. \A j \in 1..Len(parts) : parts[j] \in StepPart
      BY <1>2, ElementOfSeq
  <1>6. DOMAIN parts = 1..Len(parts) /\ Len(parts) \in Nat
      BY <1>2
  <1>7. \A j \in 1..Len(parts) : steps[j] \in StepPart /\ steps[j].key = parts[j].key
      BY <1>5, <1>6 DEF StepPart
  <1>8. steps \in Seq(StepPart) /\ Len(steps) = Len(parts)
    <2>1. DOMAIN steps = 1..Len(parts) /\ steps \in [1..Len(parts) -> StepPart]
        BY <1>6, <1>7
    <2> HIDE DEF steps
    <2>2. QED
        BY <1>6, <2>1
  <1> HIDE DEF steps
  <1>9. KeysFit(steps, editors[page].keys + 0) /\ editors[page].keys + 0 = editors[page].keys
      BY <1>2, <1>7, <1>8, ContentsChange
  <1>10. ChangeAdding(page, [Draft(page) EXCEPT !.steps = steps], 0) /\ UNCHANGED drafted
      BY <1>4 DEF ChangeDraft
  <1>11. QED
      BY <1>1, <1>8, <1>9, <1>10, StepsChange

LEMMA ToggleDayStep == ASSUME EditorInv, NEW page \in TaskPages, ToggleDay(page) PROVE EditorInv'
  <1> DEFINE parts == Draft(page).times
  <1>1. Editing(page)
      BY DEF ToggleDay
  <1>2. parts \in Seq(TimePart) /\ KeysFit(parts, editors[page].keys) /\ editors[page].keys \in Nat
      BY <1>1, OpenDraftOK
  <1>3. PICK k \in DOMAIN parts, day \in WeekDays :
            ChangeDraft(page, [Draft(page) EXCEPT !.times = ToggledAt(@, @[k].key, day)])
      BY DEF ToggleDay
  <1> DEFINE key == parts[k].key
             days(j) == Toggled(parts[j].days, day)
             times == ToggledAt(parts, key, day)
  <1>4. ChangeDraft(page, [Draft(page) EXCEPT !.times = times])
      BY <1>3
  <1> HIDE DEF parts
  <1>5. \A j \in 1..Len(parts) : parts[j] \in TimePart
      BY <1>2, ElementOfSeq
  <1>6. DOMAIN parts = 1..Len(parts) /\ Len(parts) \in Nat
      BY <1>2
  <1>7. \A j \in 1..Len(parts) : times[j] \in TimePart /\ times[j].key = parts[j].key
    <2>1. \A j \in 1..Len(parts) : days(j) \in SUBSET WeekDays
        BY <1>5 DEF TimePart, Toggled
    <2>2. \A j \in 1..Len(parts) : times[j] = IF parts[j].key = key THEN [parts[j] EXCEPT !.days = days(j)]
                                                                  ELSE parts[j]
        BY <1>6 DEF ToggledAt
    <2> HIDE DEF days, times
    <2>3. QED
        BY <1>5, <1>6, <2>1, <2>2 DEF TimePart
  <1>8. times \in Seq(TimePart) /\ Len(times) = Len(parts)
    <2>1. DOMAIN times = 1..Len(parts) /\ times = [j \in 1..Len(parts) |-> times[j]]
        BY <1>6 DEF ToggledAt
    <2> HIDE DEF times
    <2>2. times \in [1..Len(parts) -> TimePart]
        BY <1>7, <2>1
    <2>3. QED
        BY <1>6, <2>1, <2>2
  <1> HIDE DEF times
  <1>9. KeysFit(times, editors[page].keys + 0) /\ editors[page].keys + 0 = editors[page].keys
      BY <1>2, <1>7, <1>8, ContentsChange
  <1>10. ChangeAdding(page, [Draft(page) EXCEPT !.times = times], 0) /\ UNCHANGED drafted
      BY <1>4 DEF ChangeDraft
  <1>11. QED
      BY <1>1, <1>8, <1>9, <1>10, TimesChange

\* A new part takes the next key.
LEMMA PartAdded ==
    ASSUME NEW parts \in Seq(StepPart) \cup Seq(TimePart), NEW keys \in Nat, KeysFit(parts, keys),
           NEW part, part.key = keys + 1
    PROVE  KeysFit(Append(parts, part), keys + 1)
  <1>1. parts \in Seq(StepPart \cup TimePart)
      OBVIOUS
  <1>2. Len(parts) \in Nat /\ \A k \in 1..Len(parts) : parts[k] \in StepPart \cup TimePart
      BY <1>1, ElementOfSeq
  <1>3. \A k \in 1..Len(parts) : parts[k].key \in Nat /\ parts[k].key <= keys
      BY <1>1, <1>2 DEF StepPart, TimePart, KeysFit
  <1> DEFINE more == Append(parts, part)
  <1>4. /\ DOMAIN more = 1..(Len(parts) + 1) /\ more[Len(parts) + 1] = part
        /\ \A k \in 1..Len(parts) : more[k] = parts[k]
      BY <1>1
  <1>5. \A j, k \in 1..Len(parts) : j # k => parts[j].key # parts[k].key
      BY <1>1 DEF KeysFit
  <1> HIDE DEF more
  <1>6. \A k \in 1..(Len(parts) + 1) : k = Len(parts) + 1 \/ k \in 1..Len(parts)
      BY <1>2
  <1>7. QED
      BY <1>3, <1>4, <1>5, <1>6 DEF KeysFit, more

LEMMA AddStepStep == ASSUME EditorInv, NEW page \in TaskPages, AddStep(page) PROVE EditorInv'
  <1> DEFINE parts == Draft(page).steps
             part == [key |-> NextKey(page), command |-> Empty]
             steps == Append(parts, part)
  <1>1. /\ Editing(page) /\ UNCHANGED drafted
        /\ ChangeAdding(page, [Draft(page) EXCEPT !.steps = steps], 1)
      BY DEF AddStep
  <1>2. parts \in Seq(StepPart) /\ KeysFit(parts, editors[page].keys) /\ editors[page].keys \in Nat
      BY <1>1, OpenDraftOK
  <1>3. part \in StepPart /\ part.key = editors[page].keys + 1
      BY <1>2 DEF StepPart, NextKey, Fields
  <1> HIDE DEF part, parts
  <1>4. steps \in Seq(StepPart)
      BY <1>2, <1>3
  <1>5. KeysFit(steps, editors[page].keys + 1)
      BY <1>2, <1>3, PartAdded
  <1> HIDE DEF steps
  <1>6. QED
      BY <1>1, <1>4, <1>5, StepsChange

LEMMA AddTimeStep == ASSUME EditorInv, NEW page \in TaskPages, AddTime(page) PROVE EditorInv'
  <1> DEFINE parts == Draft(page).times
             part == [key |-> NextKey(page), days |-> WeekDays]
             times == Append(parts, part)
  <1>1. /\ Editing(page) /\ UNCHANGED drafted
        /\ ChangeAdding(page, [Draft(page) EXCEPT !.times = times], 1)
      BY DEF AddTime
  <1>2. parts \in Seq(TimePart) /\ KeysFit(parts, editors[page].keys) /\ editors[page].keys \in Nat
      BY <1>1, OpenDraftOK
  <1>3. part \in TimePart /\ part.key = editors[page].keys + 1
      BY <1>2 DEF TimePart, NextKey
  <1> HIDE DEF part, parts
  <1>4. times \in Seq(TimePart)
      BY <1>2, <1>3
  <1>5. KeysFit(times, editors[page].keys + 1)
      BY <1>2, <1>3, PartAdded
  <1> HIDE DEF times
  <1>6. QED
      BY <1>1, <1>4, <1>5, TimesChange

LEMMA RemoveStepStep == ASSUME EditorInv, NEW page \in TaskPages, RemoveStep(page) PROVE EditorInv'
  <1>1. Editing(page)
      BY DEF RemoveStep
  <1> DEFINE parts == Draft(page).steps
  <1>2. parts \in Seq(StepPart) /\ KeysFit(parts, editors[page].keys) /\ editors[page].keys \in Nat
      BY <1>1, OpenDraftOK
  <1>3. PICK key : ChangeDraft(page, [Draft(page) EXCEPT !.steps = Without(parts, key)])
      BY DEF RemoveStep
  <1>4. Without(parts, key) \in Seq(StepPart) /\ KeysFit(Without(parts, key), editors[page].keys)
      BY <1>2, WithoutKeepsApart
  <1>5. /\ ChangeAdding(page, [Draft(page) EXCEPT !.steps = Without(parts, key)], 0) /\ UNCHANGED drafted
        /\ editors[page].keys + 0 = editors[page].keys
      BY <1>2, <1>3 DEF ChangeDraft
  <1> HIDE DEF parts
  <1>6. QED
      BY <1>1, <1>4, <1>5, StepsChange

LEMMA RemoveTimeStep == ASSUME EditorInv, NEW page \in TaskPages, RemoveTime(page) PROVE EditorInv'
  <1>1. Editing(page)
      BY DEF RemoveTime
  <1> DEFINE parts == Draft(page).times
  <1>2. parts \in Seq(TimePart) /\ KeysFit(parts, editors[page].keys) /\ editors[page].keys \in Nat
      BY <1>1, OpenDraftOK
  <1>3. PICK key : ChangeDraft(page, [Draft(page) EXCEPT !.times = Without(parts, key)])
      BY DEF RemoveTime
  <1>4. Without(parts, key) \in Seq(TimePart) /\ KeysFit(Without(parts, key), editors[page].keys)
      BY <1>2, WithoutKeepsApart
  <1>5. /\ ChangeAdding(page, [Draft(page) EXCEPT !.times = Without(parts, key)], 0) /\ UNCHANGED drafted
        /\ editors[page].keys + 0 = editors[page].keys
      BY <1>2, <1>3 DEF ChangeDraft
  <1> HIDE DEF parts
  <1>6. QED
      BY <1>1, <1>4, <1>5, TimesChange

LEMMA CancelTaskStep == ASSUME EditorInv, NEW page \in TaskPages, CancelTask(page) PROVE EditorInv'
  <1>1. ChangeAdding(page, NoDraft, 0) /\ UNCHANGED drafted /\ NoDraft.begun = 0
      BY DEF CancelTask, ChangeDraft, NoDraft
  <1>2. QED
      BY <1>1, DraftChanges

-----------------------------------------------------------------------------
(* A task that is shown, as a draft. *)

\* Each number of seconds is the text of one field.
LEMMA TextsAreNumbers ==
    ASSUME NEW n \in Seconds
    PROVE  TextOf(n) \in DOMAIN SecondsIn /\ SecondsIn[TextOf(n)] = n
  <1>1. \E text \in DOMAIN SecondsIn : SecondsIn[text] = n
    <2>1. DOMAIN SecondsIn = {"empty", "short", "hour"} /\ SecondsIn["empty"] = 0
          /\ SecondsIn["short"] = 5 /\ SecondsIn["hour"] = 3600
        BY DEF SecondsIn
    <2>2. QED
        BY <2>1 DEF Seconds
  <1>2. QED
      BY <1>1 DEF TextOf

LEMMA DraftOfRow ==
    ASSUME NEW row \in Row, NEW keys \in Nat
    PROVE  LET d == DraftOf(row, keys)
           IN  /\ d \in OpenDraft /\ d.id = row.id /\ d.begun = 0 /\ d # NoDraft
               /\ KeysFor(row) \in Nat
               /\ KeysFit(d.steps, keys + KeysFor(row)) /\ KeysFit(d.times, keys + KeysFor(row))
  <1> DEFINE m == Len(row.steps)
             n == Len(row.times)
             steps == [k \in DOMAIN row.steps |-> [key |-> keys + k, command |-> row.steps[k]]]
             times == [k \in DOMAIN row.times |-> [key |-> keys + m + k, days |-> row.times[k]]]
             interval == {[min |-> TextOf(i.min), max |-> TextOf(i.max)] : i \in row.interval}
  <1>1. row.steps \in Seq(Lines) /\ row.times \in Seq(SUBSET WeekDays)
      BY DEF Row
  <1>2. /\ m \in Nat /\ n \in Nat /\ DOMAIN row.steps = 1..m /\ DOMAIN row.times = 1..n
        /\ (\A k \in 1..m : row.steps[k] \in Lines) /\ \A k \in 1..n : row.times[k] \in SUBSET WeekDays
      BY <1>1, ElementOfSeq
  <1> HIDE DEF m, n
  <1>3. steps \in Seq(StepPart) /\ times \in Seq(TimePart)
    <2>1. steps \in [1..m -> StepPart]
        BY <1>2 DEF StepPart, Fields
    <2>2. times \in [1..n -> TimePart]
        BY <1>2 DEF TimePart
    <2>3. QED
        BY <1>2, <2>1, <2>2
  <1>4. interval \in SUBSET TextSpan
    <2>1. \A i \in row.interval : i.min \in Seconds /\ i.max \in Seconds
        BY DEF Row
    <2>2. QED
        BY <2>1, TextsAreNumbers DEF TextSpan
  <1>5. DraftOf(row, keys) = [id |-> row.id, name |-> row.name, steps |-> steps, signals |-> row.signals,
                              times |-> times, interval |-> interval, begun |-> 0]
      BY DEF DraftOf, m
  <1>6. KeysFor(row) = m + n
      BY DEF KeysFor, m, n
  <1>7. KeysFit(steps, keys + (m + n)) /\ KeysFit(times, keys + (m + n))
      BY <1>2 DEF KeysFit
  <1> HIDE DEF steps, times, interval
  <1>8. DraftOf(row, keys) \in OpenDraft
      BY <1>3, <1>4, <1>5 DEF OpenDraft, Row, StepPart, TimePart, TextSpan
  <1>9. DraftOf(row, keys) # NoDraft
    <2>1. "id" \in DOMAIN DraftOf(row, keys) /\ "id" \notin DOMAIN NoDraft
        BY <1>5 DEF NoDraft
    <2>2. QED
        BY <2>1
  <1>10. QED
      BY <1>2, <1>5, <1>6, <1>7, <1>8, <1>9

\* What is sent of a task that is shown is the task, but for being on.
LEMMA PauseSendsTheTask ==
    ASSUME NEW row \in Row, NEW keys \in Nat, NEW on \in BOOLEAN
    PROVE  LET input == Submitted(DraftOf(row, keys), on)
           IN  input \in Input /\ input.id = row.id
               /\ Stored(input, row.id, row.begun) = [row EXCEPT !.enabled = on]
  <1> DEFINE d == DraftOf(row, keys)
             input == Submitted(d, on)
             keep == [k \in DOMAIN d.steps |-> d.steps[k].command # Empty]
             steps == Filtered(Commands(d.steps), keep)
             times == [k \in DOMAIN d.times |-> d.times[k].days]
             interval == {[min |-> SecondsIn[i.min], max |-> SecondsIn[i.max]] : i \in d.interval}
  <1>1. /\ row.steps \in Seq(Lines) /\ row.times \in Seq(SUBSET WeekDays) /\ row.interval \in SUBSET [min : Seconds, max : Seconds]
      BY DEF Row
  <1>2. /\ d.id = row.id /\ d.name = row.name /\ d.signals = row.signals
        /\ d.steps = [k \in DOMAIN row.steps |-> [key |-> keys + k, command |-> row.steps[k]]]
        /\ d.times = [k \in DOMAIN row.times |-> [key |-> keys + Len(row.steps) + k, days |-> row.times[k]]]
        /\ d.interval = {[min |-> TextOf(i.min), max |-> TextOf(i.max)] : i \in row.interval}
      BY DEF DraftOf
  <1>3. input = [id |-> d.id, name |-> d.name, steps |-> steps, signals |-> d.signals, times |-> times,
                 interval |-> interval, enabled |-> on]
      BY DEF Submitted
  <1> DEFINE m == DOMAIN row.steps
             n == DOMAIN row.times
  <1> HIDE DEF d, input, m, n
  <1>4. steps = row.steps
    <2>1. row.steps = [k \in m |-> row.steps[k]]
        BY <1>1 DEF m
    <2>2. DOMAIN d.steps = m /\ \A k \in m : d.steps[k].command = row.steps[k]
        BY <1>2 DEF m
    <2>3. Commands(d.steps) = row.steps
        BY <2>1, <2>2 DEF Commands
    <2>4. \A k \in m : row.steps[k] \in Lines /\ row.steps[k] # Empty
        BY <1>1, ElementOfSeq, EditorAssumption DEF m
    <2>5. keep \in [m -> BOOLEAN] /\ \A k \in m : keep[k]
        BY <2>2, <2>4
    <2> HIDE DEF keep
    <2>6. QED
        BY <1>1, <2>3, <2>5, AllKept DEF m
  <1>5. times = row.times
    <2>1. row.times = [k \in n |-> row.times[k]]
        BY <1>1 DEF n
    <2>2. DOMAIN d.times = n /\ \A k \in n : d.times[k].days = row.times[k]
        BY <1>2 DEF n
    <2>3. QED
        BY <2>1, <2>2
  <1>6. interval = row.interval
    <2> DEFINE text(i) == [min |-> TextOf(i.min), max |-> TextOf(i.max)]
               number(i) == [min |-> SecondsIn[i.min], max |-> SecondsIn[i.max]]
    <2>1. \A i \in row.interval : number(text(i)) = i
      <3>1. ASSUME NEW i \in row.interval PROVE number(text(i)) = i
        <4>1. i \in [min : Seconds, max : Seconds]
            BY <1>1
        <4>2. SecondsIn[TextOf(i.min)] = i.min /\ SecondsIn[TextOf(i.max)] = i.max
            BY <4>1, TextsAreNumbers
        <4>3. QED
            BY <4>1, <4>2
      <3>2. QED
          BY <3>1
    <2>2. interval = {number(i) : i \in d.interval} /\ d.interval = {text(i) : i \in row.interval}
        BY <1>2
    <2> HIDE DEF text, number, interval
    <2>3. QED
        BY <2>1, <2>2
  <1> HIDE DEF steps, times, interval
  <1>7. input = [id |-> row.id, name |-> row.name, steps |-> row.steps, signals |-> row.signals,
                 times |-> row.times, interval |-> row.interval, enabled |-> on]
      BY <1>2, <1>3, <1>4, <1>5, <1>6
  <1>8. input \in Input /\ Stored(input, row.id, row.begun) = [row EXCEPT !.enabled = on]
      BY <1>7 DEF Row, Input, Stored
  <1>9. QED
      BY <1>7, <1>8 DEF d, input

LEMMA EditTaskStep == ASSUME EditorInv, NEW page \in TaskPages, EditTask(page) PROVE EditorInv'
  <1> DEFINE keys == editors[page].keys
  <1>1. PICK row \in editors[page].shown : ChangeAdding(page, DraftOf(row, keys), KeysFor(row)) /\ UNCHANGED drafted
      BY DEF EditTask
  <1>2. row \in Row /\ keys \in Nat
      BY DEF EditorInv, EditorTypes, Editor
  <1> DEFINE d == DraftOf(row, keys)
  <1>3. /\ d \in OpenDraft /\ d.id = row.id /\ d.begun = 0 /\ d # NoDraft /\ KeysFor(row) \in Nat
        /\ KeysFit(d.steps, keys + KeysFor(row)) /\ KeysFit(d.times, keys + KeysFor(row))
      BY <1>2, DraftOfRow
  <1>4. row.id # 0
      BY <1>2 DEF Row
  <1> HIDE DEF d
  <1>5. ChangeAdding(page, d, KeysFor(row)) /\ UNCHANGED drafted
      BY <1>1 DEF d
  <1>6. QED
      BY <1>3, <1>4, <1>5, DraftChanges

-----------------------------------------------------------------------------
(* Requests, their answers and the pages. *)

LEMMA AddTaskStep == ASSUME EditorInv, NEW page \in TaskPages, AddTask(page) PROVE EditorInv'
  <1> DEFINE old == editors[page]
             d == EmptyDraft(page)
             e == [old EXCEPT !.draft = d, !.keys = old.keys + 1]
  <1>1. /\ old \in Editor /\ old.draft = NoDraft /\ editors \in [TaskPages -> Editor]
        /\ drafted \in Nat /\ drafted' = drafted + 1 /\ UNCHANGED <<taskRows, taskIds, lost>>
      BY DEF EditorInv, EditorTypes, AddTask, ChangeAdding, Editing, Draft
  <1>2. editors' = [editors EXCEPT ![page] = e]
      BY DEF AddTask, ChangeAdding
  <1>3. old.keys \in Nat
      BY <1>1 DEF Editor
  <1>4. /\ d = [id |-> 0, name |-> Empty, steps |-> <<[key |-> old.keys + 1, command |-> Empty]>>, signals |-> {},
                times |-> <<>>, interval |-> {}, begun |-> drafted + 1]
      BY DEF EmptyDraft, NextKey
  <1> HIDE DEF d
  <1>5. d \in OpenDraft /\ KeysFit(d.steps, old.keys + 1) /\ KeysFit(d.times, old.keys + 1)
    <2> DEFINE part == [key |-> old.keys + 1, command |-> Empty]
    <2>1. part \in [key : Nat, command : Fields] /\ part.key = old.keys + 1
        BY <1>3 DEF Fields
    <2> HIDE DEF part
    <2>2. <<part>> \in Seq([key : Nat, command : Fields]) /\ KeysFit(<<part>>, old.keys + 1)
        BY <1>3, <2>1 DEF KeysFit
    <2>3. <<>> \in Seq([key : Nat, days : SUBSET WeekDays]) /\ KeysFit(<<>>, old.keys + 1)
        BY DEF KeysFit
    <2>4. d.steps = <<part>> /\ d.times = <<>>
        BY <1>4 DEF part
    <2>5. d.id \in Nat /\ d.name \in Names /\ d.signals \in SUBSET Signals /\ d.begun \in Nat
          /\ d.interval \in SUBSET [min : DOMAIN SecondsIn, max : DOMAIN SecondsIn]
        BY <1>1, <1>4 DEF Names
    <2>6. d \in OpenDraft
        BY <1>4, <2>2, <2>3, <2>4, <2>5 DEF OpenDraft
    <2>7. QED
        BY <2>2, <2>3, <2>4, <2>6
  <1>6. e \in Editor /\ e.draft = d /\ e.keys = old.keys + 1 /\ e.save = old.save
    <2>1. d \in OpenDraft \cup {NoDraft} /\ old.keys + 1 \in Nat /\ old \in Editor
        BY <1>1, <1>3, <1>5
    <2>2. QED
        BY <2>1 DEF Editor
  <1>7. d.id = 0 /\ d.begun = drafted + 1
      BY <1>4
  <1> HIDE DEF e
  <1>8. /\ editors'[page] = e /\ \A q \in TaskPages \ {page} : editors'[q] = editors[q]
        /\ editors' \in [TaskPages -> Editor]
      BY <1>1, <1>2, <1>6
  <1>9. EditorTypes'
    <2>1. EditorTypes /\ drafted' \in Nat
        BY <1>1 DEF EditorInv
    <2>2. QED
        BY <1>1, <1>8, <2>1 DEF EditorTypes
  <1>10. PagesOK'
    <2>1. DraftOK(e) /\ SaveOK(e)
        BY <1>1, <1>5, <1>6, <1>7 DEF DraftOK, SaveOK, EditorInv, PagesOK
    <2>2. \A q \in TaskPages : DraftOK(editors'[q]) /\ SaveOK(editors'[q])
        BY <1>8, <2>1 DEF EditorInv, PagesOK
    <2>3. QED
        BY <2>2 DEF PagesOK, DraftOK, SaveOK, KeysFit, Stored, NoDraft, NotSent
  <1>11. StoredCanRun' /\ RowsOK'
    <2>1. \A row \in taskRows : row.begun \in Nat
        BY DEF EditorInv, EditorTypes, Row
    <2>2. QED
        BY <1>1, <2>1 DEF EditorInv, StoredCanRun, RowsOK, HasTrigger, FirstTask
  <1>12. Holds(e) \subseteq Holds(old) \cup {drafted + 1} /\ Holds(old) \subseteq 1..drafted
      BY <1>1, <1>6, <1>7 DEF Holds, Begun, NoDraft, EditorInv, DraftsApart
  <1>13. DraftsApart'
    <2>1. \A q \in TaskPages : Holds(editors[q]) \subseteq 1..drafted
        BY DEF EditorInv, DraftsApart
    <2>2. \A q \in TaskPages : Holds(editors'[q]) \subseteq 1..drafted'
        BY <1>1, <1>8, <1>12, <2>1
    <2>3. \A q \in TaskPages \ {page} : Holds(e) \cap Holds(editors[q]) = {}
      <3>1. drafted + 1 \notin 1..drafted
          BY <1>1
      <3>2. \A q \in TaskPages \ {page} : Holds(old) \cap Holds(editors[q]) = {}
          BY DEF EditorInv, DraftsApart
      <3>3. QED
          BY <1>12, <2>1, <3>1, <3>2
    <2>4. \A p, q \in TaskPages : p # q => Holds(editors'[p]) \cap Holds(editors'[q]) = {}
        BY <1>8, <2>3 DEF EditorInv, DraftsApart
    <2>5. QED
        BY <2>2, <2>4 DEF DraftsApart, Holds, Begun
  <1>14. SavedOnce'
    <2>1. SUFFICES ASSUME NEW d0 \in 1..(drafted + 1)
                   PROVE  /\ Cardinality(RowsOf(d0)) <= 1 + lost
                          /\ (\E q \in TaskPages : Storable(editors'[q], d0)) => Cardinality(RowsOf(d0)) <= lost
        BY <1>1 DEF SavedOnce, RowsOf, Storable
    <2>2. CASE d0 = drafted + 1
      <3>1. RowsOf(d0) = {} /\ lost \in Nat
        <4>1. \A row \in taskRows : row.begun \in Nat /\ row.begun <= drafted
            BY DEF EditorInv, EditorTypes, Row, RowsOK
        <4>2. QED
            BY <1>1, <2>2, <4>1 DEF RowsOf, EditorInv, EditorTypes
      <3>2. QED
          BY <3>1, FS_EmptySet
    <2>3. CASE d0 # drafted + 1
      <3>1. d0 \in 1..drafted
          BY <1>1, <2>3
      <3>2. Storable(e, d0) => Storable(old, d0)
        <4>1. e.draft.begun # d0
            BY <1>6, <1>7, <2>3
        <4>2. QED
            BY <1>6, <4>1 DEF Storable
      <3>3. QED
          BY <1>8, <3>1, <3>2 DEF EditorInv, SavedOnce
    <2>4. QED
        BY <2>2, <2>3
  <1>15. QED
      BY <1>9, <1>10, <1>11, <1>13, <1>14 DEF EditorInv

\* The steps that are sent are commands that were typed.
LEMMA SubmittedIsInput ==
    ASSUME NEW d \in OpenDraft, NEW on \in BOOLEAN
    PROVE  Submitted(d, on) \in Input /\ Submitted(d, on).id = d.id
  <1> DEFINE input == Submitted(d, on)
             keep == [k \in DOMAIN d.steps |-> d.steps[k].command # Empty]
             typedSteps == Commands(d.steps)
             steps == Filtered(typedSteps, keep)
             times == [k \in DOMAIN d.times |-> d.times[k].days]
             interval == {[min |-> SecondsIn[i.min], max |-> SecondsIn[i.max]] : i \in d.interval}
             m == Len(d.steps)
             n == Len(d.times)
  <1>1. /\ d.steps \in Seq(StepPart) /\ d.times \in Seq(TimePart) /\ d.interval \in SUBSET TextSpan
        /\ d.id \in Nat /\ d.name \in Names /\ d.signals \in SUBSET Signals
      BY DEF OpenDraft, StepPart, TimePart, TextSpan
  <1>2. m \in Nat /\ n \in Nat /\ DOMAIN d.steps = 1..m /\ DOMAIN d.times = 1..n
        /\ (\A k \in 1..m : d.steps[k] \in StepPart) /\ \A k \in 1..n : d.times[k] \in TimePart
      BY <1>1, ElementOfSeq
  <1>3. input = [id |-> d.id, name |-> d.name, steps |-> steps, signals |-> d.signals, times |-> times,
                 interval |-> interval, enabled |-> on]
      BY DEF Submitted
  <1> HIDE DEF input, m, n
  <1>4. steps \in Seq(Lines)
    <2>1. typedSteps = [k \in 1..m |-> d.steps[k].command]
        BY <1>2 DEF Commands
    <2>2. \A k \in 1..m : d.steps[k].command \in Fields
        BY <1>2 DEF StepPart
    <2> HIDE DEF typedSteps
    <2>3. typedSteps \in Seq(Fields) /\ Len(typedSteps) = m /\ DOMAIN typedSteps = 1..m
        BY <1>2, <2>1, <2>2
    <2>4. keep \in [1..m -> BOOLEAN] /\ \A k \in 1..m : keep[k] => typedSteps[k] # Empty
        BY <1>2, <2>1
    <2> HIDE DEF keep
    <2>5. steps \in Seq(Fields) /\ Keeps(typedSteps, keep, m, steps)
        BY <2>3, <2>4, FilteredKeeps
    <2> HIDE DEF steps
    <2>6. PICK at \in [1..Len(steps) -> 1..m] : Finds(typedSteps, keep, m, steps, at)
        BY <2>5 DEF Keeps
    <2>7. \A k \in 1..Len(steps) : steps[k] \in Fields /\ steps[k] # Empty
        BY <2>4, <2>5, <2>6, ElementOfSeq DEF Finds
    <2>8. steps = [k \in 1..Len(steps) |-> steps[k]] /\ Len(steps) \in Nat
        BY <2>5
    <2>9. steps \in [1..Len(steps) -> Lines]
        BY <2>7, <2>8 DEF Fields
    <2>10. QED
        BY <2>8, <2>9
  <1>5. times \in Seq(SUBSET WeekDays)
    <2>1. times \in [1..n -> SUBSET WeekDays]
        BY <1>2 DEF TimePart
    <2>2. QED
        BY <1>2, <2>1
  <1>6. interval \in SUBSET [min : Seconds, max : Seconds]
    <2>1. \A text \in DOMAIN SecondsIn : SecondsIn[text] \in Seconds
        BY DEF SecondsIn, Seconds
    <2>2. \A i \in d.interval : i.min \in DOMAIN SecondsIn /\ i.max \in DOMAIN SecondsIn
        BY <1>1 DEF TextSpan
    <2>3. QED
        BY <2>1, <2>2
  <1> HIDE DEF steps, times, interval
  <1>7. input \in Input /\ input.id = d.id
      BY <1>1, <1>3, <1>4, <1>5, <1>6 DEF Input
  <1>8. QED
      BY <1>7 DEF input

\* A save is sent: of the open draft, or of none.
LEMMA SaveIsSent ==
    ASSUME EditorInv, NEW page \in TaskPages, NEW request \in SaveRequest, request.at = "sent",
           Send(page, "save", request), request.begun \in {0, editors[page].draft.begun},
           request.input.id = 0 => request.begun # 0,
           \A row \in request.shown : Stored(request.input, row.id, row.begun) = [row EXCEPT !.enabled = ~@]
    PROVE  EditorInv'
  <1> DEFINE old == editors[page]
             e == [old EXCEPT !.save = request]
  <1>1. old \in Editor /\ old.save = NotSent /\ UNCHANGED <<taskRows, taskIds, drafted, lost>>
      BY DEF EditorInv, EditorTypes, Send, Editor
  <1>2. editors' = [editors EXCEPT ![page] = e]
      BY DEF Send
  <1>3. e \in Editor /\ e.draft = old.draft /\ e.keys = old.keys /\ e.save = request
      BY <1>1 DEF Editor
  <1> HIDE DEF e
  <1>4. DraftOK(e) /\ SaveOK(e)
      BY <1>3 DEF DraftOK, SaveOK, EditorInv, PagesOK
  <1>5. Holds(e) \subseteq Holds(old)
      BY <1>3 DEF Holds, Begun
  <1>6. \A d \in Nat \ {0} : Storable(e, d) => Storable(old, d)
      BY <1>1, <1>3 DEF Storable, NotSent
  <1>7. QED
      BY <1>1, <1>2, <1>3, <1>4, <1>5, <1>6, PageChanges

LEMMA SaveTaskStep == ASSUME EditorInv, NEW page \in TaskPages, SaveTask(page) PROVE EditorInv'
  <1> DEFINE d == editors[page].draft
             request == [at |-> "sent", input |-> Submitted(d, TRUE), shown |-> {}, begun |-> d.begun]
  <1>1. Editing(page) /\ Draft(page) = d /\ Send(page, "save", request)
      BY DEF SaveTask, Draft
  <1>2. d \in OpenDraft /\ (d.id = 0 <=> d.begun # 0)
      BY <1>1, OpenDraftOK
  <1>3. Submitted(d, TRUE) \in Input /\ Submitted(d, TRUE).id = d.id /\ d.begun \in Nat
      BY <1>2, SubmittedIsInput DEF OpenDraft
  <1> HIDE DEF d
  <1>4. request \in SaveRequest /\ request.at = "sent" /\ request.shown = {} /\ request.begun = d.begun
        /\ request.input.id = d.id
      BY <1>3 DEF SaveRequest
  <1> HIDE DEF request
  <1>5. QED
      BY <1>1, <1>2, <1>4, SaveIsSent DEF d

LEMMA PauseTaskStep == ASSUME EditorInv, NEW page \in TaskPages, PauseTask(page) PROVE EditorInv'
  <1> DEFINE keys == editors[page].keys
  <1>1. PICK row \in editors[page].shown :
            Send(page, "save", [at |-> "sent", input |-> Submitted(DraftOf(row, keys), ~row.enabled),
                                shown |-> {row}, begun |-> 0])
      BY DEF PauseTask
  <1> DEFINE input == Submitted(DraftOf(row, keys), ~row.enabled)
             request == [at |-> "sent", input |-> input, shown |-> {row}, begun |-> 0]
  <1>2. row \in Row /\ keys \in Nat
      BY DEF EditorInv, EditorTypes, Editor
  <1>3. row.enabled \in BOOLEAN /\ row.id # 0
      BY <1>2 DEF Row
  <1>4. /\ input \in Input /\ input.id = row.id
        /\ Stored(input, row.id, row.begun) = [row EXCEPT !.enabled = ~row.enabled]
      BY <1>2, <1>3, PauseSendsTheTask
  <1> HIDE DEF input
  <1>5. /\ request \in SaveRequest /\ request.at = "sent" /\ request.shown = {row} /\ request.begun = 0
        /\ request.input = input
      BY <1>2, <1>4 DEF SaveRequest
  <1>6. Send(page, "save", request)
      BY <1>1 DEF input
  <1> HIDE DEF request
  <1>7. QED
      BY <1>3, <1>4, <1>5, <1>6, SaveIsSent

LEMMA RemoveTaskStep == ASSUME EditorInv, NEW page \in TaskPages, RemoveTask(page) PROVE EditorInv'
  <1>1. PICK row \in editors[page].shown : Send(page, "removal", [at |-> "sent", id |-> row.id])
      BY DEF RemoveTask
  <1> DEFINE old == editors[page]
             request == [at |-> "sent", id |-> row.id]
             e == [old EXCEPT !.removal = request]
  <1>2. old \in Editor /\ UNCHANGED <<taskRows, taskIds, drafted, lost>> /\ editors' = [editors EXCEPT ![page] = e]
      BY <1>1 DEF EditorInv, EditorTypes, Send
  <1>3. request \in Removal
      BY <1>2 DEF Editor, Row, Removal
  <1> HIDE DEF request
  <1>4. e \in Editor /\ e.draft = old.draft /\ e.keys = old.keys /\ e.save = old.save
      BY <1>2, <1>3 DEF Editor
  <1> HIDE DEF e
  <1>5. DraftOK(e) /\ SaveOK(e) /\ Holds(e) = Holds(old) /\ \A d \in Nat \ {0} : Storable(e, d) => Storable(old, d)
      BY <1>4 DEF DraftOK, SaveOK, EditorInv, PagesOK, Holds, Begun, Storable
  <1>6. QED
      BY <1>2, <1>4, <1>5, PageChanges

\* A save is answered at the server: it holds what it held.
LEMMA SaveIsAnswered ==
    ASSUME EditorInv, NEW page \in TaskPages, editors[page].save.at = "sent", NEW at \in {"done", "refused"},
           Answered(page, "save", at)
    PROVE  LET old == editors[page] e == editors'[page]
           IN  /\ editors' = [editors EXCEPT ![page] = e] /\ e \in Editor /\ e.draft = old.draft
               /\ e.save.at = at /\ e.save.begun = old.save.begun
               /\ old.save \in SaveRequest /\ old.save # NotSent
               /\ DraftOK(e) /\ SaveOK(e) /\ Holds(e) = Holds(old)
               /\ \A d \in Nat \ {0} : Storable(e, d) => Storable(old, d)
  <1> DEFINE old == editors[page]
             request == [old.save EXCEPT !.at = at]
             e == [old EXCEPT !.save = request]
  <1>1. old \in Editor /\ editors \in [TaskPages -> Editor] /\ DraftOK(old) /\ SaveOK(old)
      BY DEF EditorInv, EditorTypes, PagesOK
  <1>2. editors' = [editors EXCEPT ![page] = e]
      BY DEF Answered
  <1>3. old.save \in SaveRequest /\ old.save # NotSent
      BY <1>1 DEF Editor, NotSent
  <1>4. /\ request \in SaveRequest /\ request.at = at /\ request.begun = old.save.begun
        /\ request.input = old.save.input /\ request.shown = old.save.shown
      BY <1>3 DEF SaveRequest
  <1> HIDE DEF request
  <1>5. e \in Editor /\ e.draft = old.draft /\ e.keys = old.keys /\ e.save = request
      BY <1>1, <1>4 DEF Editor
  <1> HIDE DEF e
  <1>6. editors'[page] = e
      BY <1>1, <1>2
  <1>7. request # NotSent
      BY <1>4 DEF NotSent
  <1>8. DraftOK(e) /\ SaveOK(e)
      BY <1>1, <1>3, <1>4, <1>5 DEF DraftOK, SaveOK
  <1>9. Holds(e) = Holds(old)
      BY <1>3, <1>4, <1>5, <1>7 DEF Holds, Begun
  <1>10. \A d \in Nat \ {0} : Storable(e, d) => Storable(old, d)
      BY <1>4, <1>5 DEF Storable
  <1>11. QED
      BY <1>2, <1>3, <1>4, <1>5, <1>6, <1>8, <1>9, <1>10

\* A task is stored: its draft is stored once more, which no page may do again without a loss.
LEMMA TaskIsStored ==
    ASSUME EditorInv, NEW page \in TaskPages, editors[page].save.at = "sent", Answered(page, "save", "done"),
           UNCHANGED <<drafted, lost>>, taskIds' \in Nat \ {0},
           taskRows' \in SUBSET Row, IsFiniteSet(taskRows'), StoredCanRun', RowsOK',
           \A d \in 1..drafted :
               \/ Cardinality(RowsOf(d)') <= Cardinality(RowsOf(d))
               \/ /\ d = editors[page].save.begun
                  /\ Cardinality(RowsOf(d)') = Cardinality(RowsOf(d)) + 1
    PROVE  EditorInv'
  <1> DEFINE old == editors[page]
             e == editors'[page]
  <1>1. /\ editors' = [editors EXCEPT ![page] = e] /\ e \in Editor /\ e.draft = old.draft
        /\ e.save.at = "done" /\ e.save.begun = old.save.begun /\ old.save # NotSent
        /\ DraftOK(e) /\ SaveOK(e) /\ Holds(e) = Holds(old)
        /\ \A d \in Nat \ {0} : Storable(e, d) => Storable(old, d)
      BY SaveIsAnswered
  <1> HIDE DEF e
  <1>2. /\ \A q \in TaskPages \ {page} : editors'[q] = editors[q]
        /\ editors'[page] = e /\ editors' \in [TaskPages -> Editor]
      BY <1>1 DEF EditorInv, EditorTypes
  <1>3. EditorTypes'
      BY <1>2 DEF EditorInv, EditorTypes
  <1>4. PagesOK'
    <2>1. \A q \in TaskPages : DraftOK(editors'[q]) /\ SaveOK(editors'[q])
        BY <1>1, <1>2 DEF EditorInv, PagesOK
    <2>2. QED
        BY <2>1 DEF PagesOK, DraftOK, SaveOK, KeysFit, Stored, NoDraft, NotSent
  <1>5. DraftsApart'
    <2>1. \A q \in TaskPages : Holds(editors'[q]) = Holds(editors[q])
        BY <1>1, <1>2
    <2>2. QED
        BY <2>1 DEF EditorInv, DraftsApart, Holds, Begun
  <1>6. SavedOnce'
    <2>1. SUFFICES ASSUME NEW d \in 1..drafted
                   PROVE  /\ Cardinality(RowsOf(d)') <= 1 + lost
                          /\ (\E q \in TaskPages : Storable(editors'[q], d)) => Cardinality(RowsOf(d)') <= lost
        BY DEF SavedOnce, RowsOf, Storable
    <2>2. /\ Cardinality(RowsOf(d)) <= 1 + lost
          /\ (\E q \in TaskPages : Storable(editors[q], d)) => Cardinality(RowsOf(d)) <= lost
        BY <2>1 DEF EditorInv, SavedOnce
    <2>3. Cardinality(RowsOf(d)) \in Nat /\ Cardinality(RowsOf(d)') \in Nat /\ lost \in Nat /\ d \in Nat \ {0}
      <3>1. RowsOf(d) \subseteq taskRows /\ RowsOf(d)' \subseteq taskRows'
          BY DEF RowsOf
      <3>2. IsFiniteSet(RowsOf(d)) /\ IsFiniteSet(RowsOf(d)')
          BY <3>1, FS_Subset DEF EditorInv, EditorTypes
      <3>3. QED
          BY <3>2, FS_CardinalityType DEF EditorInv, EditorTypes
    <2>4. \A q \in TaskPages : Storable(editors'[q], d) => Storable(editors[q], d)
        BY <1>1, <1>2, <2>3
    <2>5. CASE Cardinality(RowsOf(d)') <= Cardinality(RowsOf(d))
        BY <2>2, <2>3, <2>4, <2>5
    <2>6. CASE d = old.save.begun /\ Cardinality(RowsOf(d)') = Cardinality(RowsOf(d)) + 1
      <3>1. Storable(old, d)
          BY <2>6 DEF Storable
      <3>2. ~Storable(e, d)
          BY <1>1, <2>6 DEF Storable
      <3>3. d \in Holds(old)
          BY <1>1, <2>3, <2>6 DEF Holds, Begun
      <3>4. \A q \in TaskPages \ {page} : ~Storable(editors'[q], d)
        <4>1. SUFFICES ASSUME NEW q \in TaskPages \ {page}, Storable(editors[q], d) PROVE FALSE
            BY <1>2
        <4>2. d \in Holds(editors[q])
            BY <2>3, <4>1 DEF Storable, Holds, Begun, NotSent
        <4>3. QED
            BY <3>3, <4>1, <4>2 DEF EditorInv, DraftsApart
      <3>5. QED
          BY <1>2, <2>2, <2>3, <2>6, <3>1, <3>2, <3>4
    <2>7. QED
        BY <2>5, <2>6
  <1>7. QED
      BY <1>3, <1>4, <1>5, <1>6 DEF EditorInv

\* What is accepted can run, and its row is a task's.
LEMMA AcceptedCanRun ==
    ASSUME NEW input \in Input, Accepted(input), NEW id \in Nat \ {0}, NEW begun \in Nat
    PROVE  LET row == Stored(input, id, begun)
           IN  /\ row \in Row /\ row.id = id /\ row.begun = begun
               /\ row.name # Empty /\ row.steps # <<>> /\ HasTrigger(row)
               /\ \A k \in DOMAIN row.steps : row.steps[k] \in Lines \ Unsendable
               /\ \A k \in DOMAIN row.times : row.times[k] # {}
               /\ \A i \in row.interval : i.min <= i.max /\ i.min > 0
  <1> DEFINE row == Stored(input, id, begun)
  <1>1. row = [id |-> id, name |-> input.name, steps |-> input.steps, signals |-> input.signals,
               times |-> input.times, interval |-> input.interval, enabled |-> input.enabled, begun |-> begun]
      BY DEF Stored
  <1>2. row \in Row
      BY <1>1 DEF Input, Row
  <1>3. /\ row.id = id /\ row.begun = begun /\ row.name = input.name /\ row.steps = input.steps
        /\ row.times = input.times /\ row.interval = input.interval /\ row.signals = input.signals
      BY <1>1
  <1> HIDE DEF row
  <1>4. input.steps \in Seq(Lines) /\ \A i \in input.interval : i.min \in Seconds
      BY DEF Input
  <1>5. row.steps # <<>> /\ \A k \in DOMAIN row.steps : row.steps[k] \in Lines \ Unsendable
    <2>1. Len(input.steps) # 0 /\ \A k \in DOMAIN input.steps : input.steps[k] \notin Unsendable
        BY DEF Accepted
    <2>2. QED
        BY <1>3, <1>4, <2>1, ElementOfSeq
  <1>6. HasTrigger(row) /\ row.name # Empty /\ \A k \in DOMAIN row.times : row.times[k] # {}
      BY <1>3 DEF Accepted, HasTrigger
  <1>7. \A i \in row.interval : i.min <= i.max /\ i.min > 0
      BY <1>3, <1>4 DEF Accepted, ShortestInterval, Seconds
  <1>8. QED
      BY <1>2, <1>3, <1>5, <1>6, <1>7 DEF row

\* A new task is inserted.
LEMMA CreateStep ==
    ASSUME EditorInv, NEW page \in TaskPages, editors[page].save.at = "sent", Answered(page, "save", "done"),
           Accepted(editors[page].save.input), editors[page].save.input.id = 0, taskIds' = taskIds + 1,
           taskRows' = taskRows \cup {Stored(editors[page].save.input, taskIds + 1, editors[page].save.begun)},
           UNCHANGED <<drafted, lost>>
    PROVE  EditorInv'
  <1> DEFINE request == editors[page].save
             new == Stored(request.input, taskIds + 1, request.begun)
  <1>1. request \in SaveRequest /\ request # NotSent /\ request.input \in Input /\ request.begun \in Nat
      BY SaveIsAnswered DEF SaveRequest
  <1>2. request.begun # 0
      BY <1>1 DEF EditorInv, PagesOK, SaveOK
  <1>3. request.begun \in 1..drafted
    <2>1. request.begun \in Holds(editors[page])
        BY <1>1, <1>2 DEF Holds, Begun
    <2>2. QED
        BY <2>1 DEF EditorInv, DraftsApart
  <1>4. /\ taskIds \in Nat /\ drafted \in Nat /\ taskRows \in SUBSET Row /\ IsFiniteSet(taskRows)
        /\ taskIds + 1 \in Nat \ {0}
      BY DEF EditorInv, EditorTypes
  <1>5. /\ new \in Row /\ new.id = taskIds + 1 /\ new.begun = request.begun
        /\ new.name # Empty /\ new.steps # <<>> /\ HasTrigger(new)
        /\ \A k \in DOMAIN new.steps : new.steps[k] \in Lines \ Unsendable
        /\ \A k \in DOMAIN new.times : new.times[k] # {}
        /\ \A i \in new.interval : i.min <= i.max /\ i.min > 0
      BY <1>1, <1>4, AcceptedCanRun
  <1> HIDE DEF new
  <1>6. taskRows' = taskRows \cup {new}
      BY DEF new
  <1>7. \A row \in taskRows : row.id <= taskIds /\ row.id \in Nat /\ row.begun \in Nat
      BY <1>4 DEF EditorInv, RowsOK, Row
  <1>8. new \notin taskRows
      BY <1>4, <1>5, <1>7
  <1>9. taskRows' \in SUBSET Row /\ IsFiniteSet(taskRows') /\ taskIds' \in Nat \ {0}
      BY <1>4, <1>5, <1>6, FS_AddElement
  <1>10. StoredCanRun'
    <2>1. StoredCanRun
        BY DEF EditorInv
    <2>2. QED
        BY <1>5, <1>6, <2>1 DEF StoredCanRun, HasTrigger
  <1>11. RowsOK'
      BY <1>3, <1>4, <1>5, <1>6, <1>7 DEF EditorInv, RowsOK, FirstTask
  <1>12. ASSUME NEW d \in 1..drafted
         PROVE  \/ Cardinality(RowsOf(d)') <= Cardinality(RowsOf(d))
                \/ d = request.begun /\ Cardinality(RowsOf(d)') = Cardinality(RowsOf(d)) + 1
    <2>1. IsFiniteSet(RowsOf(d)) /\ new \notin RowsOf(d) /\ Cardinality(RowsOf(d)) \in Nat
      <3>1. RowsOf(d) \subseteq taskRows
          BY DEF RowsOf
      <3>2. QED
          BY <1>4, <1>8, <3>1, FS_Subset, FS_CardinalityType
    <2>2. CASE d = request.begun
      <3>1. RowsOf(d)' = RowsOf(d) \cup {new}
          BY <1>5, <1>6, <2>2 DEF RowsOf
      <3>2. QED
          BY <2>1, <2>2, <3>1, FS_AddElement
    <2>3. CASE d # request.begun
      <3>1. RowsOf(d)' = RowsOf(d)
          BY <1>5, <1>6, <2>3 DEF RowsOf
      <3>2. QED
          BY <2>1, <3>1
    <2>4. QED
        BY <2>2, <2>3
  <1> HIDE DEF request
  <1>13. \A d \in 1..drafted : \/ Cardinality(RowsOf(d)') <= Cardinality(RowsOf(d))
                               \/ /\ d = editors[page].save.begun
                                  /\ Cardinality(RowsOf(d)') = Cardinality(RowsOf(d)) + 1
      BY <1>12 DEF request
  <1>14. QED
      BY <1>9, <1>10, <1>11, <1>13, TaskIsStored

\* A stored task is written over: it stays of the draft it was inserted from.
LEMMA UpdateStep ==
    ASSUME EditorInv, NEW page \in TaskPages, editors[page].save.at = "sent", Answered(page, "save", "done"),
           Accepted(editors[page].save.input), editors[page].save.input.id # 0,
           Target(editors[page].save.input) # {},
           taskRows' = {row \in taskRows : row.id # editors[page].save.input.id}
                       \cup {Stored(editors[page].save.input, editors[page].save.input.id, row.begun) :
                                row \in Target(editors[page].save.input)},
           UNCHANGED <<taskIds, drafted, lost>>
    PROVE  EditorInv'
  <1> DEFINE input == editors[page].save.input
             kept == {row \in taskRows : row.id # input.id}
  <1>1. input \in Input
      BY SaveIsAnswered DEF SaveRequest
  <1>2. PICK old \in taskRows : old.id = input.id
      BY DEF Target
  <1> DEFINE new == Stored(input, input.id, old.begun)
  <1>3. Target(input) = {old}
      BY <1>2 DEF Target, EditorInv, RowsOK
  <1>4. taskRows' = kept \cup {new} /\ taskRows = kept \cup {old} /\ old \notin kept
      BY <1>2, <1>3 DEF Target
  <1>5. /\ taskRows \in SUBSET Row /\ IsFiniteSet(taskRows) /\ taskIds \in Nat \ {0} /\ drafted \in Nat
        /\ old.begun \in Nat /\ input.id \in Nat \ {0}
      BY <1>2 DEF EditorInv, EditorTypes, Row
  <1>6. /\ new \in Row /\ new.id = input.id /\ new.begun = old.begun
        /\ new.name # Empty /\ new.steps # <<>> /\ HasTrigger(new)
        /\ \A k \in DOMAIN new.steps : new.steps[k] \in Lines \ Unsendable
        /\ \A k \in DOMAIN new.times : new.times[k] # {}
        /\ \A i \in new.interval : i.min <= i.max /\ i.min > 0
      BY <1>1, <1>5, AcceptedCanRun
  <1> HIDE DEF new
  <1>7. new \notin kept /\ kept \subseteq taskRows
      BY <1>6
  <1>8. IsFiniteSet(kept) /\ taskRows' \in SUBSET Row /\ IsFiniteSet(taskRows')
      BY <1>4, <1>5, <1>6, <1>7, FS_Subset, FS_AddElement
  <1>9. StoredCanRun'
    <2>1. StoredCanRun
        BY DEF EditorInv
    <2>2. QED
        BY <1>4, <1>6, <1>7, <2>1 DEF StoredCanRun, HasTrigger
  <1>10. RowsOK'
    <2>1. RowsOK
        BY DEF EditorInv
    <2>2. \A row \in kept : row.id # new.id
        BY <1>6
    <2>3. new.id = old.id /\ new.begun = old.begun
        BY <1>2, <1>6
    <2> HIDE DEF kept
    <2>4. QED
        BY <1>4, <1>7, <2>1, <2>2, <2>3 DEF RowsOK, FirstTask
  <1>11. ASSUME NEW d \in 1..drafted PROVE Cardinality(RowsOf(d)') = Cardinality(RowsOf(d))
    <2> DEFINE rest == {row \in kept : row.begun = d}
    <2>1. rest \subseteq kept /\ new \notin rest /\ old \notin rest /\ IsFiniteSet(rest)
        BY <1>4, <1>7, <1>8, FS_Subset
    <2>2. CASE old.begun = d
      <3>1. RowsOf(d) = rest \cup {old} /\ RowsOf(d)' = rest \cup {new}
          BY <1>4, <1>6, <2>2 DEF RowsOf
      <3> HIDE DEF rest
      <3>2. Cardinality(rest \cup {old}) = Cardinality(rest) + 1
          BY <2>1, FS_AddElement
      <3>3. Cardinality(rest \cup {new}) = Cardinality(rest) + 1
          BY <2>1, FS_AddElement
      <3>4. QED
          BY <3>1, <3>2, <3>3
    <2>3. CASE old.begun # d
      <3>1. RowsOf(d) = rest /\ RowsOf(d)' = rest
          BY <1>4, <1>6, <2>3 DEF RowsOf
      <3>2. QED
          BY <3>1
    <2>4. QED
        BY <2>2, <2>3
  <1>12. \A d \in 1..drafted : Cardinality(RowsOf(d)') <= Cardinality(RowsOf(d))
    <2>1. \A d \in 1..drafted : Cardinality(RowsOf(d)) \in Nat
      <3>1. \A d \in 1..drafted : RowsOf(d) \subseteq taskRows
          BY DEF RowsOf
      <3>2. QED
          BY <1>5, <3>1, FS_Subset, FS_CardinalityType
    <2>2. QED
        BY <1>11, <2>1
  <1>13. taskIds' \in Nat \ {0}
      BY <1>5
  <1>14. QED
      BY <1>8, <1>9, <1>10, <1>12, <1>13, TaskIsStored

\* A save is refused, and no task is stored.
LEMMA RefuseStep ==
    ASSUME EditorInv, NEW page \in TaskPages, editors[page].save.at = "sent", Answered(page, "save", "refused"),
           UNCHANGED <<taskRows, taskIds, drafted, lost>>
    PROVE  EditorInv'
  <1> DEFINE old == editors[page]
             e == editors'[page]
  <1>1. /\ editors' = [editors EXCEPT ![page] = e] /\ e \in Editor
        /\ DraftOK(e) /\ SaveOK(e) /\ Holds(e) = Holds(old)
        /\ \A d \in Nat \ {0} : Storable(e, d) => Storable(old, d)
      BY SaveIsAnswered
  <1> HIDE DEF e
  <1>2. QED
      BY <1>1, PageChanges

LEMMA ServerSetsStep == ASSUME EditorInv, NEW page \in TaskPages, ServerSets(page) PROVE EditorInv'
  <1> DEFINE request == editors[page].save
             input == request.input
  <1>1. request.at = "sent" /\ UNCHANGED <<drafted, typed, sent, lost>>
      BY DEF ServerSets
  <1>2. CASE /\ Accepted(input) /\ input.id = 0 /\ taskIds' = taskIds + 1
             /\ taskRows' = taskRows \cup {Stored(input, taskIds + 1, request.begun)}
             /\ Answered(page, "save", "done")
      BY <1>1, <1>2, CreateStep
  <1>3. CASE /\ Accepted(input) /\ input.id # 0 /\ Target(input) # {} /\ UNCHANGED taskIds
             /\ taskRows' = {row \in taskRows : row.id # input.id}
                            \cup {Stored(input, input.id, row.begun) : row \in Target(input)}
             /\ Answered(page, "save", "done")
      BY <1>1, <1>3, UpdateStep
  <1>4. CASE UNCHANGED <<taskRows, taskIds>> /\ Answered(page, "save", "refused")
      BY <1>1, <1>4, RefuseStep
  <1>5. QED
      BY <1>2, <1>3, <1>4 DEF ServerSets

LEMMA ServerDeletesStep == ASSUME EditorInv, NEW page \in TaskPages, ServerDeletes(page) PROVE EditorInv'
  <1> DEFINE old == editors[page]
             request == [old.removal EXCEPT !.at = "done"]
             e == [old EXCEPT !.removal = request]
  <1>1. /\ old \in Editor /\ old.removal.at = "sent" /\ UNCHANGED <<taskIds, drafted, lost>>
        /\ taskRows' \subseteq taskRows /\ editors' = [editors EXCEPT ![page] = e]
      BY DEF EditorInv, EditorTypes, ServerDeletes, Answered
  <1>2. old.removal \in Removal
      BY <1>1 DEF Editor, NotSent
  <1>3. request \in Removal
      BY <1>2 DEF Removal
  <1> HIDE DEF request
  <1>4. e \in Editor /\ e.draft = old.draft /\ e.keys = old.keys /\ e.save = old.save
      BY <1>1, <1>3 DEF Editor
  <1> HIDE DEF e
  <1>5. DraftOK(e) /\ SaveOK(e) /\ Holds(e) = Holds(old) /\ \A d \in Nat \ {0} : Storable(e, d) => Storable(old, d)
      BY <1>4 DEF DraftOK, SaveOK, EditorInv, PagesOK, Holds, Begun, Storable
  <1>6. QED
      BY <1>1, <1>4, <1>5, PageChanges

LEMMA SucceededStep == ASSUME EditorInv, NEW page \in TaskPages, Succeeded(page) PROVE EditorInv'
  <1> DEFINE old == editors[page]
             saved == [old EXCEPT !.draft = NoDraft, !.save = NotSent]
             removed == [old EXCEPT !.draft = NoDraft, !.removal = NotSent]
  <1>1. old \in Editor /\ SaveOK(old) /\ UNCHANGED <<taskRows, taskIds, drafted, lost>>
      BY DEF EditorInv, EditorTypes, PagesOK, Succeeded
  <1>2. PICK e \in {saved, removed} : editors' = [editors EXCEPT ![page] = e]
      BY DEF Succeeded, RequestKinds
  <1>3. e \in Editor /\ e.draft = NoDraft /\ e.save \in {old.save, NotSent}
    <2>1. saved \in Editor /\ saved.draft = NoDraft /\ saved.save = NotSent
        BY <1>1 DEF Editor
    <2>2. removed \in Editor /\ removed.draft = NoDraft /\ removed.save = old.save
        BY <1>1 DEF Editor
    <2>3. QED
        BY <2>1, <2>2
  <1> HIDE DEF saved, removed
  <1>4. DraftOK(e) /\ SaveOK(e)
      BY <1>1, <1>3 DEF DraftOK, SaveOK
  <1>5. Holds(e) \subseteq Holds(old)
      BY <1>3 DEF Holds, Begun, NoDraft
  <1>6. \A d \in Nat \ {0} : Storable(e, d) => Storable(old, d)
      BY <1>3 DEF Storable, NoDraft, NotSent
  <1>7. QED
      BY <1>1, <1>2, <1>3, <1>4, <1>5, <1>6, PageChanges

LEMMA RefusedStep == ASSUME EditorInv, NEW page \in TaskPages, Refused(page) PROVE EditorInv'
  <1> DEFINE old == editors[page]
             e == [old EXCEPT !.save = NotSent]
  <1>1. /\ old \in Editor /\ DraftOK(old) /\ old.save.at = "refused" /\ UNCHANGED <<taskRows, taskIds, drafted, lost>>
        /\ editors' = [editors EXCEPT ![page] = e]
      BY DEF EditorInv, EditorTypes, PagesOK, Refused
  <1>2. e \in Editor /\ e.draft = old.draft /\ e.keys = old.keys /\ e.save = NotSent
      BY <1>1 DEF Editor
  <1> HIDE DEF e
  <1>3. DraftOK(e) /\ SaveOK(e) /\ Holds(e) \subseteq Holds(old)
      BY <1>1, <1>2 DEF DraftOK, SaveOK, Holds, Begun
  <1>4. \A d \in Nat \ {0} : Storable(e, d) => Storable(old, d)
      BY <1>1, <1>2 DEF Storable, NotSent
  <1>5. QED
      BY <1>1, <1>2, <1>3, <1>4, PageChanges

LEMMA IsLostStep == ASSUME EditorInv, NEW page \in TaskPages, IsLost(page) PROVE EditorInv'
  <1> DEFINE old == editors[page]
             saved == [old EXCEPT !.save = NotSent]
             removed == [old EXCEPT !.removal = NotSent]
  <1>1. /\ old \in Editor /\ DraftOK(old) /\ SaveOK(old) /\ lost \in Nat /\ lost' = lost + 1
        /\ UNCHANGED <<taskRows, taskIds, drafted>>
      BY DEF EditorInv, EditorTypes, PagesOK, IsLost
  <1>2. PICK e \in {saved, removed} : editors' = [editors EXCEPT ![page] = e]
      BY DEF IsLost, RequestKinds
  <1>3. e \in Editor /\ e.draft = old.draft /\ e.keys = old.keys /\ e.save \in {old.save, NotSent}
    <2>1. saved \in Editor /\ saved.draft = old.draft /\ saved.keys = old.keys /\ saved.save = NotSent
        BY <1>1 DEF Editor
    <2>2. removed \in Editor /\ removed.draft = old.draft /\ removed.keys = old.keys /\ removed.save = old.save
        BY <1>1 DEF Editor
    <2>3. QED
        BY <2>1, <2>2
  <1> HIDE DEF saved, removed
  <1>4. DraftOK(e) /\ SaveOK(e) /\ Holds(e) \subseteq Holds(old)
      BY <1>1, <1>3 DEF DraftOK, SaveOK, Holds, Begun
  <1>5. lost' # lost /\ lost' \in {lost, lost + 1}
      BY <1>1
  <1>6. QED
      BY <1>1, <1>2, <1>3, <1>4, <1>5, PageChanges

LEMMA ReadTasksStep == ASSUME EditorInv, NEW page \in TaskPages, ReadTasks(page) PROVE EditorInv'
  <1> DEFINE old == editors[page]
             e == [old EXCEPT !.shown = taskRows]
  <1>1. /\ old \in Editor /\ DraftOK(old) /\ SaveOK(old) /\ taskRows \in SUBSET Row
        /\ UNCHANGED <<taskRows, taskIds, drafted, lost>> /\ editors' = [editors EXCEPT ![page] = e]
      BY DEF EditorInv, EditorTypes, PagesOK, ReadTasks
  <1>2. e \in Editor /\ e.draft = old.draft /\ e.keys = old.keys /\ e.save = old.save
      BY <1>1 DEF Editor
  <1> HIDE DEF e
  <1>3. DraftOK(e) /\ SaveOK(e) /\ Holds(e) = Holds(old) /\ \A d \in Nat \ {0} : Storable(e, d) => Storable(old, d)
      BY <1>1, <1>2 DEF DraftOK, SaveOK, Holds, Begun, Storable
  <1>4. QED
      BY <1>1, <1>2, <1>3, PageChanges

-----------------------------------------------------------------------------
(* The specification. *)

LEMMA EditorBegins == EditorInit => EditorInv
  <1>1. SUFFICES ASSUME EditorInit PROVE EditorInv
      OBVIOUS
  <1> DEFINE line == CHOOSE l \in Lines : l \notin Unsendable
             first == [shown |-> {FirstTask}, draft |-> NoDraft, keys |-> 0, save |-> NotSent, removal |-> NotSent]
  <1>2. /\ taskRows = {FirstTask} /\ taskIds = 1 /\ drafted = 0 /\ lost = 0
        /\ editors = [page \in TaskPages |-> first]
      BY <1>1 DEF EditorInit
  <1>3. line \in Lines \ Unsendable
      BY EditorAssumption
  <1>4. /\ FirstTask.id = 1 /\ FirstTask.name = "task" /\ FirstTask.steps = <<line>>
        /\ FirstTask.times = <<WeekDays>> /\ FirstTask.interval = {[min |-> 5, max |-> 3600]}
        /\ FirstTask.signals = {} /\ FirstTask.begun = 0
      BY DEF FirstTask
  <1> HIDE DEF line
  <1>5. FirstTask \in Row
    <2>1. <<line>> \in Seq(Lines) /\ <<WeekDays>> \in Seq(SUBSET WeekDays)
        BY <1>3
    <2>2. {[min |-> 5, max |-> 3600]} \in SUBSET [min : Seconds, max : Seconds]
        BY DEF Seconds
    <2>3. QED
        BY <2>1, <2>2 DEF FirstTask, Row, Names, line
  <1>6. first \in Editor
      BY <1>5 DEF Editor
  <1>7. EditorTypes
    <2>1. IsFiniteSet({FirstTask})
        BY FS_Singleton
    <2> HIDE DEF first
    <2>2. QED
        BY <1>2, <1>5, <1>6, <2>1 DEF EditorTypes
  <1>8. PagesOK
      BY <1>2 DEF PagesOK, DraftOK, SaveOK
  <1>9. StoredCanRun
    <2>1. HasTrigger(FirstTask)
        BY <1>4 DEF HasTrigger
    <2>2. FirstTask.name # Empty /\ FirstTask.steps # <<>>
        BY <1>4 DEF Empty
    <2>3. \A k \in DOMAIN FirstTask.steps : FirstTask.steps[k] \in Lines \ Unsendable
        BY <1>3, <1>4
    <2>4. \A k \in DOMAIN FirstTask.times : FirstTask.times[k] # {}
        BY <1>4, EditorAssumption
    <2>5. \A i \in FirstTask.interval : i.min <= i.max /\ i.min > 0
        BY <1>4
    <2>6. QED
        BY <1>2, <2>1, <2>2, <2>3, <2>4, <2>5 DEF StoredCanRun
  <1>10. RowsOK
      BY <1>2, <1>4 DEF RowsOK
  <1>11. DraftsApart
    <2>1. \A page \in TaskPages : Holds(editors[page]) = {}
        BY <1>2 DEF Holds, Begun, NoDraft
    <2>2. QED
        BY <2>1 DEF DraftsApart
  <1>12. SavedOnce
      BY <1>2 DEF SavedOnce
  <1>13. QED
      BY <1>7, <1>8, <1>9, <1>10, <1>11, <1>12 DEF EditorInv

LEMMA EditorStep == EditorInv /\ [EditorNext]_editorVars => EditorInv'
  <1>1. SUFFICES ASSUME EditorInv, [EditorNext]_editorVars PROVE EditorInv'
      OBVIOUS
  <1>2. CASE UNCHANGED editorVars
    <2>1. UNCHANGED <<taskRows, editors, taskIds, drafted, lost>>
        BY <1>2 DEF editorVars
    <2>2. EditorTypes' /\ PagesOK' /\ StoredCanRun' /\ RowsOK'
        BY <1>1, <2>1 DEF EditorInv, EditorTypes, PagesOK, DraftOK, KeysFit, SaveOK, Stored, StoredCanRun, HasTrigger,
                          RowsOK, FirstTask, NoDraft, NotSent
    <2>3. DraftsApart' /\ SavedOnce'
        BY <1>1, <2>1 DEF EditorInv, DraftsApart, SavedOnce, Holds, Begun, Storable, RowsOf
    <2>4. QED
        BY <2>2, <2>3 DEF EditorInv
  <1>3. CASE EditorNext
    <2>1. PICK page \in TaskPages :
            \/ AddTask(page) \/ EditTask(page) \/ CancelTask(page)
            \/ TypeName(page) \/ SetStep(page) \/ AddStep(page) \/ RemoveStep(page)
            \/ ToggleSignal(page) \/ ToggleRepeat(page) \/ SetInterval(page)
            \/ AddTime(page) \/ RemoveTime(page) \/ ToggleDay(page)
            \/ SaveTask(page) \/ PauseTask(page) \/ RemoveTask(page)
            \/ ServerSets(page) \/ ServerDeletes(page)
            \/ Succeeded(page) \/ Refused(page) \/ IsLost(page) \/ ReadTasks(page)
        BY <1>3 DEF EditorNext
    <2>2. CASE AddTask(page) \/ EditTask(page) \/ CancelTask(page)
        BY <1>1, <2>2, AddTaskStep, EditTaskStep, CancelTaskStep
    <2>3. CASE TypeName(page) \/ SetStep(page) \/ AddStep(page) \/ RemoveStep(page)
        BY <1>1, <2>3, TypeNameStep, SetStepStep, AddStepStep, RemoveStepStep
    <2>4. CASE ToggleSignal(page) \/ ToggleRepeat(page) \/ SetInterval(page)
        BY <1>1, <2>4, ToggleSignalStep, ToggleRepeatStep, SetIntervalStep
    <2>5. CASE AddTime(page) \/ RemoveTime(page) \/ ToggleDay(page)
        BY <1>1, <2>5, AddTimeStep, RemoveTimeStep, ToggleDayStep
    <2>6. CASE SaveTask(page) \/ PauseTask(page) \/ RemoveTask(page)
        BY <1>1, <2>6, SaveTaskStep, PauseTaskStep, RemoveTaskStep
    <2>7. CASE ServerSets(page) \/ ServerDeletes(page)
        BY <1>1, <2>7, ServerSetsStep, ServerDeletesStep
    <2>8. CASE Succeeded(page) \/ Refused(page) \/ IsLost(page) \/ ReadTasks(page)
        BY <1>1, <2>8, SucceededStep, RefusedStep, IsLostStep, ReadTasksStep
    <2>9. QED
        BY <2>1, <2>2, <2>3, <2>4, <2>5, <2>6, <2>7, <2>8
  <1>4. QED
      BY <1>1, <1>2, <1>3

LEMMA AsEdited == EditorInv => TasksAreAsEdited
  <1>1. SUFFICES ASSUME EditorInv PROVE TasksAreAsEdited
      OBVIOUS
  <1>2. PartsAreApart
    <2>1. \A page \in TaskPages : Editing(page) =>
              KeysFit(Draft(page).steps, editors[page].keys) /\ KeysFit(Draft(page).times, editors[page].keys)
        BY <1>1, OpenDraftOK
    <2>2. QED
        BY <2>1 DEF PartsAreApart, KeysFit
  <1>3. PauseIsNoEdit
      BY <1>1 DEF EditorInv, PagesOK, SaveOK, PauseIsNoEdit
  <1>4. StoredOnce
      BY <1>1 DEF EditorInv, RowsOK, SavedOnce, RowsOf, StoredOnce
  <1>5. QED
      BY <1>1, <1>2, <1>3, <1>4 DEF EditorInv, TasksAreAsEdited

\* A keystroke changes one step, a pause edits nothing, every stored task can run, and a draft is stored
\* once but for losses, on however many pages (InstanceTasks, setTask, deleteTask).
THEOREM EditsAreKept == EditorSpec => []TasksAreAsEdited
  BY EditorBegins, EditorStep, AsEdited, PTL DEF EditorSpec
=============================================================================
