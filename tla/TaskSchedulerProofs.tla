------------------------ MODULE TaskSchedulerProofs -------------------------
(***************************************************************************)
(* Proofs about TaskScheduler, for any number of ticks, runs, joins and    *)
(* variants of the task, any zone and any timeouts the assumption allows.  *)
(* Everything rests on one inductive invariant, TasksInv.                  *)
(***************************************************************************)
EXTENDS TaskScheduler, Loops, SequenceTheorems

-----------------------------------------------------------------------------
\* What a row of the task can be: a variant operators set, with an id, times and an interval.
AllEvery == UNION {v.every : v \in Variants}
TimeSet == [days : SUBSET Nat, minute : Nat]
TaskSet == [enabled : BOOLEAN, onFirstLogin : BOOLEAN, onLogin : BOOLEAN, times : SUBSET TimeSet,
            every : SUBSET (Nat \ {0}), id : Nat, created : Nat, next : Nat, observed : Nat]
TaskRowFits(row) == row \in TaskSet /\ IsFiniteSet(row.times) /\ row.every \subseteq AllEvery

\* What a claim or a delivery can be of, for a task and the time of a tick.
LoginKeys(id) == {"login"} \X {id} \X Nat \X Nat
TimeKeys(id) == {"time"} \X {id} \X Nat \X Nat
IntervalKeys(id) == {"interval"} \X {id} \X Nat
Fits(key, trigger, id, at) ==
    \/ trigger \in {"login", "firstLogin"} /\ key \in LoginKeys(id) /\ key[4] <= at + TickMax
    \/ trigger = "time" /\ key \in TimeKeys(id) /\ key[3] = Zone[at].day
    \/ trigger = "interval" /\ key \in IntervalKeys(id) /\ key[3] <= at /\ AllEvery # {}

KeySet == ({"login", "time"} \X Nat \X Nat \X Nat) \cup ({"interval"} \X Nat \X Nat)
Triggers == {"login", "firstLogin", "time", "interval"}
ClaimSet == [key : KeySet, trigger : Triggers]
Draining == {"read", "record", "save"}
BeforeClaims == Draining \cup {"claim"}
AtClaims == {"next", "send", "failed"}
TickSet == [pc : {"idle"} \cup BeforeClaims \cup AtClaims, at : Nat, parts : TaskSet, running : BOOLEAN, round : Nat,
            from : Nat, next : Nat, read : Nat, claims : Seq(ClaimSet), sent : 0..Steps]
DeliverySet == [steps : 1..Steps, trigger : Triggers, at : Time]
RunSet == [outcome : {"running", "sent", "failed", "abandoned"}, steps : 0..Steps, started : Time]

Busy(t) == tick[t].pc # "idle"
\* Long enough ago that no sweep still to come will be the first to notice.
Past(n) == n < clock /\ \A t \in Ticks : Busy(t) => n < tick[t].at

\* The clock, the bot and its journal, the task and the cursor are what they can be.
WorldTypes ==
    /\ clock \in Time
    /\ bot \in [up : BOOLEAN, process : Process]
    /\ journal \in Seq(Join) /\ Len(journal) <= MaxJoins /\ \A k \in DOMAIN journal : journal[k].at <= clock
    /\ taskEdits \in 0..MaxTaskEdits /\ crashes \in 0..MaxCrashes
    /\ TaskRowFits(task) /\ task.id <= taskEdits /\ task.observed <= clock /\ (~Exists => task = NoTask)
    /\ cursor \in 0..Len(journal) /\ seeded \in 0..Len(journal)

\* One tick is at work at a time, since a time its timeouts bound (TickMax), with a task it read.
TickTypes ==
    /\ tick \in [Ticks -> TickSet]
    /\ \A t \in Ticks :
         /\ ~Busy(t) => tick[t] = Idle
         /\ Busy(t) => /\ tick[t].at \in Time /\ tick[t].at <= clock /\ clock <= tick[t].at + TickMax
                       /\ tick[t].parts.id \in 1..taskEdits /\ TaskRowFits(tick[t].parts)
                       /\ tick[t].parts.observed <= tick[t].at
         /\ tick[t].pc \notin {"send", "failed"} => tick[t].sent = 0
    /\ \A t, u \in Ticks : Busy(t) /\ Busy(u) => t = u

FirstRow(p, a) == [process |-> p, at |-> a, first |-> TRUE]
\* A process has one first join at most among the rows of signals.
SignalsSound ==
    /\ signals \subseteq SignalRow /\ \A s \in signals : s.at <= clock
    /\ \A s, r \in signals : s.first /\ r.first /\ s.process = r.process => s = r

\* A line of the journal is noted while rows as old as it are kept; what a tick has read
\* it notes from the cursor on, in order, and the cursor moves when all of it is.
Noted(k) == journal[k].at + SignalRetention >= clock
              => \E s \in signals : s.process = journal[k].process /\ s.at = journal[k].at
ReadSoundly(t) ==
    LET k == tick[t] IN
    /\ k.pc \in Draining => k.from \in {NoValue, cursor}
    /\ k.pc = "record" => k.from # NoValue /\ k.from <= k.next /\ k.next <= k.read
    /\ k.pc = "record" => \A n \in k.from..k.next - 1 : Noted(n)
    /\ k.pc = "save" /\ k.from # NoValue => \A n \in k.from..k.read : Noted(n)
    /\ k.pc \in {"record", "save"} => k.read <= Len(journal)

\* Behind the cursor every join is noted but those a seed skipped.
JoinsSound == (\A k \in seeded + 1..cursor : Noted(k)) /\ \A t \in Ticks : ReadSoundly(t)

\* A key that was delivered is claimed no more.
Sealed(k) == k \in DOMAIN runs \/ k[2] # task.id \/ Past(delivered[k].at + RunRetention)
DeliveriesSound ==
    \A k \in DOMAIN delivered :
        /\ delivered[k] \in DeliverySet /\ delivered[k].at <= clock
        /\ k[2] \in 1..taskEdits /\ Fits(k, delivered[k].trigger, k[2], delivered[k].at)
        /\ Sealed(k)

\* A run is of the task there is, and records no more than the bot received.
RunsSound ==
    \A k \in DOMAIN runs :
        /\ runs[k] \in RunSet /\ k \in KeySet /\ k[2] = task.id /\ Exists
        /\ k \in DOMAIN delivered => runs[k].started = delivered[k].at
        /\ runs[k].outcome = "sent" => Received(k) = Steps
        /\ runs[k].steps <= Received(k)

\* Every claim a tick holds is of a trigger, and not of one that was delivered.
ClaimFits(t, c) ==
    LET k == tick[t] IN
    /\ Fits(c.key, c.trigger, k.parts.id, k.at)
    /\ c.trigger = "firstLogin"
          => FirstRow(c.key[3], c.key[4]) \in signals /\ k.at <= c.key[4] + SignalCatchUp
    /\ c.key \in DOMAIN delivered => c.key \in DOMAIN runs \/ task.id # k.parts.id
ListFits(t) ==
    tick[t].pc \in AtClaims => /\ tick[t].claims # <<>>
                            /\ \A i \in DOMAIN tick[t].claims : ClaimFits(t, tick[t].claims[i])
CurrentFits(t) ==
    LET k == tick[t] IN
    /\ k.pc \in {"send", "failed"} => Key(t) \in DOMAIN runs \/ task.id # k.parts.id
    /\ k.pc \in {"send", "failed"} /\ Key(t) \in DOMAIN runs => runs[Key(t)].started = k.at
    /\ k.pc = "send" => Received(Key(t)) = k.sent
    /\ k.pc = "send" /\ Key(t) \in DOMAIN runs => runs[Key(t)].outcome = "running" /\ runs[Key(t)].steps = 0
    /\ k.pc = "failed" => k.sent <= Received(Key(t))
ClaimsFit(t) == ListFits(t) /\ CurrentFits(t)
ClaimsSound == \A t \in Ticks : ClaimsFit(t)

\* What was sent on a first join had its row, which only age removes.
FirstsSound ==
    /\ \A k \in DOMAIN delivered : delivered[k].trigger = "firstLogin"
         => FirstRow(k[3], k[4]) \in signals \/ Past(k[4] + SignalRetention)
    /\ OncePerStart

\* The interval is armed, and a claim of it made, at least the shortest interval after what was sent.
AtInterval(id) == {k \in DOMAIN delivered : delivered[k].trigger = "interval" /\ k[2] = id}
Spaced(id, next) == next # NoValue => \A k \in AtInterval(id) : delivered[k].at + Shortest <= next
IntervalApart(t) ==
    LET k == tick[t] IN
    /\ k.pc \in BeforeClaims => Spaced(k.parts.id, k.parts.next) /\ \A d \in AtInterval(k.parts.id) : delivered[d].at <= k.at
    /\ k.pc \in AtClaims => \A i \in DOMAIN k.claims : k.claims[i].trigger = "interval" =>
         /\ k.claims[i].key = IntervalKey(k.parts.id, k.parts.next)
         /\ task.id = k.parts.id /\ task.next # NoValue => k.at + Shortest <= task.next
         /\ \A d \in AtInterval(k.parts.id) : d # k.claims[i].key => delivered[d].at + Shortest <= k.at
IntervalsSound ==
    /\ Spaced(task.id, task.next)
    /\ \A t \in Ticks : IntervalApart(t)
    /\ SpacedIntervals

TasksInv ==
    /\ WorldTypes /\ TickTypes /\ SignalsSound /\ JoinsSound /\ DeliveriesSound /\ RunsSound /\ ClaimsSound
    /\ FirstsSound /\ IntervalsSound

-----------------------------------------------------------------------------
\* The numbers that bound the tasks, from TaskConstants.
LEMMA TaskNumbers ==
    /\ Steps \in Nat \ {0} /\ Rounds \in Nat \ {0} /\ JournalMax \in Nat \ {0}
    /\ SignalCatchUp \in Nat /\ TickMax \in Nat /\ RunRetention \in Nat /\ SignalRetention \in Nat /\ AbandonAfter \in Nat
    /\ MaxJoins \in Nat /\ MaxStops \in Nat /\ MaxTaskEdits \in Nat /\ MaxCrashes \in Nat
    /\ SignalCatchUp + TickMax <= RunRetention
  BY TasksAssumption DEF TaskConstants

\* Zone says the local day and minute of every instant.
LEMMA Instants ==
    /\ Len(Zone) \in Nat \ {0} /\ Time = 1..Len(Zone)
    /\ \A a \in Time : a \in Nat \ {0} /\ Zone[a].day \in Nat /\ Zone[a].minute \in Nat
  <1>1. Zone \in Seq([day : Nat, minute : Nat]) /\ Zone # <<>>
      BY TasksAssumption DEF TaskConstants
  <1> DEFINE S == [day : Nat, minute : Nat]
  <1>2. Len(Zone) \in Nat /\ Time = 1..Len(Zone) /\ \A a \in Time : Zone[a] \in S
    <2>1. Zone \in Seq(S)
        BY <1>1
    <2> HIDE DEF S
    <2>2. QED
        BY <2>1 DEF Time
  <1>3. Len(Zone) # 0
      BY <1>1, EmptySeq
  <1>4. QED
      BY <1>2, <1>3

\* A local day is over before the runs of its first minute are forgotten (RunRetention).
LEMMA DaysEnd == \A a, b \in Time : Zone[a].day = Zone[b].day => b <= a + RunRetention
  BY TasksAssumption DEF TaskConstants, Time

\* What operators make of a task fits its row.
LEMMA VariantRows ==
    ASSUME NEW v \in Variants
    PROVE  /\ v.enabled \in BOOLEAN /\ v.onFirstLogin \in BOOLEAN /\ v.onLogin \in BOOLEAN
           /\ v.times \in SUBSET TimeSet /\ IsFiniteSet(v.times)
           /\ v.every \in SUBSET (Nat \ {0}) /\ v.every \subseteq AllEvery
  BY TasksAssumption DEF TaskConstants, TimeSet, AllEvery

\* The shortest interval there is.
LEMMA ShortestIs ==
    ASSUME AllEvery # {}
    PROVE  Shortest \in AllEvery /\ Shortest \in Nat \ {0} /\ \A n \in AllEvery : Shortest <= n /\ n \in Nat
  <1> DEFINE Less == OpToRel(<, Nat)
  <1>1. AllEvery \subseteq Nat \ {0}
      BY VariantRows DEF AllEvery
  <1>2. IsWellFoundedOn(Less, Nat)
      BY NatLessThanWellFounded
  <1> HIDE DEF Less
  <1>3. PICK n \in AllEvery : \A m \in AllEvery : ~(<<m, n>> \in Less)
      BY <1>1, <1>2, WFMin
  <1>4. \A m \in AllEvery : n <= m
    <2>1. SUFFICES ASSUME NEW m \in AllEvery, m < n PROVE FALSE
        BY <1>1
    <2>2. <<m, n>> \in Less
        BY <1>1, <2>1 DEF Less, OpToRel
    <2>3. QED
        BY <1>3, <2>2
  <1>5. Shortest \in AllEvery /\ \A m \in AllEvery : Shortest <= m
      BY <1>3, <1>4 DEF Shortest, AllEvery
  <1>6. QED
      BY <1>1, <1>5

-----------------------------------------------------------------------------
\* A step of the tick at work, by its new record.
LEMMA OneTickMoves ==
    ASSUME TickTypes, NEW t \in Ticks, Busy(t), NEW new \in TickSet, TickTo(t, new)
    PROVE  /\ tick' \in [Ticks -> TickSet] /\ tick'[t] = new
           /\ \A u \in Ticks : u # t => tick[u] = Idle /\ tick'[u] = Idle /\ ~Busy(u) /\ ~Busy(u)'
  <1>1. tick \in [Ticks -> TickSet] /\ tick' = [tick EXCEPT ![t] = new]
      BY DEF TickTypes, TickTo
  <1>2. \A u \in Ticks : u # t => ~Busy(u)
      BY DEF TickTypes
  <1>3. \A u \in Ticks : ~Busy(u) => tick[u] = Idle
      BY DEF TickTypes
  <1>4. \A u \in Ticks : u # t => tick'[u] = tick[u]
      BY <1>1
  <1>5. tick'[t] = new /\ tick' \in [Ticks -> TickSet]
      BY <1>1
  <1>6. QED
      BY <1>2, <1>3, <1>4, <1>5 DEF Busy

\* No task at all fits the row, too.
LEMMA NoTaskFits == NoTask \in TaskSet /\ TaskRowFits(NoTask)
  <1>1. IsFiniteSet({})
      BY FS_EmptySet
  <1>2. {} \in SUBSET TimeSet /\ {} \in SUBSET (Nat \ {0}) /\ {} \subseteq AllEvery /\ NoValue \in Nat
      BY DEF NoValue
  <1>3. NoTask \in TaskSet
      BY <1>2 DEF NoTask, TaskSet
  <1>4. NoTask.times = {} /\ NoTask.every = {}
      BY DEF NoTask
  <1>5. QED
      BY <1>1, <1>2, <1>3, <1>4 DEF TaskRowFits

\* A tick that is not at work fits its record.
LEMMA IdleFits == Idle \in TickSet /\ Idle.pc = "idle" /\ Idle.sent = 0
  <1>1. <<>> \in Seq(ClaimSet) /\ 0 \in 0..Steps /\ NoValue \in Nat
      BY TaskNumbers DEF NoValue
  <1>2. QED
      BY <1>1, NoTaskFits DEF Idle, TickSet

\* Time does not go back, and the ticks at work are those that were or new.
Advances ==
    /\ clock' \in Nat /\ clock' >= clock
    /\ \A u \in Ticks : Busy(u)' => (Busy(u) /\ tick'[u].at = tick[u].at) \/ tick'[u].at = clock'

\* What is past stays past.
LEMMA PastStays ==
    ASSUME clock \in Nat, Advances, NEW n \in Nat, Past(n)
    PROVE  Past(n)'
  <1>1. n < clock /\ n < clock'
      BY DEF Past, Advances
  <1>2. ASSUME NEW u \in Ticks, Busy(u)' PROVE n < tick'[u].at
      BY <1>1, <1>2 DEF Past, Advances
  <1>3. QED
      BY <1>1, <1>2 DEF Past

-----------------------------------------------------------------------------
\* What each part of the invariant survives.
LEMMA SignalsStay ==
    ASSUME SignalsSound, signals' = signals, clock \in Nat, Advances
    PROVE  SignalsSound'
  <1>1. \A s \in signals : s.at \in Nat
      BY Instants DEF SignalsSound, SignalRow
  <1>2. \A s \in signals : s.at <= clock'
      BY <1>1 DEF SignalsSound, Advances
  <1>3. QED
      BY <1>2 DEF SignalsSound

\* A join that is noted stays so while no row of a signal is lost.
LEMMA NotedStays ==
    ASSUME clock \in Nat, Advances, signals \subseteq signals', journal \in Seq(Join),
           NEW k \in DOMAIN journal, journal'[k] = journal[k], Noted(k)
    PROVE  Noted(k)'
  <1>1. journal[k].at \in Nat /\ SignalRetention \in Nat
    <2>1. journal[k] \in Join
        OBVIOUS
    <2>2. journal[k].at \in Time
        BY <2>1 DEF Join
    <2>3. QED
        BY <2>2, Instants, TaskNumbers
  <1>2. CASE journal'[k].at + SignalRetention >= clock'
    <2>1. journal[k].at + SignalRetention >= clock
        BY <1>1, <1>2 DEF Advances
    <2>2. QED
        BY <2>1 DEF Noted
  <1>3. QED
      BY <1>2 DEF Noted

\* The joins behind the cursor, while no row of a signal is lost and no tick starts to drain.
LEMMA JoinsStay ==
    ASSUME WorldTypes, TickTypes, JoinsSound, Advances, signals \subseteq signals', UNCHANGED <<journal, cursor, seeded>>,
           \A u \in Ticks : tick'[u] = tick[u] \/ tick'[u].pc \notin Draining
    PROVE  JoinsSound'
  <1> USE DEF NoValue
  <1>1. clock \in Nat /\ journal \in Seq(Join) /\ Len(journal) \in Nat /\ DOMAIN journal = 1..Len(journal)
        /\ cursor \in 0..Len(journal) /\ seeded \in 0..Len(journal)
      BY Instants DEF WorldTypes
  <1>2. \A k \in 1..Len(journal) : Noted(k) => Noted(k)'
      BY <1>1, NotedStays
  <1>3. \A k \in (seeded + 1..cursor)' : Noted(k)'
      BY <1>1, <1>2 DEF JoinsSound
  <1>4. ASSUME NEW u \in Ticks PROVE ReadSoundly(u)'
    <2>1. CASE tick'[u].pc \notin Draining
        BY <2>1 DEF ReadSoundly, Draining
    <2>2. CASE tick'[u] = tick[u] /\ tick[u].pc \in Draining
      <3> DEFINE k == tick[u]
      <3>1. ReadSoundly(u)
          BY DEF JoinsSound
      <3> tick[u] \in TickSet
          BY DEF TickTypes
      <3> k.from \in Nat /\ k.next \in Nat /\ k.read \in Nat
          BY DEF TickSet
      <3>2. k.pc = "record" => \A n \in k.from..k.next - 1 : Noted(n)'
        <4>1. SUFFICES ASSUME k.pc = "record", NEW n \in k.from..k.next - 1 PROVE Noted(n)'
            OBVIOUS
        <4>2. k.from # NoValue /\ k.from <= k.next /\ k.next <= k.read /\ k.read <= Len(journal) /\ k.from \in {NoValue, cursor}
            BY <3>1, <4>1 DEF ReadSoundly, Draining
        <4> HIDE DEF k
        <4>4. n \in 1..Len(journal)
            BY <1>1, <4>1, <4>2
        <4>5. QED
            BY <1>2, <3>1, <4>1, <4>4 DEF ReadSoundly, k
      <3>3. k.pc = "save" /\ k.from # NoValue => \A n \in k.from..k.read : Noted(n)'
        <4>1. SUFFICES ASSUME k.pc = "save", k.from # NoValue, NEW n \in k.from..k.read PROVE Noted(n)'
            OBVIOUS
        <4>2. k.read <= Len(journal) /\ k.from \in {NoValue, cursor}
            BY <3>1, <4>1 DEF ReadSoundly, Draining
        <4>3. n \in 1..Len(journal)
          <5> HIDE DEF k
          <5>1. QED
              BY <1>1, <4>1, <4>2
        <4>4. QED
            BY <1>2, <3>1, <4>1, <4>3 DEF ReadSoundly
      <3>4. QED
          BY <2>2, <3>1, <3>2, <3>3 DEF ReadSoundly
    <2>3. QED
        BY <2>1, <2>2
  <1>5. QED
      BY <1>3, <1>4 DEF JoinsSound

\* What was delivered stays sealed while its run, or that the task is another, does; or the sweep took
\* the run for its age with no tick at work.
LEMMA DeliveriesStay ==
    ASSUME WorldTypes, DeliveriesSound, Advances, delivered' = delivered, taskEdits' \in Nat, taskEdits' >= taskEdits,
           \A k \in DOMAIN delivered : k \in DOMAIN runs => k \in DOMAIN runs' \/ k[2] # task'.id
                                                          \/ (delivered[k].at + RunRetention < clock /\ \A u \in Ticks : ~Busy(u)),
           \A k \in DOMAIN delivered : k[2] # task.id => k[2] # task'.id
    PROVE  DeliveriesSound'
  <1>1. SUFFICES ASSUME NEW k \in DOMAIN delivered
                 PROVE  /\ delivered[k] \in DeliverySet /\ delivered[k].at <= clock'
                        /\ k[2] \in 1..taskEdits' /\ Fits(k, delivered[k].trigger, k[2], delivered[k].at)
                        /\ Sealed(k)'
      BY DEF DeliveriesSound
  <1>2. delivered[k] \in DeliverySet /\ delivered[k].at <= clock
        /\ k[2] \in 1..taskEdits /\ Fits(k, delivered[k].trigger, k[2], delivered[k].at) /\ Sealed(k)
      BY DEF DeliveriesSound
  <1>3. clock \in Nat /\ taskEdits \in Nat /\ delivered[k].at \in Nat /\ delivered[k].at + RunRetention \in Nat
      BY <1>2, Instants, TaskNumbers DEF WorldTypes, DeliverySet
  <1>4. delivered[k].at <= clock' /\ k[2] \in 1..taskEdits'
      BY <1>2, <1>3 DEF Advances
  <1>5. Past(delivered[k].at + RunRetention) => Past(delivered[k].at + RunRetention)'
      BY <1>3, PastStays
  <1>6. delivered[k].at + RunRetention < clock /\ (\A u \in Ticks : ~Busy(u)) => Past(delivered[k].at + RunRetention)
      BY DEF Past
  <1>7. Sealed(k)'
      BY <1>2, <1>5, <1>6 DEF Sealed
  <1>8. QED
      BY <1>2, <1>4, <1>7

\* The runs, by what was received of them.
LEMMA RunsStay ==
    ASSUME RunsSound, UNCHANGED <<runs, delivered>>, task'.id = task.id
    PROVE  RunsSound'
  BY DEF RunsSound, Received, Exists

\* The claims a tick holds, if it, what was delivered and the runs stay.
LEMMA ClaimsStay ==
    ASSUME ClaimsSound, UNCHANGED <<runs, delivered>>, signals \subseteq signals',
           \A u \in Ticks : tick'[u].pc \in AtClaims => tick'[u] = tick[u] /\ (task.id # tick[u].parts.id => task'.id # tick[u].parts.id)
    PROVE  ClaimsSound'
  <1>1. SUFFICES ASSUME NEW u \in Ticks PROVE ClaimsFit(u)'
      BY DEF ClaimsSound
  <1>2. CASE tick'[u].pc \notin AtClaims
      BY <1>2 DEF ClaimsFit, ListFits, CurrentFits, AtClaims
  <1>3. CASE tick'[u].pc \in AtClaims
    <2>1. tick'[u] = tick[u] /\ ClaimsFit(u) /\ Key(u)' = Key(u)
        BY <1>3 DEF ClaimsSound, Key
    <2>2. QED
        BY <1>3, <2>1 DEF ClaimsFit, ListFits, ClaimFits, CurrentFits, Received
  <1>4. QED
      BY <1>2, <1>3

\* The first joins that were answered, while their rows are there or a sweep took them for their age.
LEMMA FirstsStay ==
    ASSUME WorldTypes, DeliveriesSound, FirstsSound, Advances, delivered' = delivered,
           \A p, a \in Nat : FirstRow(p, a) \in signals
                               => FirstRow(p, a) \in signals' \/ (a + SignalRetention < clock /\ \A u \in Ticks : ~Busy(u))
    PROVE  FirstsSound'
  <1>1. OncePerStart'
      BY DEF FirstsSound, OncePerStart
  <1>2. SUFFICES ASSUME NEW k \in DOMAIN delivered, delivered[k].trigger = "firstLogin"
                 PROVE  FirstRow(k[3], k[4]) \in signals' \/ Past(k[4] + SignalRetention)'
      BY <1>1 DEF FirstsSound
  <1>3. k \in LoginKeys(k[2])
      BY <1>2 DEF DeliveriesSound, Fits
  <1>4. k[3] \in Nat /\ k[4] \in Nat /\ k[4] + SignalRetention \in Nat /\ clock \in Nat
      BY <1>3, TaskNumbers, Instants DEF LoginKeys, WorldTypes
  <1>5. FirstRow(k[3], k[4]) \in signals \/ Past(k[4] + SignalRetention)
      BY <1>2 DEF FirstsSound
  <1>6. k[4] + SignalRetention < clock /\ (\A u \in Ticks : ~Busy(u)) => Past(k[4] + SignalRetention)
      BY DEF Past
  <1>7. QED
      BY <1>4, <1>5, <1>6, PastStays

\* The intervals, while the task is armed as before and no tick sets out.
LEMMA IntervalsStay ==
    ASSUME IntervalsSound, delivered' = delivered, task'.id = task.id, task'.next = task.next,
           \A u \in Ticks : tick'[u] = tick[u] \/ tick'[u].pc \notin BeforeClaims \cup AtClaims
    PROVE  IntervalsSound'
  <1>1. Spaced(task.id, task.next)' /\ SpacedIntervals'
      BY DEF IntervalsSound, Spaced, AtInterval, SpacedIntervals
  <1>2. ASSUME NEW u \in Ticks PROVE IntervalApart(u)'
    <2>1. CASE tick'[u].pc \notin BeforeClaims \cup AtClaims
        BY <2>1 DEF IntervalApart
    <2>2. CASE tick'[u] = tick[u]
        BY <2>2 DEF IntervalsSound, IntervalApart, Spaced, AtInterval
    <2>3. QED
        BY <2>1, <2>2
  <1>3. QED
      BY <1>1, <1>2 DEF IntervalsSound

\* At the start nothing was set, read, claimed or sent.
LEMMA TaskInitially == Init => TasksInv
  <1> SUFFICES ASSUME Init PROVE TasksInv
      OBVIOUS
  <1> USE DEF NoValue
  <1>1. 1 \in Time /\ 1 \in Process /\ 0 \in 0..MaxTaskEdits /\ 0 \in 0..MaxCrashes /\ 0 <= MaxJoins
      BY Instants, TaskNumbers DEF Process
  <1>2. journal = <<>> /\ journal \in Seq(Join) /\ Len(journal) = 0 /\ DOMAIN journal = {}
      BY DEF Init
  <1>3. WorldTypes
    <2>1. bot \in [up : BOOLEAN, process : Process]
        BY <1>1 DEF Init
    <2>2. TaskRowFits(task) /\ task.id = 0 /\ task.observed = 0 /\ task = NoTask
      <3>1. task = NoTask
          BY DEF Init
      <3>2. QED
          BY <3>1, NoTaskFits DEF NoTask
    <2>3. 0 <= clock /\ clock \in Time /\ taskEdits = 0 /\ crashes = 0 /\ cursor = 0 /\ seeded = 0
        BY <1>1 DEF Init
    <2>4. QED
        BY <1>1, <1>2, <2>1, <2>2, <2>3 DEF WorldTypes, Exists
  <1>4. tick = [t \in Ticks |-> Idle] /\ tick \in [Ticks -> TickSet] /\ \A t \in Ticks : tick[t] = Idle /\ ~Busy(t)
    <2>1. tick = [t \in Ticks |-> Idle]
        BY DEF Init
    <2>2. QED
        BY <2>1, IdleFits DEF Busy
  <1>5. TickTypes
      BY <1>4, IdleFits DEF TickTypes
  <1>6. signals = {} /\ runs = <<>> /\ delivered = <<>> /\ DOMAIN runs = {} /\ DOMAIN delivered = {} /\ cursor = 0 /\ seeded = 0
      BY DEF Init
  <1>7. SignalsSound /\ DeliveriesSound /\ RunsSound
      BY <1>6 DEF SignalsSound, DeliveriesSound, RunsSound
  <1>8. JoinsSound /\ ClaimsSound
      BY <1>4, <1>6, IdleFits DEF JoinsSound, ReadSoundly, ClaimsSound, ClaimsFit, ListFits, CurrentFits, Draining, AtClaims
  <1>9. FirstsSound
      BY <1>6 DEF FirstsSound, OncePerStart
  <1>10. IntervalsSound
      BY <1>4, <1>6, IdleFits DEF IntervalsSound, Spaced, AtInterval, IntervalApart, BeforeClaims, Draining, AtClaims, SpacedIntervals
  <1>11. QED
      BY <1>3, <1>5, <1>7, <1>8, <1>9, <1>10 DEF TasksInv

\* What all of it says of the numbers at hand.
LEMMA TaskFacts ==
    ASSUME TasksInv
    PROVE  /\ clock \in Time /\ clock \in Nat \ {0} /\ clock <= Len(Zone) /\ taskEdits \in Nat /\ crashes \in Nat
           /\ journal \in Seq(Join) /\ Len(journal) \in Nat /\ DOMAIN journal = 1..Len(journal)
           /\ task \in TaskSet /\ task.id \in Nat /\ task.next \in Nat /\ task.observed \in Nat
           /\ tick \in [Ticks -> TickSet]
  BY TaskNumbers, Instants DEF TasksInv, WorldTypes, TickTypes, TaskRowFits, TaskSet

\* Ticks, while time and ticks stand still.
LEMMA TicksStay ==
    ASSUME WorldTypes, TickTypes, UNCHANGED <<tick, clock>>, taskEdits' \in Nat, taskEdits' >= taskEdits
    PROVE  TickTypes' /\ Advances
  <1>1. taskEdits \in Nat /\ clock \in Nat
      BY Instants DEF WorldTypes
  <1>2. \A t \in Ticks : Busy(t)' = Busy(t)
      BY DEF Busy
  <1>3. \A i \in 1..taskEdits : i \in 1..taskEdits'
      BY <1>1
  <1>4. QED
      BY <1>1, <1>2, <1>3 DEF TickTypes, Advances

-----------------------------------------------------------------------------
\* Time passes, but not beyond what the timeouts of a tick at work allow (TickMax).
LEMMA PassKeepsTasks == ASSUME TasksInv, Pass PROVE TasksInv'
  <1> USE DEF TasksInv
  <1>1. clock \in Nat /\ clock' = clock + 1 /\ clock' \in Time /\ clock <= clock' /\ taskEdits \in Nat
      BY TaskFacts, Instants DEF Pass
  <1>2. UNCHANGED <<bot, journal, task, taskEdits, signals, cursor, seeded, runs, tick, delivered, crashes>>
      BY DEF Pass
  <1>3. WorldTypes'
    <2>1. \A k \in DOMAIN journal : journal[k].at \in Nat
      <3>1. \A k \in DOMAIN journal : journal[k] \in Join
          BY DEF WorldTypes
      <3>2. QED
          BY <3>1, Instants DEF Join
    <2>2. \A k \in DOMAIN journal : journal[k].at <= clock'
        BY <1>1, <2>1 DEF WorldTypes
    <2>3. task.observed <= clock'
        BY <1>1, TaskFacts DEF WorldTypes
    <2>4. QED
        BY <1>1, <1>2, <2>2, <2>3 DEF WorldTypes, Exists
  <1>4. Advances
      BY <1>1, <1>2 DEF Advances, Busy
  <1>5. TickTypes'
    <2>1. ASSUME NEW t \in Ticks, Busy(t) PROVE tick[t].at <= clock' /\ clock' <= tick[t].at + TickMax
      <3>1. tick[t] # Idle
          BY <2>1, IdleFits DEF Busy
      <3>2. clock < tick[t].at + TickMax /\ tick[t].at \in Time /\ tick[t].at <= clock
          BY <2>1, <3>1 DEF Pass, TickTypes
      <3>3. QED
          BY <1>1, <3>2, Instants, TaskNumbers
    <2>2. QED
        BY <1>2, <2>1 DEF TickTypes, Busy
  <1>6. SignalsSound' /\ JoinsSound'
      BY <1>1, <1>2, <1>4, SignalsStay, JoinsStay
  <1>7. DeliveriesSound' /\ RunsSound'
      BY <1>1, <1>2, <1>4, DeliveriesStay, RunsStay
  <1>8. ClaimsSound' /\ FirstsSound' /\ IntervalsSound'
      BY <1>1, <1>2, <1>4, ClaimsStay, FirstsStay, IntervalsStay
  <1>9. QED
      BY <1>3, <1>5, <1>6, <1>7, <1>8

\* A step of the bot or the clock aside: nothing of the tasks changes.
TasksStay == UNCHANGED <<clock, task, taskEdits, signals, cursor, seeded, runs, tick, delivered, crashes>>

\* All but the bot and its journal, when only they change.
LEMMA AllElseStays ==
    ASSUME TasksInv, TasksStay
    PROVE  /\ TickTypes' /\ Advances /\ SignalsSound' /\ DeliveriesSound' /\ RunsSound' /\ ClaimsSound' /\ FirstsSound'
           /\ IntervalsSound'
  <1> USE DEF TasksInv, TasksStay
  <1>1. clock \in Nat /\ taskEdits \in Nat
      BY TaskFacts
  <1>2. TickTypes' /\ Advances
      BY <1>1, TicksStay
  <1>3. SignalsSound' /\ DeliveriesSound' /\ RunsSound'
      BY <1>1, <1>2, SignalsStay, DeliveriesStay, RunsStay
  <1>4. ClaimsSound' /\ FirstsSound' /\ IntervalsSound'
      BY <1>1, <1>2, ClaimsStay, FirstsStay, IntervalsStay
  <1>5. QED
      BY <1>2, <1>3, <1>4

\* A join adds a line to the journal, behind which the cursor stays.
LEMMA BotJoinsKeepsTasks == ASSUME TasksInv, BotJoins PROVE TasksInv'
  <1> USE DEF TasksInv
  <1> DEFINE j == [process |-> bot.process, at |-> clock]
  <1>1. j \in Join /\ Len(journal) < MaxJoins /\ clock \in Nat
      BY TaskFacts DEF BotJoins, WorldTypes, Join
  <1>2. journal' = Append(journal, j) /\ TasksStay /\ bot' = bot /\ clock' = clock
      BY DEF BotJoins, TasksStay
  <1>3. /\ journal' \in Seq(Join) /\ Len(journal') = Len(journal) + 1 /\ DOMAIN journal' = 1..Len(journal) + 1
        /\ \A k \in 1..Len(journal) : journal'[k] = journal[k]
        /\ journal'[Len(journal) + 1] = j
    <2> HIDE DEF j
    <2>1. QED
        BY <1>1, <1>2, TaskFacts
  <1>4. WorldTypes'
    <2>1. \A k \in DOMAIN journal' : journal'[k].at <= clock
      <3>1. ASSUME NEW k \in DOMAIN journal' PROVE journal'[k].at <= clock
        <4>1. k \in 1..Len(journal) \/ k = Len(journal) + 1
            BY <1>3, TaskFacts
        <4>2. QED
            BY <1>1, <1>3, <4>1, TaskFacts DEF WorldTypes
      <3>2. QED
          BY <3>1
    <2>2. Len(journal') <= MaxJoins /\ cursor \in 0..Len(journal') /\ seeded \in 0..Len(journal')
        BY <1>1, <1>3, TaskFacts, TaskNumbers DEF WorldTypes
    <2>3. QED
        BY <1>2, <1>3, <2>1, <2>2 DEF WorldTypes, TasksStay, Exists
  <1>5. /\ TickTypes' /\ Advances /\ SignalsSound' /\ DeliveriesSound' /\ RunsSound' /\ ClaimsSound' /\ FirstsSound'
        /\ IntervalsSound'
      BY <1>2, AllElseStays
  <1>6. \A k \in 1..Len(journal) : Noted(k) => Noted(k)'
      BY <1>2, <1>3 DEF Noted, TasksStay
  <1>7. JoinsSound'
    <2>1. UNCHANGED <<cursor, seeded, tick>> /\ cursor \in 0..Len(journal) /\ seeded \in 0..Len(journal)
        BY <1>2 DEF TasksStay, WorldTypes
    <2>2. \A k \in seeded + 1..cursor : k \in 1..Len(journal)
        BY <2>1, TaskFacts
    <2>3. \A k \in seeded + 1..cursor : Noted(k)'
        BY <1>6, <2>2 DEF JoinsSound
    <2>4. ASSUME NEW u \in Ticks PROVE ReadSoundly(u)'
      <3>1. ReadSoundly(u) /\ tick'[u] = tick[u]
          BY <2>1 DEF JoinsSound
      <3>2. tick[u].from \in Nat /\ tick[u].next \in Nat /\ tick[u].read \in Nat
        <4>1. tick[u] \in TickSet
            BY TaskFacts
        <4>2. QED
            BY <4>1 DEF TickSet
      <3>3. tick[u].pc \in {"record", "save"} => tick[u].read <= Len(journal')
          BY <1>3, <3>1, <3>2, TaskFacts DEF ReadSoundly
      <3>4. ASSUME tick[u].pc = "record", NEW n \in tick[u].from..tick[u].next - 1 PROVE Noted(n)'
        <4>1. Noted(n) /\ tick[u].from # NoValue /\ tick[u].next <= tick[u].read /\ tick[u].read <= Len(journal)
            BY <3>1, <3>4 DEF ReadSoundly
        <4>2. n \in 1..Len(journal)
            BY <3>2, <3>4, <4>1, TaskFacts DEF NoValue
        <4>3. QED
            BY <1>6, <4>1, <4>2
      <3>5. ASSUME tick[u].pc = "save", tick[u].from # NoValue, NEW n \in tick[u].from..tick[u].read PROVE Noted(n)'
        <4>1. Noted(n) /\ tick[u].read <= Len(journal)
            BY <3>1, <3>5 DEF ReadSoundly
        <4>2. n \in 1..Len(journal)
            BY <3>2, <3>5, <4>1, TaskFacts DEF NoValue
        <4>3. QED
            BY <1>6, <4>1, <4>2
      <3>6. QED
          BY <2>1, <3>1, <3>3, <3>4, <3>5 DEF ReadSoundly
    <2>5. QED
        BY <2>1, <2>3, <2>4 DEF JoinsSound
  <1>8. QED
      BY <1>4, <1>5, <1>7

\* Starts and stops of the bot change nothing of its tasks.
LEMMA ClientKeepsTasks == ASSUME TasksInv, ClientStarts \/ ClientStops PROVE TasksInv'
  <1> USE DEF TasksInv
  <1>1. TasksStay /\ journal' = journal
      BY DEF ClientStarts, ClientStops, TasksStay
  <1>2. bot' \in [up : BOOLEAN, process : Process]
    <2>1. bot \in [up : BOOLEAN, process : Process] /\ bot.process \in Nat /\ MaxStops \in Nat
        BY TaskNumbers DEF WorldTypes, Process
    <2>2. CASE ClientStarts
        BY <2>1, <2>2 DEF ClientStarts
    <2>3. CASE ClientStops
      <3>1. bot.process + 1 \in Process
          BY <2>1, <2>3 DEF ClientStops, Process
      <3>2. QED
          BY <2>3, <3>1 DEF ClientStops
    <2>4. QED
        BY <2>2, <2>3
  <1>3. WorldTypes'
      BY <1>1, <1>2 DEF WorldTypes, TasksStay, Exists
  <1>4. /\ TickTypes' /\ Advances /\ SignalsSound' /\ DeliveriesSound' /\ RunsSound' /\ ClaimsSound' /\ FirstsSound'
        /\ IntervalsSound'
      BY <1>1, AllElseStays
  <1>5. JoinsSound'
      BY <1>1, <1>4, JoinsStay DEF TasksStay
  <1>6. QED
      BY <1>3, <1>4, <1>5

\* setTask: a new task has an id no run or claim has, a changed one is disarmed.
LEMMA SetTaskKeepsTasks == ASSUME TasksInv, NEW v \in Variants, SetTask(v) PROVE TasksInv'
  <1> USE DEF TasksInv
  <1>1. taskEdits \in Nat /\ taskEdits' = taskEdits + 1 /\ taskEdits' \in 0..MaxTaskEdits /\ clock \in Nat
      BY TaskFacts, TaskNumbers DEF SetTask
  <1>2. UNCHANGED <<clock, bot, journal, signals, cursor, seeded, runs, tick, delivered, crashes>> /\ task' = StoredTask(v)
      BY DEF SetTask
  <1>3. task'.id = (IF Exists THEN task.id ELSE taskEdits + 1) /\ task'.next = NoValue /\ task'.observed = NoValue
      BY <1>2 DEF StoredTask
  <1>4. task' \in TaskSet /\ task'.times = v.times /\ task'.every = v.every
    <2>1. task.id \in Nat /\ task.created \in Nat /\ NoValue \in Nat
        BY TaskFacts DEF TaskSet, NoValue
    <2>2. (IF Exists THEN task.id ELSE taskEdits + 1) \in Nat /\ (IF Exists THEN task.created ELSE clock) \in Nat
        BY <1>1, <2>1
    <2> DEFINE i == IF Exists THEN task.id ELSE taskEdits + 1
    <2> DEFINE c == IF Exists THEN task.created ELSE clock
    <2>3. task' = [enabled |-> v.enabled, onFirstLogin |-> v.onFirstLogin, onLogin |-> v.onLogin,
                   times |-> v.times, every |-> v.every, next |-> NoValue, observed |-> NoValue, id |-> i, created |-> c]
        BY <1>2 DEF StoredTask
    <2>4. i \in Nat /\ c \in Nat
        BY <2>2
    <2> HIDE DEF i, c
    <2>5. QED
        BY <2>1, <2>3, <2>4, VariantRows DEF TaskSet
  <1>5. TaskRowFits(task)' /\ task'.id <= taskEdits' /\ task'.observed <= clock /\ Exists'
      BY <1>1, <1>3, <1>4, VariantRows, TaskFacts DEF TaskRowFits, Exists, NoValue, WorldTypes
  <1>6. WorldTypes'
    <2>1. task'.observed <= clock'
        BY <1>2, <1>5
    <2>2. QED
        BY <1>1, <1>2, <1>5, <2>1 DEF WorldTypes
  <1>7. TickTypes' /\ Advances
      BY <1>1, <1>2, TicksStay
  <1>8. SignalsSound' /\ JoinsSound'
      BY <1>1, <1>2, <1>7, SignalsStay, JoinsStay
  <1>9. \A i \in 1..taskEdits : i # task.id => i # task'.id
      BY <1>1, <1>3, TaskFacts
  <1>10. DeliveriesSound'
    <2>1. \A k \in DOMAIN delivered : k[2] # task.id => k[2] # task'.id
        BY <1>9 DEF DeliveriesSound
    <2>2. QED
        BY <1>1, <1>2, <1>7, <2>1, DeliveriesStay
  <1>11. RunsSound'
    <2>1. CASE Exists
        BY <1>2, <1>3, <2>1, RunsStay
    <2>2. CASE ~Exists
      <3>1. DOMAIN runs = {}
          BY <2>2 DEF RunsSound
      <3>2. QED
          BY <1>2, <3>1 DEF RunsSound
    <2>3. QED
        BY <2>1, <2>2
  <1>12. \A u \in Ticks : Busy(u) => tick[u].parts.id \in 1..taskEdits
      BY DEF TickTypes
  <1>13. ClaimsSound'
    <2>1. \A u \in Ticks : tick'[u].pc \in AtClaims => tick'[u] = tick[u] /\ (task.id # tick[u].parts.id => task'.id # tick[u].parts.id)
        BY <1>2, <1>9, <1>12 DEF Busy, AtClaims
    <2>2. QED
        BY <1>2, <2>1, ClaimsStay
  <1>14. FirstsSound'
      BY <1>1, <1>2, <1>7, FirstsStay
  <1>15. IntervalsSound'
      BY <1>2, <1>3 DEF IntervalsSound, IntervalApart, Spaced, AtInterval, SpacedIntervals
  <1>16. QED
      BY <1>6, <1>7, <1>8, <1>10, <1>11, <1>13, <1>14, <1>15

\* deleteTask: nothing of the task is claimed any more.
LEMMA DeleteTaskKeepsTasks == ASSUME TasksInv, DeleteTask PROVE TasksInv'
  <1> USE DEF TasksInv
  <1>1. UNCHANGED <<clock, bot, journal, taskEdits, signals, cursor, seeded, tick, delivered, crashes>>
        /\ task' = NoTask /\ DOMAIN runs' = {}
      BY DEF DeleteTask
  <1>2. taskEdits \in Nat /\ clock \in Nat /\ task'.id = NoValue /\ task'.next = NoValue /\ task'.observed = 0
      BY <1>1, TaskFacts DEF NoTask, NoValue
  <1>3. WorldTypes'
    <2>1. task'.id <= taskEdits' /\ task'.observed <= clock' /\ TaskRowFits(task)'
        BY <1>1, <1>2, NoTaskFits DEF NoValue
    <2>2. QED
        BY <1>1, <2>1 DEF WorldTypes
  <1>4. TickTypes' /\ Advances
      BY <1>1, <1>2, TicksStay
  <1>5. SignalsSound' /\ JoinsSound'
      BY <1>1, <1>2, <1>4, SignalsStay, JoinsStay
  <1>6. DeliveriesSound'
    <2>1. \A k \in DOMAIN delivered : k[2] # task'.id
        BY <1>2 DEF DeliveriesSound, NoValue
    <2>2. QED
        BY <1>1, <1>2, <1>4, <2>1, DeliveriesStay
  <1>7. RunsSound'
      BY <1>1 DEF RunsSound
  <1>8. ClaimsSound'
    <2>1. SUFFICES ASSUME NEW u \in Ticks PROVE ClaimsFit(u)'
        BY DEF ClaimsSound
    <2>2. ClaimsFit(u) /\ tick'[u] = tick[u] /\ Key(u)' = Key(u)
        BY <1>1 DEF ClaimsSound, Key
    <2>3. Busy(u) => task'.id # tick[u].parts.id
        BY <1>2 DEF TickTypes, NoValue
    <2>4. tick[u].pc \in AtClaims => Busy(u)
        BY DEF Busy, AtClaims
    <2>5. tick[u].pc \in {"send", "failed"} => tick[u].pc \in AtClaims
        BY DEF AtClaims
    <2>6. QED
        BY <1>1, <2>2, <2>3, <2>4, <2>5 DEF ClaimsFit, ListFits, ClaimFits, CurrentFits, Received
  <1>9. FirstsSound'
      BY <1>1, <1>2, <1>4, FirstsStay
  <1>10. IntervalsSound'
      BY <1>1, <1>2 DEF IntervalsSound, IntervalApart, Spaced, AtInterval, SpacedIntervals
  <1>11. QED
      BY <1>3, <1>4, <1>5, <1>6, <1>7, <1>8, <1>9, <1>10

-----------------------------------------------------------------------------
\* The rows of a sweep.
LEMMA RunsSwept ==
    ASSUME TasksInv, NEW k \in DOMAIN runs
    PROVE  /\ k \in DOMAIN SweptRuns(clock) =>
                /\ SweptRuns(clock)[k] \in RunSet /\ SweptRuns(clock)[k].started = runs[k].started
                /\ SweptRuns(clock)[k].steps = runs[k].steps
                /\ SweptRuns(clock)[k].outcome = "sent" => runs[k].outcome = "sent"
           /\ k \notin DOMAIN SweptRuns(clock) => runs[k].started + RunRetention < clock
  <1> DEFINE stale == [j \in DOMAIN runs |-> runs[j].outcome = "running" /\ runs[j].started + AbandonAfter < clock]
  <1> DEFINE after == [j \in DOMAIN runs |-> IF stale[j] THEN [runs[j] EXCEPT !.outcome = "abandoned"] ELSE runs[j]]
  <1> DEFINE keep == [j \in DOMAIN runs |-> after[j].started + RunRetention >= clock \/ after[j].outcome = "running"]
  <1>1. SweptRuns(clock) = [j \in {i \in DOMAIN after : keep[i]} |-> after[j]]
      BY DEF SweptRuns, Kept
  <1>2. runs[k] \in RunSet
      BY DEF TasksInv, RunsSound
  <1>3. runs[k].started \in Nat /\ clock \in Nat /\ RunRetention \in Nat
      BY <1>2, TaskFacts, TaskNumbers, Instants DEF RunSet
  <1>4. after[k] = runs[k] \/ after[k] = [runs[k] EXCEPT !.outcome = "abandoned"]
      OBVIOUS
  <1>5. after[k] \in RunSet /\ after[k].started = runs[k].started /\ after[k].steps = runs[k].steps
        /\ (after[k].outcome = "sent" => runs[k].outcome = "sent")
    <2> HIDE DEF after
    <2>1. QED
        BY <1>2, <1>4 DEF RunSet
  <1>6. DOMAIN after = DOMAIN runs /\ (keep[k] <=> (after[k].started + RunRetention >= clock \/ after[k].outcome = "running"))
    <2>1. DOMAIN after = DOMAIN runs
        OBVIOUS
    <2> HIDE DEF after
    <2>2. QED
        BY <2>1
  <1> HIDE DEF after, keep, stale
  <1>7. k \in DOMAIN SweptRuns(clock) => SweptRuns(clock)[k] = after[k]
      BY <1>1
  <1>8. k \notin DOMAIN SweptRuns(clock) => ~keep[k]
      BY <1>1, <1>6
  <1>9. QED
      BY <1>3, <1>5, <1>6, <1>7, <1>8

\* A sweep adds no run.
LEMMA SweptDomain == DOMAIN SweptRuns(clock) \subseteq DOMAIN runs
  BY DEF SweptRuns, Kept

\* A tick starts with nothing at work: what its sweeps take no tick has claimed, and no tick will again.
LEMMA TickStartKeepsTasks == ASSUME TasksInv, NEW t \in Ticks, TickStart(t) PROVE TasksInv'
  <1> USE DEF TasksInv
  <1>1. \A u \in Ticks : tick[u] = Idle /\ ~Busy(u)
      BY IdleFits DEF TickStart, Busy
  <1>2. UNCHANGED <<clock, bot, journal, task, taskEdits, cursor, seeded, delivered, crashes>>
      BY DEF TickStart, SweepAndRead
  <1>3. clock \in Nat /\ clock \in Time /\ taskEdits \in Nat /\ RunRetention \in Nat /\ SignalRetention \in Nat /\ TickMax \in Nat
      BY TaskFacts, TaskNumbers
  <1>4. \/ runs' = SweptRuns(clock) /\ signals' = SweptSignals(clock)
        \/ UNCHANGED <<runs, signals>>
      BY DEF TickStart, SweepAndRead
  <1> DEFINE observes == bot.up /\ WantsJoinSignal(task)
  <1> DEFINE new == [Idle EXCEPT !.pc = IF observes THEN "read" ELSE "claim", !.at = clock, !.parts = task,
                        !.running = bot.up, !.from = IF observes THEN cursor ELSE NoValue]
  <1>5. (task.enabled /\ tick' = [tick EXCEPT ![t] = new]) \/ tick' = tick
      BY DEF TickStart, SweepAndRead, TickTo
  <1>6. /\ new.pc \in {"read", "claim"} /\ new.at = clock /\ new.parts = task /\ new.from \in {NoValue, cursor}
        /\ new \in TickSet /\ new.sent = 0
    <2>1. cursor \in Nat /\ task \in TaskSet /\ bot.up \in BOOLEAN /\ NoValue \in Nat
        BY TaskFacts DEF WorldTypes, NoValue
    <2> DEFINE pc == IF observes THEN "read" ELSE "claim"
    <2> DEFINE from == IF observes THEN cursor ELSE NoValue
    <2>2. /\ pc \in {"read", "claim"} /\ from \in {NoValue, cursor}
          /\ new = [Idle EXCEPT !.pc = pc, !.at = clock, !.parts = task, !.running = bot.up, !.from = from]
        OBVIOUS
    <2> HIDE DEF pc, from, new, observes
    <2>3. from \in Nat /\ pc \in ({"idle"} \cup BeforeClaims \cup AtClaims)
        BY <2>1, <2>2 DEF BeforeClaims, Draining
    <2>4. Idle \in TickSet /\ Idle.sent = 0
        BY IdleFits
    <2>5. QED
        BY <1>3, <2>1, <2>2, <2>3, <2>4 DEF TickSet
  <1> HIDE DEF new, observes
  <1>7. tick \in [Ticks -> TickSet]
      BY TaskFacts
  <1>8. \/ task.enabled /\ tick'[t] = new /\ (\A u \in Ticks : u # t => tick'[u] = Idle)
        \/ \A u \in Ticks : tick'[u] = Idle
      BY <1>1, <1>5, <1>7
  <1>9. tick' \in [Ticks -> TickSet]
      BY <1>5, <1>6, <1>7
  <1>10. /\ \A u \in Ticks : tick'[u] # Idle => u = t /\ tick'[u] = new /\ task.enabled
         /\ Idle.pc = "idle"
      BY <1>8, IdleFits
  <1>11. WorldTypes'
      BY <1>2 DEF WorldTypes, Exists
  <1>12. task.enabled => task.id \in 1..taskEdits
    <2>1. task.enabled => task.id # 0
        BY DEF WorldTypes, Exists, NoTask, NoValue
    <2>2. QED
        BY <1>3, <2>1, TaskFacts DEF WorldTypes
  <1>13. \A u \in Ticks : Busy(u)' => u = t /\ tick'[u] = new /\ task.enabled
      BY <1>10 DEF Busy
  <1>14. TickTypes'
    <2>1. \A u \in Ticks : ~Busy(u)' => tick'[u] = Idle
        BY <1>6, <1>10 DEF Busy
    <2>2. \A u \in Ticks : Busy(u)' => /\ tick'[u].at \in Time /\ tick'[u].at <= clock' /\ clock' <= tick'[u].at + TickMax
                                       /\ tick'[u].parts.id \in 1..taskEdits' /\ TaskRowFits(tick'[u].parts)
                                       /\ tick'[u].parts.observed <= tick'[u].at
        BY <1>2, <1>3, <1>6, <1>12, <1>13 DEF WorldTypes
    <2>3. \A u \in Ticks : tick'[u].sent = 0
        BY <1>6, <1>10, IdleFits
    <2>4. QED
        BY <1>9, <1>13, <2>1, <2>2, <2>3 DEF TickTypes
  <1>15. Advances
      BY <1>2, <1>3, <1>6, <1>13 DEF Advances
  <1>16. SignalsSound'
      BY <1>2, <1>4 DEF SignalsSound, SweptSignals
  <1>17. \A u \in Ticks : tick'[u].pc \notin AtClaims /\ tick'[u].pc \notin {"send", "failed", "record", "save"}
      BY <1>6, <1>10 DEF AtClaims
  <1>18. JoinsSound'
    <2>1. ASSUME NEW k, Noted(k) PROVE Noted(k)'
      <3>1. SUFFICES ASSUME journal[k].at + SignalRetention >= clock
                     PROVE  \E s \in signals' : s.process = journal[k].process /\ s.at = journal[k].at
          BY <1>2 DEF Noted
      <3>2. PICK s \in signals : s.process = journal[k].process /\ s.at = journal[k].at
          BY <2>1, <3>1 DEF Noted
      <3>3. s \in signals'
          BY <1>4, <3>1, <3>2 DEF SweptSignals
      <3>4. QED
          BY <3>2, <3>3
    <2>2. \A u \in Ticks : ReadSoundly(u)'
        BY <1>2, <1>6, <1>10, <1>17 DEF ReadSoundly, Draining
    <2>3. QED
        BY <1>2, <2>1, <2>2 DEF JoinsSound
  <1>19. DeliveriesSound'
    <2>1. ASSUME NEW k \in DOMAIN delivered, k \in DOMAIN runs, k \notin DOMAIN runs'
          PROVE  delivered[k].at + RunRetention < clock
      <3>1. runs[k].started = delivered[k].at
          BY <2>1 DEF RunsSound
      <3>2. runs' = SweptRuns(clock)
          BY <1>4, <2>1
      <3>3. QED
          BY <2>1, <3>1, <3>2, RunsSwept
    <2>2. QED
        BY <1>1, <1>2, <1>3, <1>15, <2>1, DeliveriesStay
  <1>20. RunsSound'
    <2>1. CASE runs' = runs
        BY <1>2, <2>1, RunsStay
    <2>2. CASE runs' = SweptRuns(clock)
      <3>1. SUFFICES ASSUME NEW k \in DOMAIN runs'
                     PROVE  /\ runs'[k] \in RunSet /\ k \in KeySet /\ k[2] = task'.id /\ Exists'
                            /\ k \in DOMAIN delivered' => runs'[k].started = delivered'[k].at
                            /\ runs'[k].outcome = "sent" => Received(k)' = Steps
                            /\ runs'[k].steps <= Received(k)'
          BY DEF RunsSound
      <3>2. k \in DOMAIN runs
          BY <2>2, <3>1, SweptDomain
      <3>3. /\ runs'[k] \in RunSet /\ runs'[k].started = runs[k].started
            /\ runs'[k].steps = runs[k].steps
            /\ runs'[k].outcome = "sent" => runs[k].outcome = "sent"
          BY <2>2, <3>1, <3>2, RunsSwept
      <3>4. Received(k)' = Received(k) /\ (Exists' <=> Exists)
          BY <1>2 DEF Received, Exists
      <3>5. QED
          BY <1>2, <3>2, <3>3, <3>4 DEF RunsSound
    <2>3. QED
        BY <1>4, <2>1, <2>2
  <1>21. ClaimsSound'
      BY <1>17 DEF ClaimsSound, ClaimsFit, ListFits, CurrentFits, AtClaims
  <1>22. FirstsSound'
    <2>1. ASSUME NEW p \in Nat, NEW a \in Nat, FirstRow(p, a) \in signals, FirstRow(p, a) \notin signals'
          PROVE  a + SignalRetention < clock
        BY <1>3, <1>4, <2>1 DEF FirstRow, SweptSignals
    <2>2. QED
        BY <1>1, <1>2, <1>15, <2>1, FirstsStay
  <1>23. IntervalsSound'
    <2>1. Spaced(task.id, task.next)' /\ SpacedIntervals'
        BY <1>2 DEF IntervalsSound, Spaced, AtInterval, SpacedIntervals
    <2>2. \A d \in AtInterval(task.id) : delivered[d].at <= clock
        BY DEF DeliveriesSound, AtInterval
    <2>3. ASSUME NEW u \in Ticks PROVE IntervalApart(u)'
      <3>1. tick'[u].pc \notin AtClaims
          BY <1>17
      <3>2. CASE tick'[u] = Idle
          BY <3>1, <3>2, <1>10 DEF IntervalApart, BeforeClaims, Draining
      <3>3. CASE tick'[u] = new
        <4>1. Spaced(task.id, task.next)' /\ (\A d \in AtInterval(task.id) : delivered[d].at <= clock)'
            BY <1>2, <2>1, <2>2 DEF AtInterval
        <4>2. tick'[u].parts = task' /\ tick'[u].at = clock'
            BY <1>2, <1>6, <3>3
        <4>3. QED
            BY <3>1, <4>1, <4>2 DEF IntervalApart, Spaced, AtInterval
      <3>4. QED
          BY <1>10, <3>2, <3>3
    <2>4. QED
        BY <2>1, <2>3 DEF IntervalsSound
  <1>24. QED
      BY <1>11, <1>14, <1>16, <1>18, <1>19, <1>20, <1>21, <1>22, <1>23

-----------------------------------------------------------------------------
\* A tick that goes on at the same time for the same task.
LEMMA TickGoesOn ==
    ASSUME TasksInv, NEW t \in Ticks, Busy(t), NEW new \in TickSet, TickTo(t, new),
           new = Idle \/ (new.pc # "idle" /\ new.at = tick[t].at /\ new.parts = tick[t].parts),
           new.pc \notin {"send", "failed"} => new.sent = 0,
           UNCHANGED <<clock, taskEdits>>
    PROVE  /\ TickTypes' /\ Advances
           /\ tick' \in [Ticks -> TickSet] /\ tick'[t] = new
           /\ \A u \in Ticks : u # t => tick[u] = Idle /\ tick'[u] = Idle /\ ~Busy(u) /\ ~Busy(u)'
  <1> USE DEF TasksInv
  <1>1. /\ tick' \in [Ticks -> TickSet] /\ tick'[t] = new
        /\ \A u \in Ticks : u # t => tick[u] = Idle /\ tick'[u] = Idle /\ ~Busy(u) /\ ~Busy(u)'
      BY OneTickMoves
  <1>2. Busy(t)' => new.at = tick[t].at /\ new.parts = tick[t].parts
      BY <1>1, IdleFits DEF Busy
  <1>3. ~Busy(t)' => new = Idle
      BY <1>1 DEF Busy
  <1>4. TickTypes'
    <2>1. \A u \in Ticks : ~Busy(u)' => tick'[u] = Idle
        BY <1>1, <1>3
    <2>2. \A u \in Ticks : Busy(u)' => /\ tick'[u].at \in Time /\ tick'[u].at <= clock' /\ clock' <= tick'[u].at + TickMax
                                       /\ tick'[u].parts.id \in 1..taskEdits' /\ TaskRowFits(tick'[u].parts)
                                       /\ tick'[u].parts.observed <= tick'[u].at
        BY <1>1, <1>2 DEF TickTypes
    <2>3. \A u \in Ticks : tick'[u].pc \notin {"send", "failed"} => tick'[u].sent = 0
        BY <1>1, IdleFits
    <2>4. \A u, v \in Ticks : Busy(u)' /\ Busy(v)' => u = v
        BY <1>1
    <2>5. QED
        BY <1>1, <2>1, <2>2, <2>3, <2>4 DEF TickTypes
  <1>5. Advances
      BY <1>1, <1>2, TaskFacts DEF Advances
  <1>6. QED
      BY <1>1, <1>4, <1>5

\* A step of the drain of the journal: of the tick only what it drains.
DrainsOn(t, new) ==
    /\ tick[t].pc \in Draining /\ new \in TickSet /\ TickTo(t, new)
    /\ new.pc \in Draining \cup {"claim"} /\ new.at = tick[t].at /\ new.parts = tick[t].parts /\ new.sent = 0
    /\ signals \subseteq signals'
    /\ UNCHANGED <<clock, bot, journal, task, taskEdits, runs, delivered, crashes>>

\* All but the joins, when a tick reads or records them.
LEMMA DrainKeeps ==
    ASSUME TasksInv, NEW t \in Ticks, NEW new, DrainsOn(t, new)
    PROVE  /\ TickTypes' /\ Advances /\ DeliveriesSound' /\ RunsSound' /\ ClaimsSound' /\ FirstsSound' /\ IntervalsSound'
           /\ (\A k \in 1..Len(journal) : Noted(k) => Noted(k)')
           /\ tick'[t] = new /\ \A u \in Ticks : u # t => tick'[u] = Idle
  <1> USE DEF TasksInv, DrainsOn
  <1>1. Busy(t) /\ new.pc # "idle" /\ new.pc \notin {"send", "failed"} /\ new.pc \notin AtClaims /\ new.pc \in BeforeClaims /\ tick[t].pc \in BeforeClaims
      BY DEF Busy, Draining, AtClaims, BeforeClaims
  <1>2. /\ TickTypes' /\ Advances
        /\ tick' \in [Ticks -> TickSet] /\ tick'[t] = new
        /\ \A u \in Ticks : u # t => tick[u] = Idle /\ tick'[u] = Idle /\ ~Busy(u) /\ ~Busy(u)'
      BY <1>1, TickGoesOn
  <1>3. clock \in Nat /\ taskEdits \in Nat
      BY TaskFacts
  <1>4. DeliveriesSound' /\ RunsSound'
      BY <1>2, <1>3, DeliveriesStay, RunsStay
  <1>5. FirstsSound'
      BY <1>2, FirstsStay
  <1>6. ClaimsSound'
    <2>1. \A u \in Ticks : tick'[u].pc \notin AtClaims
        BY <1>1, <1>2, IdleFits DEF AtClaims
    <2>2. QED
        BY <2>1, ClaimsStay
  <1>7. IntervalsSound'
    <2>1. Spaced(task.id, task.next)' /\ SpacedIntervals'
        BY DEF IntervalsSound, Spaced, AtInterval, SpacedIntervals
    <2>2. IntervalApart(t)'
      <3>1. IntervalApart(t)
          BY DEF IntervalsSound
      <3>2. QED
          BY <1>1, <1>2, <3>1 DEF IntervalApart, Spaced, AtInterval
    <2>3. ASSUME NEW u \in Ticks, u # t PROVE IntervalApart(u)'
        BY <1>2, <2>3, IdleFits DEF IntervalApart, BeforeClaims, Draining, AtClaims
    <2>4. QED
        BY <2>1, <2>2, <2>3 DEF IntervalsSound
  <1>8. \A k \in 1..Len(journal) : Noted(k) => Noted(k)'
      BY <1>2, <1>3, TaskFacts, NotedStays
  <1>9. QED
      BY <1>2, <1>4, <1>5, <1>6, <1>7, <1>8

\* A tick whose drain is over.
LEMMA DrainedFits ==
    ASSUME TasksInv, NEW t \in Ticks, tick[t].pc \in Draining
    PROVE  /\ Drained(t) \in TickSet /\ Drained(t).pc = "claim" /\ Drained(t).at = tick[t].at
           /\ Drained(t).parts = tick[t].parts /\ Drained(t).sent = 0
  <1>1. tick[t] \in TickSet /\ tick[t].sent = 0 /\ NoValue \in Nat
      BY TaskFacts DEF TasksInv, TickTypes, NoValue, Draining
  <1>2. QED
      BY <1>1 DEF Drained, TickSet, BeforeClaims

\* What a tick reads of the journal.
LEMMA DrainFacts ==
    ASSUME TasksInv, NEW t \in Ticks, tick[t].pc \in Draining
    PROVE  /\ tick[t] \in TickSet /\ tick[t].from \in Nat /\ tick[t].next \in Nat /\ tick[t].read \in Nat /\ tick[t].round \in Nat
           /\ tick[t].sent = 0 /\ ReadSoundly(t)
           /\ Len(journal) \in Nat /\ cursor \in 0..Len(journal) /\ seeded \in 0..Len(journal)
  <1>1. tick[t] \in TickSet
      BY TaskFacts
  <1>2. tick[t].from \in Nat /\ tick[t].next \in Nat /\ tick[t].read \in Nat /\ tick[t].round \in Nat
      BY <1>1 DEF TickSet
  <1>3. QED
      BY <1>1, <1>2, TaskFacts DEF TasksInv, TickTypes, JoinsSound, WorldTypes, Draining

\* readJoinSightings: what is read begins at the cursor.
LEMMA ReadJoinsKeepsTasks == ASSUME TasksInv, NEW t \in Ticks, ReadJoins(t) PROVE TasksInv'
  <1> USE DEF TasksInv
  <1> DEFINE from == tick[t].from
  <1>1. tick[t].pc = "read" /\ tick[t].pc \in Draining
      BY DEF ReadJoins, Draining
  <1>2. UNCHANGED <<clock, bot, journal, task, taskEdits, signals, cursor, seeded, runs, delivered, crashes>>
      BY DEF ReadJoins
  <1>3. /\ tick[t] \in TickSet /\ from \in Nat /\ tick[t].sent = 0 /\ ReadSoundly(t) /\ from \in {NoValue, cursor}
        /\ Len(journal) \in Nat /\ cursor \in 0..Len(journal) /\ tick[t].round \in Nat
      BY <1>1, DrainFacts DEF ReadSoundly
  <1>4. ReadUpTo(from) \in Nat /\ from <= ReadUpTo(from) /\ ReadUpTo(from) <= Len(journal)
    <2>1. JournalMax \in Nat /\ (from = 0 \/ from = cursor)
        BY <1>3, TaskNumbers DEF NoValue
    <2>2. cursor \in Nat /\ cursor <= Len(journal) /\ Len(journal) \in Nat /\ from \in Nat
        BY <1>3
    <2> HIDE DEF from
    <2>3. QED
        BY <2>1, <2>2 DEF ReadUpTo
  <1>5. \E new : /\ TickTo(t, new) /\ new \in TickSet /\ new.pc \in Draining \cup {"claim"}
                 /\ new.at = tick[t].at /\ new.parts = tick[t].parts /\ new.sent = 0
                 /\ \/ new.pc = "claim"
                    \/ new.pc = "record" /\ new.from = from /\ from # NoValue /\ new.next = from /\ new.read = ReadUpTo(from)
                    \/ new.pc = "save" /\ new.from = NoValue /\ new.read = Len(journal)
                    \/ new.pc = "read" /\ new.from = NoValue
    <2>1. CASE TickTo(t, Drained(t))
        BY <1>1, <2>1, DrainedFits
    <2>2. CASE from # NoValue /\ TickTo(t, [tick[t] EXCEPT !.pc = "record", !.next = from, !.read = ReadUpTo(from)])
      <3> DEFINE new == [tick[t] EXCEPT !.pc = "record", !.next = from, !.read = ReadUpTo(from)]
      <3>1. new \in TickSet /\ new.pc = "record" /\ new.at = tick[t].at /\ new.parts = tick[t].parts /\ new.sent = 0
            /\ new.from = from /\ new.next = from /\ new.read = ReadUpTo(from)
          BY <1>3, <1>4 DEF TickSet, BeforeClaims, Draining
      <3> HIDE DEF new
      <3>2. QED
          BY <2>2, <3>1 DEF Draining, new
    <2>3. CASE from = NoValue /\ TickTo(t, [tick[t] EXCEPT !.pc = "save", !.read = Len(journal)])
      <3> DEFINE new == [tick[t] EXCEPT !.pc = "save", !.read = Len(journal)]
      <3>1. new \in TickSet /\ new.pc = "save" /\ new.at = tick[t].at /\ new.parts = tick[t].parts /\ new.sent = 0
            /\ new.from = from /\ new.read = Len(journal)
          BY <1>3 DEF TickSet, BeforeClaims, Draining
      <3> HIDE DEF new
      <3>2. QED
          BY <2>3, <3>1 DEF Draining, new
    <2>4. CASE from # NoValue /\ TickTo(t, [tick[t] EXCEPT !.from = NoValue, !.round = @ + 1])
      <3> DEFINE new == [tick[t] EXCEPT !.from = NoValue, !.round = @ + 1]
      <3>1. new.pc = "read" /\ new.at = tick[t].at /\ new.parts = tick[t].parts /\ new.sent = 0 /\ new.from = NoValue
          BY <1>1, <1>3 DEF TickSet
      <3>2. new \in TickSet
        <4>1. tick[t].round + 1 \in Nat /\ NoValue \in Nat
            BY <1>3 DEF NoValue
        <4>2. QED
            BY <1>3, <4>1 DEF TickSet
      <3> HIDE DEF new
      <3>3. QED
          BY <2>4, <3>1, <3>2 DEF Draining, new
    <2>5. QED
        BY <2>1, <2>2, <2>3, <2>4 DEF ReadJoins
  <1>6. PICK new : /\ TickTo(t, new) /\ new \in TickSet /\ new.pc \in Draining \cup {"claim"}
                 /\ new.at = tick[t].at /\ new.parts = tick[t].parts /\ new.sent = 0
                 /\ \/ new.pc = "claim"
                    \/ new.pc = "record" /\ new.from = from /\ from # NoValue /\ new.next = from /\ new.read = ReadUpTo(from)
                    \/ new.pc = "save" /\ new.from = NoValue /\ new.read = Len(journal)
                    \/ new.pc = "read" /\ new.from = NoValue
      BY <1>5
  <1>7. DrainsOn(t, new)
      BY <1>1, <1>2, <1>6 DEF DrainsOn
  <1>8. /\ TickTypes' /\ Advances /\ DeliveriesSound' /\ RunsSound' /\ ClaimsSound' /\ FirstsSound' /\ IntervalsSound'
        /\ (\A k \in 1..Len(journal) : Noted(k) => Noted(k)')
        /\ tick'[t] = new /\ \A u \in Ticks : u # t => tick'[u] = Idle
      BY <1>7, DrainKeeps
  <1>9. WorldTypes' /\ SignalsSound'
      BY <1>2 DEF WorldTypes, Exists, SignalsSound
  <1>10. JoinsSound'
    <2>1. \A k \in (seeded + 1..cursor)' : Noted(k)'
        BY <1>2 DEF JoinsSound, Noted
    <2>2. ReadSoundly(t)'
      <3>1. tick'[t] = new /\ cursor' = cursor /\ journal' = journal
          BY <1>2, <1>8
      <3>2. CASE new.pc = "claim"
          BY <3>1, <3>2 DEF ReadSoundly, Draining
      <3>3. CASE new.pc = "record" /\ new.from = from /\ from # NoValue /\ new.next = from /\ new.read = ReadUpTo(from)
        <4>1. \A n \in from..from - 1 : Noted(n)'
            BY <1>3
        <4>2. QED
            BY <1>3, <1>4, <3>1, <3>3, <4>1 DEF ReadSoundly, Draining
      <3>4. CASE new.pc = "save" /\ new.from = NoValue /\ new.read = Len(journal)
          BY <1>3, <3>1, <3>4 DEF ReadSoundly, Draining
      <3>5. CASE new.pc = "read" /\ new.from = NoValue
          BY <1>3, <3>1, <3>5 DEF ReadSoundly, Draining
      <3>6. QED
          BY <1>6, <3>2, <3>3, <3>4, <3>5
    <2>3. \A u \in Ticks : u # t => ReadSoundly(u)'
        BY <1>8, IdleFits DEF ReadSoundly, Draining
    <2>4. QED
        BY <2>1, <2>2, <2>3 DEF JoinsSound
  <1>11. QED
      BY <1>8, <1>9, <1>10

\* recordJoinSightings: the join is noted, as the first of its process only if none was.
LEMMA RecordJoinsKeepsTasks == ASSUME TasksInv, NEW t \in Ticks, RecordJoins(t) PROVE TasksInv'
  <1> USE DEF TasksInv
  <1>n. PICK n \in Nat : n = tick[t].next
      BY DrainFacts DEF RecordJoins, Draining
  <1> DEFINE new == [tick[t] EXCEPT !.next = @ + 1, !.pc = IF tick[t].next < tick[t].read THEN "record" ELSE "save"]
  <1>1. tick[t].pc = "record" /\ tick[t].pc \in Draining /\ signals' = Recorded(signals, journal[n]) /\ TickTo(t, new)
      BY <1>n DEF RecordJoins, Draining
  <1>2. UNCHANGED <<clock, bot, journal, task, taskEdits, cursor, seeded, runs, delivered, crashes>>
      BY DEF RecordJoins
  <1>3. /\ tick[t] \in TickSet /\ tick[t].sent = 0 /\ ReadSoundly(t)
        /\ tick[t].from \in Nat /\ n \in Nat /\ tick[t].read \in Nat /\ Len(journal) \in Nat
        /\ cursor \in 0..Len(journal) /\ seeded \in 0..Len(journal)
      BY <1>1, DrainFacts
  <1>4. /\ tick[t].from # NoValue /\ tick[t].from <= n /\ n <= tick[t].read /\ tick[t].read <= Len(journal)
        /\ tick[t].from \in {NoValue, cursor} /\ \A k \in tick[t].from..n - 1 : Noted(k)
      BY <1>n, <1>1, <1>3 DEF ReadSoundly
  <1>5. /\ new \in TickSet /\ new.pc = (IF n < tick[t].read THEN "record" ELSE "save") /\ new.at = tick[t].at
        /\ new.parts = tick[t].parts /\ new.sent = 0 /\ new.from = tick[t].from /\ new.next = n + 1 /\ new.read = tick[t].read
    <2> DEFINE pc == IF tick[t].next < tick[t].read THEN "record" ELSE "save"
    <2>1. pc \in {"record", "save"} /\ new = [tick[t] EXCEPT !.next = @ + 1, !.pc = pc]
        OBVIOUS
    <2> HIDE DEF pc, new
    <2>2. new.pc = pc /\ new.at = tick[t].at /\ new.parts = tick[t].parts /\ new.sent = 0
          /\ new.from = tick[t].from /\ new.next = n + 1 /\ new.read = tick[t].read
        BY <1>n, <1>3, <2>1 DEF TickSet
    <2>3. pc \in {"idle"} \cup BeforeClaims \cup AtClaims /\ tick[t].next + 1 \in Nat
        BY <1>n, <2>1 DEF BeforeClaims, Draining
    <2>4. new \in TickSet
        BY <1>3, <2>1, <2>3 DEF TickSet
    <2>5. QED
        BY <1>n, <2>2, <2>4 DEF pc
  <1> HIDE DEF new
  <1>6. n \in 1..Len(journal) /\ n \in DOMAIN journal /\ journal[n] \in Join
      BY <1>3, <1>4, TaskFacts DEF NoValue
  <1> DEFINE j == journal[n]
  <1>7. j.process \in Process /\ j.at \in Time /\ j.at <= clock
      BY <1>6 DEF Join, WorldTypes
  <1> HIDE DEF j
  <1>8. /\ signals \subseteq signals' /\ SignalsSound' /\ \E s \in signals' : s.process = j.process /\ s.at = j.at
    <2>1. CASE \E s \in signals : s.process = j.process /\ s.at = j.at
      <3>1. signals' = signals
          BY <1>1, <2>1 DEF Recorded, j
      <3>2. QED
          BY <1>2, <2>1, <3>1 DEF SignalsSound
    <2>2. CASE ~\E s \in signals : s.process = j.process /\ s.at = j.at
      <3> DEFINE r == [process |-> j.process, at |-> j.at, first |-> ~HasJoinedAs(signals, j.process)]
      <3>1. signals' = signals \cup {r}
          BY <1>1, <2>2 DEF Recorded, j
      <3>2. r \in SignalRow /\ r.process = j.process /\ r.at = j.at /\ (r.first => \A s \in signals : s.process # r.process)
          BY <1>7 DEF SignalRow, HasJoinedAs
      <3> HIDE DEF r
      <3>3. SignalsSound'
        <4>1. signals' \subseteq SignalRow /\ \A s \in signals' : s.at <= clock'
            BY <1>2, <1>7, <3>1, <3>2 DEF SignalsSound
        <4>2. \A s, q \in signals' : s.first /\ q.first /\ s.process = q.process => s = q
            BY <3>1, <3>2 DEF SignalsSound
        <4>3. QED
            BY <4>1, <4>2 DEF SignalsSound
      <3>4. QED
          BY <3>1, <3>2, <3>3
    <2>3. QED
        BY <2>1, <2>2
  <1>9. DrainsOn(t, new)
      BY <1>1, <1>2, <1>5, <1>8 DEF DrainsOn, Draining
  <1>10. /\ TickTypes' /\ Advances /\ DeliveriesSound' /\ RunsSound' /\ ClaimsSound' /\ FirstsSound' /\ IntervalsSound'
         /\ (\A k \in 1..Len(journal) : Noted(k) => Noted(k)')
         /\ tick'[t] = new /\ \A u \in Ticks : u # t => tick'[u] = Idle
      BY <1>9, DrainKeeps
  <1>11. WorldTypes'
      BY <1>2 DEF WorldTypes, Exists
  <1>12. Noted(n)'
      BY <1>2, <1>8 DEF Noted, j
  <1>13. \A k \in tick[t].from..n : Noted(k)'
    <2>1. \A k \in tick[t].from..n : k = n \/ (k \in tick[t].from..n - 1 /\ k \in 1..Len(journal))
        BY <1>3, <1>4 DEF NoValue
    <2>2. QED
        BY <1>4, <1>10, <1>12, <2>1
  <1>14. JoinsSound'
    <2>1. \A k \in (seeded + 1..cursor)' : Noted(k)'
      <3>1. \A k \in seeded + 1..cursor : k \in 1..Len(journal)
          BY <1>3
      <3>2. QED
          BY <1>2, <1>10, <3>1 DEF JoinsSound
    <2>2. ReadSoundly(t)'
      <3>1. tick'[t] = new /\ cursor' = cursor /\ journal' = journal
          BY <1>2, <1>10
      <3>2. tick[t].from..(n + 1) - 1 = tick[t].from..n /\ (~(n < tick[t].read) => tick[t].read = n) /\ (n < tick[t].read => n + 1 <= tick[t].read)
            /\ tick[t].from <= n + 1
          BY <1>3, <1>4
      <3>3. QED
          BY <1>3, <1>4, <1>5, <1>13, <3>1, <3>2 DEF ReadSoundly, Draining
    <2>3. \A u \in Ticks : u # t => ReadSoundly(u)'
        BY <1>10, IdleFits DEF ReadSoundly, Draining
    <2>4. QED
        BY <2>1, <2>2, <2>3 DEF JoinsSound
  <1>15. QED
      BY <1>8, <1>10, <1>11, <1>14

\* saveCursor: up to the line it saves, every join was noted or is skipped by a seed.
LEMMA SaveCursorKeepsTasks == ASSUME TasksInv, NEW t \in Ticks, SaveCursor(t) PROVE TasksInv'
  <1> USE DEF TasksInv
  <1> DEFINE k == tick[t]
  <1> DEFINE next == [k EXCEPT !.pc = "read", !.from = k.read, !.round = @ + 1, !.next = NoValue, !.read = NoValue]
  <1>1. k.pc = "save" /\ k.pc \in Draining /\ cursor' = k.read /\ seeded' = (IF k.from = NoValue THEN k.read ELSE seeded)
        /\ (TickTo(t, next) \/ TickTo(t, Drained(t)))
      BY DEF SaveCursor, Draining
  <1>2. UNCHANGED <<clock, bot, journal, task, taskEdits, signals, runs, delivered, crashes>>
      BY DEF SaveCursor
  <1>3. /\ k \in TickSet /\ k.sent = 0 /\ ReadSoundly(t)
        /\ k.from \in Nat /\ k.read \in Nat /\ k.round \in Nat /\ Len(journal) \in Nat
        /\ cursor \in 0..Len(journal) /\ seeded \in 0..Len(journal)
      BY <1>1, DrainFacts
  <1>4. k.read <= Len(journal) /\ k.from \in {NoValue, cursor} /\ (k.from # NoValue => \A n \in k.from..k.read : Noted(n))
      BY <1>1, <1>3 DEF ReadSoundly
  <1>5. /\ next \in TickSet /\ next.pc = "read" /\ next.at = k.at /\ next.parts = k.parts /\ next.sent = 0 /\ next.from = k.read
    <2>1. next.pc = "read" /\ next.at = k.at /\ next.parts = k.parts /\ next.sent = 0 /\ next.from = k.read
        BY <1>3 DEF TickSet
    <2>2. k.round + 1 \in Nat /\ NoValue \in Nat /\ "read" \in {"idle"} \cup BeforeClaims \cup AtClaims
        BY <1>3 DEF BeforeClaims, Draining, NoValue
    <2>3. next \in TickSet
        BY <1>3, <2>2 DEF TickSet
    <2>4. QED
        BY <2>1, <2>3
  <1> HIDE DEF next
  <1>6. PICK new : /\ new \in {next, Drained(t)} /\ TickTo(t, new)
      BY <1>1
  <1>7. DrainsOn(t, new) /\ (new.pc = "claim" \/ (new.pc = "read" /\ new.from = k.read))
      BY <1>1, <1>2, <1>5, <1>6, DrainedFits DEF DrainsOn, Draining
  <1>8. /\ TickTypes' /\ Advances /\ DeliveriesSound' /\ RunsSound' /\ ClaimsSound' /\ FirstsSound' /\ IntervalsSound'
        /\ (\A i \in 1..Len(journal) : Noted(i) => Noted(i)')
        /\ tick'[t] = new /\ \A u \in Ticks : u # t => tick'[u] = Idle
      BY <1>7, DrainKeeps
  <1>9. cursor' \in 0..Len(journal) /\ seeded' \in 0..Len(journal)
      BY <1>1, <1>3, <1>4
  <1>10. WorldTypes' /\ SignalsSound'
      BY <1>2, <1>9 DEF WorldTypes, Exists, SignalsSound
  <1>11. JoinsSound'
    <2>1. ASSUME NEW i \in (seeded + 1..cursor)' PROVE Noted(i)'
      <3>1. k.from # NoValue /\ k.from = cursor /\ seeded' = seeded
        <4>1. CASE k.from = NoValue
            BY <1>1, <1>3, <2>1, <4>1
        <4>2. QED
            BY <1>1, <1>4, <4>1
      <3>2. i \in 1..Len(journal) /\ (i \in seeded + 1..cursor \/ i \in k.from..k.read)
        <4> HIDE DEF k
        <4>1. QED
            BY <1>1, <1>3, <1>4, <2>1, <3>1
      <3>3. QED
          BY <1>4, <1>8, <3>1, <3>2 DEF JoinsSound
    <2>2. ReadSoundly(t)'
        BY <1>1, <1>7, <1>8 DEF ReadSoundly, Draining
    <2>3. \A u \in Ticks : u # t => ReadSoundly(u)'
        BY <1>8, IdleFits DEF ReadSoundly, Draining
    <2>4. QED
        BY <2>1, <2>2, <2>3 DEF JoinsSound
  <1>12. QED
      BY <1>8, <1>10, <1>11

\* The lists of a finite set.
LEMMA ListOf ==
    ASSUME NEW S, IsFiniteSet(S), NEW T, S \subseteq T, NEW f \in SetToSeqs(S)
    PROVE  f \in Seq(T) /\ \A i \in DOMAIN f : f[i] \in S
  <1>1. Cardinality(S) \in Nat
      BY FS_CardinalityType
  <1>2. f \in [1..Cardinality(S) -> S]
      BY DEF SetToSeqs
  <1>3. QED
      BY <1>1, <1>2

\* One list after another.
LEMMA TwoLists ==
    ASSUME NEW S, NEW f \in Seq(S), NEW g \in Seq(S), NEW T, \A i \in DOMAIN f : f[i] \in T, \A i \in DOMAIN g : g[i] \in T
    PROVE  f \o g \in Seq(S) /\ \A i \in DOMAIN (f \o g) : (f \o g)[i] \in T
  <1>1. /\ f \o g \in Seq(S) /\ Len(f \o g) = Len(f) + Len(g) /\ Len(f) \in Nat /\ Len(g) \in Nat
        /\ \A i \in 1..Len(f) + Len(g) : (f \o g)[i] = IF i <= Len(f) THEN f[i] ELSE g[i - Len(f)]
      BY ConcatProperties
  <1>2. DOMAIN f = 1..Len(f) /\ DOMAIN g = 1..Len(g) /\ DOMAIN (f \o g) = 1..Len(f) + Len(g)
      BY <1>1
  <1>3. ASSUME NEW i \in 1..Len(f) + Len(g) PROVE (f \o g)[i] \in T
    <2>1. CASE i <= Len(f)
        BY <1>1, <1>2, <2>1
    <2>2. CASE ~(i <= Len(f))
      <3>1. i - Len(f) \in 1..Len(g)
          BY <1>1, <2>2
      <3>2. QED
          BY <1>1, <1>2, <2>2, <3>1
    <2>3. QED
        BY <2>1, <2>2
  <1>4. QED
      BY <1>1, <1>2, <1>3

\* The claims a tick works out, whatever their order, by what they are of.
AllClaims(row, at, isUp) ==
    (UNION {SignalClaims(row, s) : s \in Recent(at)}) \cup TimeClaims(row, at) \cup IntervalClaims(row, at, isUp)

\* The claims are those of joins, of times and of the interval.
LEMMA ClaimSorts ==
    ASSUME NEW row, NEW at, NEW isUp
    PROVE  /\ \A s \in Recent(at) : \A c \in SignalClaims(row, s) : c \in AllClaims(row, at, isUp)
           /\ \A c \in TimeClaims(row, at) : c \in AllClaims(row, at, isUp)
           /\ \A c \in IntervalClaims(row, at, isUp) : c \in AllClaims(row, at, isUp)
           /\ \A c \in AllClaims(row, at, isUp) :
                 \/ \E s \in Recent(at) : c \in SignalClaims(row, s)
                 \/ c \in TimeClaims(row, at)
                 \/ c \in IntervalClaims(row, at, isUp)
  <1> DEFINE logins == UNION {SignalClaims(row, s) : s \in Recent(at)}
  <1>1. AllClaims(row, at, isUp) = (logins \cup TimeClaims(row, at)) \cup IntervalClaims(row, at, isUp)
      BY DEF AllClaims
  <1>2. \A s \in Recent(at) : \A c \in SignalClaims(row, s) : c \in logins
      OBVIOUS
  <1>3. \A c \in logins : \E s \in Recent(at) : c \in SignalClaims(row, s)
      OBVIOUS
  <1> HIDE DEF logins
  <1>4. QED
      BY <1>1, <1>2, <1>3, Zenon

\* The keys of a task are keys.
LEMMA Keys ==
    ASSUME NEW id \in Nat, NEW at \in Time
    PROVE  LoginKeys(id) \subseteq KeySet /\ TimeKeys(id) \subseteq KeySet /\ IntervalKeys(id) \subseteq KeySet
  BY DEF LoginKeys, TimeKeys, IntervalKeys, KeySet

\* What a tick knows that considers a task.
LEMMA Considering ==
    ASSUME TasksInv, NEW t \in Ticks, tick[t].pc = "claim"
    PROVE  /\ Busy(t) /\ tick[t] \in TickSet /\ tick[t].parts \in TaskSet /\ tick[t].at \in Time /\ tick[t].at \in Nat
           /\ tick[t].at <= clock /\ clock <= tick[t].at + TickMax
           /\ tick[t].parts.id \in 1..taskEdits /\ tick[t].parts.id \in Nat \ {0} /\ tick[t].parts.next \in Nat /\ tick[t].parts.observed \in Nat
           /\ tick[t].parts.observed <= tick[t].at
           /\ IsFiniteSet(tick[t].parts.times) /\ tick[t].parts.every \subseteq AllEvery /\ tick[t].parts.times \subseteq TimeSet
           /\ tick[t].parts.every \subseteq Nat \ {0}
           /\ Spaced(tick[t].parts.id, tick[t].parts.next) /\ \A d \in AtInterval(tick[t].parts.id) : delivered[d].at <= tick[t].at
  <1>1. Busy(t) /\ tick[t] \in TickSet
      BY TaskFacts DEF Busy
  <1>2. /\ tick[t].at \in Time /\ tick[t].at <= clock /\ clock <= tick[t].at + TickMax
        /\ tick[t].parts.id \in 1..taskEdits /\ TaskRowFits(tick[t].parts)
        /\ tick[t].parts.observed <= tick[t].at
      BY <1>1 DEF TasksInv, TickTypes
  <1>3. tick[t].parts \in TaskSet /\ IsFiniteSet(tick[t].parts.times) /\ tick[t].parts.every \subseteq AllEvery
      BY <1>2 DEF TaskRowFits
  <1>4. tick[t].parts.next \in Nat /\ tick[t].parts.observed \in Nat /\ tick[t].parts.times \subseteq TimeSet /\ tick[t].parts.every \subseteq Nat \ {0}
      BY <1>3 DEF TaskSet
  <1>5. tick[t].at \in Nat /\ tick[t].parts.id \in Nat \ {0}
      BY <1>2, Instants, TaskFacts
  <1>6. Spaced(tick[t].parts.id, tick[t].parts.next) /\ \A d \in AtInterval(tick[t].parts.id) : delivered[d].at <= tick[t].at
      BY DEF TasksInv, IntervalsSound, IntervalApart, BeforeClaims
  <1>7. QED
      BY <1>1, <1>2, <1>3, <1>4, <1>5, <1>6

\* A key of a trigger that was delivered long ago does not come back.
LEMMA KeysAreFresh ==
    ASSUME TasksInv, NEW t \in Ticks, tick[t].pc = "claim", NEW key, NEW trigger, key \in DOMAIN delivered,
           Fits(key, trigger, tick[t].parts.id, tick[t].at),
           trigger \in {"login", "firstLogin"} => tick[t].at <= key[4] + SignalCatchUp,
           trigger = "interval" => key[3] = tick[t].parts.next /\ key[3] # NoValue
    PROVE  key \in DOMAIN runs \/ task.id # tick[t].parts.id
  <1> DEFINE at == tick[t].at
  <1> DEFINE id == tick[t].parts.id
  <1> DEFINE d == delivered[key]
  <1>1. /\ Busy(t) /\ at \in Time /\ at \in Nat /\ id \in Nat /\ Spaced(id, tick[t].parts.next)
      BY Considering
  <1>2. /\ d \in DeliverySet /\ Fits(key, d.trigger, key[2], d.at) /\ Sealed(key)
      BY DEF TasksInv, DeliveriesSound
  <1>3. d.at \in Time /\ d.at \in Nat /\ RunRetention \in Nat /\ TickMax \in Nat /\ SignalCatchUp \in Nat /\ SignalCatchUp + TickMax <= RunRetention
      BY <1>2, Instants, TaskNumbers DEF DeliverySet
  <1>4. key[2] = id
      BY <1>1 DEF Fits, LoginKeys, TimeKeys, IntervalKeys
  <1>5. SUFFICES ASSUME d.at + RunRetention < at PROVE FALSE
      BY <1>1, <1>2, <1>4 DEF Sealed, Past
  <1>6. CASE trigger \in {"login", "firstLogin"}
    <2>1. key \in LoginKeys(id) /\ at <= key[4] + SignalCatchUp
        BY <1>6 DEF Fits
    <2>2. key[1] = "login" /\ key[4] \in Nat
        BY <2>1 DEF LoginKeys
    <2>3. key[4] <= d.at + TickMax
        BY <1>2, <2>2 DEF Fits, TimeKeys, IntervalKeys
    <2> HIDE DEF d, at
    <2>4. QED
        BY <1>1, <1>3, <1>5, <2>1, <2>2, <2>3
  <1>7. CASE trigger = "time"
    <2>1. key \in TimeKeys(id) /\ key[3] = Zone[at].day
        BY <1>7 DEF Fits
    <2>2. key[1] = "time"
        BY <2>1 DEF TimeKeys
    <2>3. key[3] = Zone[d.at].day
        BY <1>2, <2>2 DEF Fits, LoginKeys, IntervalKeys
    <2>4. at <= d.at + RunRetention
        BY <1>1, <1>3, <2>1, <2>3, DaysEnd
    <2> HIDE DEF d, at
    <2>5. QED
        BY <1>1, <1>3, <1>5, <2>4
  <1>8. CASE trigger = "interval"
    <2>1. key \in IntervalKeys(id) /\ key[3] = tick[t].parts.next /\ key[3] # NoValue /\ AllEvery # {}
        BY <1>8 DEF Fits
    <2>2. key[1] = "interval" /\ key[3] \in Nat
        BY <2>1 DEF IntervalKeys
    <2>3. d.trigger = "interval" /\ key[3] <= d.at
        BY <1>2, <2>2 DEF Fits, LoginKeys, TimeKeys
    <2>4. key \in AtInterval(id)
        BY <1>4, <2>3 DEF AtInterval
    <2>5. d.at + Shortest <= key[3]
        BY <1>1, <2>1, <2>4 DEF Spaced
    <2>6. Shortest \in Nat \ {0}
        BY <2>1, ShortestIs
    <2> HIDE DEF d
    <2>7. QED
        BY <1>3, <2>2, <2>3, <2>5, <2>6
  <1>9. QED
      BY <1>6, <1>7, <1>8 DEF Fits

\* Each of the claims fits its trigger, and is new.
LEMMA ClaimsAreNew ==
    ASSUME TasksInv, NEW t \in Ticks, tick[t].pc = "claim",
           NEW c \in AllClaims(tick[t].parts, tick[t].at, tick[t].running)
    PROVE  /\ c \in ClaimSet /\ ClaimFits(t, c)
           /\ c.trigger = "interval" => /\ c.key = IntervalKey(tick[t].parts.id, tick[t].parts.next)
                                        /\ IntervalFires(tick[t].parts, tick[t].at, tick[t].running)
  <1> DEFINE row == tick[t].parts
  <1> DEFINE at == tick[t].at
  <1>1. /\ Busy(t) /\ at \in Time /\ at \in Nat /\ row.id \in Nat /\ row.next \in Nat /\ clock <= at + TickMax /\ at <= clock
        /\ row.times \subseteq TimeSet /\ row.every \subseteq AllEvery
      BY Considering
  <1>2. LoginKeys(row.id) \subseteq KeySet /\ TimeKeys(row.id) \subseteq KeySet /\ IntervalKeys(row.id) \subseteq KeySet
      BY <1>1, Keys
  <1>3. ASSUME c \in ClaimSet, Fits(c.key, c.trigger, row.id, at),
               c.trigger \in {"login", "firstLogin"} => at <= c.key[4] + SignalCatchUp,
               c.trigger = "firstLogin" => FirstRow(c.key[3], c.key[4]) \in signals,
               c.trigger = "interval" => /\ c.key = IntervalKey(row.id, row.next)
                                         /\ IntervalFires(row, at, tick[t].running)
        PROVE  /\ c \in ClaimSet /\ ClaimFits(t, c)
               /\ c.trigger = "interval" => /\ c.key = IntervalKey(row.id, row.next)
                                            /\ IntervalFires(row, at, tick[t].running)
    <2>1. c.trigger = "interval" => c.key[3] = row.next /\ c.key[3] # NoValue
        BY <1>3 DEF IntervalKey, IntervalFires
    <2>2. c.key \in DOMAIN delivered => c.key \in DOMAIN runs \/ task.id # row.id
        BY <1>3, <2>1, KeysAreFresh
    <2>3. QED
        BY <1>3, <2>2 DEF ClaimFits
  <1>4. CASE \E s \in Recent(at) : c \in SignalClaims(row, s)
    <2>1. PICK s \in Recent(at) : c \in SignalClaims(row, s)
        BY <1>4
    <2>2. s \in signals /\ s.at + SignalCatchUp >= at
        BY <2>1 DEF Recent
    <2>3. s \in SignalRow /\ s.at <= clock
        BY <2>2 DEF TasksInv, SignalsSound
    <2>4. s.process \in Nat /\ s.at \in Nat /\ s.first \in BOOLEAN
        BY <2>3, Instants, TaskNumbers DEF SignalRow, Process
    <2>5. c.key = LoginKey(row.id, s) /\ c.trigger \in {"login", "firstLogin"} /\ (c.trigger = "firstLogin" => s.first)
          /\ c = [key |-> c.key, trigger |-> c.trigger]
        BY <2>1 DEF SignalClaims
    <2>6. c.key = <<"login", row.id, s.process, s.at>> /\ c.key \in LoginKeys(row.id)
        BY <2>4, <2>5 DEF LoginKey, LoginKeys
    <2>7. c.key[3] = s.process /\ c.key[4] = s.at
        BY <2>6
    <2>8. s.at <= at + TickMax
        BY <1>1, <2>3, <2>4, TaskNumbers, TaskFacts
    <2>9. c.trigger = "firstLogin" => s = FirstRow(s.process, s.at)
        BY <2>3, <2>5 DEF FirstRow, SignalRow
    <2>10. c \in ClaimSet
      <3>1. c.key \in KeySet /\ c.trigger \in Triggers
          BY <1>2, <2>5, <2>6 DEF Triggers
      <3>2. QED
          BY <2>5, <3>1 DEF ClaimSet
    <2>11. Fits(c.key, c.trigger, row.id, at)
        BY <2>5, <2>6, <2>7, <2>8 DEF Fits
    <2>12. QED
        BY <1>3, <2>2, <2>5, <2>7, <2>9, <2>10, <2>11
  <1>5. CASE c \in TimeClaims(row, at)
    <2>1. PICK time \in row.times : c = [key |-> TimeKey(row.id, Zone[at].day, time.minute), trigger |-> "time"]
        BY <1>5 DEF TimeClaims
    <2>2. time.minute \in Nat /\ Zone[at].day \in Nat
        BY <1>1, <2>1, Instants DEF TimeSet
    <2>3. c.key = <<"time", row.id, Zone[at].day, time.minute>> /\ c.trigger = "time"
        BY <2>1 DEF TimeKey
    <2>4. c.key \in TimeKeys(row.id) /\ c.key[3] = Zone[at].day
        BY <1>1, <2>2, <2>3 DEF TimeKeys
    <2>5. c \in ClaimSet
      <3>1. c.key \in KeySet /\ c.trigger \in Triggers
          BY <1>2, <2>3, <2>4 DEF Triggers
      <3>2. c = [key |-> c.key, trigger |-> c.trigger]
          BY <2>1
      <3>3. QED
          BY <3>1, <3>2 DEF ClaimSet
    <2>6. Fits(c.key, c.trigger, row.id, at)
        BY <2>3, <2>4 DEF Fits
    <2>7. QED
        BY <1>3, <2>3, <2>5, <2>6
  <1>6. CASE c \in IntervalClaims(row, at, tick[t].running)
    <2>1. IntervalFires(row, at, tick[t].running) /\ c = [key |-> IntervalKey(row.id, row.next), trigger |-> "interval"]
        BY <1>6 DEF IntervalClaims
    <2>2. c.key = <<"interval", row.id, row.next>> /\ c.trigger = "interval" /\ c.key = IntervalKey(row.id, row.next)
        BY <2>1 DEF IntervalKey
    <2>3. c.key \in IntervalKeys(row.id) /\ c.key[3] = row.next
        BY <1>1, <2>2 DEF IntervalKeys
    <2>4. row.next <= at /\ AllEvery # {}
        BY <1>1, <2>1 DEF IntervalFires
    <2>5. c \in ClaimSet
      <3>1. c.key \in KeySet /\ c.trigger \in Triggers
          BY <1>2, <2>2, <2>3 DEF Triggers
      <3>2. c = [key |-> c.key, trigger |-> c.trigger]
          BY <2>1
      <3>3. QED
          BY <3>1, <3>2 DEF ClaimSet
    <2>6. Fits(c.key, c.trigger, row.id, at)
        BY <2>2, <2>3, <2>4 DEF Fits
    <2>7. QED
        BY <1>3, <2>1, <2>2, <2>5, <2>6
  <1>7. QED
      BY <1>4, <1>5, <1>6, ClaimSorts, Zenon

\* Every list of claims is one of those.
LEMMA ListsAreOfClaims ==
    ASSUME TasksInv, NEW t \in Ticks, tick[t].pc = "claim",
           NEW claims \in ClaimLists(tick[t].parts, tick[t].at, tick[t].running)
    PROVE  /\ claims \in Seq(ClaimSet)
           /\ \A i \in DOMAIN claims : claims[i] \in AllClaims(tick[t].parts, tick[t].at, tick[t].running)
  <1> DEFINE row == tick[t].parts
  <1> DEFINE at == tick[t].at
  <1> DEFINE all == AllClaims(row, at, tick[t].running)
  <1>1. all \subseteq ClaimSet
      BY ClaimsAreNew
  <1>2. PICK login \in UNION {SetToSeqs(some) : some \in LoginClaims(row, at)},
             times \in SetToSeqs(TimeClaims(row, at)),
             interval \in SetToSeqs(IntervalClaims(row, at, tick[t].running)) : claims = login \o times \o interval
      BY DEF ClaimLists
  <1>3. login \in Seq(ClaimSet) /\ \A i \in DOMAIN login : login[i] \in all
    <2>1. PICK some \in LoginClaims(row, at) : login \in SetToSeqs(some)
        BY <1>2
    <2>2. some = {} \/ \E s \in Recent(at) : some = SignalClaims(row, s)
        BY <2>1 DEF LoginClaims, LatestOf
    <2>3. some \subseteq all
        BY <2>2, ClaimSorts
    <2>4. some = {} \/ \E c : some = {c}
        BY <2>2 DEF SignalClaims
    <2>5. IsFiniteSet(some)
        BY <2>4, FS_EmptySet, FS_Singleton
    <2> HIDE DEF all
    <2>6. some \subseteq ClaimSet
        BY <1>1, <2>3
    <2>7. QED
        BY <2>1, <2>3, <2>5, <2>6, ListOf
  <1>4. times \in Seq(ClaimSet) /\ \A i \in DOMAIN times : times[i] \in all
    <2>1. IsFiniteSet({each \in row.times : IsDue(each, at)})
        BY Considering, FS_Subset
    <2>2. IsFiniteSet(TimeClaims(row, at))
      <3> DEFINE due == {each \in row.times : IsDue(each, at)}
      <3> DEFINE f == [time \in due |-> [key |-> TimeKey(row.id, Zone[at].day, time.minute), trigger |-> "time"]]
      <3>1. f \in Surjection(due, TimeClaims(row, at))
          BY DEF Surjection, TimeClaims
      <3>2. QED
          BY <2>1, <3>1, FS_Surjection
    <2>3. TimeClaims(row, at) \subseteq all
        BY ClaimSorts
    <2> HIDE DEF all
    <2>4. TimeClaims(row, at) \subseteq ClaimSet
        BY <1>1, <2>3
    <2>5. QED
        BY <1>2, <2>2, <2>3, <2>4, ListOf
  <1>5. interval \in Seq(ClaimSet) /\ \A i \in DOMAIN interval : interval[i] \in all
    <2> DEFINE some == IntervalClaims(row, at, tick[t].running)
    <2>1. some = {} \/ \E c : some = {c}
        BY DEF IntervalClaims
    <2>2. some \subseteq all
        BY ClaimSorts
    <2>3. interval \in SetToSeqs(some)
        BY <1>2
    <2> HIDE DEF some, all
    <2>4. IsFiniteSet(some)
        BY <2>1, FS_EmptySet, FS_Singleton
    <2>5. some \subseteq ClaimSet
        BY <1>1, <2>2
    <2>6. QED
        BY <2>2, <2>3, <2>4, <2>5, ListOf
  <1> HIDE DEF all
  <1>6. login \o times \in Seq(ClaimSet) /\ \A i \in DOMAIN (login \o times) : (login \o times)[i] \in all
      BY <1>3, <1>4, TwoLists
  <1>7. (login \o times) \o interval \in Seq(ClaimSet)
        /\ \A i \in DOMAIN ((login \o times) \o interval) : ((login \o times) \o interval)[i] \in all
      BY <1>5, <1>6, TwoLists
  <1>8. QED
      BY <1>2, <1>7 DEF all

\* What the interval of a task is armed for.
LEMMA ArmedLater ==
    ASSUME TasksInv, NEW t \in Ticks, tick[t].pc = "claim", tick[t].parts.every # {},
           NEW next \in ArmedAt(tick[t].parts, tick[t].at, tick[t].running)
    PROVE  /\ next \in Nat
           /\ \A d \in AtInterval(tick[t].parts.id) : delivered[d].at + Shortest <= next
           /\ IntervalFires(tick[t].parts, tick[t].at, tick[t].running) => tick[t].at + Shortest <= next
  <1> DEFINE row == tick[t].parts
  <1> DEFINE at == tick[t].at
  <1>1. /\ at \in Nat /\ row.next \in Nat /\ row.observed \in Nat /\ row.observed <= at
        /\ row.every \subseteq AllEvery /\ row.every \subseteq Nat \ {0}
        /\ Spaced(row.id, row.next) /\ \A d \in AtInterval(row.id) : delivered[d].at <= at
      BY Considering
  <1>2. Shortest \in Nat \ {0} /\ \A n \in row.every : Shortest <= n /\ n \in Nat
      BY <1>1, ShortestIs
  <1>3. \A d \in AtInterval(row.id) : delivered[d].at \in Nat
    <2>1. \A d \in AtInterval(row.id) : delivered[d] \in DeliverySet
        BY DEF TasksInv, DeliveriesSound, AtInterval
    <2>2. QED
        BY <2>1, Instants DEF DeliverySet
  <1> HIDE DEF row, at
  <1>4. CASE next \in {at + length : length \in row.every}
    <2>1. PICK length \in row.every : next = at + length
        BY <1>4
    <2>2. length \in Nat /\ Shortest <= length /\ next \in Nat /\ at + Shortest <= next
        BY <1>1, <1>2, <2>1
    <2>3. \A d \in AtInterval(row.id) : delivered[d].at + Shortest <= next
        BY <1>1, <1>2, <1>3, <2>2
    <2>4. QED
        BY <2>2, <2>3 DEF row, at
  <1>5. CASE ~(next \in {at + length : length \in row.every})
    <2>1. row.next # NoValue /\ ~IntervalFires(row, at, tick[t].running) /\ (next = row.next \/ next = row.next + (at - row.observed))
        BY <1>5 DEF ArmedAt, row, at
    <2>2. next \in Nat /\ row.next <= next
        BY <1>1, <2>1
    <2>3. \A d \in AtInterval(row.id) : delivered[d].at + Shortest <= next
        BY <1>1, <1>2, <1>3, <2>1, <2>2 DEF Spaced
    <2>4. QED
        BY <2>1, <2>2, <2>3 DEF row, at
  <1>6. QED
      BY <1>4, <1>5

\* considerTask: the interval is armed far enough ahead, and what is claimed is new.
LEMMA ConsiderTaskKeepsTasks == ASSUME TasksInv, NEW t \in Ticks, ConsiderTask(t) PROVE TasksInv'
  <1> USE DEF TasksInv
  <1> DEFINE row == tick[t].parts
  <1> DEFINE at == tick[t].at
  <1> DEFINE isUp == tick[t].running
  <1>1. tick[t].pc = "claim" /\ tick[t].sent = 0
      BY DEF ConsiderTask, TickTypes
  <1>2. UNCHANGED <<clock, bot, journal, taskEdits, signals, cursor, seeded, runs, delivered, crashes>>
      BY DEF ConsiderTask
  <1>3. /\ Busy(t) /\ tick[t] \in TickSet /\ row \in TaskSet /\ at \in Time /\ at \in Nat /\ at <= clock
        /\ row.id \in 1..taskEdits /\ row.id \in Nat \ {0} /\ row.next \in Nat
        /\ Spaced(row.id, row.next) /\ \A d \in AtInterval(row.id) : delivered[d].at <= at
      BY <1>1, Considering
  <1>4. PICK new : /\ TickTo(t, new)
                   /\ \/ new = Idle
                      \/ \E claims : /\ claims \in ClaimLists(row, at, isUp) /\ claims # <<>> /\ ~ArmRefused(row)
                                     /\ new = [tick[t] EXCEPT !.pc = "next", !.claims = claims]
      BY Zenon DEF ConsiderTask
  <1>5. /\ task'.id = task.id /\ TaskRowFits(task)' /\ task'.observed <= clock
        /\ Exists' = Exists /\ (~Exists => task' = task)
        /\ \/ task' = task
           \/ /\ row.every # {} /\ task.id = row.id /\ task'.next \in ArmedAt(row, at, isUp)
        /\ ~ArmRefused(row) /\ row.every # {} /\ task.id = row.id => task'.next \in ArmedAt(row, at, isUp)
    <2>1. task \in TaskSet /\ TaskRowFits(task) /\ task.observed <= clock
        BY TaskFacts DEF WorldTypes
    <2>2. CASE task' = task /\ ~(~ArmRefused(row) /\ row.every # {} /\ task.id = row.id)
        BY <1>2, <2>1, <2>2 DEF Exists
    <2>3. CASE /\ row.every # {} /\ task.id = row.id
               /\ \E next \in ArmedAt(row, at, isUp) : task' = [task EXCEPT !.next = next, !.observed = at]
      <3>1. PICK next \in ArmedAt(row, at, isUp) : task' = [task EXCEPT !.next = next, !.observed = at]
          BY <2>3
      <3>2. next \in Nat
          BY <1>1, <2>3, <3>1, ArmedLater
      <3>3. task' \in TaskSet /\ task'.id = task.id /\ task'.next = next /\ task'.observed = at /\ task'.times = task.times /\ task'.every = task.every
          BY <1>3, <2>1, <3>1, <3>2 DEF TaskSet
      <3>4. TaskRowFits(task)'
          BY <2>1, <3>3 DEF TaskRowFits
      <3>5. Exists /\ Exists'
          BY <1>3, <2>3, <3>3 DEF Exists, NoValue
      <3>6. QED
          BY <1>3, <2>3, <3>1, <3>3, <3>4, <3>5
    <2>4. QED
        BY <2>2, <2>3 DEF ConsiderTask, ArmInterval, ArmRefused
  <1>6. WorldTypes'
    <2>1. task'.observed <= clock' /\ task'.id <= taskEdits' /\ (~Exists' => task' = NoTask)
        BY <1>2, <1>5 DEF WorldTypes
    <2>2. QED
        BY <1>2, <1>5, <2>1 DEF WorldTypes
  <1>7. \/ new = Idle
        \/ /\ new.pc = "next" /\ new.at = at /\ new.parts = row /\ new.sent = 0 /\ new \in TickSet
           /\ new.claims # <<>> /\ ~ArmRefused(row)
           /\ \A i \in DOMAIN new.claims : new.claims[i] \in AllClaims(row, at, isUp)
    <2>1. SUFFICES ASSUME NEW claims \in ClaimLists(row, at, isUp), claims # <<>>, ~ArmRefused(row),
                          new = [tick[t] EXCEPT !.pc = "next", !.claims = claims]
                   PROVE  /\ new.pc = "next" /\ new.at = at /\ new.parts = row /\ new.sent = 0 /\ new \in TickSet
                          /\ new.claims # <<>> /\ ~ArmRefused(row)
                          /\ \A i \in DOMAIN new.claims : new.claims[i] \in AllClaims(row, at, isUp)
        BY <1>4
    <2>2. claims \in Seq(ClaimSet) /\ \A i \in DOMAIN claims : claims[i] \in AllClaims(row, at, isUp)
        BY <1>1, ListsAreOfClaims
    <2>3. new.pc = "next" /\ new.at = at /\ new.parts = row /\ new.sent = 0 /\ new.claims = claims
        BY <1>1, <1>3, <2>1 DEF TickSet
    <2>4. new \in TickSet
      <3>1. "next" \in {"idle"} \cup BeforeClaims \cup AtClaims
          BY DEF AtClaims
      <3> DEFINE Claims == Seq(ClaimSet)
      <3>2. claims \in Claims
          BY <2>2
      <3>3. tick[t] \in [pc : {"idle"} \cup BeforeClaims \cup AtClaims, at : Nat, parts : TaskSet, running : BOOLEAN, round : Nat,
                         from : Nat, next : Nat, read : Nat, claims : Claims, sent : 0..Steps]
          BY <1>3 DEF TickSet
      <3> HIDE DEF Claims
      <3>4. new \in [pc : {"idle"} \cup BeforeClaims \cup AtClaims, at : Nat, parts : TaskSet, running : BOOLEAN, round : Nat,
                     from : Nat, next : Nat, read : Nat, claims : Claims, sent : 0..Steps]
          BY <2>1, <3>1, <3>2, <3>3
      <3>5. QED
          BY <3>4 DEF TickSet, Claims
    <2>5. QED
        BY <2>1, <2>2, <2>3, <2>4
  <1>8. /\ TickTypes' /\ Advances
        /\ tick' \in [Ticks -> TickSet] /\ tick'[t] = new
        /\ \A u \in Ticks : u # t => tick[u] = Idle /\ tick'[u] = Idle /\ ~Busy(u) /\ ~Busy(u)'
      BY <1>2, <1>3, <1>4, <1>7, IdleFits, TickGoesOn
  <1>9. clock \in Nat /\ taskEdits \in Nat
      BY TaskFacts
  <1>10. \A u \in Ticks : tick'[u].pc \in {"idle", "next"}
      BY <1>7, <1>8, IdleFits
  <1>11. SignalsSound' /\ JoinsSound'
    <2>1. \A u \in Ticks : tick'[u].pc \notin Draining
        BY <1>10 DEF Draining
    <2>2. QED
        BY <1>2, <1>8, <1>9, <2>1, SignalsStay, JoinsStay
  <1>12. DeliveriesSound' /\ RunsSound' /\ FirstsSound'
    <2>1. \A k \in DOMAIN delivered : k[2] # task.id => k[2] # task'.id
        BY <1>5
    <2>2. QED
        BY <1>2, <1>5, <1>8, <1>9, <2>1, DeliveriesStay, RunsStay, FirstsStay
  <1>13. ClaimsSound'
    <2>1. ASSUME NEW u \in Ticks PROVE ClaimsFit(u)'
      <3>1. CASE tick'[u].pc = "idle"
          BY <3>1 DEF ClaimsFit, ListFits, CurrentFits, AtClaims
      <3>2. CASE u = t /\ new # Idle
        <4>1. new.pc = "next" /\ new.at = at /\ new.parts = row /\ new.claims # <<>>
              /\ \A i \in DOMAIN new.claims : new.claims[i] \in AllClaims(row, at, isUp)
            BY <1>7, <3>2
        <4>2. \A i \in DOMAIN new.claims : ClaimFits(t, new.claims[i])
            BY <1>1, <4>1, ClaimsAreNew
        <4>3. \A c : ClaimFits(t, c) => ClaimFits(t, c)'
            BY <1>2, <1>5, <1>8, <4>1 DEF ClaimFits
        <4>4. ListFits(t)'
            BY <1>8, <4>1, <4>2, <4>3 DEF ListFits
        <4>5. CurrentFits(t)'
            BY <1>8, <4>1 DEF CurrentFits
        <4>6. QED
            BY <3>2, <4>4, <4>5 DEF ClaimsFit
      <3>3. QED
          BY <1>8, <3>1, <3>2, IdleFits
    <2>2. QED
        BY <2>1 DEF ClaimsSound
  <1>14. IntervalsSound'
    <2>1. Spaced(task.id, task.next)'
      <3>1. CASE task' = task
          BY <1>2, <3>1 DEF IntervalsSound, Spaced, AtInterval
      <3>2. CASE row.every # {} /\ task.id = row.id /\ task'.next \in ArmedAt(row, at, isUp)
        <4>1. \A d \in AtInterval(row.id) : delivered[d].at + Shortest <= task'.next
            BY <1>1, <3>2, ArmedLater
        <4>2. QED
            BY <1>2, <1>5, <3>2, <4>1 DEF Spaced, AtInterval
      <3>3. QED
          BY <1>5, <3>1, <3>2
    <2>2. SpacedIntervals'
        BY <1>2 DEF IntervalsSound, SpacedIntervals
    <2>3. ASSUME NEW u \in Ticks PROVE IntervalApart(u)'
      <3>1. CASE tick'[u].pc = "idle"
          BY <3>1 DEF IntervalApart, BeforeClaims, AtClaims, Draining
      <3>2. CASE u = t /\ new # Idle
        <4>1. new.pc = "next" /\ new.at = at /\ new.parts = row /\ ~ArmRefused(row)
              /\ \A i \in DOMAIN new.claims : new.claims[i] \in AllClaims(row, at, isUp)
            BY <1>7, <3>2
        <4>2. SUFFICES ASSUME NEW i \in DOMAIN new.claims, new.claims[i].trigger = "interval"
                       PROVE  /\ new.claims[i].key = IntervalKey(row.id, row.next)
                              /\ task'.id = row.id /\ task'.next # NoValue => at + Shortest <= task'.next
                              /\ \A d \in AtInterval(row.id) : delivered[d].at + Shortest <= at
            BY <1>2, <1>8, <3>2, <4>1 DEF IntervalApart, BeforeClaims, Draining, AtInterval
        <4>3. new.claims[i].key = IntervalKey(row.id, row.next) /\ IntervalFires(row, at, isUp)
            BY <1>1, <4>1, <4>2, ClaimsAreNew
        <4>4. task'.id = row.id => at + Shortest <= task'.next
          <5>1. row.every # {}
              BY <4>3 DEF IntervalFires
          <5>2. task'.id = row.id => task'.next \in ArmedAt(row, at, isUp)
              BY <1>5, <4>1, <5>1
          <5>3. QED
              BY <1>1, <4>3, <5>1, <5>2, ArmedLater
        <4>5. \A d \in AtInterval(row.id) : delivered[d].at + Shortest <= at
          <5>1. row.next # NoValue /\ row.next <= at /\ row.every # {}
              BY <1>3, <4>3 DEF IntervalFires
          <5>2. Shortest \in Nat
              BY <1>1, <5>1, Considering, ShortestIs
          <5>3. ASSUME NEW d \in AtInterval(row.id) PROVE delivered[d].at + Shortest <= at
            <6>1. delivered[d] \in DeliverySet
                BY DEF DeliveriesSound, AtInterval
            <6>2. delivered[d].at \in Nat
                BY <6>1, Instants DEF DeliverySet
            <6>3. delivered[d].at + Shortest <= row.next
                BY <1>3, <5>1 DEF Spaced
            <6> HIDE DEF row, at
            <6>4. QED
                BY <1>3, <5>1, <5>2, <6>2, <6>3
          <5>4. QED
              BY <5>3
        <4>6. QED
            BY <4>3, <4>4, <4>5
      <3>3. QED
          BY <1>8, <3>1, <3>2, IdleFits
    <2>4. QED
        BY <2>1, <2>2, <2>3 DEF IntervalsSound
  <1>15. QED
      BY <1>6, <1>8, <1>11, <1>12, <1>13, <1>14

\* A tick with claims goes on: with the same claims, or what is left of them.
ClaimsOf(t, new) ==
    /\ new.claims # <<>> /\ new.at = tick[t].at /\ new.parts = tick[t].parts
    /\ \A i \in DOMAIN new.claims : \E j \in DOMAIN tick[t].claims : new.claims[i] = tick[t].claims[j]
ClaimsGoOn(t, new) ==
    /\ tick[t].pc \in AtClaims /\ new \in TickSet /\ TickTo(t, new)
    /\ new = Idle \/ (new.pc \in AtClaims /\ ClaimsOf(t, new))
    /\ new.pc = "next" => new.sent = 0
    /\ UNCHANGED <<clock, bot, journal, task, taskEdits, signals, cursor, seeded, crashes>>

\* What is known of the claim at work.
LEMMA AtWork ==
    ASSUME TasksInv, NEW t \in Ticks, tick[t].pc \in AtClaims
    PROVE  /\ Busy(t) /\ tick[t] \in TickSet /\ tick[t].at \in Time /\ tick[t].at \in Nat /\ tick[t].at <= clock
           /\ tick[t].parts.id \in 1..taskEdits /\ tick[t].parts.id \in Nat \ {0} /\ tick[t].sent \in 0..Steps
           /\ tick[t].claims \in Seq(ClaimSet) /\ tick[t].claims # <<>> /\ 1 \in DOMAIN tick[t].claims
           /\ Head(tick[t].claims) = tick[t].claims[1] /\ Head(tick[t].claims) \in ClaimSet
           /\ Key(t) = Head(tick[t].claims).key /\ Key(t) \in KeySet /\ Head(tick[t].claims).trigger \in Triggers
           /\ Key(t)[2] = tick[t].parts.id
           /\ ClaimFits(t, Head(tick[t].claims)) /\ CurrentFits(t)
           /\ \A i \in DOMAIN tick[t].claims : ClaimFits(t, tick[t].claims[i])
  <1>1. Busy(t) /\ tick[t] \in TickSet
      BY TaskFacts DEF Busy, AtClaims
  <1>2. tick[t].at \in Time /\ tick[t].at <= clock /\ tick[t].parts.id \in 1..taskEdits
      BY <1>1 DEF TasksInv, TickTypes
  <1>3. tick[t].at \in Nat /\ tick[t].parts.id \in Nat \ {0} /\ tick[t].sent \in 0..Steps
      BY <1>1, <1>2, Instants, TaskFacts DEF TickSet
  <1>4. ClaimsFit(t) /\ CurrentFits(t) /\ ListFits(t)
      BY DEF TasksInv, ClaimsSound, ClaimsFit
  <1>5. tick[t].claims # <<>> /\ \A i \in DOMAIN tick[t].claims : ClaimFits(t, tick[t].claims[i])
      BY <1>4 DEF ListFits
  <1>6. tick[t].claims \in Seq(ClaimSet)
    <2> DEFINE Claims == Seq(ClaimSet)
    <2>1. tick[t] \in [pc : {"idle"} \cup BeforeClaims \cup AtClaims, at : Nat, parts : TaskSet, running : BOOLEAN, round : Nat,
                         from : Nat, next : Nat, read : Nat, claims : Claims, sent : 0..Steps]
        BY <1>1 DEF TickSet
    <2> HIDE DEF Claims
    <2>2. tick[t].claims \in Claims
        BY <2>1
    <2>3. QED
        BY <2>2 DEF Claims
  <1> DEFINE claims == tick[t].claims
  <1>7. 1 \in DOMAIN claims /\ Head(claims) = claims[1] /\ Head(claims) \in ClaimSet
    <2> DEFINE S == ClaimSet
    <2>1. claims \in Seq(S) /\ claims # <<>>
        BY <1>5, <1>6
    <2> HIDE DEF S, claims
    <2>2. Head(claims) \in S /\ Len(claims) \in Nat /\ Len(claims) # 0 /\ DOMAIN claims = 1..Len(claims) /\ Head(claims) = claims[1]
        BY <2>1, EmptySeq
    <2>3. QED
        BY <2>2 DEF S
  <1>8. Head(claims).key \in KeySet /\ Head(claims).trigger \in Triggers /\ Key(t) = Head(claims).key
    <2> HIDE DEF claims
    <2>1. Head(claims).key \in KeySet /\ Head(claims).trigger \in Triggers
        BY <1>7 DEF ClaimSet
    <2>2. QED
        BY <2>1 DEF Key, claims
  <1>9. ClaimFits(t, Head(claims))
      BY <1>5, <1>7
  <1>10. Key(t)[2] = tick[t].parts.id
    <2>1. Fits(Key(t), Head(claims).trigger, tick[t].parts.id, tick[t].at)
        BY <1>8, <1>9 DEF ClaimFits
    <2>2. QED
        BY <2>1 DEF Fits, LoginKeys, TimeKeys, IntervalKeys
  <1>11. QED
      BY <1>1, <1>2, <1>3, <1>4, <1>5, <1>6, <1>7, <1>8, <1>9, <1>10

\* A list of more than one has a rest.
LEMMA RestIsLeft == ASSUME NEW S, NEW s \in Seq(S), Len(s) > 1 PROVE Tail(s) # <<>>
  <1> DEFINE rest == Tail(s)
  <1>1. rest \in Seq(S) /\ Len(rest) = Len(s) - 1 /\ Len(s) \in Nat
      BY HeadTailProperties, EmptySeq
  <1> HIDE DEF rest
  <1>2. rest # <<>>
      BY <1>1, EmptySeq
  <1>3. QED
      BY <1>2 DEF rest

\* The next claim, or none.
LEMMA OnwardsFits ==
    ASSUME TasksInv, NEW t \in Ticks, tick[t].pc \in AtClaims
    PROVE  /\ Onwards(t) \in TickSet
           /\ Onwards(t) = Idle \/ (Onwards(t).pc = "next" /\ Onwards(t).sent = 0 /\ ClaimsOf(t, Onwards(t)))
  <1> DEFINE claims == tick[t].claims
  <1> DEFINE new == [tick[t] EXCEPT !.pc = "next", !.claims = Tail(claims), !.sent = 0]
  <1>1. claims \in Seq(ClaimSet) /\ claims # <<>> /\ tick[t] \in TickSet
      BY AtWork
  <1>2. CASE Len(claims) > 1
    <2>1. /\ Tail(claims) \in Seq(ClaimSet) /\ Len(Tail(claims)) = Len(claims) - 1 /\ Len(claims) \in Nat
          /\ DOMAIN claims = 1..Len(claims) /\ DOMAIN Tail(claims) = 1..Len(Tail(claims))
          /\ \A i \in 1..Len(Tail(claims)) : Tail(claims)[i] = claims[i + 1]
      <3> DEFINE S == ClaimSet
      <3>1. claims \in Seq(S)
          BY <1>1
      <3> HIDE DEF S, claims
      <3>2. /\ Tail(claims) \in Seq(S) /\ Len(Tail(claims)) = Len(claims) - 1 /\ Len(claims) \in Nat
            /\ DOMAIN claims = 1..Len(claims) /\ DOMAIN Tail(claims) = 1..Len(Tail(claims))
            /\ \A i \in 1..Len(Tail(claims)) : Tail(claims)[i] = claims[i + 1]
          BY <1>1, <3>1, HeadTailProperties
      <3>3. QED
          BY <3>2 DEF S
    <2>2. Tail(claims) # <<>>
        BY <1>1, <1>2, RestIsLeft
    <2>3. \A i \in DOMAIN Tail(claims) : \E j \in DOMAIN claims : Tail(claims)[i] = claims[j]
        BY <1>2, <2>1
    <2>4. Onwards(t) = new
        BY <1>2 DEF Onwards
    <2> DEFINE rest == Tail(claims)
    <2>5. new.pc = "next" /\ new.claims = rest /\ new.sent = 0 /\ new.at = tick[t].at /\ new.parts = tick[t].parts
        BY <1>1 DEF TickSet
    <2>6. new \in TickSet
      <3> DEFINE Claims == Seq(ClaimSet)
      <3>1. rest \in Claims /\ "next" \in {"idle"} \cup BeforeClaims \cup AtClaims /\ 0 \in 0..Steps
          BY <2>1, TaskNumbers DEF AtClaims
      <3>2. tick[t] \in [pc : {"idle"} \cup BeforeClaims \cup AtClaims, at : Nat, parts : TaskSet, running : BOOLEAN, round : Nat,
                         from : Nat, next : Nat, read : Nat, claims : Claims, sent : 0..Steps]
          BY <1>1 DEF TickSet
      <3> HIDE DEF Claims, rest
      <3>3. [tick[t] EXCEPT !.pc = "next", !.claims = rest, !.sent = 0]
              \in [pc : {"idle"} \cup BeforeClaims \cup AtClaims, at : Nat, parts : TaskSet, running : BOOLEAN, round : Nat,
                   from : Nat, next : Nat, read : Nat, claims : Claims, sent : 0..Steps]
          BY <3>1, <3>2
      <3>4. QED
          BY <3>3 DEF TickSet, Claims, rest
    <2>7. QED
        BY <2>2, <2>3, <2>4, <2>5, <2>6 DEF ClaimsOf
  <1>3. CASE ~(Len(claims) > 1)
      BY <1>3, IdleFits DEF Onwards
  <1>4. QED
      BY <1>2, <1>3

\* What such a step leaves as it was.
LEMMA ClaimsGoOnKeeps ==
    ASSUME TasksInv, NEW t \in Ticks, NEW new, ClaimsGoOn(t, new)
    PROVE  /\ WorldTypes' /\ TickTypes' /\ Advances /\ SignalsSound' /\ JoinsSound'
           /\ tick'[t] = new /\ (\A u \in Ticks : u # t => tick'[u] = Idle)
           /\ clock \in Nat /\ taskEdits \in Nat
  <1> USE DEF TasksInv, ClaimsGoOn
  <1>1. Busy(t)
      BY DEF Busy, AtClaims
  <1>2. new = Idle \/ (new.pc # "idle" /\ new.at = tick[t].at /\ new.parts = tick[t].parts)
      BY DEF ClaimsOf, AtClaims
  <1>3. new.pc \notin {"send", "failed"} => new.sent = 0
      BY IdleFits DEF AtClaims
  <1>4. /\ TickTypes' /\ Advances
        /\ tick' \in [Ticks -> TickSet] /\ tick'[t] = new
        /\ \A u \in Ticks : u # t => tick[u] = Idle /\ tick'[u] = Idle /\ ~Busy(u) /\ ~Busy(u)'
      BY <1>1, <1>2, <1>3, TickGoesOn
  <1>5. \A u \in Ticks : tick'[u].pc \notin Draining
      BY <1>4, IdleFits DEF Draining, AtClaims
  <1>6. clock \in Nat /\ taskEdits \in Nat
      BY TaskFacts
  <1>7. SignalsSound' /\ JoinsSound'
      BY <1>4, <1>5, <1>6, SignalsStay, JoinsStay
  <1>8. WorldTypes'
      BY DEF WorldTypes, Exists
  <1>9. QED
      BY <1>4, <1>6, <1>7, <1>8

\* And, when nothing is delivered and no run is lost, all but what is said of
\* the runs and the claim at work.
LEMMA NothingDelivered ==
    ASSUME TasksInv, NEW t \in Ticks, NEW new, ClaimsGoOn(t, new), delivered' = delivered, DOMAIN runs \subseteq DOMAIN runs'
    PROVE  DeliveriesSound' /\ FirstsSound' /\ IntervalsSound' /\ (\A u \in Ticks : ListFits(u)')
  <1> USE DEF TasksInv, ClaimsGoOn
  <1>1. /\ Advances /\ clock \in Nat /\ taskEdits \in Nat
        /\ tick'[t] = new /\ \A u \in Ticks : u # t => tick'[u] = Idle
      BY ClaimsGoOnKeeps
  <1>2. DeliveriesSound' /\ FirstsSound'
      BY <1>1, DeliveriesStay, FirstsStay
  <1>3. \A u \in Ticks : tick'[u] # Idle => u = t /\ new.pc \in AtClaims /\ ClaimsOf(t, new)
      BY <1>1
  <1>4. \A u \in Ticks : ListFits(u)'
    <2>1. ASSUME NEW u \in Ticks, tick'[u] = Idle PROVE ListFits(u)'
        BY <2>1, IdleFits DEF ListFits, AtClaims
    <2>2. ASSUME new.pc \in AtClaims, ClaimsOf(t, new) PROVE ListFits(t)'
      <3>1. \A c : ClaimFits(t, c) => ClaimFits(t, c)'
          BY <1>1, <2>2 DEF ClaimFits, ClaimsOf
      <3>2. \A i \in DOMAIN tick[t].claims : ClaimFits(t, tick[t].claims[i])
          BY AtWork
      <3>3. \A i \in DOMAIN new.claims : ClaimFits(t, new.claims[i])'
        <4>1. ASSUME NEW i \in DOMAIN new.claims PROVE ClaimFits(t, new.claims[i])
            BY <2>2, <3>2 DEF ClaimsOf
        <4>2. ASSUME NEW i \in DOMAIN tick'[t].claims PROVE ClaimFits(t, tick[t].claims[i])'
            BY <1>1, <3>1, <4>1, <4>2
        <4>3. QED
            BY <1>1, <4>2
      <3>4. QED
          BY <1>1, <2>2, <3>3 DEF ListFits, ClaimsOf
    <2>3. QED
        BY <1>3, <2>1, <2>2
  <1>5. IntervalsSound'
    <2>1. Spaced(task.id, task.next)' /\ SpacedIntervals'
        BY DEF IntervalsSound, Spaced, AtInterval, SpacedIntervals
    <2>2. ASSUME NEW u \in Ticks, tick'[u] = Idle PROVE IntervalApart(u)'
        BY <2>2, IdleFits DEF IntervalApart, BeforeClaims, Draining, AtClaims
    <2>3. ASSUME new.pc \in AtClaims, ClaimsOf(t, new) PROVE IntervalApart(t)'
      <3>1. IntervalApart(t)
          BY DEF IntervalsSound
      <3>2. new.pc \notin BeforeClaims
          BY <2>3 DEF BeforeClaims, Draining, AtClaims
      <3>3. QED
          BY <1>1, <2>3, <3>1, <3>2 DEF IntervalApart, AtInterval, ClaimsOf
    <2>4. QED
        BY <1>3, <2>1, <2>2, <2>3 DEF IntervalsSound
  <1>6. QED
      BY <1>2, <1>4, <1>5

\* Once the runs, the lists and the claim at work are right, so is all of it.
LEMMA ClaimsDone ==
    ASSUME TasksInv, NEW t \in Ticks, NEW new, ClaimsGoOn(t, new), delivered' = delivered, DOMAIN runs \subseteq DOMAIN runs',
           RunsSound', new = Idle \/ new.pc = "next" \/ CurrentFits(t)'
    PROVE  TasksInv'
  <1>1. /\ WorldTypes' /\ TickTypes' /\ Advances /\ SignalsSound' /\ JoinsSound'
        /\ tick'[t] = new /\ (\A u \in Ticks : u # t => tick'[u] = Idle)
      BY ClaimsGoOnKeeps
  <1>2. DeliveriesSound' /\ FirstsSound' /\ IntervalsSound' /\ (\A u \in Ticks : ListFits(u)')
      BY NothingDelivered
  <1>3. \A u \in Ticks : tick'[u].pc \in {"idle", "next"} => CurrentFits(u)'
      BY DEF CurrentFits
  <1>4. \A u \in Ticks : CurrentFits(u)'
      BY <1>1, <1>3, IdleFits
  <1>5. ClaimsSound'
      BY <1>2, <1>4 DEF ClaimsSound, ClaimsFit
  <1>6. QED
      BY <1>1, <1>2, <1>5 DEF TasksInv

\* claimRun: a key that was free was never delivered.
LEMMA ClaimRunKeepsTasks == ASSUME TasksInv, NEW t \in Ticks, ClaimRun(t) PROVE TasksInv'
  <1>1. tick[t].pc = "next" /\ tick[t].pc \in AtClaims /\ tick[t].sent = 0
      BY DEF ClaimRun, AtClaims, TasksInv, TickTypes
  <1>2. UNCHANGED <<clock, bot, journal, task, taskEdits, signals, cursor, seeded, delivered, crashes>>
      BY DEF ClaimRun
  <1>3. /\ tick[t] \in TickSet /\ tick[t].at \in Time /\ tick[t].parts.id \in Nat \ {0} /\ tick[t].claims # <<>>
        /\ Key(t) \in KeySet /\ Key(t)[2] = tick[t].parts.id /\ Key(t) = Head(tick[t].claims).key
        /\ ClaimFits(t, Head(tick[t].claims))
      BY <1>1, AtWork
  <1>4. CASE task.id = tick[t].parts.id /\ Claimable(t)
    <2> DEFINE new == [tick[t] EXCEPT !.pc = "send"]
    <2> DEFINE run == [outcome |-> "running", steps |-> 0, started |-> tick[t].at]
    <2>1. /\ Key(t) \notin DOMAIN runs /\ TickTo(t, new)
          /\ runs' = [k \in DOMAIN runs \cup {Key(t)} |-> IF k = Key(t) THEN run ELSE runs[k]]
        BY <1>4 DEF ClaimRun, Claimable
    <2>2. new \in TickSet /\ new.pc = "send" /\ new.at = tick[t].at /\ new.parts = tick[t].parts /\ new.claims = tick[t].claims /\ new.sent = 0
        BY <1>1, <1>3 DEF TickSet, AtClaims
    <2> HIDE DEF new
    <2>3. ClaimsGoOn(t, new)
        BY <1>1, <1>2, <1>3, <2>1, <2>2 DEF ClaimsGoOn, ClaimsOf, AtClaims
    <2>4. /\ DOMAIN runs' = DOMAIN runs \cup {Key(t)} /\ runs'[Key(t)] = run
          /\ \A k \in DOMAIN runs : runs'[k] = runs[k]
        BY <2>1
    <2>5. run \in RunSet /\ run.steps = 0 /\ run.started = tick[t].at /\ run.outcome = "running"
        BY <1>3, TaskNumbers DEF RunSet
    <2> HIDE DEF run
    <2>6. Key(t) \notin DOMAIN delivered
        BY <1>3, <1>4, <2>1 DEF ClaimFits
    <2>7. tick'[t] = new
        BY <2>3, ClaimsGoOnKeeps
    <2>8. Key(t)' = Key(t)
        BY <2>2, <2>7 DEF Key
    <2>9. RunsSound'
      <3>1. Exists'
          BY <1>2, <1>3, <1>4 DEF Exists, NoValue
      <3>2. ASSUME NEW k \in DOMAIN runs'
            PROVE  /\ runs'[k] \in RunSet /\ k \in KeySet /\ k[2] = task'.id
                   /\ k \in DOMAIN delivered' => runs'[k].started = delivered'[k].at
                   /\ runs'[k].outcome = "sent" => Received(k)' = Steps
                   /\ runs'[k].steps <= Received(k)'
        <4>1. CASE k = Key(t)
            BY <1>2, <1>3, <1>4, <2>4, <2>5, <2>6, <4>1 DEF Received
        <4>2. CASE k \in DOMAIN runs
            BY <1>2, <2>4, <4>2 DEF TasksInv, RunsSound, Received
        <4>3. QED
            BY <2>4, <4>1, <4>2
      <3>3. QED
          BY <3>1, <3>2 DEF RunsSound
    <2>10. CurrentFits(t)'
        BY <1>2, <2>2, <2>4, <2>5, <2>6, <2>7, <2>8 DEF CurrentFits, Received
    <2>11. QED
        BY <1>2, <2>3, <2>4, <2>9, <2>10, ClaimsDone
  <1>5. CASE ~(task.id = tick[t].parts.id /\ Claimable(t))
    <2>1. TickTo(t, Onwards(t)) /\ runs' = runs
        BY <1>5 DEF ClaimRun
    <2>2. PICK new : new = Onwards(t)
        OBVIOUS
    <2>3. ClaimsGoOn(t, new) /\ (new = Idle \/ new.pc = "next")
        BY <1>1, <1>2, <2>1, <2>2, OnwardsFits, IdleFits DEF ClaimsGoOn, AtClaims
    <2>4. RunsSound'
        BY <1>2, <2>1, RunsStay DEF TasksInv
    <2>5. QED
        BY <1>2, <2>1, <2>3, <2>4, ClaimsDone
  <1>6. QED
      BY <1>4, <1>5

-----------------------------------------------------------------------------
\* The record of how a run went.
LEMMA FinishedFits ==
    ASSUME TasksInv, NEW t \in Ticks, tick[t].pc \in {"send", "failed"}, NEW outcome \in {"sent", "failed"}, NEW steps \in 0..Steps,
           outcome = "sent" => Received(Key(t)) = Steps, steps <= Received(Key(t)),
           runs' \in {Finished(t, outcome, steps), runs}, UNCHANGED <<task, delivered>>
    PROVE  /\ RunsSound' /\ DOMAIN runs' = DOMAIN runs
           /\ \A k \in DOMAIN runs : runs'[k].started = runs[k].started
  <1>1. CASE runs' = runs
      BY <1>1, RunsStay DEF TasksInv
  <1>2. CASE runs' # runs
    <2> DEFINE key == Key(t)
    <2>1. key \in DOMAIN runs /\ runs' = [runs EXCEPT ![key].outcome = outcome, ![key].steps = steps]
        BY <1>2 DEF Finished
    <2> HIDE DEF key
    <2>2. /\ DOMAIN runs' = DOMAIN runs /\ \A k \in DOMAIN runs : k # key => runs'[k] = runs[k]
          /\ runs'[key] = [runs[key] EXCEPT !.outcome = outcome, !.steps = steps]
        BY <2>1
    <2>3. runs[key] \in RunSet
        BY <2>1 DEF TasksInv, RunsSound
    <2>4. runs'[key] \in RunSet /\ runs'[key].outcome = outcome /\ runs'[key].steps = steps /\ runs'[key].started = runs[key].started
        BY <2>2, <2>3 DEF RunSet
    <2>5. Exists'
        BY <2>1 DEF TasksInv, RunsSound, Exists
    <2>6. ASSUME NEW k \in DOMAIN runs'
          PROVE  /\ runs'[k] \in RunSet /\ k \in KeySet /\ k[2] = task'.id
                 /\ k \in DOMAIN delivered' => runs'[k].started = delivered'[k].at
                 /\ runs'[k].outcome = "sent" => Received(k)' = Steps
                 /\ runs'[k].steps <= Received(k)'
      <3>1. /\ runs[k] \in RunSet /\ k \in KeySet /\ k[2] = task.id
            /\ k \in DOMAIN delivered => runs[k].started = delivered[k].at
            /\ runs[k].outcome = "sent" => Received(k) = Steps
            /\ runs[k].steps <= Received(k)
          BY <2>2 DEF TasksInv, RunsSound
      <3>2. Received(k)' = Received(k)
          BY DEF Received
      <3>3. CASE k = key
          BY <2>4, <3>1, <3>2, <3>3 DEF key
      <3>4. CASE k # key
          BY <2>2, <3>1, <3>2, <3>4
      <3>5. QED
          BY <3>3, <3>4
    <2>7. RunsSound'
        BY <2>5, <2>6 DEF RunsSound
    <2>8. QED
        BY <2>2, <2>4, <2>7
  <1>3. QED
      BY <1>1, <1>2

\* finishRun of a run that sent every command, and on to the next claim.
LEMMA FinishSentKeepsTasks == ASSUME TasksInv, NEW t \in Ticks, FinishSent(t) PROVE TasksInv'
  <1>1. tick[t].pc = "send" /\ tick[t].pc \in AtClaims /\ tick[t].sent = Steps /\ runs' = Finished(t, "sent", Steps) /\ TickTo(t, Onwards(t))
      BY DEF FinishSent, AtClaims
  <1>2. UNCHANGED <<clock, bot, journal, task, taskEdits, signals, cursor, seeded, delivered, crashes>>
      BY DEF FinishSent
  <1>3. Received(Key(t)) = Steps /\ Steps \in 0..Steps /\ Steps <= Steps
      BY <1>1, AtWork, TaskNumbers DEF CurrentFits
  <1>4. RunsSound' /\ DOMAIN runs' = DOMAIN runs
      BY <1>1, <1>2, <1>3, FinishedFits
  <1>5. PICK new : new = Onwards(t)
      OBVIOUS
  <1>6. ClaimsGoOn(t, new) /\ (new = Idle \/ new.pc = "next")
      BY <1>1, <1>2, <1>5, OnwardsFits, IdleFits DEF ClaimsGoOn, AtClaims
  <1>7. QED
      BY <1>2, <1>4, <1>6, ClaimsDone

\* finishRun of a run that failed, if the database answers, and on to the next claim.
LEMMA FinishFailedKeepsTasks == ASSUME TasksInv, NEW t \in Ticks, FinishFailed(t) PROVE TasksInv'
  <1>1. /\ tick[t].pc = "failed" /\ tick[t].pc \in AtClaims /\ runs' \in {Finished(t, "failed", tick[t].sent), runs}
        /\ TickTo(t, Onwards(t))
      BY DEF FinishFailed, AtClaims
  <1>2. UNCHANGED <<clock, bot, journal, task, taskEdits, signals, cursor, seeded, delivered, crashes>>
      BY DEF FinishFailed
  <1>3. tick[t].sent \in 0..Steps /\ tick[t].sent <= Received(Key(t))
      BY <1>1, AtWork DEF CurrentFits
  <1>4. RunsSound' /\ DOMAIN runs' = DOMAIN runs
      BY <1>1, <1>2, <1>3, FinishedFits
  <1>5. PICK new : new = Onwards(t)
      OBVIOUS
  <1>6. ClaimsGoOn(t, new) /\ (new = Idle \/ new.pc = "next")
      BY <1>1, <1>2, <1>5, OnwardsFits, IdleFits DEF ClaimsGoOn, AtClaims
  <1>7. QED
      BY <1>2, <1>4, <1>6, ClaimsDone

\* What follows the last command failed: the run is to be put down as one that sent nothing.
LEMMA FinishBreaksKeepsTasks == ASSUME TasksInv, NEW t \in Ticks, FinishBreaks(t) PROVE TasksInv'
  <1> DEFINE new == [tick[t] EXCEPT !.pc = "failed", !.sent = 0]
  <1>1. /\ tick[t].pc = "send" /\ tick[t].pc \in AtClaims /\ tick[t].sent = Steps /\ runs' \in {Finished(t, "sent", Steps), runs}
        /\ TickTo(t, new)
      BY DEF FinishBreaks, AtClaims
  <1>2. UNCHANGED <<clock, bot, journal, task, taskEdits, signals, cursor, seeded, delivered, crashes>>
      BY DEF FinishBreaks
  <1>3. Received(Key(t)) = Steps /\ Steps \in 0..Steps /\ Steps <= Steps /\ CurrentFits(t) /\ tick[t] \in TickSet
      BY <1>1, AtWork, TaskNumbers DEF CurrentFits
  <1>4. RunsSound' /\ DOMAIN runs' = DOMAIN runs /\ \A k \in DOMAIN runs : runs'[k].started = runs[k].started
      BY <1>1, <1>2, <1>3, FinishedFits
  <1>5. /\ new \in TickSet /\ new.pc = "failed" /\ new.at = tick[t].at /\ new.parts = tick[t].parts /\ new.sent = 0
        /\ new.claims = tick[t].claims
    <2>1. new.pc = "failed" /\ new.at = tick[t].at /\ new.parts = tick[t].parts /\ new.sent = 0 /\ new.claims = tick[t].claims
        BY <1>3 DEF TickSet
    <2>2. "failed" \in {"idle"} \cup BeforeClaims \cup AtClaims /\ 0 \in 0..Steps
        BY TaskNumbers DEF AtClaims
    <2>3. new \in TickSet
        BY <1>3, <2>2 DEF TickSet
    <2>4. QED
        BY <2>1, <2>3
  <1> HIDE DEF new
  <1>6. ClaimsGoOn(t, new)
      BY <1>1, <1>2, <1>5, AtWork DEF ClaimsGoOn, ClaimsOf, AtClaims
  <1>7. tick'[t] = new
      BY <1>6, ClaimsGoOnKeeps
  <1>8. Key(t)' = Key(t)
      BY <1>5, <1>7 DEF Key
  <1>9. CurrentFits(t)'
    <2>1. Received(Key(t))' = Received(Key(t))
        BY <1>2, <1>8 DEF Received
    <2>2. Key(t) \in DOMAIN runs \/ task.id # tick[t].parts.id
        BY <1>1, <1>3 DEF CurrentFits
    <2>3. Key(t) \in DOMAIN runs => runs[Key(t)].started = tick[t].at
        BY <1>1, <1>3 DEF CurrentFits
    <2>4. QED
        BY <1>2, <1>3, <1>4, <1>5, <1>7, <1>8, <2>1, <2>2, <2>3, TaskNumbers DEF CurrentFits
  <1>10. QED
      BY <1>2, <1>4, <1>6, <1>9, ClaimsDone

\* What the bot has received of the claim at work.
LEMMA DeliveredNow ==
    ASSUME TasksInv, NEW t \in Ticks, tick[t].pc = "send", tick[t].sent < Steps, delivered' = Receives(t), runs' = runs, task' = task
    PROVE  /\ DOMAIN delivered' = DOMAIN delivered \cup {Key(t)}
           /\ \A k \in DOMAIN delivered : k # Key(t) => delivered'[k] = delivered[k]
           /\ delivered'[Key(t)] = [steps |-> tick[t].sent + 1, trigger |-> Head(tick[t].claims).trigger, at |-> tick[t].at]
           /\ delivered'[Key(t)] \in DeliverySet
           /\ \A k : k # Key(t) => Received(k)' = Received(k)
           /\ Received(Key(t)) = tick[t].sent /\ \A k : k = Key(t) => Received(k)' = tick[t].sent + 1
  <1>1. /\ tick[t].pc \in AtClaims
      BY DEF AtClaims
  <1>2. /\ Received(Key(t)) = tick[t].sent /\ tick[t].sent \in 0..Steps /\ tick[t].at \in Time
        /\ Head(tick[t].claims).trigger \in Triggers
      BY <1>1, AtWork DEF CurrentFits
  <1> DEFINE new == [steps |-> tick[t].sent + 1, trigger |-> Head(tick[t].claims).trigger, at |-> tick[t].at]
  <1>3. new \in DeliverySet /\ new.steps = tick[t].sent + 1
      BY <1>2, TaskNumbers DEF DeliverySet
  <1>4. delivered' = [k \in DOMAIN delivered \cup {Key(t)} |-> IF k # Key(t) THEN delivered[k]
                       ELSE [steps |-> Received(k) + 1, trigger |-> Head(tick[t].claims).trigger, at |-> tick[t].at]]
      BY DEF Receives
  <1>5. /\ DOMAIN delivered' = DOMAIN delivered \cup {Key(t)}
        /\ \A k \in DOMAIN delivered : k # Key(t) => delivered'[k] = delivered[k]
        /\ delivered'[Key(t)] = new
      BY <1>2, <1>4
  <1> HIDE DEF new
  <1>6. \A k : k # Key(t) => Received(k)' = Received(k)
      BY <1>5 DEF Received
  <1>7. \A k : k = Key(t) => Received(k)' = tick[t].sent + 1
      BY <1>3, <1>5 DEF Received
  <1>8. QED
      BY <1>2, <1>3, <1>5, <1>6, <1>7 DEF new

\* A key shows what it is of.
LEMMA IntervalOrNot ==
    ASSUME NEW key, NEW trigger, NEW id, NEW at, Fits(key, trigger, id, at)
    PROVE  /\ trigger = "interval" <=> key[1] = "interval"
           /\ trigger = "firstLogin" => key \in LoginKeys(id)
           /\ trigger = "interval" => AllEvery # {}
  BY DEF Fits, LoginKeys, TimeKeys, IntervalKeys

\* The bot receives a command: its key is a run's or of a task that is gone, a first join no other row
\* of its process vouches for, an interval far enough from the others.
LEMMA ReceivesKeeps ==
    ASSUME TasksInv, NEW t \in Ticks, tick[t].pc = "send", tick[t].sent < Steps, delivered' = Receives(t), runs' = runs,
           NEW new, ClaimsGoOn(t, new), new.pc \in {"send", "failed"}, new.claims = tick[t].claims,
           new.at = tick[t].at, new.parts = tick[t].parts,
           new.pc = "send" => new.sent = tick[t].sent + 1, new.pc = "failed" => new.sent = tick[t].sent
    PROVE  TasksInv'
  <1> DEFINE key == Key(t)
  <1> DEFINE at == tick[t].at
  <1> DEFINE id == tick[t].parts.id
  <1> DEFINE trigger == Head(tick[t].claims).trigger
  <1>1. /\ WorldTypes' /\ TickTypes' /\ Advances /\ SignalsSound' /\ JoinsSound'
        /\ tick'[t] = new /\ (\A u \in Ticks : u # t => tick'[u] = Idle)
        /\ clock \in Nat /\ taskEdits \in Nat
      BY ClaimsGoOnKeeps
  <1>2. UNCHANGED <<clock, bot, journal, task, taskEdits, signals, cursor, seeded, crashes>>
      BY DEF ClaimsGoOn
  <1>3. /\ Busy(t) /\ at \in Time /\ at \in Nat /\ at <= clock /\ id \in 1..taskEdits /\ id \in Nat \ {0}
        /\ key \in KeySet /\ key[2] = id /\ key = Head(tick[t].claims).key
        /\ ClaimFits(t, Head(tick[t].claims)) /\ CurrentFits(t) /\ tick[t].claims # <<>> /\ 1 \in DOMAIN tick[t].claims
        /\ Head(tick[t].claims) = tick[t].claims[1] /\ tick[t].sent \in 0..Steps
        /\ \A i \in DOMAIN tick[t].claims : ClaimFits(t, tick[t].claims[i])
      BY AtWork DEF AtClaims
  <1>4. /\ Fits(key, trigger, id, at)
        /\ trigger = "firstLogin" => FirstRow(key[3], key[4]) \in signals /\ at <= key[4] + SignalCatchUp
      BY <1>3 DEF ClaimFits
  <1>5. /\ key \in DOMAIN runs \/ task.id # id
        /\ key \in DOMAIN runs => runs[key].started = at /\ runs[key].outcome = "running" /\ runs[key].steps = 0
      BY <1>3 DEF CurrentFits
  <1>6. /\ DOMAIN delivered' = DOMAIN delivered \cup {key}
        /\ \A k \in DOMAIN delivered : k # key => delivered'[k] = delivered[k]
        /\ delivered'[key] = [steps |-> tick[t].sent + 1, trigger |-> trigger, at |-> at]
        /\ delivered'[key] \in DeliverySet
        /\ \A k : k # key => Received(k)' = Received(k)
        /\ Received(key) = tick[t].sent /\ \A k : k = key => Received(k)' = tick[t].sent + 1
      BY <1>2, DeliveredNow
  <1>7. delivered'[key].at = at /\ delivered'[key].trigger = trigger
      BY <1>6
  <1>8. \A k \in DOMAIN delivered : delivered[k] \in DeliverySet /\ delivered[k].at \in Nat /\ delivered[k].at <= clock
    <2>1. \A k \in DOMAIN delivered : delivered[k] \in DeliverySet /\ delivered[k].at <= clock
        BY DEF TasksInv, DeliveriesSound
    <2>2. QED
        BY <2>1, Instants DEF DeliverySet
  <1>9. Key(t)' = key
      BY <1>1 DEF Key
  <1>10. PICK kk : kk = key
      OBVIOUS
  <1> HIDE DEF key, at, id, trigger
  <1>11. DeliveriesSound'
    <2>1. ASSUME NEW k \in DOMAIN delivered'
          PROVE  /\ delivered'[k] \in DeliverySet /\ delivered'[k].at <= clock'
                 /\ k[2] \in 1..taskEdits' /\ Fits(k, delivered'[k].trigger, k[2], delivered'[k].at) /\ Sealed(k)'
      <3>1. CASE k = key
        <4>1. Sealed(k)'
            BY <1>2, <1>3, <1>5, <3>1 DEF Sealed
        <4>2. QED
            BY <1>2, <1>3, <1>4, <1>6, <1>7, <3>1, <4>1
      <3>2. CASE k # key
        <4>1. /\ k \in DOMAIN delivered /\ delivered'[k] = delivered[k] /\ delivered[k] \in DeliverySet /\ delivered[k].at <= clock
              /\ k[2] \in 1..taskEdits /\ Fits(k, delivered[k].trigger, k[2], delivered[k].at) /\ Sealed(k)
            BY <1>6, <3>2 DEF TasksInv, DeliveriesSound
        <4>2. PICK n \in Nat : n = delivered[k].at + RunRetention
            BY <1>8, <4>1, TaskNumbers
        <4>3. Past(n) => Past(n)'
            BY <1>1, PastStays
        <4>4. delivered'[k].at + RunRetention = n
            BY <4>1, <4>2
        <4>5. Sealed(k)'
            BY <1>2, <4>1, <4>2, <4>3, <4>4 DEF Sealed
        <4>6. QED
            BY <1>2, <4>1, <4>5
      <3>3. QED
          BY <3>1, <3>2
    <2>2. QED
        BY <2>1 DEF DeliveriesSound
  <1>12. RunsSound'
    <2>1. ASSUME NEW k \in DOMAIN runs'
          PROVE  /\ runs'[k] \in RunSet /\ k \in KeySet /\ k[2] = task'.id /\ Exists'
                 /\ k \in DOMAIN delivered' => runs'[k].started = delivered'[k].at
                 /\ runs'[k].outcome = "sent" => Received(k)' = Steps
                 /\ runs'[k].steps <= Received(k)'
      <3>1. /\ k \in DOMAIN runs /\ runs[k] \in RunSet /\ k \in KeySet /\ k[2] = task.id /\ Exists
            /\ k \in DOMAIN delivered => runs[k].started = delivered[k].at
            /\ runs[k].outcome = "sent" => Received(k) = Steps
            /\ runs[k].steps <= Received(k)
          BY DEF TasksInv, RunsSound
      <3>2. Exists'
          BY <1>2, <3>1 DEF Exists
      <3>3. CASE k = key
        <4>1. runs[k].outcome = "running" /\ runs[k].steps = 0 /\ runs[k].started = at
            BY <1>5, <3>1, <3>3
        <4>2. Received(k)' = tick[t].sent + 1 /\ 0 <= tick[t].sent + 1 /\ delivered'[k].at = at
            BY <1>3, <1>6, <1>7, <3>3
        <4>3. QED
            BY <1>2, <3>1, <3>2, <4>1, <4>2
      <3>4. CASE k # key
        <4>1. Received(k)' = Received(k)
            BY <1>6, <3>4
        <4>2. k \in DOMAIN delivered' => runs'[k].started = delivered'[k].at
            BY <1>6, <3>1, <3>4
        <4>3. QED
            BY <1>2, <3>1, <3>2, <4>1, <4>2
      <3>5. QED
          BY <3>3, <3>4
    <2>2. QED
        BY <2>1 DEF RunsSound
  <1>13. ClaimsSound'
    <2>1. ListFits(t)'
      <3>1. ASSUME NEW i \in DOMAIN new.claims PROVE ClaimFits(t, new.claims[i])'
        <4>1. PICK c : c = new.claims[i]
            OBVIOUS
        <4>2. ClaimFits(t, c)
            BY <1>3, <4>1
        <4>3. c.key \in DOMAIN delivered' => c.key \in DOMAIN runs \/ task.id # id
            BY <1>5, <1>6, <4>2 DEF ClaimFits, id
        <4>4. ClaimFits(t, c)'
            BY <1>1, <1>2, <4>2, <4>3 DEF ClaimFits, id
        <4>5. QED
            BY <4>1, <4>4
      <3>2. \A i \in DOMAIN tick'[t].claims : ClaimFits(t, tick[t].claims[i])'
          BY <1>1, <3>1
      <3>3. QED
          BY <1>1, <1>3, <3>2 DEF ListFits
    <2>2. Received(Key(t))' = tick[t].sent + 1
        BY <1>6, <1>9, <1>10
    <2>3. CurrentFits(t)'
      <3>1. tick[t].sent <= tick[t].sent + 1
          BY <1>3
      <3>2. QED
          BY <1>1, <1>2, <1>5, <1>9, <2>2, <3>1 DEF CurrentFits, at, id
    <2>4. ASSUME NEW u \in Ticks, u # t PROVE ClaimsFit(u)'
        BY <1>1, <2>4, IdleFits DEF ClaimsFit, ListFits, CurrentFits, AtClaims
    <2>5. QED
        BY <2>1, <2>3, <2>4 DEF ClaimsSound, ClaimsFit
  <1>14. FirstsSound'
    <2>1. ASSUME NEW k \in DOMAIN delivered', delivered'[k].trigger = "firstLogin"
          PROVE  FirstRow(k[3], k[4]) \in signals' \/ Past(k[4] + SignalRetention)'
      <3>1. CASE k = key
          BY <1>2, <1>4, <1>7, <2>1, <3>1
      <3>2. CASE k # key
        <4>1. k \in DOMAIN delivered /\ delivered[k].trigger = "firstLogin"
            BY <1>6, <2>1, <3>2
        <4>2. FirstRow(k[3], k[4]) \in signals \/ Past(k[4] + SignalRetention)
            BY <4>1 DEF TasksInv, FirstsSound
        <4>3. k \in LoginKeys(k[2])
            BY <4>1, IntervalOrNot DEF TasksInv, DeliveriesSound
        <4>4. k[4] + SignalRetention \in Nat
            BY <4>3, TaskNumbers DEF LoginKeys
        <4>5. Past(k[4] + SignalRetention) => Past(k[4] + SignalRetention)'
            BY <1>1, <4>4, PastStays
        <4>6. QED
            BY <1>2, <4>2, <4>5
      <3>3. QED
          BY <3>1, <3>2
    <2>2. ASSUME NEW k \in DOMAIN delivered, delivered[k].trigger = "firstLogin", k # key, trigger = "firstLogin",
                 k[2] = key[2], k[3] = key[3]
          PROVE  k[4] + SignalRetention < key[4] + SignalCatchUp
      <3>1. FirstRow(k[3], k[4]) \in signals \/ Past(k[4] + SignalRetention)
          BY <2>2 DEF TasksInv, FirstsSound
      <3>2. k \in LoginKeys(k[2]) /\ key \in LoginKeys(id)
          BY <1>4, <2>2, IntervalOrNot DEF TasksInv, DeliveriesSound
      <3>3. k[4] \in Nat /\ key[4] \in Nat /\ k[3] \in Nat /\ k[4] # key[4]
          BY <1>3, <2>2, <3>2 DEF LoginKeys
      <3>4. CASE FirstRow(k[3], k[4]) \in signals
        <4>1. FirstRow(key[3], key[4]) \in signals
            BY <1>4, <2>2
        <4>2. FirstRow(k[3], k[4]) = FirstRow(key[3], key[4])
            BY <2>2, <3>4, <4>1 DEF TasksInv, SignalsSound, FirstRow
        <4>3. QED
            BY <3>3, <4>2 DEF FirstRow
      <3>5. CASE Past(k[4] + SignalRetention)
        <4>1. k[4] + SignalRetention < at
            BY <1>3, <3>5 DEF Past, at
        <4>2. at <= key[4] + SignalCatchUp
            BY <1>4, <2>2
        <4>3. SignalRetention \in Nat /\ SignalCatchUp \in Nat
            BY TaskNumbers
        <4>4. at \in Nat /\ k[4] \in Nat /\ key[4] \in Nat
            BY <1>3, <3>3
        <4>5. QED
            BY <4>1, <4>2, <4>3, <4>4
      <3>6. QED
          BY <3>1, <3>4, <3>5
    <2>3. OncePerStart'
      <3>1. SUFFICES ASSUME NEW j \in DOMAIN delivered', NEW k \in DOMAIN delivered',
                            delivered'[j].trigger = "firstLogin", delivered'[k].trigger = "firstLogin", j[2] = k[2], j[3] = k[3],
                            j # k
                     PROVE  j[4] + SignalRetention < k[4] + SignalCatchUp \/ k[4] + SignalRetention < j[4] + SignalCatchUp
          BY DEF OncePerStart
      <3>2. CASE j = key
          BY <1>6, <1>7, <2>2, <3>1, <3>2
      <3>3. CASE k = key
          BY <1>6, <1>7, <2>2, <3>1, <3>3
      <3>4. CASE j # key /\ k # key
          BY <1>6, <3>1, <3>4 DEF TasksInv, FirstsSound, OncePerStart
      <3>5. QED
          BY <3>2, <3>3, <3>4
    <2>4. QED
        BY <2>1, <2>3 DEF FirstsSound
  <1>15. IntervalApart(t)
      BY DEF TasksInv, IntervalsSound
  <1>16. trigger = "interval"
           => /\ key = IntervalKey(id, tick[t].parts.next)
              /\ task.id = id /\ task.next # NoValue => at + Shortest <= task.next
              /\ \A d \in AtInterval(id) : d # key => delivered[d].at + Shortest <= at
    <2>1. tick[t].pc \in AtClaims
        BY DEF AtClaims
    <2>2. QED
        BY <1>3, <1>15, <2>1 DEF IntervalApart, trigger, at, id
  <1>17. \A i, d : d \in AtInterval(i)' =>
            \/ d = key /\ i = id /\ trigger = "interval" /\ delivered'[d].at = at
            \/ d \in AtInterval(i) /\ d # key /\ delivered'[d].at = delivered[d].at
      BY <1>3, <1>6, <1>7 DEF AtInterval
  <1>18. IntervalsSound'
    <2>1. Spaced(task.id, task.next)'
      <3>1. SUFFICES ASSUME task.next # NoValue, NEW d \in AtInterval(task.id)' PROVE delivered'[d].at + Shortest <= task.next
          BY <1>2 DEF Spaced
      <3>2. d \in AtInterval(task.id) => delivered[d].at + Shortest <= task.next
          BY <3>1 DEF TasksInv, IntervalsSound, Spaced
      <3>3. QED
          BY <1>2, <1>16, <1>17, <3>1, <3>2
    <2>2. SpacedIntervals'
      <3>1. SUFFICES ASSUME NEW j \in DOMAIN delivered', NEW k \in DOMAIN delivered',
                            delivered'[j].trigger = "interval", delivered'[k].trigger = "interval",
                            j # k, j[2] = k[2], delivered'[j].at <= delivered'[k].at
                     PROVE  delivered'[k].at - delivered'[j].at >= Shortest
          BY DEF SpacedIntervals
      <3>2. CASE k = key
        <4>1. j \in AtInterval(id) /\ delivered'[j].at = delivered[j].at /\ trigger = "interval" /\ j # key
            BY <1>3, <1>6, <1>7, <3>1, <3>2 DEF AtInterval
        <4>2. delivered[j].at + Shortest <= at /\ delivered[j].at \in Nat
            BY <1>8, <1>16, <4>1 DEF AtInterval
        <4>3. Shortest \in Nat
            BY <1>4, <4>1, IntervalOrNot, ShortestIs
        <4>4. QED
            BY <1>3, <1>7, <3>2, <4>1, <4>2, <4>3
      <3>3. CASE j = key
        <4>1. k \in AtInterval(id) /\ delivered'[k].at = delivered[k].at /\ trigger = "interval" /\ k # key
            BY <1>3, <1>6, <1>7, <3>1, <3>3 DEF AtInterval
        <4>2. delivered[k].at + Shortest <= at /\ delivered[k].at \in Nat
            BY <1>8, <1>16, <4>1 DEF AtInterval
        <4>3. Shortest \in Nat \ {0}
            BY <1>4, <4>1, IntervalOrNot, ShortestIs
        <4>4. at <= delivered[k].at
            BY <1>7, <3>1, <3>3, <4>1
        <4>5. QED
            BY <1>3, <4>2, <4>3, <4>4
      <3>4. CASE j # key /\ k # key
          BY <1>6, <3>1, <3>4 DEF TasksInv, IntervalsSound, SpacedIntervals
      <3>5. QED
          BY <3>2, <3>3, <3>4
    <2>3. IntervalApart(t)'
      <3>0. PICK p : p = id
          OBVIOUS
      <3>1. SUFFICES ASSUME NEW i \in DOMAIN tick[t].claims, tick[t].claims[i].trigger = "interval"
                     PROVE  /\ tick[t].claims[i].key = IntervalKey(id, tick[t].parts.next)
                            /\ task.id = id /\ task.next # NoValue => at + Shortest <= task.next
                            /\ \A d \in AtInterval(p)' : d # tick[t].claims[i].key => delivered'[d].at + Shortest <= at
          BY <1>1, <1>2, <3>0 DEF IntervalApart, BeforeClaims, Draining, AtClaims, at, id
      <3>2. /\ tick[t].claims[i].key = IntervalKey(id, tick[t].parts.next)
            /\ task.id = id /\ task.next # NoValue => at + Shortest <= task.next
            /\ \A d \in AtInterval(id) : d # tick[t].claims[i].key => delivered[d].at + Shortest <= at
          BY <1>15, <3>1 DEF IntervalApart, AtClaims, at, id
      <3>3. ASSUME NEW d \in AtInterval(p)', d # tick[t].claims[i].key PROVE delivered'[d].at + Shortest <= at
        <4>1. d # key
            BY <1>16, <1>17, <3>2, <3>3
        <4>2. d \in AtInterval(id) /\ delivered'[d].at = delivered[d].at
            BY <1>17, <3>0, <3>3, <4>1
        <4>3. QED
            BY <3>2, <3>3, <4>2
      <3>4. QED
          BY <3>2, <3>3
    <2>4. ASSUME NEW u \in Ticks, u # t PROVE IntervalApart(u)'
        BY <1>1, <2>4, IdleFits DEF IntervalApart, BeforeClaims, Draining, AtClaims
    <2>5. QED
        BY <2>1, <2>2, <2>3, <2>4 DEF IntervalsSound
  <1>19. QED
      BY <1>1, <1>11, <1>12, <1>13, <1>14, <1>18 DEF TasksInv

\* A command went through.
LEMMA SendStepKeepsTasks == ASSUME TasksInv, NEW t \in Ticks, SendStep(t) PROVE TasksInv'
  <1> DEFINE new == [tick[t] EXCEPT !.sent = @ + 1]
  <1>1. /\ tick[t].pc = "send" /\ tick[t].pc \in AtClaims /\ tick[t].sent < Steps /\ delivered' = Receives(t) /\ TickTo(t, new)
      BY DEF SendStep, AtClaims
  <1>2. UNCHANGED <<clock, bot, journal, task, taskEdits, signals, cursor, seeded, runs, crashes>>
      BY DEF SendStep
  <1>3. tick[t] \in TickSet /\ tick[t].sent \in 0..Steps /\ tick[t].claims # <<>>
      BY <1>1, AtWork
  <1>4. new.pc = "send" /\ new.at = tick[t].at /\ new.parts = tick[t].parts /\ new.sent = tick[t].sent + 1 /\ new.claims = tick[t].claims
      BY <1>1, <1>3 DEF TickSet
  <1>5. new \in TickSet
    <2>1. tick[t].sent + 1 \in 0..Steps
      <3> DEFINE n == tick[t].sent
      <3>1. n \in 0..Steps /\ n < Steps /\ Steps \in Nat
          BY <1>1, <1>3, TaskNumbers
      <3> HIDE DEF n
      <3>2. n + 1 \in 0..Steps
          BY <3>1
      <3>3. QED
          BY <3>2 DEF n
    <2>2. QED
        BY <1>3, <2>1 DEF TickSet
  <1> HIDE DEF new
  <1>6. ClaimsGoOn(t, new)
      BY <1>1, <1>2, <1>3, <1>4, <1>5 DEF ClaimsGoOn, ClaimsOf, AtClaims
  <1>7. QED
      BY <1>1, <1>2, <1>4, <1>6, ReceivesKeeps

\* A command failed, whether or not the bot received it.
LEMMA StepFailsKeepsTasks == ASSUME TasksInv, NEW t \in Ticks, StepFails(t) PROVE TasksInv'
  <1> DEFINE new == [tick[t] EXCEPT !.pc = "failed"]
  <1>1. /\ tick[t].pc = "send" /\ tick[t].pc \in AtClaims /\ tick[t].sent < Steps /\ TickTo(t, new)
        /\ delivered' = delivered \/ delivered' = Receives(t)
      BY DEF StepFails, AtClaims
  <1>2. UNCHANGED <<clock, bot, journal, task, taskEdits, signals, cursor, seeded, runs, crashes>>
      BY DEF StepFails
  <1>3. tick[t] \in TickSet /\ tick[t].sent \in 0..Steps /\ tick[t].claims # <<>> /\ CurrentFits(t)
      BY <1>1, AtWork
  <1>4. new.pc = "failed" /\ new.at = tick[t].at /\ new.parts = tick[t].parts /\ new.sent = tick[t].sent /\ new.claims = tick[t].claims
      BY <1>3 DEF TickSet
  <1>5. new \in TickSet
    <2>1. "failed" \in {"idle"} \cup BeforeClaims \cup AtClaims
        BY DEF AtClaims
    <2>2. QED
        BY <1>3, <2>1 DEF TickSet
  <1> HIDE DEF new
  <1>6. ClaimsGoOn(t, new)
      BY <1>1, <1>2, <1>3, <1>4, <1>5 DEF ClaimsGoOn, ClaimsOf, AtClaims
  <1>7. CASE delivered' = Receives(t)
      BY <1>1, <1>2, <1>4, <1>6, <1>7, ReceivesKeeps
  <1>8. CASE delivered' = delivered
    <2>1. tick'[t] = new
        BY <1>6, ClaimsGoOnKeeps
    <2>2. Key(t)' = Key(t)
        BY <1>4, <2>1 DEF Key
    <2>3. Received(Key(t))' = Received(Key(t)) /\ Received(Key(t)) = tick[t].sent
        BY <1>1, <1>3, <1>8, <2>2 DEF Received, CurrentFits
    <2>4. CurrentFits(t)'
        BY <1>1, <1>2, <1>3, <1>4, <2>1, <2>2, <2>3 DEF CurrentFits
    <2>5. RunsSound'
        BY <1>2, <1>8, RunsStay DEF TasksInv
    <2>6. QED
        BY <1>2, <1>6, <1>8, <2>4, <2>5, ClaimsDone
  <1>9. QED
      BY <1>1, <1>7, <1>8

\* The server restarts: what it was at is forgotten, what it wrote is not.
LEMMA ServerCrashKeepsTasks == ASSUME TasksInv, ServerCrash PROVE TasksInv'
  <1> USE DEF TasksInv
  <1>1. UNCHANGED <<clock, bot, journal, task, taskEdits, signals, cursor, seeded, runs, delivered>>
      BY DEF ServerCrash
  <1>2. /\ tick' = [t \in Ticks |-> Idle] /\ tick' \in [Ticks -> TickSet] /\ \A t \in Ticks : tick'[t] = Idle /\ ~Busy(t)'
    <2>1. tick' = [t \in Ticks |-> Idle]
        BY DEF ServerCrash
    <2>2. QED
        BY <2>1, IdleFits DEF Busy
  <1>3. clock \in Nat /\ taskEdits \in Nat
      BY TaskFacts
  <1>4. WorldTypes'
    <2>1. crashes' \in 0..MaxCrashes
        BY TaskNumbers DEF ServerCrash, WorldTypes
    <2>2. QED
        BY <1>1, <2>1 DEF WorldTypes, Exists
  <1>5. TickTypes' /\ Advances
      BY <1>1, <1>2, <1>3, IdleFits DEF TickTypes, Advances
  <1>6. \A u \in Ticks : tick'[u].pc = "idle"
      BY <1>2, IdleFits
  <1>7. SignalsSound' /\ JoinsSound'
      BY <1>1, <1>3, <1>5, <1>6, SignalsStay, JoinsStay DEF Draining
  <1>8. DeliveriesSound' /\ RunsSound' /\ FirstsSound'
      BY <1>1, <1>3, <1>5, DeliveriesStay, RunsStay, FirstsStay
  <1>9. ClaimsSound' /\ IntervalsSound'
      BY <1>1, <1>6, ClaimsStay, IntervalsStay DEF BeforeClaims, AtClaims, Draining
  <1>10. QED
      BY <1>4, <1>5, <1>7, <1>8, <1>9

\* Every step keeps all of it.
LEMMA TasksStep == ASSUME TasksInv, [Next]_vars PROVE TasksInv'
  <1>1. CASE UNCHANGED vars
    <2>1. TasksStay /\ UNCHANGED <<bot, journal>>
        BY <1>1 DEF vars, TasksStay
    <2>2. /\ TickTypes' /\ Advances /\ SignalsSound' /\ DeliveriesSound' /\ RunsSound' /\ ClaimsSound' /\ FirstsSound'
          /\ IntervalsSound'
        BY <2>1, AllElseStays
    <2>3. WorldTypes' /\ JoinsSound'
        BY <2>1, <2>2, JoinsStay DEF TasksInv, WorldTypes, TasksStay, Exists
    <2>4. QED
        BY <2>2, <2>3 DEF TasksInv
  <1>2. CASE \E t \in Ticks : TickStart(t) \/ TickStep(t)
      BY <1>2, TickStartKeepsTasks, ReadJoinsKeepsTasks, RecordJoinsKeepsTasks, SaveCursorKeepsTasks, ConsiderTaskKeepsTasks,
         ClaimRunKeepsTasks, SendStepKeepsTasks, StepFailsKeepsTasks, FinishSentKeepsTasks, FinishBreaksKeepsTasks,
         FinishFailedKeepsTasks DEF TickStep
  <1>3. CASE Pass \/ BotJoins \/ ClientStarts \/ ClientStops \/ DeleteTask \/ ServerCrash
      BY <1>3, PassKeepsTasks, BotJoinsKeepsTasks, ClientKeepsTasks, DeleteTaskKeepsTasks, ServerCrashKeepsTasks
  <1>4. CASE \E v \in Variants : SetTask(v)
      BY <1>4, SetTaskKeepsTasks
  <1>5. QED
      BY <1>1, <1>2, <1>3, <1>4 DEF Next

\* And all of it says that tasks run as they are set and what is recorded of them is so.
LEMMA TasksInvIsEnough == ASSUME TasksInv PROVE TasksRunAndAreRecorded
  <1> USE DEF TasksInv
  <1>1. RunOnce
    <2>1. \A k \in DOMAIN delivered : delivered[k] \in DeliverySet
        BY DEF DeliveriesSound
    <2>2. QED
        BY <2>1, TaskNumbers DEF RunOnce, DeliverySet
  <1>2. RunsAsScheduled
      BY <1>1 DEF RunsAsScheduled, FirstsSound, IntervalsSound
  <1>3. TypeOK
    <2>1. /\ clock \in Time /\ bot \in [up : BOOLEAN, process : Process] /\ journal \in Seq(Join) /\ Len(journal) <= MaxJoins
          /\ taskEdits \in 0..MaxTaskEdits /\ crashes \in 0..MaxCrashes /\ signals \subseteq SignalRow
        BY DEF WorldTypes, SignalsSound
    <2>2. task.id \in 0..MaxTaskEdits /\ task.every \subseteq Nat /\ task.next \in Nat
      <3>1. task.id \in Nat /\ task.id <= taskEdits /\ taskEdits \in 0..MaxTaskEdits /\ task.next \in Nat /\ MaxTaskEdits \in Nat
          BY TaskFacts, TaskNumbers DEF WorldTypes
      <3>2. task.id \in 0..MaxTaskEdits
          BY <3>1
      <3>3. task.every \subseteq Nat
          BY TaskFacts DEF TaskSet
      <3>4. QED
          BY <3>1, <3>2, <3>3
    <2>3. {cursor, seeded} \subseteq 0..MaxJoins
        BY TaskFacts, TaskNumbers DEF WorldTypes
    <2>4. \A k \in DOMAIN runs : /\ runs[k].outcome \in {"running", "sent", "failed", "abandoned"}
                                 /\ runs[k].steps \in 0..Steps /\ runs[k].started \in Time
      <3>1. \A k \in DOMAIN runs : runs[k] \in RunSet
          BY DEF RunsSound
      <3>2. QED
          BY <3>1 DEF RunSet
    <2>5. \A t \in Ticks : tick[t].pc \in {"idle", "read", "record", "save", "claim", "next", "send", "failed"}
      <3>1. \A t \in Ticks : tick[t] \in TickSet
          BY TaskFacts
      <3>2. QED
          BY <3>1 DEF TickSet, BeforeClaims, AtClaims, Draining
    <2>6. QED
        BY <2>1, <2>2, <2>3, <2>4, <2>5 DEF TypeOK
  <1>4. AbandonedIsNobodys
      BY DEF AbandonedIsNobodys, ClaimsSound, ClaimsFit, CurrentFits
  <1>5. OutcomeIsHonest
      BY DEF OutcomeIsHonest, RunsSound
  <1>6. CursorBehindSignals
      BY DEF CursorBehindSignals, JoinsSound, Noted
  <1>7. QED
      BY <1>2, <1>3, <1>4, <1>5, <1>6 DEF TasksRunAndAreRecorded, RecordsAreTrue

\* For any number of ticks, whatever operators make of the task, the bot's joins and stops and restarts of
\* the server between any two steps: tasks run as they are set, never twice for one occasion, and what is
\* recorded of runs and joins is true (runTaskSchedulerTick, claimRun, recordJoinSightings).
THEOREM TasksRunSoundly == Spec => []TasksRunAndAreRecorded
  <1>1. Init => TasksInv
      BY TaskInitially
  <1>2. TasksInv /\ [Next]_vars => TasksInv'
      BY TasksStep
  <1>3. TasksInv => TasksRunAndAreRecorded
      BY TasksInvIsEnough
  <1>4. QED
      BY <1>1, <1>2, <1>3, PTL DEF Spec
=============================================================================
