-------------------------- MODULE ConnectionProofs ---------------------------
(***************************************************************************)
(* Proofs about what goes over connections: the reads that share one to a  *)
(* host (ReadConnections), the calls to a running bot (LiveControl), the   *)
(* script that lets the control plane into the machine it runs on          *)
(* (SelfHost), and alerts on their way to a server (MessageSenders).       *)
(* In ReadConnections, for any readers, limit of channels and number of    *)
(* connections, host keys and reads, a connection's slots are counted by   *)
(* the readers that have one, its queue by those that wait; a lease ties a *)
(* reader to a connection to the host it was looked up for.                *)
(***************************************************************************)
EXTENDS ReadConnections, LiveControl, SelfHost, MessageSenders, Loops

-----------------------------------------------------------------------------
(***************************************************************************)
(* LiveControl, for any calls under way, slots and bounds.  A remembered   *)
(* answer is of the run the bot is in because stopping the bot forgets it, *)
(* and the check that would bring it, before the next run; and what is     *)
(* recorded is counted against what the client did, with the calls that    *)
(* wait to be recorded, and that against the presses, with the calls that  *)
(* wait for the client.                                                    *)
(***************************************************************************)
Harmless == {"chat", "disallowed"}
Entries == {"drop", "hold", "chat", "masked"}
ClientStages == {"require running", "waiting", "handshake", "call"}
KindsAt(stage) ==
    IF stage = "send line" THEN {"command"}
    ELSE IF stage = "record" THEN {"drop", "hold", "command"} ELSE {"read", "drop", "hold"}

CallFits(c) ==
    /\ "at" \in DOMAIN c /\ c.at \in ClientStages \cup {"idle", "answer", "send line", "record"}
    /\ c.at # "idle" => "kind" \in DOMAIN c /\ c.kind \in KindsAt(c.at)
    /\ c.at # "idle" /\ c.kind = "command" =>
           "command" \in DOMAIN c /\ c.command \in Commands /\ (c.at = "record" => Sendable(c.command))

\* Calls that still wait for the client, and those it acted on that are not recorded.
ToAct(calls) == {r \in LiveSlots : calls[r].at \in ClientStages \cup {"send line"}}
Acted(calls, kind) == {r \in LiveSlots : calls[r].at \in {"answer", "record"} /\ calls[r].kind = kind}

LiveTypes ==
    /\ DOMAIN live = LiveSlots /\ \A r \in LiveSlots : CallFits(live[r])
    /\ liveBot \in [unit : {"active", "inactive"}, status : {"running", "stopped"}, run : Nat]
    /\ acted \in [dropped : Nat, selected : Nat, sent : Nat] /\ audited \in Seq(Entries) /\ pressed \in Nat
    /\ "history" \in DOMAIN consoleShows
    /\ consoleShows.history \in Seq(Harmless) /\ storedHistory \in Seq(Harmless)

\* What is known of the bot, or is about to be, is of the run it is in.
CheckedInRun ==
    /\ activeReadAt \in [at : Nat, run : Nat] /\ liveNow \in Nat
    /\ activeReadAt # NotRead => activeReadAt.run = liveBot.run
    /\ asked \in Seq([said : {"unasked", "active", "inactive", "settled"}, run : Nat])
    /\ activeCheck \in 0..Len(asked)
    /\ activeCheck # NoCheck /\ asked[activeCheck].said # "unasked" => asked[activeCheck].run = liveBot.run

Accounted ==
    /\ IsFiniteSet(ToAct(live)) /\ \A kind \in {"drop", "hold", "command"} : IsFiniteSet(Acted(live, kind))
    /\ Count("drop") + Cardinality(Acted(live, "drop")) <= acted.dropped
    /\ Count("hold") + Cardinality(Acted(live, "hold")) <= acted.selected
    /\ Count("chat") + Count("masked") + Cardinality(Acted(live, "command")) <= acted.sent
    /\ acted.dropped + acted.selected + acted.sent + Cardinality(ToAct(live)) <= pressed

LiveInv == LiveTypes /\ CheckedInRun /\ Accounted

-----------------------------------------------------------------------------
\* A set that differs from another in one member at most.
OneApart(S, T, r) ==
    /\ IsFiniteSet(S) /\ IsFiniteSet(T) /\ Cardinality(S) \in Nat /\ Cardinality(T) \in Nat
    /\ Cardinality(T) = Cardinality(S) + (IF r \in T THEN 1 ELSE 0) - (IF r \in S THEN 1 ELSE 0)
LEMMA AreOneApart ==
    ASSUME NEW S, NEW T, NEW r, IsFiniteSet(S), \A x : x # r => (x \in S <=> x \in T)
    PROVE  OneApart(S, T, r)
  <1>1. Cardinality(S) \in Nat
      BY FS_CardinalityType
  <1> USE DEF OneApart
  <1>2. CASE r \in S /\ r \notin T
    <2>1. T = S \ {r}
        BY <1>2
    <2>2. QED
        BY <1>1, <1>2, <2>1, FS_RemoveElement, FS_CardinalityType
  <1>3. CASE r \notin S /\ r \in T
    <2>1. T = S \cup {r}
        BY <1>3
    <2>2. QED
        BY <1>1, <1>3, <2>1, FS_AddElement, FS_CardinalityType
  <1>4. CASE r \in S <=> r \in T
    <2>1. T = S
        BY <1>4
    <2>2. QED
        BY <1>1, <1>4, <2>1
  <1>5. QED
      BY <1>2, <1>3, <1>4

LEMMA NoMore ==
    ASSUME NEW S, NEW T, NEW r, OneApart(S, T, r), r \in T => r \in S
    PROVE  IsFiniteSet(T) /\ Cardinality(S) \in Nat /\ Cardinality(T) \in Nat /\ Cardinality(T) <= Cardinality(S)
  BY DEF OneApart

LEMMA OneMore ==
    ASSUME NEW S, NEW T, NEW r, OneApart(S, T, r), r \in T, r \notin S
    PROVE  IsFiniteSet(T) /\ Cardinality(S) \in Nat /\ Cardinality(T) = Cardinality(S) + 1
  BY DEF OneApart

LEMMA OneLess ==
    ASSUME NEW S, NEW T, NEW r, OneApart(S, T, r), r \notin T, r \in S
    PROVE  IsFiniteSet(T) /\ Cardinality(T) \in Nat /\ Cardinality(S) = Cardinality(T) + 1
  BY DEF OneApart

\* One call goes on, as c.
LEMMA CallMoves ==
    ASSUME LiveInv, NEW r \in LiveSlots, NEW c, live' = [live EXCEPT ![r] = c]
    PROVE  /\ DOMAIN live' = LiveSlots /\ live'[r] = c /\ \A q \in LiveSlots : q # r => live'[q] = live[q]
           /\ OneApart(ToAct(live), ToAct(live'), r)
           /\ \A kind \in {"drop", "hold", "command"} : OneApart(Acted(live, kind), Acted(live', kind), r)
  <1>1. DOMAIN live' = LiveSlots /\ live'[r] = c /\ \A q \in LiveSlots : q # r => live'[q] = live[q]
      BY DEF LiveInv, LiveTypes
  <1>2. OneApart(ToAct(live), ToAct(live'), r)
    <2> DEFINE S == ToAct(live)
               T == ToAct(live')
    <2>1. IsFiniteSet(S) /\ \A x : x # r => (x \in S <=> x \in T)
        BY <1>1 DEF LiveInv, Accounted, ToAct
    <2> HIDE DEF S, T
    <2>2. OneApart(S, T, r)
        BY <2>1, AreOneApart
    <2>3. QED
        BY <2>2 DEF S, T
  <1>3. ASSUME NEW kind \in {"drop", "hold", "command"} PROVE OneApart(Acted(live, kind), Acted(live', kind), r)
    <2> DEFINE S == Acted(live, kind)
               T == Acted(live', kind)
    <2>1. IsFiniteSet(S)
        BY DEF LiveInv, Accounted
    <2>2. \A x : x # r => (x \in S <=> x \in T)
        BY <1>1 DEF Acted
    <2> HIDE DEF S, T
    <2>3. OneApart(S, T, r)
        BY <2>1, <2>2, AreOneApart
    <2>4. QED
        BY <2>3 DEF S, T
  <1>4. QED
      BY <1>1, <1>2, <1>3

\* A note more is counted once.
LEMMA CountOne ==
    ASSUME audited \in Seq(Entries), NEW what, NEW note, audited' = Append(audited, note)
    PROVE  /\ Count(what) \in Nat /\ Count(what)' \in Nat
           /\ Count(what)' = Count(what) + IF note = what THEN 1 ELSE 0
  <1> DEFINE n == Len(audited)
             S == {i \in DOMAIN audited : audited[i] = what}
             T == {i \in DOMAIN audited' : audited'[i] = what}
  <1>1. /\ n \in Nat /\ DOMAIN audited = 1..n /\ DOMAIN audited' = 1..(n + 1) /\ audited'[n + 1] = note
        /\ \A i \in 1..n : audited'[i] = audited[i]
      OBVIOUS
  <1>2. IsFiniteSet(S)
    <2>1. IsFiniteSet(1..n)
        BY <1>1, FS_Interval
    <2>2. S \subseteq 1..n
        BY <1>1
    <2>3. QED
        BY <2>1, <2>2, FS_Subset
  <1>3. \A x : x # n + 1 => (x \in S <=> x \in T)
    <2>1. \A x : x \in 1..(n + 1) /\ x # n + 1 <=> x \in 1..n
        BY <1>1
    <2>2. QED
        BY <1>1, <2>1
  <1>4. n + 1 \notin S /\ (n + 1 \in T <=> note = what)
      BY <1>1
  <1> HIDE DEF S, T, n
  <1>5. OneApart(S, T, n + 1)
      BY <1>2, <1>3, AreOneApart
  <1>6. Count(what) = Cardinality(S) /\ Count(what)' = Cardinality(T)
      BY DEF Count, S, T
  <1>7. QED
      BY <1>4, <1>5, <1>6 DEF OneApart

LEMMA Counts == ASSUME audited \in Seq(Entries), NEW what PROVE Count(what) \in Nat
  <1>1. Len(audited) \in Nat /\ DOMAIN audited = 1..Len(audited)
      OBVIOUS
  <1>2. IsFiniteSet(1..Len(audited))
      BY <1>1, FS_Interval
  <1>3. {i \in DOMAIN audited : audited[i] = what} \subseteq 1..Len(audited)
      BY <1>1
  <1>4. QED
      BY <1>2, <1>3, FS_Subset, FS_CardinalityType DEF Count

\* The history keeps no command with a password.
LEMMA HistoryHarmless ==
    ASSUME NEW history \in Seq(Harmless), NEW command \in Commands
    PROVE  RememberCommand(history, command) \in Seq(Harmless)
  <1> DEFINE keep == [i \in DOMAIN history |-> history[i] # command]
             others == Others(history, command)
             next == <<command>> \o others
  <1>1. others \in Seq(Harmless)
    <2>1. keep \in [DOMAIN history -> BOOLEAN]
        OBVIOUS
    <2> HIDE DEF keep
    <2>2. Filtered(history, keep) \in Seq(Harmless)
        BY <2>1, FilteredKeeps
    <2>3. QED
        BY <2>2 DEF Others, keep
  <1>2. CASE CarriesSecret(command)
      BY <1>2 DEF RememberCommand
  <1>3. CASE ~CarriesSecret(command)
    <2> HIDE DEF others
    <2>1. command \in Harmless
        BY <1>3 DEF CarriesSecret, Commands, Harmless
    <2>2. next \in Seq(Harmless) /\ Len(next) \in Nat
        BY <1>1, <2>1
    <2> HIDE DEF next
    <2>3. LatestFew(next) \in Seq(Harmless)
      <3> DEFINE m == IF Len(next) < HistoryLimit THEN Len(next) ELSE HistoryLimit
      <3>1. m \in Nat /\ m <= Len(next) /\ SubSeq(next, 1, m) = [i \in 1..m |-> next[i]]
        <4>1. m \in Nat /\ m <= Len(next)
            BY <2>2 DEF HistoryLimit
        <4> HIDE DEF m
        <4>2. QED
            BY <2>2, <4>1
      <3> HIDE DEF m
      <3>2. \A i \in 1..m : next[i] \in Harmless
          BY <2>2, <3>1
      <3>3. QED
          BY <3>1, <3>2 DEF LatestFew, m
    <2>4. QED
        BY <1>3, <2>3 DEF RememberCommand, next, others
  <1>4. QED
      BY <1>2, <1>3

-----------------------------------------------------------------------------
\* The steps that leave what is known of the bot alone.
LEMMA StillChecked ==
    ASSUME LiveInv, UNCHANGED <<liveBot, activeVars>>, liveNow' \in Nat
    PROVE  CheckedInRun'
  BY DEF LiveInv, CheckedInRun, activeVars

\* Fewer calls under way leave room for what is counted.
LEMMA FitsStill ==
    ASSUME NEW n \in Nat, NEW m \in Nat, NEW S, NEW T, NEW r, OneApart(S, T, r), r \in T => r \in S,
           n + Cardinality(S) <= m
    PROVE  IsFiniteSet(T) /\ n + Cardinality(T) <= m
  BY DEF OneApart

\* What was counted, as numbers.
LEMMA Numbers ==
    ASSUME LiveInv
    PROVE  /\ Count("drop") \in Nat /\ Count("hold") \in Nat /\ Count("chat") \in Nat /\ Count("masked") \in Nat
           /\ Count("chat") + Count("masked") \in Nat
           /\ acted.dropped \in Nat /\ acted.selected \in Nat /\ acted.sent \in Nat /\ pressed \in Nat
           /\ acted.dropped + acted.selected + acted.sent \in Nat
  <1>1. /\ Count("drop") \in Nat /\ Count("hold") \in Nat /\ Count("chat") \in Nat /\ Count("masked") \in Nat
      BY Counts DEF LiveInv, LiveTypes
  <1>2. acted.dropped \in Nat /\ acted.selected \in Nat /\ acted.sent \in Nat /\ pressed \in Nat
      BY DEF LiveInv, LiveTypes
  <1>3. QED
      BY <1>1, <1>2

\* A call that goes on without the client acting, or ends.
GoesOn(r, c) ==
    /\ live' = [live EXCEPT ![r] = c] /\ CallFits(c)
    /\ c.at \in ClientStages \cup {"send line"} => r \in ToAct(live)
    /\ \A kind \in {"drop", "hold", "command"} : r \in Acted(live', kind) => r \in Acted(live, kind)
    /\ UNCHANGED <<liveBot, items, held, acted, audited, storedHistory, pressed>>
    /\ consoleShows' = consoleShows \/ ("history" \in DOMAIN consoleShows' /\ consoleShows'.history = consoleShows.history)

LEMMA CallGoesOn ==
    ASSUME LiveInv, NEW r \in LiveSlots, NEW c, GoesOn(r, c)
    PROVE  LiveTypes' /\ Accounted'
  <1>1. live' = [live EXCEPT ![r] = c]
      BY DEF GoesOn
  <1>2. DOMAIN live' = LiveSlots /\ live'[r] = c /\ \A q \in LiveSlots : q # r => live'[q] = live[q]
      BY <1>1, CallMoves
  <1>3. OneApart(ToAct(live), ToAct(live'), r)
        /\ \A kind \in {"drop", "hold", "command"} : OneApart(Acted(live, kind), Acted(live', kind), r)
      BY <1>1, CallMoves
  <1>4. LiveTypes'
      BY <1>2 DEF LiveInv, LiveTypes, GoesOn
  <1>5. (r \in ToAct(live') => r \in ToAct(live))
        /\ \A kind \in {"drop", "hold", "command"} : r \in Acted(live', kind) => r \in Acted(live, kind)
      BY <1>2 DEF ToAct, GoesOn
  <1>6. acted' = acted /\ pressed' = pressed /\ audited' = audited
      BY DEF GoesOn
  <1>7. Accounted'
    <2>1. /\ Count("drop") + Cardinality(Acted(live, "drop")) <= acted.dropped
          /\ Count("hold") + Cardinality(Acted(live, "hold")) <= acted.selected
          /\ Count("chat") + Count("masked") + Cardinality(Acted(live, "command")) <= acted.sent
          /\ acted.dropped + acted.selected + acted.sent + Cardinality(ToAct(live)) <= pressed
        BY DEF LiveInv, Accounted
    <2>2. IsFiniteSet(ToAct(live')) /\ acted.dropped + acted.selected + acted.sent + Cardinality(ToAct(live')) <= pressed
        BY <1>3, <1>5, <2>1, Numbers, FitsStill
    <2>3. IsFiniteSet(Acted(live', "drop")) /\ Count("drop") + Cardinality(Acted(live', "drop")) <= acted.dropped
        BY <1>3, <1>5, <2>1, Numbers, FitsStill
    <2>4. IsFiniteSet(Acted(live', "hold")) /\ Count("hold") + Cardinality(Acted(live', "hold")) <= acted.selected
        BY <1>3, <1>5, <2>1, Numbers, FitsStill
    <2>5. IsFiniteSet(Acted(live', "command"))
          /\ Count("chat") + Count("masked") + Cardinality(Acted(live', "command")) <= acted.sent
        BY <1>3, <1>5, <2>1, Numbers, FitsStill
    <2>6. Count("drop")' = Count("drop") /\ Count("hold")' = Count("hold") /\ Count("chat")' = Count("chat")
          /\ Count("masked")' = Count("masked")
        BY <1>6 DEF Count
    <2>7. QED
        BY <1>6, <2>2, <2>3, <2>4, <2>5, <2>6 DEF Accounted
  <1>8. QED
      BY <1>4, <1>7

Starts(call) == CallFits(call) /\ call.at \in {"require running", "send line"}

LEMMA PressCounts ==
    ASSUME LiveInv, NEW r \in LiveSlots, NEW call, Starts(call), Press(r, call)
    PROVE  LiveInv'
  <1>0. CallFits(call) /\ call.at \in {"require running", "send line"}
      BY DEF Starts
  <1>1. live[r] = IdleCall /\ live' = [live EXCEPT ![r] = call] /\ pressed' = pressed + 1
        /\ UNCHANGED <<liveNow, liveBot, activeVars, itemVars, pageVars>>
      BY DEF Press
  <1>2. DOMAIN live' = LiveSlots /\ live'[r] = call /\ \A q \in LiveSlots : q # r => live'[q] = live[q]
      BY <1>1, CallMoves
  <1>3. OneApart(ToAct(live), ToAct(live'), r)
        /\ \A kind \in {"drop", "hold", "command"} : OneApart(Acted(live, kind), Acted(live', kind), r)
      BY <1>1, CallMoves
  <1>4. live[r].at = "idle" /\ live'[r].at \in {"require running", "send line"}
    <2>1. IdleCall.at = "idle"
        BY DEF IdleCall
    <2>2. live'[r].at \in {"require running", "send line"}
        BY <1>0, <1>2, Zenon
    <2>3. QED
        BY <1>1, <2>1, <2>2, Zenon
  <1>5. r \in ToAct(live') /\ r \notin ToAct(live)
      BY <1>4 DEF ToAct, ClientStages
  <1>6. \A kind \in {"drop", "hold", "command"} : r \notin Acted(live, kind) /\ r \notin Acted(live', kind)
      BY <1>4 DEF Acted
  <1>7. acted' = acted /\ audited' = audited /\ consoleShows' = consoleShows /\ storedHistory' = storedHistory
        /\ liveBot' = liveBot /\ UNCHANGED activeVars /\ liveNow' = liveNow
      BY <1>1 DEF itemVars, pageVars
  <1>8. LiveTypes'
    <2>1. DOMAIN live' = LiveSlots /\ \A q \in LiveSlots : CallFits(live'[q])
        BY <1>0, <1>2 DEF LiveInv, LiveTypes
    <2>2. pressed' \in Nat
        BY <1>1, Numbers
    <2>3. QED
        BY <1>7, <2>1, <2>2 DEF LiveInv, LiveTypes
  <1>9. CheckedInRun'
      BY <1>7, StillChecked DEF LiveInv, CheckedInRun
  <1>10. Accounted'
    <2>1. /\ Count("drop") + Cardinality(Acted(live, "drop")) <= acted.dropped
          /\ Count("hold") + Cardinality(Acted(live, "hold")) <= acted.selected
          /\ Count("chat") + Count("masked") + Cardinality(Acted(live, "command")) <= acted.sent
          /\ acted.dropped + acted.selected + acted.sent + Cardinality(ToAct(live)) <= pressed
        BY DEF LiveInv, Accounted
    <2>2. IsFiniteSet(ToAct(live')) /\ Cardinality(ToAct(live)) \in Nat
          /\ Cardinality(ToAct(live')) = Cardinality(ToAct(live)) + 1
        BY <1>3, <1>5, OneMore
    <2>3. acted.dropped + acted.selected + acted.sent + Cardinality(ToAct(live')) <= pressed + 1
      <3>1. \A n, m, k \in Nat : n + k <= m => n + (k + 1) <= m + 1
          OBVIOUS
      <3>2. QED
          BY <2>1, <2>2, <3>1, Numbers
    <2>4. IsFiniteSet(Acted(live', "drop")) /\ Count("drop") + Cardinality(Acted(live', "drop")) <= acted.dropped
        BY <1>3, <1>6, <2>1, Numbers, FitsStill
    <2>5. IsFiniteSet(Acted(live', "hold")) /\ Count("hold") + Cardinality(Acted(live', "hold")) <= acted.selected
        BY <1>3, <1>6, <2>1, Numbers, FitsStill
    <2>6. IsFiniteSet(Acted(live', "command"))
          /\ Count("chat") + Count("masked") + Cardinality(Acted(live', "command")) <= acted.sent
        BY <1>3, <1>6, <2>1, Numbers, FitsStill
    <2>7. Count("drop")' = Count("drop") /\ Count("hold")' = Count("hold") /\ Count("chat")' = Count("chat")
          /\ Count("masked")' = Count("masked")
        BY <1>7 DEF Count
    <2>8. QED
        BY <1>1, <1>7, <2>2, <2>3, <2>4, <2>5, <2>6, <2>7 DEF Accounted
  <1>11. QED
      BY <1>8, <1>9, <1>10 DEF LiveInv

LEMMA PressesCount ==
    ASSUME LiveInv, NEW r \in LiveSlots,
           ReadLive(r) \/ (\E s \in ItemSlots : DropItem(r, s) \/ SelectHeldItem(r, s)) \/ \E c \in Commands : SendLine(r, c)
    PROVE  LiveInv'
  <1> USE DEF Starts, CallFits, ClientStages, KindsAt
  <1>1. CASE ReadLive(r)
      BY <1>1, PressCounts DEF ReadLive
  <1>2. ASSUME NEW s \in ItemSlots, DropItem(r, s) PROVE LiveInv'
    <2>1. PICK n : Press(r, [at |-> "require running", kind |-> "drop", slot |-> s, count |-> n, check |-> NoCheck])
        BY <1>2 DEF DropItem
    <2>2. QED
        BY <2>1, PressCounts
  <1>3. ASSUME NEW s \in ItemSlots, SelectHeldItem(r, s) PROVE LiveInv'
      BY <1>3, PressCounts DEF SelectHeldItem
  <1>4. ASSUME NEW c \in Commands, SendLine(r, c) PROVE LiveInv'
      BY <1>4, PressCounts DEF SendLine
  <1>5. QED
      BY <1>1, <1>2, <1>3, <1>4

-----------------------------------------------------------------------------
LEMMA RequiresRunning == ASSUME LiveInv, NEW r \in LiveSlots, RequireRunning(r) PROVE LiveInv'
  <1> DEFINE fresh == Len(asked) + 1
             check == IF activeCheck = NoCheck THEN fresh ELSE activeCheck
             next == IF RecentlyActive THEN [live[r] EXCEPT !.at = "handshake"]
                     ELSE [[live[r] EXCEPT !.at = "waiting"] EXCEPT !.check = check]
  <1>1. live[r].at = "require running" /\ live' = [live EXCEPT ![r] = next]
        /\ UNCHANGED <<liveNow, liveBot, itemVars, pageVars, pressed>>
      BY DEF RequireRunning
  <1>2. CallFits(live[r])
      BY DEF LiveInv, LiveTypes
  <1>3. CallFits(next) /\ next.at \in ClientStages /\ r \in ToAct(live)
      BY <1>1, <1>2 DEF CallFits, ClientStages, KindsAt, ToAct
  <1> HIDE DEF next
  <1>4. \A kind : r \notin Acted(live', kind)
    <2>1. live'[r] = next
        BY <1>1, CallMoves
    <2>2. QED
        BY <1>3, <2>1 DEF Acted, ClientStages
  <1>5. LiveTypes' /\ Accounted'
    <2>1. GoesOn(r, next)
        BY <1>1, <1>3, <1>4 DEF GoesOn, itemVars, pageVars
    <2>2. QED
        BY <2>1, CallGoesOn
  <1>6. CheckedInRun'
    <2>1. CASE RecentlyActive
        BY <1>1, <2>1, StillChecked DEF RequireRunning, LiveInv, CheckedInRun, activeVars
    <2>2. CASE ~RecentlyActive
      <3>1. activeReadAt' = NotRead /\ activeCheck' = check
            /\ asked' = IF check = fresh THEN Append(asked, [said |-> "unasked", run |-> 0]) ELSE asked
          BY <2>2 DEF RequireRunning
      <3>2. asked \in Seq([said : {"unasked", "active", "inactive", "settled"}, run : Nat]) /\ activeCheck \in 0..Len(asked)
            /\ Len(asked) \in Nat
          BY DEF LiveInv, CheckedInRun
      <3>3. CASE activeCheck = NoCheck
        <4>1. asked' = Append(asked, [said |-> "unasked", run |-> 0]) /\ activeCheck' = fresh
            BY <3>1, <3>3
        <4>2. asked' \in Seq([said : {"unasked", "active", "inactive", "settled"}, run : Nat])
              /\ Len(asked') = fresh /\ asked'[fresh] = [said |-> "unasked", run |-> 0]
            BY <3>2, <4>1
        <4>3. fresh \in 0..Len(asked') /\ fresh # NoCheck /\ asked'[fresh].said = "unasked"
            BY <3>2, <4>2 DEF NoCheck
        <4>4. activeReadAt' = NotRead /\ NotRead \in [at : Nat, run : Nat] /\ liveNow' \in Nat
            BY <1>1, <3>1 DEF NotRead, LiveInv, CheckedInRun
        <4>5. QED
            BY <4>1, <4>2, <4>3, <4>4 DEF CheckedInRun
      <3>4. CASE activeCheck # NoCheck
        <4>1. asked' = asked /\ activeCheck' = activeCheck
            BY <3>1, <3>2, <3>4
        <4>2. QED
            BY <1>1, <3>1, <4>1 DEF LiveInv, CheckedInRun, NotRead
      <3>5. QED
          BY <3>3, <3>4
    <2>3. QED
        BY <2>1, <2>2
  <1>7. QED
      BY <1>5, <1>6 DEF LiveInv

-----------------------------------------------------------------------------
\* Every call as it was, or ended: what is counted fits as before.
LEMMA CallsShrink ==
    ASSUME LiveInv, ToAct(live') \subseteq ToAct(live), \A kind : Acted(live', kind) = Acted(live, kind),
           acted' = acted, audited' = audited, pressed' = pressed
    PROVE  Accounted'
  <1>1. /\ IsFiniteSet(ToAct(live)) /\ \A kind \in {"drop", "hold", "command"} : IsFiniteSet(Acted(live, kind))
        /\ Count("drop") + Cardinality(Acted(live, "drop")) <= acted.dropped
        /\ Count("hold") + Cardinality(Acted(live, "hold")) <= acted.selected
        /\ Count("chat") + Count("masked") + Cardinality(Acted(live, "command")) <= acted.sent
        /\ acted.dropped + acted.selected + acted.sent + Cardinality(ToAct(live)) <= pressed
      BY DEF LiveInv, Accounted
  <1>2. IsFiniteSet(ToAct(live')) /\ Cardinality(ToAct(live')) <= Cardinality(ToAct(live))
        /\ Cardinality(ToAct(live)) \in Nat /\ Cardinality(ToAct(live')) \in Nat
      BY <1>1, FS_Subset, FS_CardinalityType
  <1>3. acted.dropped + acted.selected + acted.sent + Cardinality(ToAct(live')) <= pressed
    <2>1. \A n, m, k, l \in Nat : n + k <= m /\ l <= k => n + l <= m
        OBVIOUS
    <2>2. QED
        BY <1>1, <1>2, <2>1, Numbers
  <1>4. Count("drop")' = Count("drop") /\ Count("hold")' = Count("hold") /\ Count("chat")' = Count("chat")
        /\ Count("masked")' = Count("masked")
      BY DEF Count
  <1>5. QED
      BY <1>1, <1>2, <1>3, <1>4 DEF Accounted

LEMMA ChecksSettle ==
    ASSUME LiveInv, NEW c \in DOMAIN asked, CheckAsked(c) \/ \E lost \in BOOLEAN : CheckSettles(c, lost)
    PROVE  LiveInv'
  <1> DEFINE Answers == [said : {"unasked", "active", "inactive", "settled"}, run : Nat]
  <1>1. /\ asked \in Seq(Answers) /\ activeCheck \in 0..Len(asked) /\ Len(asked) \in Nat /\ DOMAIN asked = 1..Len(asked)
        /\ activeReadAt \in [at : Nat, run : Nat] /\ liveNow \in Nat
        /\ activeReadAt # NotRead => activeReadAt.run = liveBot.run
        /\ activeCheck # NoCheck /\ asked[activeCheck].said # "unasked" => asked[activeCheck].run = liveBot.run
      BY DEF LiveInv, CheckedInRun
  <1>2. c \in 1..Len(asked) /\ c # NoCheck /\ asked[c] \in Answers
    <2> HIDE DEF Answers
    <2>1. c \in 1..Len(asked) /\ c # NoCheck
        BY <1>1 DEF NoCheck
    <2>2. QED
        BY <1>1, <2>1, ElementOfSeq
  <1>3. CASE CheckAsked(c)
    <2> DEFINE answer == [said |-> liveBot.unit, run |-> liveBot.run]
    <2>1. /\ asked' = [asked EXCEPT ![c] = answer]
          /\ UNCHANGED <<liveNow, liveBot, activeReadAt, activeCheck, live, itemVars, pageVars, pressed>>
        BY <1>3 DEF CheckAsked
    <2>2. answer \in Answers /\ answer.run = liveBot.run
        BY DEF LiveInv, LiveTypes
    <2> HIDE DEF answer, Answers
    <2>3. asked' \in Seq(Answers) /\ Len(asked') = Len(asked) /\ asked'[c] = answer
          /\ \A k \in 1..Len(asked) : k # c => asked'[k] = asked[k]
        BY <1>1, <1>2, <2>1, <2>2
    <2>4. activeCheck # NoCheck => activeCheck \in 1..Len(asked)
        BY <1>1 DEF NoCheck
    <2>5. activeCheck # NoCheck /\ asked'[activeCheck].said # "unasked" => asked'[activeCheck].run = liveBot.run
        BY <1>1, <2>2, <2>3, <2>4
    <2>6. CheckedInRun'
        BY <1>1, <2>1, <2>3, <2>5 DEF CheckedInRun, Answers
    <2>7. LiveTypes'
        BY <2>1 DEF LiveInv, LiveTypes, itemVars, pageVars
    <2>8. Accounted'
      <3>1. live' = live /\ acted' = acted /\ audited' = audited /\ pressed' = pressed
          BY <2>1 DEF itemVars
      <3>2. QED
          BY <3>1 DEF LiveInv, Accounted, Count
    <2>9. QED
        BY <2>6, <2>7, <2>8 DEF LiveInv
  <1>4. ASSUME NEW lost \in BOOLEAN, CheckSettles(c, lost) PROVE LiveInv'
    <2> DEFINE answer == [asked[c] EXCEPT !.said = "settled"]
               Goes(q) == IF live[q].at # "waiting" \/ live[q].check # c THEN live[q]
                          ELSE IF ~lost /\ asked[c].said = "active" THEN [live[q] EXCEPT !.at = "handshake"] ELSE IdleCall
    <2>1. /\ asked' = [asked EXCEPT ![c] = answer]
          /\ activeReadAt' = IF ~lost /\ Remembered(c) THEN [at |-> liveNow, run |-> asked[c].run] ELSE activeReadAt
          /\ activeCheck' = IF activeCheck = c THEN NoCheck ELSE activeCheck
          /\ live' = [q \in LiveSlots |-> Goes(q)]
          /\ UNCHANGED <<liveNow, liveBot, itemVars, pageVars, pressed>>
        BY <1>4 DEF CheckSettles, Waits, LetThrough
    <2>2. answer \in Answers
        BY <1>2
    <2>3. ASSUME NEW q \in LiveSlots, CallFits(live[q]) PROVE CallFits(Goes(q))
      <3>1. CASE live[q].at # "waiting" \/ live[q].check # c
          BY <2>3, <3>1
      <3>2. CASE live[q].at = "waiting"
        <4>1. CallFits(IdleCall)
            BY DEF CallFits, IdleCall
        <4>2. CallFits([live[q] EXCEPT !.at = "handshake"])
            BY <2>3, <3>2 DEF CallFits, ClientStages, KindsAt
        <4>3. QED
            BY <2>3, <4>1, <4>2
      <3>3. QED
          BY <3>1, <3>2
    <2>4. \A q \in LiveSlots : Goes(q) # live[q] =>
             live[q].at = "waiting" /\ (CallFits(live[q]) => Goes(q).at \in {"handshake", "idle"})
        BY DEF CallFits, IdleCall
    <2> HIDE DEF answer, Answers, Goes
    <2>5. asked' \in Seq(Answers) /\ Len(asked') = Len(asked)
          /\ \A k \in 1..Len(asked) : k # c => asked'[k] = asked[k]
        BY <1>1, <1>2, <2>1, <2>2
    <2>6. activeCheck' \in 0..Len(asked) /\ (activeCheck' # NoCheck => activeCheck' = activeCheck /\ activeCheck' # c)
        BY <1>1, <2>1 DEF NoCheck
    <2>7. activeCheck' # NoCheck /\ asked'[activeCheck'].said # "unasked" => asked'[activeCheck'].run = liveBot.run
      <3>1. SUFFICES ASSUME activeCheck' # NoCheck, asked'[activeCheck'].said # "unasked"
                     PROVE  asked'[activeCheck'].run = liveBot.run
          OBVIOUS
      <3>2. activeCheck \in 1..Len(asked)
          BY <1>1, <2>6, <3>1 DEF NoCheck
      <3>3. asked'[activeCheck'] = asked[activeCheck]
          BY <2>5, <2>6, <3>1, <3>2
      <3>4. QED
          BY <1>1, <2>6, <3>1, <3>3
    <2>8. activeReadAt' \in [at : Nat, run : Nat] /\ (activeReadAt' # NotRead => activeReadAt'.run = liveBot.run)
      <3>1. CASE ~lost /\ Remembered(c)
        <4>1. asked[c].said = "active" /\ activeCheck = c
            BY <3>1 DEF Remembered
        <4>2. asked[c].run = liveBot.run
            BY <1>1, <1>2, <4>1
        <4>3. asked[c].run \in Nat
            BY <1>2 DEF Answers
        <4>4. activeReadAt' = [at |-> liveNow, run |-> asked[c].run]
            BY <2>1, <3>1
        <4>5. QED
            BY <1>1, <4>2, <4>3, <4>4
      <3>2. CASE ~(~lost /\ Remembered(c))
          BY <1>1, <2>1, <3>2
      <3>3. QED
          BY <3>1, <3>2
    <2>9. CheckedInRun'
        BY <1>1, <2>1, <2>5, <2>6, <2>7, <2>8 DEF CheckedInRun, Answers
    <2>10. acted' = acted /\ audited' = audited /\ pressed' = pressed /\ liveBot' = liveBot
           /\ consoleShows' = consoleShows /\ storedHistory' = storedHistory
        BY <2>1 DEF itemVars, pageVars
    <2>11. DOMAIN live' = LiveSlots /\ \A q \in LiveSlots : live'[q] = Goes(q) /\ CallFits(live[q]) /\ CallFits(live'[q])
        BY <2>1, <2>3 DEF LiveInv, LiveTypes
    <2>12. LiveTypes'
        BY <2>10, <2>11 DEF LiveInv, LiveTypes
    <2>13. \A q \in LiveSlots : live'[q] # live[q] => live[q].at = "waiting" /\ live'[q].at \in {"handshake", "idle"}
        BY <2>4, <2>11
    <2>14. ToAct(live') \subseteq ToAct(live)
      <3>1. ASSUME NEW q \in LiveSlots, live'[q].at \in ClientStages \cup {"send line"}
            PROVE  live[q].at \in ClientStages \cup {"send line"}
          BY <2>13, <3>1 DEF ClientStages
      <3>2. QED
          BY <3>1 DEF ToAct
    <2>15. \A kind : Acted(live', kind) = Acted(live, kind)
      <3>1. \A q \in LiveSlots : live'[q] = live[q] \/
                (live[q].at \notin {"answer", "record"} /\ live'[q].at \notin {"answer", "record"})
          BY <2>13
      <3>2. QED
          BY <3>1 DEF Acted
    <2>16. Accounted'
        BY <2>10, <2>14, <2>15, CallsShrink
    <2>17. QED
        BY <2>9, <2>12, <2>16 DEF LiveInv
  <1>5. QED
      BY <1>3, <1>4

-----------------------------------------------------------------------------
\* The client did what a call asked: one call less waits for it, one more waits to be recorded.
Does(r, kind, c) ==
    /\ kind \in {"drop", "hold", "command"} /\ live' = [live EXCEPT ![r] = c] /\ CallFits(c)
    /\ c.at \in {"answer", "record"} /\ c.kind = kind /\ r \in ToAct(live)
    /\ acted' = IF kind = "drop" THEN [acted EXCEPT !.dropped = acted.dropped + 1]
                ELSE IF kind = "hold" THEN [acted EXCEPT !.selected = acted.selected + 1]
                ELSE [acted EXCEPT !.sent = acted.sent + 1]
    /\ UNCHANGED <<liveBot, audited, consoleShows, storedHistory, pressed>>

LEMMA ActedOnce ==
    ASSUME LiveInv, NEW r \in LiveSlots, NEW kind, NEW c, Does(r, kind, c)
    PROVE  LiveTypes' /\ Accounted'
  <1>1. live' = [live EXCEPT ![r] = c] /\ kind \in {"drop", "hold", "command"}
      BY DEF Does
  <1>2. DOMAIN live' = LiveSlots /\ live'[r] = c /\ \A q \in LiveSlots : q # r => live'[q] = live[q]
      BY <1>1, CallMoves
  <1>3. OneApart(ToAct(live), ToAct(live'), r)
        /\ \A k \in {"drop", "hold", "command"} : OneApart(Acted(live, k), Acted(live', k), r)
      BY <1>1, CallMoves
  <1>4. live'[r].at \in {"answer", "record"} /\ live'[r].kind = kind
      BY <1>2 DEF Does
  <1>5. r \in ToAct(live) /\ r \notin ToAct(live') /\ r \in Acted(live', kind)
        /\ (\A k \in {"drop", "hold", "command"} : r \notin Acted(live, k))
        /\ \A k \in {"drop", "hold", "command"} : k # kind => r \notin Acted(live', k)
      BY <1>4 DEF ToAct, Acted, Does, ClientStages
  <1>6. acted' \in [dropped : Nat, selected : Nat, sent : Nat]
        /\ acted'.dropped = acted.dropped + (IF kind = "drop" THEN 1 ELSE 0)
        /\ acted'.selected = acted.selected + (IF kind = "hold" THEN 1 ELSE 0)
        /\ acted'.sent = acted.sent + (IF kind = "command" THEN 1 ELSE 0)
    <2>1. acted \in [dropped : Nat, selected : Nat, sent : Nat]
        BY DEF LiveInv, LiveTypes
    <2>2. QED
        BY <1>1, <2>1 DEF Does
  <1>7. audited' = audited /\ pressed' = pressed /\ consoleShows' = consoleShows /\ storedHistory' = storedHistory
        /\ liveBot' = liveBot
      BY DEF Does
  <1>8. LiveTypes'
    <2>1. \A q \in LiveSlots : CallFits(live'[q])
        BY <1>2 DEF LiveInv, LiveTypes, Does
    <2>2. QED
        BY <1>2, <1>6, <1>7, <2>1 DEF LiveInv, LiveTypes
  <1>9. Accounted'
    <2>1. /\ Count("drop") + Cardinality(Acted(live, "drop")) <= acted.dropped
          /\ Count("hold") + Cardinality(Acted(live, "hold")) <= acted.selected
          /\ Count("chat") + Count("masked") + Cardinality(Acted(live, "command")) <= acted.sent
          /\ acted.dropped + acted.selected + acted.sent + Cardinality(ToAct(live)) <= pressed
        BY DEF LiveInv, Accounted
    <2>2. IsFiniteSet(ToAct(live')) /\ Cardinality(ToAct(live')) \in Nat
          /\ Cardinality(ToAct(live)) = Cardinality(ToAct(live')) + 1
        BY <1>3, <1>5, OneLess
    <2>3. acted'.dropped + acted'.selected + acted'.sent = (acted.dropped + acted.selected + acted.sent) + 1
        BY <1>1, <1>6, Numbers
    <2>4. acted'.dropped + acted'.selected + acted'.sent + Cardinality(ToAct(live')) <= pressed
      <3>1. \A n, m, k \in Nat : n + (k + 1) <= m => (n + 1) + k <= m
          OBVIOUS
      <3>2. QED
          BY <2>1, <2>2, <2>3, <3>1, Numbers
    <2>5. \A k \in {"drop", "hold", "command"} :
            IsFiniteSet(Acted(live', k)) /\ Cardinality(Acted(live, k)) \in Nat
            /\ Cardinality(Acted(live', k)) = Cardinality(Acted(live, k)) + (IF k = kind THEN 1 ELSE 0)
        BY <1>3, <1>5 DEF OneApart
    <2>6. \A n, m, k, e \in Nat : n + k <= m => n + (k + e) <= m + e
        OBVIOUS
    <2>7. Count("drop") + Cardinality(Acted(live', "drop")) <= acted'.dropped
        BY <1>6, <2>1, <2>5, <2>6, Numbers
    <2>8. Count("hold") + Cardinality(Acted(live', "hold")) <= acted'.selected
        BY <1>6, <2>1, <2>5, <2>6, Numbers
    <2>9. Count("chat") + Count("masked") + Cardinality(Acted(live', "command")) <= acted'.sent
        BY <1>6, <2>1, <2>5, <2>6, Numbers
    <2>10. Count("drop")' = Count("drop") /\ Count("hold")' = Count("hold") /\ Count("chat")' = Count("chat")
          /\ Count("masked")' = Count("masked")
        BY <1>7 DEF Count
    <2>11. QED
        BY <1>7, <2>2, <2>4, <2>5, <2>7, <2>8, <2>9, <2>10 DEF Accounted
  <1>10. QED
      BY <1>8, <1>9

LEMMA CallsAct ==
    ASSUME LiveInv, NEW r \in LiveSlots, Handshake(r) \/ ClientActs(r) \/ LineSent(r)
    PROVE  LiveInv'
  <1> DEFINE c == live[r]
             at(stage) == [live[r] EXCEPT !.at = stage]
  <1>1. UNCHANGED <<liveNow, liveBot, activeVars, pageVars, audited, pressed>>
      BY DEF Handshake, ClientActs, LineSent, itemVars
  <1>2. CheckedInRun'
      BY <1>1, StillChecked DEF LiveInv, CheckedInRun
  <1>3. CallFits(c)
      BY DEF LiveInv, LiveTypes
  <1>4. c.at \in {"handshake", "call"} =>
            /\ r \in ToAct(live) /\ c.kind \in {"read", "drop", "hold"}
            /\ CallFits(at("call")) /\ at("call").at = "call"
            /\ CallFits(at("answer")) /\ at("answer").at = "answer" /\ at("answer").kind = c.kind
      BY <1>3 DEF CallFits, ClientStages, KindsAt, ToAct
  <1>5. c.at = "send line" =>
            /\ r \in ToAct(live) /\ c.kind = "command"
            /\ Sendable(c.command) => CallFits(at("record")) /\ at("record").at = "record" /\ at("record").kind = "command"
      BY <1>3 DEF CallFits, ClientStages, KindsAt, ToAct
  <1>6. CallFits(IdleCall) /\ IdleCall.at = "idle"
      BY DEF CallFits, IdleCall
  <1>7. ASSUME live' = EndLive(r), acted' = acted, UNCHANGED <<items, held>> PROVE LiveTypes' /\ Accounted'
    <2>1. live'[r] = IdleCall
        BY <1>7, CallMoves DEF EndLive
    <2>2. \A kind : r \notin Acted(live', kind)
        BY <1>6, <2>1 DEF Acted
    <2>3. GoesOn(r, IdleCall)
        BY <1>1, <1>6, <1>7, <2>2 DEF GoesOn, EndLive, pageVars, ClientStages
    <2>4. QED
        BY <2>3, CallGoesOn
  <1>8. CASE Handshake(r)
    <2>1. c.at = "handshake" /\ (live' = [live EXCEPT ![r] = at("call")] \/ live' = EndLive(r)) /\ UNCHANGED itemVars
        BY <1>8 DEF Handshake
    <2>2. CASE live' = [live EXCEPT ![r] = at("call")]
      <3>1. live'[r] = at("call")
          BY <2>2, CallMoves
      <3> HIDE DEF at
      <3>2. \A kind : r \notin Acted(live', kind)
          BY <1>4, <2>1, <3>1 DEF Acted
      <3>3. GoesOn(r, at("call"))
          BY <1>1, <1>4, <2>1, <2>2, <3>2 DEF GoesOn, itemVars, pageVars
      <3>4. LiveTypes' /\ Accounted'
          BY <3>3, CallGoesOn
      <3>5. QED
          BY <1>2, <3>4 DEF LiveInv
    <2>3. QED
        BY <1>2, <1>7, <2>1, <2>2 DEF LiveInv, itemVars
  <1>9. CASE LineSent(r)
    <2>1. c.at = "send line" /\ UNCHANGED <<items, held>>
          /\ \/ Sendable(c.command) /\ acted' = [acted EXCEPT !.sent = acted.sent + 1] /\ live' = [live EXCEPT ![r] = at("record")]
             \/ live' = EndLive(r) /\ acted' = acted
        BY <1>9 DEF LineSent
    <2>2. CASE Sendable(c.command) /\ acted' = [acted EXCEPT !.sent = acted.sent + 1] /\ live' = [live EXCEPT ![r] = at("record")]
      <3> HIDE DEF at
      <3>1. Does(r, "command", at("record"))
          BY <1>1, <1>5, <2>1, <2>2 DEF Does, pageVars
      <3>2. QED
          BY <1>2, <3>1, ActedOnce DEF LiveInv
    <2>3. QED
        BY <1>2, <1>7, <2>1, <2>2 DEF LiveInv
  <1>10. CASE ClientActs(r)
    <2> DEFINE seen == [at |-> "answer", kind |-> "read", inventory |-> InventoryFrom(items)]
    <2>1. c.at = "call"
          /\ \/ live' = [live EXCEPT ![r] = seen] /\ UNCHANGED <<items, held, acted>>
             \/ c.kind = "drop" /\ acted' = [acted EXCEPT !.dropped = acted.dropped + 1] /\ live' = [live EXCEPT ![r] = at("answer")]
             \/ c.kind = "hold" /\ acted' = [acted EXCEPT !.selected = acted.selected + 1] /\ live' = [live EXCEPT ![r] = at("answer")]
             \/ live' = EndLive(r) /\ UNCHANGED <<items, held, acted>>
        BY <1>10 DEF ClientActs
    <2>2. CASE live' = [live EXCEPT ![r] = seen] /\ UNCHANGED <<items, held, acted>>
      <3>1. CallFits(seen) /\ seen.at = "answer" /\ seen.kind = "read"
          BY DEF CallFits, KindsAt
      <3> HIDE DEF seen
      <3>2. live'[r] = seen
          BY <2>2, CallMoves
      <3>3. \A kind \in {"drop", "hold", "command"} : r \notin Acted(live', kind)
          BY <3>1, <3>2 DEF Acted
      <3>4. GoesOn(r, seen)
          BY <1>1, <2>2, <3>1, <3>3 DEF GoesOn, pageVars, ClientStages
      <3>5. QED
          BY <1>2, <3>4, CallGoesOn DEF LiveInv
    <2>3. CASE c.kind = "drop" /\ acted' = [acted EXCEPT !.dropped = acted.dropped + 1] /\ live' = [live EXCEPT ![r] = at("answer")]
      <3> HIDE DEF at
      <3>1. Does(r, "drop", at("answer"))
          BY <1>1, <1>4, <2>1, <2>3 DEF Does, pageVars
      <3>2. QED
          BY <1>2, <3>1, ActedOnce DEF LiveInv
    <2>4. CASE c.kind = "hold" /\ acted' = [acted EXCEPT !.selected = acted.selected + 1] /\ live' = [live EXCEPT ![r] = at("answer")]
      <3> HIDE DEF at
      <3>1. Does(r, "hold", at("answer"))
          BY <1>1, <1>4, <2>1, <2>4 DEF Does, pageVars
      <3>2. QED
          BY <1>2, <3>1, ActedOnce DEF LiveInv
    <2>5. QED
        BY <1>2, <1>7, <2>1, <2>2, <2>3, <2>4 DEF LiveInv
  <1>11. QED
      BY <1>8, <1>9, <1>10

-----------------------------------------------------------------------------
LEMMA CallAnswers ==
    ASSUME LiveInv, NEW r \in LiveSlots, LiveLost(r) \/ \E b \in Bodies : LiveAnswers(r, b)
    PROVE  LiveInv'
  <1> DEFINE recorded == [live[r] EXCEPT !.at = "record"]
  <1>1. UNCHANGED <<liveNow, liveBot, activeVars, items, held, acted, audited, storedHistory, pressed>>
        /\ live[r].at \in {"call", "answer", "send line", "record"}
        /\ (consoleShows' = consoleShows \/ ("history" \in DOMAIN consoleShows' /\ consoleShows'.history = consoleShows.history))
        /\ (live' = EndLive(r) \/ (live' = [live EXCEPT ![r] = recorded] /\ live[r].at = "answer" /\ live[r].kind # "read"))
    <2>1. CASE LiveLost(r)
        BY <2>1 DEF LiveLost, itemVars, pageVars
    <2>2. ASSUME NEW b \in Bodies, LiveAnswers(r, b)
          PROVE  /\ UNCHANGED <<liveNow, liveBot, activeVars, items, held, acted, audited, storedHistory, pressed>>
                 /\ live[r].at \in {"call", "answer", "send line", "record"}
                 /\ (consoleShows' = consoleShows
                       \/ ("history" \in DOMAIN consoleShows' /\ consoleShows'.history = consoleShows.history))
                 /\ (live' = EndLive(r) \/ (live' = [live EXCEPT ![r] = recorded] /\ live[r].at = "answer" /\ live[r].kind # "read"))
      <3>1. UNCHANGED <<liveNow, liveBot, activeVars, items, held, acted, storedHistory, pressed>> /\ audited' = audited
            /\ live[r].at = "answer"
          BY <2>2 DEF LiveAnswers
      <3>2. \/ consoleShows' = consoleShows
            \/ consoleShows' = [consoleShows EXCEPT !.inventory = live[r].inventory]
          BY <2>2 DEF LiveAnswers
      <3>3. consoleShows' = consoleShows \/ ("history" \in DOMAIN consoleShows' /\ consoleShows'.history = consoleShows.history)
          BY <3>2 DEF LiveInv, LiveTypes
      <3>4. live' = EndLive(r) \/ (live' = [live EXCEPT ![r] = recorded] /\ live[r].kind # "read")
          BY <2>2 DEF LiveAnswers
      <3>5. QED
          BY <3>1, <3>3, <3>4
    <2>3. QED
        BY <2>1, <2>2
  <1>2. CheckedInRun'
      BY <1>1, StillChecked DEF LiveInv, CheckedInRun
  <1>3. CallFits(live[r])
      BY DEF LiveInv, LiveTypes
  <1>4. CASE live' = EndLive(r)
    <2>1. CallFits(IdleCall) /\ IdleCall.at = "idle"
        BY DEF CallFits, IdleCall
    <2>2. live'[r] = IdleCall
        BY <1>4, CallMoves DEF EndLive
    <2>3. GoesOn(r, IdleCall)
        BY <1>1, <1>4, <2>1, <2>2 DEF GoesOn, EndLive, Acted, ClientStages
    <2>4. QED
        BY <1>2, <2>3, CallGoesOn DEF LiveInv
  <1>5. CASE live' = [live EXCEPT ![r] = recorded] /\ live[r].at = "answer" /\ live[r].kind # "read"
    <2>1. CallFits(recorded) /\ recorded.at = "record" /\ recorded.kind = live[r].kind
        BY <1>3, <1>5 DEF CallFits, ClientStages, KindsAt
    <2> HIDE DEF recorded
    <2>2. live'[r] = recorded
        BY <1>5, CallMoves
    <2>3. \A kind : r \in Acted(live', kind) => r \in Acted(live, kind)
        BY <1>5, <2>1, <2>2 DEF Acted
    <2>4. GoesOn(r, recorded)
        BY <1>1, <1>5, <2>1, <2>3 DEF GoesOn, ClientStages
    <2>5. QED
        BY <1>2, <2>4, CallGoesOn DEF LiveInv
  <1>6. QED
      BY <1>1, <1>4, <1>5

LEMMA RecordingCounts == ASSUME LiveInv, NEW r \in LiveSlots, ActionRecorded(r) \/ CommandRecorded(r) PROVE LiveInv'
  <1> DEFINE c == live[r]
             note == IF c.kind = "command" THEN Redacted(c.command) ELSE c.kind
  <1>1. /\ c.at = "record" /\ audited' = Append(audited, note) /\ live' = EndLive(r)
        /\ UNCHANGED <<liveNow, liveBot, activeVars, items, held, acted, pressed>>
        /\ IF c.kind = "command" /\ consoleShows.open
           THEN consoleShows' = [consoleShows EXCEPT !.history = RememberCommand(consoleShows.history, c.command)]
                /\ storedHistory' = RememberCommand(consoleShows.history, c.command)
           ELSE UNCHANGED <<pageVars>>
    <2>1. CASE ActionRecorded(r)
        BY <2>1 DEF ActionRecorded
    <2>2. CASE CommandRecorded(r)
        BY <2>2 DEF CommandRecorded
    <2>3. QED
        BY <2>1, <2>2
  <1>2. CallFits(c)
      BY DEF LiveInv, LiveTypes
  <1>3. c.kind \in {"drop", "hold", "command"}
        /\ (c.kind = "command" => c.command \in Commands /\ Sendable(c.command))
      BY <1>1, <1>2 DEF CallFits, KindsAt
  <1>4. note \in Entries /\ (c.kind = "command" => note \in {"chat", "masked"}) /\ (c.kind # "command" => note = c.kind)
      BY <1>3 DEF Entries, Redacted, CarriesSecret, Sendable, Commands
  <1>5. CheckedInRun'
      BY <1>1, StillChecked DEF LiveInv, CheckedInRun
  <1>6. live' = [live EXCEPT ![r] = IdleCall]
      BY <1>1 DEF EndLive
  <1>7. DOMAIN live' = LiveSlots /\ live'[r] = IdleCall /\ \A q \in LiveSlots : q # r => live'[q] = live[q]
      BY <1>6, CallMoves
  <1>8. OneApart(ToAct(live), ToAct(live'), r)
        /\ \A k \in {"drop", "hold", "command"} : OneApart(Acted(live, k), Acted(live', k), r)
      BY <1>6, CallMoves
  <1>9. CallFits(IdleCall) /\ IdleCall.at = "idle"
      BY DEF CallFits, IdleCall
  <1> HIDE DEF note
  <1>10. audited \in Seq(Entries) /\ audited' \in Seq(Entries)
      BY <1>1, <1>4 DEF LiveInv, LiveTypes
  <1>11. "history" \in DOMAIN consoleShows' /\ consoleShows'.history \in Seq(Harmless) /\ storedHistory' \in Seq(Harmless)
    <2>1. "history" \in DOMAIN consoleShows /\ consoleShows.history \in Seq(Harmless) /\ storedHistory \in Seq(Harmless)
        BY DEF LiveInv, LiveTypes
    <2>2. CASE c.kind = "command" /\ consoleShows.open
      <3>1. RememberCommand(consoleShows.history, c.command) \in Seq(Harmless)
          BY <1>3, <2>1, <2>2, HistoryHarmless
      <3>2. consoleShows' = [consoleShows EXCEPT !.history = RememberCommand(consoleShows.history, c.command)]
            /\ storedHistory' = RememberCommand(consoleShows.history, c.command)
          BY <1>1, <2>2
      <3>3. QED
          BY <2>1, <3>1, <3>2
    <2>3. CASE ~(c.kind = "command" /\ consoleShows.open)
        BY <1>1, <2>1, <2>3 DEF pageVars
    <2>4. QED
        BY <2>2, <2>3
  <1>12. LiveTypes'
    <2>1. \A q \in LiveSlots : CallFits(live'[q])
        BY <1>7, <1>9 DEF LiveInv, LiveTypes
    <2>2. QED
        BY <1>1, <1>7, <1>10, <1>11, <2>1 DEF LiveInv, LiveTypes
  <1>13. Accounted'
    <2>1. /\ Count("drop") + Cardinality(Acted(live, "drop")) <= acted.dropped
          /\ Count("hold") + Cardinality(Acted(live, "hold")) <= acted.selected
          /\ Count("chat") + Count("masked") + Cardinality(Acted(live, "command")) <= acted.sent
          /\ acted.dropped + acted.selected + acted.sent + Cardinality(ToAct(live)) <= pressed
        BY DEF LiveInv, Accounted
    <2>2. r \notin ToAct(live') /\ \A k \in {"drop", "hold", "command"} : r \notin Acted(live', k) /\ (r \in Acted(live, k) <=> k = c.kind)
        BY <1>1, <1>7, <1>9 DEF ToAct, Acted, ClientStages
    <2>3. IsFiniteSet(ToAct(live')) /\ acted.dropped + acted.selected + acted.sent + Cardinality(ToAct(live')) <= pressed
        BY <1>8, <2>1, <2>2, Numbers, FitsStill
    <2>4. \A k \in {"drop", "hold", "command"} :
            IsFiniteSet(Acted(live', k)) /\ Cardinality(Acted(live', k)) \in Nat
            /\ Cardinality(Acted(live, k)) = Cardinality(Acted(live', k)) + (IF k = c.kind THEN 1 ELSE 0)
        BY <1>8, <2>2 DEF OneApart
    <2>5. \A what : Count(what) \in Nat /\ Count(what)' \in Nat /\ Count(what)' = Count(what) + IF note = what THEN 1 ELSE 0
        BY <1>1, <1>10, CountOne
    <2>6. Count("drop")' + Cardinality(Acted(live', "drop")) <= acted.dropped
        BY <1>3, <1>4, <2>1, <2>4, <2>5, Numbers
    <2>7. Count("hold")' + Cardinality(Acted(live', "hold")) <= acted.selected
        BY <1>3, <1>4, <2>1, <2>4, <2>5, Numbers
    <2>8. Count("chat")' + Count("masked")' + Cardinality(Acted(live', "command")) <= acted.sent
        BY <1>3, <1>4, <2>1, <2>4, <2>5, Numbers
    <2>9. QED
        BY <1>1, <2>3, <2>4, <2>6, <2>7, <2>8 DEF Accounted
  <1>14. QED
      BY <1>5, <1>12, <1>13 DEF LiveInv

\* The bot is stopped and started, the player picks things up, time passes and somebody signs out.
LEMMA BesideCalls ==
    ASSUME LiveInv, UnitStops \/ ForgetActive \/ UnitStarts \/ (\E s \in ItemSlots : PickUp(s))
                    \/ SignOutClears \/ SignOutLeaves \/ LiveTick
    PROVE  LiveInv'
  <1>1. UNCHANGED <<live, acted, audited, pressed>>
      BY DEF UnitStops, ForgetActive, UnitStarts, PickUp, SignOutClears, SignOutLeaves, LiveTick, itemVars
  <1>2. Accounted'
      BY <1>1 DEF LiveInv, Accounted, Count
  <1>3. /\ liveBot \in [unit : {"active", "inactive"}, status : {"running", "stopped"}, run : Nat]
        /\ liveNow \in Nat /\ "history" \in DOMAIN consoleShows
        /\ consoleShows.history \in Seq(Harmless) /\ storedHistory \in Seq(Harmless)
      BY DEF LiveInv, LiveTypes, CheckedInRun
  <1>4. liveBot' \in [unit : {"active", "inactive"}, status : {"running", "stopped"}, run : Nat] /\ liveNow' \in Nat
    <2>1. CASE UnitStops
        BY <1>3, <2>1 DEF UnitStops
    <2>2. CASE ForgetActive
      <3>1. liveNow' = liveNow /\ liveBot' = [liveBot EXCEPT !.status = "stopped", !.run = liveBot.run + 1]
          BY <2>2 DEF ForgetActive
      <3>2. liveBot.run + 1 \in Nat
          BY <1>3
      <3>3. QED
          BY <1>3, <3>1, <3>2
    <2>3. CASE UnitStarts
        BY <1>3, <2>3 DEF UnitStarts
    <2>4. CASE (\E s \in ItemSlots : PickUp(s)) \/ SignOutClears \/ SignOutLeaves \/ LiveTick
      <3>1. liveBot' = liveBot /\ (liveNow' = liveNow \/ liveNow' = liveNow + 1)
          BY <2>4 DEF PickUp, SignOutClears, SignOutLeaves, LiveTick
      <3>2. QED
          BY <1>3, <3>1
    <2>5. QED
        BY <2>1, <2>2, <2>3, <2>4
  <1>5. "history" \in DOMAIN consoleShows' /\ consoleShows'.history \in Seq(Harmless) /\ storedHistory' \in Seq(Harmless)
    <2>1. <<>> \in Seq(Harmless)
        OBVIOUS
    <2>2. QED
        BY <1>3, <2>1 DEF UnitStops, ForgetActive, UnitStarts, PickUp, SignOutClears, SignOutLeaves, LiveTick, pageVars
  <1>6. LiveTypes'
      BY <1>1, <1>4, <1>5 DEF LiveInv, LiveTypes
  <1>7. CheckedInRun'
    <2>1. CASE ForgetActive
      <3>1. activeReadAt' = NotRead /\ activeCheck' = NoCheck /\ asked' = asked /\ liveNow' = liveNow
          BY <2>1 DEF ForgetActive
      <3>2. NotRead \in [at : Nat, run : Nat] /\ NoCheck \in 0..Len(asked)
          BY DEF NotRead, NoCheck, LiveInv, CheckedInRun
      <3>3. QED
          BY <3>1, <3>2 DEF LiveInv, CheckedInRun
    <2>2. CASE ~ForgetActive
      <3>1. liveBot'.run = liveBot.run /\ UNCHANGED activeVars
          BY <1>3, <2>2 DEF UnitStops, UnitStarts, PickUp, SignOutClears, SignOutLeaves, LiveTick
      <3>2. QED
          BY <1>4, <3>1 DEF LiveInv, CheckedInRun, activeVars
    <2>3. QED
        BY <2>1, <2>2
  <1>8. QED
      BY <1>2, <1>6, <1>7 DEF LiveInv

LEMMA LiveBegins == LiveInit => LiveInv
  <1> SUFFICES ASSUME LiveInit PROVE LiveInv
      OBVIOUS
  <1> USE DEF LiveInit
  <1>1. DOMAIN live = LiveSlots /\ \A r \in LiveSlots : live[r] = IdleCall
      OBVIOUS
  <1>2. CallFits(IdleCall) /\ IdleCall.at = "idle"
      BY DEF CallFits, IdleCall
  <1>3. LiveTypes
    <2>1. <<>> \in Seq(Harmless) /\ <<>> \in Seq(Entries)
        OBVIOUS
    <2>2. "history" \in DOMAIN consoleShows /\ consoleShows.history = <<>> /\ storedHistory = <<>> /\ audited = <<>> /\ pressed = 0
        OBVIOUS
    <2>3. liveBot \in [unit : {"active", "inactive"}, status : {"running", "stopped"}, run : Nat]
          /\ acted \in [dropped : Nat, selected : Nat, sent : Nat]
        OBVIOUS
    <2>4. \A r \in LiveSlots : CallFits(live[r])
        BY <1>1, <1>2
    <2>5. QED
        BY <1>1, <2>1, <2>2, <2>3, <2>4 DEF LiveTypes
  <1>4. CheckedInRun
    <2>1. <<>> \in Seq([said : {"unasked", "active", "inactive", "settled"}, run : Nat]) /\ Len(<<>>) = 0
        OBVIOUS
    <2>2. QED
        BY <2>1 DEF CheckedInRun, NotRead, NoCheck
  <1>5. ToAct(live) = {} /\ \A kind : Acted(live, kind) = {}
      BY <1>1, <1>2 DEF ToAct, Acted, ClientStages
  <1>6. \A what : Count(what) = 0
    <2>1. \A what : {i \in DOMAIN audited : audited[i] = what} = {}
        OBVIOUS
    <2>2. QED
        BY <2>1, FS_EmptySet DEF Count
  <1>7. Accounted
    <2>1. Cardinality({}) = 0 /\ IsFiniteSet({})
        BY FS_EmptySet
    <2>2. Cardinality(ToAct(live)) = 0 /\ IsFiniteSet(ToAct(live))
          /\ \A kind : Cardinality(Acted(live, kind)) = 0 /\ IsFiniteSet(Acted(live, kind))
        BY <1>5, <2>1
    <2>3. acted.dropped = 0 /\ acted.selected = 0 /\ acted.sent = 0 /\ pressed = 0
        OBVIOUS
    <2>4. QED
        BY <1>6, <2>2, <2>3 DEF Accounted
  <1>8. QED
      BY <1>3, <1>4, <1>7 DEF LiveInv

LEMMA LiveStep == LiveInv /\ [LiveNext]_liveVars => LiveInv'
  <1>1. ASSUME LiveInv, LiveNext PROVE LiveInv'
      BY <1>1, PressesCount, RequiresRunning, ChecksSettle, CallsAct, CallAnswers, RecordingCounts, BesideCalls DEF LiveNext
  <1>2. ASSUME LiveInv, UNCHANGED liveVars PROVE LiveInv'
    <2>1. UNCHANGED <<liveNow, liveBot, live, activeReadAt, activeCheck, asked, acted, audited, consoleShows, storedHistory, pressed>>
        BY <1>2 DEF liveVars, activeVars, itemVars, pageVars
    <2>2. LiveTypes' /\ CheckedInRun'
        BY <1>2, <2>1 DEF LiveInv, LiveTypes, CheckedInRun
    <2>3. Accounted'
        BY <1>2, <2>1 DEF LiveInv, Accounted, Count
    <2>4. QED
        BY <2>2, <2>3 DEF LiveInv
  <1>3. QED
      BY <1>1, <1>2

-----------------------------------------------------------------------------
\* What a call was let through on, or will be: a check it waits for was asked in the run it came in, or later.
Passes(c, p) ==
    /\ c.at = "require running" => "check" \in DOMAIN c
    /\ c.at = "waiting" =>
           /\ c.check \in DOMAIN asked /\ p.since <= liveBot.run
           /\ asked[c.check].said # "unasked" => asked[c.check].run >= p.since
    /\ c.at \in {"handshake", "call"} => p.on >= p.since

PassedInRun ==
    /\ passed \in [LiveSlots -> [since : Nat, on : Nat]]
    /\ \A r \in LiveSlots : Passes(live[r], passed[r])

LEMMA RunsGrow ==
    /\ \A n, m, k \in Nat : n <= m /\ k >= m => n <= k
    /\ \A n \in Nat : n <= n /\ n >= n /\ n + 1 \in Nat /\ n + 1 >= n
  OBVIOUS

\* A step that asks no check and lets no call through.
LEMMA PassesKept ==
    ASSUME LiveInv, PassedInRun, UNCHANGED <<asked, passed>>, liveBot'.run \in Nat, liveBot'.run >= liveBot.run,
           \A q \in LiveSlots : \/ live'[q] = live[q]
                                \/ live'[q].at \notin {"require running", "waiting", "handshake", "call"}
                                \/ live'[q].at = "require running" /\ "check" \in DOMAIN live'[q]
                                \/ live'[q].at = "call" /\ live[q].at = "handshake"
    PROVE  PassedInRun'
  <1>1. liveBot.run \in Nat
      BY DEF LiveInv, LiveTypes
  <1>2. ASSUME NEW q \in LiveSlots PROVE Passes(live[q], passed[q])'
    <2>1. Passes(live[q], passed[q]) /\ passed[q].since \in Nat
        BY DEF PassedInRun
    <2>2. CASE live'[q] = live[q]
      <3>1. passed'[q] = passed[q] /\ asked' = asked
          OBVIOUS
      <3>2. live[q].at = "waiting" => passed[q].since <= liveBot'.run
          BY <1>1, <2>1, RunsGrow, Zenon DEF Passes
      <3>3. QED
          BY <2>1, <2>2, <3>1, <3>2 DEF Passes
    <2>3. CASE live'[q].at \notin {"require running", "waiting", "handshake", "call"}
        BY <2>3 DEF Passes
    <2>4. CASE live'[q].at = "require running" /\ "check" \in DOMAIN live'[q]
        BY <2>4 DEF Passes
    <2>5. CASE live'[q].at = "call" /\ live[q].at = "handshake"
        BY <2>1, <2>5 DEF Passes
    <2>6. QED
        BY <2>2, <2>3, <2>4, <2>5
  <1>3. QED
      BY <1>2 DEF PassedInRun

LEMMA PassesRequired ==
    ASSUME LiveInv, PassedInRun, NEW r \in LiveSlots, RequireRunning(r)
    PROVE  PassedInRun'
  <1> DEFINE Answers == [said : {"unasked", "active", "inactive", "settled"}, run : Nat]
             fresh == Len(asked) + 1
             check == IF activeCheck = NoCheck THEN fresh ELSE activeCheck
  <1>1. liveBot.run \in Nat /\ liveBot' = liveBot /\ live[r].at = "require running"
      BY DEF LiveInv, LiveTypes, RequireRunning
  <1>2. /\ asked \in Seq(Answers) /\ activeCheck \in 0..Len(asked) /\ Len(asked) \in Nat /\ DOMAIN asked = 1..Len(asked)
        /\ activeReadAt \in [at : Nat, run : Nat]
        /\ activeReadAt # NotRead => activeReadAt.run = liveBot.run
        /\ activeCheck # NoCheck /\ asked[activeCheck].said # "unasked" => asked[activeCheck].run = liveBot.run
      BY DEF LiveInv, CheckedInRun
  <1>3. CASE RecentlyActive
    <2> DEFINE pass == [since |-> liveBot.run, on |-> activeReadAt.run]
    <2>1. /\ live' = [live EXCEPT ![r].at = "handshake"] /\ passed' = [passed EXCEPT ![r] = pass] /\ asked' = asked
        BY <1>3 DEF RequireRunning
    <2>2. pass \in [since : Nat, on : Nat] /\ pass.on = pass.since
        BY <1>1, <1>2, <1>3 DEF RecentlyActive
    <2>3. live'[r].at = "handshake" /\ \A q \in LiveSlots : q # r => live'[q] = live[q]
        BY <1>1, <2>1 DEF LiveInv, LiveTypes, CallFits
    <2> HIDE DEF pass
    <2>4. passed' \in [LiveSlots -> [since : Nat, on : Nat]] /\ passed'[r] = pass
          /\ \A q \in LiveSlots : q # r => passed'[q] = passed[q]
        BY <2>1, <2>2 DEF PassedInRun
    <2>5. Passes(live[r], passed[r])'
        BY <2>2, <2>3, <2>4 DEF Passes
    <2>6. \A q \in LiveSlots : q # r => Passes(live[q], passed[q])'
        BY <1>1, <2>1, <2>3, <2>4 DEF Passes, PassedInRun
    <2>7. QED
        BY <2>4, <2>5, <2>6 DEF PassedInRun
  <1>4. CASE ~RecentlyActive
    <2> DEFINE pass == [since |-> liveBot.run, on |-> 0]
    <2>1. /\ live' = [live EXCEPT ![r].at = "waiting", ![r].check = check] /\ passed' = [passed EXCEPT ![r] = pass]
          /\ asked' = IF check = fresh THEN Append(asked, [said |-> "unasked", run |-> 0]) ELSE asked
        BY <1>4 DEF RequireRunning
    <2>2. pass \in [since : Nat, on : Nat] /\ pass.since = liveBot.run
        BY <1>1
    <2>3. live'[r].at = "waiting" /\ live'[r].check = check /\ \A q \in LiveSlots : q # r => live'[q] = live[q]
        BY <1>1, <2>1 DEF LiveInv, LiveTypes, CallFits, PassedInRun, Passes
    <2> HIDE DEF pass
    <2>4. passed' \in [LiveSlots -> [since : Nat, on : Nat]] /\ passed'[r] = pass
          /\ \A q \in LiveSlots : q # r => passed'[q] = passed[q]
        BY <2>1, <2>2 DEF PassedInRun
    <2>5. /\ DOMAIN asked \subseteq DOMAIN asked' /\ \A k \in DOMAIN asked : asked'[k] = asked[k]
          /\ check \in DOMAIN asked' /\ (asked'[check].said # "unasked" => asked'[check].run = liveBot.run)
      <3>1. CASE check = fresh
        <4>1. asked' = Append(asked, [said |-> "unasked", run |-> 0])
            BY <2>1, <3>1
        <4>2. DOMAIN asked' = 1..fresh /\ asked'[fresh] = [said |-> "unasked", run |-> 0]
              /\ \A k \in 1..Len(asked) : asked'[k] = asked[k]
            BY <1>2, <4>1
        <4>3. fresh \in 1..fresh /\ 1..Len(asked) \subseteq 1..fresh
            BY <1>2
        <4>4. QED
            BY <1>2, <3>1, <4>2, <4>3
      <3>2. CASE check # fresh
        <4>1. asked' = asked /\ check = activeCheck /\ activeCheck # NoCheck
            BY <2>1, <3>2
        <4>2. QED
            BY <1>2, <4>1 DEF NoCheck
      <3>3. QED
          BY <3>1, <3>2
    <2> HIDE DEF check
    <2>6. Passes(live[r], passed[r])'
      <3>1. passed'[r].since = liveBot.run /\ passed'[r].since <= liveBot'.run
          BY <1>1, <2>2, <2>4, RunsGrow, Zenon
      <3>2. asked'[check].said # "unasked" => asked'[check].run >= passed'[r].since
          BY <1>1, <2>5, <3>1, RunsGrow, Zenon
      <3>3. QED
          BY <2>3, <2>5, <3>1, <3>2 DEF Passes
    <2>7. ASSUME NEW q \in LiveSlots, q # r PROVE Passes(live[q], passed[q])'
      <3>1. Passes(live[q], passed[q]) /\ live'[q] = live[q] /\ passed'[q] = passed[q]
          BY <2>3, <2>4, <2>7 DEF PassedInRun
      <3>2. QED
          BY <1>1, <2>5, <3>1 DEF Passes
    <2>8. QED
        BY <2>4, <2>6, <2>7 DEF PassedInRun
  <1>5. QED
      BY <1>3, <1>4

LEMMA PassesSettled ==
    ASSUME LiveInv, PassedInRun, NEW c \in DOMAIN asked, CheckAsked(c) \/ \E lost \in BOOLEAN : CheckSettles(c, lost)
    PROVE  PassedInRun'
  <1>1. /\ liveBot.run \in Nat /\ liveBot' = liveBot /\ DOMAIN asked' = DOMAIN asked
        /\ \A k \in DOMAIN asked : k # c => asked'[k] = asked[k]
      BY DEF LiveInv, LiveTypes, CheckAsked, CheckSettles
  <1>2. CASE CheckAsked(c)
    <2>1. asked' = [asked EXCEPT ![c] = [said |-> liveBot.unit, run |-> liveBot.run]] /\ live' = live /\ passed' = passed
        BY <1>2 DEF CheckAsked
    <2>2. asked'[c].run = liveBot.run
        BY <2>1
    <2>3. ASSUME NEW q \in LiveSlots PROVE Passes(live[q], passed[q])'
      <3>1. Passes(live[q], passed[q]) /\ passed[q].since \in Nat
          BY DEF PassedInRun
      <3>2. CASE live[q].at = "waiting" /\ live[q].check = c
          BY <1>1, <2>1, <2>2, <3>1, <3>2 DEF Passes
      <3>3. CASE ~(live[q].at = "waiting" /\ live[q].check = c)
          BY <1>1, <2>1, <3>1, <3>3 DEF Passes
      <3>4. QED
          BY <3>2, <3>3
    <2>4. QED
        BY <2>1, <2>3 DEF PassedInRun
  <1>3. ASSUME NEW lost \in BOOLEAN, CheckSettles(c, lost) PROVE PassedInRun'
    <2>1. /\ \A q \in LiveSlots : live'[q] = IF ~Waits(q, c) THEN live[q]
                                     ELSE IF LetThrough(c, lost) THEN [live[q] EXCEPT !.at = "handshake"] ELSE IdleCall
          /\ passed' = [q \in LiveSlots |->
                IF Waits(q, c) /\ LetThrough(c, lost) THEN [passed[q] EXCEPT !.on = asked[c].run] ELSE passed[q]]
        BY <1>3 DEF CheckSettles
    <2>2. asked[c].run \in Nat
      <3> DEFINE Answers == [said : {"unasked", "active", "inactive", "settled"}, run : Nat]
      <3> HIDE DEF Answers
      <3>1. asked \in Seq(Answers)
          BY DEF LiveInv, CheckedInRun, Answers
      <3>2. asked[c] \in Answers
          BY <3>1, ElementOfSeq
      <3>3. QED
          BY <3>2 DEF Answers
    <2>3. ASSUME NEW q \in LiveSlots PROVE passed'[q] \in [since : Nat, on : Nat] /\ Passes(live[q], passed[q])'
      <3>1. Passes(live[q], passed[q]) /\ passed[q] \in [since : Nat, on : Nat] /\ CallFits(live[q])
          BY DEF PassedInRun, LiveInv, LiveTypes
      <3>2. CASE ~Waits(q, c)
        <4>1. live'[q] = live[q] /\ passed'[q] = passed[q]
            BY <2>1, <3>2
        <4>2. QED
            BY <1>1, <3>1, <3>2, <4>1 DEF Passes, Waits
      <3>3. CASE Waits(q, c) /\ LetThrough(c, lost)
        <4>1. live'[q] = [live[q] EXCEPT !.at = "handshake"] /\ passed'[q] = [passed[q] EXCEPT !.on = asked[c].run]
            BY <2>1, <3>3
        <4>2. live'[q].at = "handshake"
            BY <3>1, <4>1 DEF CallFits
        <4>3. passed'[q].on = asked[c].run /\ passed'[q].since = passed[q].since /\ passed'[q] \in [since : Nat, on : Nat]
            BY <2>2, <3>1, <4>1
        <4>4. asked[c].run >= passed[q].since
            BY <3>1, <3>3 DEF Passes, Waits, LetThrough
        <4>5. QED
            BY <4>2, <4>3, <4>4 DEF Passes
      <3>4. CASE Waits(q, c) /\ ~LetThrough(c, lost)
        <4>1. live'[q].at = "idle" /\ passed'[q] = passed[q]
            BY <2>1, <3>4 DEF IdleCall
        <4>2. QED
            BY <3>1, <4>1 DEF Passes
      <3>5. QED
          BY <3>2, <3>3, <3>4
    <2>4. passed' \in [LiveSlots -> [since : Nat, on : Nat]]
        BY <2>1, <2>3
    <2>5. QED
        BY <2>3, <2>4 DEF PassedInRun
  <1>4. QED
      BY <1>2, <1>3

LEMMA PassesBegin == LiveInit => PassedInRun
  <1> SUFFICES ASSUME LiveInit PROVE PassedInRun
      OBVIOUS
  <1>1. passed = [r \in LiveSlots |-> [since |-> 0, on |-> 0]] /\ \A r \in LiveSlots : live[r] = IdleCall
      BY DEF LiveInit
  <1>2. IdleCall.at = "idle"
      BY DEF IdleCall
  <1>3. QED
      BY <1>1, <1>2 DEF PassedInRun, Passes

LEMMA PassesStep == LiveInv /\ PassedInRun /\ [LiveNext]_liveVars => PassedInRun'
  <1> SUFFICES ASSUME LiveInv, PassedInRun, [LiveNext]_liveVars PROVE PassedInRun'
      OBVIOUS
  <1> DEFINE Kept(q) == \/ live'[q] = live[q]
                        \/ live'[q].at \notin {"require running", "waiting", "handshake", "call"}
                        \/ live'[q].at = "require running" /\ "check" \in DOMAIN live'[q]
                        \/ live'[q].at = "call" /\ live[q].at = "handshake"
  <1>1. liveBot.run \in Nat /\ DOMAIN live = LiveSlots /\ \A q \in LiveSlots : CallFits(live[q])
        /\ liveBot \in [unit : {"active", "inactive"}, status : {"running", "stopped"}, run : Nat]
      BY DEF LiveInv, LiveTypes
  <1>2. IdleCall.at = "idle"
      BY DEF IdleCall
  <1>3. ASSUME NEW r \in LiveSlots, NEW call, live' = [live EXCEPT ![r] = call], UNCHANGED <<asked, passed, liveBot>>,
               \/ call.at \notin {"require running", "waiting", "handshake", "call"}
               \/ call.at = "require running" /\ "check" \in DOMAIN call
               \/ call.at = "call" /\ live[r].at = "handshake"
        PROVE  PassedInRun'
    <2>1. live'[r] = call /\ \A q \in LiveSlots : q # r => live'[q] = live[q]
        BY <1>1, <1>3
    <2>2. \A q \in LiveSlots : Kept(q)
        BY <1>3, <2>1
    <2>3. liveBot'.run \in Nat /\ liveBot'.run >= liveBot.run /\ asked' = asked /\ passed' = passed
        BY <1>1, <1>3, RunsGrow, Zenon
    <2>4. QED
        BY <2>2, <2>3, PassesKept
  <1>4. ASSUME NEW r \in LiveSlots, NEW call, Press(r, call), call.at \in {"require running", "send line"}, "check" \in DOMAIN call
        PROVE  PassedInRun'
    <2>1. live' = [live EXCEPT ![r] = call] /\ UNCHANGED <<asked, passed, liveBot>>
        BY <1>4 DEF Press, activeVars
    <2>2. QED
        BY <1>3, <1>4, <2>1
  <1>5. ASSUME NEW r \in LiveSlots, ReadLive(r) PROVE PassedInRun'
      BY <1>4, <1>5 DEF ReadLive
  <1>6. ASSUME NEW r \in LiveSlots, NEW s \in ItemSlots, DropItem(r, s) \/ SelectHeldItem(r, s) PROVE PassedInRun'
      BY <1>4, <1>6 DEF DropItem, SelectHeldItem
  <1>7. ASSUME NEW r \in LiveSlots, NEW c \in Commands, SendLine(r, c) PROVE PassedInRun'
      BY <1>4, <1>7 DEF SendLine
  <1>8. ASSUME NEW r \in LiveSlots, live' = EndLive(r), UNCHANGED <<asked, passed, liveBot>> PROVE PassedInRun'
      BY <1>2, <1>3, <1>8 DEF EndLive
  <1>9. ASSUME NEW r \in LiveSlots, Handshake(r) PROVE PassedInRun'
    <2> DEFINE call == [live[r] EXCEPT !.at = "call"]
    <2>1. UNCHANGED <<asked, passed, liveBot>> /\ live[r].at = "handshake"
          /\ (live' = [live EXCEPT ![r] = call] \/ live' = EndLive(r))
        BY <1>9 DEF Handshake, activeVars
    <2>2. call.at = "call"
        BY <1>1 DEF CallFits
    <2> HIDE DEF call
    <2>3. QED
        BY <1>3, <1>8, <2>1, <2>2
  <1>10. ASSUME NEW r \in LiveSlots, ClientActs(r) \/ LineSent(r) \/ LiveLost(r)
                \/ ActionRecorded(r) \/ CommandRecorded(r) \/ \E b \in Bodies : LiveAnswers(r, b)
         PROVE  PassedInRun'
    <2> DEFINE seen == [at |-> "answer", kind |-> "read", inventory |-> InventoryFrom(items)]
               at(stage) == [live[r] EXCEPT !.at = stage]
    <2>1. UNCHANGED <<asked, passed, liveBot>>
        BY <1>10 DEF ClientActs, LineSent, LiveLost, ActionRecorded, CommandRecorded, LiveAnswers, activeVars
    <2>2. \/ live' = EndLive(r) \/ live' = [live EXCEPT ![r] = seen]
          \/ live' = [live EXCEPT ![r] = at("answer")] \/ live' = [live EXCEPT ![r] = at("record")]
        BY <1>10 DEF ClientActs, LineSent, LiveLost, ActionRecorded, CommandRecorded, LiveAnswers
    <2>3. seen.at = "answer" /\ at("answer").at = "answer" /\ at("record").at = "record"
        BY <1>1 DEF CallFits
    <2> HIDE DEF seen, at
    <2>4. QED
        BY <1>3, <1>8, <2>1, <2>2, <2>3
  <1>11. ASSUME UnitStops \/ ForgetActive \/ UnitStarts \/ (\E s \in ItemSlots : PickUp(s))
                \/ SignOutClears \/ SignOutLeaves \/ LiveTick
         PROVE  PassedInRun'
    <2>1. UNCHANGED <<live, asked, passed>>
        BY <1>11 DEF UnitStops, ForgetActive, UnitStarts, PickUp, SignOutClears, SignOutLeaves, LiveTick, activeVars
    <2>2. \/ liveBot' = liveBot \/ liveBot' = [liveBot EXCEPT !.unit = "inactive"]
          \/ liveBot' = [liveBot EXCEPT !.unit = "active", !.status = "running"]
          \/ liveBot' = [liveBot EXCEPT !.status = "stopped", !.run = liveBot.run + 1]
        BY <1>11 DEF UnitStops, ForgetActive, UnitStarts, PickUp, SignOutClears, SignOutLeaves, LiveTick
    <2>3. liveBot'.run = liveBot.run \/ liveBot'.run = liveBot.run + 1
      <3>1. CASE liveBot' = liveBot
          BY <3>1
      <3>2. CASE liveBot' = [liveBot EXCEPT !.unit = "inactive"]
          BY <1>1, <3>2
      <3>3. CASE liveBot' = [liveBot EXCEPT !.unit = "active", !.status = "running"]
          BY <1>1, <3>3
      <3>4. CASE liveBot' = [liveBot EXCEPT !.status = "stopped", !.run = liveBot.run + 1]
          BY <1>1, <3>4
      <3>5. QED
          BY <2>2, <3>1, <3>2, <3>3, <3>4
    <2>4. liveBot'.run \in Nat /\ liveBot'.run >= liveBot.run
        BY <1>1, <2>3
    <2>5. QED
        BY <2>1, <2>4, PassesKept
  <1>12. CASE UNCHANGED liveVars
    <2>1. UNCHANGED <<live, asked, passed, liveBot>>
        BY <1>12 DEF liveVars, activeVars
    <2>2. QED
        BY <1>1, <2>1, PassesKept
  <1>13. CASE LiveNext
      BY <1>5, <1>6, <1>7, <1>9, <1>10, <1>11, <1>13, PassesRequired, PassesSettled DEF LiveNext
  <1>14. QED
      BY <1>12, <1>13

LEMMA LiveInvSound == LiveInv /\ PassedInRun => LiveCallsAreSound
  <1> SUFFICES ASSUME LiveInv, PassedInRun PROVE LiveCallsAreSound
      OBVIOUS
  <1>1. activeReadAt # NotRead => activeReadAt.run = liveBot.run
      BY DEF LiveInv, CheckedInRun
  <1>2. /\ Count("drop") <= acted.dropped /\ Count("hold") <= acted.selected
        /\ Count("chat") + Count("masked") <= acted.sent
        /\ acted.dropped + acted.selected + acted.sent <= pressed
    <2>1. /\ Count("drop") + Cardinality(Acted(live, "drop")) <= acted.dropped
          /\ Count("hold") + Cardinality(Acted(live, "hold")) <= acted.selected
          /\ Count("chat") + Count("masked") + Cardinality(Acted(live, "command")) <= acted.sent
          /\ acted.dropped + acted.selected + acted.sent + Cardinality(ToAct(live)) <= pressed
        BY DEF LiveInv, Accounted
    <2>2. Cardinality(ToAct(live)) \in Nat /\ \A kind \in {"drop", "hold", "command"} : Cardinality(Acted(live, kind)) \in Nat
        BY FS_CardinalityType DEF LiveInv, Accounted
    <2>3. \A n, m, k \in Nat : n + k <= m => n <= m
        OBVIOUS
    <2>4. QED
        BY <2>1, <2>2, <2>3, Numbers
  <1>3. \A i \in DOMAIN audited : ~CarriesSecret(audited[i])
    <2>1. \A i \in DOMAIN audited : audited[i] \in Entries
        BY ElementOfSeq DEF LiveInv, LiveTypes
    <2>2. QED
        BY <2>1 DEF Entries, CarriesSecret
  <1>4. \A i \in DOMAIN storedHistory : ~CarriesSecret(storedHistory[i])
    <2>1. \A i \in DOMAIN storedHistory : storedHistory[i] \in Harmless
        BY ElementOfSeq DEF LiveInv, LiveTypes
    <2>2. QED
        BY <2>1 DEF Harmless, CarriesSecret
  <1>5. \A r \in LiveSlots : live[r].at \in {"handshake", "call"} => passed[r].on >= passed[r].since
      BY DEF PassedInRun, Passes
  <1>6. QED
      BY <1>1, <1>2, <1>3, <1>4, <1>5 DEF LiveCallsAreSound

\* No call that comes after the manager noted that a bot was stopped is let
\* through on an answer from before, what the audit log says was done was done
\* and once per press, and no password is kept (requireRunning, forgetActive,
\* sendCommand, rememberCommand).
THEOREM CallsAreSound == LiveSpec => []LiveCallsAreSound
  <1>1. LiveSpec => []LiveInv
      BY LiveBegins, LiveStep, PTL DEF LiveSpec
  <1>2. LiveSpec => []PassedInRun
      BY <1>1, PassesBegin, PassesStep, PTL DEF LiveSpec
  <1>3. QED
      BY <1>1, <1>2, LiveInvSound, PTL

-----------------------------------------------------------------------------
(* ReadConnections. *)

USE ReadAssumption

-----------------------------------------------------------------------------
ConnStates == {"opening", "up", "down", "closed"}
Conn == [state : ConnStates, identity : Nat, generation : Nat, retired : BOOLEAN, old : BOOLEAN,
         active : Int, waiting : Seq(Readers)]
ReaderPcs == {"idle", "lease", "wait", "check", "leased"}
ReadOps == {"none", "queued", "admitted", "running", "late"}
Reader == [pc : ReaderPcs, identity : Nat, conn : Nat, expired : BOOLEAN, op : ReadOps]

Entry == [generation : Nat, installed : Nat, pending : Nat]

\* A reader that waits, holds a lease or has a read abandoned late has a connection; a read is under way only
\* on a lease that was handed out, over a connection that is not closed; a lease is to the host as the reader
\* looked it up, and once handed out as it is trusted.
ReaderOK(who, due, cs, q) ==
    /\ q.pc \in {"lease", "wait", "check"} => q.op = "none"
    /\ q.pc = "idle" => q.op \in {"none", "late"}
    /\ q.pc \in {"wait", "check", "leased"} \/ q.op = "late" => q.conn \in DOMAIN cs
    /\ q.pc \in {"check", "leased"} \/ q.op = "late" => cs[q.conn].state # "opening"
    /\ q.op \in {"queued", "admitted", "running"} => cs[q.conn].state # "closed"
    /\ q.pc = "check" => cs[q.conn].identity = q.identity
    /\ q.pc = "leased" /\ cs[q.conn].state # "closed" /\ ~due => cs[q.conn].identity = who

\* What is installed is open and not retired; what is pending is being opened.
EntryOK(en, cs) ==
    /\ en.installed # None =>
         /\ en.installed \in DOMAIN cs
         /\ cs[en.installed].state \in {"up", "down"} /\ ~cs[en.installed].retired
    /\ en.pending # None => en.pending \in DOMAIN cs /\ cs[en.pending].state = "opening"

\* The readers that have a slot of a connection, and those that wait for one, account for what it counts
\* and queues, until it is closed.
Holding(rd, k) == {r \in Readers : rd[r].conn = k /\ rd[r].op \in {"admitted", "running", "late"}}
Queueing(rd, k) == {r \in Readers : rd[r].conn = k /\ rd[r].op = "queued"}
SlotsOK(rd, k, c) ==
    IF c.state = "closed" THEN c.waiting = <<>>
    ELSE /\ IsInjective(c.waiting) /\ Range(c.waiting) = Queueing(rd, k)
         /\ c.active = Cardinality(Holding(rd, k)) /\ c.active <= ChannelLimit
         /\ c.waiting # <<>> => c.active = ChannelLimit

Shared(who, due, en, cs, rd) ==
    /\ en \in Entry /\ cs \in Seq(Conn) /\ rd \in [Readers -> Reader]
    /\ \A r \in Readers : ReaderOK(who, due, cs, rd[r])
    /\ EntryOK(en, cs)
    /\ \A k \in DOMAIN cs : SlotsOK(rd, k, cs[k]) /\ (cs[k].state = "opening" => ~cs[k].retired)

ReadInv ==
    /\ identity \in Nat /\ evictDue \in BOOLEAN /\ reads \in Nat
    /\ Shared(identity, evictDue, entry, conns, reader)
    /\ NoneLeftOpen

-----------------------------------------------------------------------------
(* Queues without repetitions. *)

LEMMA TailGone ==
    ASSUME NEW S, NEW s \in Seq(S), s # <<>>, IsInjective(s)
    PROVE  /\ Tail(s) \in Seq(S) /\ IsInjective(Tail(s))
           /\ Head(s) \in Range(s) /\ Range(Tail(s)) = Range(s) \ {Head(s)}
  <1>1. /\ Tail(s) \in Seq(S) /\ Len(Tail(s)) = Len(s) - 1 /\ Len(s) \in Nat \ {0}
        /\ DOMAIN s = 1..Len(s) /\ DOMAIN Tail(s) = 1..(Len(s) - 1) /\ Head(s) = s[1]
        /\ \A i \in 1..(Len(s) - 1) : Tail(s)[i] = s[i + 1]
      OBVIOUS
  <1>2. IsInjective(Tail(s))
      BY <1>1 DEF IsInjective
  <1>3. Head(s) \in Range(s)
      BY <1>1 DEF Range
  <1>4. Range(Tail(s)) \subseteq Range(s) \ {Head(s)}
      BY <1>1 DEF Range, IsInjective
  <1>5. ASSUME NEW i \in 1..Len(s), s[i] # s[1]
        PROVE  s[i] \in Range(Tail(s))
    <2>1. i - 1 \in 1..(Len(s) - 1) /\ Tail(s)[i - 1] = s[i]
        BY <1>1, <1>5
    <2>2. QED
        BY <1>1, <2>1 DEF Range
  <1>6. Range(s) \ {Head(s)} \subseteq Range(Tail(s))
    <2>1. \A x \in Range(s) : \E i \in 1..Len(s) : x = s[i]
        BY <1>1 DEF Range
    <2>2. QED
        BY <1>1, <1>5, <2>1
  <1>7. QED
      BY <1>1, <1>2, <1>3, <1>4, <1>6

LEMMA Queued ==
    ASSUME NEW S, NEW s \in Seq(S), NEW e \in S, IsInjective(s), e \notin Range(s)
    PROVE  Append(s, e) \in Seq(S) /\ IsInjective(Append(s, e)) /\ Range(Append(s, e)) = Range(s) \cup {e}
  <1>1. /\ Append(s, e) \in Seq(S) /\ Len(s) \in Nat /\ DOMAIN s = 1..Len(s)
        /\ DOMAIN Append(s, e) = 1..(Len(s) + 1)
        /\ Append(s, e)[Len(s) + 1] = e /\ \A i \in 1..Len(s) : Append(s, e)[i] = s[i]
      OBVIOUS
  <1>2. \A i \in 1..(Len(s) + 1) : i \in 1..Len(s) \/ i = Len(s) + 1
      BY <1>1
  <1>3. \A i \in 1..Len(s) : s[i] # e
      BY <1>1 DEF Range
  <1>4. IsInjective(Append(s, e))
      BY <1>1, <1>2, <1>3 DEF IsInjective
  <1>5. Range(Append(s, e)) \subseteq Range(s) \cup {e}
      BY <1>1, <1>2 DEF Range
  <1>6. 1..Len(s) \subseteq 1..(Len(s) + 1) /\ Len(s) + 1 \in 1..(Len(s) + 1)
      BY <1>1
  <1>7. Range(s) \cup {e} \subseteq Range(Append(s, e))
      BY <1>1, <1>6 DEF Range
  <1>8. QED
      BY <1>1, <1>4, <1>5, <1>7

LEMMA Unqueued ==
    ASSUME NEW S, NEW s \in Seq(S), NEW e, IsInjective(s)
    PROVE  /\ RemoveFirst(s, e) \in Seq(S) /\ IsInjective(RemoveFirst(s, e))
           /\ Range(RemoveFirst(s, e)) = Range(s) \ {e}
  <1>0. Len(s) \in Nat /\ DOMAIN s = 1..Len(s)
      OBVIOUS
  <1>1. CASE ~ \E i \in 1..Len(s) : s[i] = e
      BY <1>0, <1>1 DEF RemoveFirst, Range
  <1>2. CASE \E i \in 1..Len(s) : s[i] = e
    <2>1. PICK i \in 1..Len(s) : s[i] = e
        BY <1>2
    <2>2. {j \in 1..Len(s) : s[j] = e} = {i}
        BY <1>0, <2>1 DEF IsInjective
    <2>3. Min({i}) = i
        BY <2>1, <1>0 DEF Min
    <2>4. RemoveFirst(s, e) = RemoveAt(s, i)
        BY <1>2, <2>1, <2>2, <2>3 DEF RemoveFirst, SelectInSeq
    <2>5. PICK t : t = RemoveAt(s, i)
        OBVIOUS
    <2>6. /\ t \in Seq(S) /\ DOMAIN t = 1..(Len(s) - 1)
          /\ \A j \in 1..(Len(s) - 1) : t[j] = IF j < i THEN s[j] ELSE s[j + 1]
      <3>1. SubSeq(s, 1, i - 1) \in Seq(S) /\ Len(SubSeq(s, 1, i - 1)) = i - 1
            /\ \A j \in 1..(i - 1) : SubSeq(s, 1, i - 1)[j] = s[j]
          BY <1>0, <2>1
      <3>2. SubSeq(s, i + 1, Len(s)) \in Seq(S) /\ Len(SubSeq(s, i + 1, Len(s))) = Len(s) - i
            /\ \A j \in 1..(Len(s) - i) : SubSeq(s, i + 1, Len(s))[j] = s[i + j]
        <4>1. i + 1 \in 1..(Len(s) + 1) /\ Len(s) \in i..Len(s)
            BY <1>0, <2>1
        <4>2. /\ SubSeq(s, i + 1, Len(s)) \in Seq(S) /\ Len(SubSeq(s, i + 1, Len(s))) = Len(s) - (i + 1) + 1
              /\ \A j \in 1..(Len(s) - (i + 1) + 1) : SubSeq(s, i + 1, Len(s))[j] = s[(i + 1) + j - 1]
            BY <4>1, SubSeqProperties
        <4>3. Len(s) - (i + 1) + 1 = Len(s) - i /\ \A j \in 1..(Len(s) - i) : (i + 1) + j - 1 = i + j
            BY <1>0, <2>1
        <4>4. QED
            BY <4>2, <4>3
      <3>3. PICK u \in Seq(S), v \in Seq(S) :
              /\ t = u \o v /\ Len(u) = i - 1 /\ Len(v) = Len(s) - i
              /\ \A j \in 1..(i - 1) : u[j] = s[j]
              /\ \A j \in 1..(Len(s) - i) : v[j] = s[i + j]
          BY <2>5, <3>1, <3>2 DEF RemoveAt
      <3>4. /\ t \in Seq(S) /\ Len(t) = (i - 1) + (Len(s) - i)
            /\ \A j \in 1..((i - 1) + (Len(s) - i)) : t[j] = IF j <= i - 1 THEN u[j] ELSE v[j - (i - 1)]
        <4>1. /\ u \o v \in Seq(S) /\ Len(u \o v) = Len(u) + Len(v)
              /\ \A j \in 1..(Len(u) + Len(v)) : (u \o v)[j] = IF j <= Len(u) THEN u[j] ELSE v[j - Len(u)]
            BY ConcatProperties
        <4>2. QED
            BY <3>3, <4>1
      <3>5. (i - 1) + (Len(s) - i) = Len(s) - 1
          BY <1>0, <2>1
      <3>6. DOMAIN t = 1..(Len(s) - 1)
          BY <3>4, <3>5
      <3>7. ASSUME NEW j \in 1..(Len(s) - 1)
            PROVE  t[j] = IF j < i THEN s[j] ELSE s[j + 1]
        <4>1. t[j] = IF j <= i - 1 THEN u[j] ELSE v[j - (i - 1)]
            BY <3>4, <3>5
        <4>2. CASE j < i
            BY <1>0, <2>1, <3>3, <4>1, <4>2
        <4>3. CASE ~(j < i)
          <5>1. j - (i - 1) \in 1..(Len(s) - i) /\ i + (j - (i - 1)) = j + 1 /\ ~(j <= i - 1)
              BY <1>0, <2>1, <4>3
          <5>2. QED
              BY <3>3, <4>1, <4>3, <5>1
        <4>4. QED
            BY <4>2, <4>3
      <3>8. QED
          BY <3>4, <3>6, <3>7
    <2>7. \A j \in 1..(Len(s) - 1) : j \in 1..Len(s) /\ j + 1 \in 1..Len(s)
        BY <1>0
    <2>8. IsInjective(t)
      <3>1. SUFFICES ASSUME NEW a \in 1..(Len(s) - 1), NEW b \in 1..(Len(s) - 1), t[a] = t[b]
                     PROVE  a = b
          BY <2>6 DEF IsInjective
      <3>2. PICK x \in 1..Len(s) : x = (IF a < i THEN a ELSE a + 1) /\ t[a] = s[x]
          BY <2>6, <2>7
      <3>3. PICK y \in 1..Len(s) : y = (IF b < i THEN b ELSE b + 1) /\ t[b] = s[y]
          BY <2>6, <2>7
      <3>4. x = y
          BY <1>0, <3>1, <3>2, <3>3 DEF IsInjective
      <3>5. QED
          BY <1>0, <2>1, <3>2, <3>3, <3>4
    <2>9. Range(t) \subseteq Range(s) \ {e}
      <3>1. \A j \in 1..(Len(s) - 1) : t[j] \in Range(s)
          BY <1>0, <2>6, <2>7 DEF Range
      <3>2. ASSUME NEW j \in 1..(Len(s) - 1), t[j] = s[i]
            PROVE  FALSE
        <4>1. PICK x \in 1..Len(s) : x = (IF j < i THEN j ELSE j + 1) /\ t[j] = s[x]
            BY <2>6, <2>7
        <4>2. x = i
            BY <1>0, <2>1, <3>2, <4>1 DEF IsInjective
        <4>3. QED
            BY <1>0, <2>1, <4>1, <4>2
      <3>3. QED
          BY <2>1, <2>6, <3>1, <3>2 DEF Range
    <2>10. ASSUME NEW j \in 1..Len(s), s[j] # e
           PROVE  s[j] \in Range(t)
      <3>1. CASE j < i
        <4>1. j \in 1..(Len(s) - 1) /\ t[j] = s[j]
            BY <1>0, <2>1, <2>6, <3>1
        <4>2. QED
            BY <2>6, <4>1 DEF Range
      <3>2. CASE j > i
        <4>1. j - 1 \in 1..(Len(s) - 1) /\ t[j - 1] = s[j]
            BY <1>0, <2>1, <2>6, <3>2
        <4>2. QED
            BY <2>6, <4>1 DEF Range
      <3>3. QED
          BY <1>0, <2>1, <2>10, <3>1, <3>2
    <2>11. Range(s) \ {e} \subseteq Range(t)
      <3>1. \A x \in Range(s) : \E j \in 1..Len(s) : x = s[j]
          BY <1>0 DEF Range
      <3>2. QED
          BY <2>10, <3>1
    <2>12. QED
        BY <2>4, <2>5, <2>6, <2>8, <2>9, <2>11
  <1>3. QED
      BY <1>1, <1>2

-----------------------------------------------------------------------------
(* Connections, readers and slots, one step at a time. *)

\* A connection's slots stay accounted for while its readers, its count and its queue do.
LEMMA SlotsKept ==
    ASSUME NEW rd, NEW rs, NEW k, NEW c, NEW to, SlotsOK(rd, k, c),
           Holding(rs, k) = Holding(rd, k), Queueing(rs, k) = Queueing(rd, k),
           to.waiting = c.waiting, to.active = c.active, to.state = "closed" <=> c.state = "closed"
    PROVE  SlotsOK(rs, k, to)
  BY DEF SlotsOK

LEMMA HoldersCounted ==
    ASSUME NEW rd, NEW k
    PROVE  IsFiniteSet(Holding(rd, k)) /\ Cardinality(Holding(rd, k)) \in Nat
  <1>1. Holding(rd, k) \subseteq Readers
      BY DEF Holding
  <1>2. QED
      BY <1>1, FS_Subset, FS_CardinalityType

\* Closing connections abandons what their readers do.
LEMMA ShutConn ==
    ASSUME NEW c \in Conn
    PROVE  /\ Shut(c) \in Conn /\ Shut(c).state = "closed" /\ Shut(c).waiting = <<>>
           /\ Shut(c).identity = c.identity /\ Shut(c).retired = c.retired
  <1>1. <<>> \in Seq(Readers)
      OBVIOUS
  <1>2. QED
      BY <1>1 DEF Shut, Conn, ConnStates

LEMMA AbandonedReader ==
    ASSUME NEW q \in Reader, NEW to, to = [q EXCEPT !.op = Abandoned(q.op)]
    PROVE  /\ to \in Reader /\ to.pc = q.pc /\ to.identity = q.identity /\ to.conn = q.conn
           /\ to.op = Abandoned(q.op) /\ to.op \in {"none", "late"}
           /\ to.op = "late" <=> q.op \in {"admitted", "late"}
  <1>1. Abandoned(q.op) \in {"none", "late"} /\ (Abandoned(q.op) = "late" <=> q.op \in {"admitted", "late"})
      BY DEF Abandoned
  <1>2. QED
      BY <1>1 DEF Reader, ReadOps

Closed(cs, S) == [k \in DOMAIN cs |-> IF k \in S THEN Shut(cs[k]) ELSE cs[k]]
Left(rd, L) == [r \in Readers |-> IF r \in L THEN [rd[r] EXCEPT !.op = Abandoned(@)] ELSE rd[r]]

\* The connections S are closed: the leases of them are among L, which has no other lease of an open one.
Closing(who, due, dueThen, en, cs, rd, S, L, to) ==
    /\ Shared(who, due, en, cs, rd)
    /\ S \subseteq DOMAIN cs /\ L \subseteq Readers
    /\ \A r \in Readers : rd[r].pc \in {"check", "leased"} /\ rd[r].conn \in S => r \in L
    /\ \A r \in L : /\ rd[r].pc \in {"check", "leased"}
                    /\ rd[r].conn \in S \/ cs[rd[r].conn].state = "closed"
    /\ dueThen = due \/ \A k \in DOMAIN cs : cs[k].state \in {"up", "down"} => k \in S
    /\ to \in Entry
    /\ to.installed = None \/ (to.installed = en.installed /\ to.installed \notin S)
    /\ to.pending = None \/ (to.pending = en.pending /\ to.pending \notin S)

LEMMA ConnsClosed ==
    ASSUME NEW who, NEW due, NEW dueThen, NEW en, NEW cs, NEW rd, NEW S, NEW L, NEW to,
           Closing(who, due, dueThen, en, cs, rd, S, L, to)
    PROVE  Shared(who, dueThen, to, Closed(cs, S), Left(rd, L))
  <1> USE DEF Closing
  <1>a. PICK shut : shut = [k \in DOMAIN cs |-> IF k \in S THEN Shut(cs[k]) ELSE cs[k]]
      OBVIOUS
  <1>b. PICK rs : rs = [r \in Readers |-> IF r \in L THEN [rd[r] EXCEPT !.op = Abandoned(@)] ELSE rd[r]]
      OBVIOUS
  <1>0. /\ cs \in Seq(Conn) /\ rd \in [Readers -> Reader] /\ EntryOK(en, cs)
        /\ \A r \in Readers : ReaderOK(who, due, cs, rd[r])
        /\ \A k \in DOMAIN cs : SlotsOK(rd, k, cs[k]) /\ (cs[k].state = "opening" => ~cs[k].retired)
      BY DEF Shared
  <1>1. \A k \in DOMAIN cs : cs[k] \in Conn
      BY <1>0
  <1>2. \A k \in DOMAIN cs : /\ k \in S => shut[k] = Shut(cs[k]) /\ shut[k].state = "closed" /\ shut[k].waiting = <<>>
                             /\ k \notin S => shut[k] = cs[k]
                             /\ shut[k] \in Conn /\ shut[k].identity = cs[k].identity /\ shut[k].retired = cs[k].retired
      BY <1>a, <1>1, ShutConn
  <1>3. Len(cs) \in Nat /\ DOMAIN cs = 1..Len(cs)
      BY <1>0
  <1>4. shut \in Seq(Conn) /\ DOMAIN shut = DOMAIN cs
    <2>1. shut = [k \in 1..Len(cs) |-> shut[k]]
        BY <1>a, <1>3
    <2>2. \A k \in 1..Len(cs) : shut[k] \in Conn
        BY <1>2, <1>3
    <2>3. shut \in Seq(Conn)
        BY <1>3, <2>1, <2>2, IsASeq
    <2>4. QED
        BY <1>a, <2>3
  <1>5. \A r \in Readers : /\ rs[r] \in Reader /\ rs[r].pc = rd[r].pc /\ rs[r].identity = rd[r].identity
                           /\ rs[r].conn = rd[r].conn
                           /\ r \in L => rs[r].op = Abandoned(rd[r].op) /\ rs[r].op \in {"none", "late"}
                           /\ r \in L => (rs[r].op = "late" <=> rd[r].op \in {"admitted", "late"})
                           /\ r \notin L => rs[r] = rd[r]
    <2> SUFFICES ASSUME NEW r \in Readers
                 PROVE  /\ rs[r] \in Reader /\ rs[r].pc = rd[r].pc /\ rs[r].identity = rd[r].identity
                        /\ rs[r].conn = rd[r].conn
                        /\ r \in L => rs[r].op = Abandoned(rd[r].op) /\ rs[r].op \in {"none", "late"}
                        /\ r \in L => (rs[r].op = "late" <=> rd[r].op \in {"admitted", "late"})
                        /\ r \notin L => rs[r] = rd[r]
        OBVIOUS
    <2>1. rd[r] \in Reader
        BY <1>0
    <2>2. CASE r \in L
      <3>1. rs[r] = [rd[r] EXCEPT !.op = Abandoned(rd[r].op)]
          BY <1>b, <2>2
      <3>2. QED
          BY <2>1, <2>2, <3>1, AbandonedReader
    <2>3. CASE r \notin L
        BY <1>b, <2>1, <2>3
    <2>4. QED
        BY <2>2, <2>3
  <1>6. rs \in [Readers -> Reader]
      BY <1>b, <1>5
  <1>7. ASSUME NEW r \in Readers
        PROVE  ReaderOK(who, dueThen, shut, rs[r])
    <2>1. ReaderOK(who, due, cs, rd[r]) /\ rd[r] \in Reader
        BY <1>0
    <2>2. /\ rs[r].pc \in {"lease", "wait", "check"} => rs[r].op = "none"
          /\ rs[r].pc = "idle" => rs[r].op \in {"none", "late"}
        BY <1>5, <2>1 DEF ReaderOK, Abandoned
    <2>3. rs[r].pc \in {"wait", "check", "leased"} \/ rs[r].op = "late" => rd[r].conn \in DOMAIN cs
        BY <1>5, <2>1 DEF ReaderOK
    <2>4. rs[r].pc \in {"check", "leased"} \/ rs[r].op = "late" => shut[rs[r].conn].state # "opening"
        BY <1>2, <1>5, <2>1, <2>3 DEF ReaderOK
    <2>5. rs[r].op \in {"queued", "admitted", "running"} => shut[rs[r].conn].state # "closed"
      <3>1. SUFFICES ASSUME rs[r].op \in {"queued", "admitted", "running"}
                     PROVE  shut[rs[r].conn].state # "closed"
          OBVIOUS
      <3>2. r \notin L /\ rd[r].op = rs[r].op
          BY <1>5, <3>1
      <3>3. rd[r].pc = "leased" /\ cs[rd[r].conn].state # "closed" /\ rd[r].conn \in DOMAIN cs
          BY <2>1, <3>1, <3>2 DEF ReaderOK, Reader, ReaderPcs
      <3>4. QED
          BY <1>2, <1>5, <3>2, <3>3
    <2>6. rs[r].pc = "check" => shut[rs[r].conn].identity = rs[r].identity
        BY <1>2, <1>5, <2>1, <2>3 DEF ReaderOK
    <2>7. rs[r].pc = "leased" /\ shut[rs[r].conn].state # "closed" /\ ~dueThen => shut[rs[r].conn].identity = who
      <3>1. SUFFICES ASSUME rs[r].pc = "leased", shut[rs[r].conn].state # "closed", ~dueThen
                     PROVE  shut[rs[r].conn].identity = who
          OBVIOUS
      <3>2. rs[r].conn = rd[r].conn /\ rd[r].conn \in DOMAIN cs /\ rd[r].conn \notin S /\ rd[r].pc = "leased"
          BY <1>2, <1>5, <2>1, <3>1 DEF ReaderOK
      <3>3. cs[rd[r].conn] \in Conn /\ cs[rd[r].conn].state \notin {"opening", "closed"}
          BY <1>1, <1>2, <2>1, <3>1, <3>2 DEF ReaderOK
      <3>4. cs[rd[r].conn].state \in {"up", "down"}
          BY <3>3 DEF Conn, ConnStates
      <3>5. dueThen = due
          BY <3>2, <3>4
      <3>6. QED
          BY <1>2, <2>1, <3>1, <3>2, <3>5 DEF ReaderOK
    <2>8. QED
        BY <1>4, <1>5, <2>2, <2>3, <2>4, <2>5, <2>6, <2>7 DEF ReaderOK
  <1>8. EntryOK(to, shut)
      BY <1>0, <1>2, <1>4 DEF EntryOK
  <1>9. ASSUME NEW k \in DOMAIN cs
        PROVE  SlotsOK(rs, k, shut[k]) /\ (shut[k].state = "opening" => ~shut[k].retired)
    <2>1. CASE k \in S
        BY <1>2, <2>1 DEF SlotsOK
    <2>2. CASE k \notin S
      <3>1. CASE cs[k].state = "closed"
          BY <1>0, <1>2, <2>2, <3>1 DEF SlotsOK
      <3>2. CASE cs[k].state # "closed"
        <4>1. \A r \in Readers : rd[r].conn = k => r \notin L
            BY <2>2, <3>2
        <4>2. Holding(rs, k) = Holding(rd, k) /\ Queueing(rs, k) = Queueing(rd, k)
            BY <1>5, <4>1 DEF Holding, Queueing
        <4>3. QED
            BY <1>0, <1>2, <2>2, <4>2, SlotsKept
      <3>3. QED
          BY <3>1, <3>2
    <2>3. QED
        BY <2>1, <2>2
  <1>10. Shared(who, dueThen, to, shut, rs)
      BY <1>4, <1>6, <1>7, <1>8, <1>9 DEF Shared
  <1>11. QED
      BY <1>a, <1>b, <1>10, Zenon DEF Closed, Left

\* A reader moves on without a read, or begins to run the read it was admitted for.
LEMMA ReaderMoves ==
    ASSUME NEW who, NEW due, NEW en, NEW cs, NEW rd, Shared(who, due, en, cs, rd),
           NEW r \in Readers, NEW to \in Reader, ReaderOK(who, due, cs, to),
           \/ rd[r].op = "none" /\ to.op = "none"
           \/ rd[r].op = "admitted" /\ to.op = "running" /\ to.conn = rd[r].conn,
           NEW rs, rs = [rd EXCEPT ![r] = to]
    PROVE  Shared(who, due, en, cs, rs)
  <1>1. rd \in [Readers -> Reader]
      BY DEF Shared
  <1>2. rs \in [Readers -> Reader] /\ rs[r] = to /\ \A q \in Readers : q # r => rs[q] = rd[q]
      BY <1>1
  <1>3. \A k : Holding(rs, k) = Holding(rd, k) /\ Queueing(rs, k) = Queueing(rd, k)
      BY <1>2 DEF Holding, Queueing
  <1>4. \A q \in Readers : ReaderOK(who, due, cs, rs[q])
      BY <1>2 DEF Shared
  <1>5. \A k \in DOMAIN cs : SlotsOK(rd, k, cs[k]) /\ (cs[k].state = "opening" => ~cs[k].retired)
      BY DEF Shared
  <1>6. \A k \in DOMAIN cs : SlotsOK(rs, k, cs[k])
      BY <1>3, <1>5 DEF SlotsOK
  <1>7. QED
      BY <1>2, <1>4, <1>5, <1>6 DEF Shared

\* A reader of a connection that has not been opened has no read.
LEMMA ReadsHaveConns ==
    ASSUME NEW who, NEW due, NEW cs, NEW q \in Reader, ReaderOK(who, due, cs, q), q.op # "none"
    PROVE  q.conn \in DOMAIN cs /\ cs[q.conn].state # "opening" /\ (q.op # "late" => q.pc = "leased")
  BY DEF ReaderOK, Reader, ReaderPcs, ReadOps

\* Another connection is being opened.
OtherOpens(en, cs, id, generation, to, opened) ==
    /\ opened = Append(cs, NewConn(id, generation))
    /\ to = [en EXCEPT !.pending = Len(cs) + 1]

LEMMA ConnOpens ==
    ASSUME NEW who, NEW due, NEW en, NEW cs, NEW rd, Shared(who, due, en, cs, rd),
           NEW id \in Nat, NEW generation \in Nat, NEW opened, NEW to, OtherOpens(en, cs, id, generation, to, opened)
    PROVE  /\ Shared(who, due, to, opened, rd)
           /\ Len(cs) + 1 \in DOMAIN opened /\ Len(cs) + 1 \in Nat /\ Len(cs) + 1 \notin DOMAIN cs
           /\ \A k \in DOMAIN cs : k \in DOMAIN opened /\ opened[k] = cs[k]
           /\ \A k \in DOMAIN opened : k \in DOMAIN cs \/ opened[k].state = "opening"
  <1>0. /\ cs \in Seq(Conn) /\ rd \in [Readers -> Reader] /\ EntryOK(en, cs) /\ en \in Entry
        /\ \A r \in Readers : ReaderOK(who, due, cs, rd[r])
        /\ \A k \in DOMAIN cs : SlotsOK(rd, k, cs[k]) /\ (cs[k].state = "opening" => ~cs[k].retired)
      BY DEF Shared
  <1>a. opened = Append(cs, NewConn(id, generation)) /\ to = [en EXCEPT !.pending = Len(cs) + 1]
      BY DEF OtherOpens
  <1>1. PICK c : c = NewConn(id, generation)
      OBVIOUS
  <1>2. /\ c \in Conn /\ c.state = "opening" /\ ~c.retired /\ c.active = 0 /\ c.waiting = <<>>
    <2>1. <<>> \in Seq(Readers)
        OBVIOUS
    <2>2. QED
        BY <1>1, <2>1 DEF NewConn, Conn, ConnStates
  <1>3. /\ opened \in Seq(Conn) /\ Len(cs) \in Nat /\ DOMAIN cs = 1..Len(cs) /\ DOMAIN opened = 1..(Len(cs) + 1)
        /\ opened[Len(cs) + 1] = c /\ \A k \in 1..Len(cs) : opened[k] = cs[k]
      BY <1>a, <1>0, <1>1, <1>2
  <1>4. /\ DOMAIN opened = DOMAIN cs \cup {Len(cs) + 1} /\ Len(cs) + 1 \notin DOMAIN cs /\ Len(cs) + 1 \in Nat
        /\ \A k \in DOMAIN cs : opened[k] = cs[k]
      BY <1>3
  <1>5. \A r \in Readers : ReaderOK(who, due, opened, rd[r])
      BY <1>0, <1>4 DEF ReaderOK, Reader, ReaderPcs
  <1>6. to \in Entry /\ to.installed = en.installed /\ to.pending = Len(cs) + 1
      BY <1>a, <1>0, <1>4 DEF Entry
  <1>7. EntryOK(to, opened)
      BY <1>0, <1>2, <1>3, <1>4, <1>6 DEF EntryOK
  <1>8. Holding(rd, Len(cs) + 1) = {} /\ Queueing(rd, Len(cs) + 1) = {}
    <2>1. \A r \in Readers : rd[r].op # "none" => rd[r].conn \in DOMAIN cs
        BY <1>0, ReadsHaveConns
    <2>2. QED
        BY <1>4, <2>1 DEF Holding, Queueing
  <1>9. SlotsOK(rd, Len(cs) + 1, c)
    <2>1. IsInjective(<<>>) /\ Range(<<>>) = {}
        BY DEF IsInjective, Range
    <2>2. Cardinality({}) = 0
        BY FS_EmptySet
    <2>3. 0 <= ChannelLimit
        OBVIOUS
    <2>4. QED
        BY <1>2, <1>8, <2>1, <2>2, <2>3 DEF SlotsOK
  <1>10. \A k \in DOMAIN opened : SlotsOK(rd, k, opened[k]) /\ (opened[k].state = "opening" => ~opened[k].retired)
      BY <1>0, <1>2, <1>3, <1>4, <1>9
  <1>11. Shared(who, due, to, opened, rd)
      BY <1>0, <1>2, <1>3, <1>4, <1>5, <1>6, <1>7, <1>10 DEF Shared
  <1>12. QED
      BY <1>2, <1>3, <1>4, <1>11

\* A connection changes, but not what it counts or queues.
LEMMA ConnMarked ==
    ASSUME NEW who, NEW due, NEW en, NEW cs, NEW rd, Shared(who, due, en, cs, rd),
           NEW k \in DOMAIN cs, NEW c \in Conn,
           c.waiting = cs[k].waiting, c.active = cs[k].active, c.identity = cs[k].identity,
           c.state # "closed", cs[k].state # "closed",
           c.state = "opening" => cs[k].state = "opening" /\ ~c.retired,
           NEW marked, marked = [cs EXCEPT ![k] = c],
           NEW to \in Entry, EntryOK(to, marked)
    PROVE  Shared(who, due, to, marked, rd)
  <1>0. /\ cs \in Seq(Conn) /\ rd \in [Readers -> Reader]
        /\ \A r \in Readers : ReaderOK(who, due, cs, rd[r])
        /\ \A l \in DOMAIN cs : SlotsOK(rd, l, cs[l]) /\ (cs[l].state = "opening" => ~cs[l].retired)
      BY DEF Shared
  <1>1. /\ marked \in Seq(Conn) /\ DOMAIN marked = DOMAIN cs
        /\ marked[k] = c /\ \A l \in DOMAIN cs : l # k => marked[l] = cs[l]
      BY <1>0, ExceptSeq
  <1>2. \A r \in Readers : ReaderOK(who, due, marked, rd[r])
      BY <1>0, <1>1 DEF ReaderOK
  <1>3. SlotsOK(rd, k, c)
      BY <1>0 DEF SlotsOK
  <1>4. \A l \in DOMAIN marked : SlotsOK(rd, l, marked[l]) /\ (marked[l].state = "opening" => ~marked[l].retired)
      BY <1>0, <1>1, <1>3
  <1>5. QED
      BY <1>0, <1>1, <1>2, <1>4 DEF Shared

-----------------------------------------------------------------------------
(* Slots taken, awaited, left and freed. *)

\* A change of one connection's count and queue and of some readers' reads: the readers are as they should be
\* and the connection's slots add up.
SlotChange(who, due, en, cs, rd, k, c, to, rs) ==
    /\ Shared(who, due, en, cs, rd)
    /\ k \in DOMAIN cs /\ c \in Conn
    /\ c.state = cs[k].state /\ c.identity = cs[k].identity /\ c.state # "opening"
    /\ to \in Entry /\ EntryOK(to, [cs EXCEPT ![k] = c])
    /\ rs \in [Readers -> Reader]
    /\ \A q \in Readers : \/ rs[q].conn = rd[q].conn /\ rs[q].op = rd[q].op
                          \/ /\ rd[q].conn = k \/ rd[q].op = "none"
                             /\ rs[q].conn = k \/ rs[q].op = "none"
    /\ \A q \in Readers : ReaderOK(who, due, cs, rs[q])
    /\ SlotsOK(rs, k, c)

\* It keeps everything else.
LEMMA SlotsChange ==
    ASSUME NEW who, NEW due, NEW en, NEW cs, NEW rd, NEW k, NEW c, NEW to, NEW rs,
           SlotChange(who, due, en, cs, rd, k, c, to, rs)
    PROVE  Shared(who, due, to, [cs EXCEPT ![k] = c], rs)
  <1> USE DEF SlotChange
  <1> DEFINE changed == [cs EXCEPT ![k] = c]
  <1>0. /\ cs \in Seq(Conn) /\ rd \in [Readers -> Reader]
        /\ \A l \in DOMAIN cs : SlotsOK(rd, l, cs[l]) /\ (cs[l].state = "opening" => ~cs[l].retired)
      BY DEF Shared
  <1>1. /\ changed \in Seq(Conn) /\ DOMAIN changed = DOMAIN cs
        /\ changed[k] = c /\ \A l \in DOMAIN cs : l # k => changed[l] = cs[l]
      BY <1>0, ExceptSeq
  <1>2. \A q \in Readers : ReaderOK(who, due, changed, rs[q])
      BY <1>1 DEF ReaderOK
  <1>3. ASSUME NEW l \in DOMAIN cs, l # k
        PROVE  SlotsOK(rs, l, cs[l])
    <2>1. Holding(rs, l) = Holding(rd, l) /\ Queueing(rs, l) = Queueing(rd, l)
        BY <1>3 DEF Holding, Queueing
    <2>2. QED
        BY <1>0, <1>3, <2>1 DEF SlotsOK
  <1>4. \A l \in DOMAIN changed : SlotsOK(rs, l, changed[l]) /\ (changed[l].state = "opening" => ~changed[l].retired)
      BY <1>0, <1>1, <1>3
  <1>5. QED
      BY <1>1, <1>2, <1>4 DEF Shared

\* A slot that is given back goes to the first in the queue.
Freeing(who, due, en, cs, rd, k, c, r, to, en2, freed, rm, rs) ==
    /\ Shared(who, due, en, cs, rd)
    /\ k \in DOMAIN cs /\ r \in Readers /\ rd[r].conn = k /\ rd[r].op \in {"admitted", "running", "late"}
    /\ to \in Reader /\ to.op = "none" /\ ReaderOK(who, due, cs, to)
    /\ c \in Conn /\ c.state = cs[k].state /\ c.identity = cs[k].identity
    /\ c.active = cs[k].active /\ c.waiting = cs[k].waiting
    /\ freed = [cs EXCEPT ![k] = Freed(c)]
    /\ en2 \in Entry /\ EntryOK(en2, freed)
    /\ rm = [rd EXCEPT ![r] = to]
    /\ rs = [q \in Readers |-> IF q \in Admitted(cs[k]) THEN [rm[q] EXCEPT !.op = "admitted"] ELSE rm[q]]

LEMMA SlotFreed ==
    ASSUME NEW who, NEW due, NEW en, NEW cs, NEW rd, NEW k, NEW c, NEW r, NEW to, NEW en2, NEW freed, NEW rm, NEW rs,
           Freeing(who, due, en, cs, rd, k, c, r, to, en2, freed, rm, rs)
    PROVE  Shared(who, due, en2, freed, rs)
  <1> USE DEF Freeing
  <1>0. /\ cs \in Seq(Conn) /\ rd \in [Readers -> Reader]
        /\ \A q \in Readers : ReaderOK(who, due, cs, rd[q])
        /\ SlotsOK(rd, k, cs[k]) /\ cs[k] \in Conn
      BY DEF Shared
  <1>1. rm \in [Readers -> Reader] /\ rm[r] = to /\ \A q \in Readers : q # r => rm[q] = rd[q]
      BY <1>0
  <1>2. c.state # "opening"
      BY <1>0, ReadsHaveConns
  <1>3. r \in Holding(rd, k) /\ r \notin Queueing(rd, k)
      BY DEF Holding, Queueing
  <1>4. CASE c.waiting = <<>>
    <2>1. Freed(c) = [c EXCEPT !.active = c.active - 1] /\ Admitted(cs[k]) = {}
        BY <1>4 DEF Freed, Admitted
    <2>2. PICK d : d = [c EXCEPT !.active = c.active - 1]
        OBVIOUS
    <2>3. /\ d \in Conn /\ d.state = c.state /\ d.identity = c.identity /\ d.waiting = <<>> /\ d.active = c.active - 1
        BY <1>4, <2>2 DEF Conn
    <2>4. rs = rm
        BY <1>1, <2>1
    <2>5. \A q \in Readers : ReaderOK(who, due, cs, rs[q])
        BY <1>0, <1>1, <2>4
    <2>6. SlotsOK(rs, k, d)
      <3>1. CASE c.state = "closed"
          BY <2>3, <3>1 DEF SlotsOK
      <3>2. CASE c.state # "closed"
        <4>1. Holding(rs, k) = Holding(rd, k) \ {r} /\ Queueing(rs, k) = Queueing(rd, k)
            BY <1>1, <2>4 DEF Holding, Queueing
        <4>2. Cardinality(Holding(rd, k) \ {r}) = Cardinality(Holding(rd, k)) - 1
            BY <1>3, HoldersCounted, FS_RemoveElement
        <4>3. /\ IsInjective(<<>>) /\ Range(<<>>) = Queueing(rd, k)
              /\ c.active = Cardinality(Holding(rd, k)) /\ c.active <= ChannelLimit
            BY <1>0, <1>4, <3>2 DEF SlotsOK
        <4>4. c.active \in Int /\ ChannelLimit \in Nat
            BY DEF Conn
        <4>5. d.active = Cardinality(Holding(rs, k)) /\ d.active <= ChannelLimit
          <5>1. Cardinality(Holding(rs, k)) = Cardinality(Holding(rd, k) \ {r})
              BY <4>1, Zenon
          <5>2. QED
              BY <2>3, <4>2, <4>3, <4>4, <5>1
        <4>6. IsInjective(d.waiting) /\ Range(d.waiting) = Queueing(rs, k)
            BY <2>3, <4>1, <4>3
        <4>7. QED
            BY <2>3, <3>2, <4>5, <4>6 DEF SlotsOK
      <3>3. QED
          BY <3>1, <3>2
    <2>7. \A q \in Readers : \/ rs[q].conn = rd[q].conn /\ rs[q].op = rd[q].op
                             \/ /\ rd[q].conn = k \/ rd[q].op = "none"
                                /\ rs[q].conn = k \/ rs[q].op = "none"
        BY <1>1, <2>4
    <2>8. freed = [cs EXCEPT ![k] = d] /\ rs \in [Readers -> Reader]
        BY <1>1, <2>1, <2>2, <2>4
    <2>9. d.state = cs[k].state /\ d.identity = cs[k].identity /\ d.state # "opening"
        BY <1>2, <2>3
    <2>10. SlotChange(who, due, en, cs, rd, k, d, en2, rs)
        BY <2>3, <2>5, <2>6, <2>7, <2>8, <2>9 DEF SlotChange
    <2>11. Shared(who, due, en2, [cs EXCEPT ![k] = d], rs)
        BY <2>10, SlotsChange
    <2>12. QED
        BY <2>8, <2>11, Zenon
  <1>5. CASE c.waiting # <<>>
    <2>1. PICK first : first = Head(c.waiting)
        OBVIOUS
    <2>2. Freed(c) = [c EXCEPT !.waiting = Tail(c.waiting)] /\ Admitted(cs[k]) = {first}
        BY <1>5, <2>1 DEF Freed, Admitted
    <2>3. c.state # "closed"
        BY <1>0, <1>5 DEF SlotsOK
    <2>4. /\ IsInjective(c.waiting) /\ Range(c.waiting) = Queueing(rd, k) /\ c.active = Cardinality(Holding(rd, k))
          /\ c.active = ChannelLimit
        BY <1>0, <1>5, <2>3 DEF SlotsOK
    <2>5. c.waiting \in Seq(Readers)
        BY DEF Conn
    <2>6. /\ Tail(c.waiting) \in Seq(Readers) /\ IsInjective(Tail(c.waiting))
          /\ first \in Queueing(rd, k) /\ Range(Tail(c.waiting)) = Queueing(rd, k) \ {first}
        BY <1>5, <2>1, <2>4, <2>5, TailGone
    <2>7. PICK d : d = [c EXCEPT !.waiting = Tail(c.waiting)]
        OBVIOUS
    <2>8. /\ d \in Conn /\ d.state = c.state /\ d.identity = c.identity /\ d.waiting = Tail(c.waiting)
          /\ d.active = c.active
        BY <2>6, <2>7 DEF Conn
    <2>9. /\ first \in Readers /\ first # r /\ rd[first].conn = k /\ rd[first].op = "queued" /\ rd[first] \in Reader
        BY <1>0, <1>3, <2>6 DEF Queueing
    <2>10. PICK on : on = [rd[first] EXCEPT !.op = "admitted"]
        OBVIOUS
    <2>11. /\ on \in Reader /\ on.pc = rd[first].pc /\ on.conn = k /\ on.op = "admitted" /\ on.identity = rd[first].identity
        BY <2>9, <2>10 DEF Reader, ReadOps
    <2>12. /\ rs \in [Readers -> Reader] /\ rs[first] = on /\ rs[r] = to
           /\ \A q \in Readers : q # r /\ q # first => rs[q] = rd[q]
        BY <1>1, <2>2, <2>9, <2>10, <2>11
    <2>13. ReaderOK(who, due, cs, on)
      <3>1. ReaderOK(who, due, cs, rd[first])
          BY <1>0, <2>9
      <3>2. QED
          BY <2>9, <2>11, <3>1 DEF ReaderOK
    <2>14. \A q \in Readers : ReaderOK(who, due, cs, rs[q])
        BY <1>0, <2>12, <2>13
    <2>15. Holding(rs, k) = (Holding(rd, k) \ {r}) \cup {first} /\ Queueing(rs, k) = Queueing(rd, k) \ {first}
      <3>1. ASSUME NEW q \in Readers
            PROVE  /\ q \in Holding(rs, k) <=> q \in (Holding(rd, k) \ {r}) \cup {first}
                   /\ q \in Queueing(rs, k) <=> q \in Queueing(rd, k) \ {first}
        <4>1. CASE q = r
            BY <2>9, <2>12, <4>1 DEF Holding, Queueing
        <4>2. CASE q = first
            BY <2>9, <2>11, <2>12, <4>2 DEF Holding, Queueing
        <4>3. CASE q # r /\ q # first
            BY <2>12, <4>3 DEF Holding, Queueing
        <4>4. QED
            BY <4>1, <4>2, <4>3
      <3>2. Holding(rs, k) \subseteq Readers /\ Holding(rd, k) \subseteq Readers
          BY DEF Holding
      <3>3. Queueing(rs, k) \subseteq Readers /\ Queueing(rd, k) \subseteq Readers
          BY DEF Queueing
      <3>4. QED
          BY <2>9, <3>1, <3>2, <3>3
    <2>16. Cardinality((Holding(rd, k) \ {r}) \cup {first}) = Cardinality(Holding(rd, k))
      <3>1. IsFiniteSet(Holding(rd, k)) /\ Cardinality(Holding(rd, k)) \in Nat
          BY HoldersCounted
      <3>2. first \notin Holding(rd, k)
          BY <2>9 DEF Holding
      <3>3. /\ IsFiniteSet(Holding(rd, k) \ {r})
            /\ Cardinality(Holding(rd, k) \ {r}) = Cardinality(Holding(rd, k)) - 1
          BY <1>3, <3>1, FS_RemoveElement
      <3>4. Cardinality((Holding(rd, k) \ {r}) \cup {first}) = Cardinality(Holding(rd, k) \ {r}) + 1
          BY <3>2, <3>3, FS_AddElement
      <3>5. QED
          BY <3>1, <3>3, <3>4
    <2>17. SlotsOK(rs, k, d)
      <3>1. ChannelLimit \in Nat
          OBVIOUS
      <3>2. d.active = Cardinality(Holding(rs, k)) /\ d.active = ChannelLimit /\ d.active <= ChannelLimit
        <4>1. Cardinality(Holding(rs, k)) = Cardinality((Holding(rd, k) \ {r}) \cup {first})
            BY <2>15, Zenon
        <4>2. QED
            BY <2>4, <2>8, <2>16, <3>1, <4>1
      <3>3. IsInjective(d.waiting) /\ Range(d.waiting) = Queueing(rs, k)
          BY <2>6, <2>8, <2>15
      <3>4. QED
          BY <2>3, <2>8, <3>2, <3>3 DEF SlotsOK
    <2>18. \A q \in Readers : \/ rs[q].conn = rd[q].conn /\ rs[q].op = rd[q].op
                              \/ /\ rd[q].conn = k \/ rd[q].op = "none"
                                 /\ rs[q].conn = k \/ rs[q].op = "none"
      <3>1. SUFFICES ASSUME NEW q \in Readers
                     PROVE  \/ rs[q].conn = rd[q].conn /\ rs[q].op = rd[q].op
                            \/ /\ rd[q].conn = k \/ rd[q].op = "none"
                               /\ rs[q].conn = k \/ rs[q].op = "none"
          OBVIOUS
      <3>2. CASE q = r
          BY <2>12, <3>2
      <3>3. CASE q = first
          BY <2>9, <2>11, <2>12, <3>3
      <3>4. CASE q # r /\ q # first
          BY <2>12, <3>4
      <3>5. QED
          BY <3>2, <3>3, <3>4
    <2>19. freed = [cs EXCEPT ![k] = d]
        BY <2>2, <2>7
    <2>20. d.state = cs[k].state /\ d.identity = cs[k].identity /\ d.state # "opening"
        BY <1>2, <2>8
    <2>21. d \in Conn /\ rs \in [Readers -> Reader]
        BY <2>8, <2>12
    <2>22. SlotChange(who, due, en, cs, rd, k, d, en2, rs)
        BY <2>14, <2>17, <2>18, <2>19, <2>20, <2>21 DEF SlotChange
    <2>23. Shared(who, due, en2, [cs EXCEPT ![k] = d], rs)
        BY <2>22, SlotsChange
    <2>24. QED
        BY <2>19, <2>23, Zenon
  <1>6. QED
      BY <1>4, <1>5

\* A reader with a lease takes a free slot, or waits in the queue.
LEMMA SlotTaken ==
    ASSUME NEW who, NEW due, NEW en, NEW cs, NEW rd, Shared(who, due, en, cs, rd),
           NEW r \in Readers, rd[r].pc = "leased", rd[r].op = "none",
           NEW k, k = rd[r].conn, cs[k].state # "closed"
    PROVE  IF cs[k].active < ChannelLimit
             THEN Shared(who, due, en, [cs EXCEPT ![k].active = @ + 1], [rd EXCEPT ![r].op = "admitted"])
             ELSE Shared(who, due, en, [cs EXCEPT ![k].waiting = Append(@, r)], [rd EXCEPT ![r].op = "queued"])
  <1>0. /\ cs \in Seq(Conn) /\ rd \in [Readers -> Reader] /\ en \in Entry /\ EntryOK(en, cs)
        /\ \A q \in Readers : ReaderOK(who, due, cs, rd[q])
        /\ k \in DOMAIN cs /\ cs[k].state # "opening" /\ cs[k] \in Conn /\ SlotsOK(rd, k, cs[k])
      BY DEF Shared, ReaderOK
  <1>1. PICK op \in {"admitted", "queued"} : op = IF cs[k].active < ChannelLimit THEN "admitted" ELSE "queued"
      OBVIOUS
  <1>2. PICK to : to = [rd[r] EXCEPT !.op = op]
      OBVIOUS
  <1>3. to \in Reader /\ to.op = op /\ to.conn = k /\ to.pc = "leased" /\ to.identity = rd[r].identity
      BY <1>0, <1>1, <1>2 DEF Reader, ReadOps
  <1>4. PICK rs : rs = [rd EXCEPT ![r] = to]
      OBVIOUS
  <1>5. rs \in [Readers -> Reader] /\ rs[r] = to /\ \A q \in Readers : q # r => rs[q] = rd[q]
      BY <1>0, <1>3, <1>4
  <1>6. rs = [rd EXCEPT ![r].op = op]
      BY <1>2, <1>4
  <1>7. ReaderOK(who, due, cs, to)
    <2>1. ReaderOK(who, due, cs, rd[r])
        BY <1>0
    <2>2. QED
        BY <1>0, <1>3, <2>1 DEF ReaderOK
  <1>8. \A q \in Readers : ReaderOK(who, due, cs, rs[q])
      BY <1>0, <1>5, <1>7
  <1>9. \A q \in Readers : \/ rs[q].conn = rd[q].conn /\ rs[q].op = rd[q].op
                           \/ /\ rd[q].conn = k \/ rd[q].op = "none"
                              /\ rs[q].conn = k \/ rs[q].op = "none"
      BY <1>3, <1>5
  <1>10. /\ IsInjective(cs[k].waiting) /\ Range(cs[k].waiting) = Queueing(rd, k)
         /\ cs[k].active = Cardinality(Holding(rd, k)) /\ cs[k].active <= ChannelLimit
         /\ cs[k].waiting # <<>> => cs[k].active = ChannelLimit
      BY <1>0 DEF SlotsOK
  <1>11. r \notin Holding(rd, k) /\ r \notin Queueing(rd, k)
      BY DEF Holding, Queueing
  <1>12. cs[k].active \in Int /\ ChannelLimit \in Nat /\ cs[k].waiting \in Seq(Readers)
      BY <1>0 DEF Conn
  <1>13. CASE cs[k].active < ChannelLimit
    <2>0. PICK more \in Int : more = cs[k].active + 1
        BY <1>12
    <2>1. PICK c : c = [cs[k] EXCEPT !.active = more]
        OBVIOUS
    <2>2. /\ c \in Conn /\ c.state = cs[k].state /\ c.identity = cs[k].identity /\ c.active = cs[k].active + 1
          /\ c.waiting = cs[k].waiting /\ c.retired = cs[k].retired
      <3>1. /\ c \in Conn /\ c.state = cs[k].state /\ c.identity = cs[k].identity /\ c.active = more
            /\ c.waiting = cs[k].waiting /\ c.retired = cs[k].retired
          BY <1>0, <2>1 DEF Conn
      <3>2. QED
          BY <2>0, <3>1
    <2>3. op = "admitted"
        BY <1>1, <1>13
    <2>4. Holding(rs, k) = Holding(rd, k) \cup {r} /\ Queueing(rs, k) = Queueing(rd, k)
        BY <1>3, <1>5, <2>3 DEF Holding, Queueing
    <2>5. Cardinality(Holding(rs, k)) = Cardinality(Holding(rd, k)) + 1
      <3>1. Cardinality(Holding(rd, k) \cup {r}) = Cardinality(Holding(rd, k)) + 1
          BY <1>11, HoldersCounted, FS_AddElement
      <3>2. Cardinality(Holding(rs, k)) = Cardinality(Holding(rd, k) \cup {r})
          BY <2>4, Zenon
      <3>3. QED
          BY <3>1, <3>2
    <2>6. c.waiting = <<>>
        BY <1>10, <1>12, <1>13, <2>2
    <2>7. c.active = Cardinality(Holding(rs, k)) /\ c.active <= ChannelLimit
        BY <1>10, <1>12, <1>13, <2>2, <2>5
    <2>8. SlotsOK(rs, k, c)
      <3>1. IsInjective(c.waiting) /\ Range(c.waiting) = Queueing(rs, k)
          BY <1>10, <2>2, <2>4
      <3>2. QED
          BY <2>2, <2>6, <2>7, <3>1 DEF SlotsOK
    <2>9. EntryOK(en, [cs EXCEPT ![k] = c])
        BY <1>0, <2>2 DEF EntryOK
    <2>10. c.state # "opening"
        BY <1>0, <2>2
    <2>11. SlotChange(who, due, en, cs, rd, k, c, en, rs)
        BY <1>0, <1>5, <1>8, <1>9, <2>2, <2>8, <2>9, <2>10 DEF SlotChange
    <2>12. Shared(who, due, en, [cs EXCEPT ![k] = c], rs)
        BY <2>11, SlotsChange
    <2>13. [cs EXCEPT ![k] = c] = [cs EXCEPT ![k].active = @ + 1]
        BY <2>0, <2>1
    <2>14. rs = [rd EXCEPT ![r].op = "admitted"]
        BY <1>6, <2>3
    <2>15. Shared(who, due, en, [cs EXCEPT ![k].active = @ + 1], [rd EXCEPT ![r].op = "admitted"])
        BY <2>12, <2>13, <2>14, Zenon
    <2>16. QED
        BY <1>13, <2>15
  <1>14. CASE ~(cs[k].active < ChannelLimit)
    <2>1. PICK c : c = [cs[k] EXCEPT !.waiting = Append(cs[k].waiting, r)]
        OBVIOUS
    <2>2. /\ Append(cs[k].waiting, r) \in Seq(Readers) /\ IsInjective(Append(cs[k].waiting, r))
          /\ Range(Append(cs[k].waiting, r)) = Queueing(rd, k) \cup {r}
        BY <1>10, <1>11, <1>12, Queued
    <2>3. /\ c \in Conn /\ c.state = cs[k].state /\ c.identity = cs[k].identity /\ c.active = cs[k].active
          /\ c.waiting = Append(cs[k].waiting, r) /\ c.retired = cs[k].retired
        BY <1>0, <2>1, <2>2 DEF Conn
    <2>4. op = "queued"
        BY <1>1, <1>14
    <2>5. Holding(rs, k) = Holding(rd, k) /\ Queueing(rs, k) = Queueing(rd, k) \cup {r}
        BY <1>3, <1>5, <2>4 DEF Holding, Queueing
    <2>6. c.active = Cardinality(Holding(rs, k)) /\ c.active = ChannelLimit /\ c.active <= ChannelLimit
      <3>1. Cardinality(Holding(rs, k)) = Cardinality(Holding(rd, k))
          BY <2>5, Zenon
      <3>2. QED
          BY <1>10, <1>12, <1>14, <2>3, <3>1
    <2>7. SlotsOK(rs, k, c)
      <3>1. IsInjective(c.waiting) /\ Range(c.waiting) = Queueing(rs, k)
          BY <2>2, <2>3, <2>5
      <3>2. QED
          BY <2>3, <2>6, <3>1 DEF SlotsOK
    <2>8. EntryOK(en, [cs EXCEPT ![k] = c])
        BY <1>0, <2>3 DEF EntryOK
    <2>9. c.state # "opening"
        BY <1>0, <2>3
    <2>10. SlotChange(who, due, en, cs, rd, k, c, en, rs)
        BY <1>0, <1>5, <1>8, <1>9, <2>3, <2>7, <2>8, <2>9 DEF SlotChange
    <2>11. Shared(who, due, en, [cs EXCEPT ![k] = c], rs)
        BY <2>10, SlotsChange
    <2>12. [cs EXCEPT ![k] = c] = [cs EXCEPT ![k].waiting = Append(@, r)]
        BY <2>1
    <2>13. rs = [rd EXCEPT ![r].op = "queued"]
        BY <1>6, <2>4
    <2>14. Shared(who, due, en, [cs EXCEPT ![k].waiting = Append(@, r)], [rd EXCEPT ![r].op = "queued"])
        BY <2>11, <2>12, <2>13, Zenon
    <2>15. QED
        BY <1>14, <2>14
  <1>15. QED
      BY <1>13, <1>14

\* A reader gives up its read: it leaves the queue, or its admission is left to be found out late.
LEMMA SlotLeft ==
    ASSUME NEW who, NEW due, NEW en, NEW cs, NEW rd, Shared(who, due, en, cs, rd),
           NEW k \in DOMAIN cs, cs[k].state # "opening",
           NEW r \in Readers, rd[r].conn = k,
           NEW to \in Reader, ReaderOK(who, due, cs, to),
           \/ rd[r].op \in {"none", "queued"} /\ to.op = "none"
           \/ rd[r].op \in {"admitted", "late"} /\ to.op = "late" /\ to.conn = k,
           NEW c \in Conn, c.state = cs[k].state, c.identity = cs[k].identity, c.active = cs[k].active,
           c.retired = cs[k].retired, c.waiting = RemoveFirst(cs[k].waiting, r)
    PROVE  Shared(who, due, en, [cs EXCEPT ![k] = c], [rd EXCEPT ![r] = to])
  <1>0. /\ cs \in Seq(Conn) /\ rd \in [Readers -> Reader] /\ en \in Entry /\ EntryOK(en, cs)
        /\ \A q \in Readers : ReaderOK(who, due, cs, rd[q])
        /\ cs[k] \in Conn /\ SlotsOK(rd, k, cs[k])
      BY DEF Shared
  <1>1. PICK rs : rs = [rd EXCEPT ![r] = to]
      OBVIOUS
  <1>2. rs \in [Readers -> Reader] /\ rs[r] = to /\ \A q \in Readers : q # r => rs[q] = rd[q]
      BY <1>0, <1>1
  <1>3. \A q \in Readers : ReaderOK(who, due, cs, rs[q])
      BY <1>0, <1>2
  <1>4. \A q \in Readers : \/ rs[q].conn = rd[q].conn /\ rs[q].op = rd[q].op
                           \/ /\ rd[q].conn = k \/ rd[q].op = "none"
                              /\ rs[q].conn = k \/ rs[q].op = "none"
      BY <1>2
  <1>5. Holding(rs, k) = Holding(rd, k) /\ Queueing(rs, k) = Queueing(rd, k) \ {r}
    <2>1. ASSUME NEW q \in Readers
          PROVE  /\ q \in Holding(rs, k) <=> q \in Holding(rd, k)
                 /\ q \in Queueing(rs, k) <=> q \in Queueing(rd, k) \ {r}
      <3>1. CASE q = r
          BY <1>2, <3>1 DEF Holding, Queueing
      <3>2. CASE q # r
          BY <1>2, <3>2 DEF Holding, Queueing
      <3>3. QED
          BY <3>1, <3>2
    <2>2. /\ Holding(rs, k) \subseteq Readers /\ Holding(rd, k) \subseteq Readers
          /\ Queueing(rs, k) \subseteq Readers /\ Queueing(rd, k) \subseteq Readers
        BY DEF Holding, Queueing
    <2>3. QED
        BY <2>1, <2>2
  <1>6. SlotsOK(rs, k, c)
    <2>1. CASE c.state = "closed"
      <3>1. cs[k].waiting = <<>>
          BY <1>0, <2>1 DEF SlotsOK
      <3>2. RemoveFirst(<<>>, r) = <<>>
          BY DEF RemoveFirst
      <3>3. QED
          BY <2>1, <3>1, <3>2 DEF SlotsOK
    <2>2. CASE c.state # "closed"
      <3>1. /\ IsInjective(cs[k].waiting) /\ Range(cs[k].waiting) = Queueing(rd, k)
            /\ cs[k].active = Cardinality(Holding(rd, k)) /\ cs[k].active <= ChannelLimit
            /\ cs[k].waiting # <<>> => cs[k].active = ChannelLimit
          BY <1>0, <2>2 DEF SlotsOK
      <3>2. cs[k].waiting \in Seq(Readers)
          BY <1>0 DEF Conn
      <3>3. IsInjective(c.waiting) /\ Range(c.waiting) = Queueing(rs, k)
          BY <1>5, <3>1, <3>2, Unqueued
      <3>4. RemoveFirst(<<>>, r) = <<>>
          BY DEF RemoveFirst
      <3>5. c.waiting # <<>> => c.active = ChannelLimit
          BY <3>1, <3>4
      <3>6. Cardinality(Holding(rs, k)) = Cardinality(Holding(rd, k))
          BY <1>5, Zenon
      <3>7. QED
          BY <2>2, <3>1, <3>3, <3>5, <3>6 DEF SlotsOK
    <2>3. QED
        BY <2>1, <2>2
  <1>7. EntryOK(en, [cs EXCEPT ![k] = c])
      BY <1>0 DEF EntryOK
  <1>8. SlotChange(who, due, en, cs, rd, k, c, en, rs)
      BY <1>0, <1>2, <1>3, <1>4, <1>6, <1>7 DEF SlotChange
  <1>9. Shared(who, due, en, [cs EXCEPT ![k] = c], rs)
      BY <1>8, SlotsChange
  <1>10. QED
      BY <1>1, <1>9, Zenon

-----------------------------------------------------------------------------
(* The steps. *)

\* What is used of the invariant.
LEMMA Parts ==
    ASSUME ReadInv
    PROVE  /\ identity \in Nat /\ evictDue \in BOOLEAN /\ reads \in Nat
           /\ Shared(identity, evictDue, entry, conns, reader)
           /\ entry \in Entry /\ conns \in Seq(Conn) /\ reader \in [Readers -> Reader]
           /\ \A r \in Readers : reader[r] \in Reader /\ ReaderOK(identity, evictDue, conns, reader[r])
           /\ \A k \in DOMAIN conns : /\ conns[k] \in Conn /\ SlotsOK(reader, k, conns[k])
                                      /\ k \in Nat \ {None}
                                      /\ conns[k].state = "opening" => ~conns[k].retired
           /\ EntryOK(entry, conns)
           /\ NoneLeftOpen
  BY DEF ReadInv, Shared, None

\* What was open and held still is.
LEMMA StillHeld ==
    ASSUME NoneLeftOpen,
           \A k \in DOMAIN conns' : conns'[k].state = "up" =>
               \/ entry'.installed = k
               \/ Leases(k)' # {}
               \/ k \in DOMAIN conns /\ conns[k].state = "up" /\ entry.installed # k /\ Leases(k) \subseteq Leases(k)'
    PROVE  NoneLeftOpen'
  BY DEF NoneLeftOpen

\* A reader that moves on keeps the leases there are.
LEMMA Moved ==
    ASSUME ReadInv, NEW r \in Readers, NEW to \in Reader, ReaderOK(identity, evictDue, conns, to),
           \/ reader[r].op = "none" /\ to.op = "none"
           \/ reader[r].op = "admitted" /\ to.op = "running" /\ to.conn = reader[r].conn,
           reader[r].pc \in {"check", "leased"} => to.pc \in {"check", "leased"} /\ to.conn = reader[r].conn,
           reader' = [reader EXCEPT ![r] = to], UNCHANGED <<identity, evictDue, entry, conns>>, reads' \in Nat
    PROVE  ReadInv'
  <1>1. Shared(identity, evictDue, entry, conns, reader')
      BY Parts, ReaderMoves
  <1>2. reader \in [Readers -> Reader] /\ NoneLeftOpen /\ identity \in Nat /\ evictDue \in BOOLEAN
      BY Parts
  <1>3. \A k : Leases(k) \subseteq Leases(k)'
      BY <1>2 DEF Leases
  <1>4. NoneLeftOpen'
      BY <1>2, <1>3, StillHeld DEF NoneLeftOpen
  <1>5. QED
      BY <1>1, <1>2, <1>4 DEF ReadInv

LEMMA ReaderSteps ==
    ASSUME ReadInv, NEW r \in Readers, ReadRow(r) \/ WaitEnds(r)
    PROVE  ReadInv'
  <1>0. /\ identity \in Nat /\ evictDue \in BOOLEAN /\ reads \in Nat /\ reader \in [Readers -> Reader]
        /\ reader[r] \in Reader /\ ReaderOK(identity, evictDue, conns, reader[r])
        /\ \A k \in DOMAIN conns : conns[k] \in Conn
      BY Parts
  <1>1. CASE ReadRow(r)
    <2>1. PICK to : to = [NoReader EXCEPT !.pc = "lease", !.identity = identity]
        OBVIOUS
    <2>2. to \in Reader /\ to.op = "none" /\ to.pc = "lease"
        BY <1>0, <2>1 DEF NoReader, None, Reader, ReaderPcs, ReadOps
    <2>3. ReaderOK(identity, evictDue, conns, to)
        BY <2>2 DEF ReaderOK
    <2>4. /\ reader[r].op = "none" /\ reader[r].pc = "idle" /\ reader' = [reader EXCEPT ![r] = to]
          /\ UNCHANGED <<identity, evictDue, entry, conns>> /\ reads' = reads + 1
        BY <1>1, <2>1 DEF ReadRow
    <2>5. reads' \in Nat
        BY <1>0, <2>4
    <2>6. QED
        BY <2>2, <2>3, <2>4, <2>5, Moved
  <1>2. CASE WaitEnds(r)
    <2>1. PICK k : k = reader[r].conn
        OBVIOUS
    <2>2. /\ reader[r].pc = "wait" /\ conns[k].state # "opening" /\ UNCHANGED <<identity, evictDue, entry, conns, reads>>
          /\ \/ IsUsable(k, reader[r].identity) /\ reader' = [reader EXCEPT ![r] = Checkout(r, k)]
             \/ \E pc \in {"idle", "lease"} : reader' = [reader EXCEPT ![r].pc = pc, ![r].conn = None]
        BY <1>2, <2>1 DEF WaitEnds
    <2>3. reader[r].op = "none" /\ k \in DOMAIN conns /\ k \in Nat
        BY <1>0, <2>1, <2>2 DEF ReaderOK, Reader
    <2>4. CASE IsUsable(k, reader[r].identity) /\ reader' = [reader EXCEPT ![r] = Checkout(r, k)]
      <3>1. PICK to : to = Checkout(r, k)
          OBVIOUS
      <3>2. /\ to \in Reader /\ to.op = "none" /\ to.pc = "check" /\ to.conn = k /\ to.identity = reader[r].identity
          BY <1>0, <2>3, <3>1 DEF Checkout, Reader, ReaderPcs
      <3>3. conns[k].identity = reader[r].identity
          BY <2>4 DEF IsUsable
      <3>4. ReaderOK(identity, evictDue, conns, to)
          BY <2>2, <2>3, <3>2, <3>3 DEF ReaderOK
      <3>5. reader' = [reader EXCEPT ![r] = to]
          BY <2>4, <3>1
      <3>6. QED
          BY <1>0, <2>2, <2>3, <3>2, <3>4, <3>5, Moved
    <2>5. ASSUME NEW pc \in {"idle", "lease"}, reader' = [reader EXCEPT ![r].pc = pc, ![r].conn = None]
          PROVE  ReadInv'
      <3>1. PICK to : to = [reader[r] EXCEPT !.pc = pc, !.conn = None]
          OBVIOUS
      <3>2. to \in Reader /\ to.op = "none" /\ to.pc = pc
          BY <1>0, <2>3, <3>1 DEF None, Reader, ReaderPcs
      <3>3. ReaderOK(identity, evictDue, conns, to)
          BY <3>2 DEF ReaderOK
      <3>4. reader' = [reader EXCEPT ![r] = to]
          BY <2>5, <3>1
      <3>5. QED
          BY <1>0, <2>2, <2>3, <3>2, <3>3, <3>4, Moved
    <2>6. QED
        BY <2>2, <2>4, <2>5
  <1>3. QED
      BY <1>1, <1>2

\* A reader joins the opening under way or begins one, whatever was closed before.
LEMMA OpensOrJoins ==
    ASSUME ReadInv, NEW r \in Readers, NEW en, NEW cs, NEW rs, Shared(identity, evictDue, en, cs, rs),
           en.pending = entry.pending, Len(cs) = Len(conns), rs[r] = reader[r], reader[r].pc = "lease",
           OpenOrJoin(r, en, cs, rs)
    PROVE  /\ Shared(identity, evictDue, entry', conns', reader')
           /\ entry'.installed = en.installed
           /\ \A q \in Readers : q # r => reader'[q] = rs[q]
           /\ \A k \in DOMAIN conns' : conns'[k].state = "up" => k \in DOMAIN cs /\ cs[k].state = "up"
  <1>0. /\ reader[r] \in Reader /\ reader[r].identity \in Nat /\ en \in Entry /\ en.generation \in Nat
        /\ rs \in [Readers -> Reader] /\ cs \in Seq(Conn) /\ EntryOK(en, cs)
        /\ ReaderOK(identity, evictDue, cs, rs[r]) /\ reader[r].op = "none"
      BY Parts DEF Shared, ReaderOK, Reader, Entry
  <1>1. CASE CanJoin(reader[r].identity)
    <2>1. /\ en.pending # None /\ entry' = en /\ conns' = cs
          /\ reader' = [rs EXCEPT ![r].pc = "wait", ![r].conn = en.pending]
        BY <1>1 DEF OpenOrJoin, CanJoin
    <2>2. en.pending \in DOMAIN cs /\ en.pending \in Nat
        BY <1>0, <2>1 DEF EntryOK, Entry
    <2>3. PICK to : to = [rs[r] EXCEPT !.pc = "wait", !.conn = en.pending]
        OBVIOUS
    <2>4. to \in Reader /\ to.op = "none" /\ to.pc = "wait" /\ to.conn = en.pending
        BY <1>0, <2>2, <2>3 DEF Reader, ReaderPcs
    <2>5. ReaderOK(identity, evictDue, cs, to)
        BY <2>2, <2>4 DEF ReaderOK
    <2>6. reader' = [rs EXCEPT ![r] = to]
        BY <2>1, <2>3
    <2>7. Shared(identity, evictDue, en, cs, reader')
        BY <1>0, <2>4, <2>5, <2>6, ReaderMoves
    <2>8. QED
        BY <1>0, <2>1, <2>6, <2>7
  <1>2. CASE ~CanJoin(reader[r].identity)
    <2>1. /\ conns' = Append(cs, NewConn(reader[r].identity, en.generation))
          /\ entry' = [en EXCEPT !.pending = Len(cs) + 1]
          /\ reader' = [rs EXCEPT ![r].pc = "wait", ![r].conn = Len(cs) + 1]
        BY <1>2 DEF OpenOrJoin
    <2>2. /\ Shared(identity, evictDue, entry', conns', rs)
          /\ Len(cs) + 1 \in DOMAIN conns' /\ Len(cs) + 1 \in Nat
          /\ \A k \in DOMAIN cs : k \in DOMAIN conns' /\ conns'[k] = cs[k]
          /\ \A k \in DOMAIN conns' : k \in DOMAIN cs \/ conns'[k].state = "opening"
      <3>1. OtherOpens(en, cs, reader[r].identity, en.generation, entry', conns')
          BY <2>1, Zenon DEF OtherOpens
      <3>2. reader[r].identity \in Nat /\ en.generation \in Nat
          BY <1>0
      <3>3. PICK opened, to : opened = conns' /\ to = entry'
          OBVIOUS
      <3>4. OtherOpens(en, cs, reader[r].identity, en.generation, to, opened)
          BY <3>1, <3>3, Zenon
      <3>5. /\ Shared(identity, evictDue, to, opened, rs)
            /\ Len(cs) + 1 \in DOMAIN opened /\ Len(cs) + 1 \in Nat
            /\ \A k \in DOMAIN cs : k \in DOMAIN opened /\ opened[k] = cs[k]
            /\ \A k \in DOMAIN opened : k \in DOMAIN cs \/ opened[k].state = "opening"
          BY <3>2, <3>4, ConnOpens
      <3>6. QED
          BY <3>3, <3>5, Zenon
    <2>3. PICK to : to = [rs[r] EXCEPT !.pc = "wait", !.conn = Len(cs) + 1]
        OBVIOUS
    <2>4. to \in Reader /\ to.op = "none" /\ to.pc = "wait" /\ to.conn = Len(cs) + 1
        BY <1>0, <2>2, <2>3 DEF Reader, ReaderPcs
    <2>5. ReaderOK(identity, evictDue, conns', to)
        BY <2>2, <2>4 DEF ReaderOK
    <2>6. reader' = [rs EXCEPT ![r] = to]
        BY <2>1, <2>3
    <2>7. Shared(identity, evictDue, entry', conns', reader')
        BY <1>0, <2>2, <2>4, <2>5, <2>6, ReaderMoves
    <2>8. entry'.installed = en.installed
        BY <1>0, <2>1 DEF Entry
    <2>9. \A k \in DOMAIN conns' : conns'[k].state = "up" => k \in DOMAIN cs /\ cs[k].state = "up"
        BY <2>2
    <2>10. QED
        BY <1>0, <2>6, <2>7, <2>8, <2>9
  <1>3. QED
      BY <1>1, <1>2

\* lease: the installed connection, or another once it is of no use or too old.
LEMMA LeaseStep ==
    ASSUME ReadInv, NEW r \in Readers, Lease(r)
    PROVE  ReadInv'
  <1>0. /\ identity \in Nat /\ evictDue \in BOOLEAN /\ reads \in Nat
        /\ entry \in Entry /\ conns \in Seq(Conn) /\ reader \in [Readers -> Reader] /\ reader[r] \in Reader
        /\ EntryOK(entry, conns) /\ NoneLeftOpen
        /\ Shared(identity, evictDue, entry, conns, reader)
        /\ \A k \in DOMAIN conns : conns[k] \in Conn /\ k \in Nat \ {None}
      BY Parts
  <1>1. PICK k : k = entry.installed
      OBVIOUS
  <1>2. /\ reader[r].pc = "lease" /\ UNCHANGED <<identity, evictDue, reads>>
        /\ \/ /\ k # None /\ IsUsable(k, reader[r].identity)
              /\ reader' = [reader EXCEPT ![r] = Checkout(r, k)] /\ UNCHANGED <<entry, conns>>
           \/ /\ k # None
              /\ OpenOrJoin(r, Uninstalled(k), CloseConn(k), AbandonedBy(Leases(k)))
           \/ OpenOrJoin(r, entry, conns, reader)
      BY <1>1 DEF Lease
  <1>3. reader[r].op = "none" /\ (k # None => k \in DOMAIN conns /\ k \in Nat)
      BY <1>0, <1>1, <1>2, Parts DEF EntryOK, ReaderOK
  <1>4. CASE /\ k # None /\ IsUsable(k, reader[r].identity)
             /\ reader' = [reader EXCEPT ![r] = Checkout(r, k)] /\ UNCHANGED <<entry, conns>>
    <2>1. PICK to : to = Checkout(r, k)
        OBVIOUS
    <2>2. /\ to \in Reader /\ to.op = "none" /\ to.pc = "check" /\ to.conn = k /\ to.identity = reader[r].identity
        BY <1>0, <1>3, <1>4, <2>1 DEF Checkout, Reader, ReaderPcs
    <2>3. conns[k].identity = reader[r].identity /\ conns[k].state = "up"
        BY <1>4 DEF IsUsable
    <2>4. ReaderOK(identity, evictDue, conns, to)
        BY <1>3, <1>4, <2>2, <2>3 DEF ReaderOK
    <2>5. reader' = [reader EXCEPT ![r] = to]
        BY <1>4, <2>1
    <2>6. QED
        BY <1>0, <1>2, <1>3, <1>4, <2>2, <2>4, <2>5, Moved
  <1>5. CASE k # None /\ OpenOrJoin(r, Uninstalled(k), CloseConn(k), AbandonedBy(Leases(k)))
    <2>1. PICK en : en = Uninstalled(k)
        OBVIOUS
    <2>2. en \in Entry /\ en.installed = None /\ en.pending = entry.pending
        BY <1>0, <1>1, <2>1 DEF Uninstalled, Entry, None
    <2>3. PICK cs : cs = CloseConn(k)
        OBVIOUS
    <2>4. cs = [l \in DOMAIN conns |-> IF l \in {k} THEN Shut(conns[l]) ELSE conns[l]]
        BY <1>0, <1>3, <1>5, <2>3 DEF CloseConn
    <2>5. PICK rs : rs = AbandonedBy(Leases(k))
        OBVIOUS
    <2>6. rs = [q \in Readers |-> IF q \in Leases(k) THEN [reader[q] EXCEPT !.op = Abandoned(@)] ELSE reader[q]]
        BY <2>5 DEF AbandonedBy
    <2>7. /\ Leases(k) \in SUBSET Readers /\ r \notin Leases(k)
          /\ \A q \in Leases(k) : reader[q].pc \in {"check", "leased"} /\ reader[q].conn \in {k}
          /\ \A q \in Readers : reader[q].pc \in {"check", "leased"} /\ reader[q].conn \in {k} => q \in Leases(k)
        BY <1>2 DEF Leases
    <2>8. en.pending = None \/ (en.pending = entry.pending /\ en.pending \notin {k})
        BY <1>0, <1>1, <1>5, <2>2 DEF EntryOK
    <2>9. Shared(identity, evictDue, en, cs, rs)
      <3>1. {k} \in SUBSET DOMAIN conns
          BY <1>3, <1>5
      <3>2. QED
        <4>1. Closing(identity, evictDue, evictDue, entry, conns, reader, {k}, Leases(k), en)
            BY <1>0, <2>2, <2>7, <2>8, <3>1 DEF Closing
        <4>2. Shared(identity, evictDue, en, Closed(conns, {k}), Left(reader, Leases(k)))
            BY <4>1, ConnsClosed
        <4>3. cs = Closed(conns, {k}) /\ rs = Left(reader, Leases(k))
            BY <2>4, <2>6, Zenon DEF Closed, Left
        <4>4. QED
            BY <4>2, <4>3, Zenon
    <2>10. rs[r] = reader[r] /\ \A q \in Readers : rs[q].pc = reader[q].pc /\ rs[q].conn = reader[q].conn
        BY <1>0, <2>6, <2>7 DEF Reader
    <2>11. Len(cs) = Len(conns) /\ DOMAIN cs = DOMAIN conns
        BY <1>0, <1>3, <1>5, <2>3 DEF CloseConn
    <2>12. OpenOrJoin(r, en, cs, rs)
        BY <1>5, <2>1, <2>3, <2>5
    <2>13. /\ Shared(identity, evictDue, entry', conns', reader')
           /\ entry'.installed = en.installed
           /\ \A q \in Readers : q # r => reader'[q] = rs[q]
           /\ \A l \in DOMAIN conns' : conns'[l].state = "up" => l \in DOMAIN cs /\ cs[l].state = "up"
        BY <1>2, <2>2, <2>9, <2>10, <2>11, <2>12, OpensOrJoins
    <2>14. \A l \in DOMAIN conns' : conns'[l].state = "up" => l # k /\ l \in DOMAIN conns /\ conns[l].state = "up"
      <3>1. Shut(conns[k]).state = "closed"
          BY <1>0, <1>3, <1>5, ShutConn
      <3>2. QED
          BY <2>4, <2>11, <2>13, <3>1
    <2>15. \A l : Leases(l) \subseteq Leases(l)'
        BY <1>2, <2>10, <2>13 DEF Leases
    <2>16. NoneLeftOpen'
        BY <1>0, <1>1, <2>14, <2>15, StillHeld
    <2>17. QED
        BY <1>0, <1>2, <2>13, <2>16 DEF ReadInv
  <1>6. CASE OpenOrJoin(r, entry, conns, reader)
    <2>1. /\ Shared(identity, evictDue, entry', conns', reader')
          /\ entry'.installed = entry.installed
          /\ \A q \in Readers : q # r => reader'[q] = reader[q]
          /\ \A l \in DOMAIN conns' : conns'[l].state = "up" => l \in DOMAIN conns /\ conns[l].state = "up"
        BY <1>0, <1>2, <1>6, OpensOrJoins
    <2>2. \A l : Leases(l) \subseteq Leases(l)'
        BY <1>2, <2>1 DEF Leases
    <2>3. NoneLeftOpen'
        BY <1>0, <2>1, <2>2, StillHeld
    <2>4. QED
        BY <1>0, <1>2, <2>1, <2>3 DEF ReadInv
  <1>7. QED
      BY <1>2, <1>4, <1>5, <1>6

\* What was open is still held when the leases stay and what is let go of was leased.
LEMMA LeasesStay ==
    ASSUME NoneLeftOpen,
           \A q \in Readers : reader[q].pc \in {"check", "leased"} =>
               reader'[q].pc \in {"check", "leased"} /\ reader'[q].conn = reader[q].conn,
           \A k \in DOMAIN conns' : conns'[k].state = "up" =>
               \/ entry'.installed = k
               \/ /\ k \in DOMAIN conns /\ conns[k].state = "up"
                  /\ entry.installed # k \/ Leases(k) # {}
    PROVE  NoneLeftOpen'
  <1>1. \A k : Leases(k) \subseteq Leases(k)'
      BY DEF Leases
  <1>2. QED
      BY <1>1 DEF NoneLeftOpen

\* Closing connections, in the form the steps use.
LEMMA ClosedIs ==
    ASSUME ReadInv
    PROVE  /\ \A k \in DOMAIN conns : CloseConn(k) = Closed(conns, {k})
           /\ \A S : AbandonedBy(S) = Left(reader, S)
           /\ Left(reader, {}) = reader
           /\ \A S : \A l \in DOMAIN conns :
                 /\ l \notin S => Closed(conns, S)[l] = conns[l]
                 /\ l \in S => Closed(conns, S)[l].state = "closed"
           /\ \A S : DOMAIN Closed(conns, S) = DOMAIN conns
           /\ \A S : \A q \in Readers : /\ Left(reader, S)[q].pc = reader[q].pc
                                        /\ Left(reader, S)[q].conn = reader[q].conn
  <1>0. /\ conns \in Seq(Conn) /\ reader \in [Readers -> Reader]
        /\ \A l \in DOMAIN conns : conns[l] \in Conn
      BY Parts
  <1>1. \A k \in DOMAIN conns : CloseConn(k) = Closed(conns, {k})
      BY <1>0 DEF CloseConn, Closed
  <1>2. \A S : AbandonedBy(S) = Left(reader, S)
      BY DEF AbandonedBy, Left
  <1>3. Left(reader, {}) = reader
      BY <1>0 DEF Left
  <1>4. \A S : \A l \in DOMAIN conns : l \notin S => Closed(conns, S)[l] = conns[l]
      BY DEF Closed
  <1>5. ASSUME NEW S, NEW l \in DOMAIN conns, l \in S
        PROVE  Closed(conns, S)[l].state = "closed"
    <2>1. Closed(conns, S)[l] = Shut(conns[l])
        BY <1>5 DEF Closed
    <2>2. QED
        BY <1>0, <2>1, ShutConn
  <1>6. \A S : DOMAIN Closed(conns, S) = DOMAIN conns
      BY DEF Closed
  <1>7. ASSUME NEW S, NEW q \in Readers
        PROVE  Left(reader, S)[q].pc = reader[q].pc /\ Left(reader, S)[q].conn = reader[q].conn
    <2>1. reader[q] \in Reader
        BY <1>0
    <2>2. CASE q \in S
      <3>1. Left(reader, S)[q] = [reader[q] EXCEPT !.op = Abandoned(reader[q].op)]
          BY <2>2 DEF Left
      <3>2. QED
          BY <2>1, <3>1, AbandonedReader
    <2>3. CASE q \notin S
        BY <2>3 DEF Left
    <2>4. QED
        BY <2>2, <2>3
  <1>8. QED
      BY <1>1, <1>2, <1>3, <1>4, <1>5, <1>6, <1>7

\* A step that only closes connections.
LEMMA Closes ==
    ASSUME ReadInv, NEW S, NEW L, NEW due \in BOOLEAN, NEW to,
           Closing(identity, evictDue, due, entry, conns, reader, S, L, to),
           \A k \in DOMAIN conns : k \notin S /\ conns[k].state = "up" /\ entry.installed = k => to.installed = k,
           conns' = Closed(conns, S), reader' = Left(reader, L), entry' = to, evictDue' = due,
           UNCHANGED <<identity, reads>>
    PROVE  ReadInv'
  <1>1. identity \in Nat /\ reads \in Nat /\ NoneLeftOpen
      BY Parts
  <1>2. Shared(identity, due, to, Closed(conns, S), Left(reader, L))
      BY ConnsClosed
  <1>3. Shared(identity', evictDue', entry', conns', reader')
      BY <1>2, Zenon
  <1>4. /\ DOMAIN conns' = DOMAIN conns
        /\ \A k \in DOMAIN conns : conns'[k].state = "up" => k \notin S /\ conns[k].state = "up"
        /\ \A q \in Readers : reader'[q].pc = reader[q].pc /\ reader'[q].conn = reader[q].conn
      BY ClosedIs
  <1>5. NoneLeftOpen'
      BY <1>1, <1>4, LeasesStay
  <1>6. QED
      BY <1>1, <1>3, <1>5 DEF ReadInv

\* What closes a connection on its own account: an opening given up, an idle or an old connection, an eviction.
LEMMA ClosingSteps ==
    ASSUME ReadInv,
           \/ \E k \in DOMAIN conns : /\ conns[k].state = "opening" /\ GiveUp(k)
                                      /\ UNCHANGED <<identity, evictDue, reads>>
           \/ \E k \in DOMAIN conns : IdleTimer(k) \/ HardAge(k)
           \/ Evict
    PROVE  ReadInv'
  <1>0. /\ evictDue \in BOOLEAN /\ entry \in Entry /\ EntryOK(entry, conns)
        /\ Shared(identity, evictDue, entry, conns, reader)
        /\ \A r \in Readers : ReaderOK(identity, evictDue, conns, reader[r])
        /\ \A k \in DOMAIN conns : conns[k] \in Conn
      BY Parts
  <1>1. ASSUME NEW k \in DOMAIN conns, conns[k].state = "opening", GiveUp(k), UNCHANGED <<identity, evictDue, reads>>
        PROVE  ReadInv'
    <2>1. PICK to : to = IF entry.pending = k THEN [entry EXCEPT !.pending = None] ELSE entry
        OBVIOUS
    <2>2. to \in Entry /\ to.installed = entry.installed /\ to.pending \in {None, entry.pending} \ {k}
      <3>1. k # None
          BY Parts
      <3>2. CASE entry.pending = k
          BY <1>0, <2>1, <3>1, <3>2 DEF Entry, None
      <3>3. CASE entry.pending # k
          BY <1>0, <2>1, <3>3
      <3>4. QED
          BY <3>2, <3>3
    <2>3. \A r \in Readers : reader[r].pc \in {"check", "leased"} => reader[r].conn # k
        BY <1>0, <1>1 DEF ReaderOK
    <2>4. to.installed = None \/ to.installed # k
        BY <1>0, <1>1, <2>2 DEF EntryOK
    <2>5. Closing(identity, evictDue, evictDue, entry, conns, reader, {k}, {}, to)
        BY <1>0, <2>2, <2>3, <2>4 DEF Closing
    <2>6. conns' = CloseConn(k) /\ entry' = to /\ reader' = reader
        BY <1>1, <2>1 DEF GiveUp
    <2>7. conns' = Closed(conns, {k}) /\ reader' = Left(reader, {})
        BY <2>6, ClosedIs, Zenon
    <2>8. QED
        BY <1>0, <1>1, <2>2, <2>5, <2>6, <2>7, Closes
  <1>2. ASSUME NEW k \in DOMAIN conns, IdleTimer(k) \/ HardAge(k)
        PROVE  ReadInv'
    <2>1. conns[k].state \in {"up", "down"} /\ ShutDown(k)
        BY <1>2 DEF IdleTimer, HardAge
    <2>2. PICK to : to = Uninstalled(k)
        OBVIOUS
    <2>3. /\ to \in Entry /\ to.pending = entry.pending
          /\ to.installed = IF entry.installed = k THEN None ELSE entry.installed
        BY <1>0, <2>2 DEF Uninstalled, Entry, None
    <2>4. /\ Leases(k) \subseteq Readers
          /\ \A r \in Readers : r \in Leases(k) <=> (reader[r].conn = k /\ reader[r].pc \in {"check", "leased"})
        BY DEF Leases
    <2>5. to.pending = None \/ to.pending # k
        BY <1>0, <2>1, <2>3 DEF EntryOK
    <2>6. Closing(identity, evictDue, evictDue, entry, conns, reader, {k}, Leases(k), to)
        BY <1>0, <2>3, <2>4, <2>5 DEF Closing
    <2>7. conns' = CloseConn(k) /\ reader' = AbandonedBy(Leases(k)) /\ entry' = to /\ UNCHANGED <<identity, evictDue, reads>>
        BY <2>1, <2>2 DEF ShutDown
    <2>8. conns' = Closed(conns, {k}) /\ reader' = Left(reader, Leases(k))
        BY <2>7, ClosedIs, Zenon
    <2>9. \A l \in DOMAIN conns : l \notin {k} /\ conns[l].state = "up" /\ entry.installed = l => to.installed = l
        BY <2>3
    <2>10. QED
        BY <1>0, <2>6, <2>7, <2>8, <2>9, Closes
  <1>3. ASSUME Evict
        PROVE  ReadInv'
    <2>1. PICK S, L : /\ S = {k \in DOMAIN conns : conns[k].state \in {"up", "down"}}
                      /\ L = {r \in Readers : reader[r].pc \in {"check", "leased"}}
        OBVIOUS
    <2>2. PICK to : to = [entry EXCEPT !.generation = @ + 1, !.installed = None]
        OBVIOUS
    <2>3. to \in Entry /\ to.pending = entry.pending /\ to.installed = None
      <3>1. entry \in Entry
          BY <1>0
      <3>2. entry.generation + 1 \in Nat
          BY <3>1 DEF Entry
      <3>3. QED
          BY <2>2, <3>1, <3>2 DEF Entry, None
    <2>4. to.pending = None \/ to.pending \notin S
        BY <1>0, <2>1, <2>3 DEF EntryOK
    <2>5. \A r \in L : reader[r].conn \in S \/ conns[reader[r].conn].state = "closed"
      <3>1. SUFFICES ASSUME NEW r \in L
                     PROVE  reader[r].conn \in S \/ conns[reader[r].conn].state = "closed"
          OBVIOUS
      <3>2. reader[r].conn \in DOMAIN conns /\ conns[reader[r].conn].state # "opening"
          BY <1>0, <2>1 DEF ReaderOK
      <3>3. conns[reader[r].conn].state \in ConnStates
          BY <1>0, <3>2 DEF Conn
      <3>4. QED
          BY <2>1, <3>2, <3>3 DEF ConnStates
    <2>6. Closing(identity, evictDue, FALSE, entry, conns, reader, S, L, to)
        BY <1>0, <2>1, <2>3, <2>4, <2>5 DEF Closing
    <2>7. reader' = AbandonedBy(L) /\ entry' = to /\ evictDue' = FALSE /\ UNCHANGED <<identity, reads>>
        BY <1>3, <2>1, <2>2, Zenon DEF Evict
    <2>8. conns' = Closed(conns, S)
        BY <1>3, <2>1 DEF Evict, Closed
    <2>9. reader' = Left(reader, L)
        BY <2>7, ClosedIs, Zenon
    <2>10. \A k \in DOMAIN conns : k \notin S /\ conns[k].state = "up" /\ entry.installed = k => to.installed = k
        BY <2>1
    <2>11. QED
        BY <2>6, <2>7, <2>8, <2>9, <2>10, Closes
  <1>4. QED
      BY <1>1, <1>2, <1>3

\* install: the connection that was opened takes the place of the one before, which goes unless it is leased.
LEMMA InstallStep ==
    ASSUME ReadInv, NEW k \in DOMAIN conns, conns[k].state = "opening", entry.pending = k, InstallConn(k),
           UNCHANGED <<identity, evictDue, reads>>
    PROVE  ReadInv'
  <1>0. /\ identity \in Nat /\ reads \in Nat /\ evictDue \in BOOLEAN /\ entry \in Entry /\ EntryOK(entry, conns)
        /\ NoneLeftOpen /\ Shared(identity, evictDue, entry, conns, reader)
        /\ \A r \in Readers : ReaderOK(identity, evictDue, conns, reader[r])
        /\ \A l \in DOMAIN conns : conns[l] \in Conn /\ l \in Nat \ {None}
        /\ ~conns[k].retired /\ conns \in Seq(Conn)
      BY Parts
  <1>1. PICK before : before = entry.installed
      OBVIOUS
  <1>2. PICK goes \in BOOLEAN :
          goes = (before # None /\ (conns[before].identity # conns[k].identity \/ Leases(before) = {}))
      OBVIOUS
  <1>3. PICK cs, rs : /\ cs = IF goes THEN CloseConn(before) ELSE conns
                      /\ rs = IF goes THEN AbandonedBy(Leases(before)) ELSE reader
      OBVIOUS
  <1>4. /\ entry' = [entry EXCEPT !.pending = None, !.installed = k]
        /\ conns' = [cs EXCEPT ![k].state = "up"] /\ reader' = rs
      BY <1>1, <1>2, <1>3, Zenon DEF InstallConn
  <1>5. before # None => before \in DOMAIN conns /\ conns[before].state \in {"up", "down"} /\ before # k
      BY <1>0, <1>1 DEF EntryOK
  <1>6. \E en : Shared(identity, evictDue, en, cs, rs)
    <2>1. CASE ~goes
        BY <1>0, <1>3, <2>1
    <2>2. CASE goes
      <3>1. PICK en : en = [entry EXCEPT !.pending = None, !.installed = None]
          OBVIOUS
      <3>2. en \in Entry /\ en.pending = None /\ en.installed = None
          BY <1>0, <3>1 DEF Entry, None
      <3>3. /\ Leases(before) \subseteq Readers
            /\ \A r \in Readers : r \in Leases(before) <=> (reader[r].conn = before /\ reader[r].pc \in {"check", "leased"})
          BY DEF Leases
      <3>4. before \in DOMAIN conns
          BY <1>2, <1>5, <2>2
      <3>5. Closing(identity, evictDue, evictDue, entry, conns, reader, {before}, Leases(before), en)
          BY <1>0, <3>2, <3>3, <3>4 DEF Closing
      <3>6. Shared(identity, evictDue, en, Closed(conns, {before}), Left(reader, Leases(before)))
          BY <3>5, ConnsClosed
      <3>7. cs = Closed(conns, {before}) /\ rs = Left(reader, Leases(before))
          BY <1>3, <2>2, <3>4, ClosedIs, Zenon
      <3>8. QED
          BY <3>6, <3>7, Zenon
    <2>3. QED
        BY <2>1, <2>2
  <1>7. /\ DOMAIN cs = DOMAIN conns /\ cs[k] = conns[k]
        /\ \A l \in DOMAIN conns : cs[l].state = "up" => conns[l].state = "up" /\ ~(goes /\ l = before)
        /\ \A q \in Readers : rs[q].pc = reader[q].pc /\ rs[q].conn = reader[q].conn
    <2>1. CASE ~goes
        BY <1>3, <2>1
    <2>2. CASE goes
      <3>1. before \in DOMAIN conns /\ before # k
          BY <1>2, <1>5, <2>2
      <3>2. cs = Closed(conns, {before}) /\ rs = Left(reader, Leases(before))
          BY <1>3, <2>2, <3>1, ClosedIs, Zenon
      <3>3. QED
          BY <3>1, <3>2, ClosedIs
    <2>3. QED
        BY <2>1, <2>2
  <1>8. PICK c : c = [conns[k] EXCEPT !.state = "up"]
      OBVIOUS
  <1>9. /\ c \in Conn /\ c.state = "up" /\ c.waiting = conns[k].waiting /\ c.active = conns[k].active
        /\ c.identity = conns[k].identity
      BY <1>0, <1>8 DEF Conn, ConnStates
  <1>10. ~c.retired
    <2>1. c.retired = conns[k].retired
        BY <1>0, <1>8 DEF Conn
    <2>2. QED
        BY <1>0, <2>1
  <1>11. PICK marked : marked = [cs EXCEPT ![k] = c]
      OBVIOUS
  <1>12. conns' = marked
      BY <1>4, <1>7, <1>8, <1>11
  <1>13. cs \in Seq(Conn) /\ marked[k] = c /\ DOMAIN marked = DOMAIN cs /\ \A l \in DOMAIN cs : l # k => marked[l] = cs[l]
    <2>1. cs \in Seq(Conn)
        BY <1>6 DEF Shared
    <2>2. QED
        BY <1>7, <1>9, <1>11, <2>1, ExceptSeq
  <1>14. PICK to : to = [entry EXCEPT !.pending = None, !.installed = k]
      OBVIOUS
  <1>15. to \in Entry /\ to.pending = None /\ to.installed = k
      BY <1>0, <1>14 DEF Entry, None
  <1>16. EntryOK(to, marked)
      BY <1>7, <1>9, <1>10, <1>13, <1>15 DEF EntryOK
  <1>17. Shared(identity, evictDue, to, marked, rs)
    <2>1. PICK en : Shared(identity, evictDue, en, cs, rs)
        BY <1>6
    <2>2. k \in DOMAIN cs /\ cs[k].state = "opening" /\ c.state # "closed" /\ c.state # "opening" /\ cs[k].state # "closed"
        BY <1>7, <1>9
    <2>3. c.waiting = cs[k].waiting /\ c.active = cs[k].active /\ c.identity = cs[k].identity
        BY <1>7, <1>9
    <2>4. QED
        BY <1>9, <1>11, <1>15, <1>16, <2>1, <2>2, <2>3, ConnMarked
  <1>18. NoneLeftOpen'
    <2>1. entry' = to /\ conns' = marked /\ reader' = rs
        BY <1>4, <1>12, <1>14, Zenon
    <2>2. \A l \in DOMAIN marked : marked[l].state = "up" =>
            \/ l = k
            \/ l \in DOMAIN conns /\ conns[l].state = "up" /\ (entry.installed # l \/ Leases(l) # {})
      <3>1. SUFFICES ASSUME NEW l \in DOMAIN conns, marked[l].state = "up", l # k
                     PROVE  conns[l].state = "up" /\ (entry.installed # l \/ Leases(l) # {})
          BY <1>7, <1>13
      <3>2. conns[l].state = "up" /\ ~(goes /\ l = before)
          BY <1>7, <1>13, <3>1
      <3>3. l # None
          BY <1>0
      <3>4. QED
          BY <1>1, <1>2, <3>2, <3>3
    <2>3. QED
        BY <1>0, <1>7, <1>15, <2>1, <2>2, LeasesStay
  <1>19. Shared(identity', evictDue', entry', conns', reader')
      BY <1>4, <1>12, <1>14, <1>17, Zenon
  <1>20. QED
      BY <1>0, <1>18, <1>19 DEF ReadInv

-----------------------------------------------------------------------------
(* What reads do to the slots. *)

\* Giving a slot on changes what is counted and queued only, and readers keep their place.
LEMMA FreedKeeps ==
    ASSUME NEW c \in Conn
    PROVE  Freed(c).state = c.state /\ Freed(c).identity = c.identity /\ Freed(c).retired = c.retired
  BY DEF Freed, Conn

LEMMA AdmittedKeeps ==
    ASSUME NEW k, NEW rs \in [Readers -> Reader], NEW q \in Readers
    PROVE  AfterFree(k, rs)[q].pc = rs[q].pc /\ AfterFree(k, rs)[q].conn = rs[q].conn
  <1>1. rs[q] \in Reader
      OBVIOUS
  <1>2. CASE q \in Admitted(conns[k])
    <2>1. PICK to : to = [rs[q] EXCEPT !.op = "admitted"]
        OBVIOUS
    <2>2. to.pc = rs[q].pc /\ to.conn = rs[q].conn
        BY <1>1, <2>1 DEF Reader
    <2>3. AfterFree(k, rs)[q] = to
        BY <1>2, <2>1 DEF AfterFree
    <2>4. QED
        BY <2>2, <2>3
  <1>3. CASE q \notin Admitted(conns[k])
      BY <1>3 DEF AfterFree
  <1>4. QED
      BY <1>2, <1>3

LEMMA NotQueued ==
    ASSUME ReadInv, NEW r \in Readers, reader[r].op # "queued", NEW k \in DOMAIN conns
    PROVE  RemoveFirst(conns[k].waiting, r) = conns[k].waiting
  <1>0. conns[k] \in Conn /\ SlotsOK(reader, k, conns[k])
      BY Parts
  <1>1. conns[k].waiting \in Seq(Readers)
      BY <1>0 DEF Conn
  <1>2. r \notin Range(conns[k].waiting)
    <2>1. CASE conns[k].state = "closed"
        BY <1>0, <2>1 DEF SlotsOK, Range
    <2>2. CASE conns[k].state # "closed"
        BY <1>0, <2>2 DEF SlotsOK, Queueing
    <2>3. QED
        BY <2>1, <2>2
  <1>3. ~ \E i \in 1..Len(conns[k].waiting) : conns[k].waiting[i] = r
      BY <1>1, <1>2 DEF Range
  <1>4. QED
      BY <1>3 DEF RemoveFirst

\* A read gives its slot back, and the connection is retired at most.
SlotBack(r, k, c, to, en, freed, rm) ==
    /\ k = reader[r].conn /\ reader[r].op \in {"admitted", "running", "late"}
    /\ to \in Reader /\ to.op = "none" /\ ReaderOK(identity, evictDue, conns, to)
    /\ c \in Conn /\ c.state = conns[k].state /\ c.identity = conns[k].identity
    /\ c.active = conns[k].active /\ c.waiting = conns[k].waiting
    /\ en \in Entry /\ en.pending = entry.pending
    /\ \/ en = entry /\ c.retired = conns[k].retired
       \/ en.installed # k /\ en.installed \in {entry.installed, None}
    /\ freed = [conns EXCEPT ![k] = Freed(c)]
    /\ rm = [reader EXCEPT ![r] = to]

LEMMA GivenBack ==
    ASSUME ReadInv, NEW r \in Readers, NEW k, NEW c, NEW to, NEW en, NEW freed, NEW rm,
           SlotBack(r, k, c, to, en, freed, rm)
    PROVE  /\ Shared(identity, evictDue, en, freed, AfterFree(k, rm))
           /\ k \in DOMAIN conns /\ conns[k].state # "opening" /\ DOMAIN freed = DOMAIN conns /\ rm \in [Readers -> Reader]
           /\ freed[k].state = conns[k].state
           /\ \A l \in DOMAIN conns : l # k => freed[l] = conns[l]
           /\ \A q \in Readers : q # r => AfterFree(k, rm)[q].pc = reader[q].pc /\ AfterFree(k, rm)[q].conn = reader[q].conn
           /\ AfterFree(k, rm)[r].pc = to.pc /\ AfterFree(k, rm)[r].conn = to.conn
  <1>0. /\ Shared(identity, evictDue, entry, conns, reader) /\ EntryOK(entry, conns) /\ conns \in Seq(Conn)
        /\ reader \in [Readers -> Reader] /\ reader[r] \in Reader /\ ReaderOK(identity, evictDue, conns, reader[r])
        /\ \A l \in DOMAIN conns : conns[l] \in Conn /\ l \in Nat \ {None}
      BY Parts
  <1>1. k \in DOMAIN conns /\ conns[k].state # "opening"
      BY <1>0, ReadsHaveConns DEF SlotBack
  <1>2. /\ k = reader[r].conn /\ reader[r].op \in {"admitted", "running", "late"}
        /\ to \in Reader /\ to.op = "none" /\ ReaderOK(identity, evictDue, conns, to)
        /\ c \in Conn /\ c.state = conns[k].state /\ c.identity = conns[k].identity
        /\ c.active = conns[k].active /\ c.waiting = conns[k].waiting
        /\ en \in Entry /\ en.pending = entry.pending
        /\ \/ en = entry /\ c.retired = conns[k].retired
           \/ en.installed # k /\ en.installed \in {entry.installed, None}
        /\ freed = [conns EXCEPT ![k] = Freed(c)] /\ rm = [reader EXCEPT ![r] = to]
      BY DEF SlotBack
  <1>3. DOMAIN freed = DOMAIN conns /\ freed[k] = Freed(c) /\ \A l \in DOMAIN conns : l # k => freed[l] = conns[l]
      BY <1>0, <1>1, <1>2
  <1>4. freed[k].state = conns[k].state /\ (freed[k].retired <=> c.retired)
      BY <1>2, <1>3, FreedKeeps
  <1>5. EntryOK(en, freed)
    <2>1. en.pending # None => en.pending \in DOMAIN freed /\ freed[en.pending].state = "opening"
        BY <1>0, <1>1, <1>2, <1>3 DEF EntryOK
    <2>2. CASE en = entry /\ c.retired = conns[k].retired
        BY <1>0, <1>3, <1>4, <2>1, <2>2 DEF EntryOK
    <2>3. CASE en.installed # k /\ en.installed \in {entry.installed, None}
        BY <1>0, <1>3, <2>1, <2>3 DEF EntryOK
    <2>4. QED
        BY <1>2, <2>2, <2>3
  <1>6. rm \in [Readers -> Reader] /\ rm[r] = to /\ \A q \in Readers : q # r => rm[q] = reader[q]
      BY <1>0, <1>2
  <1>7. Shared(identity, evictDue, en, freed, AfterFree(k, rm))
    <2>1. PICK rs : rs = AfterFree(k, rm)
        OBVIOUS
    <2>2. rs = [q \in Readers |-> IF q \in Admitted(conns[k]) THEN [rm[q] EXCEPT !.op = "admitted"] ELSE rm[q]]
        BY <2>1 DEF AfterFree
    <2>3. Freeing(identity, evictDue, entry, conns, reader, k, c, r, to, en, freed, rm, rs)
        BY <1>0, <1>1, <1>2, <1>5, <2>2 DEF Freeing
    <2>4. Shared(identity, evictDue, en, freed, rs)
        BY <2>3, SlotFreed
    <2>5. QED
        BY <2>1, <2>4, Zenon
  <1>8. /\ \A q \in Readers : q # r => AfterFree(k, rm)[q].pc = reader[q].pc /\ AfterFree(k, rm)[q].conn = reader[q].conn
        /\ AfterFree(k, rm)[r].pc = to.pc /\ AfterFree(k, rm)[r].conn = to.conn
    <2>1. \A q \in Readers : AfterFree(k, rm)[q].pc = rm[q].pc /\ AfterFree(k, rm)[q].conn = rm[q].conn
        BY <1>6, AdmittedKeeps
    <2>2. QED
        BY <1>6, <2>1, Zenon
  <1>9. QED
      BY <1>1, <1>3, <1>4, <1>6, <1>7, <1>8

\* whenAdmitted, finishOp: a read that was admitted runs, one abandoned before that or ended gives its slot on.
LEMMA ReadSteps ==
    ASSUME ReadInv, NEW r \in Readers, WhenAdmitted(r) \/ ReadEnds(r)
    PROVE  ReadInv'
  <1>0. /\ identity \in Nat /\ evictDue \in BOOLEAN /\ reads \in Nat /\ NoneLeftOpen /\ conns \in Seq(Conn)
        /\ entry \in Entry /\ reader \in [Readers -> Reader] /\ reader[r] \in Reader
        /\ ReaderOK(identity, evictDue, conns, reader[r]) /\ \A k \in DOMAIN conns : conns[k] \in Conn
      BY Parts
  <1>1. PICK k : k = reader[r].conn
      OBVIOUS
  <1>2. CASE reader[r].op = "admitted" /\ reader' = [reader EXCEPT ![r].op = "running"]
             /\ UNCHANGED <<identity, evictDue, entry, conns, reads>>
    <2>1. PICK to : to = [reader[r] EXCEPT !.op = "running"]
        OBVIOUS
    <2>2. /\ to \in Reader /\ to.op = "running" /\ to.pc = reader[r].pc /\ to.conn = reader[r].conn
          /\ to.identity = reader[r].identity
        BY <1>0, <2>1 DEF Reader, ReadOps
    <2>3. ReaderOK(identity, evictDue, conns, to)
        BY <1>0, <1>2, <2>2 DEF ReaderOK
    <2>4. reader' = [reader EXCEPT ![r] = to] /\ reads' \in Nat
        BY <1>0, <1>2, <2>1
    <2>5. QED
        BY <1>0, <1>2, <2>2, <2>3, <2>4, Moved
  <1>3. ASSUME NEW to \in Reader, to.op = "none", reader[r].op \in {"running", "late"},
               reader[r].op = "late" \/ reader[r].pc = "leased",
               reader[r].pc = "idle" => to.pc = "idle",
               reader[r].pc # "idle" => to.pc = reader[r].pc /\ to.conn = reader[r].conn /\ to.identity = reader[r].identity,
               conns' = [conns EXCEPT ![k] = Freed(@)], reader' = AfterFree(k, [reader EXCEPT ![r] = to]),
               UNCHANGED <<identity, evictDue, entry, reads>>
        PROVE  ReadInv'
    <2>1. k \in DOMAIN conns
        BY <1>0, <1>1, <1>3, ReadsHaveConns
    <2>2. ReaderOK(identity, evictDue, conns, to)
        BY <1>0, <1>3 DEF ReaderOK
    <2>3. PICK freed, rm : freed = [conns EXCEPT ![k] = Freed(conns[k])] /\ rm = [reader EXCEPT ![r] = to]
        OBVIOUS
    <2>4. SlotBack(r, k, conns[k], to, entry, freed, rm)
        BY <1>0, <1>1, <1>3, <2>1, <2>2, <2>3 DEF SlotBack
    <2>5. conns' = freed
        BY <1>0, <1>3, <2>1, <2>3
    <2>6. reader' = AfterFree(k, rm)
        BY <1>3, <2>3, Zenon
    <2>7. /\ Shared(identity, evictDue, entry, freed, AfterFree(k, rm))
          /\ DOMAIN freed = DOMAIN conns /\ freed[k].state = conns[k].state
          /\ \A l \in DOMAIN conns : l # k => freed[l] = conns[l]
          /\ \A q \in Readers : q # r => AfterFree(k, rm)[q].pc = reader[q].pc /\ AfterFree(k, rm)[q].conn = reader[q].conn
          /\ AfterFree(k, rm)[r].pc = to.pc /\ AfterFree(k, rm)[r].conn = to.conn
        BY <2>4, GivenBack
    <2>8. NoneLeftOpen'
      <3>1. \A q \in Readers : reader[q].pc \in {"check", "leased"} =>
              reader'[q].pc \in {"check", "leased"} /\ reader'[q].conn = reader[q].conn
          BY <1>3, <2>6, <2>7
      <3>2. \A l \in DOMAIN conns' : conns'[l].state = "up" => l \in DOMAIN conns /\ conns[l].state = "up"
          BY <2>5, <2>7
      <3>3. QED
          BY <1>0, <1>3, <3>1, <3>2, LeasesStay
    <2>9. Shared(identity', evictDue', entry', conns', reader')
        BY <1>3, <2>5, <2>6, <2>7, Zenon
    <2>10. QED
        BY <1>0, <1>3, <2>8, <2>9 DEF ReadInv
  <1>4. CASE WhenAdmitted(r) /\ reader[r].op = "late"
    <2>1. PICK to : to = IF reader[r].pc = "idle" THEN NoReader ELSE [reader[r] EXCEPT !.op = "none"]
        OBVIOUS
    <2>2. to \in Reader /\ to.op = "none"
        BY <1>0, <2>1 DEF NoReader, None, Reader, ReaderPcs, ReadOps
    <2>3. /\ reader[r].pc = "idle" => to.pc = "idle"
          /\ reader[r].pc # "idle" => to.pc = reader[r].pc /\ to.conn = reader[r].conn /\ to.identity = reader[r].identity
        BY <1>0, <2>1 DEF NoReader, Reader
    <2>4. PICK gone : gone = IF reader[r].pc = "idle" THEN [reader EXCEPT ![r] = NoReader]
                             ELSE [reader EXCEPT ![r].op = "none"]
        OBVIOUS
    <2>5. gone = [reader EXCEPT ![r] = to]
        BY <2>1, <2>4
    <2>6. /\ conns' = [conns EXCEPT ![k] = Freed(@)] /\ reader' = AfterFree(k, gone)
          /\ UNCHANGED <<identity, evictDue, entry, reads>>
        BY <1>1, <1>4, <2>4, Zenon DEF WhenAdmitted
    <2>7. reader' = AfterFree(k, [reader EXCEPT ![r] = to])
        BY <2>5, <2>6, Zenon
    <2>8. QED
        BY <1>3, <1>4, <2>2, <2>3, <2>6, <2>7
  <1>5. CASE ReadEnds(r)
    <2>1. PICK to : to = [reader[r] EXCEPT !.op = "none"]
        OBVIOUS
    <2>2. /\ to \in Reader /\ to.op = "none" /\ to.pc = reader[r].pc /\ to.conn = reader[r].conn
          /\ to.identity = reader[r].identity
        BY <1>0, <2>1 DEF Reader, ReadOps
    <2>3. reader[r].op = "running" /\ UNCHANGED <<identity, evictDue, entry, reads>>
        BY <1>5 DEF ReadEnds, HoldsSlot
    <2>4. reader[r].pc = "leased"
        BY <1>0, <2>3, ReadsHaveConns
    <2>5. PICK rm : rm = [reader EXCEPT ![r].op = "none"]
        OBVIOUS
    <2>6. rm = [reader EXCEPT ![r] = to]
        BY <2>1, <2>5
    <2>7. conns' = [conns EXCEPT ![k] = Freed(@)] /\ reader' = AfterFree(k, rm)
        BY <1>1, <1>5, <2>5, Zenon DEF ReadEnds
    <2>8. reader' = AfterFree(k, [reader EXCEPT ![r] = to])
        BY <2>6, <2>7, Zenon
    <2>9. QED
        BY <1>3, <2>2, <2>3, <2>4, <2>7, <2>8
  <1>6. WhenAdmitted(r) => reader[r].op = "late" \/
          (reader[r].op = "admitted" /\ reader' = [reader EXCEPT ![r].op = "running"]
             /\ UNCHANGED <<identity, evictDue, entry, conns, reads>>)
      BY DEF WhenAdmitted
  <1>7. QED
      BY <1>2, <1>4, <1>5, <1>6

\* expire: a queued read is given up, one that was admitted is left to find out, a running one retires the connection.
LEMMA DeadlineStep ==
    ASSUME ReadInv, NEW r \in Readers, DeadlinePasses(r)
    PROVE  ReadInv'
  <1>0. /\ identity \in Nat /\ evictDue \in BOOLEAN /\ reads \in Nat /\ NoneLeftOpen /\ conns \in Seq(Conn)
        /\ entry \in Entry /\ EntryOK(entry, conns) /\ reader \in [Readers -> Reader] /\ reader[r] \in Reader
        /\ Shared(identity, evictDue, entry, conns, reader)
        /\ ReaderOK(identity, evictDue, conns, reader[r]) /\ \A l \in DOMAIN conns : conns[l] \in Conn
      BY Parts
  <1>1. PICK k, op : k = reader[r].conn /\ op = reader[r].op
      OBVIOUS
  <1>2. /\ reader[r].pc \in {"check", "leased"} /\ op # "late" /\ UNCHANGED <<identity, evictDue, reads>>
      BY <1>1 DEF DeadlinePasses
  <1>3. /\ k \in DOMAIN conns /\ conns[k].state # "opening" /\ conns[k] \in Conn /\ r \in Leases(k)
        /\ reader[r].pc = "check" => op = "none"
      BY <1>0, <1>1, <1>2 DEF ReaderOK, Leases
  <1>4. PICK to : to = [reader[r] EXCEPT !.expired = TRUE, !.op = IF op = "admitted" THEN "late" ELSE "none"]
      OBVIOUS
  <1>5. /\ to \in Reader /\ to.pc = reader[r].pc /\ to.conn = k /\ to.identity = reader[r].identity
        /\ to.op = IF op = "admitted" THEN "late" ELSE "none"
      BY <1>0, <1>1, <1>4 DEF Reader, ReadOps
  <1>6. ReaderOK(identity, evictDue, conns, to)
      BY <1>0, <1>1, <1>2, <1>3, <1>5 DEF ReaderOK
  <1>7. PICK c : c = [conns[k] EXCEPT !.retired = @ \/ op = "running", !.waiting = RemoveFirst(@, r)]
      OBVIOUS
  <1>8. PICK rm : rm = [reader EXCEPT ![r].expired = TRUE, ![r].op = IF @ = "admitted" THEN "late" ELSE "none"]
      OBVIOUS
  <1>9. rm = [reader EXCEPT ![r] = to]
      BY <1>0, <1>1, <1>4, <1>8
  <1>10. /\ conns' = [conns EXCEPT ![k] = IF op = "running" THEN Freed(c) ELSE c]
         /\ entry' = IF op = "running" THEN Uninstalled(k) ELSE entry
         /\ reader' = IF op = "running" THEN AfterFree(k, rm) ELSE rm
    <2> DEFINE c_(k_, op_) == [conns[k_] EXCEPT !.retired = @ \/ op_ = "running", !.waiting = RemoveFirst(@, r)]
               rm_ == [reader EXCEPT ![r].expired = TRUE, ![r].op = IF @ = "admitted" THEN "late" ELSE "none"]
               rest(k_, op_, d_, rs_) ==
                 /\ conns' = [conns EXCEPT ![k_] = IF op_ = "running" THEN Freed(d_) ELSE d_]
                 /\ entry' = IF op_ = "running" THEN Uninstalled(k_) ELSE entry
                 /\ reader' = IF op_ = "running" THEN AfterFree(k_, rs_) ELSE rs_
    <2>1. rest(reader[r].conn, reader[r].op, c_(reader[r].conn, reader[r].op), rm_)
        BY Zenon DEF DeadlinePasses
    <2>2. c = c_(k, op) /\ rm = rm_
        BY <1>7, <1>8, Zenon
    <2> HIDE DEF rest, c_, rm_
    <2>3. rest(k, op, c, rm)
        BY <1>1, <2>1, <2>2, Zenon
    <2>4. QED
        BY <2>3, Zenon DEF rest
  <1>11. RemoveFirst(conns[k].waiting, r) \in Seq(Readers)
    <2>1. conns[k].waiting \in Seq(Readers)
        BY <1>3 DEF Conn
    <2>2. CASE op = "queued"
      <3>1. SlotsOK(reader, k, conns[k]) /\ conns[k].state # "closed"
          BY <1>0, <1>1, <1>3, <2>2, Parts DEF ReaderOK
      <3>2. QED
          BY <2>1, <3>1, Unqueued DEF SlotsOK
    <2>3. CASE op # "queued"
        BY <1>1, <1>3, <2>1, <2>3, NotQueued
    <2>4. QED
        BY <2>2, <2>3
  <1>12. /\ c.state = conns[k].state /\ c.identity = conns[k].identity /\ c.active = conns[k].active
         /\ c.waiting = RemoveFirst(conns[k].waiting, r)
      BY <1>3, <1>7 DEF Conn
  <1>13. c.retired = (conns[k].retired \/ op = "running")
      BY <1>3, <1>7 DEF Conn
  <1>14. c \in Conn
    <2>1. PICK b \in BOOLEAN : b = (conns[k].retired \/ op = "running")
        OBVIOUS
    <2>2. c = [conns[k] EXCEPT !.retired = b, !.waiting = RemoveFirst(conns[k].waiting, r)]
        BY <1>7, <2>1
    <2>3. QED
        BY <1>3, <1>11, <2>2 DEF Conn
  <1>15. CASE op = "running"
    <2>1. PICK en : en = Uninstalled(k)
        OBVIOUS
    <2>2. en \in Entry /\ en.pending = entry.pending /\ en.installed = IF entry.installed = k THEN None ELSE entry.installed
        BY <1>0, <2>1 DEF Uninstalled, Entry, None
    <2>3. en.installed # k /\ en.installed \in {entry.installed, None}
      <3>1. k # None
          BY <1>3, Parts
      <3>2. QED
          BY <2>2, <3>1
    <2>4. c.waiting = conns[k].waiting
        BY <1>1, <1>3, <1>12, <1>15, NotQueued
    <2>5. PICK freed : freed = [conns EXCEPT ![k] = Freed(c)]
        OBVIOUS
    <2>6. SlotBack(r, k, c, to, en, freed, rm)
        BY <1>1, <1>5, <1>6, <1>9, <1>12, <1>14, <1>15, <2>2, <2>3, <2>4, <2>5 DEF SlotBack
    <2>7. /\ Shared(identity, evictDue, en, freed, AfterFree(k, rm))
          /\ DOMAIN freed = DOMAIN conns /\ freed[k].state = conns[k].state
          /\ \A l \in DOMAIN conns : l # k => freed[l] = conns[l]
          /\ \A q \in Readers : q # r => AfterFree(k, rm)[q].pc = reader[q].pc /\ AfterFree(k, rm)[q].conn = reader[q].conn
          /\ AfterFree(k, rm)[r].pc = to.pc /\ AfterFree(k, rm)[r].conn = to.conn
        BY <2>6, GivenBack
    <2>8. conns' = freed /\ entry' = en /\ reader' = AfterFree(k, rm)
        BY <1>10, <1>15, <2>1, <2>5, Zenon
    <2>9. NoneLeftOpen'
      <3>1. \A q \in Readers : reader[q].pc \in {"check", "leased"} =>
              reader'[q].pc \in {"check", "leased"} /\ reader'[q].conn = reader[q].conn
          BY <1>1, <1>5, <2>7, <2>8
      <3>2. \A l \in DOMAIN conns' : conns'[l].state = "up" =>
              \/ entry'.installed = l
              \/ l \in DOMAIN conns /\ conns[l].state = "up" /\ (entry.installed # l \/ Leases(l) # {})
          BY <1>3, <2>2, <2>7, <2>8
      <3>3. QED
          BY <1>0, <3>1, <3>2, LeasesStay
    <2>10. Shared(identity', evictDue', entry', conns', reader')
        BY <1>2, <2>7, <2>8, Zenon
    <2>11. QED
        BY <1>0, <1>2, <2>9, <2>10 DEF ReadInv
  <1>16. CASE op # "running"
    <2>1. c.retired = conns[k].retired
      <3>1. conns[k].retired \in BOOLEAN
          BY <1>3 DEF Conn
      <3>2. QED
          BY <1>13, <1>16, <3>1
    <2>2. PICK kept : kept = [conns EXCEPT ![k] = c]
        OBVIOUS
    <2>3. \/ reader[r].op \in {"none", "queued"} /\ to.op = "none"
          \/ reader[r].op = "admitted" /\ to.op = "late"
        BY <1>0, <1>1, <1>2, <1>5, <1>16 DEF Reader, ReadOps
    <2>4. Shared(identity, evictDue, entry, [conns EXCEPT ![k] = c], [reader EXCEPT ![r] = to])
        BY <1>0, <1>1, <1>3, <1>5, <1>6, <1>12, <1>14, <2>1, <2>3, SlotLeft
    <2>5. conns' = kept /\ entry' = entry /\ reader' = rm
        BY <1>10, <1>16, <2>2, Zenon
    <2>6. NoneLeftOpen'
      <3>1. \A q \in Readers : reader'[q].pc = reader[q].pc /\ reader'[q].conn = reader[q].conn
          BY <1>0, <1>1, <1>5, <1>9, <2>5
      <3>2. \A l \in DOMAIN conns' : l \in DOMAIN conns /\ conns'[l].state = conns[l].state
          BY <1>0, <1>3, <1>12, <2>2, <2>5
      <3>3. QED
          BY <1>0, <2>5, <3>1, <3>2, LeasesStay
    <2>7. Shared(identity', evictDue', entry', conns', reader')
        BY <1>2, <1>9, <2>2, <2>4, <2>5, Zenon
    <2>8. QED
        BY <1>0, <1>2, <2>6, <2>7 DEF ReadInv
  <1>17. QED
      BY <1>15, <1>16

-----------------------------------------------------------------------------
(* Leases given back, reads begun. *)

\* Everything release does before it may shut the connection down.
LEMMA LeaseGivenBack ==
    ASSUME ReadInv, NEW r \in Readers, reader[r].pc \in {"check", "leased"}, Release(r), NEW k, k = reader[r].conn
    PROVE  \E c, cs :
             /\ Shared(identity, evictDue, entry, cs, reader')
             /\ k \in DOMAIN conns /\ conns[k].state # "opening" /\ c.state = conns[k].state
             /\ cs = [conns EXCEPT ![k] = c] /\ cs[k] = c
             /\ DOMAIN cs = DOMAIN conns /\ \A l \in DOMAIN conns : l # k => cs[l] = conns[l]
             /\ conns' = [conns EXCEPT ![k] = IF EndsWithout(k, Leases(k) \ {r}) THEN Shut(c) ELSE c]
             /\ \A q \in Readers : q # r => reader'[q].pc = reader[q].pc /\ reader'[q].conn = reader[q].conn
             /\ reader'[r].pc = "idle"
  <1>0. /\ conns \in Seq(Conn) /\ entry \in Entry /\ reader \in [Readers -> Reader] /\ reader[r] \in Reader
        /\ Shared(identity, evictDue, entry, conns, reader)
        /\ ReaderOK(identity, evictDue, conns, reader[r]) /\ \A l \in DOMAIN conns : conns[l] \in Conn
      BY Parts
  <1>1. k \in DOMAIN conns /\ k \in Nat /\ conns[k].state # "opening" /\ conns[k] \in Conn
      BY <1>0 DEF ReaderOK, Reader
  <1>2. PICK to : to = [NoReader EXCEPT !.op = Abandoned(reader[r].op),
                                        !.conn = IF Abandoned(reader[r].op) = "late" THEN k ELSE None]
      OBVIOUS
  <1>3. /\ to.pc = "idle" /\ to.op = Abandoned(reader[r].op) /\ to.op \in {"none", "late"}
        /\ to.conn = (IF to.op = "late" THEN k ELSE None) /\ to \in Reader
        /\ to.op = "late" <=> reader[r].op \in {"admitted", "late"}
    <2>1. Abandoned(reader[r].op) \in {"none", "late"}
          /\ (Abandoned(reader[r].op) = "late" <=> reader[r].op \in {"admitted", "late"})
        BY <1>0 DEF Abandoned, Reader, ReadOps
    <2>2. QED
        BY <1>1, <1>2, <2>1 DEF NoReader, None, Reader, ReaderPcs, ReadOps
  <1>4. ReaderOK(identity, evictDue, conns, to)
      BY <1>1, <1>3 DEF ReaderOK
  <1>5. PICK rm : rm = [reader EXCEPT ![r] = to]
      OBVIOUS
  <1>6. PICK c : c = IF HoldsSlot(r) THEN Freed(conns[k]) ELSE [conns[k] EXCEPT !.waiting = RemoveFirst(@, r)]
      OBVIOUS
  <1>7. PICK cs : cs = [conns EXCEPT ![k] = c]
      OBVIOUS
  <1>8. cs[k] = c /\ DOMAIN cs = DOMAIN conns /\ \A l \in DOMAIN conns : l # k => cs[l] = conns[l]
      BY <1>0, <1>1, <1>7
  <1>9. reader' = IF HoldsSlot(r) THEN AfterFree(k, rm) ELSE rm
    <2>1. to = [NoReader EXCEPT !.op = Abandoned(reader[r].op),
                                !.conn = IF Abandoned(reader[r].op) = "late" THEN reader[r].conn ELSE None]
        BY <1>2, Zenon
    <2>2. reader' = IF HoldsSlot(r) THEN AfterFree(reader[r].conn, [reader EXCEPT ![r] = to])
                    ELSE [reader EXCEPT ![r] = to]
        BY <2>1, Zenon DEF Release
    <2>3. QED
        BY <1>5, <2>2, Zenon
  <1>10. conns' = [conns EXCEPT ![k] = IF EndsWithout(k, Leases(k) \ {r}) THEN Shut(c) ELSE c]
    <2>1. conns' = Dropped(k, r)
        BY Zenon DEF Release
    <2>2. QED
        BY <1>6, <2>1, Zenon DEF Dropped
  <1>11. CASE HoldsSlot(r)
    <2>1. reader[r].op = "running"
        BY <1>11 DEF HoldsSlot
    <2>2. c = Freed(conns[k]) /\ cs = [conns EXCEPT ![k] = Freed(conns[k])]
        BY <1>6, <1>7, <1>11, Zenon
    <2>3. SlotBack(r, k, conns[k], to, entry, cs, rm)
        BY <1>0, <1>1, <1>3, <1>4, <1>5, <2>1, <2>2 DEF SlotBack
    <2>4. /\ Shared(identity, evictDue, entry, cs, AfterFree(k, rm)) /\ cs[k].state = conns[k].state
          /\ \A q \in Readers : q # r => AfterFree(k, rm)[q].pc = reader[q].pc /\ AfterFree(k, rm)[q].conn = reader[q].conn
          /\ AfterFree(k, rm)[r].pc = to.pc
        BY <2>3, GivenBack
    <2>5. reader' = AfterFree(k, rm)
        BY <1>9, <1>11, Zenon
    <2>6. /\ Shared(identity, evictDue, entry, cs, reader') /\ c.state = conns[k].state
          /\ \A q \in Readers : q # r => reader'[q].pc = reader[q].pc /\ reader'[q].conn = reader[q].conn
          /\ reader'[r].pc = "idle"
        BY <1>3, <1>8, <2>4, <2>5, Zenon
    <2>7. QED
        BY <1>1, <1>7, <1>8, <1>10, <2>6, Zenon
  <1>12. CASE ~HoldsSlot(r)
    <2>1. /\ c = [conns[k] EXCEPT !.waiting = RemoveFirst(conns[k].waiting, r)] /\ reader' = rm
        BY <1>6, <1>9, <1>12, Zenon
    <2>2. /\ reader[r].op \in {"none", "queued", "admitted", "late"}
        BY <1>0, <1>12 DEF HoldsSlot, Reader, ReadOps
    <2>3. RemoveFirst(conns[k].waiting, r) \in Seq(Readers)
      <3>1. conns[k].waiting \in Seq(Readers) /\ SlotsOK(reader, k, conns[k])
          BY <1>1, Parts DEF Conn
      <3>2. CASE reader[r].op = "queued"
        <4>1. IsInjective(conns[k].waiting)
            BY <1>0, <3>1, <3>2 DEF ReaderOK, SlotsOK
        <4>2. QED
            BY <3>1, <4>1, Unqueued
      <3>3. CASE reader[r].op # "queued"
          BY <1>1, <3>1, <3>3, NotQueued
      <3>4. QED
          BY <3>2, <3>3
    <2>4. /\ c \in Conn /\ c.state = conns[k].state /\ c.identity = conns[k].identity /\ c.active = conns[k].active
          /\ c.waiting = RemoveFirst(conns[k].waiting, r)
        BY <1>1, <2>1, <2>3 DEF Conn
    <2>5. c.retired = conns[k].retired
        BY <1>1, <2>1 DEF Conn
    <2>6. \/ reader[r].op \in {"none", "queued"} /\ to.op = "none"
          \/ reader[r].op \in {"admitted", "late"} /\ to.op = "late" /\ to.conn = k
        BY <1>3, <2>2
    <2>7. Shared(identity, evictDue, entry, [conns EXCEPT ![k] = c], [reader EXCEPT ![r] = to])
        BY <1>0, <1>1, <1>3, <1>4, <2>4, <2>5, <2>6, SlotLeft
    <2>8. Shared(identity, evictDue, entry, cs, reader')
        BY <1>5, <1>7, <2>1, <2>7, Zenon
    <2>9. /\ \A q \in Readers : q # r => reader'[q].pc = reader[q].pc /\ reader'[q].conn = reader[q].conn
          /\ reader'[r].pc = "idle"
        BY <1>0, <1>3, <1>5, <2>1
    <2>10. c.state = conns[k].state
        BY <2>4
    <2>11. QED
        BY <1>1, <1>7, <1>8, <1>10, <2>8, <2>9, <2>10, Zenon
  <1>13. QED
      BY <1>11, <1>12

\* release: the connection goes with its last lease when nobody will ask for it again.
LEMMA ReleaseStep ==
    ASSUME ReadInv, NEW r \in Readers, reader[r].pc \in {"check", "leased"}, Release(r)
    PROVE  ReadInv'
  <1>0. /\ identity \in Nat /\ evictDue \in BOOLEAN /\ reads \in Nat /\ NoneLeftOpen /\ conns \in Seq(Conn)
        /\ entry \in Entry /\ EntryOK(entry, conns)
      BY Parts
  <1>1. UNCHANGED <<identity, evictDue, entry, reads>>
      BY DEF Release
  <1>2. PICK k : k = reader[r].conn
      OBVIOUS
  <1>3. PICK c, cs :
             /\ Shared(identity, evictDue, entry, cs, reader')
             /\ k \in DOMAIN conns /\ conns[k].state # "opening" /\ c.state = conns[k].state
             /\ cs = [conns EXCEPT ![k] = c] /\ cs[k] = c
             /\ DOMAIN cs = DOMAIN conns /\ \A l \in DOMAIN conns : l # k => cs[l] = conns[l]
             /\ conns' = [conns EXCEPT ![k] = IF EndsWithout(k, Leases(k) \ {r}) THEN Shut(c) ELSE c]
             /\ \A q \in Readers : q # r => reader'[q].pc = reader[q].pc /\ reader'[q].conn = reader[q].conn
             /\ reader'[r].pc = "idle"
      BY <1>2, LeaseGivenBack
  <1>4. cs \in Seq(Conn) /\ c \in Conn
      BY <1>3 DEF Shared
  <1>5. \A l \in DOMAIN conns : Leases(l) \ {r} \subseteq Leases(l)' /\ (l # k => Leases(l) \subseteq Leases(l)')
      BY <1>2, <1>3 DEF Leases
  <1>6. CASE EndsWithout(k, Leases(k) \ {r})
    <2>1. conns[k].state \in {"up", "down"} /\ Leases(k) \ {r} = {} /\ (conns[k].retired \/ entry.installed # k)
        BY <1>6 DEF EndsWithout
    <2>2. entry.installed # k /\ entry.pending # k
      <3>1. k # None
          BY <1>3, Parts
      <3>2. QED
          BY <1>0, <2>1, <3>1 DEF EntryOK
    <2>3. \A q \in Readers : reader'[q].pc \in {"check", "leased"} => reader'[q].conn # k
      <3>1. SUFFICES ASSUME NEW q \in Readers, reader'[q].pc \in {"check", "leased"}, reader'[q].conn = k
                     PROVE  FALSE
          OBVIOUS
      <3>2. q \in Leases(k) /\ q # r
          BY <1>3, <3>1 DEF Leases
      <3>3. QED
          BY <2>1, <3>2
    <2>4. Closing(identity, evictDue, evictDue, entry, cs, reader', {k}, {}, entry)
        BY <1>0, <1>3, <2>2, <2>3 DEF Closing
    <2>5. Shared(identity, evictDue, entry, Closed(cs, {k}), Left(reader', {}))
        BY <2>4, ConnsClosed
    <2>6. reader' \in [Readers -> Reader]
        BY <1>3 DEF Shared
    <2>7. Left(reader', {}) = reader'
        BY <2>6 DEF Left
    <2>8. conns' = Closed(cs, {k})
        BY <1>0, <1>3, <1>6 DEF Closed
    <2>9. Shared(identity', evictDue', entry', conns', reader')
        BY <1>1, <2>5, <2>7, <2>8, Zenon
    <2>10. NoneLeftOpen'
      <3>1. Shut(c).state = "closed"
          BY <1>4, ShutConn
      <3>2. DOMAIN conns' = DOMAIN conns /\ conns'[k].state = "closed" /\ \A l \in DOMAIN conns : l # k => conns'[l] = conns[l]
          BY <1>0, <1>3, <1>6, <3>1
      <3>3. QED
          BY <1>0, <1>1, <1>5, <3>2 DEF NoneLeftOpen
    <2>11. QED
        BY <1>0, <1>1, <2>9, <2>10 DEF ReadInv
  <1>7. CASE ~EndsWithout(k, Leases(k) \ {r})
    <2>1. conns' = cs
      BY <1>3, <1>7, Zenon
    <2>2. Shared(identity', evictDue', entry', conns', reader')
        BY <1>1, <1>3, <2>1, Zenon
    <2>3. conns[k].state = "up" => entry.installed = k \/ Leases(k) \ {r} # {}
        BY <1>7 DEF EndsWithout
    <2>4. NoneLeftOpen'
        BY <1>0, <1>1, <1>3, <1>5, <2>1, <2>3 DEF NoneLeftOpen
    <2>5. QED
        BY <1>0, <1>1, <2>2, <2>4 DEF ReadInv
  <1>8. QED
      BY <1>6, <1>7

\* leaseHostReader's second look: the reader is handed out to the host as it is trusted, or its lease is given back.
LEMMA CheckStep ==
    ASSUME ReadInv, NEW r \in Readers, CheckRow(r)
    PROVE  ReadInv'
  <1>0. /\ identity \in Nat /\ evictDue \in BOOLEAN /\ reads \in Nat /\ reader \in [Readers -> Reader]
        /\ reader[r] \in Reader /\ ReaderOK(identity, evictDue, conns, reader[r])
      BY Parts
  <1>1. reader[r].pc = "check"
      BY DEF CheckRow
  <1>2. CASE RowStillTrusts(r)
    <2>1. identity = reader[r].identity
        BY <1>2 DEF RowStillTrusts
    <2>2. reader' = [reader EXCEPT ![r].pc = "leased"] /\ UNCHANGED <<identity, evictDue, entry, conns, reads>>
        BY <1>2 DEF CheckRow
    <2>3. PICK to : to = [reader[r] EXCEPT !.pc = "leased"]
        OBVIOUS
    <2>4. /\ to \in Reader /\ to.pc = "leased" /\ to.op = reader[r].op /\ to.conn = reader[r].conn
        BY <1>0, <2>3 DEF Reader, ReaderPcs
    <2>5. reader[r].op = "none" /\ ReaderOK(identity, evictDue, conns, to)
        BY <1>0, <1>1, <2>1, <2>4 DEF ReaderOK
    <2>6. reader' = [reader EXCEPT ![r] = to] /\ reads' \in Nat
        BY <1>0, <2>2, <2>3
    <2>7. QED
        BY <1>0, <1>1, <2>2, <2>4, <2>5, <2>6, Moved
  <1>3. CASE ~RowStillTrusts(r)
      BY <1>1, <1>3, ReleaseStep DEF CheckRow
  <1>4. QED
      BY <1>2, <1>3

\* begin: the read has a slot or waits for one.
LEMMA BeginStep ==
    ASSUME ReadInv, NEW r \in Readers, BeginRead(r)
    PROVE  ReadInv'
  <1>0. /\ identity \in Nat /\ evictDue \in BOOLEAN /\ reads \in Nat /\ NoneLeftOpen /\ conns \in Seq(Conn)
        /\ Shared(identity, evictDue, entry, conns, reader)
        /\ reader \in [Readers -> Reader] /\ reader[r] \in Reader /\ ReaderOK(identity, evictDue, conns, reader[r])
        /\ \A l \in DOMAIN conns : conns[l] \in Conn
      BY Parts
  <1>1. PICK k : k = reader[r].conn
      OBVIOUS
  <1>2. /\ reader[r].pc = "leased" /\ reader[r].op = "none" /\ conns[k].state # "closed"
        /\ reads' = reads + 1 /\ UNCHANGED <<identity, evictDue, entry>>
      BY <1>1 DEF BeginRead
  <1>3. k \in DOMAIN conns
      BY <1>0, <1>1, <1>2 DEF ReaderOK
  <1>4. IF conns[k].active < ChannelLimit
          THEN conns' = [conns EXCEPT ![k].active = @ + 1] /\ reader' = [reader EXCEPT ![r].op = "admitted"]
          ELSE conns' = [conns EXCEPT ![k].waiting = Append(@, r)] /\ reader' = [reader EXCEPT ![r].op = "queued"]
      BY <1>1, Zenon DEF BeginRead
  <1>5. IF conns[k].active < ChannelLimit
          THEN Shared(identity, evictDue, entry, [conns EXCEPT ![k].active = @ + 1], [reader EXCEPT ![r].op = "admitted"])
          ELSE Shared(identity, evictDue, entry, [conns EXCEPT ![k].waiting = Append(@, r)], [reader EXCEPT ![r].op = "queued"])
      BY <1>0, <1>1, <1>2, SlotTaken
  <1>6. Shared(identity', evictDue', entry', conns', reader')
      BY <1>2, <1>4, <1>5, Zenon
  <1>7. \A q \in Readers : reader'[q].pc = reader[q].pc /\ reader'[q].conn = reader[q].conn
    <2>1. PICK op : reader' = [reader EXCEPT ![r].op = op]
        BY <1>4
    <2>2. PICK to : to = [reader[r] EXCEPT !.op = op]
        OBVIOUS
    <2>3. to.pc = reader[r].pc /\ to.conn = reader[r].conn /\ reader' = [reader EXCEPT ![r] = to]
        BY <1>0, <2>1, <2>2 DEF Reader
    <2>4. QED
        BY <1>0, <2>3
  <1>8. DOMAIN conns' = DOMAIN conns /\ \A l \in DOMAIN conns : conns'[l].state = conns[l].state
    <2>1. PICK c : conns' = [conns EXCEPT ![k] = c] /\ c.state = conns[k].state
      <3>1. CASE conns[k].active < ChannelLimit
        <4>1. PICK c : c = [conns[k] EXCEPT !.active = @ + 1]
            OBVIOUS
        <4>2. c.state = conns[k].state
            BY <1>0, <1>3, <4>1 DEF Conn
        <4>3. conns' = [conns EXCEPT ![k] = c]
            BY <1>0, <1>3, <1>4, <3>1, <4>1
        <4>4. QED
            BY <4>2, <4>3
      <3>2. CASE ~(conns[k].active < ChannelLimit)
        <4>1. PICK c : c = [conns[k] EXCEPT !.waiting = Append(@, r)]
            OBVIOUS
        <4>2. c.state = conns[k].state
            BY <1>0, <1>3, <4>1 DEF Conn
        <4>3. conns' = [conns EXCEPT ![k] = c]
            BY <1>0, <1>3, <1>4, <3>2, <4>1
        <4>4. QED
            BY <4>2, <4>3
      <3>3. QED
          BY <3>1, <3>2
    <2>2. QED
        BY <1>0, <1>3, <2>1
  <1>9. NoneLeftOpen'
    <2>1. \A l \in DOMAIN conns' : conns'[l].state = "up" => l \in DOMAIN conns /\ conns[l].state = "up"
        BY <1>8
    <2>2. \A q \in Readers : reader[q].pc \in {"check", "leased"} =>
            reader'[q].pc \in {"check", "leased"} /\ reader'[q].conn = reader[q].conn
        BY <1>7
    <2>3. QED
        BY <1>0, <1>2, <2>1, <2>2, LeasesStay
  <1>10. QED
      BY <1>0, <1>2, <1>6, <1>9 DEF ReadInv

\* A connection is lost or ages, the host's key is trusted anew.
LEMMA OtherSteps ==
    ASSUME ReadInv, (\E k \in DOMAIN conns : ConnLost(k) \/ ConnAges(k)) \/ Retrust
    PROVE  ReadInv'
  <1>0. /\ identity \in Nat /\ evictDue \in BOOLEAN /\ reads \in Nat /\ NoneLeftOpen /\ conns \in Seq(Conn)
        /\ Shared(identity, evictDue, entry, conns, reader) /\ entry \in Entry /\ EntryOK(entry, conns)
        /\ \A l \in DOMAIN conns : conns[l] \in Conn
      BY Parts
  <1>1. ASSUME NEW k \in DOMAIN conns, ConnLost(k) \/ ConnAges(k)
        PROVE  ReadInv'
    <2>1. /\ conns[k].state \in {"up", "down"} /\ UNCHANGED <<identity, evictDue, entry, reader, reads>>
        BY <1>1 DEF ConnLost, ConnAges
    <2>2. PICK c : /\ c = [conns[k] EXCEPT !.state = "down"] \/ c = [conns[k] EXCEPT !.old = TRUE]
                   /\ conns' = [conns EXCEPT ![k] = c]
        BY <1>0, <1>1 DEF ConnLost, ConnAges
    <2>3. /\ c \in Conn /\ c.waiting = conns[k].waiting /\ c.active = conns[k].active /\ c.identity = conns[k].identity
          /\ c.state \in {"down", conns[k].state}
        BY <1>0, <2>2 DEF Conn, ConnStates
    <2>4. c.retired = conns[k].retired
        BY <1>0, <2>2 DEF Conn
    <2>5. PICK marked : marked = [conns EXCEPT ![k] = c]
        OBVIOUS
    <2>6. DOMAIN marked = DOMAIN conns /\ marked[k] = c /\ \A l \in DOMAIN conns : l # k => marked[l] = conns[l]
        BY <1>0, <2>5
    <2>7. EntryOK(entry, marked)
      <3>1. c.state \in {"up", "down"}
          BY <2>1, <2>3
      <3>2. QED
          BY <1>0, <2>1, <2>4, <2>6, <3>1 DEF EntryOK
    <2>8. Shared(identity, evictDue, entry, marked, reader)
      <3>1. c.state # "closed" /\ c.state # "opening" /\ conns[k].state # "closed"
          BY <2>1, <2>3
      <3>2. QED
          BY <1>0, <2>3, <2>5, <2>7, <3>1, ConnMarked
    <2>9. conns' = marked
        BY <2>2, <2>5, Zenon
    <2>10. NoneLeftOpen'
      <3>1. \A l \in DOMAIN conns' : conns'[l].state = "up" => l \in DOMAIN conns /\ conns[l].state = "up"
          BY <2>3, <2>6, <2>9
      <3>2. QED
          BY <1>0, <2>1, <3>1, LeasesStay
    <2>11. Shared(identity', evictDue', entry', conns', reader')
        BY <2>1, <2>8, <2>9, Zenon
    <2>12. QED
        BY <1>0, <2>1, <2>10, <2>11 DEF ReadInv
  <1>2. ASSUME Retrust
        PROVE  ReadInv'
    <2>1. identity' = identity + 1 /\ evictDue' = TRUE /\ UNCHANGED <<entry, conns, reader, reads>>
        BY <1>2 DEF Retrust
    <2>2. \A q \in Readers : ReaderOK(identity', TRUE, conns, reader[q])
      <3>1. SUFFICES ASSUME NEW q \in Readers
                     PROVE  ReaderOK(identity', TRUE, conns, reader[q])
          OBVIOUS
      <3>2. ReaderOK(identity, evictDue, conns, reader[q])
          BY Parts
      <3>3. QED
          BY <3>2 DEF ReaderOK
    <2>3. Shared(identity', TRUE, entry, conns, reader)
        BY <1>0, <2>2 DEF Shared
    <2>4. Shared(identity', evictDue', entry', conns', reader')
        BY <2>1, <2>3, Zenon
    <2>5. NoneLeftOpen'
        BY <1>0, <2>1 DEF NoneLeftOpen, Leases
    <2>6. identity' \in Nat /\ evictDue' \in BOOLEAN /\ reads' \in Nat
        BY <1>0, <2>1
    <2>7. QED
        BY <2>4, <2>5, <2>6, Zenon DEF ReadInv
  <1>3. QED
      BY <1>1, <1>2

-----------------------------------------------------------------------------
(* The invariant, and what follows. *)

LEMMA ReadStart ==
    ReadInit => ReadInv
  <1> SUFFICES ASSUME ReadInit
               PROVE  ReadInv
      OBVIOUS
  <1>1. /\ identity = 1 /\ evictDue = FALSE /\ conns = <<>> /\ reads = 0 /\ DOMAIN conns = {}
        /\ conns \in Seq(Conn)
      BY DEF ReadInit
  <1>2. entry \in Entry /\ entry.installed = None /\ entry.pending = None
      BY DEF ReadInit, Entry, None
  <1>3. NoReader \in Reader /\ NoReader.pc = "idle" /\ NoReader.op = "none"
      BY DEF NoReader, None, Reader, ReaderPcs, ReadOps
  <1>4. reader \in [Readers -> Reader] /\ \A r \in Readers : reader[r] = NoReader
      BY <1>3 DEF ReadInit
  <1>5. \A r \in Readers : ReaderOK(identity, evictDue, conns, reader[r])
      BY <1>3, <1>4 DEF ReaderOK
  <1>6. EntryOK(entry, conns)
      BY <1>2 DEF EntryOK
  <1>7. NoneLeftOpen
      BY <1>1 DEF NoneLeftOpen
  <1>8. Shared(identity, evictDue, entry, conns, reader)
      BY <1>1, <1>2, <1>4, <1>5, <1>6 DEF Shared
  <1>9. QED
      BY <1>1, <1>7, <1>8 DEF ReadInv

LEMMA ReadStep ==
    ReadInv /\ [ReadNext]_readVars => ReadInv'
  <1> SUFFICES ASSUME ReadInv, [ReadNext]_readVars
               PROVE  ReadInv'
      OBVIOUS
  <1>1. ASSUME NEW r \in Readers,
               \/ ReadRow(r) \/ Lease(r) \/ WaitEnds(r) \/ CheckRow(r) \/ ReleaseReader(r)
               \/ BeginRead(r) \/ WhenAdmitted(r) \/ ReadEnds(r) \/ DeadlinePasses(r)
        PROVE  ReadInv'
    <2>1. CASE ReadRow(r) \/ WaitEnds(r)
        BY <2>1, ReaderSteps
    <2>2. CASE Lease(r)
        BY <2>2, LeaseStep
    <2>3. CASE CheckRow(r)
        BY <2>3, CheckStep
    <2>4. CASE ReleaseReader(r)
        BY <2>4, ReleaseStep DEF ReleaseReader
    <2>5. CASE BeginRead(r)
        BY <2>5, BeginStep
    <2>6. CASE WhenAdmitted(r) \/ ReadEnds(r)
        BY <2>6, ReadSteps
    <2>7. CASE DeadlinePasses(r)
        BY <2>7, DeadlineStep
    <2>8. QED
        BY <1>1, <2>1, <2>2, <2>3, <2>4, <2>5, <2>6, <2>7
  <1>2. ASSUME NEW k \in DOMAIN conns, OpenEnds(k)
        PROVE  ReadInv'
    <2>1. /\ conns[k].state = "opening" /\ UNCHANGED <<identity, evictDue, reads>>
          /\ GiveUp(k) \/ (entry.pending = k /\ InstallConn(k))
        BY <1>2 DEF OpenEnds
    <2>2. CASE GiveUp(k)
        BY <2>1, <2>2, ClosingSteps
    <2>3. CASE entry.pending = k /\ InstallConn(k)
        BY <2>1, <2>3, InstallStep
    <2>4. QED
        BY <2>1, <2>2, <2>3
  <1>3. ASSUME NEW k \in DOMAIN conns, ConnLost(k) \/ ConnAges(k) \/ IdleTimer(k) \/ HardAge(k)
        PROVE  ReadInv'
      BY <1>3, ClosingSteps, OtherSteps
  <1>4. CASE Retrust \/ Evict
      BY <1>4, ClosingSteps, OtherSteps
  <1>5. CASE UNCHANGED readVars
    <2>1. UNCHANGED <<identity, evictDue, entry, conns, reader, reads>>
        BY <1>5 DEF readVars
    <2>2. Shared(identity', evictDue', entry', conns', reader')
        BY <2>1, Zenon DEF ReadInv
    <2>3. NoneLeftOpen'
        BY <2>1 DEF ReadInv, NoneLeftOpen, Leases
    <2>4. QED
        BY <2>1, <2>2, <2>3 DEF ReadInv
  <1>6. QED
      BY <1>1, <1>2, <1>3, <1>4, <1>5 DEF ReadNext

\* At all times leases, queues, slots and the host's entry agree (read-connections.ts, read-limiter.ts).
THEOREM ReadsAreShared == ReadSpec => []ReadInv
  <1>1. QED
      BY ReadStart, ReadStep, PTL DEF ReadSpec

\* A reader handed out after the second look at the row reads over a connection to the host as it is trusted now,
\* but for the moment between the row's change and the eviction (leaseHostReader, evict).
THEOREM ReadersAreTrusted == ReadSpec => []HandedOutIsTrusted
  <1>1. ReadInv => HandedOutIsTrusted
      BY Parts DEF ReaderOK, HandedOutIsTrusted
  <1>2. QED
      BY <1>1, ReadsAreShared, PTL

\* Whatever is abandoned, expires or is lost, a connection's slots are those of the reads that have one, never more
\* than the limit, and no read waits beside a free slot (createChannelLimiter, whenAdmitted, finishOp).
THEOREM SlotsAreNotLost == ReadSpec => []SlotsAccountedFor
  <1>1. ASSUME ReadInv, NEW k \in DOMAIN conns, conns[k].state \in {"up", "down"}
        PROVE  /\ conns[k].active =
                    Cardinality({r \in Readers : reader[r].conn = k /\ reader[r].op \in {"admitted", "running", "late"}})
               /\ conns[k].active <= ChannelLimit
               /\ conns[k].waiting # <<>> => conns[k].active = ChannelLimit
    <2>1. SlotsOK(reader, k, conns[k]) /\ conns[k].state # "closed"
        BY <1>1, Parts
    <2>2. QED
        BY <2>1, Zenon DEF SlotsOK, Holding
  <1>2. ReadInv => SlotsAccountedFor
      BY <1>1, Zenon DEF SlotsAccountedFor
  <1>3. QED
      BY <1>2, ReadsAreShared, PTL

\* The connections readers share are to the host as it is trusted, carry no more reads at a time than they may,
\* and none is left open that nobody leases and the entry does not hold (leaseHostReader, acquire, shutDown).
THEOREM ConnectionsHold == ReadSpec => []ConnectionsAreSound
  <1>1. ReadInv => NoneLeftOpen
      BY DEF ReadInv
  <1>2. HandedOutIsTrusted /\ SlotsAccountedFor /\ NoneLeftOpen => ConnectionsAreSound
      BY DEF ConnectionsAreSound
  <1>3. QED
      BY <1>1, <1>2, ReadsAreShared, ReadersAreTrusted, SlotsAreNotLost, PTL


-----------------------------------------------------------------------------

\* A line taken out where it stands last.
LEMMA LastIsOut ==
    ASSUME NEW D, NEW lines \in Seq(D), NEW line, NEW at \in DOMAIN lines, lines[at] = line
    PROVE  \E i \in DOMAIN lines :
             /\ lines[i] = line /\ i >= at
             /\ WithoutLast(lines, line) = SubSeq(lines, 1, i - 1) \o SubSeq(lines, i + 1, Len(lines))
  <1> DEFINE I == {j \in 1..Len(lines) : lines[j] = line}
  <1>1. Len(lines) \in Nat /\ DOMAIN lines = 1..Len(lines) /\ at \in I
      OBVIOUS
  <1>2. \E i \in I : \A j \in I : i >= j
      BY <1>1, LargestExists
  <1>3. Max(I) \in I /\ \A j \in I : Max(I) >= j
      BY <1>2 DEF Max
  <1>4. SelectLastInSeq(lines, LAMBDA l : l = line) = Max(I)
      BY <1>1 DEF SelectLastInSeq
  <1>5. Max(I) # 0
      BY <1>1, <1>3
  <1>6. WithoutLast(lines, line) = RemoveAt(lines, Max(I))
      BY <1>4, <1>5 DEF WithoutLast
  <1>7. QED
      BY <1>1, <1>3, <1>6 DEF RemoveAt

LEMMA AppendedIsOut ==
    ASSUME NEW D, NEW lines \in Seq(D), NEW line \in D
    PROVE  WithoutLast(Append(lines, line), line) = lines
  <1> DEFINE all == Append(lines, line)
             n == Len(lines)
  <1>1. n \in Nat /\ all \in Seq(D) /\ Len(all) = n + 1 /\ DOMAIN all = 1..(n + 1) /\ all[n + 1] = line /\ n + 1 \in DOMAIN all
        /\ \A i \in 1..n : all[i] = lines[i]
      OBVIOUS
  <1> HIDE DEF all
  <1>2. WithoutLast(all, line) = SubSeq(all, 1, n) \o SubSeq(all, n + 2, n + 1)
    <2>1. PICK i \in DOMAIN all : i >= n + 1 /\ WithoutLast(all, line) = SubSeq(all, 1, i - 1) \o SubSeq(all, i + 1, Len(all))
        BY <1>1, LastIsOut
    <2>2. i = n + 1 /\ i - 1 = n /\ i + 1 = n + 2
        BY <1>1, <2>1
    <2>3. QED
        BY <1>1, <2>1, <2>2
  <1>3. SubSeq(all, 1, n) \o SubSeq(all, n + 2, n + 1) = lines
      BY LastTakenOut DEF all
  <1>4. QED
      BY <1>2, <1>3 DEF all

LEMMA WithoutLastIsSeq ==
    ASSUME NEW D, NEW lines \in Seq(D), NEW line, NEW at \in DOMAIN lines, lines[at] = line
    PROVE  WithoutLast(lines, line) \in Seq(D)
  <1>1. PICK i \in DOMAIN lines : WithoutLast(lines, line) = SubSeq(lines, 1, i - 1) \o SubSeq(lines, i + 1, Len(lines))
      BY LastIsOut
  <1>2. QED
      BY <1>1, OneTakenOut

KeyNames == {"given", "minted", "theirs"}
Line == [key : KeyNames, options : {"restricted", "bare"}]
FileSet == [there : BOOLEAN, lines : Seq(Line)]
HomeSet == [dir : BOOLEAN, key : BOOLEAN, pub : BOOLEAN, wrapper : {"none", "ours"}, file : FileSet]
Places == {"key", "dir", "dir made", "mint", "check", "dir again", "dir made again", "wrapper", "entry", "append", "appended",
           "verify", "probe", "materials", "written", "finished", "undo", "filtered", "undo rest", "failed"}
Notes == {"dir", "key", "wrapper", "entry", "file"}
ScriptSet == [at : Places, input : Supplied \cup {MintedKey}, wrote : SUBSET Notes, listed : BOOLEAN, private : BOOLEAN,
              reach : {"unproven", "proven", "reachable"}, filtered : Seq(Line), before : HomeSet,
              unnoted : BOOLEAN, disturbed : BOOLEAN]
NeverRun == [at |-> "never", disturbed |-> FALSE, unnoted |-> FALSE]

\* What .ssh holds goes together: nothing without the directory, no lines without the file.
HomeSound(h) ==
    /\ h \in HomeSet /\ h.key = h.pub
    /\ ~h.dir => ~h.key /\ h.wrapper = "none" /\ ~h.file.there
    /\ ~h.file.there => h.file.lines = <<>>
HasLine(h, line) == \E i \in DOMAIN h.file.lines : h.file.lines[i] = line

Offers == [key : KeyNames \cup {"none"}, reach : {"unproven", "proven", "reachable"}]
SelfTypes ==
    /\ HomeSound(home) /\ outside \in Nat /\ materials \in Offers
    /\ envFile \in [written : BOOLEAN, offer : Offers, sealed : BOOLEAN]
    /\ IF script.at = "never" THEN script = NeverRun /\ ~home.dir
       ELSE script \in ScriptSet /\ HomeSound(script.before)

\* Where the script is says what it has seen to.
BeforeEntry == {"key", "dir", "dir made", "mint", "check", "dir again", "dir made again", "wrapper", "entry"}
AfterEntry == {"verify", "probe", "materials", "written", "finished"}
Placed ==
    /\ script.at \in {"dir", "dir made", "mint"} => ~home.key
    /\ script.at \in {"dir", "dir again"} => ~home.dir
    /\ script.at \in {"dir made", "dir made again", "mint", "wrapper", "entry", "append"} => home.dir
    /\ script.at \in {"dir again", "dir made again", "wrapper"} => home.wrapper = "none"
    /\ script.at \in {"entry", "append", "appended"} \cup AfterEntry => home.wrapper # "none"
    /\ script.at \in {"check", "dir again", "dir made again", "wrapper", "entry", "append", "appended", "filtered"} \cup AfterEntry
         => script.input \in {<<"given">>, <<"minted">>}
    /\ script.at \in {"dir made", "dir made again", "appended"} => script.unnoted
    /\ script.at \in {"append", "filtered"} => home.file.there
    /\ script.unnoted => script.at \in {"dir made", "dir made again", "appended", "undo", "undo rest", "failed"}

\* What the run noted it wrote is what it changed since it started, but for
\* the file, which others may edit.
Noted ==
    script.at \notin {"never", "failed"} =>
        LET w == script.wrote b == script.before IN
        /\ home.wrapper = IF "wrapper" \in w THEN "ours" ELSE b.wrapper
        /\ "wrapper" \in w => b.wrapper = "none"
        /\ "key" \in w => ~b.key
        /\ "key" \notin w => home.key = b.key
        /\ "dir" \in w => ~b.dir /\ home.dir
        /\ "dir" \notin w /\ (script.unnoted => script.at = "appended") => home.dir = b.dir
        /\ script.at \in {"dir made", "dir made again"} => ~b.dir
        /\ script.at \in BeforeEntry => w \cap {"entry", "file"} = {}
        /\ "entry" \in w => ~script.unnoted /\ script.input \in {<<"given">>, <<"minted">>}
        /\ script.at = "filtered" => "entry" \in w
        /\ script.at = "append" => "file" \in w /\ "entry" \notin w

\* What authorized_keys is while nobody else edits it.  A run that made the file and noted no line of its own
\* there leaves it.
LeavesFile(w) == "file" \in w /\ "entry" \notin w
FileFor(b, w) == IF LeavesFile(w) THEN EmptyFile ELSE b.file
HomeFor(b, w) == IF LeavesFile(w) THEN [b EXCEPT !.dir = TRUE, !.file = EmptyFile] ELSE b
WithEntry(b) == [there |-> TRUE, lines |-> Append(b.file.lines, Restricted(TheKey))]
FileNoted ==
    script.at # "never" /\ ~script.disturbed =>
        LET w == script.wrote b == script.before IN
        /\ script.at \notin {"undo rest", "failed", "appended"} /\ "entry" \notin w /\ (script.at = "undo" => ~script.unnoted)
             => home.file = FileFor(b, w) /\ ("file" \in w => ~b.file.there)
        /\ script.at = "appended" \/ (script.at \notin {"undo rest", "failed"} /\ "entry" \in w)
             => home.file = WithEntry(b) /\ ("file" \in w <=> ~b.file.there)
        /\ script.at = "filtered" => script.filtered = b.file.lines
        /\ script.at = "undo rest" /\ ~script.unnoted => home.file = FileFor(b, w)
        /\ script.at = "failed" /\ ~script.unnoted => home = HomeFor(b, w)
        /\ script.at \in {"dir again", "dir made again", "wrapper", "entry"} /\ script.listed => HasLine(home, Restricted(TheKey))
        /\ script.at \in AfterEntry => HasLine(home, Restricted(TheKey))
MaterialsNoted == script.at \in {"written", "finished"} => materials.key = TheKey

\* While nobody else edits the file, now and as the run found it, every line
\* is restricted and the offer in .env is backed.
AllRestricted(h) == \A i \in DOMAIN h.file.lines : h.file.lines[i].options = "restricted"
BacksOffer(h) == envFile.offer # NoMaterials => HasLine(h, Restricted(envFile.offer.key)) /\ h.wrapper # "none"
Untouched ==
    outside = 0 =>
        /\ AllRestricted(home) /\ BacksOffer(home)
        /\ script.at # "never" => AllRestricted(script.before)
        /\ script.at \notin {"never", "finished", "failed"} => BacksOffer(script.before)
        /\ script.disturbed => script.at \in {"undo rest", "failed"}
SelfInv == SelfTypes /\ Placed /\ Noted /\ FileNoted /\ MaterialsNoted /\ Untouched

-----------------------------------------------------------------------------
\* The entry that was appended is listed.
LEMMA EntryListed ==
    ASSUME SelfInv, script.at # "never", home.file = WithEntry(script.before)
    PROVE  home.file.there /\ HasLine(home, Restricted(TheKey))
  <1>1. script.before.file.lines \in Seq(Line)
      BY DEF SelfInv, SelfTypes, HomeSound, HomeSet, FileSet
  <1>2. \A lines \in Seq(Line) : \A keyLine, file :
            file = [there |-> TRUE, lines |-> Append(lines, keyLine)]
              => /\ file.there
                 /\ Len(lines) + 1 \in DOMAIN file.lines /\ file.lines[Len(lines) + 1] = keyLine
      OBVIOUS
  <1>3. QED
      BY <1>1, <1>2 DEF WithEntry, HasLine

\* A run that stops before it takes back.
LEMMA DiesSoundly ==
    ASSUME SelfInv,
           script.at \in Places \ {"finished", "failed", "undo", "filtered", "undo rest"},
           script' = [script EXCEPT !.at = "undo"],
           UNCHANGED <<materials, home, envFile, outside>>
    PROVE  SelfInv'
  <1>1. script \in ScriptSet /\ HomeSound(home) /\ HomeSound(script.before)
      BY DEF SelfInv, SelfTypes, Places
  <1>2. /\ script'.at = "undo" /\ script'.input = script.input /\ script'.wrote = script.wrote
        /\ script'.listed = script.listed /\ script'.private = script.private /\ script'.reach = script.reach /\ script'.filtered = script.filtered
        /\ script'.before = script.before /\ script'.unnoted = script.unnoted /\ script'.disturbed = script.disturbed
      BY <1>1 DEF ScriptSet
  <1>3. home' = home /\ HomeSound(home') /\ home'.file = home.file
      BY <1>1
  <1>11. (\A line : HasLine(home', line) <=> HasLine(home, line)) /\ (AllRestricted(home) => AllRestricted(home'))
      BY <1>3 DEF HasLine, AllRestricted
  <1>12. TheKey' = TheKey
      BY <1>2 DEF TheKey
  <1>4. SelfTypes'
      BY <1>1, <1>2, <1>3 DEF SelfInv, SelfTypes, ScriptSet, Places, Notes, Supplied, MintedKey
  <1>5. Placed'
      BY <1>1, <1>2, <1>3 DEF SelfInv, Placed, AfterEntry
  <1>6. Noted'
      BY <1>1, <1>2, <1>3 DEF SelfInv, Noted, Placed, BeforeEntry, Places
  <1>7. FileNoted'
      BY <1>1, <1>2, <1>3, <1>11, <1>12 DEF SelfInv, FileNoted, Noted, Placed, AfterEntry, WithEntry, Places
  <1>8. MaterialsNoted'
      BY <1>1, <1>2, <1>3, <1>12 DEF SelfInv, MaterialsNoted
  <1>9. Untouched'
      BY <1>1, <1>2, <1>3, <1>11 DEF SelfInv, Untouched, BacksOffer, Places
  <1>10. QED
      BY <1>4, <1>5, <1>6, <1>7, <1>8, <1>9 DEF SelfInv

\* The key is the one supplied.
LEMMA KeySupplied ==
    ASSUME SelfInv,
           script.at = "key",
           script.input \in {<<"given">>, <<"minted">>},
           script' = [script EXCEPT !.at = "check"],
           UNCHANGED <<materials, home, envFile, outside>>
    PROVE  SelfInv'
  <1>1. script \in ScriptSet /\ HomeSound(home) /\ HomeSound(script.before)
      BY DEF SelfInv, SelfTypes, Places
  <1>2. /\ script'.at = "check" /\ script'.input = script.input /\ script'.wrote = script.wrote
        /\ script'.listed = script.listed /\ script'.private = script.private /\ script'.reach = script.reach /\ script'.filtered = script.filtered
        /\ script'.before = script.before /\ script'.unnoted = script.unnoted /\ script'.disturbed = script.disturbed
      BY <1>1 DEF ScriptSet
  <1>3. home' = home /\ HomeSound(home') /\ home'.file = home.file
      BY <1>1
  <1>11. (\A line : HasLine(home', line) <=> HasLine(home, line)) /\ (AllRestricted(home) => AllRestricted(home'))
      BY <1>3 DEF HasLine, AllRestricted
  <1>12. TheKey' = TheKey
      BY <1>2 DEF TheKey
  <1>4. SelfTypes'
      BY <1>1, <1>2, <1>3 DEF SelfInv, SelfTypes, ScriptSet, Places, Notes, Supplied, MintedKey
  <1>5. Placed'
      BY <1>1, <1>2, <1>3 DEF SelfInv, Placed, AfterEntry
  <1>6. Noted'
      BY <1>1, <1>2, <1>3 DEF SelfInv, Noted, Placed, BeforeEntry
  <1>7. FileNoted'
      BY <1>1, <1>2, <1>3, <1>11, <1>12 DEF SelfInv, FileNoted, Noted, Placed, AfterEntry, BeforeEntry, WithEntry
  <1>8. MaterialsNoted'
      BY <1>1, <1>2, <1>3, <1>12 DEF SelfInv, MaterialsNoted
  <1>9. Untouched'
      BY <1>1, <1>2, <1>3, <1>11 DEF SelfInv, Untouched, BacksOffer
  <1>10. QED
      BY <1>4, <1>5, <1>6, <1>7, <1>8, <1>9 DEF SelfInv

\* The key is the one minted before.
LEMMA KeyFound ==
    ASSUME SelfInv,
           script.at = "key",
           home.key,
           script' = [script EXCEPT !.at = "check", !.private = TRUE, !.input = MintedKey],
           UNCHANGED <<materials, home, envFile, outside>>
    PROVE  SelfInv'
  <1>1. script \in ScriptSet /\ HomeSound(home) /\ HomeSound(script.before)
      BY DEF SelfInv, SelfTypes, Places
  <1>2. /\ script'.at = "check" /\ script'.input = MintedKey /\ script'.wrote = script.wrote
        /\ script'.listed = script.listed /\ script'.private = TRUE /\ script'.reach = script.reach /\ script'.filtered = script.filtered
        /\ script'.before = script.before /\ script'.unnoted = script.unnoted /\ script'.disturbed = script.disturbed
      BY <1>1 DEF ScriptSet
  <1>3. home' = home /\ HomeSound(home') /\ home'.file = home.file
      BY <1>1
  <1>11. (\A line : HasLine(home', line) <=> HasLine(home, line)) /\ (AllRestricted(home) => AllRestricted(home'))
      BY <1>3 DEF HasLine, AllRestricted
  <1>4. SelfTypes'
      BY <1>1, <1>2, <1>3 DEF SelfInv, SelfTypes, ScriptSet, Places, Notes, Supplied, MintedKey
  <1>5. Placed'
      BY <1>1, <1>2, <1>3 DEF SelfInv, Placed, AfterEntry, MintedKey
  <1>6. Noted'
      BY <1>1, <1>2, <1>3 DEF SelfInv, Noted, Placed, BeforeEntry
  <1>7. FileNoted'
      BY <1>1, <1>2, <1>3 DEF SelfInv, FileNoted, Noted, BeforeEntry, AfterEntry
  <1>8. MaterialsNoted'
      BY <1>1, <1>2, <1>3 DEF SelfInv, MaterialsNoted
  <1>9. Untouched'
      BY <1>1, <1>2, <1>3, <1>11 DEF SelfInv, Untouched, BacksOffer
  <1>10. QED
      BY <1>4, <1>5, <1>6, <1>7, <1>8, <1>9 DEF SelfInv

\* A key is to be minted.
LEMMA KeyNeeded ==
    ASSUME SelfInv,
           script.at = "key",
           ~home.key,
           script' = [script EXCEPT !.at = (IF home.dir THEN "mint" ELSE "dir")],
           UNCHANGED <<materials, home, envFile, outside>>
    PROVE  SelfInv'
  <1>1. script \in ScriptSet /\ HomeSound(home) /\ HomeSound(script.before)
      BY DEF SelfInv, SelfTypes, Places
  <1>2. /\ script'.at = (IF home.dir THEN "mint" ELSE "dir") /\ script'.input = script.input /\ script'.wrote = script.wrote
        /\ script'.listed = script.listed /\ script'.private = script.private /\ script'.reach = script.reach /\ script'.filtered = script.filtered
        /\ script'.before = script.before /\ script'.unnoted = script.unnoted /\ script'.disturbed = script.disturbed
      BY <1>1 DEF ScriptSet
  <1>3. home' = home /\ HomeSound(home') /\ home'.file = home.file
      BY <1>1
  <1>11. (\A line : HasLine(home', line) <=> HasLine(home, line)) /\ (AllRestricted(home) => AllRestricted(home'))
      BY <1>3 DEF HasLine, AllRestricted
  <1>12. TheKey' = TheKey
      BY <1>2 DEF TheKey
  <1>4. SelfTypes'
      BY <1>1, <1>2, <1>3 DEF SelfInv, SelfTypes, ScriptSet, Places, Notes, Supplied, MintedKey
  <1>5. Placed'
      BY <1>1, <1>2, <1>3 DEF SelfInv, Placed, AfterEntry
  <1>6. Noted'
      BY <1>1, <1>2, <1>3 DEF SelfInv, Noted, Placed, BeforeEntry
  <1>7. FileNoted'
      BY <1>1, <1>2, <1>3, <1>11, <1>12 DEF SelfInv, FileNoted, Noted, Placed, AfterEntry, BeforeEntry, WithEntry
  <1>8. MaterialsNoted'
      BY <1>1, <1>2, <1>3, <1>12 DEF SelfInv, MaterialsNoted
  <1>9. Untouched'
      BY <1>1, <1>2, <1>3, <1>11 DEF SelfInv, Untouched, BacksOffer
  <1>10. QED
      BY <1>4, <1>5, <1>6, <1>7, <1>8, <1>9 DEF SelfInv

\* The directory is made.
LEMMA DirMade ==
    ASSUME SelfInv,
           script.at = "dir",
           script' = [script EXCEPT !.at = "dir made", !.unnoted = TRUE],
           home' = [home EXCEPT !.dir = TRUE],
           UNCHANGED <<materials, envFile, outside>>
    PROVE  SelfInv'
  <1>1. script \in ScriptSet /\ HomeSound(home) /\ HomeSound(script.before)
      BY DEF SelfInv, SelfTypes, Places
  <1>2. /\ script'.at = "dir made" /\ script'.input = script.input /\ script'.wrote = script.wrote
        /\ script'.listed = script.listed /\ script'.private = script.private /\ script'.reach = script.reach /\ script'.filtered = script.filtered
        /\ script'.before = script.before /\ script'.unnoted = TRUE /\ script'.disturbed = script.disturbed
      BY <1>1 DEF ScriptSet
  <1>3. home'.dir /\ home'.key = home.key /\ home'.pub = home.pub /\ home'.wrapper = home.wrapper /\ home'.file = home.file /\ HomeSound(home')
      BY <1>1 DEF HomeSound, HomeSet
  <1>11. (\A line : HasLine(home', line) <=> HasLine(home, line)) /\ (AllRestricted(home) => AllRestricted(home'))
      BY <1>3 DEF HasLine, AllRestricted
  <1>12. TheKey' = TheKey
      BY <1>2 DEF TheKey
  <1>4. SelfTypes'
      BY <1>1, <1>2, <1>3 DEF SelfInv, SelfTypes, ScriptSet, Places, Notes, Supplied, MintedKey
  <1>5. Placed'
      BY <1>1, <1>2, <1>3 DEF SelfInv, Placed, AfterEntry
  <1>6. Noted'
      BY <1>1, <1>2, <1>3 DEF SelfInv, Noted, Placed, BeforeEntry
  <1>7. FileNoted'
      BY <1>1, <1>2, <1>3, <1>11, <1>12 DEF SelfInv, FileNoted, Noted, Placed, AfterEntry, BeforeEntry, WithEntry
  <1>8. MaterialsNoted'
      BY <1>1, <1>2, <1>3, <1>12 DEF SelfInv, MaterialsNoted
  <1>9. Untouched'
      BY <1>1, <1>2, <1>3, <1>11 DEF SelfInv, Untouched, BacksOffer
  <1>10. QED
      BY <1>4, <1>5, <1>6, <1>7, <1>8, <1>9 DEF SelfInv

\* ... and noted.
LEMMA DirNoted ==
    ASSUME SelfInv,
           script.at = "dir made",
           script' = [script EXCEPT !.at = "mint", !.wrote = script.wrote \cup {"dir"}, !.unnoted = FALSE],
           UNCHANGED <<materials, home, envFile, outside>>
    PROVE  SelfInv'
  <1>1. script \in ScriptSet /\ HomeSound(home) /\ HomeSound(script.before)
      BY DEF SelfInv, SelfTypes, Places
  <1>2. /\ script'.at = "mint" /\ script'.input = script.input /\ script'.wrote = script.wrote \cup {"dir"}
        /\ script'.listed = script.listed /\ script'.private = script.private /\ script'.reach = script.reach /\ script'.filtered = script.filtered
        /\ script'.before = script.before /\ script'.unnoted = FALSE /\ script'.disturbed = script.disturbed
      BY <1>1 DEF ScriptSet
  <1>3. home' = home /\ HomeSound(home') /\ home'.file = home.file
      BY <1>1
  <1>11. (\A line : HasLine(home', line) <=> HasLine(home, line)) /\ (AllRestricted(home) => AllRestricted(home'))
      BY <1>3 DEF HasLine, AllRestricted
  <1>12. TheKey' = TheKey
      BY <1>2 DEF TheKey
  <1>4. SelfTypes'
      BY <1>1, <1>2, <1>3 DEF SelfInv, SelfTypes, ScriptSet, Places, Notes, Supplied, MintedKey
  <1>5. Placed'
      BY <1>1, <1>2, <1>3 DEF SelfInv, Placed, AfterEntry
  <1>6. Noted'
      BY <1>1, <1>2, <1>3 DEF SelfInv, Noted, Placed, BeforeEntry
  <1>7. FileNoted'
      BY <1>1, <1>2, <1>3, <1>11, <1>12 DEF SelfInv, FileNoted, Noted, Placed, AfterEntry, BeforeEntry, WithEntry, FileFor, LeavesFile
  <1>8. MaterialsNoted'
      BY <1>1, <1>2, <1>3, <1>12 DEF SelfInv, MaterialsNoted
  <1>9. Untouched'
      BY <1>1, <1>2, <1>3, <1>11 DEF SelfInv, Untouched, BacksOffer
  <1>10. QED
      BY <1>4, <1>5, <1>6, <1>7, <1>8, <1>9 DEF SelfInv

\* The directory is made.
LEMMA DirMadeAgain ==
    ASSUME SelfInv,
           script.at = "dir again",
           script' = [script EXCEPT !.at = "dir made again", !.unnoted = TRUE],
           home' = [home EXCEPT !.dir = TRUE],
           UNCHANGED <<materials, envFile, outside>>
    PROVE  SelfInv'
  <1>1. script \in ScriptSet /\ HomeSound(home) /\ HomeSound(script.before)
      BY DEF SelfInv, SelfTypes, Places
  <1>2. /\ script'.at = "dir made again" /\ script'.input = script.input /\ script'.wrote = script.wrote
        /\ script'.listed = script.listed /\ script'.private = script.private /\ script'.reach = script.reach /\ script'.filtered = script.filtered
        /\ script'.before = script.before /\ script'.unnoted = TRUE /\ script'.disturbed = script.disturbed
      BY <1>1 DEF ScriptSet
  <1>3. home'.dir /\ home'.key = home.key /\ home'.pub = home.pub /\ home'.wrapper = home.wrapper /\ home'.file = home.file /\ HomeSound(home')
      BY <1>1 DEF HomeSound, HomeSet
  <1>11. (\A line : HasLine(home', line) <=> HasLine(home, line)) /\ (AllRestricted(home) => AllRestricted(home'))
      BY <1>3 DEF HasLine, AllRestricted
  <1>12. TheKey' = TheKey
      BY <1>2 DEF TheKey
  <1>4. SelfTypes'
      BY <1>1, <1>2, <1>3 DEF SelfInv, SelfTypes, ScriptSet, Places, Notes, Supplied, MintedKey
  <1>5. Placed'
      BY <1>1, <1>2, <1>3 DEF SelfInv, Placed, AfterEntry
  <1>6. Noted'
      BY <1>1, <1>2, <1>3 DEF SelfInv, Noted, Placed, BeforeEntry
  <1>7. FileNoted'
      BY <1>1, <1>2, <1>3, <1>11, <1>12 DEF SelfInv, FileNoted, Noted, Placed, AfterEntry, BeforeEntry, WithEntry
  <1>8. MaterialsNoted'
      BY <1>1, <1>2, <1>3, <1>12 DEF SelfInv, MaterialsNoted
  <1>9. Untouched'
      BY <1>1, <1>2, <1>3, <1>11 DEF SelfInv, Untouched, BacksOffer
  <1>10. QED
      BY <1>4, <1>5, <1>6, <1>7, <1>8, <1>9 DEF SelfInv

\* ... and noted.
LEMMA DirNotedAgain ==
    ASSUME SelfInv,
           script.at = "dir made again",
           script' = [script EXCEPT !.at = "wrapper", !.wrote = script.wrote \cup {"dir"}, !.unnoted = FALSE],
           UNCHANGED <<materials, home, envFile, outside>>
    PROVE  SelfInv'
  <1>1. script \in ScriptSet /\ HomeSound(home) /\ HomeSound(script.before)
      BY DEF SelfInv, SelfTypes, Places
  <1>2. /\ script'.at = "wrapper" /\ script'.input = script.input /\ script'.wrote = script.wrote \cup {"dir"}
        /\ script'.listed = script.listed /\ script'.private = script.private /\ script'.reach = script.reach /\ script'.filtered = script.filtered
        /\ script'.before = script.before /\ script'.unnoted = FALSE /\ script'.disturbed = script.disturbed
      BY <1>1 DEF ScriptSet
  <1>3. home' = home /\ HomeSound(home') /\ home'.file = home.file
      BY <1>1
  <1>11. (\A line : HasLine(home', line) <=> HasLine(home, line)) /\ (AllRestricted(home) => AllRestricted(home'))
      BY <1>3 DEF HasLine, AllRestricted
  <1>12. TheKey' = TheKey
      BY <1>2 DEF TheKey
  <1>4. SelfTypes'
      BY <1>1, <1>2, <1>3 DEF SelfInv, SelfTypes, ScriptSet, Places, Notes, Supplied, MintedKey
  <1>5. Placed'
      BY <1>1, <1>2, <1>3 DEF SelfInv, Placed, AfterEntry
  <1>6. Noted'
      BY <1>1, <1>2, <1>3 DEF SelfInv, Noted, Placed, BeforeEntry
  <1>7. FileNoted'
      BY <1>1, <1>2, <1>3, <1>11, <1>12 DEF SelfInv, FileNoted, Noted, Placed, AfterEntry, BeforeEntry, WithEntry, FileFor, LeavesFile
  <1>8. MaterialsNoted'
      BY <1>1, <1>2, <1>3, <1>12 DEF SelfInv, MaterialsNoted
  <1>9. Untouched'
      BY <1>1, <1>2, <1>3, <1>11 DEF SelfInv, Untouched, BacksOffer
  <1>10. QED
      BY <1>4, <1>5, <1>6, <1>7, <1>8, <1>9 DEF SelfInv

\* The key is minted.
LEMMA KeyMinted ==
    ASSUME SelfInv,
           script.at = "mint",
           script' = [script EXCEPT !.at = "check", !.wrote = script.wrote \cup {"key"}, !.private = TRUE, !.input = MintedKey],
           home' = [home EXCEPT !.key = TRUE, !.pub = TRUE],
           UNCHANGED <<materials, envFile, outside>>
    PROVE  SelfInv'
  <1>1. script \in ScriptSet /\ HomeSound(home) /\ HomeSound(script.before)
      BY DEF SelfInv, SelfTypes, Places
  <1>2. /\ script'.at = "check" /\ script'.input = MintedKey /\ script'.wrote = script.wrote \cup {"key"}
        /\ script'.listed = script.listed /\ script'.private = TRUE /\ script'.reach = script.reach /\ script'.filtered = script.filtered
        /\ script'.before = script.before /\ script'.unnoted = script.unnoted /\ script'.disturbed = script.disturbed
      BY <1>1 DEF ScriptSet
  <1>3. home'.dir = home.dir /\ home'.key /\ home'.pub /\ home'.wrapper = home.wrapper /\ home'.file = home.file /\ HomeSound(home')
      BY <1>1 DEF HomeSound, HomeSet, SelfInv, Placed
  <1>11. (\A line : HasLine(home', line) <=> HasLine(home, line)) /\ (AllRestricted(home) => AllRestricted(home'))
      BY <1>3 DEF HasLine, AllRestricted
  <1>4. SelfTypes'
      BY <1>1, <1>2, <1>3 DEF SelfInv, SelfTypes, ScriptSet, Places, Notes, Supplied, MintedKey
  <1>5. Placed'
      BY <1>1, <1>2, <1>3 DEF SelfInv, Placed, AfterEntry, MintedKey
  <1>6. Noted'
      BY <1>1, <1>2, <1>3 DEF SelfInv, Noted, Placed, BeforeEntry
  <1>7. FileNoted'
      BY <1>1, <1>2, <1>3 DEF SelfInv, FileNoted, Noted, BeforeEntry, AfterEntry, FileFor, LeavesFile
  <1>8. MaterialsNoted'
      BY <1>1, <1>2, <1>3 DEF SelfInv, MaterialsNoted
  <1>9. Untouched'
      BY <1>1, <1>2, <1>3, <1>11 DEF SelfInv, Untouched, BacksOffer
  <1>10. QED
      BY <1>4, <1>5, <1>6, <1>7, <1>8, <1>9 DEF SelfInv

\* Minting fails.
LEMMA MintingFails ==
    ASSUME SelfInv,
           script.at = "mint",
           script' = [script EXCEPT !.at = "undo", !.wrote = script.wrote \cup {"key"}],
           UNCHANGED <<materials, home, envFile, outside>>
    PROVE  SelfInv'
  <1>1. script \in ScriptSet /\ HomeSound(home) /\ HomeSound(script.before)
      BY DEF SelfInv, SelfTypes, Places
  <1>2. /\ script'.at = "undo" /\ script'.input = script.input /\ script'.wrote = script.wrote \cup {"key"}
        /\ script'.listed = script.listed /\ script'.private = script.private /\ script'.reach = script.reach /\ script'.filtered = script.filtered
        /\ script'.before = script.before /\ script'.unnoted = script.unnoted /\ script'.disturbed = script.disturbed
      BY <1>1 DEF ScriptSet
  <1>3. home' = home /\ HomeSound(home') /\ home'.file = home.file
      BY <1>1
  <1>11. (\A line : HasLine(home', line) <=> HasLine(home, line)) /\ (AllRestricted(home) => AllRestricted(home'))
      BY <1>3 DEF HasLine, AllRestricted
  <1>12. TheKey' = TheKey
      BY <1>2 DEF TheKey
  <1>4. SelfTypes'
      BY <1>1, <1>2, <1>3 DEF SelfInv, SelfTypes, ScriptSet, Places, Notes, Supplied, MintedKey
  <1>5. Placed'
      BY <1>1, <1>2, <1>3 DEF SelfInv, Placed, AfterEntry
  <1>6. Noted'
      BY <1>1, <1>2, <1>3 DEF SelfInv, Noted, Placed, BeforeEntry
  <1>7. FileNoted'
      BY <1>1, <1>2, <1>3, <1>11, <1>12 DEF SelfInv, FileNoted, Noted, Placed, AfterEntry, BeforeEntry, WithEntry, FileFor, LeavesFile
  <1>8. MaterialsNoted'
      BY <1>1, <1>2, <1>3, <1>12 DEF SelfInv, MaterialsNoted
  <1>9. Untouched'
      BY <1>1, <1>2, <1>3, <1>11 DEF SelfInv, Untouched, BacksOffer
  <1>10. QED
      BY <1>4, <1>5, <1>6, <1>7, <1>8, <1>9 DEF SelfInv

\* The entries are looked at.
LEMMA KeysChecked ==
    ASSUME SelfInv,
           script.at = "check",
           ~home.dir => home.wrapper = "none",
           NEW found,
           found => HasLine(home, Restricted(TheKey)),
           found \in BOOLEAN,
           script' = [script EXCEPT !.at = (IF home.wrapper # "none" THEN "entry" ELSE IF home.dir THEN "wrapper" ELSE "dir again"), !.listed = found],
           UNCHANGED <<materials, home, envFile, outside>>
    PROVE  SelfInv'
  <1>1. script \in ScriptSet /\ HomeSound(home) /\ HomeSound(script.before)
      BY DEF SelfInv, SelfTypes, Places
  <1>2. /\ script'.at = (IF home.wrapper # "none" THEN "entry" ELSE IF home.dir THEN "wrapper" ELSE "dir again") /\ script'.input = script.input /\ script'.wrote = script.wrote
        /\ script'.listed = found /\ script'.private = script.private /\ script'.reach = script.reach /\ script'.filtered = script.filtered
        /\ script'.before = script.before /\ script'.unnoted = script.unnoted /\ script'.disturbed = script.disturbed
      BY <1>1 DEF ScriptSet
  <1>3. home' = home /\ HomeSound(home') /\ home'.file = home.file
      BY <1>1
  <1>11. (\A line : HasLine(home', line) <=> HasLine(home, line)) /\ (AllRestricted(home) => AllRestricted(home'))
      BY <1>3 DEF HasLine, AllRestricted
  <1>12. TheKey' = TheKey
      BY <1>2 DEF TheKey
  <1>4. SelfTypes'
      BY <1>1, <1>2, <1>3 DEF SelfInv, SelfTypes, ScriptSet, Places, Notes, Supplied, MintedKey
  <1>5. Placed'
      BY <1>1, <1>2, <1>3 DEF SelfInv, Placed, AfterEntry, HomeSound, HomeSet
  <1>6. Noted'
      BY <1>1, <1>2, <1>3 DEF SelfInv, Noted, Placed, BeforeEntry
  <1>7. FileNoted'
      BY <1>1, <1>2, <1>3, <1>11, <1>12 DEF SelfInv, FileNoted, Noted, Placed, AfterEntry, BeforeEntry, WithEntry
  <1>8. MaterialsNoted'
      BY <1>1, <1>2, <1>3, <1>12 DEF SelfInv, MaterialsNoted
  <1>9. Untouched'
      BY <1>1, <1>2, <1>3, <1>11 DEF SelfInv, Untouched, BacksOffer
  <1>10. QED
      BY <1>4, <1>5, <1>6, <1>7, <1>8, <1>9 DEF SelfInv

\* The forced command is written.
LEMMA WrapperWritten ==
    ASSUME SelfInv,
           script.at = "wrapper",
           script' = [script EXCEPT !.at = "entry", !.wrote = script.wrote \cup {"wrapper"}],
           home' = [home EXCEPT !.wrapper = "ours"],
           UNCHANGED <<materials, envFile, outside>>
    PROVE  SelfInv'
  <1>1. script \in ScriptSet /\ HomeSound(home) /\ HomeSound(script.before)
      BY DEF SelfInv, SelfTypes, Places
  <1>2. /\ script'.at = "entry" /\ script'.input = script.input /\ script'.wrote = script.wrote \cup {"wrapper"}
        /\ script'.listed = script.listed /\ script'.private = script.private /\ script'.reach = script.reach /\ script'.filtered = script.filtered
        /\ script'.before = script.before /\ script'.unnoted = script.unnoted /\ script'.disturbed = script.disturbed
      BY <1>1 DEF ScriptSet
  <1>3. home'.dir = home.dir /\ home'.key = home.key /\ home'.pub = home.pub /\ home'.wrapper = "ours" /\ home'.file = home.file /\ HomeSound(home')
      BY <1>1 DEF HomeSound, HomeSet, SelfInv, Placed
  <1>11. (\A line : HasLine(home', line) <=> HasLine(home, line)) /\ (AllRestricted(home) => AllRestricted(home'))
      BY <1>3 DEF HasLine, AllRestricted
  <1>12. TheKey' = TheKey
      BY <1>2 DEF TheKey
  <1>4. SelfTypes'
      BY <1>1, <1>2, <1>3 DEF SelfInv, SelfTypes, ScriptSet, Places, Notes, Supplied, MintedKey
  <1>5. Placed'
      BY <1>1, <1>2, <1>3 DEF SelfInv, Placed, AfterEntry
  <1>6. Noted'
      BY <1>1, <1>2, <1>3 DEF SelfInv, Noted, Placed, BeforeEntry
  <1>7. FileNoted'
      BY <1>1, <1>2, <1>3, <1>11, <1>12 DEF SelfInv, FileNoted, Noted, Placed, AfterEntry, BeforeEntry, WithEntry, FileFor, LeavesFile
  <1>8. MaterialsNoted'
      BY <1>1, <1>2, <1>3, <1>12 DEF SelfInv, MaterialsNoted
  <1>9. Untouched'
      BY <1>1, <1>2, <1>3, <1>11 DEF SelfInv, Untouched, BacksOffer
  <1>10. QED
      BY <1>4, <1>5, <1>6, <1>7, <1>8, <1>9 DEF SelfInv

\* An entry that is listed is left alone.
LEMMA EntryFound ==
    ASSUME SelfInv,
           script.at = "entry",
           script.listed,
           script' = [script EXCEPT !.at = "verify"],
           UNCHANGED <<materials, home, envFile, outside>>
    PROVE  SelfInv'
  <1>1. script \in ScriptSet /\ HomeSound(home) /\ HomeSound(script.before)
      BY DEF SelfInv, SelfTypes, Places
  <1>2. /\ script'.at = "verify" /\ script'.input = script.input /\ script'.wrote = script.wrote
        /\ script'.listed = script.listed /\ script'.private = script.private /\ script'.reach = script.reach /\ script'.filtered = script.filtered
        /\ script'.before = script.before /\ script'.unnoted = script.unnoted /\ script'.disturbed = script.disturbed
      BY <1>1 DEF ScriptSet
  <1>3. home' = home /\ HomeSound(home') /\ home'.file = home.file
      BY <1>1
  <1>11. (\A line : HasLine(home', line) <=> HasLine(home, line)) /\ (AllRestricted(home) => AllRestricted(home'))
      BY <1>3 DEF HasLine, AllRestricted
  <1>12. TheKey' = TheKey
      BY <1>2 DEF TheKey
  <1>4. SelfTypes'
      BY <1>1, <1>2, <1>3 DEF SelfInv, SelfTypes, ScriptSet, Places, Notes, Supplied, MintedKey
  <1>5. Placed'
      BY <1>1, <1>2, <1>3 DEF SelfInv, Placed, AfterEntry
  <1>6. Noted'
      BY <1>1, <1>2, <1>3 DEF SelfInv, Noted, Placed, BeforeEntry
  <1>7. FileNoted'
      BY <1>1, <1>2, <1>3, <1>11, <1>12 DEF SelfInv, FileNoted, Noted, Placed, AfterEntry, BeforeEntry, WithEntry
  <1>8. MaterialsNoted'
      BY <1>1, <1>2, <1>3, <1>12 DEF SelfInv, MaterialsNoted
  <1>9. Untouched'
      BY <1>1, <1>2, <1>3, <1>11 DEF SelfInv, Untouched, BacksOffer
  <1>10. QED
      BY <1>4, <1>5, <1>6, <1>7, <1>8, <1>9 DEF SelfInv

\* The entry is noted.
LEMMA EntryNoted ==
    ASSUME SelfInv,
           script.at = "appended",
           script' = [script EXCEPT !.at = "verify", !.wrote = script.wrote \cup {"entry"}, !.unnoted = FALSE],
           UNCHANGED <<materials, home, envFile, outside>>
    PROVE  SelfInv'
  <1>1. script \in ScriptSet /\ HomeSound(home) /\ HomeSound(script.before)
      BY DEF SelfInv, SelfTypes, Places
  <1>2. /\ script'.at = "verify" /\ script'.input = script.input /\ script'.wrote = script.wrote \cup {"entry"}
        /\ script'.listed = script.listed /\ script'.private = script.private /\ script'.reach = script.reach /\ script'.filtered = script.filtered
        /\ script'.before = script.before /\ script'.unnoted = FALSE /\ script'.disturbed = script.disturbed
      BY <1>1 DEF ScriptSet
  <1>3. home' = home /\ HomeSound(home') /\ home'.file = home.file
      BY <1>1
  <1>11. (\A line : HasLine(home', line) <=> HasLine(home, line)) /\ (AllRestricted(home) => AllRestricted(home'))
      BY <1>3 DEF HasLine, AllRestricted
  <1>12. TheKey' = TheKey
      BY <1>2 DEF TheKey
  <1>4. SelfTypes'
      BY <1>1, <1>2, <1>3 DEF SelfInv, SelfTypes, ScriptSet, Places, Notes, Supplied, MintedKey
  <1>5. Placed'
      BY <1>1, <1>2, <1>3 DEF SelfInv, Placed, AfterEntry
  <1>6. Noted'
      BY <1>1, <1>2, <1>3 DEF SelfInv, Noted, Placed, BeforeEntry, AfterEntry
  <1>7. FileNoted'
    <2>1. ~script.disturbed => HasLine(home, Restricted(TheKey))
        BY EntryListed DEF SelfInv, FileNoted
    <2>2. QED
        BY <1>1, <1>2, <1>3, <1>11, <1>12, <2>1 DEF SelfInv, FileNoted, WithEntry, AfterEntry
  <1>8. MaterialsNoted'
      BY <1>1, <1>2, <1>3, <1>12 DEF SelfInv, MaterialsNoted
  <1>9. Untouched'
      BY <1>1, <1>2, <1>3, <1>11 DEF SelfInv, Untouched, BacksOffer
  <1>10. QED
      BY <1>4, <1>5, <1>6, <1>7, <1>8, <1>9 DEF SelfInv

\* The key works.
LEMMA KeyVerified ==
    ASSUME SelfInv,
           script.at = "verify",
           script' = [script EXCEPT !.at = "probe"],
           UNCHANGED <<materials, home, envFile, outside>>
    PROVE  SelfInv'
  <1>1. script \in ScriptSet /\ HomeSound(home) /\ HomeSound(script.before)
      BY DEF SelfInv, SelfTypes, Places
  <1>2. /\ script'.at = "probe" /\ script'.input = script.input /\ script'.wrote = script.wrote
        /\ script'.listed = script.listed /\ script'.private = script.private /\ script'.reach = script.reach /\ script'.filtered = script.filtered
        /\ script'.before = script.before /\ script'.unnoted = script.unnoted /\ script'.disturbed = script.disturbed
      BY <1>1 DEF ScriptSet
  <1>3. home' = home /\ HomeSound(home') /\ home'.file = home.file
      BY <1>1
  <1>11. (\A line : HasLine(home', line) <=> HasLine(home, line)) /\ (AllRestricted(home) => AllRestricted(home'))
      BY <1>3 DEF HasLine, AllRestricted
  <1>12. TheKey' = TheKey
      BY <1>2 DEF TheKey
  <1>4. SelfTypes'
      BY <1>1, <1>2, <1>3 DEF SelfInv, SelfTypes, ScriptSet, Places, Notes, Supplied, MintedKey
  <1>5. Placed'
      BY <1>1, <1>2, <1>3 DEF SelfInv, Placed, AfterEntry
  <1>6. Noted'
      BY <1>1, <1>2, <1>3 DEF SelfInv, Noted, Placed, BeforeEntry
  <1>7. FileNoted'
      BY <1>1, <1>2, <1>3, <1>11, <1>12 DEF SelfInv, FileNoted, Noted, Placed, AfterEntry, BeforeEntry, WithEntry
  <1>8. MaterialsNoted'
      BY <1>1, <1>2, <1>3, <1>12 DEF SelfInv, MaterialsNoted
  <1>9. Untouched'
      BY <1>1, <1>2, <1>3, <1>11 DEF SelfInv, Untouched, BacksOffer
  <1>10. QED
      BY <1>4, <1>5, <1>6, <1>7, <1>8, <1>9 DEF SelfInv

\* An address is found.
LEMMA AddressProbed ==
    ASSUME SelfInv,
           script.at = "probe",
           NEW reach \in {"proven", "reachable"},
           script' = [script EXCEPT !.at = "materials", !.reach = reach],
           UNCHANGED <<materials, home, envFile, outside>>
    PROVE  SelfInv'
  <1>1. script \in ScriptSet /\ HomeSound(home) /\ HomeSound(script.before)
      BY DEF SelfInv, SelfTypes, Places
  <1>2. /\ script'.at = "materials" /\ script'.input = script.input /\ script'.wrote = script.wrote
        /\ script'.listed = script.listed /\ script'.private = script.private /\ script'.reach = reach /\ script'.filtered = script.filtered
        /\ script'.before = script.before /\ script'.unnoted = script.unnoted /\ script'.disturbed = script.disturbed
      BY <1>1 DEF ScriptSet
  <1>3. home' = home /\ HomeSound(home') /\ home'.file = home.file
      BY <1>1
  <1>11. (\A line : HasLine(home', line) <=> HasLine(home, line)) /\ (AllRestricted(home) => AllRestricted(home'))
      BY <1>3 DEF HasLine, AllRestricted
  <1>12. TheKey' = TheKey
      BY <1>2 DEF TheKey
  <1>4. SelfTypes'
      BY <1>1, <1>2, <1>3 DEF SelfInv, SelfTypes, ScriptSet, Places, Notes, Supplied, MintedKey
  <1>5. Placed'
      BY <1>1, <1>2, <1>3 DEF SelfInv, Placed, AfterEntry
  <1>6. Noted'
      BY <1>1, <1>2, <1>3 DEF SelfInv, Noted, Placed, BeforeEntry
  <1>7. FileNoted'
      BY <1>1, <1>2, <1>3, <1>11, <1>12 DEF SelfInv, FileNoted, Noted, Placed, AfterEntry, BeforeEntry, WithEntry
  <1>8. MaterialsNoted'
      BY <1>1, <1>2, <1>3, <1>12 DEF SelfInv, MaterialsNoted
  <1>9. Untouched'
      BY <1>1, <1>2, <1>3, <1>11 DEF SelfInv, Untouched, BacksOffer
  <1>10. QED
      BY <1>4, <1>5, <1>6, <1>7, <1>8, <1>9 DEF SelfInv

\* The materials are written.
LEMMA MaterialsWritten ==
    ASSUME SelfInv,
           script.at = "materials",
           script' = [script EXCEPT !.at = "written"],
           materials' = [key |-> TheKey, reach |-> script.reach],
           UNCHANGED <<home, envFile, outside>>
    PROVE  SelfInv'
  <1>1. script \in ScriptSet /\ HomeSound(home) /\ HomeSound(script.before)
      BY DEF SelfInv, SelfTypes, Places
  <1>2. /\ script'.at = "written" /\ script'.input = script.input /\ script'.wrote = script.wrote
        /\ script'.listed = script.listed /\ script'.private = script.private /\ script'.reach = script.reach /\ script'.filtered = script.filtered
        /\ script'.before = script.before /\ script'.unnoted = script.unnoted /\ script'.disturbed = script.disturbed
      BY <1>1 DEF ScriptSet
  <1>3. home' = home /\ HomeSound(home') /\ home'.file = home.file
      BY <1>1
  <1>11. (\A line : HasLine(home', line) <=> HasLine(home, line)) /\ (AllRestricted(home) => AllRestricted(home'))
      BY <1>3 DEF HasLine, AllRestricted
  <1>12. TheKey' = TheKey
      BY <1>2 DEF TheKey
  <1>4. SelfTypes'
    <2>1. TheKey \in KeyNames /\ script.reach \in {"unproven", "proven", "reachable"}
        BY <1>1 DEF SelfInv, Placed, AfterEntry, TheKey, KeyNames, ScriptSet
    <2>2. materials' \in Offers
        BY <2>1 DEF Offers
    <2>3. QED
        BY <1>1, <1>2, <1>3, <2>2 DEF SelfInv, SelfTypes, ScriptSet, Places, Notes, Supplied, MintedKey
  <1>5. Placed'
      BY <1>1, <1>2, <1>3 DEF SelfInv, Placed, AfterEntry
  <1>6. Noted'
      BY <1>1, <1>2, <1>3 DEF SelfInv, Noted, Placed, BeforeEntry
  <1>7. FileNoted'
      BY <1>1, <1>2, <1>3, <1>11, <1>12 DEF SelfInv, FileNoted, Noted, Placed, AfterEntry, BeforeEntry, WithEntry
  <1>8. MaterialsNoted'
      BY <1>1, <1>2, <1>3, <1>12 DEF SelfInv, MaterialsNoted
  <1>9. Untouched'
      BY <1>1, <1>2, <1>3, <1>11 DEF SelfInv, Untouched, BacksOffer
  <1>10. QED
      BY <1>4, <1>5, <1>6, <1>7, <1>8, <1>9 DEF SelfInv

\* The script finishes.
LEMMA ScriptFinishes ==
    ASSUME SelfInv,
           script.at = "written",
           script' = [script EXCEPT !.at = "finished"],
           UNCHANGED <<materials, home, envFile, outside>>
    PROVE  SelfInv'
  <1>1. script \in ScriptSet /\ HomeSound(home) /\ HomeSound(script.before)
      BY DEF SelfInv, SelfTypes, Places
  <1>2. /\ script'.at = "finished" /\ script'.input = script.input /\ script'.wrote = script.wrote
        /\ script'.listed = script.listed /\ script'.private = script.private /\ script'.reach = script.reach /\ script'.filtered = script.filtered
        /\ script'.before = script.before /\ script'.unnoted = script.unnoted /\ script'.disturbed = script.disturbed
      BY <1>1 DEF ScriptSet
  <1>3. home' = home /\ HomeSound(home') /\ home'.file = home.file
      BY <1>1
  <1>11. (\A line : HasLine(home', line) <=> HasLine(home, line)) /\ (AllRestricted(home) => AllRestricted(home'))
      BY <1>3 DEF HasLine, AllRestricted
  <1>12. TheKey' = TheKey
      BY <1>2 DEF TheKey
  <1>4. SelfTypes'
      BY <1>1, <1>2, <1>3 DEF SelfInv, SelfTypes, ScriptSet, Places, Notes, Supplied, MintedKey
  <1>5. Placed'
      BY <1>1, <1>2, <1>3 DEF SelfInv, Placed, AfterEntry
  <1>6. Noted'
      BY <1>1, <1>2, <1>3 DEF SelfInv, Noted, Placed, BeforeEntry
  <1>7. FileNoted'
      BY <1>1, <1>2, <1>3, <1>11, <1>12 DEF SelfInv, FileNoted, Noted, Placed, AfterEntry, BeforeEntry, WithEntry
  <1>8. MaterialsNoted'
      BY <1>1, <1>2, <1>3, <1>12 DEF SelfInv, MaterialsNoted
  <1>9. Untouched'
      BY <1>1, <1>2, <1>3, <1>11 DEF SelfInv, Untouched, BacksOffer
  <1>10. QED
      BY <1>4, <1>5, <1>6, <1>7, <1>8, <1>9 DEF SelfInv

\* No entry is to be taken back.
LEMMA NothingToFilter ==
    ASSUME SelfInv,
           script.at = "undo",
           ~("entry" \in script.wrote /\ home.file.there /\ HasLine(home, Restricted(TheKey))),
           script' = [script EXCEPT !.at = "undo rest"],
           UNCHANGED <<materials, home, envFile, outside>>
    PROVE  SelfInv'
  <1>1. script \in ScriptSet /\ HomeSound(home) /\ HomeSound(script.before)
      BY DEF SelfInv, SelfTypes, Places
  <1>2. /\ script'.at = "undo rest" /\ script'.input = script.input /\ script'.wrote = script.wrote
        /\ script'.listed = script.listed /\ script'.private = script.private /\ script'.reach = script.reach /\ script'.filtered = script.filtered
        /\ script'.before = script.before /\ script'.unnoted = script.unnoted /\ script'.disturbed = script.disturbed
      BY <1>1 DEF ScriptSet
  <1>3. home' = home /\ HomeSound(home') /\ home'.file = home.file
      BY <1>1
  <1>11. (\A line : HasLine(home', line) <=> HasLine(home, line)) /\ (AllRestricted(home) => AllRestricted(home'))
      BY <1>3 DEF HasLine, AllRestricted
  <1>12. TheKey' = TheKey
      BY <1>2 DEF TheKey
  <1>4. SelfTypes'
      BY <1>1, <1>2, <1>3 DEF SelfInv, SelfTypes, ScriptSet, Places, Notes, Supplied, MintedKey
  <1>5. Placed'
      BY <1>1, <1>2, <1>3 DEF SelfInv, Placed, AfterEntry
  <1>6. Noted'
      BY <1>1, <1>2, <1>3 DEF SelfInv, Noted, Placed, BeforeEntry
  <1>7. FileNoted'
    <2>1. ~script.disturbed => "entry" \notin script.wrote
      <3>1. ~script.disturbed /\ "entry" \in script.wrote => home.file = WithEntry(script.before)
          BY <1>1 DEF SelfInv, FileNoted
      <3>2. QED
          BY <3>1, EntryListed DEF SelfInv, SelfTypes
    <2>2. QED
        BY <1>1, <1>2, <1>3, <1>11, <1>12, <2>1 DEF SelfInv, FileNoted, Noted, Placed, AfterEntry
  <1>8. MaterialsNoted'
      BY <1>1, <1>2, <1>3, <1>12 DEF SelfInv, MaterialsNoted
  <1>9. Untouched'
      BY <1>1, <1>2, <1>3, <1>11 DEF SelfInv, Untouched, BacksOffer
  <1>10. QED
      BY <1>4, <1>5, <1>6, <1>7, <1>8, <1>9 DEF SelfInv

\* The copy without the entry cannot be made.
LEMMA FilterFails ==
    ASSUME SelfInv,
           script.at = "undo",
           "entry" \in script.wrote,
           script' = [script EXCEPT !.at = "undo rest", !.disturbed = TRUE],
           UNCHANGED <<materials, home, envFile, outside>>
    PROVE  SelfInv'
  <1>1. script \in ScriptSet /\ HomeSound(home) /\ HomeSound(script.before)
      BY DEF SelfInv, SelfTypes, Places
  <1>2. /\ script'.at = "undo rest" /\ script'.input = script.input /\ script'.wrote = script.wrote
        /\ script'.listed = script.listed /\ script'.private = script.private /\ script'.reach = script.reach /\ script'.filtered = script.filtered
        /\ script'.before = script.before /\ script'.unnoted = script.unnoted /\ script'.disturbed = TRUE
      BY <1>1 DEF ScriptSet
  <1>3. home' = home /\ HomeSound(home') /\ home'.file = home.file
      BY <1>1
  <1>11. (\A line : HasLine(home', line) <=> HasLine(home, line)) /\ (AllRestricted(home) => AllRestricted(home'))
      BY <1>3 DEF HasLine, AllRestricted
  <1>12. TheKey' = TheKey
      BY <1>2 DEF TheKey
  <1>4. SelfTypes'
      BY <1>1, <1>2, <1>3 DEF SelfInv, SelfTypes, ScriptSet, Places, Notes, Supplied, MintedKey
  <1>5. Placed'
      BY <1>1, <1>2, <1>3 DEF SelfInv, Placed, AfterEntry
  <1>6. Noted'
      BY <1>1, <1>2, <1>3 DEF SelfInv, Noted, Placed, BeforeEntry
  <1>7. FileNoted'
      BY <1>1, <1>2, <1>3, <1>11, <1>12 DEF SelfInv, FileNoted, Noted, Placed, AfterEntry, BeforeEntry, WithEntry
  <1>8. MaterialsNoted'
      BY <1>1, <1>2, <1>3, <1>12 DEF SelfInv, MaterialsNoted
  <1>9. Untouched'
      BY <1>1, <1>2, <1>3, <1>11 DEF SelfInv, Untouched, BacksOffer
  <1>10. QED
      BY <1>4, <1>5, <1>6, <1>7, <1>8, <1>9 DEF SelfInv

\* The file is made.
LEMMA FileMade ==
    ASSUME SelfInv,
           script.at = "entry",
           ~home.file.there,
           script' = [script EXCEPT !.at = "append", !.wrote = script.wrote \cup {"file"}],
           home' = [home EXCEPT !.file = EmptyFile],
           UNCHANGED <<materials, envFile, outside>>
    PROVE  SelfInv'
  <1>1. script \in ScriptSet /\ HomeSound(home) /\ HomeSound(script.before)
      BY DEF SelfInv, SelfTypes, Places
  <1>2. /\ script'.at = "append" /\ script'.input = script.input /\ script'.wrote = script.wrote \cup {"file"}
        /\ script'.listed = script.listed /\ script'.private = script.private /\ script'.reach = script.reach /\ script'.filtered = script.filtered
        /\ script'.before = script.before /\ script'.unnoted = script.unnoted /\ script'.disturbed = script.disturbed
      BY <1>1 DEF ScriptSet
  <1>3. home'.dir = home.dir /\ home'.key = home.key /\ home'.pub = home.pub /\ home'.wrapper = home.wrapper
        /\ home'.file = EmptyFile /\ HomeSound(home')
    <2>1. <<>> \in Seq(Line)
        OBVIOUS
    <2>2. EmptyFile \in FileSet /\ EmptyFile.there
        BY <2>1 DEF EmptyFile, FileSet
    <2>3. home.dir
        BY DEF SelfInv, Placed
    <2>4. QED
        BY <1>1, <2>2, <2>3 DEF HomeSound, HomeSet
  <1>11. home'.file.lines = home.file.lines
      BY <1>1, <1>3 DEF HomeSound, EmptyFile
  <1>12. (\A line : HasLine(home', line) <=> HasLine(home, line)) /\ (AllRestricted(home) => AllRestricted(home'))
      BY <1>11 DEF HasLine, AllRestricted
  <1>13. TheKey' = TheKey
      BY <1>2 DEF TheKey
  <1>4. SelfTypes'
      BY <1>1, <1>2, <1>3 DEF SelfInv, SelfTypes, ScriptSet, Places, Notes, Supplied, MintedKey
  <1>5. Placed'
      BY <1>1, <1>2, <1>3 DEF SelfInv, Placed, AfterEntry, EmptyFile
  <1>6. Noted'
      BY <1>1, <1>2, <1>3 DEF SelfInv, Noted, Placed, BeforeEntry
  <1>7. FileNoted'
    <2>1. "entry" \notin script.wrote /\ "file" \notin script.wrote
        BY DEF SelfInv, Noted, BeforeEntry
    <2>2. ~script.disturbed => home.file = script.before.file
        BY <2>1 DEF SelfInv, FileNoted, FileFor, LeavesFile
    <2>3. ~script.disturbed => home'.file = FileFor(script.before, script'.wrote) /\ ~script.before.file.there
        BY <1>2, <1>3, <2>1, <2>2 DEF FileFor, LeavesFile
    <2>4. QED
        BY <1>2, <2>1, <2>3 DEF FileNoted, AfterEntry
  <1>8. MaterialsNoted'
      BY <1>1, <1>2, <1>3, <1>13 DEF SelfInv, MaterialsNoted
  <1>9. Untouched'
      BY <1>1, <1>2, <1>3, <1>12 DEF SelfInv, Untouched, BacksOffer
  <1>10. QED
      BY <1>4, <1>5, <1>6, <1>7, <1>8, <1>9 DEF SelfInv

LEMMA InputAtEntry ==
    ASSUME SelfInv, script.at = "append" \/ script.at = "entry"
    PROVE  home.dir /\ (script.input = <<"given">> \/ script.input = <<"minted">>)
  <1>1. CASE script.at = "append"
      BY <1>1 DEF SelfInv, Placed
  <1>2. CASE script.at = "entry"
      BY <1>2 DEF SelfInv, Placed
  <1>3. QED
      BY <1>1, <1>2

\* The entry is appended.
LEMMA EntryAppended ==
    ASSUME SelfInv,
           script.at = "append" \/ script.at = "entry",
           home.file.there,
           script' = [script EXCEPT !.at = "appended", !.unnoted = TRUE],
           home' = [home EXCEPT !.file = [there |-> TRUE, lines |-> Append(home.file.lines, Restricted(TheKey))]],
           UNCHANGED <<materials, envFile, outside>>
    PROVE  SelfInv'
  <1>1. script \in ScriptSet /\ HomeSound(home) /\ HomeSound(script.before)
      BY DEF SelfInv, SelfTypes, Places
  <1>2. /\ script'.at = "appended" /\ script'.input = script.input /\ script'.wrote = script.wrote
        /\ script'.listed = script.listed /\ script'.private = script.private /\ script'.reach = script.reach /\ script'.filtered = script.filtered
        /\ script'.before = script.before /\ script'.unnoted = TRUE /\ script'.disturbed = script.disturbed
      BY <1>1 DEF ScriptSet
  <1>3. home'.dir = home.dir /\ home'.key = home.key /\ home'.pub = home.pub /\ home'.wrapper = home.wrapper
        /\ home'.file = [there |-> TRUE, lines |-> Append(home.file.lines, Restricted(TheKey))] /\ HomeSound(home')
    <2>1. Restricted(TheKey) \in Line
        BY InputAtEntry DEF Restricted, Line, KeyNames, TheKey
    <2> DEFINE lines == Append(home.file.lines, Restricted(TheKey))
               file == [there |-> TRUE, lines |-> lines]
    <2>2. lines \in Seq(Line)
        BY <1>1, <2>1 DEF HomeSound, HomeSet, FileSet
    <2> HIDE DEF lines
    <2>3. file \in FileSet /\ file.there
        BY <2>2 DEF FileSet
    <2>4. home.dir
        BY InputAtEntry
    <2>5. home' = [home EXCEPT !.file = file]
        BY DEF lines
    <2> HIDE DEF file
    <2>6. home'.dir = home.dir /\ home'.key = home.key /\ home'.pub = home.pub /\ home'.wrapper = home.wrapper
          /\ home'.file = file /\ HomeSound(home')
        BY <1>1, <2>3, <2>4, <2>5 DEF HomeSound, HomeSet
    <2>7. QED
        BY <2>6 DEF file, lines
  <1>12. TheKey' = TheKey
      BY <1>2 DEF TheKey
  <1>4. SelfTypes'
      BY <1>1, <1>2, <1>3 DEF SelfInv, SelfTypes, ScriptSet, Places, Notes, Supplied, MintedKey
  <1>5. Placed'
      BY <1>1, <1>2, <1>3 DEF SelfInv, Placed, AfterEntry
  <1>6. Noted'
      BY <1>1, <1>2, <1>3 DEF SelfInv, Noted, Placed, BeforeEntry
  <1>7. FileNoted'
    <2> DEFINE b == script.before
    <2>1. "entry" \notin script.wrote
        BY DEF SelfInv, Noted, BeforeEntry
    <2>2. ~script.disturbed => home.file = FileFor(b, script.wrote) /\ ("file" \in script.wrote => ~b.file.there)
        BY <2>1 DEF SelfInv, FileNoted
    <2>3. ~script.disturbed => home.file.lines = b.file.lines
        BY <1>1, <2>2 DEF FileFor, LeavesFile, EmptyFile, HomeSound
    <2>4. ~script.disturbed => ("file" \in script.wrote <=> ~b.file.there)
        BY <2>1, <2>2 DEF FileFor, LeavesFile
    <2>5. ~script.disturbed => home'.file = WithEntry(script.before)'
        BY <1>2, <1>3, <1>12, <2>3 DEF WithEntry
    <2>6. QED
        BY <1>2, <2>4, <2>5 DEF FileNoted, AfterEntry
  <1>8. MaterialsNoted'
      BY <1>1, <1>2, <1>3, <1>12 DEF SelfInv, MaterialsNoted
  <1>9. Untouched'
    <2> DEFINE lines == home.file.lines
               keyLine == Restricted(TheKey)
    <2>1. lines \in Seq(Line) /\ home'.file.lines = Append(lines, keyLine) /\ keyLine.options = "restricted"
        BY <1>1, <1>3 DEF HomeSound, HomeSet, FileSet, Restricted
    <2> HIDE DEF lines, keyLine
    <2>2. DOMAIN lines = 1..Len(lines) /\ Len(lines) \in Nat /\ DOMAIN home'.file.lines = 1..Len(lines) + 1
          /\ home'.file.lines[Len(lines) + 1] = keyLine /\ \A i \in 1..Len(lines) : home'.file.lines[i] = lines[i]
        BY <2>1
    <2>3. \A i \in 1..Len(lines) + 1 : i \in 1..Len(lines) \/ i = Len(lines) + 1
        BY <2>2
    <2>4. AllRestricted(home) => AllRestricted(home')
        BY <2>1, <2>2, <2>3 DEF AllRestricted, lines
    <2>5. \A line : HasLine(home, line) => HasLine(home', line)
      <3>1. SUFFICES ASSUME NEW line, NEW i \in DOMAIN home.file.lines, home.file.lines[i] = line
                     PROVE  \E k \in DOMAIN home'.file.lines : home'.file.lines[k] = line
          BY DEF HasLine
      <3>2. i \in 1..Len(lines) /\ i \in 1..Len(lines) + 1
          BY <2>2, <3>1 DEF lines
      <3>3. home'.file.lines[i] = line /\ i \in DOMAIN home'.file.lines
          BY <2>2, <3>1, <3>2 DEF lines
      <3>4. QED
          BY <3>3
    <2>6. QED
        BY <1>1, <1>2, <1>3, <2>4, <2>5 DEF SelfInv, Untouched, BacksOffer
  <1>10. QED
      BY <1>4, <1>5, <1>6, <1>7, <1>8, <1>9 DEF SelfInv

\* The copy without the entry is made.
LEMMA EntryFiltered ==
    ASSUME SelfInv,
           script.at = "undo",
           "entry" \in script.wrote,
           home.file.there,
           HasLine(home, Restricted(TheKey)),
           script' = [script EXCEPT !.at = "filtered", !.filtered = WithoutLast(home.file.lines, Restricted(TheKey))],
           UNCHANGED <<materials, home, envFile, outside>>
    PROVE  SelfInv'
  <1>1. script \in ScriptSet /\ HomeSound(home) /\ HomeSound(script.before)
      BY DEF SelfInv, SelfTypes, Places
  <1>2. /\ script'.at = "filtered" /\ script'.input = script.input /\ script'.wrote = script.wrote
        /\ script'.listed = script.listed /\ script'.private = script.private /\ script'.reach = script.reach /\ script'.filtered = WithoutLast(home.file.lines, Restricted(TheKey))
        /\ script'.before = script.before /\ script'.unnoted = script.unnoted /\ script'.disturbed = script.disturbed
      BY <1>1 DEF ScriptSet
  <1>3. home' = home /\ HomeSound(home') /\ home'.file = home.file
      BY <1>1
  <1>11. (\A line : HasLine(home', line) <=> HasLine(home, line)) /\ (AllRestricted(home) => AllRestricted(home'))
      BY <1>3 DEF HasLine, AllRestricted
  <1>12. TheKey' = TheKey
      BY <1>2 DEF TheKey
  <1>4. SelfTypes'
    <2>1. script'.filtered \in Seq(Line)
      <3> DEFINE lines == home.file.lines
                 keyLine == Restricted(TheKey)
      <3>1. lines \in Seq(Line)
          BY <1>1 DEF HomeSound, HomeSet, FileSet
      <3>2. PICK i \in DOMAIN lines : lines[i] = keyLine
          BY DEF HasLine
      <3>3. script'.filtered = WithoutLast(lines, keyLine)
          BY <1>2
      <3> HIDE DEF lines, keyLine
      <3>4. QED
          BY <3>1, <3>2, <3>3, WithoutLastIsSeq
    <2>2. QED
        BY <1>1, <1>2, <1>3, <2>1 DEF SelfInv, SelfTypes, ScriptSet, Places, Notes, Supplied, MintedKey
  <1>5. Placed'
    <2>1. script.input \in {<<"given">>, <<"minted">>} /\ ~script.unnoted
        BY DEF SelfInv, Noted
    <2>2. QED
        BY <1>1, <1>2, <1>3, <2>1 DEF SelfInv, Placed, AfterEntry
  <1>6. Noted'
      BY <1>1, <1>2, <1>3 DEF SelfInv, Noted, Placed, BeforeEntry
  <1>7. FileNoted'
    <2>1. ~script.disturbed => home.file = WithEntry(script.before) /\ ("file" \in script.wrote <=> ~script.before.file.there)
        BY DEF SelfInv, FileNoted
    <2>2. ~script.disturbed => script'.filtered = script.before.file.lines
      <3>1. SUFFICES ASSUME ~script.disturbed PROVE script'.filtered = script.before.file.lines
          OBVIOUS
      <3> DEFINE lines == script.before.file.lines
                 keyLine == Restricted(TheKey)
      <3>2. lines \in Seq(Line) /\ home.file.lines = Append(lines, keyLine)
          BY <1>1, <2>1, <3>1 DEF HomeSound, HomeSet, FileSet, WithEntry
      <3>3. keyLine \in Line
          BY DEF SelfInv, Noted, Restricted, Line, KeyNames, TheKey
      <3>4. script'.filtered = WithoutLast(Append(lines, keyLine), keyLine)
          BY <1>2, <3>2
      <3> HIDE DEF lines, keyLine
      <3>5. script'.filtered = lines
          BY <3>2, <3>3, <3>4, AppendedIsOut
      <3>6. QED
          BY <3>5 DEF lines
    <2>3. QED
        BY <1>1, <1>2, <1>3, <1>12, <2>1, <2>2 DEF FileNoted, WithEntry, AfterEntry
  <1>8. MaterialsNoted'
      BY <1>1, <1>2, <1>3, <1>12 DEF SelfInv, MaterialsNoted
  <1>9. Untouched'
      BY <1>1, <1>2, <1>3, <1>11 DEF SelfInv, Untouched, BacksOffer
  <1>10. QED
      BY <1>4, <1>5, <1>6, <1>7, <1>8, <1>9 DEF SelfInv


\* ... and put in place.
LEMMA FileReplaced ==
    ASSUME SelfInv, ReplaceFile PROVE SelfInv'
  <1>1. /\ script \in ScriptSet /\ HomeSound(home) /\ HomeSound(script.before) /\ script.at = "filtered"
        /\ script' = [script EXCEPT !.at = "undo rest"] /\ materials' = materials /\ envFile' = envFile /\ outside' = outside
      BY DEF SelfInv, SelfTypes, ReplaceFile, Go, Keep
  <1> DEFINE file == IF "file" \in script.wrote /\ script.filtered = <<>> THEN NoFile ELSE [home.file EXCEPT !.lines = script.filtered]
             b == script.before
  <1>2. /\ script'.at = "undo rest" /\ script'.input = script.input /\ script'.wrote = script.wrote
        /\ script'.before = script.before /\ script'.unnoted = script.unnoted /\ script'.disturbed = script.disturbed
      BY <1>1 DEF ScriptSet
  <1>3. home' = [home EXCEPT !.file = file]
      BY DEF ReplaceFile
  <1>4. "entry" \in script.wrote /\ ~script.unnoted /\ home.file.there
      BY <1>1 DEF SelfInv, Noted, Placed
  <1>5. file \in FileSet /\ (~file.there => file.lines = <<>>)
    <2>1. script.filtered \in Seq(Line) /\ home.file \in FileSet
        BY <1>1 DEF ScriptSet, HomeSound, HomeSet
    <2>2. <<>> \in Seq(Line)
        OBVIOUS
    <2>3. NoFile \in FileSet /\ NoFile.lines = <<>>
        BY <2>2 DEF NoFile, FileSet
    <2>4. [home.file EXCEPT !.lines = script.filtered] \in FileSet /\ [home.file EXCEPT !.lines = script.filtered].there
        BY <1>4, <2>1 DEF FileSet
    <2>5. QED
        BY <2>3, <2>4
  <1>6. ~script.disturbed => file = b.file
    <2>1. SUFFICES ASSUME ~script.disturbed PROVE file = b.file
        OBVIOUS
    <2>2. home.file = WithEntry(b) /\ ("file" \in script.wrote <=> ~b.file.there) /\ script.filtered = b.file.lines
        BY <1>1, <1>4, <2>1 DEF SelfInv, FileNoted
    <2>3. b.file \in FileSet /\ (~b.file.there => b.file.lines = <<>>)
        BY <1>1 DEF HomeSound, HomeSet
    <2>4. CASE b.file.there
      <3>1. file = [there |-> TRUE, lines |-> b.file.lines]
        <4>1. \A t, k, l : [[there |-> t, lines |-> k] EXCEPT !.lines = l] = [there |-> t, lines |-> l]
            OBVIOUS
        <4>2. PICK k : home.file = [there |-> TRUE, lines |-> k]
          <5>1. home.file = [there |-> TRUE, lines |-> home.file.lines]
              BY <1>1, <1>4 DEF HomeSound, HomeSet, FileSet
          <5>2. QED
              BY <5>1
        <4>3. file = [home.file EXCEPT !.lines = b.file.lines]
            BY <2>2, <2>4
        <4> HIDE DEF file
        <4>4. QED
            BY <1>4, <4>1, <4>2, <4>3
      <3>2. b.file = [there |-> TRUE, lines |-> b.file.lines]
          BY <2>3, <2>4 DEF FileSet
      <3>3. QED
          BY <3>1, <3>2
    <2>5. CASE ~b.file.there
      <3>1. file = [there |-> FALSE, lines |-> <<>>]
          BY <2>2, <2>3, <2>5 DEF NoFile
      <3>2. b.file = [there |-> FALSE, lines |-> <<>>]
          BY <2>3, <2>5 DEF FileSet
      <3>3. QED
          BY <3>1, <3>2
    <2>6. QED
        BY <2>4, <2>5
  <1> HIDE DEF file
  <1>7. home.dir /\ home'.dir = home.dir /\ home'.key = home.key /\ home'.pub = home.pub /\ home'.wrapper = home.wrapper
        /\ home'.file = file /\ HomeSound(home')
      BY <1>1, <1>3, <1>4, <1>5 DEF HomeSound, HomeSet
  <1>8. SelfTypes'
      BY <1>1, <1>2, <1>7 DEF SelfInv, SelfTypes, ScriptSet, Places
  <1>9. Placed' /\ MaterialsNoted'
      BY <1>1, <1>2, <1>4 DEF Placed, MaterialsNoted, AfterEntry
  <1>10. Noted'
      BY <1>1, <1>2, <1>7 DEF SelfInv, Noted, BeforeEntry
  <1>11. FileNoted'
      BY <1>2, <1>4, <1>6, <1>7 DEF FileNoted, AfterEntry, FileFor, LeavesFile
  <1>12. Untouched'
    <2>1. SUFFICES ASSUME outside = 0
                   PROVE  /\ AllRestricted(home)' /\ BacksOffer(home)' /\ AllRestricted(script.before)
                          /\ BacksOffer(script.before)
        BY <1>1, <1>2 DEF Untouched, BacksOffer, AllRestricted
    <2>2. AllRestricted(b) /\ BacksOffer(b) /\ BacksOffer(home) /\ ~script.disturbed
        BY <1>1, <2>1 DEF SelfInv, Untouched
    <2>3. home'.file = b.file /\ home'.wrapper = home.wrapper
        BY <1>6, <1>7, <2>2
    <2>4. QED
        BY <1>1, <2>2, <2>3 DEF AllRestricted, BacksOffer, HasLine
  <1>13. QED
      BY <1>8, <1>9, <1>10, <1>11, <1>12 DEF SelfInv

\* The rest of what was written is taken back.
LEMMA RestTakenBack ==
    ASSUME SelfInv, TakeBackRest PROVE SelfInv'
  <1> DEFINE w == script.wrote
             b == script.before
  <1>1. /\ script \in ScriptSet /\ HomeSound(home) /\ HomeSound(b) /\ script.at = "undo rest"
        /\ script' = [script EXCEPT !.at = "failed"] /\ materials' = materials /\ envFile' = envFile /\ outside' = outside
      BY DEF SelfInv, SelfTypes, TakeBackRest, Go, Keep
  <1>2. /\ script'.at = "failed" /\ script'.input = script.input /\ script'.wrote = script.wrote
        /\ script'.before = script.before /\ script'.unnoted = script.unnoted /\ script'.disturbed = script.disturbed
      BY <1>1 DEF ScriptSet
  <1> DEFINE wrapper == IF "wrapper" \in w THEN "none" ELSE home.wrapper
             key == IF "key" \in w THEN FALSE ELSE home.key
             pub == IF "key" \in w THEN FALSE ELSE home.pub
             dir == IF "dir" \in w /\ ~key /\ wrapper = "none" /\ ~home.file.there THEN FALSE ELSE home.dir
  <1>3. /\ home'.dir = dir /\ home'.key = key /\ home'.pub = pub /\ home'.wrapper = wrapper /\ home'.file = home.file
        /\ home' \in HomeSet
    <2>1. wrapper \in {"none", "ours"} /\ key \in BOOLEAN /\ pub \in BOOLEAN
        BY <1>1 DEF HomeSound, HomeSet
    <2> DEFINE undone == [home EXCEPT !.wrapper = wrapper, !.key = key, !.pub = pub]
    <2>2. home' = IF "dir" \in w /\ (~undone.key /\ undone.wrapper = "none" /\ ~undone.file.there)
                  THEN [undone EXCEPT !.dir = FALSE] ELSE undone
        BY DEF TakeBackRest
    <2> HIDE DEF wrapper, key, pub
    <2>3. /\ undone.dir = home.dir /\ undone.key = key /\ undone.pub = pub /\ undone.wrapper = wrapper /\ undone.file = home.file
          /\ undone \in HomeSet
        BY <1>1, <2>1 DEF HomeSound, HomeSet
    <2> HIDE DEF undone
    <2>4. CASE "dir" \in w /\ ~key /\ wrapper = "none" /\ ~home.file.there
        BY <2>2, <2>3, <2>4 DEF HomeSet
    <2>5. CASE ~("dir" \in w /\ ~key /\ wrapper = "none" /\ ~home.file.there)
        BY <2>2, <2>3, <2>5
    <2>6. QED
        BY <2>4, <2>5
  <1>4. wrapper = b.wrapper /\ key = b.key /\ pub = b.pub /\ key = pub
        /\ wrapper \in {"none", "ours"} /\ key \in BOOLEAN /\ dir \in BOOLEAN
      BY <1>1 DEF SelfInv, Noted, HomeSound, HomeSet
  <1>5. ~dir => ~key /\ wrapper = "none" /\ ~home.file.there
      BY <1>1, <1>4 DEF HomeSound, HomeSet
  <1>6. ~script.disturbed /\ ~script.unnoted =>
            home.file = FileFor(b, w) /\ dir = IF LeavesFile(w) THEN TRUE ELSE b.dir
    <2>1. SUFFICES ASSUME ~script.disturbed, ~script.unnoted
                   PROVE  home.file = FileFor(b, w) /\ dir = IF LeavesFile(w) THEN TRUE ELSE b.dir
        OBVIOUS
    <2>2. home.file = FileFor(b, w)
        BY <1>1, <2>1 DEF SelfInv, FileNoted
    <2>3. CASE LeavesFile(w)
      <3>1. home.file.there
          BY <2>2, <2>3 DEF FileFor, EmptyFile
      <3>2. home.dir = TRUE
          BY <1>1, <3>1 DEF HomeSound, HomeSet
      <3>3. QED
          BY <2>2, <2>3, <3>1, <3>2
    <2>4. CASE ~LeavesFile(w) /\ "dir" \in w
      <3>1. ~b.dir
          BY <1>1, <2>4 DEF SelfInv, Noted
      <3>2. ~b.key /\ b.wrapper = "none" /\ ~b.file.there /\ b.dir = FALSE
          BY <1>1, <3>1 DEF HomeSound, HomeSet
      <3>3. QED
          BY <1>4, <2>2, <2>4, <3>2 DEF FileFor
    <2>5. CASE ~LeavesFile(w) /\ "dir" \notin w
      <3>1. home.dir = b.dir
          BY <1>1, <2>1, <2>5 DEF SelfInv, Noted
      <3>2. QED
          BY <2>2, <2>5, <3>1
    <2>6. QED
        BY <2>3, <2>4, <2>5
  <1> HIDE DEF wrapper, key, pub, dir
  <1>7. HomeSound(home')
      BY <1>1, <1>3, <1>4, <1>5 DEF HomeSound, HomeSet
  <1>8. SelfTypes'
      BY <1>1, <1>2, <1>7 DEF SelfInv, SelfTypes, ScriptSet, Places
  <1>9. Placed' /\ MaterialsNoted' /\ Noted'
      BY <1>1, <1>2 DEF Placed, MaterialsNoted, AfterEntry, Noted
  <1>10. FileNoted'
    <2>1. ~script.disturbed /\ ~script.unnoted => home' = HomeFor(b, w)
      <3>1. \A x, y \in HomeSet : (/\ x.dir = y.dir /\ x.key = y.key /\ x.pub = y.pub /\ x.wrapper = y.wrapper
                                  /\ x.file = y.file) => x = y
          BY DEF HomeSet
      <3>2. b \in HomeSet
          BY <1>1 DEF HomeSound
      <3>3. CASE ~LeavesFile(w)
          BY <1>3, <1>4, <1>6, <3>1, <3>2, <3>3 DEF HomeFor, FileFor
      <3>4. CASE LeavesFile(w)
        <4> DEFINE left == [b EXCEPT !.dir = TRUE, !.file = EmptyFile]
        <4>1. <<>> \in Seq(Line)
            OBVIOUS
        <4>2. EmptyFile \in FileSet
            BY <4>1 DEF EmptyFile, FileSet
        <4>3. left \in HomeSet /\ left.dir = TRUE /\ left.key = b.key /\ left.pub = b.pub /\ left.wrapper = b.wrapper
              /\ left.file = EmptyFile
            BY <3>2, <4>2 DEF HomeSet
        <4> HIDE DEF left
        <4>4. ~script.disturbed /\ ~script.unnoted => home' = left
            BY <1>3, <1>4, <1>6, <3>1, <3>4, <4>3 DEF FileFor
        <4>5. QED
            BY <3>4, <4>4 DEF HomeFor, left
      <3>5. QED
          BY <3>3, <3>4
    <2>2. QED
        BY <1>2, <2>1 DEF FileNoted, AfterEntry
  <1>11. Untouched'
    <2>1. SUFFICES ASSUME outside = 0
                   PROVE  AllRestricted(home)' /\ BacksOffer(home)' /\ AllRestricted(script.before)
        BY <1>1, <1>2 DEF Untouched, BacksOffer, AllRestricted
    <2>2. AllRestricted(b) /\ AllRestricted(home) /\ BacksOffer(b) /\ BacksOffer(home)
        BY <1>1, <2>1 DEF SelfInv, Untouched
    <2>3. home'.file = home.file /\ home'.wrapper = b.wrapper
        BY <1>3, <1>4
    <2>4. QED
        BY <1>1, <2>2, <2>3 DEF AllRestricted, BacksOffer, HasLine
  <1>12. QED
      BY <1>8, <1>9, <1>10, <1>11 DEF SelfInv

\* A run begins, or is turned down before it looks at anything.
LEMMA RunStarts ==
    ASSUME SelfInv, NEW input \in Supplied, StartScript(input), UNCHANGED <<home, materials, outside>>,
           envFile' = envFile
    PROVE  SelfInv'
  <1> DEFINE run(at) == [at |-> at, input |-> input, wrote |-> {}, listed |-> FALSE, private |-> FALSE, reach |-> "unproven",
                         filtered |-> <<>>, before |-> home, unnoted |-> FALSE, disturbed |-> FALSE]
  <1>1. PICK at \in {"key", "failed"} : script' = run(at)
      BY DEF StartScript, NewRun
  <1>2. /\ script'.at = at /\ script'.input = input /\ script'.wrote = {} /\ script'.before = home /\ ~script'.unnoted /\ ~script'.disturbed
        /\ script'.listed = FALSE
      BY <1>1
  <1>3. HomeSound(home) /\ home' = home
      BY DEF SelfInv, SelfTypes
  <1>4. script' \in ScriptSet
    <2>1. <<>> \in Seq(Line) /\ home \in HomeSet /\ {} \in SUBSET Notes
        BY <1>3 DEF HomeSound
    <2> DEFINE no == <<>>
               none == {}
    <2>2. script' = [at |-> at, input |-> input, wrote |-> none, listed |-> FALSE, private |-> FALSE, reach |-> "unproven",
                     filtered |-> no, before |-> home, unnoted |-> FALSE, disturbed |-> FALSE]
        BY <1>1
    <2>3. at \in Places /\ no \in Seq(Line) /\ none \in SUBSET Notes /\ input \in Supplied \cup {MintedKey}
        BY <2>1 DEF Places
    <2> HIDE DEF no, none
    <2>4. QED
        BY <2>1, <2>2, <2>3 DEF ScriptSet
  <1>5. SelfTypes'
      BY <1>2, <1>3, <1>4 DEF SelfInv, SelfTypes
  <1>6. Placed' /\ MaterialsNoted' /\ Noted'
      BY <1>2, <1>3 DEF Placed, MaterialsNoted, AfterEntry, Noted, BeforeEntry
  <1>7. FileNoted'
      BY <1>2, <1>3 DEF FileNoted, AfterEntry, FileFor, HomeFor, LeavesFile
  <1>8. Untouched'
      BY <1>2, <1>3 DEF SelfInv, Untouched, BacksOffer, AllRestricted
  <1>9. QED
      BY <1>5, <1>6, <1>7, <1>8 DEF SelfInv

\* A step that leaves the account, the script and the materials alone, and what .env offers too.
LEMMA OtherwiseUnchanged ==
    ASSUME SelfInv, UNCHANGED <<home, script, materials, outside>>,
           envFile' \in [written : BOOLEAN, offer : Offers, sealed : BOOLEAN], envFile'.offer = envFile.offer
    PROVE  SelfInv'
  <1>1. SelfTypes'
      BY DEF SelfInv, SelfTypes
  <1>2. Placed' /\ Noted' /\ MaterialsNoted'
    <2>1. Placed'
        BY DEF SelfInv, Placed
    <2>2. Noted'
        BY DEF SelfInv, Noted
    <2>3. MaterialsNoted'
        BY DEF SelfInv, MaterialsNoted, TheKey
    <2>4. QED
        BY <2>1, <2>2, <2>3
  <1>3. FileNoted'
      BY DEF SelfInv, FileNoted, WithEntry, TheKey
  <1>4. Untouched'
      BY DEF SelfInv, Untouched, BacksOffer
  <1>5. QED
      BY <1>1, <1>2, <1>3, <1>4 DEF SelfInv

\* .env takes the materials of a run that finished.
LEMMA OfferTaken ==
    ASSUME SelfInv, script.at = "finished", envFile' = [envFile EXCEPT !.offer = materials],
           UNCHANGED <<home, script, materials, outside>>
    PROVE  SelfInv'
  <1>1. envFile' \in [written : BOOLEAN, offer : Offers, sealed : BOOLEAN] /\ envFile'.offer = materials
      BY DEF SelfInv, SelfTypes
  <1>2. SelfTypes'
      BY <1>1 DEF SelfInv, SelfTypes
  <1>3. Placed' /\ Noted' /\ MaterialsNoted'
      BY DEF SelfInv, Placed, Noted, MaterialsNoted, TheKey
  <1>4. FileNoted'
      BY DEF SelfInv, FileNoted, WithEntry, TheKey
  <1>5. Untouched'
    <2>1. SUFFICES ASSUME outside = 0
                   PROVE  /\ AllRestricted(home) /\ AllRestricted(script.before) /\ ~script.disturbed
                          /\ HasLine(home, Restricted(materials.key)) /\ home.wrapper # "none"
        BY <1>1 DEF Untouched, BacksOffer
    <2>2. AllRestricted(home) /\ AllRestricted(script.before) /\ ~script.disturbed
        BY <2>1 DEF SelfInv, Untouched
    <2>3. HasLine(home, Restricted(TheKey)) /\ materials.key = TheKey /\ home.wrapper # "none"
        BY <2>2 DEF SelfInv, FileNoted, AfterEntry, MaterialsNoted, Placed
    <2>4. QED
        BY <2>2, <2>3
  <1>6. QED
      BY <1>2, <1>3, <1>4, <1>5 DEF SelfInv

\* Somebody else edits authorized_keys.
LEMMA FileEdited ==
    ASSUME SelfInv, EditAuthorizedKeys PROVE SelfInv'
  <1>1. /\ home.dir /\ outside' = outside + 1 /\ script' = [script EXCEPT !.disturbed = TRUE] /\ materials' = materials
        /\ envFile' = envFile /\ outside \in Nat /\ HomeSound(home)
      BY DEF EditAuthorizedKeys, SelfInv, SelfTypes
  <1>2. script.at # "never" /\ script \in ScriptSet /\ HomeSound(script.before)
      BY <1>1 DEF SelfInv, SelfTypes
  <1>3. PICK file \in FileSet : file.there /\ home' = [home EXCEPT !.file = file]
    <2> DEFINE lines == home.file.lines
    <2>1. lines \in Seq(Line) /\ home.file \in FileSet
        BY <1>1 DEF HomeSound, HomeSet, FileSet
    <2>2. Bare("theirs") \in Line
        BY DEF Bare, Line, KeyNames
    <2>3. CASE home' = [home EXCEPT !.file = [there |-> TRUE, lines |-> Append(lines, Bare("theirs"))]]
      <3> DEFINE more == Append(lines, Bare("theirs"))
      <3>1. more \in Seq(Line)
          BY <2>1, <2>2
      <3> HIDE DEF more
      <3>2. [there |-> TRUE, lines |-> more] \in FileSet /\ [there |-> TRUE, lines |-> more].there
          BY <3>1 DEF FileSet
      <3>3. QED
          BY <2>3, <3>2 DEF more
    <2>4. ASSUME NEW i \in DOMAIN lines,
                 home' = [home EXCEPT !.file = [home.file EXCEPT !.lines = [lines EXCEPT ![i] = [lines[i] EXCEPT !.options = "bare"]]]]
          PROVE  \E file \in FileSet : file.there /\ home' = [home EXCEPT !.file = file]
      <3> DEFINE line == [lines[i] EXCEPT !.options = "bare"]
                 less == [lines EXCEPT ![i] = line]
                 file == [home.file EXCEPT !.lines = less]
      <3>1. lines[i] \in Line /\ line \in Line
        <4>1. lines[i] \in Line
            BY <2>1, ElementOfSeq
        <4>2. QED
            BY <4>1 DEF Line
      <3> HIDE DEF line
      <3>2. less \in Seq(Line)
          BY <2>1, <3>1
      <3> HIDE DEF less
      <3>3. home.file.there
          BY <1>1, <2>4 DEF HomeSound
      <3>4. file \in FileSet /\ file.there
          BY <2>1, <3>2, <3>3 DEF FileSet
      <3>5. home' = [home EXCEPT !.file = file]
          BY <2>4 DEF line, less
      <3> HIDE DEF file
      <3>6. QED
          BY <3>4, <3>5
    <2>5. QED
        BY <2>3, <2>4 DEF EditAuthorizedKeys
  <1>4. home'.dir = home.dir /\ home'.key = home.key /\ home'.pub = home.pub /\ home'.wrapper = home.wrapper
        /\ home'.file.there /\ HomeSound(home')
      BY <1>1, <1>3 DEF HomeSound, HomeSet
  <1>5. /\ script'.at = script.at /\ script'.input = script.input /\ script'.wrote = script.wrote
        /\ script'.before = script.before /\ script'.unnoted = script.unnoted /\ script'.disturbed
      BY <1>1, <1>2 DEF ScriptSet
  <1>6. SelfTypes'
    <2>1. script' \in ScriptSet
        BY <1>1, <1>2 DEF ScriptSet
    <2>2. script'.at # "never"
        BY <1>2, <1>5
    <2>3. outside' \in Nat /\ materials' \in Offers /\ envFile' \in [written : BOOLEAN, offer : Offers, sealed : BOOLEAN]
        BY <1>1 DEF SelfInv, SelfTypes
    <2>4. QED
        BY <1>2, <1>4, <1>5, <2>1, <2>2, <2>3 DEF SelfTypes
  <1>7. Placed' /\ MaterialsNoted'
      BY <1>1, <1>4, <1>5 DEF SelfInv, Placed, MaterialsNoted, TheKey
  <1>8. Noted'
      BY <1>1, <1>4, <1>5 DEF SelfInv, Noted
  <1>9. FileNoted' /\ Untouched'
    <2>1. outside' # 0
        BY <1>1
    <2>2. FileNoted'
        BY <1>5 DEF FileNoted
    <2>3. QED
        BY <2>1, <2>2 DEF Untouched
  <1>10. QED
      BY <1>6, <1>7, <1>8, <1>9 DEF SelfInv


LEMMA SelfInitially == SelfHostInit => SelfInv
  <1> SUFFICES ASSUME SelfHostInit PROVE SelfInv
      OBVIOUS
  <1> USE DEF SelfHostInit
  <1>1. home = [dir |-> FALSE, key |-> FALSE, pub |-> FALSE, wrapper |-> "none", file |-> NoFile]
        /\ script = NeverRun /\ script.at = "never" /\ ~script.unnoted /\ outside = 0
      BY DEF NeverRun
  <1>2. NoFile \in FileSet /\ NoFile.lines = <<>> /\ ~NoFile.there
    <2>1. <<>> \in Seq(Line)
        OBVIOUS
    <2> DEFINE no == <<>>
    <2>2. NoFile = [there |-> FALSE, lines |-> no] /\ no \in Seq(Line) /\ no = <<>>
        BY <2>1 DEF NoFile
    <2> HIDE DEF no
    <2>3. QED
        BY <2>2 DEF FileSet
  <1>3. HomeSound(home) /\ home.file.lines = <<>> /\ ~home.dir
    <2>1. home.dir = FALSE /\ home.key = FALSE /\ home.pub = FALSE /\ home.wrapper = "none" /\ home.file = NoFile
        BY <1>1
    <2>2. home \in HomeSet
        BY <1>1, <1>2 DEF HomeSet
    <2>3. QED
        BY <1>2, <2>1, <2>2 DEF HomeSound
  <1>4. SelfTypes
    <2>1. NoMaterials \in Offers
        BY DEF NoMaterials, Offers
    <2>2. materials \in Offers /\ envFile \in [written : BOOLEAN, offer : Offers, sealed : BOOLEAN]
        BY <2>1
    <2>3. outside \in Nat
        BY <1>1
    <2>4. QED
        BY <1>1, <1>3, <2>2, <2>3 DEF SelfTypes
  <1>5. Placed /\ Noted /\ FileNoted /\ MaterialsNoted
      BY <1>1 DEF Placed, Noted, FileNoted, MaterialsNoted, AfterEntry
  <1>6. Untouched
    <2>1. DOMAIN home.file.lines = {}
        BY <1>3
    <2>2. AllRestricted(home)
        BY <2>1 DEF AllRestricted
    <2>3. envFile.offer = NoMaterials
        OBVIOUS
    <2>4. QED
        BY <1>1, <2>2, <2>3 DEF Untouched, BacksOffer, NeverRun
  <1>7. QED
      BY <1>4, <1>5, <1>6 DEF SelfInv

LEMMA SelfHostStep ==
    ASSUME SelfInv, [SelfHostNext]_selfHostVars PROVE SelfInv'
  <1>0. /\ HomeSound(home) /\ envFile \in [written : BOOLEAN, offer : Offers, sealed : BOOLEAN]
        /\ script.at # "never" => script \in ScriptSet
      BY DEF SelfInv, SelfTypes
  <1>1. CASE ChooseTheKey
    <2>1. script.at = "key" /\ UNCHANGED <<home, materials, envFile, outside>>
        BY <1>1 DEF ChooseTheKey, Keep
    <2>2. script \in ScriptSet
        BY <1>0, <2>1
    <2>3. CASE script.input # <<>>
      <3>1. CASE OneKey(script.input)
        <4>1. script.input \in {<<"given">>, <<"minted">>}
          <5>1. script.input \in Supplied \cup {MintedKey}
              BY <2>2 DEF ScriptSet
          <5>2. QED
              BY <2>3, <3>1, <5>1 DEF OneKey, Supplied, MintedKey
        <4>2. script' = [script EXCEPT !.at = "check"]
            BY <1>1, <2>3, <3>1 DEF ChooseTheKey, Go
        <4>3. QED
            BY <2>1, <4>1, <4>2, KeySupplied
      <3>2. CASE ~OneKey(script.input)
        <4>1. script' = [script EXCEPT !.at = "undo"]
            BY <1>1, <2>3, <3>2 DEF ChooseTheKey, Die, Go
        <4>2. QED
            BY <2>1, <4>1, DiesSoundly DEF Places
      <3>3. QED
          BY <3>1, <3>2
    <2>4. CASE script.input = <<>>
      <3>1. home.key = home.pub /\ home.key \in BOOLEAN
          BY <1>0 DEF HomeSound, HomeSet
      <3>2. CASE home.key
        <4>1. script' = [script EXCEPT !.at = "check", !.private = TRUE, !.input = MintedKey]
            BY <1>1, <2>4, <3>1, <3>2 DEF ChooseTheKey
        <4>2. QED
            BY <2>1, <3>2, <4>1, KeyFound
      <3>3. CASE ~home.key
        <4>1. script' = [script EXCEPT !.at = (IF home.dir THEN "mint" ELSE "dir")]
            BY <1>1, <2>4, <3>1, <3>3 DEF ChooseTheKey, Go
        <4>2. QED
            BY <2>1, <3>3, <4>1, KeyNeeded
      <3>4. QED
          BY <3>2, <3>3
    <2>5. QED
        BY <2>3, <2>4
  <1>2. CASE MakeSshDir
    <2>1. /\ UNCHANGED <<materials, envFile, outside>> /\ home' = [home EXCEPT !.dir = TRUE]
          /\ script' = [script EXCEPT !.at = IF script.at = "dir" THEN "dir made" ELSE "dir made again", !.unnoted = ~home.dir]
          /\ script.at = "dir" \/ script.at = "dir again"
        BY <1>2 DEF MakeSshDir, Keep
    <2>2. ~home.dir
        BY <2>1 DEF SelfInv, Placed
    <2>3. CASE script.at = "dir"
      <3>1. script' = [script EXCEPT !.at = "dir made", !.unnoted = TRUE]
          BY <2>1, <2>2, <2>3
      <3>2. QED
          BY <2>1, <2>3, <3>1, DirMade
    <2>4. CASE script.at = "dir again"
      <3>1. script' = [script EXCEPT !.at = "dir made again", !.unnoted = TRUE]
          BY <2>1, <2>2, <2>4
      <3>2. QED
          BY <2>1, <2>4, <3>1, DirMadeAgain
    <2>5. QED
        BY <2>1, <2>3, <2>4
  <1>3. CASE NoteSshDir
    <2>1. /\ UNCHANGED <<home, materials, envFile, outside>>
          /\ script' = [script EXCEPT !.at = IF script.at = "dir made" THEN "mint" ELSE "wrapper",
                                     !.wrote = script.wrote \cup {"dir"}, !.unnoted = FALSE]
          /\ script.at = "dir made" \/ script.at = "dir made again"
        BY <1>3 DEF NoteSshDir, Keep
    <2>2. CASE script.at = "dir made"
      <3>1. script' = [script EXCEPT !.at = "mint", !.wrote = script.wrote \cup {"dir"}, !.unnoted = FALSE]
          BY <2>1, <2>2
      <3>2. QED
          BY <2>1, <2>2, <3>1, DirNoted
    <2>3. CASE script.at = "dir made again"
      <3>1. script' = [script EXCEPT !.at = "wrapper", !.wrote = script.wrote \cup {"dir"}, !.unnoted = FALSE]
          BY <2>1, <2>3
      <3>2. QED
          BY <2>1, <2>3, <3>1, DirNotedAgain
    <2>4. QED
        BY <2>1, <2>2, <2>3
  <1>4. CASE MintKey
      BY <1>4, KeyMinted, MintingFails DEF MintKey, Keep
  <1>5. CASE CheckAuthorizedKeys
    <2>1. script.at = "check" /\ UNCHANGED <<home, materials, envFile, outside>>
        BY <1>5 DEF CheckAuthorizedKeys, Keep
    <2>2. CASE Lists(Bare(TheKey))
      <3>1. script' = [script EXCEPT !.at = "undo"]
          BY <1>5, <2>2 DEF CheckAuthorizedKeys, Die, Go
      <3>2. QED
          BY <2>1, <3>1, DiesSoundly DEF Places
    <2>3. CASE ~Lists(Bare(TheKey))
      <3> DEFINE found == Lists(Restricted(TheKey))
      <3>1. script' = [script EXCEPT !.at = (IF home.wrapper # "none" THEN "entry" ELSE IF home.dir THEN "wrapper" ELSE "dir again"),
                                   !.listed = found]
          BY <1>5, <2>3 DEF CheckAuthorizedKeys
      <3>2. found \in BOOLEAN /\ (found => HasLine(home, Restricted(TheKey)))
          BY DEF Lists, HasLine
      <3>3. ~home.dir => home.wrapper = "none"
          BY <1>0 DEF HomeSound
      <3> HIDE DEF found
      <3>4. QED
          BY <2>1, <3>1, <3>2, <3>3, KeysChecked
    <2>4. QED
        BY <2>2, <2>3
  <1>6. CASE WriteWrapper
      BY <1>6, WrapperWritten DEF WriteWrapper, Keep
  <1>7. CASE LeaveEntry \/ CreateFile \/ AppendEntry
    <2>1. CASE LeaveEntry
        BY <2>1, EntryFound DEF LeaveEntry, Go, Keep
    <2>2. CASE CreateFile
        BY <2>2, FileMade, DiesSoundly DEF CreateFile, Die, Go, Keep, Places
    <2>3. CASE AppendEntry
      <3>1. (script.at = "append" \/ script.at = "entry") /\ home.file.there /\ UNCHANGED <<materials, envFile, outside>>
          BY <2>3 DEF AppendEntry, Keep, SelfInv, Placed
      <3>2. CASE home' = home /\ script' = [script EXCEPT !.at = "undo"]
          BY <3>1, <3>2, DiesSoundly DEF Places
      <3> DEFINE entries == [i \in 1..Len(script.input) - 1 |-> Bare(script.input[i + 1])]
      <3>3. CASE home' = [home EXCEPT !.file.lines = home.file.lines \o <<Restricted(TheKey)>> \o entries]
                 /\ script' = [script EXCEPT !.at = "appended", !.unnoted = TRUE]
        <4>0. script.input = <<"given">> \/ script.input = <<"minted">>
            BY <3>1, InputAtEntry
        <4>1. Len(script.input) = 1
            BY <4>0
        <4>2. entries = <<>>
            BY <4>1
        <4>3. home.file.lines \in Seq(Line) /\ Restricted(TheKey) \in Line /\ home.file \in FileSet
          <5>1. home.file.lines \in Seq(Line) /\ home.file \in FileSet
              BY <1>0 DEF HomeSound, HomeSet, FileSet
          <5>2. Restricted(TheKey) \in Line
              BY <4>0 DEF Restricted, Line, KeyNames, TheKey
          <5>3. QED
              BY <5>1, <5>2
        <4>4. \A lines \in Seq(Line), line \in Line : lines \o <<line>> \o <<>> = Append(lines, line)
            OBVIOUS
        <4>5. home.file.lines \o <<Restricted(TheKey)>> \o entries = Append(home.file.lines, Restricted(TheKey))
            BY <4>2, <4>3, <4>4
        <4> DEFINE more == Append(home.file.lines, Restricted(TheKey))
        <4> HIDE DEF entries, more
        <4>6. home' = [home EXCEPT !.file = [home.file EXCEPT !.lines = more]]
            BY <3>3, <4>5 DEF more
        <4>7. [home.file EXCEPT !.lines = more] = [there |-> TRUE, lines |-> more]
          <5>1. \A x, y \in FileSet : x.there = y.there /\ x.lines = y.lines => x = y
              BY DEF FileSet
          <5>2. more \in Seq(Line)
              BY <4>3 DEF more
          <5>3. [home.file EXCEPT !.lines = more] \in FileSet /\ [there |-> TRUE, lines |-> more] \in FileSet
                /\ [home.file EXCEPT !.lines = more].there = TRUE /\ [home.file EXCEPT !.lines = more].lines = more
              BY <3>1, <4>3, <5>2 DEF FileSet
          <5>4. QED
              BY <5>1, <5>3
        <4>8. home' = [home EXCEPT !.file = [there |-> TRUE, lines |-> Append(home.file.lines, Restricted(TheKey))]]
            BY <4>6, <4>7 DEF more
        <4>9. QED
            BY <3>1, <3>3, <4>8, EntryAppended
      <3>4. \/ home' = home /\ script' = [script EXCEPT !.at = "undo"]
            \/ /\ home' = [home EXCEPT !.file.lines = home.file.lines \o <<Restricted(TheKey)>> \o entries]
               /\ script' = [script EXCEPT !.at = "appended", !.unnoted = TRUE]
          BY <2>3, Zenon DEF AppendEntry, Die, Go
      <3>5. QED
          BY <3>2, <3>3, <3>4, Zenon
    <2>4. QED
        BY <1>7, <2>1, <2>2, <2>3
  <1>8. CASE NoteEntry
      BY <1>8, EntryNoted DEF NoteEntry, Keep
  <1>9. CASE Verify
    <2>1. script.at = "verify" /\ UNCHANGED <<home, materials, envFile, outside>>
        BY <1>9 DEF Verify, Keep
    <2>2. script' = [script EXCEPT !.at = "undo"] \/ script' = [script EXCEPT !.at = "probe"]
        BY <1>9 DEF Verify, Die, Go
    <2>3. QED
        BY <2>1, <2>2, DiesSoundly, KeyVerified DEF Places
  <1>10. CASE Probe
    <2>1. script.at = "probe" /\ UNCHANGED <<home, materials, envFile, outside>>
        BY <1>10 DEF Probe, Keep
    <2>2. CASE Die
      <3>1. script' = [script EXCEPT !.at = "undo"]
          BY <2>2 DEF Die, Go
      <3>2. QED
          BY <2>1, <3>1, DiesSoundly DEF Places
    <2>3. CASE \E reach \in {"proven", "reachable"} : script' = [script EXCEPT !.at = "materials", !.reach = reach]
        BY <2>1, <2>3, AddressProbed
    <2>4. QED
      <3>1. \/ Die
            \/ \E reach \in {"proven", "reachable"} : script' = [script EXCEPT !.at = "materials", !.reach = reach]
          BY <1>10 DEF Probe
      <3>2. QED
          BY <2>2, <2>3, <3>1
  <1>11. CASE WriteMaterials
      BY <1>11, MaterialsWritten DEF WriteMaterials, Go, Keep
  <1>12. CASE FinishScript
      BY <1>12, ScriptFinishes DEF FinishScript, Go, Keep
  <1>13. CASE Signal
    <2>1. /\ script' = [script EXCEPT !.at = "undo"] /\ UNCHANGED <<home, materials, envFile, outside>>
          /\ script.at \notin {"never", "finished", "failed", "undo", "filtered", "undo rest"}
        BY <1>13 DEF Signal, Running, Die, Go, Keep
    <2>2. script.at \in Places
        BY <1>0, <2>1 DEF ScriptSet
    <2>3. QED
        BY <2>1, <2>2, DiesSoundly
  <1>14. CASE FilterEntry
    <2>1. script.at = "undo" /\ UNCHANGED <<home, materials, envFile, outside>>
        BY <1>14 DEF FilterEntry, Keep
    <2>2. Lists(Restricted(TheKey)) <=> home.file.there /\ HasLine(home, Restricted(TheKey))
        BY DEF Lists, HasLine
    <2>3. CASE "entry" \in script.wrote /\ home.file.there /\ HasLine(home, Restricted(TheKey))
      <3>1. \/ script' = [script EXCEPT !.at = "filtered", !.filtered = WithoutLast(home.file.lines, Restricted(TheKey))]
            \/ script' = [script EXCEPT !.at = "undo rest", !.disturbed = TRUE]
          BY <1>14, <2>2, <2>3 DEF FilterEntry
      <3>2. QED
          BY <2>1, <2>3, <3>1, EntryFiltered, FilterFails
    <2>4. CASE ~("entry" \in script.wrote /\ home.file.there /\ HasLine(home, Restricted(TheKey)))
      <3>1. script' = [script EXCEPT !.at = "undo rest"]
          BY <1>14, <2>2, <2>4 DEF FilterEntry, Go
      <3>2. QED
          BY <2>1, <2>4, <3>1, NothingToFilter
    <2>5. QED
        BY <2>3, <2>4
  <1>15. CASE ReplaceFile
      BY <1>15, FileReplaced
  <1>16. CASE TakeBackRest
      BY <1>16, RestTakenBack
  <1>17. CASE InstallControlPlane
    <2>1. envFile' = [envFile EXCEPT !.written = TRUE] /\ UNCHANGED <<home, script, materials, outside>>
        BY <1>17 DEF InstallControlPlane
    <2>2. envFile' \in [written : BOOLEAN, offer : Offers, sealed : BOOLEAN] /\ envFile'.offer = envFile.offer
        BY <1>0, <2>1
    <2>3. QED
        BY <2>1, <2>2, OtherwiseUnchanged
  <1>18. CASE OfferThisMachine
    <2>1. UNCHANGED <<home, materials, envFile, outside>> /\ (StartScript(<<"given">>) \/ script' = script)
        BY <1>18 DEF OfferThisMachine
    <2>2. CASE StartScript(<<"given">>)
        BY <2>1, <2>2, RunStarts DEF Supplied
    <2>3. CASE script' = script
        BY <1>0, <2>1, <2>3, OtherwiseUnchanged
    <2>4. QED
        BY <2>1, <2>2, <2>3
  <1>19. CASE AppendMaterials
    <2>1. UNCHANGED <<home, script, materials, outside>>
        BY <1>19 DEF AppendMaterials
    <2>2. CASE script.at = "finished"
      <3>1. envFile' = [envFile EXCEPT !.offer = materials]
          BY <1>19, <2>2 DEF AppendMaterials
      <3>2. QED
          BY <2>1, <2>2, <3>1, OfferTaken
    <2>3. CASE script.at # "finished"
      <3>1. envFile' = envFile
          BY <1>19, <2>3 DEF AppendMaterials
      <3>2. QED
          BY <1>0, <2>1, <3>1, OtherwiseUnchanged
    <2>4. QED
        BY <2>2, <2>3
  <1>20. CASE AppendSealedKey
    <2>1. envFile' = [envFile EXCEPT !.sealed = TRUE] /\ UNCHANGED <<home, script, materials, outside>>
        BY <1>20 DEF AppendSealedKey
    <2>2. envFile' \in [written : BOOLEAN, offer : Offers, sealed : BOOLEAN] /\ envFile'.offer = envFile.offer
        BY <1>0, <2>1
    <2>3. QED
        BY <2>1, <2>2, OtherwiseUnchanged
  <1>21. CASE RunByHand
    <2>1. UNCHANGED <<home, materials, envFile, outside>> /\ \E input \in Supplied : StartScript(input)
        BY <1>21 DEF RunByHand
    <2>2. QED
        BY <2>1, RunStarts
  <1>22. CASE \E a \in Administrators : FindKey(a) \/ InsertKey(a) \/ EnrolSelf(a)
    <2>1. UNCHANGED <<home, script, materials, envFile, outside>>
        BY <1>22 DEF FindKey, InsertKey, EnrolSelf
    <2>2. QED
        BY <1>0, <2>1, OtherwiseUnchanged
  <1>23. CASE EditAuthorizedKeys
      BY <1>23, FileEdited
  <1>24. CASE UNCHANGED selfHostVars
    <2>1. UNCHANGED <<home, script, materials, envFile, outside>>
        BY <1>24 DEF selfHostVars
    <2>2. QED
        BY <1>0, <2>1, OtherwiseUnchanged
  <1>25. QED
      BY <1>1, <1>2, <1>3, <1>4, <1>5, <1>6, <1>7, <1>8, <1>9, <1>10, <1>11, <1>12, <1>13, <1>14, <1>15, <1>16,
         <1>17, <1>18, <1>19, <1>20, <1>21, <1>22, <1>23, <1>24 DEF SelfHostNext

LEMMA WordIsKept == SelfInv => SelfHostKeepsItsWord
  <1> SUFFICES ASSUME SelfInv PROVE SelfHostKeepsItsWord
      OBVIOUS
  <1>1. OnlyRestrictedEntries
    <2>1. CASE outside = 0
        BY <2>1 DEF SelfInv, Untouched, AllRestricted, OnlyRestrictedEntries
    <2>2. CASE outside # 0
        BY <2>2 DEF SelfInv, SelfTypes, OnlyRestrictedEntries
    <2>3. QED
        BY <2>1, <2>2
  <1>2. FailureLeavesNothing
    <2>1. CASE script.at = "failed" /\ ~script.unnoted /\ ~script.disturbed
      <3>1. home = HomeFor(script.before, script.wrote)
          BY <2>1 DEF SelfInv, FileNoted
      <3>2. QED
          BY <3>1 DEF HomeFor, LeavesFile, FailureLeavesNothing
    <2>2. CASE ~(script.at = "failed" /\ ~script.unnoted /\ ~script.disturbed)
        BY <2>2 DEF FailureLeavesNothing
    <2>3. QED
        BY <2>1, <2>2
  <1>3. \A h, line : HomeSound(h) /\ HasLine(h, line) => h.file.there
    <2>1. SUFFICES ASSUME NEW h, NEW line, HomeSound(h), HasLine(h, line) PROVE h.file.there
        OBVIOUS
    <2>2. PICK i \in DOMAIN h.file.lines : TRUE
        BY <2>1 DEF HasLine
    <2>3. h.file.lines # <<>>
        BY <2>2
    <2>4. QED
        BY <2>1, <2>3 DEF HomeSound
  <1>4. \A line : HasLine(home, line) => Lists(line)
      BY <1>3 DEF SelfInv, SelfTypes, Lists, HasLine
  <1>5. OfferIsBacked
      BY <1>4 DEF OfferIsBacked, SelfInv, FileNoted, AfterEntry, MaterialsNoted, Placed, Untouched, BacksOffer
  <1>6. QED
      BY <1>1, <1>2, <1>5 DEF SelfHostKeepsItsWord

\* For any number of runs, administrators and edits by others: a run of the script
\* that fails leaves the account as it found it, but for the empty file of one that
\* had made authorized_keys and not yet appended to it; what it lists is restricted;
\* and what .env offers is backed by the account (self-host.sh, install.sh).
THEOREM ScriptKeepsItsWord == SelfHostSpec => []SelfHostKeepsItsWord
  <1>1. SelfInv /\ [SelfHostNext]_selfHostVars => SelfInv'
      BY SelfHostStep
  <1>2. QED
      BY <1>1, SelfInitially, WordIsKept, PTL DEF SelfHostSpec

-----------------------------------------------------------------------------
\* Powers of two are what they should be.
LEMMA Powers ==
    /\ Power[0] = 1
    /\ \A k \in 0..(2 * ByteBits) : Power[k] \in Nat /\ Power[k] > 0
    /\ \A k \in 1..(2 * ByteBits) : Power[k] = 2 * Power[k - 1]
  <1> DEFINE N == 2 * ByteBits
             Equation(f) == [k \in 0..N |-> IF k = 0 THEN 1 ELSE 2 * f[k - 1]]
             round == [k \in 1..N |-> [x \in Nat \ {0} |-> 2 * x]]
  <1>1. N \in Nat
      BY SendAssumption DEF SendConstants
  <1>2. Power = CHOOSE f : f = Equation(f)
      BY DEF Power
  <1> HIDE DEF N
  <1>3. round \in [1..N -> [Nat \ {0} -> Nat \ {0}]]
      OBVIOUS
  <1>4. \A k \in 1..N, x \in Nat \ {0} : round[k][x] = 2 * x
      OBVIOUS
  <1> HIDE DEF round
  <1>5. PICK f : LoopOf(Nat \ {0}, 1, N, round, f)
    <2>1. 1 \in Nat \ {0}
        OBVIOUS
    <2> HIDE DEF Equation
    <2>2. QED
        BY <1>1, <1>3, <2>1, EveryLoopHasResults, Zenon
  <1>6. f = Equation(f)
    <2>1. \A k \in 1..N : k - 1 \in 0..N
        BY <1>1
    <2>2. \A k \in 1..N : f[k] = 2 * f[k - 1]
        BY <1>4, <1>5, <2>1 DEF LoopOf
    <2>3. QED
        BY <1>1, <1>5, <2>2 DEF LoopOf
  <1>7. Power = Equation(Power)
    <2> HIDE DEF Equation
    <2>1. QED
        BY <1>2, <1>6
  <1>8. Power[0] = 1 /\ \A k \in 1..N : Power[k] = 2 * Power[k - 1]
    <2>1. \A k \in 0..N : Power[k] = IF k = 0 THEN 1 ELSE 2 * Power[k - 1]
        BY <1>7
    <2>2. 0 \in 0..N /\ \A k \in 1..N : k \in 0..N /\ k # 0
        BY <1>1
    <2> HIDE DEF Equation
    <2>3. QED
        BY <2>1, <2>2
  <1> DEFINE S == {k \in Nat : k <= N => Power[k] \in Nat \ {0}}
  <1>9. 0 \in S
      BY <1>8
  <1>10. ASSUME NEW k \in Nat, k \in S PROVE k + 1 \in S
    <2>1. CASE k + 1 <= N
      <3>1. k + 1 \in 1..N /\ (k + 1) - 1 = k /\ k <= N
          BY <1>1, <2>1
      <3>2. Power[k + 1] = 2 * Power[k]
          BY <1>8, <3>1
      <3>3. QED
          BY <1>10, <3>1, <3>2
    <2>2. QED
        BY <2>1
  <1>11. \A k \in Nat : k \in S
    <2> HIDE DEF S
    <2>1. QED
        BY <1>9, <1>10, EveryNumber
  <1>12. QED
      BY <1>1, <1>8, <1>11 DEF N

LEMMA PowerOfSum ==
    \A a, c \in Nat : a + c <= 2 * ByteBits => Power[a + c] = Power[a] * Power[c]
  <1> SUFFICES ASSUME NEW a \in Nat PROVE \A c \in Nat : a + c <= 2 * ByteBits => Power[a + c] = Power[a] * Power[c]
      OBVIOUS
  <1> DEFINE N == 2 * ByteBits
             S == {c \in Nat : a + c <= N => Power[a + c] = Power[a] * Power[c]}
  <1>1. N \in Nat
      BY SendAssumption DEF SendConstants
  <1>2. Power[0] = 1 /\ (\A k \in 0..N : Power[k] \in Nat) /\ \A k \in 1..N : Power[k] = 2 * Power[k - 1]
      BY Powers
  <1> HIDE DEF N
  <1>3. 0 \in S
      BY <1>1, <1>2
  <1>4. ASSUME NEW c \in Nat, c \in S PROVE c + 1 \in S
    <2>1. CASE a + (c + 1) <= N
      <3>1. a + (c + 1) \in 1..N /\ (a + (c + 1)) - 1 = a + c /\ c + 1 \in 1..N /\ (c + 1) - 1 = c /\ a \in 0..N /\ c \in 0..N /\ a + c <= N
          BY <1>1, <2>1
      <3>2. Power[a + (c + 1)] = 2 * Power[a + c] /\ Power[c + 1] = 2 * Power[c]
          BY <1>2, <3>1
      <3>3. Power[a + c] = Power[a] * Power[c]
          BY <1>4, <3>1
      <3>4. \A p, q \in Nat : 2 * (p * q) = p * (2 * q)
          OBVIOUS
      <3>5. Power[a] \in Nat /\ Power[c] \in Nat
          BY <1>2, <3>1
      <3>6. Power[a + (c + 1)] = Power[a] * Power[c + 1]
          BY <3>2, <3>3, <3>4, <3>5
      <3>7. QED
          BY <3>6
    <2>2. QED
        BY <2>1
  <1>5. \A c \in Nat : c \in S
    <2> HIDE DEF S
    <2>1. QED
        BY <1>3, <1>4, EveryNumber
  <1>6. QED
      BY <1>5 DEF N

\* Division with its remainder, and that it has one result only.
LEMMA Quotient ==
    \A n, d \in Nat : d > 0 => n \div d \in Nat /\ n % d \in 0..(d - 1) /\ n = d * (n \div d) + (n % d)
  <1> SUFFICES ASSUME NEW n \in Nat, NEW d \in Nat, d > 0
               PROVE  n \div d \in Nat /\ n % d \in 0..(d - 1) /\ n = d * (n \div d) + (n % d)
      OBVIOUS
  <1>1. n \div d \in Int /\ n \div d >= 0
      OBVIOUS
  <1>2. n % d \in 0..(d - 1)
      OBVIOUS
  <1>3. n = d * (n \div d) + (n % d)
      BY Z3
  <1>4. QED
      BY <1>1, <1>2, <1>3

\* A division has one result.
LEMMA QuotientIsOne ==
    \A d, q, p, r, t \in Nat : r < d /\ t < d /\ d * q + r = d * p + t => q = p
  <1> SUFFICES ASSUME NEW d \in Nat, NEW q \in Nat, NEW p \in Nat, NEW r \in Nat, NEW t \in Nat,
                      r < d, t < d, d * q + r = d * p + t
               PROVE  q = p
      OBVIOUS
  <1>1. \A x, y \in Nat : y >= x + 1 => d * y >= d * x + d
    <2>1. SUFFICES ASSUME NEW x \in Nat, NEW y \in Nat, y >= x + 1 PROVE d * y >= d * x + d
        OBVIOUS
    <2>2. y - x - 1 \in Nat /\ y = x + 1 + (y - x - 1)
        BY <2>1
    <2>3. \A k \in Nat : d * (x + 1 + k) = d * x + d + d * k /\ d * k >= 0
        OBVIOUS
    <2>4. d * x \in Nat /\ d * (y - x - 1) \in Nat
        BY <2>2
    <2>5. d * y = d * x + d + d * (y - x - 1)
        BY <2>2, <2>3
    <2>6. QED
        BY <2>4, <2>5
  <1>2. CASE q > p
      BY <1>1, <1>2
  <1>3. CASE p > q
      BY <1>1, <1>3
  <1>4. QED
      BY <1>2, <1>3

\* Dividing twice is dividing by the product.
LEMMA QuotientTwice ==
    \A n, d, e \in Nat : d > 0 /\ e > 0 => n \div (d * e) = (n \div d) \div e
  <1> SUFFICES ASSUME NEW n \in Nat, NEW d \in Nat, NEW e \in Nat, d > 0, e > 0
               PROVE  n \div (d * e) = (n \div d) \div e
      OBVIOUS
  <1> DEFINE x == n \div d
             r == n % d
             y == x \div e
             t == x % e
             z == n \div (d * e)
             u == n % (d * e)
  <1>1. x \in Nat /\ r \in 0..(d - 1) /\ n = d * x + r
      BY Quotient
  <1> HIDE DEF r, x
  <1>2. y \in Nat /\ t \in 0..(e - 1) /\ x = e * y + t
      BY <1>1, Quotient
  <1>3. d * e \in Nat /\ d * e > 0
      OBVIOUS
  <1>4. z \in Nat /\ u \in 0..(d * e - 1) /\ n = (d * e) * z + u
      BY <1>3, Quotient
  <1> HIDE DEF y, t, z, u
  <1>5. n = (d * e) * y + (d * t + r)
    <2>1. \A a, b \in Nat : d * (e * a + b) = (d * e) * a + d * b
        OBVIOUS
    <2>2. d * x = (d * e) * y + d * t
        BY <1>2, <2>1
    <2>3. (d * e) * y \in Nat /\ d * t \in Nat
        BY <1>2
    <2>4. \A a, b, c, f \in Int : a = b + c => a + f = b + (c + f)
        OBVIOUS
    <2>5. d * x \in Int /\ (d * e) * y \in Int /\ d * t \in Int /\ r \in Int
        BY <1>1, <2>3
    <2> DEFINE dx == d * x
               dey == (d * e) * y
               dt == d * t
    <2>6. n = dx + r /\ dx = dey + dt /\ dx \in Int /\ dey \in Int /\ dt \in Int /\ r \in Int
        BY <1>1, <2>2, <2>5
    <2> HIDE DEF dx, dey, dt
    <2>7. n = dey + (dt + r)
        BY <2>6
    <2>8. QED
        BY <2>7 DEF dey, dt
  <1>6. d * t + r \in Nat /\ d * t + r < d * e
    <2>1. d * t <= d * (e - 1)
      <3>1. \A k \in Nat : d * (t + k) = d * t + d * k /\ d * k >= 0
          BY <1>2
      <3>2. (e - 1) - t \in Nat /\ t + ((e - 1) - t) = e - 1
          BY <1>2
      <3>3. d * (e - 1) = d * t + d * ((e - 1) - t) /\ d * ((e - 1) - t) >= 0
          BY <3>1, <3>2
      <3>4. d * t \in Nat /\ d * ((e - 1) - t) \in Nat
          BY <1>2, <3>2
      <3>5. QED
          BY <3>3, <3>4
    <2>2. d * (e - 1) = d * e - d
        OBVIOUS
    <2>3. d * t \in Nat
        BY <1>2
    <2>4. QED
        BY <1>1, <1>3, <2>1, <2>2, <2>3
  <1>7. z = y
    <2>1. u \in Nat /\ u < d * e
        BY <1>3, <1>4
    <2>2. (d * e) * z + u = (d * e) * y + (d * t + r)
        BY <1>4, <1>5
    <2> DEFINE de == d * e
               w == d * t + r
    <2>3. de \in Nat /\ w \in Nat /\ w < de /\ u < de /\ u \in Nat /\ de * z + u = de * y + w
        BY <1>3, <1>6, <2>1, <2>2
    <2> HIDE DEF de, w
    <2>4. QED
        BY <1>2, <1>4, <2>3, QuotientIsOne
  <1>8. QED
      BY <1>7 DEF z, y, x

\* AddressNumbers of a high and a low part are in one block when their high parts are
\* equal and their low parts are in one block.
LEMMA QuotientOfSum ==
    \A h, l, d, e \in Nat : d > 0 /\ e > 0 => ((e * d) * h + l) \div d = e * h + l \div d
  <1> SUFFICES ASSUME NEW h \in Nat, NEW l \in Nat, NEW d \in Nat, NEW e \in Nat, d > 0, e > 0
               PROVE  ((e * d) * h + l) \div d = e * h + l \div d
      OBVIOUS
  <1> DEFINE n == (e * d) * h + l
             q == l \div d
             r == l % d
             p == n \div d
             t == n % d
  <1>1. n \in Nat
      OBVIOUS
  <1>2. q \in Nat /\ r \in 0..(d - 1) /\ l = d * q + r
      BY Quotient
  <1>3. n = d * (e * h) + l /\ e * h \in Nat
      OBVIOUS
  <1> HIDE DEF n, q, r
  <1>4. p \in Nat /\ t \in 0..(d - 1) /\ n = d * p + t
      BY <1>1, Quotient
  <1> HIDE DEF p, t
  <1>5. \A x, y \in Nat : d * (x + y) = d * x + d * y /\ d * x \in Nat
      OBVIOUS
  <1>6. n = d * (e * h + q) + r
      BY <1>2, <1>3, <1>5
  <1>7. e * h + q \in Nat /\ r \in Nat /\ r < d /\ t \in Nat /\ t < d
      BY <1>2, <1>3, <1>4
  <1>8. d * (e * h + q) + r = d * p + t
      BY <1>4, <1>6
  <1> DEFINE w == e * h + q
  <1>9. w \in Nat /\ d * w + r = d * p + t
      BY <1>7, <1>8
  <1> HIDE DEF w
  <1>10. w = p
      BY <1>4, <1>7, <1>9, QuotientIsOne
  <1>11. QED
      BY <1>10 DEF p, n, w, q

AddressNumbers == 0..Power[2 * ByteBits] - 1

\* Comparing bytes under a mask is comparing blocks of addresses.
LEMMA WithinIsInBlock ==
    \A n \in AddressNumbers, limit \in RangeSet : Within(n, limit) <=> InBlock(n, limit)
  <1> SUFFICES ASSUME NEW n \in AddressNumbers, NEW limit \in RangeSet PROVE Within(n, limit) <=> InBlock(n, limit)
      OBVIOUS
  <1> DEFINE b == ByteBits
             k == limit.bits
             m == limit.base
             B == Power[b]
             h == n \div B
             l == n % B
             g == m \div B
             j == m % B
  <1>1. b \in Nat /\ b > 0 /\ k \in 0..2 * b /\ n \in Nat /\ m \in Nat /\ m \in AddressNumbers
      BY SendAssumption, Powers DEF RangeSet, AddressNumbers, SendConstants
  <1>2. B \in Nat /\ B > 0
      BY <1>1, Powers
  <1>3. h \in Nat /\ g \in Nat /\ l \in 0..(B - 1) /\ j \in 0..(B - 1) /\ n = B * h + l /\ m = B * g + j
      BY <1>1, <1>2, Quotient
  <1>4. Bytes(n) = <<h, l>> /\ Bytes(m) = <<g, j>>
      BY DEF Bytes
  <1> DEFINE Width(i) == IF k >= b * i THEN b ELSE k % b
             Part(i) == k > b * (i - 1) => Bytes(n)[i] \div Power[b - Width(i)] = Bytes(m)[i] \div Power[b - Width(i)]
  <1>5. Within(n, limit) <=> Part(1) /\ Part(2)
    <2>1. Within(n, limit) <=> \A i \in 1..2 : Part(i)
        BY DEF Within
    <2> HIDE DEF Part
    <2>2. \A i \in 1..2 : i = 1 \/ i = 2
        OBVIOUS
    <2>3. 1 \in 1..2 /\ 2 \in 1..2
        OBVIOUS
    <2>4. QED
        BY <2>1, <2>2, <2>3, Zenon
  <1>6. InBlock(n, limit) <=> n \div Power[2 * b - k] = m \div Power[2 * b - k]
      BY DEF InBlock
  <1>7. b * 1 = b /\ b * (1 - 1) = 0 /\ b * 2 = 2 * b /\ b * (2 - 1) = b
      BY <1>1
  <1> HIDE DEF l, j, h, g
  <1>8. CASE k = 0
    <2>1. Part(1) /\ Part(2)
        BY <1>1, <1>7, <1>8
    <2>2. \A x \in AddressNumbers : x \div Power[2 * b] = 0
      <3> DEFINE P == Power[2 * b]
      <3>1. P \in Nat /\ P > 0
          BY <1>1, Powers
      <3>2. SUFFICES ASSUME NEW x \in 0..(P - 1) PROVE x \div P = 0
          BY DEF AddressNumbers
      <3> HIDE DEF P
      <3>3. x \in Nat /\ x < P /\ P * 0 + x = x
          BY <3>1, <3>2
      <3>4. x \div P \in Nat /\ x % P \in Nat /\ x % P < P /\ x = P * (x \div P) + (x % P)
        <4>1. x \div P \in Nat /\ x % P \in 0..(P - 1) /\ x = P * (x \div P) + (x % P)
            BY <3>1, <3>3, Quotient
        <4> DEFINE y == x % P
        <4> HIDE DEF y
        <4>2. y \in 0..(P - 1) => y \in Nat /\ y < P
            BY <3>1
        <4>3. QED
            BY <4>1, <4>2 DEF y
      <3> DEFINE y == x % P
                 z == x \div P
      <3>5. z \in Nat /\ y \in Nat /\ y < P /\ P * z + y = P * 0 + x
          BY <3>3, <3>4
      <3> HIDE DEF y, z
      <3>6. z = 0
          BY <3>1, <3>3, <3>5, QuotientIsOne
      <3>7. QED
          BY <3>6 DEF z
    <2>3. 2 * b - k = 2 * b
        BY <1>1, <1>8
    <2>4. n \div Power[2 * b - k] = m \div Power[2 * b - k]
        BY <1>1, <2>2, <2>3
    <2>5. QED
        BY <1>5, <1>6, <2>1, <2>4, Zenon
  <1>9. CASE k > 0 /\ k <= b
    <2> DEFINE d == Power[b - k]
    <2>1. Width(1) = k
      <3>1. CASE k = b
          BY <1>1, <1>7, <3>1
      <3>2. CASE k < b
        <4>1. k % b = k
            BY <1>1, <3>2, Z3
        <4>2. QED
            BY <1>1, <1>7, <3>2, <4>1
      <3>3. QED
          BY <1>1, <1>9, <3>1, <3>2
    <2>2. Part(2)
        BY <1>1, <1>7, <1>9
    <2>3. Part(1) <=> h \div d = g \div d
        BY <1>1, <1>4, <1>7, <1>9, <2>1
    <2>4. b - k \in 0..2 * b /\ 2 * b - k = b + (b - k) /\ b - k \in Nat
        BY <1>1, <1>9
    <2>5. d \in Nat /\ d > 0 /\ Power[2 * b - k] = B * d
      <3>1. d \in Nat /\ d > 0
          BY <2>4, Powers
      <3>2. b + (b - k) <= 2 * b
          BY <1>1, <1>9
      <3>3. Power[b + (b - k)] = Power[b] * Power[b - k]
          BY <1>1, <2>4, <3>2, PowerOfSum
      <3>4. QED
          BY <2>4, <3>1, <3>3, Zenon
    <2> HIDE DEF B, Part, Width, d
    <2>6. n \div Power[2 * b - k] = h \div d /\ m \div Power[2 * b - k] = g \div d
      <3>1. n \div (B * d) = (n \div B) \div d /\ m \div (B * d) = (m \div B) \div d
          BY <1>1, <1>2, <2>5, QuotientTwice
      <3>2. QED
          BY <2>5, <3>1 DEF h, g
    <2>7. QED
        BY <1>5, <1>6, <2>2, <2>3, <2>6, Zenon
  <1>10. CASE k > b
    <2> DEFINE d == Power[2 * b - k]
               e == Power[k - b]
    <2>1. Width(1) = b /\ b - b = 0
        BY <1>1, <1>7, <1>10
    <2>2. b - Width(2) = 2 * b - k
      <3>1. CASE k = 2 * b
          BY <1>1, <1>7, <3>1
      <3>2. CASE k < 2 * b
        <4>1. k % b = k - b
            BY <1>1, <1>10, <3>2, Z3
        <4>2. QED
            BY <1>1, <1>7, <3>2, <4>1
      <3>3. QED
          BY <1>1, <1>10, <3>1, <3>2
    <2>3. Power[0] = 1 /\ h \div 1 = h /\ g \div 1 = g
        BY <1>3, Powers
    <2>4. Part(1) <=> h = g
        BY <1>1, <1>4, <1>7, <1>10, <2>1, <2>3
    <2>5. Part(2) <=> l \div d = j \div d
        BY <1>1, <1>4, <1>7, <1>10, <2>2
    <2>6. d \in Nat /\ d > 0 /\ e \in Nat /\ e > 0 /\ B = e * d
      <3>1. 2 * b - k \in Nat /\ 2 * b - k \in 0..2 * b /\ k - b \in Nat /\ k - b \in 0..2 * b
            /\ (k - b) + (2 * b - k) = b /\ b <= 2 * b
          BY <1>1, <1>10
      <3>2. d \in Nat /\ d > 0 /\ e \in Nat /\ e > 0
          BY <3>1, Powers
      <3>3. Power[(k - b) + (2 * b - k)] = e * d
          BY <3>1, PowerOfSum
      <3>4. QED
          BY <3>1, <3>2, <3>3, Zenon
    <2> HIDE DEF B, Part, Width, d, e
    <2>7. n \div d = e * h + l \div d /\ m \div d = e * g + j \div d
      <3>1. l \in Nat /\ j \in Nat
          BY <1>2, <1>3
      <3>2. n = (e * d) * h + l /\ m = (e * d) * g + j
          BY <1>3, <2>6, Zenon
      <3>3. QED
        <4>1. ((e * d) * h + l) \div d = e * h + l \div d /\ ((e * d) * g + j) \div d = e * g + j \div d
            BY <1>3, <2>6, <3>1, QuotientOfSum
        <4>2. QED
            BY <3>2, <4>1
    <2>8. l \div d \in Nat /\ l \div d < e /\ j \div d \in Nat /\ j \div d < e
      <3>1. SUFFICES ASSUME NEW x \in 0..(B - 1) PROVE x \div d \in Nat /\ x \div d < e
          BY <1>3
      <3>2. x \in Nat /\ x < e * d
          BY <1>2, <2>6, <3>1
      <3>3. x \div d \in Nat /\ x % d \in 0..(d - 1) /\ x = d * (x \div d) + (x % d)
          BY <2>6, <3>2, Quotient
      <3> DEFINE q == x \div d
                 r == x % d
      <3>4. q \in Nat /\ r \in 0..(d - 1) /\ x = d * q + r
          BY <3>3
      <3> HIDE DEF q, r
      <3>5. r \in Nat /\ d * q \in Nat /\ e * d = d * e
          BY <2>6, <3>4
      <3>6. d * q < d * e
          BY <2>6, <3>2, <3>4, <3>5
      <3>7. CASE q >= e
        <4>1. q - e \in Nat /\ q = e + (q - e)
            BY <2>6, <3>4, <3>7
        <4>2. \A i \in Nat : d * (e + i) = d * e + d * i /\ d * i \in Nat /\ d * e \in Nat
            BY <2>6
        <4>3. d * q = d * e + d * (q - e) /\ d * (q - e) \in Nat /\ d * e \in Nat
            BY <4>1, <4>2
        <4>4. QED
            BY <3>5, <3>6, <4>3
      <3>8. QED
          BY <2>6, <3>4, <3>7 DEF q
    <2>9. e * h + l \div d = e * g + j \div d => h = g /\ l \div d = j \div d
      <3> DEFINE x == l \div d
                 y == j \div d
      <3>1. x \in Nat /\ x < e /\ y \in Nat /\ y < e
          BY <2>8
      <3> HIDE DEF x, y
      <3>2. ASSUME e * h + x = e * g + y PROVE h = g /\ x = y
        <4>1. h = g
            BY <1>3, <2>6, <3>1, <3>2, QuotientIsOne
        <4>2. e * h \in Nat
            BY <1>3, <2>6
        <4>3. QED
            BY <3>1, <3>2, <4>1, <4>2
      <3>3. QED
          BY <3>2 DEF x, y
    <2>10. n \div d = m \div d <=> h = g /\ l \div d = j \div d
        BY <2>7, <2>9, Zenon
    <2>11. QED
        BY <1>5, <1>6, <2>4, <2>5, <2>10, Zenon DEF d
  <1>11. QED
      BY <1>1, <1>8, <1>9, <1>10

-----------------------------------------------------------------------------
SendTypes ==
    /\ dns \in Seq(AddressSet)
    /\ send \in [pc : {"idle", "resolve", "connect", "settled"}, tries : Nat, c : Settings \cup {NoSend.c},
                 pins : Seq(AddressSet), at : Nat, stage : Stages \cup {"none"}, tls : BOOLEAN,
                 asked : Nat, refused : Nat, outcome : {"none", "delivered", "retryable", "terminal"},
                 ended : Stages \cup {"none"}]
    /\ send.pc # "idle" => send.c \in Settings

\* An address a connection may be made to, for the settings c (verifyAddress, sendPinned).
Vetted(address, c) ==
    /\ address \in AddressSet /\ VerifyAddress(address, c.host)
    /\ c.scheme = "http" => Named(address, c.host)

\* The pinned addresses are vetted, and the mail is at one of them; the rest
\* says where the outcome, the stage and the copies come from.
Pinned ==
    send.pc = "connect" =>
        send.at \in DOMAIN send.pins /\ \A i \in DOMAIN send.pins : Vetted(send.pins[i], send.c)
ContactsVetted ==
    send.pc # "idle" => \A k \in contacted : Vetted(k.address, send.c) /\ k.scheme = send.c.scheme
Copies ==
    /\ send.pc \in {"resolve", "connect"} => taken = {}
    /\ \E at : taken \subseteq {at}
    /\ send.pc # "connect" => send.stage = "none"
    /\ send.stage \in {"auth", "from", "to", "data", "body"} => send.tls
    /\ send.pc # "settled" => send.outcome = "none"
    /\ send.outcome = "delivered" /\ IsMail(send.c) =>
          IF send.ended = "body" THEN taken # {} /\ send.refused = 0
                                 ELSE taken = {} /\ send.ended \in {"auth", "data"}
SendInv == SendTypes /\ Pinned /\ ContactsVetted /\ Copies

LEMMA SendInitially == SendInit => SendInv
  <1> SUFFICES ASSUME SendInit PROVE SendInv
      OBVIOUS
  <1> USE DEF SendInit, NoSend
  <1>1. SendTypes
    <2>1. <<>> \in Seq(AddressSet) /\ 0 \in Nat
        OBVIOUS
    <2> DEFINE none == [kind |-> "none"]
    <2>2. send = [pc |-> "idle", tries |-> 0, c |-> none, pins |-> <<>>, at |-> 0,
                  stage |-> "none", tls |-> FALSE, asked |-> 0, refused |-> 0, outcome |-> "none", ended |-> "none"]
          /\ NoSend.c = none
        OBVIOUS
    <2> HIDE DEF none
    <2>3. QED
        BY <2>1, <2>2 DEF SendTypes
  <1>2. Pinned /\ ContactsVetted
      BY DEF Pinned, ContactsVetted
  <1>3. Copies
      BY DEF Copies, IsMail
  <1>4. QED
      BY <1>1, <1>2, <1>3 DEF SendInv

\* A new attempt has its shape.
LEMMA NewAttempt ==
    ASSUME NEW pc \in {"resolve", "settled"}, NEW tries \in Nat, NEW c \in Settings, NEW outcome \in {"none", "terminal"},
           dns' \in Seq(AddressSet),
           send' = [pc |-> pc, tries |-> tries, c |-> c, pins |-> <<>>, at |-> 0, stage |-> "none",
                    tls |-> FALSE, asked |-> 0, refused |-> 0, outcome |-> outcome, ended |-> "none"]
    PROVE  SendTypes'
  <1> DEFINE no == <<>>
             settings == Settings \cup {NoSend.c}
             stages == Stages \cup {"none"}
             pins == Seq(AddressSet)
  <1>1. no \in pins /\ 0 \in Nat /\ c \in settings /\ "none" \in stages
      OBVIOUS
  <1>2. send' = [pc |-> pc, tries |-> tries, c |-> c, pins |-> no, at |-> 0, stage |-> "none",
                 tls |-> FALSE, asked |-> 0, refused |-> 0, outcome |-> outcome, ended |-> "none"]
      OBVIOUS
  <1>3. send'.c \in Settings
      OBVIOUS
  <1> HIDE DEF no, settings, stages, pins
  <1>4. send' \in [pc : {"idle", "resolve", "connect", "settled"}, tries : Nat, c : settings,
                  pins : pins, at : Nat, stage : stages, tls : BOOLEAN,
                  asked : Nat, refused : Nat, outcome : {"none", "delivered", "retryable", "terminal"},
                  ended : stages]
      BY <1>1, <1>2
  <1>5. QED
      BY <1>3, <1>4 DEF SendTypes, settings, stages, pins

\* What a look-up pins is vetted when all of it may be connected to.
LEMMA WhatIsPinned ==
    ASSUME SendInv, NEW c \in Settings, ResolvePinned(c).pinned,
           IsMail(c) \/ PlainIsNamed(c, ResolvePinned(c).addresses)
    PROVE  LET looked == ResolvePinned(c).addresses
           IN  looked \in Seq(AddressSet) /\ 1 \in DOMAIN looked /\ \A i \in DOMAIN looked : Vetted(looked[i], c)
  <1> DEFINE looked == IF c.host.literal THEN <<c.host.address>> ELSE dns
  <1>1. ResolvePinned(c).addresses = looked /\ looked # <<>> /\ \A i \in DOMAIN looked : VerifyAddress(looked[i], c.host)
      BY DEF ResolvePinned
  <1>2. looked \in Seq(AddressSet)
    <2>1. c.host.address \in AddressSet /\ dns \in Seq(AddressSet)
        BY SendAssumption DEF SendInv, SendTypes, SendConstants
    <2> HIDE DEF AddressSet
    <2>2. QED
        BY <2>1
  <1> HIDE DEF looked
  <1>3. 1 \in DOMAIN looked /\ DOMAIN looked = 1..Len(looked) /\ \A i \in DOMAIN looked : looked[i] \in AddressSet
    <2> HIDE DEF AddressSet
    <2>1. Len(looked) \in Nat /\ DOMAIN looked = 1..Len(looked) /\ Len(looked) > 0
        BY <1>1, <1>2
    <2>2. \A i \in 1..Len(looked) : looked[i] \in AddressSet
        BY <1>2, ElementOfSeq
    <2>3. QED
        BY <2>1, <2>2
  <1>4. IsMail(c) => c.scheme # "http"
      BY SendAssumption DEF IsMail, SendConstants
  <1>5. c.scheme = "http" => \A i \in DOMAIN looked : Named(looked[i], c.host)
      BY <1>1, <1>4 DEF PlainIsNamed
  <1>6. QED
      BY <1>1, <1>2, <1>3, <1>5 DEF Vetted

\* How an answer over HTTP settles an attempt.
LEMMA RepliesSettle ==
    ASSUME NEW c \in Settings, ~IsMail(c), NEW status \in Statuses
    PROVE  SenderFor(c).reply[status] \in {"delivered", "retryable", "terminal"}
  <1>1. c.kind \in SenderKinds
      BY SendAssumption DEF IsMail, SendConstants
  <1>2. ByStatus \in [Statuses -> {"delivered", "retryable", "terminal"}]
      BY DEF ByStatus, Statuses
  <1> DEFINE readings == {ByStatus, ClassifyTelegramReply, ClassifyResendReply}
  <1>3. SenderFor(c).reply \in readings
      BY <1>1 DEF SenderFor, SenderKinds, DeliverTelegram, DeliverWebhook, DeliverIncoming, DeliverPush, DeliverResend
  <1>4. readings \subseteq [Statuses -> {"delivered", "retryable", "terminal"}]
    <2> HIDE DEF Statuses
    <2>1. QED
        BY <1>2 DEF ClassifyTelegramReply, ClassifyResendReply
  <1>5. QED
      BY <1>3, <1>4

\* What a step that settles the attempt must establish.
ContactsOf(c, contacts) == \A k \in contacts : Vetted(k.address, c) /\ k.scheme = c.scheme
LEMMA SettledKeeps ==
    ASSUME SendInv, send.pc # "idle", dns' = dns, ContactsOf(send.c, contacted'), \E at : taken' \subseteq {at},
           NEW outcome \in {"delivered", "retryable", "terminal"}, Settled(outcome),
           outcome = "delivered" /\ IsMail(send.c) =>
              IF send.stage = "body" THEN taken' # {} /\ send.refused = 0
                                     ELSE taken' = {} /\ send.stage \in {"auth", "data"}
    PROVE  SendInv'
  <1>1. send' = [send EXCEPT !.pc = "settled", !.outcome = outcome, !.stage = "none", !.ended = send.stage]
      BY DEF Settled
  <1>2. SendTypes'
      BY <1>1 DEF SendInv, SendTypes
  <1>3. /\ send'.pc = "settled" /\ send'.stage = "none" /\ send'.c = send.c /\ send'.refused = send.refused
        /\ send'.outcome = outcome /\ send'.ended = send.stage
      BY <1>1 DEF SendInv, SendTypes
  <1>4. Pinned' /\ ContactsVetted'
      BY <1>3 DEF Pinned, ContactsVetted, ContactsOf
  <1>5. Copies'
      BY <1>3 DEF Copies, IsMail
  <1>6. QED
      BY <1>2, <1>4, <1>5 DEF SendInv

LEMMA NextAddressKeeps ==
    ASSUME SendInv, send.pc = "connect", dns' = dns, ContactsOf(send.c, contacted'), taken' = {},
           NextAddress("retryable")
    PROVE  SendInv'
  <1>1. CASE send.at < Len(send.pins)
    <2>1. send' = [send EXCEPT !.at = send.at + 1, !.stage = "none", !.tls = FALSE, !.asked = 0, !.refused = 0]
        BY <1>1 DEF NextAddress
    <2>2. SendTypes'
      <3>1. send.at + 1 \in Nat /\ 0 \in Nat
          BY DEF SendInv, SendTypes
      <3> DEFINE next == send.at + 1
      <3>2. next \in Nat /\ send' = [send EXCEPT !.at = next, !.stage = "none", !.tls = FALSE, !.asked = 0, !.refused = 0]
          BY <2>1, <3>1
      <3> HIDE DEF next, AddressSet, Stages
      <3>3. QED
          BY <3>1, <3>2 DEF SendInv, SendTypes
    <2>3. /\ send'.pc = "connect" /\ send'.stage = "none" /\ send'.c = send.c /\ send'.pins = send.pins
          /\ send'.at = send.at + 1 /\ send'.outcome = send.outcome
        BY <2>1 DEF SendInv, SendTypes
    <2>4. send.at + 1 \in DOMAIN send.pins
      <3>1. send.pins \in Seq(AddressSet) /\ send.at \in DOMAIN send.pins
          BY DEF SendInv, SendTypes, Pinned
      <3> HIDE DEF AddressSet
      <3>2. QED
          BY <1>1, <3>1
    <2>5. Pinned'
        BY <2>3, <2>4 DEF SendInv, Pinned
    <2>6. ContactsVetted'
        BY <2>3 DEF ContactsVetted, ContactsOf
    <2>7. Copies'
        BY <2>3 DEF Copies, SendInv
    <2>8. QED
        BY <2>2, <2>5, <2>6, <2>7 DEF SendInv
  <1>2. CASE ~(send.at < Len(send.pins))
    <2>1. Settled("retryable")
        BY <1>2 DEF NextAddress
    <2>2. \E at : taken' \subseteq {at}
        OBVIOUS
    <2>3. QED
        BY <2>1, <2>2, SettledKeeps
  <1>3. QED
      BY <1>1, <1>2

\* A connection is made to a pinned address.
LEMMA ContactKeeps ==
    ASSUME SendInv, send.pc = "connect", NEW i \in DOMAIN send.pins, Contact(i)
    PROVE  ContactsOf(send.c, contacted')
  <1>1. contacted' = contacted \cup {[address |-> send.pins[i], scheme |-> send.c.scheme]}
      BY DEF Contact, AddressFor
  <1>2. Vetted(send.pins[i], send.c)
      BY DEF SendInv, Pinned
  <1>3. ContactsOf(send.c, contacted)
      BY DEF SendInv, ContactsVetted, ContactsOf
  <1>4. QED
      BY <1>1, <1>2, <1>3 DEF ContactsOf

\* A step of the conversation that stays with the address it talks to.
LEMMA TalkKeeps ==
    ASSUME SendInv, send.pc = "connect", UNCHANGED <<dns, contacted, taken>>, SendTypes',
           send'.pc = "connect", send'.c = send.c, send'.pins = send.pins, send'.at = send.at, send'.outcome = send.outcome,
           send'.stage \in {"auth", "from", "to", "data", "body"} => send'.tls
    PROVE  SendInv'
  <1>1. Pinned' /\ ContactsVetted'
      BY DEF SendInv, Pinned, ContactsVetted
  <1>2. Copies'
      BY DEF SendInv, Copies
  <1>3. QED
      BY <1>1, <1>2 DEF SendInv

LEMMA SendStep ==
    ASSUME SendInv, [SendNext]_sendVars PROVE SendInv'
  <1>0. send.pc # "idle" => ContactsOf(send.c, contacted)
      BY DEF SendInv, ContactsVetted, ContactsOf
  <1>00. \E at : taken \subseteq {at}
      BY DEF SendInv, Copies
  <1>000. send.pc \in {"resolve", "connect"} => taken = {}
      BY DEF SendInv, Copies
  <1>1. CASE Dispatch
    <2>1. PICK c \in Settings :
             \/ send' = [NoSend EXCEPT !.pc = "resolve", !.tries = 1, !.c = c]
             \/ send' = [NoSend EXCEPT !.pc = "settled", !.c = c, !.outcome = "terminal"]
        BY <1>1 DEF Dispatch
    <2>2. dns' = dns /\ contacted' = {} /\ taken' = {}
        BY <1>1 DEF Dispatch
    <2>3. /\ send'.pc \in {"resolve", "settled"} /\ send'.c = c /\ send'.stage = "none"
          /\ send'.outcome = IF send'.pc = "settled" THEN "terminal" ELSE "none"
        BY <2>1 DEF NoSend
    <2>4. SendTypes'
      <3>1. dns' \in Seq(AddressSet)
          BY <2>2 DEF SendInv, SendTypes
      <3>2. \/ send' = [pc |-> "resolve", tries |-> 1, c |-> c, pins |-> <<>>, at |-> 0, stage |-> "none",
                        tls |-> FALSE, asked |-> 0, refused |-> 0, outcome |-> "none", ended |-> "none"]
            \/ send' = [pc |-> "settled", tries |-> 0, c |-> c, pins |-> <<>>, at |-> 0, stage |-> "none",
                        tls |-> FALSE, asked |-> 0, refused |-> 0, outcome |-> "terminal", ended |-> "none"]
          BY <2>1 DEF NoSend
      <3>3. 0 \in Nat /\ 1 \in Nat
          OBVIOUS
      <3>4. QED
          BY <2>1, <3>1, <3>2, <3>3, NewAttempt
    <2>5. Pinned' /\ ContactsVetted' /\ Copies'
        BY <2>2, <2>3 DEF Pinned, ContactsVetted, Copies
    <2>6. QED
        BY <2>4, <2>5 DEF SendInv
  <1>2. CASE DnsTurns
    <2>1. dns' \in Seq(AddressSet) /\ UNCHANGED <<send, contacted, taken>>
        BY <1>2, SendAssumption DEF DnsTurns, SendConstants
    <2>2. SendTypes'
        BY <2>1 DEF SendInv, SendTypes
    <2>3. Pinned' /\ ContactsVetted' /\ Copies'
        BY <2>1 DEF SendInv, Pinned, ContactsVetted, Copies, IsMail
    <2>4. QED
        BY <2>2, <2>3 DEF SendInv
  <1>3. CASE TryAgain
    <2>1. /\ send' = [NoSend EXCEPT !.pc = "resolve", !.tries = send.tries + 1, !.c = send.c]
          /\ send.pc = "settled" /\ taken' = {} /\ UNCHANGED <<dns, contacted>>
        BY <1>3 DEF TryAgain
    <2>2. send'.pc = "resolve" /\ send'.c = send.c /\ send'.stage = "none" /\ send'.outcome = "none"
        BY <2>1 DEF NoSend
    <2>3. SendTypes'
      <3>1. dns' \in Seq(AddressSet) /\ send.c \in Settings /\ send.tries + 1 \in Nat
          BY <2>1 DEF SendInv, SendTypes
      <3>2. send' = [pc |-> "resolve", tries |-> send.tries + 1, c |-> send.c, pins |-> <<>>, at |-> 0, stage |-> "none",
                     tls |-> FALSE, asked |-> 0, refused |-> 0, outcome |-> "none", ended |-> "none"]
          BY <2>1 DEF NoSend
      <3>3. QED
          BY <3>1, <3>2, NewAttempt
    <2>4. Pinned' /\ ContactsVetted' /\ Copies'
        BY <2>1, <2>2 DEF SendInv, Pinned, ContactsVetted, Copies
    <2>5. QED
        BY <2>3, <2>4 DEF SendInv
  <1>4. CASE Resolve
    <2> DEFINE pin == ResolvePinned(send.c)
    <2>1. send.pc = "resolve" /\ UNCHANGED <<dns, contacted, taken>> /\ send.c \in Settings
        BY <1>4 DEF Resolve, SendInv, SendTypes
    <2>2. CASE Settled("terminal") \/ Settled("retryable")
        BY <1>0, <1>00, <2>1, <2>2, SettledKeeps
    <2>3. CASE /\ pin.pinned /\ (IsMail(send.c) \/ PlainIsNamed(send.c, pin.addresses))
               /\ send' = [send EXCEPT !.pc = "connect", !.pins = pin.addresses, !.at = 1]
      <3> DEFINE looked == pin.addresses
      <3>1. looked \in Seq(AddressSet) /\ 1 \in DOMAIN looked /\ \A i \in DOMAIN looked : Vetted(looked[i], send.c)
          BY <2>1, <2>3, WhatIsPinned
      <3>2. send' = [send EXCEPT !.pc = "connect", !.pins = looked, !.at = 1]
          BY <2>3
      <3> HIDE DEF looked
      <3>3. SendTypes'
        <4> HIDE DEF AddressSet
        <4>1. QED
            BY <2>1, <3>1, <3>2 DEF SendInv, SendTypes
      <3>4. /\ send'.pc = "connect" /\ send'.pins = looked /\ send'.at = 1 /\ send'.c = send.c /\ send'.stage = send.stage
            /\ send'.outcome = send.outcome
          BY <3>2 DEF SendInv, SendTypes
      <3>5. Pinned' /\ ContactsVetted'
          BY <1>0, <2>1, <3>1, <3>4 DEF Pinned, ContactsVetted, ContactsOf
      <3>6. Copies'
          BY <2>1, <3>4 DEF SendInv, Copies
      <3>7. QED
          BY <3>3, <3>5, <3>6 DEF SendInv
    <2>4. QED
        BY <1>4, <2>2, <2>3 DEF Resolve
  <1>5. CASE Post
    <2>1. send.pc = "connect" /\ ~IsMail(send.c) /\ dns' = dns /\ taken' = taken /\ send.c \in Settings
        BY <1>5 DEF Post, SendInv, SendTypes
    <2>2. ContactsOf(send.c, contacted')
        BY <1>5, <2>1, ContactKeeps DEF Post
    <2>3. PICK outcome \in {"delivered", "retryable", "terminal"} : Settled(outcome)
        BY <1>5, <2>1, RepliesSettle DEF Post
    <2>4. QED
        BY <1>00, <2>1, <2>2, <2>3, SettledKeeps
  <1>6. CASE MailOpens
    <2>1. send.pc = "connect" /\ send.stage = "none" /\ dns' = dns /\ taken' = taken /\ Contact(send.at)
          /\ send.c \in Settings /\ send.c.implicit \in BOOLEAN
        BY <1>6, SendAssumption DEF MailOpens, SendInv, SendTypes, SendConstants
    <2>2. ContactsOf(send.c, contacted')
        BY <2>1, ContactKeeps DEF SendInv, Pinned
    <2>3. CASE NextAddress("retryable")
        BY <1>000, <2>1, <2>2, <2>3, NextAddressKeeps
    <2>4. CASE send' = [send EXCEPT !.stage = "greeting", !.tls = send.c.implicit]
      <3>1. SendTypes'
          BY <2>1, <2>4 DEF SendInv, SendTypes, Stages
      <3>2. /\ send'.pc = "connect" /\ send'.stage = "greeting" /\ send'.c = send.c /\ send'.pins = send.pins
            /\ send'.at = send.at /\ send'.outcome = send.outcome
          BY <2>1, <2>4 DEF SendInv, SendTypes
      <3>3. Pinned' /\ ContactsVetted'
          BY <2>1, <2>2, <3>2 DEF SendInv, Pinned, ContactsVetted, ContactsOf
      <3>4. Copies'
          BY <2>1, <3>2 DEF SendInv, Copies
      <3>5. QED
          BY <3>1, <3>3, <3>4 DEF SendInv
    <2>5. QED
        BY <1>6, <2>3, <2>4 DEF MailOpens
  <1>7. CASE Unusable
    <2>1. send.pc = "connect" /\ Settled("terminal") /\ UNCHANGED <<dns, contacted, taken>>
        BY <1>7 DEF Unusable, Talking
    <2>2. QED
        BY <1>0, <1>00, <2>1, SettledKeeps
  <1>8. CASE BodyAccepted
    <2>1. /\ send.pc = "connect" /\ taken' = taken \cup {send.at} /\ UNCHANGED <<dns, contacted>>
          /\ send.stage = "body" /\ Settled(IF send.refused = 0 THEN "delivered" ELSE "terminal")
        BY <1>8 DEF BodyAccepted, Talking
    <2>2. taken' = {send.at}
        BY <1>000, <2>1
    <2>3. QED
        BY <1>0, <2>1, <2>2, SettledKeeps
  <1>9. CASE Finish
    <2>1. send' = NoSend /\ send.pc = "settled" /\ UNCHANGED <<dns, contacted, taken>>
        BY <1>9 DEF Finish
    <2>2. SendTypes'
      <3>1. <<>> \in Seq(AddressSet) /\ 0 \in Nat /\ dns \in Seq(AddressSet)
          BY DEF SendInv, SendTypes
      <3> DEFINE none == [kind |-> "none"]
      <3>2. NoSend = [pc |-> "idle", tries |-> 0, c |-> none, pins |-> <<>>, at |-> 0,
                    stage |-> "none", tls |-> FALSE, asked |-> 0, refused |-> 0, outcome |-> "none", ended |-> "none"]
            /\ NoSend.c = none
          BY DEF NoSend
      <3> HIDE DEF none, AddressSet
      <3>3. QED
          BY <2>1, <3>1, <3>2 DEF SendTypes
    <2>3. Pinned' /\ ContactsVetted'
        BY <2>1 DEF Pinned, ContactsVetted, NoSend
    <2>4. Copies'
        BY <1>00, <2>1 DEF Copies, NoSend
    <2>5. QED
        BY <2>2, <2>3, <2>4 DEF SendInv
  <1>10. ASSUME NEW stage \in Stages, Positive(stage) PROVE SendInv'
    <2>1. /\ send.pc = "connect" /\ send.stage = stage /\ stage \notin {"to", "body"} /\ UNCHANGED <<dns, contacted, taken>>
          /\ send' = [send EXCEPT !.stage = NextStage(stage), !.tls = send.tls \/ stage = "starttls"]
        BY <1>10 DEF Positive, Talking
    <2>2. NextStage(stage) \in Stages
        BY <1>10, <2>1 DEF NextStage, Stages
    <2>3. NextStage(stage) \in {"auth", "from", "to", "data", "body"} =>
             (stage = "hello" /\ send.tls) \/ stage \in {"auth", "from", "data"}
        BY <1>10, <2>1 DEF NextStage, Stages
    <2>4. SendTypes'
        BY <2>1, <2>2 DEF SendInv, SendTypes
    <2>5. /\ send'.pc = "connect" /\ send'.stage = NextStage(stage) /\ send'.c = send.c /\ send'.pins = send.pins
          /\ send'.at = send.at /\ send'.outcome = send.outcome /\ (send.tls => send'.tls)
        BY <2>1 DEF SendInv, SendTypes
    <2>6. send'.stage \in {"auth", "from", "to", "data", "body"} => send'.tls
        BY <2>1, <2>3, <2>5 DEF SendInv, Copies
    <2>7. QED
        BY <2>1, <2>4, <2>5, <2>6, TalkKeeps
  <1>11. ASSUME NEW stage \in Stages, Lost(stage) PROVE SendInv'
    <2>1. send.pc = "connect" /\ UNCHANGED <<dns, contacted>>
        BY <1>11 DEF Lost, Talking
    <2>2. CASE stage = "body"
      <3>1. Settled("retryable") /\ \E at : taken' \subseteq {at}
          BY <1>000, <1>11, <2>1, <2>2 DEF Lost
      <3>2. QED
          BY <1>0, <2>1, <3>1, SettledKeeps
    <2>3. CASE stage # "body"
      <3>1. NextAddress("retryable") /\ taken' = {}
          BY <1>000, <1>11, <2>1, <2>3 DEF Lost
      <3>2. QED
          BY <1>0, <2>1, <3>1, NextAddressKeeps
    <2>4. QED
        BY <2>2, <2>3
  <1>12. ASSUME NEW code \in Codes, ByReply(code), send.pc = "connect", UNCHANGED <<dns, contacted, taken>>,
                code = "2xx" => send.stage \in {"auth", "data"}
         PROVE  SendInv'
    <2>1. CASE code = "4xx"
      <3>1. NextAddress("retryable")
          BY <1>12, <2>1 DEF ByReply, ClassifySmtpReply
      <3>2. QED
          BY <1>0, <1>000, <1>12, <3>1, NextAddressKeeps
    <2>2. CASE code = "5xx"
      <3>1. Settled("terminal")
          BY <1>12, <2>2 DEF ByReply, ClassifySmtpReply
      <3>2. QED
          BY <1>0, <1>00, <1>12, <3>1, SettledKeeps
    <2>3. CASE code = "2xx"
      <3>1. Settled("delivered") /\ send.stage # "body" /\ send.stage \in {"auth", "data"} /\ taken' = {}
          BY <1>000, <1>12, <2>3 DEF ByReply, ClassifySmtpReply
      <3>2. QED
          BY <1>0, <1>00, <1>12, <3>1, SettledKeeps
    <2>4. QED
        BY <1>12, <2>1, <2>2, <2>3 DEF Codes
  <1>13. ASSUME NEW accepted \in BOOLEAN, Recipient(accepted) PROVE SendInv'
    <2>1. /\ send.pc = "connect" /\ send.stage = "to" /\ UNCHANGED <<dns, contacted, taken>>
          /\ send' = [send EXCEPT !.asked = send.asked + 1, !.refused = IF accepted THEN send.refused ELSE send.refused + 1]
        BY <1>13 DEF Recipient, Talking
    <2>2. SendTypes'
      <3> DEFINE refused == IF accepted THEN send.refused ELSE send.refused + 1
                 count == send.asked + 1
      <3>1. refused \in Nat /\ count \in Nat
        <4>1. send.refused \in Nat /\ send.asked \in Nat
            BY DEF SendInv, SendTypes
        <4>2. \A k \in Nat : k + 1 \in Nat
            OBVIOUS
        <4>3. QED
            BY <4>1, <4>2
      <3>2. send' = [send EXCEPT !.asked = count, !.refused = refused]
          BY <2>1
      <3> HIDE DEF refused, count, AddressSet, Stages
      <3>3. QED
          BY <2>1, <3>1, <3>2 DEF SendInv, SendTypes
    <2>3. /\ send'.pc = "connect" /\ send'.stage = "to" /\ send'.c = send.c /\ send'.pins = send.pins
          /\ send'.at = send.at /\ send'.outcome = send.outcome /\ send'.tls = send.tls
        BY <2>1 DEF SendInv, SendTypes
    <2>4. send.tls
        BY <2>1 DEF SendInv, Copies
    <2>5. QED
        BY <2>1, <2>2, <2>3, <2>4, TalkKeeps
  <1>14. ASSUME NEW code \in {"4xx", "5xx"}, RecipientsAsked(code) PROVE SendInv'
    <2>1. send.pc = "connect" /\ send.stage = "to" /\ UNCHANGED <<dns, contacted, taken>>
        BY <1>14 DEF RecipientsAsked, Talking
    <2>2. CASE ByReply(code)
        BY <1>12, <2>1, <2>2 DEF Codes
    <2>3. CASE send' = [send EXCEPT !.stage = "data"]
      <3>1. SendTypes'
          BY <2>1, <2>3 DEF SendInv, SendTypes, Stages
      <3>2. /\ send'.pc = "connect" /\ send'.stage = "data" /\ send'.c = send.c /\ send'.pins = send.pins
            /\ send'.at = send.at /\ send'.outcome = send.outcome /\ send'.tls = send.tls
          BY <2>1, <2>3 DEF SendInv, SendTypes
      <3>3. send.tls
          BY <2>1 DEF SendInv, Copies
      <3>4. QED
          BY <2>1, <3>1, <3>2, <3>3, TalkKeeps
    <2>4. QED
        BY <1>14, <2>2, <2>3 DEF RecipientsAsked
  <1>15. ASSUME NEW stage, NEW code \in Codes, Negative(stage, code) PROVE SendInv'
      BY <1>12, <1>15 DEF Negative, Talking
  <1>16. CASE UNCHANGED sendVars
    <2>1. UNCHANGED <<dns, send, contacted, taken>>
        BY <1>16 DEF sendVars
    <2>2. SendTypes'
        BY <2>1 DEF SendInv, SendTypes
    <2>3. Pinned' /\ ContactsVetted' /\ Copies'
        BY <2>1 DEF SendInv, Pinned, ContactsVetted, Copies, IsMail
    <2>4. QED
        BY <2>2, <2>3 DEF SendInv
  <1>17. QED
      BY <1>1, <1>2, <1>3, <1>4, <1>5, <1>6, <1>7, <1>8, <1>9, <1>10, <1>11, <1>13, <1>14, <1>15, <1>16 DEF SendNext

\* A vetted address is one the policy lets through, by blocks of addresses.
LEMMA VettedIsOpen ==
    ASSUME NEW address \in AddressSet, NEW host, VerifyAddress(address, host)
    PROVE  LET family == FamilyOf(address)
               opened == Opened(address, host)
           IN  /\ \A limit \in NeverRanges[family] : ~InBlock(address.n, limit)
               /\ (\E limit \in SoftRanges[family] : InBlock(address.n, limit)) => opened
               /\ (family = "v6" /\ ~InBlock(address.n, GlobalRange)) => opened
               /\ Named(address, host) => opened
  <1> DEFINE family == FamilyOf(address)
  <1>1. family \in Families /\ address.n \in AddressNumbers
      BY DEF VerifyAddress, FamilyOf, AddressSet, Families, AddressNumbers
  <1>2. /\ NeverRanges[family] \subseteq RangeSet /\ SoftRanges[family] \subseteq RangeSet
        /\ AllowedRanges[family] \subseteq RangeSet /\ GlobalRange \in RangeSet
    <2> HIDE DEF family
    <2> HIDE DEF RangeSet
    <2>1. QED
        BY <1>1, SendAssumption DEF SendConstants
  <1>3. \A limit \in RangeSet : Within(address.n, limit) <=> InBlock(address.n, limit)
      BY <1>1, WithinIsInBlock
  <1> HIDE DEF RangeSet
  <1>4. Named(address, host) => Opened(address, host)
      BY <1>2, <1>3 DEF Named, Opened, InSome, HostIsAllowed
  <1>5. \A limit \in NeverRanges[family] : ~InBlock(address.n, limit)
      BY <1>2, <1>3 DEF VerifyAddress, Never, InSome
  <1>6. SoftDeny(address) => Named(address, host)
      BY DEF VerifyAddress
  <1>7. (\E limit \in SoftRanges[family] : InBlock(address.n, limit)) => SoftDeny(address)
      BY <1>2, <1>3 DEF SoftDeny, InSome
  <1>8. (family = "v6" /\ ~InBlock(address.n, GlobalRange)) => SoftDeny(address)
      BY <1>2, <1>3 DEF SoftDeny
  <1>9. QED
      BY <1>4, <1>5, <1>6, <1>7, <1>8

LEMMA SendsAreVetted == SendInv => SendsAreSafe
  <1> SUFFICES ASSUME SendInv PROVE SendsAreSafe
      OBVIOUS
  <1>1. OnlyVettedAddresses
    <2>1. SUFFICES ASSUME NEW k \in contacted, send.pc # "idle"
                   PROVE  LET family == FamilyOf(k.address)
                              opened == Opened(k.address, send.c.host)
                          IN  /\ \A limit \in NeverRanges[family] : ~InBlock(k.address.n, limit)
                              /\ (\E limit \in SoftRanges[family] : InBlock(k.address.n, limit)) => opened
                              /\ (family = "v6" /\ ~InBlock(k.address.n, GlobalRange)) => opened
                              /\ k.scheme = "http" => opened
        BY DEF OnlyVettedAddresses
    <2>2. Vetted(k.address, send.c) /\ k.scheme = send.c.scheme
        BY <2>1 DEF SendInv, ContactsVetted
    <2>3. QED
        BY <2>2, VettedIsOpen DEF Vetted
  <1>2. OneCopyPerAttempt
    <2>1. PICK at : taken \subseteq {at}
        BY DEF SendInv, Copies
    <2>2. taken = {} \/ taken = {at}
        BY <2>1
    <2>3. Cardinality(taken) <= 1
      <3>1. CASE taken = {}
          BY <3>1, FS_EmptySet
      <3>2. CASE taken = {at}
        <4>1. Cardinality({at}) = 1
            BY FS_Singleton
        <4>2. QED
            BY <3>2, <4>1
      <3>3. QED
          BY <2>2, <3>1, <3>2
    <2>4. QED
        BY <2>3 DEF OneCopyPerAttempt, SendInv, Copies
  <1>3. QED
      BY <1>1, <1>2 DEF SendsAreSafe

\* However names resolve and servers answer, an alert is sent only to addresses
\* the policy lets through, and an attempt hands it over once and never signs in
\* unencrypted (dispatchTo, resolvePinned, deliverEmail, converse).
THEOREM SendsReachVettedAddresses == SendSpec => []SendsAreSafe
  <1>1. SendInv /\ [SendNext]_sendVars => SendInv'
      BY SendStep
  <1>2. QED
      BY <1>1, SendInitially, SendsAreVetted, PTL DEF SendSpec
=============================================================================
