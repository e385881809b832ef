----------------------------- MODULE LiveControl -----------------------------
(***************************************************************************)
(* Talking to a running bot: live readings and inventory actions over a    *)
(* forwarded port, commands through the control pipe.  A call is let       *)
(* through when the bot's unit was found active a moment ago; the answer   *)
(* of that check is remembered, and shared by the calls that wait for it.  *)
(* A live call is a handshake, a notice and the call itself, each on a     *)
(* channel of its own that may be lost; the bot may be stopped and started *)
(* by another request meanwhile.  The page keeps what was last read and,   *)
(* in the browser, the commands last sent.  The bot's client is external.  *)
(***************************************************************************)
EXTENDS Naturals, FiniteSets, Sequences, ListOps

CONSTANTS
    LiveSlots,          \* calls under way at once
    ItemSlots, Hotbar,  \* the inventory, and the part of it an item can be held from
    MaxAge,             \* ACTIVE_RESULT_MAX_AGE_MS, in ticks
    MaxLiveTime, MaxPressed, MaxUnitStops    \* bounds

ASSUME LiveAssumption == Hotbar \subseteq ItemSlots /\ {MaxAge, MaxLiveTime, MaxPressed, MaxUnitStops} \subseteq Nat

VARIABLES
    liveNow,
    liveBot,           \* its unit, its row's status, how often it was stopped and that taken note of
    activeReadAt,  \* when it was last found active, and in which run
    activeCheck,   \* the check that calls may join
    asked,         \* by check: unasked, or what the host said and in which run
    passed,        \* by slot: the run in which its call came, and that of the answer it was let through on
    live,          \* by slot: the call under way
    items, held,   \* what the client has
    acted,         \* what the client did
    audited,       \* what was recorded as done
    consoleShows,         \* the page: the inventory last read, the history of commands, whether it is still open
    storedHistory,        \* the history kept in the browser
    pressed

activeVars == <<activeReadAt, activeCheck, asked, passed>>
itemVars == <<items, held, acted, audited>>
pageVars == <<consoleShows, storedHistory>>
liveVars == <<liveNow, liveBot, live, activeVars, itemVars, pageVars, pressed>>

NotRead == [at |-> 0, run |-> 0]
NoCheck == 0
IdleCall == [at |-> "idle"]
HistoryLimit == 8

-----------------------------------------------------------------------------
(* What the client answers, and what is made of it. *)
Bodies == {"fine", "frames", "empty", "not json", "rpc error", "tool error", "refused", "odd"}
\* dataFramesOf, responseFrom: the last frame of a stream counts.
ResponseFrom(body) == IF body \in {"empty", "not json", "rpc error"} THEN "protocol error" ELSE "result"
\* toolResultOf, unwrapEnvelope
ToolResultOf(body) ==
    CASE body = "tool error" -> "protocol error"
      [] body = "refused" -> "refusal"
      [] OTHER -> "value"
\* sessionStatusFrom, chatHistoryFrom, recentEventsFrom and their like: a shape they do not know is refused whole.
ReadingFrom(body) == IF body = "odd" THEN "protocol error" ELSE "value"
AnswerOf(body) ==
    IF ResponseFrom(body) # "result" THEN ResponseFrom(body)
    ELSE IF ToolResultOf(body) # "value" THEN ToolResultOf(body) ELSE ReadingFrom(body)
\* inventoryFrom: slots with something in them.
InventoryFrom(have) == [s \in {s \in ItemSlots : have[s] > 0} |-> have[s]]
CanHoldFromSlot(s) == s \in Hotbar

-----------------------------------------------------------------------------
(* Commands. *)
Commands == {"chat", "login", "disallowed"}     \* an ordinary line, one with a password, a client command not offered
\* maskCommandCredentials, maskUnambiguousSecrets
CarriesSecret(command) == command = "login"
Redacted(command) == IF CarriesSecret(command) THEN "masked" ELSE command
\* controlLine, sendableLine
Sendable(command) == command # "disallowed"
Others(history, command) == Filtered(history, [i \in DOMAIN history |-> history[i] # command])
LatestFew(history) == SubSeq(history, 1, IF Len(history) < HistoryLimit THEN Len(history) ELSE HistoryLimit)
\* Mutation of RememberCommand: whatever was sent is remembered.
RememberCommandAny(history, command) == LatestFew(<<command>> \o Others(history, command))
RememberCommand(history, command) ==
    IF CarriesSecret(command) THEN history ELSE LatestFew(<<command>> \o Others(history, command))

-----------------------------------------------------------------------------
(* A button pressed, or a reading refreshed. *)
Press(r, call) ==
    /\ live[r] = IdleCall /\ pressed < MaxPressed /\ consoleShows.open
    /\ pressed' = pressed + 1
    /\ live' = [live EXCEPT ![r] = call]
    /\ UNCHANGED <<liveNow, liveBot, activeVars, itemVars, pageVars>>

ReadLive(r) == Press(r, [at |-> "require running", kind |-> "read", check |-> NoCheck])
\* Drop one, or all that were last seen in a slot.
DropItem(r, s) ==
    /\ s \in DOMAIN consoleShows.inventory
    /\ \E n \in {1, consoleShows.inventory[s]} :
         Press(r, [at |-> "require running", kind |-> "drop", slot |-> s, count |-> n, check |-> NoCheck])
SelectHeldItem(r, s) ==
    /\ s \in DOMAIN consoleShows.inventory /\ CanHoldFromSlot(s)
    /\ Press(r, [at |-> "require running", kind |-> "hold", slot |-> s, check |-> NoCheck])
SendLine(r, command) ==
    /\ liveBot.status = "running"
    /\ Press(r, [at |-> "send line", kind |-> "command", command |-> command, check |-> NoCheck])

EndLive(r) == [live EXCEPT ![r] = IdleCall]

-----------------------------------------------------------------------------
(* requireRunning *)
RecentlyActive == activeReadAt # NotRead /\ liveNow - activeReadAt.at < MaxAge

RequireRunning(r) ==
    /\ live[r].at = "require running"
    /\ IF RecentlyActive
       THEN /\ live' = [live EXCEPT ![r].at = "handshake"]
            /\ passed' = [passed EXCEPT ![r] = [since |-> liveBot.run, on |-> activeReadAt.run]]
            /\ UNCHANGED <<activeReadAt, activeCheck, asked>>
       ELSE LET fresh == Len(asked) + 1
                check == IF activeCheck = NoCheck THEN fresh ELSE activeCheck
            IN  /\ activeReadAt' = NotRead
                /\ activeCheck' = check
                /\ asked' = IF check = fresh THEN Append(asked, [said |-> "unasked", run |-> 0]) ELSE asked
                /\ live' = [live EXCEPT ![r].at = "waiting", ![r].check = check]
                /\ passed' = [passed EXCEPT ![r] = [since |-> liveBot.run, on |-> 0]]
    /\ UNCHANGED <<liveNow, liveBot, itemVars, pageVars, pressed>>

\* The host is asked whether the unit is active.
CheckAsked(c) ==
    /\ asked[c].said = "unasked"
    /\ asked' = [asked EXCEPT ![c] = [said |-> liveBot.unit, run |-> liveBot.run]]
    /\ UNCHANGED <<liveNow, liveBot, activeReadAt, activeCheck, passed, live, itemVars, pageVars, pressed>>

\* The answer comes back, or the connection is lost: every call that waits goes on or fails, and an answer
\* that nobody could join any more is not remembered.
\* Mutation of Remembered: the answer is remembered whether or not the check was given up meanwhile.
RememberedAnyway(c) == asked[c].said = "active"
Remembered(c) == asked[c].said = "active" /\ activeCheck = c

Waits(r, c) == live[r].at = "waiting" /\ live[r].check = c
LetThrough(c, lost) == ~lost /\ asked[c].said = "active"

CheckSettles(c, lost) ==
    /\ asked[c].said \in {"active", "inactive"} \/ (lost /\ asked[c].said = "unasked")
    /\ asked' = [asked EXCEPT ![c].said = "settled"]
    /\ activeReadAt' = IF ~lost /\ Remembered(c) THEN [at |-> liveNow, run |-> asked[c].run] ELSE activeReadAt
    /\ activeCheck' = IF activeCheck = c THEN NoCheck ELSE activeCheck
    /\ live' = [r \in LiveSlots |->
         IF ~Waits(r, c) THEN live[r] ELSE IF LetThrough(c, lost) THEN [live[r] EXCEPT !.at = "handshake"] ELSE IdleCall]
    /\ passed' = [r \in LiveSlots |->
         IF Waits(r, c) /\ LetThrough(c, lost) THEN [passed[r] EXCEPT !.on = asked[c].run] ELSE passed[r]]
    /\ UNCHANGED <<liveNow, liveBot, itemVars, pageVars, pressed>>

-----------------------------------------------------------------------------
(* callTool *)
\* Initialised and notified; a client that refuses the token, answers what cannot be read or too much, or does
\* not answer, ends the call.
Handshake(r) ==
    /\ live[r].at = "handshake"
    /\ \/ liveBot.unit = "active" /\ live' = [live EXCEPT ![r].at = "call"]
       \/ live' = EndLive(r)
    /\ UNCHANGED <<liveNow, liveBot, activeVars, itemVars, pageVars, pressed>>

\* The client does what it is asked, when it can.
ClientActs(r) ==
    LET c == live[r] IN
    /\ c.at = "call" /\ liveBot.unit = "active"
    /\ CASE c.kind = "read" -> live' = [live EXCEPT ![r] = [at |-> "answer", kind |-> "read", inventory |-> InventoryFrom(items)]]
                               /\ UNCHANGED <<items, held, acted>>
         [] c.kind = "drop" /\ items[c.slot] >= c.count ->
              /\ items' = [items EXCEPT ![c.slot] = @ - c.count]
              /\ acted' = [acted EXCEPT !.dropped = @ + 1]
              /\ live' = [live EXCEPT ![r].at = "answer"] /\ UNCHANGED held
         [] c.kind = "hold" /\ items[c.slot] > 0 ->
              /\ held' = c.slot
              /\ acted' = [acted EXCEPT !.selected = @ + 1]
              /\ live' = [live EXCEPT ![r].at = "answer"] /\ UNCHANGED items
         [] OTHER -> live' = EndLive(r) /\ UNCHANGED <<items, held, acted>>     \* refused
    /\ UNCHANGED <<liveNow, liveBot, activeVars, audited, pageVars, pressed>>

\* What was read is shown, or the page says nothing is known; what was done is recorded before the page hears of it.
LiveAnswers(r, body) ==
    LET c == live[r] IN
    /\ c.at = "answer"
    /\ IF AnswerOf(body) # "value" THEN live' = EndLive(r) /\ UNCHANGED <<consoleShows, audited>>
       ELSE IF c.kind = "read"
            THEN consoleShows' = [consoleShows EXCEPT !.inventory = c.inventory] /\ live' = EndLive(r) /\ UNCHANGED audited
            ELSE live' = [live EXCEPT ![r].at = "record"] /\ UNCHANGED <<consoleShows, audited>>
    /\ UNCHANGED <<liveNow, liveBot, activeVars, items, held, acted, storedHistory, pressed>>

LiveLost(r) ==
    /\ live[r].at \in {"call", "answer", "send line", "record"}
    /\ live' = EndLive(r)
    /\ UNCHANGED <<liveNow, liveBot, activeVars, itemVars, pageVars, pressed>>

\* sendCommand: the line goes into the pipe the client reads.
LineSent(r) ==
    /\ live[r].at = "send line"
    /\ IF Sendable(live[r].command) /\ liveBot.unit = "active"
       THEN acted' = [acted EXCEPT !.sent = @ + 1] /\ live' = [live EXCEPT ![r].at = "record"]
       ELSE live' = EndLive(r) /\ UNCHANGED acted
    /\ UNCHANGED <<liveNow, liveBot, activeVars, items, held, audited, pageVars, pressed>>

\* dropInventoryItem, selectHeldItem: the audit entry of what was done.
ActionRecorded(r) ==
    /\ live[r].at = "record" /\ live[r].kind # "command"
    /\ audited' = Append(audited, live[r].kind)
    /\ live' = EndLive(r)
    /\ UNCHANGED <<liveNow, liveBot, activeVars, items, held, acted, pageVars, pressed>>

\* sendCommand: the audit entry; the page then remembers the command.
CommandRecorded(r) ==
    LET c == live[r] IN
    /\ c.at = "record" /\ c.kind = "command"
    /\ audited' = Append(audited, Redacted(c.command))
    /\ live' = EndLive(r)
    /\ IF consoleShows.open
       THEN LET next == RememberCommand(consoleShows.history, c.command)
            IN  consoleShows' = [consoleShows EXCEPT !.history = next] /\ storedHistory' = next
       ELSE UNCHANGED <<pageVars>>
    /\ UNCHANGED <<liveNow, liveBot, activeVars, items, held, acted, pressed>>

-----------------------------------------------------------------------------
(* The rest of the system. *)
\* Another request stops the bot, and then forgets what was known of it.
UnitStops ==
    /\ liveBot.unit = "active" /\ liveBot.run < MaxUnitStops
    /\ liveBot' = [liveBot EXCEPT !.unit = "inactive"]
    /\ UNCHANGED <<liveNow, activeVars, live, itemVars, pageVars, pressed>>
ForgetActive ==
    /\ liveBot.unit = "inactive" /\ liveBot.status = "running"
    /\ liveBot' = [liveBot EXCEPT !.status = "stopped", !.run = @ + 1]
    /\ activeReadAt' = NotRead /\ activeCheck' = NoCheck
    /\ UNCHANGED <<liveNow, asked, passed, live, itemVars, pageVars, pressed>>
UnitStarts ==
    /\ liveBot.status = "stopped"
    /\ liveBot' = [liveBot EXCEPT !.unit = "active", !.status = "running"]
    /\ UNCHANGED <<liveNow, activeVars, live, itemVars, pageVars, pressed>>

\* The player picks things up.
PickUp(s) ==
    /\ liveBot.unit = "active" /\ items[s] < 1
    /\ items' = [items EXCEPT ![s] = @ + 1]
    /\ UNCHANGED <<liveNow, liveBot, activeVars, live, held, acted, audited, pageVars, pressed>>

\* Signing out clears the history before the server is asked, and leaves the page after it answered.
SignOutClears ==
    /\ consoleShows.open /\ ~consoleShows.leaving
    /\ storedHistory' = <<>> /\ consoleShows' = [consoleShows EXCEPT !.leaving = TRUE]
    /\ UNCHANGED <<liveNow, liveBot, activeVars, live, itemVars, pressed>>
SignOutLeaves ==
    /\ consoleShows.leaving /\ consoleShows.open
    /\ consoleShows' = [consoleShows EXCEPT !.open = FALSE, !.history = <<>>]
    /\ UNCHANGED <<liveNow, liveBot, activeVars, live, itemVars, storedHistory, pressed>>

LiveTick ==
    /\ liveNow < MaxLiveTime /\ liveNow' = liveNow + 1
    /\ UNCHANGED <<liveBot, activeVars, live, itemVars, pageVars, pressed>>

LiveInit ==
    /\ liveNow = 1
    /\ liveBot = [unit |-> "active", status |-> "running", run |-> 1]
    /\ activeReadAt = NotRead /\ activeCheck = NoCheck /\ asked = <<>>
    /\ passed = [r \in LiveSlots |-> [since |-> 0, on |-> 0]]
    /\ live = [r \in LiveSlots |-> IdleCall]
    /\ items = [s \in ItemSlots |-> 2] /\ held = 0
    /\ acted = [dropped |-> 0, selected |-> 0, sent |-> 0] /\ audited = <<>>
    /\ consoleShows = [inventory |-> <<>>, history |-> <<>>, open |-> TRUE, leaving |-> FALSE] /\ storedHistory = <<>>
    /\ pressed = 0

LiveNext ==
    \/ \E r \in LiveSlots :
         \/ ReadLive(r) \/ RequireRunning(r) \/ Handshake(r) \/ ClientActs(r) \/ LiveLost(r) \/ LineSent(r)
         \/ ActionRecorded(r) \/ CommandRecorded(r)
         \/ \E s \in ItemSlots : DropItem(r, s) \/ SelectHeldItem(r, s)
         \/ \E c \in Commands : SendLine(r, c)
         \/ \E b \in Bodies : LiveAnswers(r, b)
    \/ \E c \in DOMAIN asked : CheckAsked(c) \/ \E lost \in BOOLEAN : CheckSettles(c, lost)
    \/ \E s \in ItemSlots : PickUp(s)
    \/ UnitStops \/ ForgetActive \/ UnitStarts \/ SignOutClears \/ SignOutLeaves \/ LiveTick

LiveSpec == LiveInit /\ [][LiveNext]_liveVars

-----------------------------------------------------------------------------
(* Properties. *)

Count(what) == Cardinality({i \in DOMAIN audited : audited[i] = what})

\* Once the manager has stopped a bot and taken note of it, what is remembered of it is of the run it is in, and
\* no call that comes afterwards is let through on an answer from before, remembered or being waited for.  (A
\* call that already waited for that answer does go on with it.)  What the audit log says was done was done,
\* once per press; and a password typed into the console is kept neither in the log nor in the browser.
LiveCallsAreSound ==
    /\ activeReadAt # NotRead => activeReadAt.run = liveBot.run
    /\ \A r \in LiveSlots : live[r].at \in {"handshake", "call"} => passed[r].on >= passed[r].since
    /\ Count("drop") <= acted.dropped /\ Count("hold") <= acted.selected
    /\ Count("chat") + Count("masked") <= acted.sent
    /\ acted.dropped + acted.selected + acted.sent <= pressed
    /\ \A i \in DOMAIN audited : ~CarriesSecret(audited[i])
    /\ \A i \in DOMAIN storedHistory : ~CarriesSecret(storedHistory[i])
=============================================================================
