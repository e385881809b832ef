---------------------------- MODULE Destinations ----------------------------
(***************************************************************************)
(* The places alerts are sent to, as the alerts page manages them: adding, *)
(* editing, turning on and off, removing and testing a destination, issuing*)
(* a new signing key whose predecessor keeps signing for a while, and      *)
(* sending again or dismissing what did not arrive.                        *)
(* A request is a READ COMMITTED transaction.  Editing and rotating read   *)
(* the row, work out the sealed settings and write them back, with nothing *)
(* locked in between; from its first write to its commit a transaction     *)
(* holds the row, so that stretch is one step.  Testing takes an advisory  *)
(* lock before it counts.                                                  *)
(***************************************************************************)
EXTENDS Naturals, FiniteSets, TLC

CONSTANTS
    AlertPages,        \* open alerts pages, each with at most one request under way
    Dests, Messages,   \* identities of destinations and of deliveries
    Existing,          \* the webhook made before the pages are opened
    Addresses,         \* addresses a form may hold: [host, sig, query, egress]
    Kinds,             \* kinds of destination offered
    TeamsHosts,        \* extra hosts accepted for a Teams workflow
    Overlap,           \* how long an old signing key keeps signing (ROTATION_OVERLAP_MS)
    TestWindow, TestsPerWindow, TestsPerOrganisation,
    FailuresPerPage,   \* FAILURES_PAGE_SIZE
    MaxAlertTime, MaxKeys, MaxPresses   \* bounds

Unset == "unset"

ASSUME DestAssumption ==
    /\ Existing \in Dests /\ Unset \notin AlertPages /\ IsFiniteSet(Messages)
    /\ {Overlap, TestWindow, TestsPerWindow, TestsPerOrganisation, MaxAlertTime, MaxKeys, MaxPresses} \subseteq Nat
    /\ FailuresPerPage \in Nat \ {0} /\ TestsPerWindow > 0

VARIABLES
    dests,        \* destination rows with their subscriptions, NoDest where there is none
    deliveries,   \* deliveries: whose, a test or not, state and when created
    requests,     \* by page: the transaction under way
    testLock,     \* who holds the advisory lock on tests
    pages,        \* by page: what is open, the form, the test watched, the failures shown
    lastRotation, \* history, by destination: the latest rotation committed
    overwritten,  \* history: destinations whose row was written from a stale read
    alertTime, keysMade, presses

destVars == <<dests, deliveries, requests, testLock, pages, lastRotation, overwritten, alertTime, keysMade, presses>>

NoDest == [kind |-> "none"]
NoMessage == [state |-> "none"]
NoRequest == [op |-> "none"]
NoAddress == [host |-> "blank", sig |-> FALSE, query |-> FALSE, egress |-> FALSE]
Closed == [what |-> "nothing"]
BlankForm == [kind |-> "webhook", address |-> NoAddress, rest |-> FALSE, chosen |-> FALSE]

-----------------------------------------------------------------------------
\* configurableUrl: which kinds post to an address the operator gives.
PostsToAUrl == {"webhook", "discord", "slack", "teams"}
HasAServer == {"gotify", "ntfy"}

\* verifyProviderUrl
VerifyProviderUrl(kind, address) ==
    /\ kind = "discord" => address.host = "discord"
    /\ kind = "slack" => address.host = "slack"
    /\ kind = "teams" => address.host \in {"teams"} \cup TeamsHosts /\ address.sig
    /\ kind \in HasAServer => ~address.query

\* checkUrl; the verdict of the egress policy is worked out in MessageSenders.
CheckUrl(kind, address) ==
    /\ kind \in PostsToAUrl \cup HasAServer => VerifyProviderUrl(kind, address)
    /\ kind \in PostsToAUrl \cup HasAServer \cup {"email"} => address.egress

\* createDestinationInput, editDestinationInput
InputParses(form) ==
    /\ form.chosen
    /\ form.kind \in PostsToAUrl \cup HasAServer \cup {"email"} => form.address # NoAddress
    /\ form.kind \notin PostsToAUrl => form.rest

\* storedFor: only a webhook has keys.
StoredFor(form, key, previous) ==
    [kind |-> form.kind, address |-> form.address, key |-> IF form.kind = "webhook" THEN key ELSE 0,
     prev |-> IF form.kind = "webhook" THEN previous.key ELSE 0,
     until |-> IF form.kind = "webhook" THEN previous.until ELSE 0]

\* insertDestination, updateDestination: what is stored, and whether it is enabled, which an update leaves alone.
Row(stored, on) == [f \in DOMAIN stored \cup {"on"} |-> IF f = "on" THEN on ELSE stored[f]]
NoPrevious == [key |-> 0, until |-> 0]
SettingsOf(row) == [kind |-> row.kind, address |-> row.address, key |-> row.key, prev |-> row.prev, until |-> row.until]

\* keptPrevious: an edit keeps the old key while it may still sign.
\* Mutation of KeptPrevious: an edit keeps only the key in force.
KeptPreviousDropped(row) == NoPrevious
KeptPrevious(row) ==
    IF row.prev # 0 /\ row.until > alertTime THEN [key |-> row.prev, until |-> row.until] ELSE NoPrevious

\* usableSigningSecrets
UsableSigningSecrets(row) ==
    {row.key} \cup (IF row.prev # 0 /\ row.until > alertTime THEN {row.prev} ELSE {})

-----------------------------------------------------------------------------
(* Transactions. *)
Start(p, request) ==
    /\ requests[p] = NoRequest
    /\ presses < MaxPresses /\ presses' = presses + 1
    /\ requests' = [requests EXCEPT ![p] = request]

Answer(p, op, ok) == requests' = [requests EXCEPT ![p] = [op |-> op, stage |-> "answered", ok |-> ok]]

\* findDestination: the first statement of editing, rotating and testing.
ReadRow(p) ==
    LET r == requests[p] IN
    /\ r.op \in {"edit", "rotate", "test"} /\ r.stage = "asked"
    /\ LET row == dests[r.of]
           refused == \/ row = NoDest
                      \/ r.op = "edit" /\ (row.kind # r.form.kind \/ ~InputParses(r.form) \/ ~CheckUrl(r.form.kind, r.form.address))
                      \/ r.op = "rotate" /\ row.kind # "webhook"
                      \/ r.op = "test" /\ ~row.on
       IN  IF refused THEN Answer(p, r.op, FALSE)
           ELSE requests' = [requests EXCEPT ![p] = [r EXCEPT !.stage = "read", !.row = row]]
    /\ UNCHANGED <<dests, deliveries, testLock, pages, lastRotation, overwritten, alertTime, keysMade, presses>>

\* create
CreateDestination(p) ==
    LET r == requests[p] IN
    /\ r.op = "create" /\ r.stage = "asked"
    /\ IF InputParses(r.form) /\ CheckUrl(r.form.kind, r.form.address)
       THEN /\ keysMade < MaxKeys
            /\ \E d \in Dests :
                 /\ dests[d] = NoDest
                 /\ dests' = [dests EXCEPT ![d] = Row(StoredFor(r.form, keysMade + 1, NoPrevious), TRUE)]
                 /\ lastRotation' = [lastRotation EXCEPT ![d] = [key |-> dests'[d].key, old |-> 0, at |-> 0]]
                 /\ overwritten' = overwritten \ {d}
                 /\ Answer(p, "create", TRUE)
            /\ keysMade' = keysMade + 1
       ELSE Answer(p, "create", FALSE) /\ UNCHANGED <<dests, lastRotation, overwritten, keysMade>>
    /\ UNCHANGED <<deliveries, testLock, pages, alertTime, presses>>

\* edit, from updateDestination to the commit
EditWrites(p) ==
    LET r == requests[p]
        saved == StoredFor(r.form, IF r.row.kind = "webhook" THEN r.row.key ELSE 0, KeptPrevious(r.row))
    IN
    /\ r.op = "edit" /\ r.stage = "read"
    /\ IF dests[r.of] = NoDest
       THEN Answer(p, "edit", FALSE) /\ UNCHANGED <<dests, overwritten>>
       ELSE /\ dests' = [dests EXCEPT ![r.of] = Row(saved, @.on)]
            /\ overwritten' = overwritten \cup (IF SettingsOf(r.row) # SettingsOf(dests[r.of]) THEN {r.of} ELSE {})
            /\ Answer(p, "edit", TRUE)
    /\ UNCHANGED <<deliveries, testLock, pages, lastRotation, alertTime, keysMade, presses>>

\* rotateSecret, likewise; a row deleted meanwhile leaves the key revealed all the same.
RotateWrites(p) ==
    LET r == requests[p]
        saved == StoredFor(r.row, keysMade + 1, [key |-> r.row.key, until |-> alertTime + Overlap])
    IN
    /\ r.op = "rotate" /\ r.stage = "read" /\ keysMade < MaxKeys
    /\ keysMade' = keysMade + 1
    /\ IF dests[r.of] = NoDest
       THEN UNCHANGED <<dests, lastRotation, overwritten>>
       ELSE /\ dests' = [dests EXCEPT ![r.of] = Row(saved, @.on)]
            /\ lastRotation' = [lastRotation EXCEPT ![r.of] = [key |-> saved.key, old |-> r.row.key, at |-> alertTime]]
            /\ overwritten' = IF SettingsOf(r.row) # SettingsOf(dests[r.of]) THEN overwritten \cup {r.of} ELSE overwritten
    /\ Answer(p, "rotate", TRUE)
    /\ UNCHANGED <<deliveries, testLock, pages, alertTime, presses>>

\* setEnabled, with abandonQueuedFor
SetEnabled(p) ==
    LET r == requests[p] IN
    /\ r.op = "enabled" /\ r.stage = "asked"
    /\ IF dests[r.of] = NoDest
       THEN Answer(p, r.op, FALSE) /\ UNCHANGED <<dests, deliveries>>
       ELSE /\ dests' = [dests EXCEPT ![r.of].on = r.on]
            /\ deliveries' = [t \in Messages |->
                 IF deliveries[t].state = "queued" /\ deliveries[t].of = r.of /\ ~r.on
                 THEN [deliveries[t] EXCEPT !.state = "abandoned"] ELSE deliveries[t]]
            /\ Answer(p, r.op, TRUE)
    /\ UNCHANGED <<testLock, pages, lastRotation, overwritten, alertTime, keysMade, presses>>

\* remove: the destination's deliveries and subscriptions go with it.
RemoveDestination(p) ==
    LET r == requests[p] IN
    /\ r.op = "remove" /\ r.stage = "asked"
    /\ Answer(p, r.op, dests[r.of] # NoDest)
    /\ dests' = [dests EXCEPT ![r.of] = NoDest]
    /\ deliveries' = [t \in Messages |->
         IF deliveries[t] # NoMessage /\ deliveries[t].of = r.of THEN NoMessage ELSE deliveries[t]]
    /\ UNCHANGED <<testLock, pages, lastRotation, overwritten, alertTime, keysMade, presses>>

\* retry and dismiss: one conditional update each.
RetryDelivery(p) ==
    LET r == requests[p] IN
    /\ r.op = "retry" /\ r.stage = "asked"
    /\ LET may == /\ deliveries[r.of].state \in {"failed", "abandoned"}
                  /\ dests[deliveries[r.of].of] # NoDest /\ dests[deliveries[r.of].of].on
       IN  /\ deliveries' = IF may THEN [deliveries EXCEPT ![r.of].state = "queued"] ELSE deliveries
           /\ Answer(p, r.op, may)
    /\ UNCHANGED <<dests, testLock, pages, lastRotation, overwritten, alertTime, keysMade, presses>>

DismissDelivery(p) ==
    LET r == requests[p] IN
    /\ r.op = "dismiss" /\ r.stage = "asked"
    /\ deliveries' = IF deliveries[r.of].state = "failed" THEN [deliveries EXCEPT ![r.of].state = "abandoned"] ELSE deliveries
    /\ Answer(p, r.op, deliveries[r.of].state = "failed")
    /\ UNCHANGED <<dests, testLock, pages, lastRotation, overwritten, alertTime, keysMade, presses>>

-----------------------------------------------------------------------------
(* Testing a destination. *)

\* lockTestsFor: held until the transaction ends.
\* Mutation of LockTests: nothing is locked before counting.
LockTestsNot(p) ==
    /\ requests[p].op = "test" /\ requests[p].stage = "read"
    /\ requests' = [requests EXCEPT ![p].stage = "locked"]
    /\ UNCHANGED <<dests, deliveries, testLock, pages, lastRotation, overwritten, alertTime, keysMade, presses>>
LockTests(p) ==
    /\ requests[p].op = "test" /\ requests[p].stage = "read"
    /\ testLock = Unset
    /\ testLock' = p
    /\ requests' = [requests EXCEPT ![p].stage = "locked"]
    /\ UNCHANGED <<dests, deliveries, pages, lastRotation, overwritten, alertTime, keysMade, presses>>

\* testsSince, throttleExceeded
RecentTests == {t \in Messages : deliveries[t] # NoMessage /\ deliveries[t].test /\ deliveries[t].at + TestWindow >= alertTime}
ThrottleExceeded(d) ==
    \/ Cardinality({t \in RecentTests : deliveries[t].of = d}) >= TestsPerWindow
    \/ Cardinality(RecentTests) >= TestsPerOrganisation

CountTests(p) ==
    LET r == requests[p] IN
    /\ r.op = "test" /\ r.stage = "locked"
    /\ IF ThrottleExceeded(r.of)
       THEN testLock' = Unset /\ Answer(p, "test", FALSE)
       ELSE UNCHANGED testLock /\ requests' = [requests EXCEPT ![p].stage = "counted"]
    /\ UNCHANGED <<dests, deliveries, pages, lastRotation, overwritten, alertTime, keysMade, presses>>

\* createNotification, createDelivery, acceptAlert and the commit; the row's foreign key fails it when the
\* destination is gone, and so does a queue that does not take the job.
CreateTest(p) ==
    LET r == requests[p] IN
    /\ r.op = "test" /\ r.stage = "counted"
    /\ testLock' = Unset
    /\ \/ /\ dests[r.of] # NoDest
          /\ \E t \in Messages :
               /\ deliveries[t] = NoMessage
               /\ deliveries' = [deliveries EXCEPT ![t] = [of |-> r.of, test |-> TRUE, state |-> "queued", at |-> alertTime]]
               /\ requests' = [requests EXCEPT ![p] = [op |-> "test", stage |-> "answered", ok |-> TRUE, delivery |-> t]]
       \/ Answer(p, "test", FALSE) /\ UNCHANGED deliveries
    /\ UNCHANGED <<dests, pages, lastRotation, overwritten, alertTime, keysMade, presses>>

-----------------------------------------------------------------------------
(* The page. *)
Unchanging == UNCHANGED <<dests, deliveries, testLock, lastRotation, overwritten, alertTime, keysMade>>

\* Opening a dialog: add, edit (a fresh form of the row's kind), rotate, disable, remove.
OpenDialog(p) ==
    /\ pages[p].open = Closed
    /\ \/ pages' = [pages EXCEPT ![p].open = [what |-> "create"], ![p].form = BlankForm]
       \/ \E d \in Dests :
            /\ dests[d] # NoDest
            /\ \/ pages' = [pages EXCEPT ![p].open = [what |-> "edit", of |-> d],
                                         ![p].form = [BlankForm EXCEPT !.kind = dests[d].kind, !.chosen = TRUE]]
               \/ /\ dests[d].kind = "webhook"
                  /\ pages' = [pages EXCEPT ![p].open = [what |-> "rotate", of |-> d]]
               \/ dests[d].on /\ pages' = [pages EXCEPT ![p].open = [what |-> "disable", of |-> d]]
               \/ pages' = [pages EXCEPT ![p].open = [what |-> "remove", of |-> d]]
    /\ presses < MaxPresses /\ presses' = presses + 1
    /\ UNCHANGED requests /\ Unchanging

CloseDialog(p) ==
    /\ pages[p].open # Closed
    /\ pages' = [pages EXCEPT ![p].open = Closed]
    /\ UNCHANGED <<requests, presses>> /\ Unchanging

\* chooseKind empties every field of the form but its name and subscriptions.
ChooseKind(p) ==
    /\ pages[p].open.what = "create"
    /\ \E kind \in Kinds : pages' = [pages EXCEPT ![p].form = [@ EXCEPT !.kind = kind, !.address = NoAddress, !.rest = FALSE]]
    /\ UNCHANGED <<requests, presses>> /\ Unchanging

\* The fields shown for the kind, and the alerts to subscribe to.
FillIn(p) ==
    /\ pages[p].open.what \in {"create", "edit"}
    /\ \E address \in IF pages[p].form.kind \in PostsToAUrl \cup HasAServer \cup {"email"} THEN Addresses ELSE {NoAddress} :
         pages' = [pages EXCEPT ![p].form =
                     [@ EXCEPT !.address = address, !.rest = @ \/ pages[p].form.kind \notin PostsToAUrl, !.chosen = TRUE]]
    /\ UNCHANGED <<requests, presses>> /\ Unchanging

\* handleSubmit, configured; the confirm buttons of the dialogs.
\* Required fields and the disabled button keep an incomplete form back.
Submit(p) ==
    LET page == pages[p] open == pages[p].open IN
    /\ \/ open.what = "create" /\ InputParses(page.form) /\ Start(p, [op |-> "create", stage |-> "asked", form |-> page.form])
       \/ /\ open.what = "edit" /\ InputParses(page.form)
          /\ Start(p, [op |-> "edit", stage |-> "asked", of |-> open.of, form |-> page.form, row |-> NoDest])
       \/ open.what = "rotate" /\ Start(p, [op |-> "rotate", stage |-> "asked", of |-> open.of, row |-> NoDest])
       \/ open.what = "disable" /\ Start(p, [op |-> "enabled", stage |-> "asked", of |-> open.of, on |-> FALSE])
       \/ open.what = "remove" /\ Start(p, [op |-> "remove", stage |-> "asked", of |-> open.of])
    /\ UNCHANGED pages /\ Unchanging

\* The buttons of a row and of an alert that did not arrive.
PressButton(p) ==
    /\ pages[p].open = Closed
    /\ \/ \E d \in Dests :
            /\ dests[d] # NoDest
            /\ \/ Start(p, [op |-> "test", stage |-> "asked", of |-> d, row |-> NoDest])
               \/ ~dests[d].on /\ Start(p, [op |-> "enabled", stage |-> "asked", of |-> d, on |-> TRUE])
       \/ \E t \in Messages, op \in {"retry", "dismiss"} :
            /\ deliveries[t].state = "failed"
            /\ Start(p, [op |-> op, stage |-> "asked", of |-> t])
    /\ UNCHANGED pages /\ Unchanging

\* onSuccess: the answer closes the dialog of its own kind, whatever destination that shows by now.
Failures == Cardinality({t \in Messages : deliveries[t].state = "failed"})
\* Mutation of LastPage: a full last page is taken to be followed by another.
LastPagePlus(total) == (total \div FailuresPerPage) * FailuresPerPage
LastPage(total) == IF total = 0 THEN 0 ELSE ((total - 1) \div FailuresPerPage) * FailuresPerPage
Clamped(page) == IF page.offset > LastPage(page.total) THEN [page EXCEPT !.offset = LastPage(page.total)] ELSE page

OnAnswer(p) ==
    LET r == requests[p]
        dialog == IF r.op = "enabled" THEN "disable" ELSE r.op
        shut == IF r.ok /\ pages[p].open.what = dialog THEN [pages[p] EXCEPT !.open = Closed] ELSE pages[p]
        seen == IF r.ok /\ r.op = "test" THEN [shut EXCEPT !.testing = r.delivery, !.gaveUp = FALSE] ELSE shut
    IN
    /\ r.op # "none" /\ r.stage = "answered"
    /\ pages' = [pages EXCEPT ![p] = IF r.ok /\ r.op # "test" THEN Clamped([seen EXCEPT !.total = Failures]) ELSE seen]
    /\ requests' = [requests EXCEPT ![p] = NoRequest]
    /\ UNCHANGED presses /\ Unchanging

\* shouldKeepPolling, testOutcomeOf, and the refresh once a test has finished.
TestFinished(t) == deliveries[t].state \in {"delivered", "failed", "abandoned"}
PollTest(p) ==
    /\ pages[p].testing # Unset /\ ~pages[p].gaveUp
    /\ \/ pages' = [pages EXCEPT ![p].gaveUp = TRUE]
       \/ /\ TestFinished(pages[p].testing)
          /\ pages' = [pages EXCEPT ![p] = Clamped([@ EXCEPT !.total = Failures, !.testing = Unset])]
    /\ UNCHANGED <<requests, presses>> /\ Unchanging

\* failures: fetched again on focus; Previous and Next.
TurnPage(p) ==
    /\ \/ pages' = [pages EXCEPT ![p] = Clamped([@ EXCEPT !.total = Failures])]
       \/ pages[p].offset > 0 /\ pages' = [pages EXCEPT ![p].offset = IF @ > FailuresPerPage THEN @ - FailuresPerPage ELSE 0]
       \/ /\ pages[p].offset + FailuresPerPage < pages[p].total
          /\ pages' = [pages EXCEPT ![p] = Clamped([pages[p] EXCEPT !.offset = @ + FailuresPerPage])]
    /\ UNCHANGED <<requests, presses>> /\ Unchanging

-----------------------------------------------------------------------------
\* The worker settles a delivery (AlertDelivery), and time passes.
SettleDelivery ==
    /\ \E t \in Messages, state \in {"delivered", "failed"} :
         /\ deliveries[t].state = "queued"
         /\ deliveries' = [deliveries EXCEPT ![t].state = state]
    /\ UNCHANGED <<dests, requests, testLock, pages, lastRotation, overwritten, alertTime, keysMade, presses>>

AlertTick ==
    /\ alertTime < MaxAlertTime
    /\ alertTime' = alertTime + 1
    /\ UNCHANGED <<dests, deliveries, requests, testLock, pages, lastRotation, overwritten, keysMade, presses>>

Made ==
    Row(StoredFor([kind |-> "webhook", address |-> CHOOSE a \in Addresses : CheckUrl("webhook", a)], 1, NoPrevious), TRUE)

DestInit ==
    /\ dests = [d \in Dests |-> IF d = Existing THEN Made ELSE NoDest]
    /\ deliveries = [t \in Messages |-> NoMessage]
    /\ requests = [p \in AlertPages |-> NoRequest]
    /\ testLock = Unset
    /\ pages = [p \in AlertPages |->
         [open |-> Closed, form |-> BlankForm, testing |-> Unset, gaveUp |-> FALSE, offset |-> 0, total |-> 0]]
    /\ lastRotation = [d \in Dests |-> [key |-> 1, old |-> 0, at |-> 0]]
    /\ overwritten = {}
    /\ alertTime = 1 /\ keysMade = 1 /\ presses = 0

DestNext ==
    \/ \E p \in AlertPages :
         \/ ReadRow(p) \/ CreateDestination(p) \/ EditWrites(p) \/ RotateWrites(p) \/ SetEnabled(p)
         \/ RemoveDestination(p) \/ RetryDelivery(p) \/ DismissDelivery(p)
         \/ LockTests(p) \/ CountTests(p) \/ CreateTest(p)
         \/ OpenDialog(p) \/ CloseDialog(p) \/ ChooseKind(p) \/ FillIn(p) \/ Submit(p) \/ PressButton(p)
         \/ OnAnswer(p) \/ PollTest(p) \/ TurnPage(p)
    \/ SettleDelivery \/ AlertTick

DestSpec == DestInit /\ [][DestNext]_destVars

-----------------------------------------------------------------------------
(* Properties. *)

\* However many administrators test at once, no more tests of a destination, nor of the organisation, are
\* created within a window than the limits allow: the count and the insert happen under one lock.
TestsAreThrottled ==
    \A t \in Messages : deliveries[t] # NoMessage =>
        LET near == {u \in Messages : /\ deliveries[u] # NoMessage
                                      /\ deliveries[u].at \in deliveries[t].at .. (deliveries[t].at + TestWindow)}
        IN  /\ Cardinality({u \in near : deliveries[u].of = deliveries[t].of}) <= TestsPerWindow
            /\ Cardinality(near) <= TestsPerOrganisation

\* After a rotation what is sent is signed with the new key, and with the old one too until the overlap has
\* passed, through any edit made since -- unless a transaction wrote over the row what it had read earlier.
OldKeyOverlaps ==
    \A d \in Dests :
        dests[d] # NoDest /\ dests[d].kind = "webhook" /\ d \notin overwritten =>
            LET last == lastRotation[d] IN
            /\ last.key \in UsableSigningSecrets(dests[d])
            /\ last.old # 0 /\ alertTime < last.at + Overlap => last.old \in UsableSigningSecrets(dests[d])

\* The failures a page asks for next are among those it was last told of: dismissing the last alert of the last
\* page never leaves it past the end.
FailuresStayInView == \A p \in AlertPages : pages[p].offset = 0 \/ pages[p].offset < pages[p].total

\* What administrators do to destinations at the same time (sendTest, rotate and edit, dismiss) keeps to the limits
\* on tests, to the old key's overlap and to a page that shows the failures there are.
DestinationsAreKept == TestsAreThrottled /\ OldKeyOverlaps /\ FailuresStayInView
=============================================================================
