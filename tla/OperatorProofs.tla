--------------------------- MODULE OperatorProofs ---------------------------
(***************************************************************************)
(* Proofs about what operators set up and who they are, one part after     *)
(* another: alert destinations, members, the preparation of a machine, the *)
(* check for updates, the wizard that enrols a host, and the processes     *)
(* that serve all of it.                                                   *)
(* In Membership, for any number of people, invitations, concurrent        *)
(* requests and faults, the invariant says what each request may count on  *)
(* at each of its steps: which lock it holds, that the account it made is  *)
(* nobody's membership yet, that the removal it has decided on leaves an   *)
(* owner, that the invitations it is about to cancel still wait.           *)
(***************************************************************************)
EXTENDS Destinations, Membership, HostPreparation, UpdateCheck, EnrolWizard, ControlPlane, Loops

-----------------------------------------------------------------------------
RowFields == {"kind", "address", "key", "prev", "until", "on"}
RowFits(row) == DOMAIN row = RowFields /\ row.until \in Nat
DestRowFits(row) == row = NoDest \/ RowFits(row)

\* What is stored of a form or a row, and that it is a row once it says whether it is on (storedFor).
LEMMA StoredRow ==
    ASSUME NEW form, NEW key, NEW previous, previous.until \in Nat, NEW on
    PROVE  LET row == Row(StoredFor(form, key, previous), on)
           IN  /\ RowFits(row) /\ row.kind = form.kind /\ row.on = on
               /\ row.kind = "webhook" => row.key = key /\ row.prev = previous.key /\ row.until = previous.until
  <1> DEFINE stored == StoredFor(form, key, previous)
             row == Row(stored, on)
  <1>1. /\ DOMAIN stored = RowFields \ {"on"} /\ stored.kind = form.kind /\ stored.until \in Nat
        /\ stored.kind = "webhook" => stored.key = key /\ stored.prev = previous.key /\ stored.until = previous.until
      BY DEF StoredFor, RowFields
  <1> HIDE DEF stored
  <1>2. row = [f \in RowFields |-> IF f = "on" THEN on ELSE stored[f]]
      BY <1>1 DEF Row, RowFields
  <1> HIDE DEF row
  <1>3. /\ DOMAIN row = RowFields /\ row.on = on
        /\ \A f \in RowFields \ {"on"} : row[f] = stored[f]
      BY <1>2 DEF RowFields
  <1>4. RowFits(row) /\ row.kind = stored.kind /\ row.key = stored.key /\ row.prev = stored.prev /\ row.until = stored.until
      BY <1>1, <1>3 DEF RowFits, RowFields
  <1>5. QED
      BY <1>1, <1>3, <1>4 DEF row, stored

RequestFits(r) ==
    /\ r.op \in {"edit", "rotate", "test"} /\ r.stage # "answered" =>
          /\ DOMAIN r = {"op", "stage", "of", "row"} \cup (IF r.op = "edit" THEN {"form"} ELSE {}) /\ r.of \in Dests
    /\ r.op \in {"enabled", "remove"} /\ r.stage # "answered" => r.of \in Dests
    /\ r.op \in {"retry", "dismiss"} /\ r.stage # "answered" => r.of \in Messages
    /\ r.op \in {"edit", "rotate"} /\ r.stage = "read" => RowFits(r.row)
    /\ r.op = "edit" /\ r.stage = "read" => r.row.kind = r.form.kind

Tests == [of : Dests, test : {TRUE}, state : {"queued", "delivered", "failed", "abandoned"}, at : Nat]

DestTypes ==
    /\ DOMAIN dests = Dests /\ \A d \in Dests : DestRowFits(dests[d])
    /\ deliveries \in [Messages -> {NoMessage} \cup Tests]
    /\ DOMAIN requests = AlertPages /\ \A p \in AlertPages : RequestFits(requests[p])
    /\ DOMAIN lastRotation = Dests /\ \A d \in Dests : lastRotation[d].at \in Nat
    /\ alertTime \in Nat

\* What is sent is signed with the latest key, and the row has kept the one before for as long as it overlaps.
KeysFollow ==
    \A d \in Dests :
        dests[d] # NoDest /\ dests[d].kind = "webhook" /\ d \notin overwritten =>
            LET last == lastRotation[d] IN
            /\ dests[d].key = last.key
            /\ last.old # 0 /\ alertTime < last.at + Overlap =>
                   dests[d].prev = last.old /\ dests[d].until >= last.at + Overlap

PageFields == {"open", "form", "testing", "gaveUp", "offset", "total"}
DialogFits(open) == open.what \in {"edit", "rotate", "disable", "remove"} => open.of \in Dests
PageFits(it) ==
    /\ DOMAIN it = PageFields /\ DialogFits(it.open) /\ it.offset \in Nat /\ it.total \in Nat
    /\ it.offset = 0 \/ it.offset < it.total
PagesFit == DOMAIN pages = AlertPages /\ \A p \in AlertPages : PageFits(pages[p])

Room == {d \in Dests : ~ThrottleExceeded(d)}

\* The page that counts the tests holds the lock, and what it counted still leaves room.
TestsLocked ==
    \A p \in AlertPages : requests[p].op = "test" =>
        /\ requests[p].stage \in {"locked", "counted"} => testLock = p
        /\ requests[p].stage = "counted" => requests[p].of \in Room
AgesKnown == \A t \in Messages : deliveries[t] # NoMessage => deliveries[t].at <= alertTime

-----------------------------------------------------------------------------
(* The failures shown. *)

\* The last page has a failure on it (lastOffset).
LEMMA LastPageShows ==
    ASSUME NEW total \in Nat
    PROVE  LastPage(total) \in Nat /\ (total > 0 => LastPage(total) < total)
  <1>1. CASE total = 0
      BY <1>1 DEF LastPage
  <1>2. CASE total > 0
    <2> DEFINE q == (total - 1) \div FailuresPerPage
    <2>1. FailuresPerPage \in Nat \ {0} /\ total - 1 \in Nat
        BY <1>2, DestAssumption
    <2>2. q \in Nat /\ q * FailuresPerPage <= total - 1
        BY <2>1
    <2>3. LastPage(total) = q * FailuresPerPage
        BY <1>2 DEF LastPage
    <2> HIDE DEF q
    <2>4. q * FailuresPerPage \in Nat
        BY <2>1, <2>2
    <2>5. QED
        BY <2>2, <2>3, <2>4
  <1>3. QED
      BY <1>1, <1>2

LEMMA ClampedFits ==
    ASSUME NEW it, DOMAIN it = PageFields, DialogFits(it.open), it.offset \in Nat, it.total \in Nat
    PROVE  PageFits(Clamped(it))
  <1>1. LastPage(it.total) \in Nat /\ (it.total > 0 => LastPage(it.total) < it.total)
        /\ (it.total = 0 => LastPage(it.total) = 0)
      BY LastPageShows DEF LastPage
  <1>2. CASE it.offset > LastPage(it.total)
    <2>1. Clamped(it) = [it EXCEPT !.offset = LastPage(it.total)]
        BY <1>2 DEF Clamped
    <2>2. /\ DOMAIN Clamped(it) = PageFields /\ Clamped(it).offset = LastPage(it.total)
          /\ Clamped(it).total = it.total /\ Clamped(it).open = it.open
        BY <2>1 DEF PageFields
    <2>3. QED
        BY <1>1, <2>2 DEF PageFits
  <1>3. CASE ~(it.offset > LastPage(it.total))
      BY <1>1, <1>3 DEF Clamped, PageFits
  <1>4. QED
      BY <1>2, <1>3

LEMMA FailuresCounted == Failures \in Nat
  <1>1. IsFiniteSet({t \in Messages : deliveries[t].state = "failed"})
      BY DestAssumption, FS_Subset
  <1>2. QED
      BY <1>1, FS_CardinalityType DEF Failures

LEMMA PageSteps ==
    ASSUME PagesFit, [DestNext]_destVars PROVE PagesFit'
  <1>1. ASSUME NEW p \in AlertPages, NEW it, PageFits(it), pages' = [pages EXCEPT ![p] = it]
        PROVE  PagesFit'
      BY <1>1 DEF PagesFit
  <1>2. CASE UNCHANGED pages
      BY <1>2 DEF PagesFit
  <1>4. ASSUME NEW p \in AlertPages, OpenDialog(p) \/ CloseDialog(p) \/ ChooseKind(p) \/ FillIn(p) PROVE PagesFit'
    <2>1. DOMAIN pages = AlertPages /\ DOMAIN pages[p] = PageFields /\ DialogFits(pages[p].open)
        BY DEF PagesFit, PageFits
    <2>2. /\ DOMAIN pages' = AlertPages /\ \A q \in AlertPages \ {p} : pages'[q] = pages[q]
          /\ DOMAIN pages'[p] = PageFields /\ pages'[p].offset = pages[p].offset /\ pages'[p].total = pages[p].total
          /\ DialogFits(pages'[p].open)
      <3>1. CASE OpenDialog(p)
        <4>1. ASSUME NEW open, NEW form, DialogFits(open), pages' = [pages EXCEPT ![p].open = open, ![p].form = form]
              PROVE  /\ DOMAIN pages' = AlertPages /\ \A q \in AlertPages \ {p} : pages'[q] = pages[q]
                     /\ DOMAIN pages'[p] = PageFields /\ pages'[p].offset = pages[p].offset
                     /\ pages'[p].total = pages[p].total /\ DialogFits(pages'[p].open)
            BY <2>1, <4>1 DEF PageFields
        <4>2. ASSUME NEW open, DialogFits(open), pages' = [pages EXCEPT ![p].open = open]
              PROVE  /\ DOMAIN pages' = AlertPages /\ \A q \in AlertPages \ {p} : pages'[q] = pages[q]
                     /\ DOMAIN pages'[p] = PageFields /\ pages'[p].offset = pages[p].offset
                     /\ pages'[p].total = pages[p].total /\ DialogFits(pages'[p].open)
            BY <2>1, <4>2 DEF PageFields
        <4>3. DialogFits([what |-> "create"]) /\ \A what : \A d \in Dests : DialogFits([what |-> what, of |-> d])
            BY DEF DialogFits
        <4>5. \/ \E open, form : DialogFits(open) /\ pages' = [pages EXCEPT ![p].open = open, ![p].form = form]
              \/ \E open : DialogFits(open) /\ pages' = [pages EXCEPT ![p].open = open]
          <5>1. CASE pages' = [pages EXCEPT ![p].open = [what |-> "create"], ![p].form = BlankForm]
              BY <4>3, <5>1, Zenon
          <5>2. ASSUME NEW d \in Dests, NEW form,
                       pages' = [pages EXCEPT ![p].open = [what |-> "edit", of |-> d], ![p].form = form]
                PROVE  \E open, f : DialogFits(open) /\ pages' = [pages EXCEPT ![p].open = open, ![p].form = f]
              BY <4>3, <5>2, Zenon
          <5>3. ASSUME NEW d \in Dests, NEW what, pages' = [pages EXCEPT ![p].open = [what |-> what, of |-> d]]
                PROVE  \E open : DialogFits(open) /\ pages' = [pages EXCEPT ![p].open = open]
              BY <4>3, <5>3, Zenon
          <5>4. \/ pages' = [pages EXCEPT ![p].open = [what |-> "create"], ![p].form = BlankForm]
                \/ \E d \in Dests : \E form : pages' = [pages EXCEPT ![p].open = [what |-> "edit", of |-> d], ![p].form = form]
                \/ \E d \in Dests : \E what : pages' = [pages EXCEPT ![p].open = [what |-> what, of |-> d]]
              BY <3>1, Zenon DEF OpenDialog
          <5>5. QED
              BY <5>1, <5>2, <5>3, <5>4, Zenon
        <4>4. QED
            BY <4>1, <4>2, <4>5
      <3>2. CASE CloseDialog(p)
          BY <2>1, <3>2 DEF CloseDialog, PageFields, DialogFits, Closed
      <3>3. CASE ChooseKind(p)
          BY <2>1, <3>3 DEF ChooseKind, PageFields
      <3>4. CASE FillIn(p)
          BY <2>1, <3>4 DEF FillIn, PageFields
      <3>5. QED
          BY <1>4, <3>1, <3>2, <3>3, <3>4
    <2>3. PageFits(pages'[p])
        BY <2>2 DEF PagesFit, PageFits
    <2>4. QED
        BY <2>2, <2>3 DEF PagesFit
  <1>5. ASSUME NEW p \in AlertPages, OnAnswer(p) \/ PollTest(p) \/ TurnPage(p) PROVE PagesFit'
    <2>1. PageFits(pages[p]) /\ Failures \in Nat /\ FailuresPerPage \in Nat \ {0}
        BY FailuresCounted, DestAssumption DEF PagesFit
    <2>2. CASE OnAnswer(p)
      <3> DEFINE r == requests[p]
                 dialog == IF r.op = "enabled" THEN "disable" ELSE r.op
                 shut == IF r.ok /\ pages[p].open.what = dialog THEN [pages[p] EXCEPT !.open = Closed] ELSE pages[p]
                 seen == IF r.ok /\ r.op = "test" THEN [shut EXCEPT !.testing = r.delivery, !.gaveUp = FALSE] ELSE shut
                 told == [seen EXCEPT !.total = Failures]
      <3>1. DOMAIN shut = PageFields /\ shut.offset = pages[p].offset /\ shut.total = pages[p].total /\ DialogFits(shut.open)
          BY <2>1 DEF PageFits, PageFields, DialogFits, Closed
      <3>2. pages' = [pages EXCEPT ![p] = IF r.ok /\ r.op # "test" THEN Clamped(told) ELSE seen]
          BY <2>2 DEF OnAnswer
      <3> HIDE DEF shut
      <3>3. DOMAIN seen = PageFields /\ seen.offset = pages[p].offset /\ seen.total = pages[p].total /\ seen.open = shut.open
          BY <3>1 DEF PageFields
      <3> HIDE DEF seen
      <3>4. DOMAIN told = PageFields /\ told.offset = pages[p].offset /\ told.total = Failures /\ told.open = shut.open
          BY <3>3 DEF PageFields
      <3> HIDE DEF told
      <3>5. PageFits(Clamped(told)) /\ PageFits(seen)
          BY <2>1, <3>1, <3>3, <3>4, ClampedFits DEF PageFits
      <3>6. QED
          BY <1>1, <3>2, <3>5
    <2>3. CASE PollTest(p)
      <3> DEFINE told == [pages[p] EXCEPT !.total = Failures, !.testing = Unset]
                 quit == [pages[p] EXCEPT !.gaveUp = TRUE]
      <3>1. DOMAIN told = PageFields /\ told.offset = pages[p].offset /\ told.total = Failures /\ told.open = pages[p].open
          BY <2>1 DEF PageFits, PageFields
      <3>2. PageFits(quit)
          BY <2>1 DEF PageFits, PageFields
      <3>3. pages' = [pages EXCEPT ![p] = quit] \/ pages' = [pages EXCEPT ![p] = Clamped(told)]
          BY <2>3 DEF PollTest, PagesFit
      <3> HIDE DEF told, quit
      <3>4. PageFits(Clamped(told))
          BY <2>1, <3>1, ClampedFits DEF PageFits
      <3>5. QED
          BY <1>1, <3>2, <3>3, <3>4
    <2>4. CASE TurnPage(p)
      <3> DEFINE told == [pages[p] EXCEPT !.total = Failures]
                 back == [pages[p] EXCEPT !.offset = IF @ > FailuresPerPage THEN @ - FailuresPerPage ELSE 0]
                 on == [pages[p] EXCEPT !.offset = @ + FailuresPerPage]
      <3>1. DOMAIN told = PageFields /\ told.offset = pages[p].offset /\ told.total = Failures /\ told.open = pages[p].open
          BY <2>1 DEF PageFits, PageFields
      <3>2. PageFits(back)
        <4>1. /\ DOMAIN back = PageFields /\ back.total = pages[p].total /\ back.open = pages[p].open
              /\ back.offset = IF pages[p].offset > FailuresPerPage THEN pages[p].offset - FailuresPerPage ELSE 0
            BY <2>1 DEF PageFits, PageFields
        <4> HIDE DEF back
        <4>2. QED
            BY <2>1, <4>1 DEF PageFits
      <3>3. DOMAIN on = PageFields /\ on.total = pages[p].total /\ on.open = pages[p].open /\ on.offset = pages[p].offset + FailuresPerPage
          BY <2>1 DEF PageFits, PageFields
      <3>4. \/ pages' = [pages EXCEPT ![p] = Clamped(told)] \/ pages' = [pages EXCEPT ![p] = back]
            \/ pages' = [pages EXCEPT ![p] = Clamped(on)]
        <4>1. CASE pages' = [pages EXCEPT ![p] = Clamped([@ EXCEPT !.total = Failures])]
            BY <4>1, Zenon
        <4>2. CASE pages' = [pages EXCEPT ![p].offset = IF @ > FailuresPerPage THEN @ - FailuresPerPage ELSE 0]
            BY <4>2
        <4>3. CASE pages' = [pages EXCEPT ![p] = Clamped([pages[p] EXCEPT !.offset = @ + FailuresPerPage])]
            BY <4>3, Zenon
        <4>4. QED
            BY <2>4, <4>1, <4>2, <4>3 DEF TurnPage
      <3> HIDE DEF told, back, on
      <3>5. PageFits(Clamped(told)) /\ PageFits(Clamped(on))
          BY <2>1, <3>1, <3>3, ClampedFits DEF PageFits
      <3>6. QED
          BY <1>1, <3>2, <3>4, <3>5
    <2>5. QED
        BY <1>5, <2>2, <2>3, <2>4
  <1>6. QED
      BY <1>2, <1>4, <1>5
      DEF DestNext, destVars, ReadRow, CreateDestination, EditWrites, RotateWrites, SetEnabled, RemoveDestination,
          RetryDelivery, DismissDelivery, LockTests, CountTests, CreateTest, Submit, PressButton, SettleDelivery, AlertTick

-----------------------------------------------------------------------------
(* The rows and requests. *)
RequestsFit == DOMAIN requests = AlertPages /\ \A p \in AlertPages : RequestFits(requests[p])

LEMMA OneRequest ==
    ASSUME RequestsFit, NEW p \in AlertPages, NEW r, RequestFits(r), requests' = [requests EXCEPT ![p] = r]
    PROVE  RequestsFit'
  <1>1. DOMAIN requests' = AlertPages /\ \A q \in AlertPages : requests'[q] = IF q = p THEN r ELSE requests[q]
      BY DEF RequestsFit
  <1>2. \A q \in AlertPages : RequestFits(requests'[q])
      BY <1>1 DEF RequestsFit
  <1>3. QED
      BY <1>1, <1>2 DEF RequestsFit, RequestFits

LEMMA Answered ==
    ASSUME RequestsFit, NEW p \in AlertPages, NEW op, NEW ok, Answer(p, op, ok)
    PROVE  RequestsFit'
  <1>1. RequestFits([op |-> op, stage |-> "answered", ok |-> ok])
      BY DEF RequestFits
  <1>2. QED
      BY <1>1, OneRequest DEF Answer

\* Every step leaves the requests as they should be.
LEMMA RequestSteps ==
    ASSUME DestTypes, PagesFit, [DestNext]_destVars PROVE RequestsFit'
  <1>0. RequestsFit
      BY DEF DestTypes, RequestsFit
  <1>1. CASE UNCHANGED requests
      BY <1>0, <1>1 DEF RequestsFit, RequestFits
  <1>2. ASSUME NEW p \in AlertPages, ReadRow(p) PROVE RequestsFit'
    <2> DEFINE r == requests[p]
               row == dests[r.of]
               moved == [r EXCEPT !.stage = "read", !.row = row]
    <2>1. RequestFits(r) /\ r.op \in {"edit", "rotate", "test"} /\ r.stage = "asked"
        BY <1>0, <1>2 DEF RequestsFit, ReadRow
    <2>2. /\ DOMAIN r = {"op", "stage", "of", "row"} \cup (IF r.op = "edit" THEN {"form"} ELSE {})
          /\ r.of \in Dests
        BY <2>1 DEF RequestFits
    <2>3. \/ Answer(p, r.op, FALSE)
          \/ /\ requests' = [requests EXCEPT ![p] = moved] /\ row # NoDest
             /\ r.op = "edit" => row.kind = r.form.kind
        BY <1>2 DEF ReadRow
    <2>4. DestRowFits(row)
        BY <2>2 DEF DestTypes
    <2>5. CASE Answer(p, r.op, FALSE)
        BY <1>0, <2>5, Answered
    <2>6. CASE /\ requests' = [requests EXCEPT ![p] = moved] /\ row # NoDest
               /\ r.op = "edit" => row.kind = r.form.kind
      <3>1. /\ DOMAIN moved = DOMAIN r /\ moved.op = r.op /\ moved.of = r.of /\ moved.stage = "read" /\ moved.row = row
            /\ r.op = "edit" => moved.form = r.form
          BY <2>1, <2>2
      <3> HIDE DEF moved
      <3>2. RequestFits(moved)
          BY <2>1, <2>2, <2>4, <2>6, <3>1 DEF RequestFits, DestRowFits
      <3>3. QED
          BY <1>0, <2>6, <3>2, OneRequest
    <2>7. QED
        BY <2>3, <2>5, <2>6
  <1>3. ASSUME NEW p \in AlertPages, CreateDestination(p) \/ EditWrites(p) \/ RotateWrites(p) \/ SetEnabled(p)
                 \/ RemoveDestination(p) \/ RetryDelivery(p) \/ DismissDelivery(p)
        PROVE  RequestsFit'
    <2>1. \E op, ok : Answer(p, op, ok)
        BY <1>3, Zenon DEF CreateDestination, EditWrites, RotateWrites, SetEnabled, RemoveDestination, RetryDelivery, DismissDelivery
    <2>2. QED
        BY <1>0, <2>1, Answered
  <1>4. ASSUME NEW p \in AlertPages, LockTests(p) \/ CountTests(p) \/ CreateTest(p) PROVE RequestsFit'
    <2> DEFINE r == requests[p]
    <2>1. RequestFits(r) /\ r.op = "test" /\ r.stage \in {"read", "locked", "counted"}
        BY <1>0, <1>4 DEF RequestsFit, LockTests, CountTests, CreateTest
    <2>2. DOMAIN r = {"op", "stage", "of", "row"} /\ r.of \in Dests
        BY <2>1 DEF RequestFits
    <2>3. ASSUME NEW stage, requests' = [requests EXCEPT ![p].stage = stage] PROVE RequestsFit'
      <3> DEFINE moved == [r EXCEPT !.stage = stage]
      <3>1. DOMAIN moved = DOMAIN r /\ moved.op = "test" /\ moved.of = r.of
          BY <2>1, <2>2
      <3>2. requests' = [requests EXCEPT ![p] = moved]
          BY <2>3
      <3> HIDE DEF moved
      <3>3. RequestFits(moved)
          BY <2>2, <3>1 DEF RequestFits
      <3>4. QED
          BY <1>0, <3>2, <3>3, OneRequest
    <2>4. ASSUME NEW t, requests' = [requests EXCEPT ![p] = [op |-> "test", stage |-> "answered", ok |-> TRUE, delivery |-> t]]
          PROVE  RequestsFit'
      <3>1. RequestFits([op |-> "test", stage |-> "answered", ok |-> TRUE, delivery |-> t])
          BY DEF RequestFits
      <3>2. QED
          BY <1>0, <2>4, <3>1, OneRequest
    <2>5. \/ \E stage : requests' = [requests EXCEPT ![p].stage = stage]
          \/ \E ok : Answer(p, "test", ok)
          \/ \E t : requests' = [requests EXCEPT ![p] = [op |-> "test", stage |-> "answered", ok |-> TRUE, delivery |-> t]]
        BY <1>4, Zenon DEF LockTests, CountTests, CreateTest
    <2>6. QED
        BY <1>0, <2>3, <2>4, <2>5, Answered
  <1>5. ASSUME NEW p \in AlertPages, OnAnswer(p) PROVE RequestsFit'
    <2>1. RequestFits(NoRequest)
        BY DEF RequestFits, NoRequest
    <2>2. QED
        BY <1>0, <1>5, <2>1, OneRequest DEF OnAnswer
  <1>6. ASSUME NEW p \in AlertPages, Submit(p) PROVE RequestsFit'
    <2> DEFINE open == pages[p].open
    <2>1. DialogFits(open)
        BY DEF PagesFit, PageFits
    <2>2. \E r : RequestFits(r) /\ requests' = [requests EXCEPT ![p] = r]
      <3>1. ASSUME NEW form PROVE RequestFits([op |-> "create", stage |-> "asked", form |-> form])
          BY DEF RequestFits
      <3>2. ASSUME open.what \in {"edit", "rotate", "disable", "remove"}
            PROVE  /\ RequestFits([op |-> "edit", stage |-> "asked", of |-> open.of, form |-> pages[p].form, row |-> NoDest])
                   /\ RequestFits([op |-> "rotate", stage |-> "asked", of |-> open.of, row |-> NoDest])
                   /\ RequestFits([op |-> "enabled", stage |-> "asked", of |-> open.of, on |-> FALSE])
                   /\ RequestFits([op |-> "remove", stage |-> "asked", of |-> open.of])
        <4>1. open.of \in Dests
            BY <2>1, <3>2 DEF DialogFits
        <4>2. ASSUME NEW d \in Dests, NEW form
              PROVE  /\ RequestFits([op |-> "edit", stage |-> "asked", of |-> d, form |-> form, row |-> NoDest])
                     /\ RequestFits([op |-> "rotate", stage |-> "asked", of |-> d, row |-> NoDest])
                     /\ RequestFits([op |-> "enabled", stage |-> "asked", of |-> d, on |-> FALSE])
                     /\ RequestFits([op |-> "remove", stage |-> "asked", of |-> d])
            BY DEF RequestFits
        <4>3. QED
            BY <4>1, <4>2
      <3>3. \/ open.what = "create" /\ Start(p, [op |-> "create", stage |-> "asked", form |-> pages[p].form])
            \/ /\ open.what = "edit"
               /\ Start(p, [op |-> "edit", stage |-> "asked", of |-> open.of, form |-> pages[p].form, row |-> NoDest])
            \/ open.what = "rotate" /\ Start(p, [op |-> "rotate", stage |-> "asked", of |-> open.of, row |-> NoDest])
            \/ open.what = "disable" /\ Start(p, [op |-> "enabled", stage |-> "asked", of |-> open.of, on |-> FALSE])
            \/ open.what = "remove" /\ Start(p, [op |-> "remove", stage |-> "asked", of |-> open.of])
          BY <1>6, Zenon DEF Submit
      <3> HIDE DEF open
      <3>4. QED
          BY <3>1, <3>2, <3>3, Zenon DEF Start
    <2>3. QED
        BY <1>0, <2>2, OneRequest
  <1>7. ASSUME NEW p \in AlertPages, PressButton(p) PROVE RequestsFit'
    <2>1. ASSUME NEW d \in Dests, Start(p, [op |-> "test", stage |-> "asked", of |-> d, row |-> NoDest]) PROVE RequestsFit'
      <3>1. RequestFits([op |-> "test", stage |-> "asked", of |-> d, row |-> NoDest])
          BY DEF RequestFits
      <3>2. QED
          BY <1>0, <2>1, <3>1, OneRequest DEF Start
    <2>2. ASSUME NEW d \in Dests, Start(p, [op |-> "enabled", stage |-> "asked", of |-> d, on |-> TRUE]) PROVE RequestsFit'
      <3>1. RequestFits([op |-> "enabled", stage |-> "asked", of |-> d, on |-> TRUE])
          BY DEF RequestFits
      <3>2. QED
          BY <1>0, <2>2, <3>1, OneRequest DEF Start
    <2>3. ASSUME NEW t \in Messages, NEW op \in {"retry", "dismiss"}, Start(p, [op |-> op, stage |-> "asked", of |-> t])
          PROVE  RequestsFit'
      <3>1. RequestFits([op |-> op, stage |-> "asked", of |-> t])
          BY DEF RequestFits
      <3>2. QED
          BY <1>0, <2>3, <3>1, OneRequest DEF Start
    <2>4. QED
        BY <1>7, <2>1, <2>2, <2>3, Zenon DEF PressButton
  <1>8. QED
      BY <1>1, <1>2, <1>3, <1>4, <1>5, <1>6, <1>7, Zenon
      DEF DestNext, destVars, OpenDialog, CloseDialog, ChooseKind, FillIn, PollTest, TurnPage, SettleDelivery, AlertTick, Unchanging

RowsFit ==
    /\ DOMAIN dests = Dests /\ \A d \in Dests : DestRowFits(dests[d])
    /\ DOMAIN lastRotation = Dests /\ \A d \in Dests : lastRotation[d].at \in Nat
    /\ alertTime \in Nat

KeyFollows(row, last, now) ==
    row.kind = "webhook" =>
        /\ row.key = last.key
        /\ last.old # 0 /\ now < last.at + Overlap => row.prev = last.old /\ row.until >= last.at + Overlap

\* A step that writes one row.
LEMMA OneRow ==
    ASSUME RowsFit, KeysFollow, NEW d \in Dests, NEW row, NEW last, DestRowFits(row), last.at \in Nat,
           dests' = [dests EXCEPT ![d] = row], alertTime' = alertTime, DOMAIN lastRotation' = Dests,
           \A e \in Dests : lastRotation'[e] = IF e = d THEN last ELSE lastRotation[e],
           \A e \in Dests \ {d} : e \notin overwritten' => e \notin overwritten,
           row # NoDest /\ d \notin overwritten' => KeyFollows(row, last, alertTime)
    PROVE  RowsFit' /\ KeysFollow'
  <1>1. /\ DOMAIN dests' = Dests /\ DOMAIN lastRotation' = Dests
        /\ \A e \in Dests : /\ dests'[e] = IF e = d THEN row ELSE dests[e]
                            /\ lastRotation'[e] = IF e = d THEN last ELSE lastRotation[e]
      BY DEF RowsFit
  <1>2. \A e \in Dests : DestRowFits(dests'[e]) /\ lastRotation'[e].at \in Nat
      BY <1>1 DEF RowsFit
  <1>3. RowsFit'
      BY <1>1, <1>2 DEF RowsFit, DestRowFits, RowFits
  <1>4. ASSUME NEW e \in Dests, dests'[e] # NoDest, e \notin overwritten'
        PROVE  KeyFollows(dests'[e], lastRotation'[e], alertTime')
    <2>1. CASE e = d
        BY <1>1, <1>4, <2>1
    <2>2. CASE e # d
        BY <1>1, <1>4, <2>2 DEF KeysFollow, KeyFollows
    <2>3. QED
        BY <2>1, <2>2
  <1>5. KeysFollow'
      BY <1>4 DEF KeysFollow, KeyFollows
  <1>6. QED
      BY <1>3, <1>5

LEMMA RowSteps ==
    ASSUME DestTypes, KeysFollow, [DestNext]_destVars PROVE RowsFit' /\ KeysFollow'
  <1>0. RowsFit /\ Overlap \in Nat
      BY DestAssumption DEF DestTypes, RowsFit
  <1>1. CASE UNCHANGED <<dests, lastRotation, overwritten, alertTime>>
      BY <1>0, <1>1 DEF RowsFit, KeysFollow, DestRowFits, RowFits
  <1>2. CASE AlertTick
    <2>1. alertTime' = alertTime + 1 /\ UNCHANGED <<dests, lastRotation, overwritten>> /\ alertTime \in Nat
        BY <1>0, <1>2 DEF AlertTick, RowsFit
    <2>2. RowsFit'
        BY <1>0, <2>1 DEF RowsFit, DestRowFits, RowFits
    <2>3. ASSUME NEW d \in Dests, alertTime' < lastRotation[d].at + Overlap PROVE alertTime < lastRotation[d].at + Overlap
        BY <1>0, <2>1, <2>3 DEF RowsFit
    <2>4. KeysFollow'
        BY <2>1, <2>3 DEF KeysFollow
    <2>5. QED
        BY <2>2, <2>4
  <1>3. ASSUME NEW p \in AlertPages, CreateDestination(p) PROVE RowsFit' /\ KeysFollow'
    <2>1. CASE UNCHANGED <<dests, lastRotation, overwritten>>
        BY <1>0, <1>1, <1>3, <2>1 DEF CreateDestination
    <2>2. CASE ~UNCHANGED <<dests, lastRotation, overwritten>>
      <3> DEFINE row == Row(StoredFor(requests[p].form, keysMade + 1, NoPrevious), TRUE)
                 last == [key |-> row.key, old |-> 0, at |-> 0]
      <3>1. PICK d \in Dests : /\ dests' = [dests EXCEPT ![d] = row]
                               /\ lastRotation' = [lastRotation EXCEPT ![d] = [key |-> dests'[d].key, old |-> 0, at |-> 0]]
                               /\ overwritten' = overwritten \ {d}
          BY <1>3, <2>2 DEF CreateDestination
      <3>2. RowFits(row)
          BY StoredRow DEF NoPrevious
      <3>3. last.at = 0 /\ last.old = 0 /\ last.key = row.key
          OBVIOUS
      <3> HIDE DEF row
      <3>4. dests'[d] = row /\ alertTime' = alertTime
          BY <1>0, <1>3, <3>1 DEF RowsFit, CreateDestination
      <3>5. /\ DOMAIN lastRotation' = Dests
            /\ \A e \in Dests : lastRotation'[e] = IF e = d THEN last ELSE lastRotation[e]
          BY <1>0, <3>1, <3>4 DEF RowsFit
      <3> HIDE DEF last
      <3>6. KeyFollows(row, last, alertTime)
          BY <3>3 DEF KeyFollows
      <3>7. last.at \in Nat /\ DestRowFits(row) /\ \A e \in Dests \ {d} : e \notin overwritten' => e \notin overwritten
          BY <3>1, <3>2, <3>3 DEF DestRowFits
      <3>8. QED
          BY <1>0, <3>1, <3>4, <3>5, <3>6, <3>7, OneRow
    <2>3. QED
        BY <2>1, <2>2
  <1>4. ASSUME NEW p \in AlertPages, EditWrites(p) PROVE RowsFit' /\ KeysFollow'
    <2> DEFINE r == requests[p]
               d == r.of
               old == dests[d]
               saved == StoredFor(r.form, IF r.row.kind = "webhook" THEN r.row.key ELSE 0, KeptPrevious(r.row))
               row == Row(saved, old.on)
               last == lastRotation[d]
    <2>1. /\ d \in Dests /\ RowFits(r.row) /\ r.row.kind = r.form.kind /\ alertTime' = alertTime /\ lastRotation' = lastRotation
          /\ r.op = "edit" /\ r.stage = "read"
        BY <1>4 DEF EditWrites, DestTypes, RequestFits
    <2>2. CASE UNCHANGED <<dests, overwritten>>
        BY <1>0, <1>1, <2>1, <2>2
    <2>3. CASE ~UNCHANGED <<dests, overwritten>>
      <3>1. /\ old # NoDest /\ dests' = [dests EXCEPT ![d] = row]
            /\ overwritten' = overwritten \cup (IF SettingsOf(r.row) # SettingsOf(old) THEN {d} ELSE {})
          BY <1>0, <1>4, <2>1, <2>3 DEF EditWrites, RowsFit
      <3>2. KeptPrevious(r.row).until \in Nat
          BY <2>1 DEF KeptPrevious, NoPrevious, RowFits
      <3>3. /\ RowFits(row) /\ row.kind = r.form.kind
            /\ row.kind = "webhook" => /\ row.key = IF r.row.kind = "webhook" THEN r.row.key ELSE 0
                                       /\ row.prev = KeptPrevious(r.row).key /\ row.until = KeptPrevious(r.row).until
          BY <3>2, StoredRow
      <3>4. last.at \in Nat /\ RowFits(old) /\ alertTime \in Nat
          BY <1>0, <2>1, <3>1 DEF RowsFit, DestRowFits
      <3>5. /\ DOMAIN lastRotation' = Dests
            /\ \A e \in Dests : lastRotation'[e] = IF e = d THEN last ELSE lastRotation[e]
          BY <1>0, <2>1 DEF RowsFit
      <3>6. ASSUME d \notin overwritten' PROVE KeyFollows(row, last, alertTime)
        <4>1. d \notin overwritten /\ SettingsOf(r.row) = SettingsOf(old)
            BY <3>1, <3>6
        <4>2. r.row.kind = old.kind /\ r.row.key = old.key /\ r.row.prev = old.prev /\ r.row.until = old.until
            BY <4>1 DEF SettingsOf
        <4>3. CASE row.kind = "webhook"
          <5>1. old.kind = "webhook"
              BY <2>1, <3>3, <4>2, <4>3
          <5>2. /\ old.key = last.key
                /\ last.old # 0 /\ alertTime < last.at + Overlap => old.prev = last.old /\ old.until >= last.at + Overlap
              BY <2>1, <3>1, <4>1, <5>1 DEF KeysFollow
          <5>3. row.key = last.key
              BY <3>3, <4>2, <4>3, <5>1, <5>2
          <5>4. ASSUME last.old # 0, alertTime < last.at + Overlap
                PROVE  row.prev = last.old /\ row.until >= last.at + Overlap
            <6>1. old.prev # 0 /\ old.until > alertTime
                BY <1>0, <3>4, <5>2, <5>4 DEF RowFits
            <6>2. KeptPrevious(r.row) = [key |-> old.prev, until |-> old.until]
                BY <4>2, <6>1 DEF KeptPrevious
            <6>3. row.prev = old.prev /\ row.until = old.until
                BY <3>3, <4>3, <6>2
            <6>4. QED
                BY <5>2, <5>4, <6>3
          <5> HIDE DEF row, last
          <5>5. QED
              BY <5>3, <5>4 DEF KeyFollows
        <4>4. QED
            BY <4>3 DEF KeyFollows
      <3> HIDE DEF row, last
      <3>7. DestRowFits(row) /\ \A e \in Dests \ {d} : e \notin overwritten' => e \notin overwritten
          BY <3>1, <3>3 DEF DestRowFits
      <3>8. QED
          BY <1>0, <2>1, <3>1, <3>4, <3>5, <3>6, <3>7, OneRow
    <2>4. QED
        BY <2>2, <2>3
  <1>5. ASSUME NEW p \in AlertPages, RotateWrites(p) PROVE RowsFit' /\ KeysFollow'
    <2> DEFINE r == requests[p]
               d == r.of
               old == dests[d]
               previous == [key |-> r.row.key, until |-> alertTime + Overlap]
               saved == StoredFor(r.row, keysMade + 1, previous)
               row == Row(saved, old.on)
               last == [key |-> saved.key, old |-> r.row.key, at |-> alertTime]
    <2>1. d \in Dests /\ RowFits(r.row) /\ alertTime' = alertTime /\ r.op = "rotate" /\ r.stage = "read"
        BY <1>5 DEF RotateWrites, DestTypes, RequestFits
    <2>2. CASE UNCHANGED <<dests, lastRotation, overwritten>>
        BY <1>0, <1>1, <2>1, <2>2
    <2>3. CASE ~UNCHANGED <<dests, lastRotation, overwritten>>
      <3>1. /\ old # NoDest /\ dests' = [dests EXCEPT ![d] = row] /\ lastRotation' = [lastRotation EXCEPT ![d] = last]
            /\ \A e \in Dests \ {d} : e \notin overwritten' => e \notin overwritten
          BY <1>0, <1>5, <2>1, <2>3 DEF RotateWrites, RowsFit
      <3>2. previous.until \in Nat /\ previous.until = alertTime + Overlap /\ previous.key = r.row.key /\ alertTime \in Nat
          BY <1>0 DEF RowsFit
      <3> HIDE DEF previous
      <3>3. /\ RowFits(row) /\ row.kind = r.row.kind
            /\ row.kind = "webhook" => row.key = keysMade + 1 /\ row.prev = previous.key /\ row.until = previous.until
          BY <3>2, StoredRow
      <3>4. saved.key = IF r.row.kind = "webhook" THEN keysMade + 1 ELSE 0
          BY DEF StoredFor
      <3>5. last.key = saved.key /\ last.old = r.row.key /\ last.at = alertTime
          OBVIOUS
      <3> HIDE DEF row, last, saved
      <3>6. row.kind = "webhook" =>
                /\ row.key = last.key /\ row.prev = last.old /\ row.until = last.at + Overlap /\ row.until \in Nat
          BY <3>2, <3>3, <3>4, <3>5
      <3>7. KeyFollows(row, last, alertTime)
          BY <3>6 DEF KeyFollows
      <3>8. DestRowFits(row) /\ last.at \in Nat
          BY <3>2, <3>3, <3>5 DEF DestRowFits
      <3>9. /\ DOMAIN lastRotation' = Dests
            /\ \A e \in Dests : lastRotation'[e] = IF e = d THEN last ELSE lastRotation[e]
          BY <1>0, <2>1, <3>1 DEF RowsFit
      <3>10. QED
          BY <1>0, <2>1, <3>1, <3>7, <3>8, <3>9, OneRow
    <2>4. QED
        BY <2>2, <2>3
  <1>6. ASSUME NEW p \in AlertPages, SetEnabled(p) PROVE RowsFit' /\ KeysFollow'
    <2> DEFINE d == requests[p].of
               old == dests[d]
               row == [old EXCEPT !.on = requests[p].on]
               last == lastRotation[d]
    <2>1. d \in Dests /\ UNCHANGED <<lastRotation, overwritten, alertTime>>
        BY <1>6 DEF SetEnabled, DestTypes, RequestFits
    <2>2. CASE UNCHANGED dests
        BY <1>0, <1>1, <2>1, <2>2
    <2>3. CASE ~UNCHANGED dests
      <3>1. old # NoDest /\ dests' = [dests EXCEPT ![d] = row] /\ RowFits(old)
          BY <1>0, <1>6, <2>1, <2>3 DEF SetEnabled, RowsFit, DestRowFits
      <3>2. /\ DOMAIN row = RowFields /\ row.kind = old.kind /\ row.key = old.key /\ row.prev = old.prev
            /\ row.until = old.until
          BY <3>1 DEF RowFits, RowFields
      <3> HIDE DEF row
      <3>3. DestRowFits(row)
          BY <3>1, <3>2 DEF RowFits, DestRowFits
      <3>4. d \notin overwritten' => KeyFollows(row, last, alertTime)
          BY <2>1, <3>1, <3>2 DEF KeysFollow, KeyFollows
      <3>5. /\ DOMAIN lastRotation' = Dests
            /\ \A e \in Dests : lastRotation'[e] = IF e = d THEN last ELSE lastRotation[e]
            /\ last.at \in Nat
          BY <1>0, <2>1 DEF RowsFit
      <3> HIDE DEF last
      <3>6. QED
          BY <1>0, <2>1, <3>1, <3>3, <3>4, <3>5, OneRow
    <2>4. QED
        BY <2>2, <2>3
  <1>7. ASSUME NEW p \in AlertPages, RemoveDestination(p) PROVE RowsFit' /\ KeysFollow'
    <2> DEFINE d == requests[p].of
               last == lastRotation[d]
    <2>1. /\ d \in Dests /\ UNCHANGED <<lastRotation, overwritten, alertTime>>
          /\ dests' = [dests EXCEPT ![d] = NoDest]
        BY <1>7 DEF RemoveDestination, DestTypes, RequestFits
    <2>2. /\ DOMAIN lastRotation' = Dests
          /\ \A e \in Dests : lastRotation'[e] = IF e = d THEN last ELSE lastRotation[e]
          /\ last.at \in Nat /\ DestRowFits(NoDest)
        BY <1>0, <2>1 DEF RowsFit, DestRowFits
    <2> HIDE DEF last
    <2>3. QED
        BY <1>0, <2>1, <2>2, OneRow
  <1>8. QED
      BY <1>1, <1>2, <1>3, <1>4, <1>5, <1>6, <1>7, Zenon
      DEF DestNext, destVars, ReadRow, RetryDelivery, DismissDelivery, LockTests, CountTests, CreateTest, OpenDialog,
          CloseDialog, ChooseKind, FillIn, Submit, PressButton, OnAnswer, PollTest, TurnPage, SettleDelivery, Unchanging

-----------------------------------------------------------------------------
(* Tests. *)
TestsFit == deliveries \in [Messages -> {NoMessage} \cup Tests] /\ AgesKnown

Near(t) == {u \in Messages : /\ deliveries[u] # NoMessage
                             /\ deliveries[u].at \in deliveries[t].at .. (deliveries[t].at + TestWindow)}
NearOf(t) == {u \in Near(t) : deliveries[u].of = deliveries[t].of}
RecentOf(d) == {t \in RecentTests : deliveries[t].of = d}

LEMMA FewerIsLess ==
    ASSUME NEW T, NEW S, S \subseteq T, T \subseteq Messages
    PROVE  Cardinality(S) <= Cardinality(T) /\ Cardinality(S) \in Nat /\ Cardinality(T) \in Nat
  <1>1. IsFiniteSet(T)
      BY DestAssumption, FS_Subset
  <1>2. IsFiniteSet(S)
      BY <1>1, FS_Subset
  <1>3. QED
      BY <1>1, <1>2, FS_Subset, FS_CardinalityType

\* All but creating a test: no delivery is new, none changes what it is a test of or its age, and time does not go back.
LEMMA NoNewTest ==
    ASSUME TestsFit, alertTime \in Nat, alertTime' \in Nat, alertTime' >= alertTime, TestsAreThrottled,
           deliveries' \in [Messages -> {NoMessage} \cup Tests],
           \A t \in Messages : deliveries'[t] # NoMessage =>
               deliveries[t] # NoMessage /\ deliveries'[t].of = deliveries[t].of /\ deliveries'[t].at = deliveries[t].at
    PROVE  /\ TestsFit' /\ TestsAreThrottled'
           /\ Room \subseteq Room'
  <1>0. \A t \in Messages : deliveries[t] # NoMessage => deliveries[t] \in Tests
      BY DEF TestsFit
  <1>1. TestsFit'
    <2>1. ASSUME NEW t \in Messages, deliveries'[t] # NoMessage PROVE deliveries'[t].at <= alertTime'
      <3>1. deliveries[t] \in Tests /\ deliveries'[t].at = deliveries[t].at /\ deliveries[t].at <= alertTime
          BY <1>0, <2>1 DEF TestsFit, AgesKnown
      <3>2. deliveries[t].at \in Nat
          BY <3>1 DEF Tests
      <3>3. QED
          BY <3>1, <3>2
    <2>2. QED
        BY <2>1 DEF TestsFit, AgesKnown, Tests
  <1>2. ASSUME NEW t \in Messages, deliveries'[t] # NoMessage
        PROVE  /\ Cardinality(NearOf(t)') <= TestsPerWindow /\ Cardinality(Near(t)') <= TestsPerOrganisation
    <2>1. deliveries[t] # NoMessage /\ deliveries'[t].at = deliveries[t].at /\ deliveries'[t].of = deliveries[t].of
        BY <1>2
    <2>2. Near(t)' \subseteq Near(t) /\ NearOf(t)' \subseteq NearOf(t)
        BY <2>1 DEF Near, NearOf
    <2>3. Near(t) \subseteq Messages /\ NearOf(t) \subseteq Messages
        BY DEF Near, NearOf
    <2>4. Cardinality(NearOf(t)) <= TestsPerWindow /\ Cardinality(Near(t)) <= TestsPerOrganisation
        BY <2>1 DEF TestsAreThrottled, Near, NearOf
    <2>5. TestsPerWindow \in Nat /\ TestsPerOrganisation \in Nat
        BY DestAssumption
    <2>6. /\ Cardinality(Near(t)') <= Cardinality(Near(t)) /\ Cardinality(Near(t)') \in Nat /\ Cardinality(Near(t)) \in Nat
          /\ Cardinality(NearOf(t)') <= Cardinality(NearOf(t)) /\ Cardinality(NearOf(t)') \in Nat
          /\ Cardinality(NearOf(t)) \in Nat
        BY <2>2, <2>3, FewerIsLess
    <2>7. QED
        BY <2>4, <2>5, <2>6
  <1>3. TestsAreThrottled'
      BY <1>2 DEF TestsAreThrottled, Near, NearOf
  <1>4. RecentTests' \subseteq RecentTests
    <2>1. ASSUME NEW t \in Messages, deliveries'[t] # NoMessage, deliveries'[t].at + TestWindow >= alertTime'
          PROVE  deliveries[t] # NoMessage /\ deliveries[t].test /\ deliveries[t].at + TestWindow >= alertTime
      <3>1. deliveries[t] \in Tests /\ deliveries'[t].at = deliveries[t].at
          BY <1>0, <2>1
      <3>2. deliveries[t].at \in Nat /\ TestWindow \in Nat /\ deliveries[t].test = TRUE
          BY <3>1, DestAssumption DEF Tests
      <3>3. QED
          BY <1>0, <2>1, <3>1, <3>2
    <2>2. QED
        BY <2>1 DEF RecentTests
  <1>5. ASSUME NEW d \in Dests, ~ThrottleExceeded(d) PROVE ~ThrottleExceeded(d)'
    <2>1. ~(Cardinality(RecentOf(d)) >= TestsPerWindow) /\ ~(Cardinality(RecentTests) >= TestsPerOrganisation)
        BY <1>5 DEF ThrottleExceeded, RecentOf
    <2>2. RecentOf(d)' \subseteq RecentOf(d)
        BY <1>4 DEF RecentOf, RecentTests
    <2>3. RecentTests \subseteq Messages /\ RecentOf(d) \subseteq Messages
        BY DEF RecentTests, RecentOf
    <2>4. TestsPerWindow \in Nat /\ TestsPerOrganisation \in Nat
        BY DestAssumption
    <2>5. /\ Cardinality(RecentOf(d)') <= Cardinality(RecentOf(d)) /\ Cardinality(RecentOf(d)') \in Nat
          /\ Cardinality(RecentOf(d)) \in Nat
          /\ Cardinality(RecentTests') <= Cardinality(RecentTests) /\ Cardinality(RecentTests') \in Nat
          /\ Cardinality(RecentTests) \in Nat
        BY <1>4, <2>2, <2>3, FewerIsLess
    <2>6. ~(Cardinality(RecentOf(d)') >= TestsPerWindow) /\ ~(Cardinality(RecentTests') >= TestsPerOrganisation)
        BY <2>1, <2>4, <2>5
    <2>7. QED
        BY <2>6 DEF ThrottleExceeded, RecentOf
  <1>6. QED
      BY <1>1, <1>3, <1>5 DEF Room

\* Creating a test: whatever window it falls in, the tests there were counted, and there was room for one more.
LEMMA OneMoreTest ==
    ASSUME TestsFit, alertTime \in Nat, alertTime' = alertTime, TestsAreThrottled, NEW d \in Dests, ~ThrottleExceeded(d),
           NEW n \in Messages, deliveries[n] = NoMessage, NEW sent, sent \in Tests, sent.of = d, sent.at = alertTime,
           deliveries' = [deliveries EXCEPT ![n] = sent]
    PROVE  TestsFit' /\ TestsAreThrottled'
  <1>0. /\ \A t \in Messages : deliveries[t] # NoMessage => deliveries[t] \in Tests /\ deliveries[t].at <= alertTime
        /\ \A t \in Messages : deliveries'[t] = IF t = n THEN sent ELSE deliveries[t]
      BY DEF TestsFit, AgesKnown
  <1>1. sent # NoMessage
    <2>1. sent.state # "none"
        BY DEF Tests
    <2>2. NoMessage.state = "none"
        BY DEF NoMessage
    <2>3. QED
        BY <2>1, <2>2
  <1>2. TestsFit'
    <2>1. deliveries' \in [Messages -> {NoMessage} \cup Tests]
        BY DEF TestsFit
    <2>2. \A t \in Messages : deliveries'[t] # NoMessage => deliveries'[t].at <= alertTime'
        BY <1>0
    <2>3. QED
        BY <2>1, <2>2 DEF TestsFit, AgesKnown, Tests
  <1>3. /\ TestsPerWindow \in Nat /\ TestsPerOrganisation \in Nat /\ TestWindow \in Nat
        /\ ~(Cardinality(RecentOf(d)) >= TestsPerWindow) /\ ~(Cardinality(RecentTests) >= TestsPerOrganisation)
      BY DestAssumption DEF ThrottleExceeded, RecentOf
  <1>4. RecentTests \subseteq Messages /\ RecentOf(d) \subseteq RecentTests
      BY DEF RecentTests, RecentOf
  <1>5. ASSUME NEW S, NEW T, S \subseteq T \cup {n}, T \subseteq Messages, NEW k \in Nat, ~(Cardinality(T) >= k)
        PROVE  Cardinality(S) <= k
    <2>1. IsFiniteSet(T)
        BY <1>5, DestAssumption, FS_Subset
    <2>2. Cardinality(T \cup {n}) <= Cardinality(T) + 1 /\ Cardinality(T) \in Nat
      <3>1. Cardinality(T) \in Nat
          BY <2>1, FS_CardinalityType
      <3>2. Cardinality(T \cup {n}) = IF n \in T THEN Cardinality(T) ELSE Cardinality(T) + 1
          BY <2>1, FS_AddElement
      <3>3. QED
          BY <3>1, <3>2
    <2>3. T \cup {n} \subseteq Messages
        BY <1>5
    <2>4. Cardinality(S) <= Cardinality(T \cup {n}) /\ Cardinality(S) \in Nat /\ Cardinality(T \cup {n}) \in Nat
        BY <1>5, <2>3, FewerIsLess
    <2>5. QED
        BY <1>5, <2>2, <2>4
  <1>6. ASSUME NEW t \in Messages, deliveries'[t] # NoMessage
        PROVE  Cardinality(NearOf(t)') <= TestsPerWindow /\ Cardinality(Near(t)') <= TestsPerOrganisation
    <2>0. /\ deliveries'[t] = (IF t = n THEN sent ELSE deliveries[t])
          /\ deliveries'[t].at \in Nat
      <3>1. deliveries'[t] \in Tests
          BY <1>0, <1>6
      <3>2. QED
          BY <1>0, <3>1 DEF Tests
    <2>1. CASE n \in Near(t)'
      <3>1. alertTime <= deliveries'[t].at + TestWindow
          BY <1>0, <1>3, <2>0, <2>1 DEF Near
      <3>2. ASSUME NEW u \in Near(t)', u # n PROVE u \in RecentTests
        <4>1. u \in Messages /\ deliveries[u] # NoMessage /\ deliveries[u].at >= deliveries'[t].at
            BY <1>0, <2>0, <3>2 DEF Near
        <4>2. deliveries[u] \in Tests
            BY <1>0, <4>1
        <4>3. deliveries[u].at \in Nat /\ deliveries[u].test = TRUE
            BY <4>2 DEF Tests
        <4>4. deliveries[u].at + TestWindow >= alertTime
            BY <1>3, <2>0, <3>1, <4>1, <4>3
        <4>5. QED
            BY <4>1, <4>3, <4>4 DEF RecentTests
      <3>3. Near(t)' \subseteq RecentTests \cup {n}
          BY <3>2
      <3>4. Cardinality(Near(t)') <= TestsPerOrganisation
          BY <1>3, <1>4, <1>5, <3>3
      <3>5. CASE deliveries'[t].of = d
        <4>1. \A u \in NearOf(t)' : u # n => deliveries[u].of = d
            BY <1>0, <3>5 DEF NearOf, Near
        <4>2. NearOf(t)' \subseteq RecentOf(d) \cup {n}
            BY <3>2, <4>1 DEF NearOf, RecentOf
        <4>3. QED
            BY <1>3, <1>4, <1>5, <3>4, <4>2
      <3>6. CASE deliveries'[t].of # d
        <4>1. t # n /\ deliveries[t] # NoMessage /\ deliveries'[t] = deliveries[t]
            BY <1>0, <1>6, <2>0, <3>6
        <4>2. n \notin NearOf(t)'
            BY <1>0, <3>6 DEF NearOf
        <4>3. NearOf(t)' \subseteq NearOf(t)
            BY <1>0, <4>1, <4>2 DEF NearOf, Near
        <4>4. Cardinality(NearOf(t)) <= TestsPerWindow
            BY <4>1 DEF TestsAreThrottled, Near, NearOf
        <4>5. NearOf(t) \subseteq Messages
            BY DEF NearOf, Near
        <4>6. Cardinality(NearOf(t)') <= Cardinality(NearOf(t)) /\ Cardinality(NearOf(t)') \in Nat
              /\ Cardinality(NearOf(t)) \in Nat
            BY <4>3, <4>5, FewerIsLess
        <4>7. QED
            BY <1>3, <3>4, <4>4, <4>6
      <3>7. QED
          BY <3>5, <3>6
    <2>2. CASE n \notin Near(t)'
      <3>1. t # n
        <4>1. n \in Near(n)'
          <5>1. deliveries'[n] = sent /\ sent.at \in Nat
              BY <1>0 DEF Tests
          <5>2. sent.at \in sent.at .. (sent.at + TestWindow)
              BY <1>3, <5>1
          <5>3. QED
              BY <1>1, <5>1, <5>2 DEF Near
        <4>2. QED
            BY <2>2, <4>1
      <3>2. deliveries[t] # NoMessage /\ deliveries'[t] = deliveries[t]
          BY <1>6, <2>0, <3>1
      <3>3. Near(t)' \subseteq Near(t) /\ NearOf(t)' \subseteq NearOf(t)
          BY <1>0, <2>2, <3>2 DEF Near, NearOf
      <3>4. Cardinality(NearOf(t)) <= TestsPerWindow /\ Cardinality(Near(t)) <= TestsPerOrganisation
          BY <3>2 DEF TestsAreThrottled, Near, NearOf
      <3>5. Near(t) \subseteq Messages /\ NearOf(t) \subseteq Messages
          BY DEF NearOf, Near
      <3>6. /\ Cardinality(NearOf(t)') <= Cardinality(NearOf(t)) /\ Cardinality(NearOf(t)') \in Nat
            /\ Cardinality(NearOf(t)) \in Nat
            /\ Cardinality(Near(t)') <= Cardinality(Near(t)) /\ Cardinality(Near(t)') \in Nat /\ Cardinality(Near(t)) \in Nat
          BY <3>3, <3>5, FewerIsLess
      <3>7. QED
          BY <1>3, <3>4, <3>6
    <2>3. QED
        BY <2>1, <2>2
  <1>7. QED
      BY <1>2, <1>6 DEF TestsAreThrottled, Near, NearOf

\* A request the step does not move, of a page that is not at work on a test, keeps what the counting page knows.
LEMMA TestsStayLocked ==
    ASSUME TestsLocked, DestTypes, NEW p \in AlertPages, NEW r, requests' = [requests EXCEPT ![p] = r],
           testLock' = testLock \/ (testLock' = Unset /\ testLock = p),
           Room \subseteq Room',
           r.op = "test" => r.stage \notin {"locked", "counted"}
    PROVE  TestsLocked'
  <1>1. \A q \in AlertPages : requests'[q] = IF q = p THEN r ELSE requests[q]
      BY DEF DestTypes
  <1>2. ASSUME NEW q \in AlertPages, requests'[q].op = "test"
        PROVE  /\ requests'[q].stage \in {"locked", "counted"} => testLock' = q
               /\ requests'[q].stage = "counted" => requests'[q].of \in Room'
    <2>1. CASE q = p
        BY <1>1, <1>2, <2>1
    <2>2. CASE q # p
      <3>1. requests'[q] = requests[q]
          BY <1>1, <2>2
      <3>2. requests[q].stage \in {"locked", "counted"} => testLock = q /\ testLock' = q
          BY <1>2, <2>2, <3>1 DEF TestsLocked
      <3>3. requests[q].stage = "counted" => requests[q].of \in Room
          BY <1>2, <3>1 DEF TestsLocked
      <3>4. QED
          BY <3>1, <3>2, <3>3
    <2>3. QED
        BY <2>1, <2>2
  <1>3. QED
      BY <1>2 DEF TestsLocked

TestsSafe == TestsFit /\ TestsAreThrottled /\ TestsLocked

LEMMA TestSteps ==
    ASSUME DestTypes, TestsSafe, [DestNext]_destVars PROVE TestsSafe'
  <1>0. /\ TestsFit /\ TestsAreThrottled /\ TestsLocked /\ alertTime \in Nat /\ DOMAIN requests = AlertPages
        /\ deliveries \in [Messages -> {NoMessage} \cup Tests]
      BY DEF TestsSafe, DestTypes
  <1>1. ASSUME UNCHANGED <<deliveries, alertTime>>
        PROVE  /\ TestsFit' /\ TestsAreThrottled'
               /\ Room \subseteq Room'
      BY <1>0, <1>1, NoNewTest
  <1>2. CASE UNCHANGED <<deliveries, alertTime, requests, testLock>>
    <2>1. TestsLocked'
        BY <1>0, <1>1, <1>2 DEF TestsLocked
    <2>2. QED
        BY <1>1, <1>2, <2>1 DEF TestsSafe
  <1>3. ASSUME NEW p \in AlertPages, NEW r, requests' = [requests EXCEPT ![p] = r],
               r.op = "test" => r.stage \notin {"locked", "counted"},
               UNCHANGED <<deliveries, alertTime, testLock>>
        PROVE  TestsSafe'
      BY <1>0, <1>1, <1>3, TestsStayLocked DEF TestsSafe
  <1>4. ASSUME NEW p \in AlertPages, ReadRow(p) PROVE TestsSafe'
    <2> DEFINE r == requests[p]
               moved == [r EXCEPT !.stage = "read", !.row = dests[r.of]]
               answer == [op |-> r.op, stage |-> "answered", ok |-> FALSE]
    <2>1. /\ requests' = [requests EXCEPT ![p] = moved] \/ requests' = [requests EXCEPT ![p] = answer]
          /\ UNCHANGED <<deliveries, alertTime, testLock>> /\ r.op \in {"edit", "rotate", "test"} /\ r.stage # "answered"
        BY <1>4 DEF ReadRow, Answer
    <2>2. answer.stage = "answered"
        OBVIOUS
    <2>3. moved.stage = "read"
      <3>1. RequestFits(r)
          BY DEF DestTypes
      <3>2. "stage" \in DOMAIN r
          BY <2>1, <3>1 DEF RequestFits
      <3>3. QED
          BY <3>2
    <2> HIDE DEF moved, answer
    <2>4. QED
        BY <1>3, <2>1, <2>2, <2>3
  <1>5. ASSUME NEW p \in AlertPages, NEW op, NEW ok, Answer(p, op, ok),
               testLock' = testLock \/ (testLock' = Unset /\ testLock = p),
               alertTime' = alertTime, deliveries' \in [Messages -> {NoMessage} \cup Tests],
               \A t \in Messages : deliveries'[t] # NoMessage =>
                   deliveries[t] # NoMessage /\ deliveries'[t].of = deliveries[t].of /\ deliveries'[t].at = deliveries[t].at
        PROVE  TestsSafe'
    <2> DEFINE r == [op |-> op, stage |-> "answered", ok |-> ok]
    <2>1. r.stage = "answered" /\ requests' = [requests EXCEPT ![p] = r]
        BY <1>5 DEF Answer
    <2> HIDE DEF r
    <2>2. TestsFit' /\ TestsAreThrottled' /\ Room \subseteq Room'
        BY <1>0, <1>5, NoNewTest
    <2>3. TestsLocked'
        BY <1>0, <1>5, <2>1, <2>2, TestsStayLocked
    <2>4. QED
        BY <2>2, <2>3 DEF TestsSafe
  <1>6. ASSUME NEW p \in AlertPages, CreateDestination(p) \/ EditWrites(p) \/ RotateWrites(p) PROVE TestsSafe'
    <2>1. (\E op, ok : Answer(p, op, ok)) /\ UNCHANGED <<deliveries, alertTime, testLock>>
        BY <1>6, Zenon DEF CreateDestination, EditWrites, RotateWrites
    <2>2. deliveries' \in [Messages -> {NoMessage} \cup Tests]
        BY <1>0, <2>1
    <2>3. QED
        BY <1>5, <2>1, <2>2
  <1>7. ASSUME NEW p \in AlertPages, SetEnabled(p) \/ RemoveDestination(p) \/ RetryDelivery(p) \/ DismissDelivery(p)
        PROVE  TestsSafe'
    <2>1. (\E op, ok : Answer(p, op, ok)) /\ UNCHANGED <<alertTime, testLock>>
        BY <1>7, Zenon DEF SetEnabled, RemoveDestination, RetryDelivery, DismissDelivery
    <2>2. ASSUME NEW t \in Messages, deliveries[t] \in Tests, NEW state \in {"queued", "abandoned"}
          PROVE  [deliveries[t] EXCEPT !.state = state] \in Tests
        BY <2>2 DEF Tests
    <2>3. ASSUME NEW t \in Messages
          PROVE  \/ deliveries'[t] = deliveries[t] \/ deliveries'[t] = NoMessage
                 \/ /\ deliveries[t].state \in {"queued", "failed", "abandoned"}
                    /\ \E state \in {"queued", "abandoned"} : deliveries'[t] = [deliveries[t] EXCEPT !.state = state]
      <3>1. CASE SetEnabled(p)
          BY <1>0, <3>1 DEF SetEnabled
      <3>2. CASE RemoveDestination(p)
          BY <1>0, <3>2 DEF RemoveDestination
      <3>3. CASE RetryDelivery(p)
          BY <1>0, <3>3 DEF RetryDelivery
      <3>4. CASE DismissDelivery(p)
          BY <1>0, <3>4 DEF DismissDelivery
      <3>5. QED
          BY <1>7, <3>1, <3>2, <3>3, <3>4
    <2>4. ASSUME NEW t \in Messages, deliveries[t].state \in {"queued", "failed", "abandoned"} PROVE deliveries[t] \in Tests
        BY <1>0, <2>4 DEF NoMessage
    <2>5. ASSUME NEW t \in Messages
          PROVE  /\ deliveries'[t] \in {NoMessage} \cup Tests
                 /\ deliveries'[t] # NoMessage =>
                      deliveries[t] # NoMessage /\ deliveries'[t].of = deliveries[t].of /\ deliveries'[t].at = deliveries[t].at
      <3>1. CASE deliveries'[t] = deliveries[t] \/ deliveries'[t] = NoMessage
          BY <1>0, <3>1
      <3>2. ASSUME deliveries[t].state \in {"queued", "failed", "abandoned"}, NEW state \in {"queued", "abandoned"},
                   deliveries'[t] = [deliveries[t] EXCEPT !.state = state]
            PROVE  /\ deliveries'[t] \in {NoMessage} \cup Tests /\ deliveries[t] # NoMessage
                   /\ deliveries'[t].of = deliveries[t].of /\ deliveries'[t].at = deliveries[t].at
        <4>1. deliveries[t] \in Tests
            BY <2>4, <3>2
        <4>2. deliveries'[t] \in Tests
            BY <2>2, <3>2, <4>1
        <4>3. deliveries[t] # NoMessage
            BY <3>2 DEF NoMessage
        <4>4. deliveries'[t].of = deliveries[t].of /\ deliveries'[t].at = deliveries[t].at
            BY <3>2, <4>1 DEF Tests
        <4>5. QED
            BY <4>2, <4>3, <4>4
      <3>3. QED
          BY <2>3, <3>1, <3>2
    <2>6. DOMAIN deliveries' = Messages /\ deliveries' = [t \in Messages |-> deliveries'[t]]
        BY <1>0, <1>7 DEF SetEnabled, RemoveDestination, RetryDelivery, DismissDelivery
    <2>7. deliveries' \in [Messages -> {NoMessage} \cup Tests]
        BY <2>5, <2>6
    <2>8. QED
        BY <1>5, <2>1, <2>5, <2>7
  <1>8. ASSUME NEW p \in AlertPages, LockTests(p) PROVE TestsSafe'
    <2>1. /\ requests[p].op = "test" /\ requests[p].stage = "read" /\ testLock = Unset /\ testLock' = p
          /\ requests' = [requests EXCEPT ![p].stage = "locked"] /\ UNCHANGED <<deliveries, alertTime>>
        BY <1>8 DEF LockTests
    <2>2. "stage" \in DOMAIN requests[p]
        BY <2>1 DEF DestTypes, RequestFits
    <2>3. ASSUME NEW q \in AlertPages
          PROVE  /\ q = p => requests'[q].stage = "locked"
                 /\ q # p => requests'[q] = requests[q]
        BY <1>0, <2>1, <2>2
    <2>4. ASSUME NEW q \in AlertPages, q # p, requests[q].op = "test" PROVE requests[q].stage \notin {"locked", "counted"}
        BY <1>0, <2>1, <2>4, DestAssumption DEF TestsLocked
    <2>5. TestsLocked'
        BY <2>1, <2>3, <2>4 DEF TestsLocked
    <2>6. QED
        BY <1>1, <2>1, <2>5 DEF TestsSafe
  <1>9. ASSUME NEW p \in AlertPages, CountTests(p) PROVE TestsSafe'
    <2>1. /\ requests[p].op = "test" /\ requests[p].stage = "locked" /\ testLock = p /\ UNCHANGED <<deliveries, alertTime>>
        BY <1>0, <1>9 DEF CountTests, TestsLocked
    <2>2. requests[p].of \in Dests
        BY <2>1 DEF DestTypes, RequestFits
    <2>3. CASE ThrottleExceeded(requests[p].of)
      <3>1. testLock' = Unset /\ Answer(p, "test", FALSE)
          BY <1>9, <2>3 DEF CountTests
      <3>2. deliveries' \in [Messages -> {NoMessage} \cup Tests]
          BY <1>0, <2>1
      <3>3. QED
          BY <1>5, <2>1, <3>1, <3>2
    <2>4. CASE ~ThrottleExceeded(requests[p].of)
      <3>1. testLock' = testLock /\ requests' = [requests EXCEPT ![p].stage = "counted"]
          BY <1>9, <2>4 DEF CountTests
      <3>2. {"op", "stage", "of"} \subseteq DOMAIN requests[p]
          BY <2>1 DEF DestTypes, RequestFits
      <3>3. ASSUME NEW q \in AlertPages
            PROVE  /\ q = p => requests'[q].stage = "counted" /\ requests'[q].of = requests[p].of
                   /\ q # p => requests'[q] = requests[q]
          BY <1>0, <3>1, <3>2
      <3>4. Room \subseteq Room'
          BY <1>1, <2>1
      <3>5. ASSUME NEW q \in AlertPages, requests'[q].op = "test"
            PROVE  /\ requests'[q].stage \in {"locked", "counted"} => testLock' = q
                   /\ requests'[q].stage = "counted" => requests'[q].of \in Room'
        <4>1. CASE q = p
            BY <2>1, <2>4, <2>2, <3>1, <3>3, <3>4, <4>1 DEF Room
        <4>2. CASE q # p
          <5>1. requests'[q] = requests[q]
              BY <3>3, <4>2
          <5>2. /\ requests[q].stage \in {"locked", "counted"} => testLock = q
                /\ requests[q].stage = "counted" => requests[q].of \in Room
              BY <1>0, <3>5, <5>1 DEF TestsLocked
          <5>3. QED
              BY <3>1, <3>4, <5>1, <5>2
        <4>3. QED
            BY <4>1, <4>2
      <3>6. TestsLocked'
          BY <3>5 DEF TestsLocked
      <3>7. QED
          BY <1>1, <2>1, <3>6 DEF TestsSafe
    <2>5. QED
        BY <2>3, <2>4
  <1>10. ASSUME NEW p \in AlertPages, CreateTest(p) PROVE TestsSafe'
    <2> DEFINE d == requests[p].of
               sent == [of |-> d, test |-> TRUE, state |-> "queued", at |-> alertTime]
    <2>1. /\ requests[p].op = "test" /\ requests[p].stage = "counted" /\ testLock' = Unset /\ alertTime' = alertTime
          /\ testLock = p /\ ~ThrottleExceeded(d)
        BY <1>0, <1>10 DEF CreateTest, TestsLocked, Room
    <2>2. d \in Dests
        BY <2>1 DEF DestTypes, RequestFits
    <2>3. CASE Answer(p, "test", FALSE) /\ UNCHANGED deliveries
      <3>1. deliveries' \in [Messages -> {NoMessage} \cup Tests]
          BY <1>0, <2>3
      <3>2. QED
          BY <1>5, <2>1, <2>3, <3>1
    <2>4. ASSUME NEW n \in Messages, deliveries[n] = NoMessage, deliveries' = [deliveries EXCEPT ![n] = sent],
                 requests' = [requests EXCEPT ![p] = [op |-> "test", stage |-> "answered", ok |-> TRUE, delivery |-> n]]
          PROVE  TestsSafe'
      <3>1. sent \in Tests /\ sent.of = d /\ sent.at = alertTime
          BY <1>0, <2>2 DEF Tests
      <3> HIDE DEF sent
      <3>2. TestsFit' /\ TestsAreThrottled'
          BY <1>0, <2>1, <2>2, <2>4, <3>1, OneMoreTest
      <3>3. \A q \in AlertPages : q # p => requests'[q] = requests[q]
          BY <1>0, <2>4
      <3>4. requests'[p].stage = "answered"
          BY <1>0, <2>4
      <3>5. ASSUME NEW q \in AlertPages, q # p, requests[q].op = "test" PROVE requests[q].stage \notin {"locked", "counted"}
          BY <1>0, <2>1, <3>5 DEF TestsLocked
      <3>6. TestsLocked'
          BY <3>3, <3>4, <3>5 DEF TestsLocked
      <3>7. QED
          BY <3>2, <3>6 DEF TestsSafe
    <2>5. QED
        BY <1>10, <2>3, <2>4 DEF CreateTest
  <1>11. ASSUME NEW p \in AlertPages, OnAnswer(p) PROVE TestsSafe'
    <2>1. requests' = [requests EXCEPT ![p] = NoRequest] /\ UNCHANGED <<deliveries, alertTime, testLock>>
        BY <1>11 DEF OnAnswer, Unchanging
    <2>2. NoRequest.op # "test"
        BY DEF NoRequest
    <2>3. QED
        BY <1>3, <2>1, <2>2
  <1>12. ASSUME NEW p \in AlertPages, Submit(p) \/ PressButton(p) PROVE TestsSafe'
    <2>1. UNCHANGED <<deliveries, alertTime, testLock>>
        BY <1>12 DEF Submit, PressButton, Unchanging
    <2>2. \E r : r.stage = "asked" /\ requests' = [requests EXCEPT ![p] = r]
        BY <1>12 DEF Submit, PressButton, Start
    <2>3. QED
        BY <1>3, <2>1, <2>2
  <1>13. CASE SettleDelivery
    <2>1. PICK t \in Messages, state \in {"delivered", "failed"} :
             deliveries[t].state = "queued" /\ deliveries' = [deliveries EXCEPT ![t].state = state]
        BY <1>13 DEF SettleDelivery
    <2>2. UNCHANGED <<requests, testLock, alertTime>>
        BY <1>13 DEF SettleDelivery
    <2>3. deliveries[t] \in Tests
        BY <1>0, <2>1 DEF NoMessage
    <2> DEFINE settled == [deliveries[t] EXCEPT !.state = state]
    <2>4. settled \in Tests /\ settled.of = deliveries[t].of /\ settled.at = deliveries[t].at
        BY <2>3 DEF Tests
    <2>5. deliveries' = [deliveries EXCEPT ![t] = settled]
        BY <2>1
    <2> HIDE DEF settled
    <2>6. deliveries[t] # NoMessage
        BY <2>1 DEF NoMessage
    <2>7. /\ deliveries' \in [Messages -> {NoMessage} \cup Tests]
          /\ \A u \in Messages : deliveries'[u] # NoMessage =>
               deliveries[u] # NoMessage /\ deliveries'[u].of = deliveries[u].of /\ deliveries'[u].at = deliveries[u].at
        BY <1>0, <2>4, <2>5, <2>6
    <2>8. TestsFit' /\ TestsAreThrottled' /\ Room \subseteq Room'
        BY <1>0, <2>2, <2>7, NoNewTest
    <2>9. TestsLocked'
        BY <1>0, <2>2, <2>8 DEF TestsLocked
    <2>10. QED
        BY <2>8, <2>9 DEF TestsSafe
  <1>14. CASE AlertTick
    <2>1. UNCHANGED <<requests, testLock, deliveries>> /\ alertTime' = alertTime + 1
        BY <1>14 DEF AlertTick
    <2>2. alertTime' \in Nat /\ alertTime' >= alertTime
        BY <1>0, <2>1
    <2>3. TestsFit' /\ TestsAreThrottled' /\ Room \subseteq Room'
        BY <1>0, <2>1, <2>2, NoNewTest
    <2>4. TestsLocked'
        BY <1>0, <2>1, <2>3 DEF TestsLocked
    <2>5. QED
        BY <2>3, <2>4 DEF TestsSafe
  <1>15. QED
      BY <1>2, <1>4, <1>6, <1>7, <1>8, <1>9, <1>10, <1>11, <1>12, <1>13, <1>14, Zenon
      DEF DestNext, destVars, OpenDialog, CloseDialog, ChooseKind, FillIn, PollTest, TurnPage, Unchanging

-----------------------------------------------------------------------------
DestInv == RowsFit /\ RequestsFit /\ KeysFollow /\ PagesFit /\ TestsSafe

\* In every reachable state: however administrators' transactions interleave, tests stay within the limits, a key that
\* was replaced signs until its overlap has passed, and a page of failures shows some (sendTest, rotateSecret, edit,
\* dismiss).
THEOREM DestinationsKept == DestSpec => []DestinationsAreKept
  <1>1. DestInit => DestInv
    <2> SUFFICES ASSUME DestInit PROVE DestInv
        OBVIOUS
    <2>1. RowFits(Made) /\ (Made.kind = "webhook" => Made.key = 1)
      <3> DEFINE form == [kind |-> "webhook", address |-> CHOOSE a \in Addresses : CheckUrl("webhook", a)]
      <3>1. NoPrevious.until \in Nat
          BY DEF NoPrevious
      <3>2. Made = Row(StoredFor(form, 1, NoPrevious), TRUE)
          BY DEF Made
      <3> HIDE DEF form
      <3> DEFINE row == Row(StoredFor(form, 1, NoPrevious), TRUE)
      <3>3. RowFits(row) /\ (row.kind = "webhook" => row.key = 1)
        <4>1. ASSUME NEW key, NEW on
              PROVE  LET made == Row(StoredFor(form, key, NoPrevious), on)
                     IN  RowFits(made) /\ (made.kind = "webhook" => made.key = key)
            BY <3>1, StoredRow
        <4>2. QED
            BY <4>1
      <3>4. QED
          BY <3>2, <3>3
    <2>2. \A d \in Dests : lastRotation[d].key = 1 /\ lastRotation[d].old = 0 /\ lastRotation[d].at = 0
        BY DEF DestInit
    <2> HIDE DEF Made
    <2>3. RowsFit
        BY <2>1, <2>2 DEF DestInit, RowsFit, DestRowFits
    <2>4. KeysFollow
        BY <2>1, <2>2 DEF DestInit, KeysFollow
    <2>5. RequestsFit
        BY DEF DestInit, RequestsFit, RequestFits, NoRequest
    <2>6. PagesFit
      <3>1. PageFits([open |-> Closed, form |-> BlankForm, testing |-> Unset, gaveUp |-> FALSE, offset |-> 0, total |-> 0])
          BY DEF PageFits, PageFields, DialogFits, Closed
      <3>2. QED
          BY <3>1 DEF DestInit, PagesFit
    <2>7. TestsSafe
        BY DEF DestInit, TestsSafe, TestsFit, AgesKnown, TestsAreThrottled, TestsLocked, NoRequest
    <2>8. QED
        BY <2>3, <2>4, <2>5, <2>6, <2>7 DEF DestInv
  <1>2. DestInv /\ [DestNext]_destVars => DestInv'
    <2> SUFFICES ASSUME DestInv, [DestNext]_destVars PROVE DestInv'
        OBVIOUS
    <2>1. DestTypes /\ KeysFollow /\ PagesFit /\ TestsSafe
        BY DEF DestInv, DestTypes, RowsFit, RequestsFit, TestsSafe, TestsFit
    <2>2. RowsFit' /\ KeysFollow'
        BY <2>1, RowSteps
    <2>3. RequestsFit'
        BY <2>1, RequestSteps
    <2>4. PagesFit'
        BY <2>1, PageSteps
    <2>5. TestsSafe'
        BY <2>1, TestSteps
    <2>6. QED
        BY <2>2, <2>3, <2>4, <2>5 DEF DestInv
  <1>3. DestInv => DestinationsAreKept
    <2> SUFFICES ASSUME DestInv PROVE DestinationsAreKept
        OBVIOUS
    <2>1. TestsAreThrottled
        BY DEF DestInv, TestsSafe
    <2>2. FailuresStayInView
        BY DEF DestInv, PagesFit, PageFits, FailuresStayInView
    <2>3. ASSUME NEW d \in Dests, dests[d] # NoDest, dests[d].kind = "webhook", d \notin overwritten
          PROVE  LET last == lastRotation[d] IN
                 /\ last.key \in UsableSigningSecrets(dests[d])
                 /\ last.old # 0 /\ alertTime < last.at + Overlap => last.old \in UsableSigningSecrets(dests[d])
      <3> DEFINE last == lastRotation[d]
                 row == dests[d]
      <3>1. /\ row.key = last.key
            /\ last.old # 0 /\ alertTime < last.at + Overlap => row.prev = last.old /\ row.until >= last.at + Overlap
          BY <2>3 DEF DestInv, KeysFollow
      <3>2. row.until \in Nat /\ last.at \in Nat /\ alertTime \in Nat /\ Overlap \in Nat
          BY <2>3, DestAssumption DEF DestInv, RowsFit, DestRowFits, RowFits
      <3>3. last.key \in UsableSigningSecrets(row)
          BY <3>1 DEF UsableSigningSecrets
      <3>4. ASSUME last.old # 0, alertTime < last.at + Overlap PROVE last.old \in UsableSigningSecrets(row)
        <4>1. row.prev = last.old /\ row.until > alertTime
            BY <3>1, <3>2, <3>4
        <4>2. QED
            BY <3>4, <4>1 DEF UsableSigningSecrets
      <3>5. QED
          BY <3>3, <3>4
    <2>4. OldKeyOverlaps
        BY <2>3 DEF OldKeyOverlaps
    <2>5. QED
        BY <2>1, <2>2, <2>4 DEF DestinationsAreKept
  <1>4. QED
      BY <1>1, <1>2, <1>3, PTL DEF DestSpec

-----------------------------------------------------------------------------
USE AccessAssumption, NamesAssumption

-----------------------------------------------------------------------------
NoInvitation == [status |-> "none"]
Invitation == [status : {"pending", "accepted", "canceled"}, person : People, role : Roles,
               inviter : Nat, expired : BOOLEAN, joined : Nat]
Member == [user : Nat, role : Roles, via : Invites \cup {Founder}]

RegisterCall == [at : {"await lock", "look again", "sign up", "found"}, kind : {"register"},
                 person : People, user : Nat]
InviteCall == [at : {"may invite", "insert invitation"}, kind : {"invite"}, caller : Nat,
               person : People, role : Roles]
AcceptCall == [at : {"sign up", "inviter", "join", "take account back"}, kind : {"accept"},
               invite : Invites, row : Invitation, person : People, user : Nat]
RemoveCall == [at : {"await members", "decide", "cancel invitations", "commit removal",
                     "end access"},
               kind : {"remove"}, caller : Nat, target : Nat, cancelling : SUBSET Invites]

\* The requests that hold a lock.
HoldsBootstrap(c) == c.at \in {"look again", "found"} \/ (c.at = "sign up" /\ c.kind = "register")
HoldsMembers(c) == c.at \in {"decide", "cancel invitations", "commit removal"}

\* The requests that have made an account nobody has joined with yet; that have seen there is no
\* account; that remove somebody; that have decided to.
Making(c) == c.at \in {"found", "inviter", "join", "take account back"}
Founding(c) == c.at = "found" \/ (c.at = "sign up" /\ c.kind = "register")
Removing(c) ==
    c.at \in {"await members", "decide", "cancel invitations", "commit removal", "end access"}
Decided(c) == c.at \in {"cancel invitations", "commit removal"}

\* The requests that will make the account a member's, or take it back.
Minds(c, u) == (Making(c) /\ c.user = u) \/ (c.at = "end access" /\ c.target = u)

HasAccount(u) == \E p \in People : accounts[p] = u

\* What a request may count on.
GoodCall(c) ==
    /\ c \in RegisterCall \cup InviteCall \cup AcceptCall \cup RemoveCall
    /\ Making(c) => c.user \in 1..users /\ HasAccount(c.user) /\ MemberOf(c.user) = {}
    /\ Founding(c) => founded = 0
    /\ Removing(c) => c.target <= users
    /\ Decided(c) => \E m \in Owners : m.user # c.target
    /\ c.at = "commit removal" => \A i \in c.cancelling : invites[i].status = "pending"

CallsOK ==
    DOMAIN calls = AccessRequests
    /\ \A r \in AccessRequests : calls[r] = NoCall \/ GoodCall(calls[r])

LocksOK ==
    \A r \in AccessRequests :
        /\ HoldsBootstrap(calls[r]) => bootstrapLock = r
        /\ HoldsMembers(calls[r]) => memberLock = r

\* No two requests make the same account, and none removes an account another is making.
CallsApart ==
    \A r, s \in AccessRequests : r # s /\ Making(calls[r]) =>
        /\ Making(calls[s]) => calls[r].user # calls[s].user
        /\ Removing(calls[s]) => calls[r].user # calls[s].target

\* A person is a member once and has an account; the organisation keeps an owner.
PeopleOK ==
    /\ users \in Nat /\ accounts \in [People -> Nat] /\ \A p \in People : accounts[p] <= users
    /\ founded \in {0, 1} /\ sessions \subseteq Nat
    /\ members \subseteq Member /\ IsFiniteSet(members)
    /\ \A m \in members : m.user \in 1..users /\ HasAccount(m.user)
    /\ \A m, n \in members : m.user = n.user => m = n
    /\ founded = 1 => Owners # {}

\* An invitation that let somebody in says so, and let in nobody else.
InvitesOK ==
    /\ DOMAIN invites = Invites
    /\ \A i \in Invites : invites[i] \in Invitation \cup {NoInvitation}
    /\ \A i \in Invites : invites[i].status = "pending" => invites[i].joined = 0
    /\ \A m \in members : m.via # Founder => invites[m.via].status = "accepted" /\ invites[m.via].joined = 1
    /\ \A m, n \in members : m.via = n.via /\ m.via # Founder => m = n

\* Until a request fails, every account is a member's or some request minds it.
AccountsMinded ==
    accessFaults = 0 => \A p \in People : accounts[p] # 0 =>
        MemberOf(accounts[p]) # {} \/ \E r \in AccessRequests : Minds(calls[r], accounts[p])

AccessInv == PeopleOK /\ InvitesOK /\ CallsOK /\ LocksOK /\ CallsApart /\ AccountsMinded /\ accessFaults \in Nat

-----------------------------------------------------------------------------
LEMMA AccessBegins == AccessInit => AccessInv
  <1> SUFFICES ASSUME AccessInit PROVE AccessInv
      OBVIOUS
  <1>1. PeopleOK
      BY FS_EmptySet DEF AccessInit, PeopleOK
  <1>2. InvitesOK
      BY DEF AccessInit, InvitesOK, NoInvitation
  <1>3. CallsOK /\ LocksOK /\ CallsApart
      BY DEF AccessInit, CallsOK, LocksOK, CallsApart, NoCall, HoldsBootstrap, HoldsMembers, Making
  <1>4. AccountsMinded /\ accessFaults \in Nat
      BY DEF AccessInit, AccountsMinded
  <1>5. QED
      BY <1>1, <1>2, <1>3, <1>4 DEF AccessInv

-----------------------------------------------------------------------------
\* What a request that is not at work does not do.
LEMMA NoCallIdle ==
    /\ ~HoldsBootstrap(NoCall) /\ ~HoldsMembers(NoCall) /\ ~Making(NoCall) /\ ~Removing(NoCall)
    /\ ~Decided(NoCall) /\ ~Founding(NoCall) /\ \A u : ~Minds(NoCall, u)
  BY DEF NoCall, HoldsBootstrap, HoldsMembers, Making, Removing, Decided, Founding, Minds

\* The rows stay: so do the facts about them.
LEMMA RowsStay ==
    ASSUME PeopleOK, InvitesOK,
           UNCHANGED <<accounts, founded, members, invites, users>>, sessions' \subseteq Nat
    PROVE  PeopleOK' /\ InvitesOK'
  <1>1. PeopleOK'
      BY DEF PeopleOK, Owners, HasAccount
  <1>2. InvitesOK'
      BY DEF InvitesOK
  <1>3. QED
      BY <1>1, <1>2

LEMMA GoodStays ==
    ASSUME UNCHANGED <<accounts, founded, members, invites, users>>, NEW c, GoodCall(c)
    PROVE  GoodCall(c)'
  BY DEF GoodCall, HasAccount, MemberOf, Owners

\* A request takes a step that changes its own state only, and perhaps a lock.
LEMMA CallMoves ==
    ASSUME AccessInv, NEW r \in AccessRequests, NEW c, calls' = [calls EXCEPT ![r] = c],
           UNCHANGED <<accounts, founded, members, invites, sessions, users>>,
           c = NoCall \/ GoodCall(c),
           HoldsBootstrap(c) => bootstrapLock' = r, HoldsMembers(c) => memberLock' = r,
           \A s \in AccessRequests : s # r =>
              /\ HoldsBootstrap(calls[s]) => bootstrapLock' = s
              /\ HoldsMembers(calls[s]) => memberLock' = s,
           Making(c) => Making(calls[r]) /\ c.user = calls[r].user,
           Removing(c) =>
              \/ Removing(calls[r]) /\ c.target = calls[r].target
              \/ \A s \in AccessRequests : Making(calls[s]) => calls[s].user # c.target,
           accessFaults' \in Nat,
           accessFaults' = 0 =>
              accessFaults = 0 /\ \A u \in Nat :
                 Minds(calls[r], u) => Minds(c, u) \/ MemberOf(u) # {}
    PROVE  AccessInv'
  <1>0. /\ PeopleOK /\ InvitesOK /\ CallsOK /\ LocksOK /\ CallsApart /\ AccountsMinded
        /\ accounts \in [People -> Nat]
      BY DEF AccessInv, PeopleOK
  <1>1. DOMAIN calls' = AccessRequests /\ calls'[r] = c
      BY <1>0 DEF CallsOK
  <1>2. \A s \in AccessRequests : s # r => calls'[s] = calls[s]
      BY <1>0 DEF CallsOK
  <1>3. PeopleOK' /\ InvitesOK'
      BY <1>0, RowsStay DEF PeopleOK
  <1>4. CallsOK'
    <2>1. ASSUME NEW s \in AccessRequests PROVE calls'[s] = NoCall \/ GoodCall(calls'[s])
        BY <1>0, <1>1, <1>2 DEF CallsOK
    <2>2. ASSUME NEW s \in AccessRequests, calls'[s] # NoCall PROVE GoodCall(calls[s])'
        BY <2>1, <2>2, GoodStays
    <2>3. QED
        BY <1>1, <2>2 DEF CallsOK, NoCall
  <1>5. LocksOK'
    <2>1. ASSUME NEW s \in AccessRequests
          PROVE  /\ HoldsBootstrap(calls'[s]) => bootstrapLock' = s
                 /\ HoldsMembers(calls'[s]) => memberLock' = s
        BY <1>1, <1>2
    <2>2. QED
        BY <2>1 DEF LocksOK, HoldsBootstrap, HoldsMembers
  <1>6. CallsApart'
    <2>1. ASSUME NEW q \in AccessRequests, NEW s \in AccessRequests, q # s, Making(calls'[q])
          PROVE  /\ Making(calls'[s]) => calls'[q].user # calls'[s].user
                 /\ Removing(calls'[s]) => calls'[q].user # calls'[s].target
      <3>1. Making(calls[q]) /\ calls'[q].user = calls[q].user
          BY <1>1, <1>2, <2>1
      <3>2. Making(calls'[s]) => Making(calls[s]) /\ calls'[s].user = calls[s].user
          BY <1>1, <1>2
      <3>3. Removing(calls'[s]) =>
               \/ Removing(calls[s]) /\ calls'[s].target = calls[s].target
               \/ calls[q].user # calls'[s].target
          BY <1>1, <1>2, <3>1
      <3>4. QED
          BY <1>0, <2>1, <3>1, <3>2, <3>3 DEF CallsApart
    <2>2. QED
        BY <2>1 DEF CallsApart, Making, Removing
  <1>7. AccountsMinded'
    <2>1. ASSUME accessFaults' = 0, NEW p \in People, accounts[p] # 0, MemberOf(accounts[p]) = {}
          PROVE  \E s \in AccessRequests : Minds(calls'[s], accounts[p])
      <3>1. PICK s \in AccessRequests : Minds(calls[s], accounts[p])
          BY <1>0, <2>1 DEF AccountsMinded
      <3>2. Minds(calls'[s], accounts[p])
          BY <1>0, <1>1, <1>2, <2>1, <3>1
      <3>3. QED
          BY <3>2
    <2>2. ASSUME accessFaults' = 0, NEW p \in People, accounts'[p] # 0
          PROVE  \/ MemberOf(accounts[p])' # {}
                 \/ \E s \in AccessRequests : Minds(calls[s], accounts[p])'
      <3>1. MemberOf(accounts[p])' = MemberOf(accounts[p])
          BY DEF MemberOf
      <3>2. \A s \in AccessRequests :
               Minds(calls'[s], accounts[p]) => Minds(calls[s], accounts[p])'
          BY DEF Minds, Making
      <3>3. QED
          BY <2>1, <2>2, <3>1, <3>2
    <2>3. QED
        BY <2>2 DEF AccountsMinded
  <1>8. QED
      BY <1>3, <1>4, <1>5, <1>6, <1>7 DEF AccessInv

\* The accounts a request names are numbered as before.
LEMMA StillNumbered ==
    ASSUME users \in Nat, users' \in Nat, users' >= users, NEW c, GoodCall(c)
    PROVE  /\ Making(c) => c.user \in 1..users'
           /\ Removing(c) => c.target <= users'
  <1>1. c \in RegisterCall \cup InviteCall \cup AcceptCall \cup RemoveCall
      BY DEF GoodCall
  <1>2. \A u \in 1..users : u \in 1..users'
      OBVIOUS
  <1>3. Making(c) => c.user \in 1..users'
      BY <1>2 DEF GoodCall
  <1>4. Removing(c) => c.target \in Nat /\ c.target <= users
      BY <1>1 DEF GoodCall, Removing, RegisterCall, InviteCall, AcceptCall, RemoveCall
  <1>5. QED
      BY <1>3, <1>4

\* What keeps a request's facts while rows change.
LEMMA OthersStay ==
    ASSUME NEW c, GoodCall(c), users \in Nat, users' \in Nat, users' >= users,
           Making(c) => HasAccount(c.user)' /\ MemberOf(c.user)' = {},
           Founding(c) => founded' = founded,
           Decided(c) => \E m \in Owners' : m.user # c.target,
           c.at = "commit removal" => \A i \in c.cancelling : invites'[i].status = "pending"
    PROVE  GoodCall(c)'
  BY StillNumbered DEF GoodCall, Making, Founding, Removing, Decided

\* A request takes a step that changes rows: theirs, its own, and the facts of the others.
LEMMA RowsChange ==
    ASSUME AccessInv, NEW r \in AccessRequests, NEW c, calls' = [calls EXCEPT ![r] = c],
           PeopleOK', InvitesOK', AccountsMinded', accessFaults' \in Nat,
           c = NoCall \/ GoodCall(c)',
           \A s \in AccessRequests : s # r /\ calls[s] # NoCall => GoodCall(calls[s])',
           HoldsBootstrap(c) => bootstrapLock' = r, HoldsMembers(c) => memberLock' = r,
           \A s \in AccessRequests : s # r =>
              /\ HoldsBootstrap(calls[s]) => bootstrapLock' = s
              /\ HoldsMembers(calls[s]) => memberLock' = s,
           Making(c) =>
              \/ Making(calls[r]) /\ c.user = calls[r].user
              \/ \A s \in AccessRequests : s # r =>
                    /\ Making(calls[s]) => calls[s].user # c.user
                    /\ Removing(calls[s]) => calls[s].target # c.user,
           Removing(c) => Removing(calls[r]) /\ c.target = calls[r].target
    PROVE  AccessInv'
  <1>0. CallsOK /\ LocksOK /\ CallsApart
      BY DEF AccessInv
  <1>1. DOMAIN calls' = AccessRequests /\ calls'[r] = c
      BY <1>0 DEF CallsOK
  <1>2. \A s \in AccessRequests : s # r => calls'[s] = calls[s]
      BY <1>0 DEF CallsOK
  <1>3. CallsOK'
    <2>1. c # NoCall => GoodCall(calls[r])'
        BY <1>1 DEF GoodCall, Making, Founding, Removing, Decided
    <2>2. \A s \in AccessRequests : calls'[s] # NoCall => GoodCall(calls[s])'
        BY <1>1, <1>2, <2>1
    <2>3. QED
        BY <1>1, <2>2 DEF CallsOK, NoCall
  <1>4. LocksOK'
    <2>1. ASSUME NEW s \in AccessRequests
          PROVE  /\ HoldsBootstrap(calls'[s]) => bootstrapLock' = s
                 /\ HoldsMembers(calls'[s]) => memberLock' = s
        BY <1>1, <1>2
    <2>2. QED
        BY <2>1 DEF LocksOK, HoldsBootstrap, HoldsMembers
  <1>5. CallsApart'
    <2>1. ASSUME NEW q \in AccessRequests, NEW s \in AccessRequests, q # s, Making(calls'[q])
          PROVE  /\ Making(calls'[s]) => calls'[q].user # calls'[s].user
                 /\ Removing(calls'[s]) => calls'[q].user # calls'[s].target
      <3>1. CASE q = r
          BY <1>0, <1>1, <1>2, <2>1, <3>1 DEF CallsApart
      <3>2. CASE s = r
          BY <1>0, <1>1, <1>2, <2>1, <3>2 DEF CallsApart
      <3>3. CASE q # r /\ s # r
          BY <1>0, <1>2, <2>1, <3>3 DEF CallsApart
      <3>4. QED
          BY <3>1, <3>2, <3>3
    <2>2. QED
        BY <2>1 DEF CallsApart, Making, Removing
  <1>6. QED
      BY <1>3, <1>4, <1>5 DEF AccessInv

-----------------------------------------------------------------------------
\* Where a request is in its program tells what it is.
LEMMA AtTells ==
    ASSUME AccessInv, NEW r \in AccessRequests
    PROVE  /\ calls[r].at \in {"await lock", "look again", "found"} => calls[r] \in RegisterCall
           /\ calls[r].at = "sign up" /\ calls[r].kind = "register" => calls[r] \in RegisterCall
           /\ calls[r].at = "sign up" /\ calls[r].kind = "accept" => calls[r] \in AcceptCall
           /\ calls[r].at \in {"inviter", "join", "take account back"} => calls[r] \in AcceptCall
           /\ calls[r].at \in {"may invite", "insert invitation"} => calls[r] \in InviteCall
           /\ calls[r].at \in {"await members", "decide", "cancel invitations", "commit removal",
                               "end access"} => calls[r] \in RemoveCall
           /\ calls[r].at # "none" => calls[r] # NoCall /\ GoodCall(calls[r])
  <1>1. calls[r] = NoCall \/ GoodCall(calls[r])
      BY DEF AccessInv, CallsOK
  <1>2. CASE calls[r] = NoCall
      BY <1>2 DEF NoCall
  <1>3. CASE GoodCall(calls[r])
    <2>1. calls[r] \in RegisterCall \cup InviteCall \cup AcceptCall \cup RemoveCall
        BY <1>3 DEF GoodCall
    <2>2. calls[r] # NoCall
        BY <2>1 DEF RegisterCall, AcceptCall, InviteCall, RemoveCall, NoCall
    <2>3. CASE calls[r] \in RegisterCall
        BY <1>3, <2>2, <2>3 DEF RegisterCall
    <2>4. CASE calls[r] \in InviteCall
        BY <1>3, <2>2, <2>4 DEF InviteCall
    <2>5. CASE calls[r] \in AcceptCall
      <3>1. calls[r].at \in {"sign up", "inviter", "join", "take account back"}
            /\ calls[r].kind = "accept"
          BY <2>5 DEF AcceptCall
      <3>2. QED
          BY <1>3, <2>2, <2>5, <3>1
    <2>6. CASE calls[r] \in RemoveCall
        BY <1>3, <2>2, <2>6 DEF RemoveCall
    <2>7. QED
        BY <2>1, <2>3, <2>4, <2>5, <2>6
  <1>4. QED
      BY <1>1, <1>2, <1>3

\* A request that ends without touching a row, and frees the locks it had.
LEMMA CallEnds ==
    ASSUME AccessInv, NEW r \in AccessRequests, EndCall(r),
           UNCHANGED <<accounts, founded, members, invites, sessions, users>>,
           accessFaults' \in Nat,
           \/ UNCHANGED bootstrapLock
           \/ bootstrapLock' = Nobody /\ (bootstrapLock = r \/ HoldsBootstrap(calls[r])),
           \/ UNCHANGED memberLock
           \/ memberLock' = Nobody /\ (memberLock = r \/ HoldsMembers(calls[r])),
           accessFaults' = 0 =>
              accessFaults = 0 /\ \A u \in Nat : Minds(calls[r], u) => MemberOf(u) # {}
    PROVE  AccessInv'
  <1>1. LocksOK
      BY DEF AccessInv
  <1>2. \A s \in AccessRequests : s # r =>
              /\ HoldsBootstrap(calls[s]) => bootstrapLock' = s
              /\ HoldsMembers(calls[s]) => memberLock' = s
      BY <1>1 DEF LocksOK
  <1>3. calls' = [calls EXCEPT ![r] = NoCall]
      BY DEF EndCall
  <1>4. QED
      BY <1>2, <1>3, NoCallIdle, CallMoves

LEMMA Numbered == \A n \in Nat : \A k \in 1..n : k <= n
  OBVIOUS

\* Starting a request.
LEMMA Starting ==
    ASSUME AccessInv, NEW r \in AccessRequests, NEW c, StartCall(r, c),
           c \in RegisterCall \cup InviteCall \cup AcceptCall \cup RemoveCall,
           c.at \in {"await lock", "may invite", "sign up", "await members"},
           c.at = "sign up" => c.kind = "accept",
           c.at = "await members" => \E m \in members : c.target = m.user
    PROVE  AccessInv'
  <1>0. PeopleOK /\ LocksOK /\ CallsOK
      BY DEF AccessInv
  <1>1. /\ calls[r] = NoCall /\ calls' = [calls EXCEPT ![r] = c]
        /\ UNCHANGED <<accounts, founded, members, invites, sessions, users, bootstrapLock,
                       memberLock, accessFaults>>
      BY DEF StartCall
  <1>2. ~HoldsBootstrap(c) /\ ~HoldsMembers(c) /\ ~Making(c) /\ ~Founding(c) /\ ~Decided(c)
      BY DEF HoldsBootstrap, HoldsMembers, Making, Founding, Decided
  <1>3. Removing(c) => c.at = "await members"
      BY DEF Removing
  <1>4. c.at = "await members" =>
           /\ c.target <= users
           /\ \A s \in AccessRequests : Making(calls[s]) => calls[s].user # c.target
    <2>1. SUFFICES ASSUME c.at = "await members"
                   PROVE  /\ c.target <= users
                          /\ \A s \in AccessRequests : Making(calls[s]) => calls[s].user # c.target
        OBVIOUS
    <2>2. PICK m \in members : c.target = m.user
        BY <2>1
    <2>3. m.user \in 1..users /\ users \in Nat
        BY <1>0 DEF PeopleOK
    <2>4. \A s \in AccessRequests : Making(calls[s]) => MemberOf(calls[s].user) = {}
        BY <1>0, NoCallIdle DEF CallsOK, GoodCall
    <2>5. m \in MemberOf(m.user)
        BY DEF MemberOf
    <2>6. c.target <= users
      <3>1. m.user <= users
          BY <2>3, Numbered
      <3>2. QED
          BY <2>2, <3>1
    <2>7. \A s \in AccessRequests : Making(calls[s]) => calls[s].user # c.target
        BY <2>2, <2>4, <2>5
    <2>8. QED
        BY <2>6, <2>7
  <1>5. GoodCall(c)
      BY <1>2, <1>3, <1>4 DEF GoodCall
  <1>6. \A s \in AccessRequests : s # r =>
              /\ HoldsBootstrap(calls[s]) => bootstrapLock' = s
              /\ HoldsMembers(calls[s]) => memberLock' = s
      BY <1>0, <1>1 DEF LocksOK
  <1>7. \A u \in Nat : ~Minds(calls[r], u)
      BY <1>1, NoCallIdle
  <1>8. accessFaults' \in Nat /\ (accessFaults' = 0 => accessFaults = 0)
      BY <1>1 DEF AccessInv
  <1>9. QED
      BY <1>1, <1>2, <1>3, <1>4, <1>5, <1>6, <1>7, <1>8, CallMoves

\* The steps that read, wait or decide.
LEMMA ReadingSteps ==
    ASSUME AccessInv, NEW r \in AccessRequests,
           \/ RegisterLocked(r) \/ RegisterLooks(r) \/ InviteChecked(r) \/ AcceptReadsInviter(r)
           \/ RemoveLocked(r) \/ RemoveDecides(r) \/ RemoveCancels(r)
    PROVE  AccessInv'
  <1>0. PeopleOK /\ LocksOK /\ CallsOK /\ accessFaults \in Nat
      BY DEF AccessInv
  <1>1. /\ UNCHANGED <<accounts, founded, members, invites, sessions, users, accessFaults>>
        /\ calls[r].at # "none"
      BY DEF RegisterLocked, RegisterLooks, InviteChecked, AcceptReadsInviter, RemoveLocked,
             RemoveDecides, RemoveCancels
  <1>2. GoodCall(calls[r]) /\ accessFaults' \in Nat /\ (accessFaults' = 0 => accessFaults = 0)
      BY <1>0, <1>1, AtTells
  <1>n. \A s \in AccessRequests : s # Nobody
      OBVIOUS
  <1>3. CASE RegisterLocked(r)
    <2>1. calls[r] \in RegisterCall /\ calls[r].at = "await lock" /\ bootstrapLock = Nobody
        BY <1>3, AtTells DEF RegisterLocked
    <2>2. PICK c : c = [calls[r] EXCEPT !.at = "look again"]
        OBVIOUS
    <2>3. calls' = [calls EXCEPT ![r] = c] /\ bootstrapLock' = r /\ UNCHANGED memberLock
        BY <1>3, <2>2 DEF RegisterLocked, Proceed
    <2>4. c \in RegisterCall /\ c.at = "look again"
        BY <2>1, <2>2 DEF RegisterCall
    <2>5. GoodCall(c)
        BY <2>4 DEF GoodCall, Making, Founding, Removing, Decided
    <2>6. ~HoldsMembers(c) /\ ~Making(c) /\ ~Removing(c) /\ ~Making(calls[r])
        BY <2>1, <2>4 DEF HoldsMembers, Making, Removing
    <2>7. \A u \in Nat : ~Minds(calls[r], u)
        BY <2>1, <2>6 DEF Minds
    <2>8. \A s \in AccessRequests : ~HoldsBootstrap(calls[s]) /\ (HoldsMembers(calls[s]) => memberLock' = s)
        BY <1>0, <1>n, <2>1, <2>3 DEF LocksOK
    <2>9. QED
        BY <1>1, <1>2, <2>3, <2>5, <2>6, <2>7, <2>8, CallMoves
  <1>4. CASE RegisterLooks(r)
    <2>1. calls[r] \in RegisterCall /\ calls[r].at = "look again" /\ UNCHANGED memberLock
        BY <1>4, AtTells DEF RegisterLooks
    <2>2. HoldsBootstrap(calls[r]) /\ ~Making(calls[r]) /\ \A u \in Nat : ~Minds(calls[r], u)
        BY <2>1 DEF HoldsBootstrap, Minds, Making
    <2>3. CASE AnyUserExists
        BY <1>1, <1>2, <1>4, <2>1, <2>2, <2>3, CallEnds DEF RegisterLooks
    <2>4. CASE ~AnyUserExists
      <3>1. PICK c : c = [calls[r] EXCEPT !.at = "sign up"]
          OBVIOUS
      <3>2. calls' = [calls EXCEPT ![r] = c] /\ UNCHANGED bootstrapLock
          BY <1>4, <2>4, <3>1 DEF RegisterLooks, Proceed
      <3>3. c \in RegisterCall /\ c.at = "sign up"
          BY <2>1, <3>1 DEF RegisterCall
      <3>4. founded = 0
        <4>1. members = {}
            BY <1>0, <2>4 DEF PeopleOK, HasAccount, AnyUserExists
        <4>2. QED
            BY <1>0, <4>1 DEF PeopleOK, Owners
      <3>5. GoodCall(c)
          BY <3>3, <3>4 DEF GoodCall, Making, Founding, Removing, Decided
      <3>6. ~HoldsMembers(c) /\ ~Making(c) /\ ~Removing(c)
          BY <3>3 DEF HoldsMembers, Making, Removing
      <3>7. QED
          BY <1>0, <1>1, <1>2, <2>1, <2>2, <3>2, <3>5, <3>6, CallMoves DEF LocksOK
    <2>5. QED
        BY <2>3, <2>4
  <1>5. CASE InviteChecked(r)
    <2>1. /\ calls[r] \in InviteCall /\ calls[r].at = "may invite"
          /\ UNCHANGED <<memberLock, bootstrapLock>>
        BY <1>5, AtTells DEF InviteChecked
    <2>2. ~Making(calls[r]) /\ \A u \in Nat : ~Minds(calls[r], u)
        BY <2>1 DEF Minds, Making
    <2>3. CASE EndCall(r)
        BY <1>1, <1>2, <2>1, <2>2, <2>3, CallEnds
    <2>4. CASE Proceed(r, "insert invitation")
      <3>1. PICK c : c = [calls[r] EXCEPT !.at = "insert invitation"]
          OBVIOUS
      <3>2. calls' = [calls EXCEPT ![r] = c]
          BY <2>4, <3>1 DEF Proceed
      <3>3. c \in InviteCall /\ c.at = "insert invitation"
          BY <2>1, <3>1 DEF InviteCall
      <3>4. /\ ~HoldsBootstrap(c) /\ ~HoldsMembers(c) /\ ~Making(c) /\ ~Removing(c)
            /\ ~Founding(c) /\ ~Decided(c)
          BY <3>3 DEF HoldsBootstrap, HoldsMembers, Making, Removing, Founding, Decided
      <3>5. GoodCall(c)
          BY <3>3, <3>4 DEF GoodCall
      <3>6. QED
          BY <1>0, <1>1, <1>2, <2>1, <2>2, <3>2, <3>4, <3>5, CallMoves DEF LocksOK
    <2>5. QED
        BY <1>5, <2>3, <2>4 DEF InviteChecked
  <1>6. CASE AcceptReadsInviter(r)
    <2>1. /\ calls[r] \in AcceptCall /\ calls[r].at = "inviter"
          /\ UNCHANGED <<memberLock, bootstrapLock>>
        BY <1>6, AtTells DEF AcceptReadsInviter
    <2>2. PICK a \in {"take account back", "join"} : Proceed(r, a)
        BY <1>6 DEF AcceptReadsInviter
    <2>3. PICK c : c = [calls[r] EXCEPT !.at = a]
        OBVIOUS
    <2>4. calls' = [calls EXCEPT ![r] = c]
        BY <2>2, <2>3 DEF Proceed
    <2>5. c \in AcceptCall /\ c.at = a /\ c.user = calls[r].user
        BY <2>1, <2>3 DEF AcceptCall
    <2>6. /\ ~HoldsBootstrap(c) /\ ~HoldsMembers(c) /\ ~Removing(c) /\ ~Founding(c)
          /\ ~Decided(c) /\ Making(c) /\ Making(calls[r])
        BY <2>1, <2>5 DEF HoldsBootstrap, HoldsMembers, Making, Removing, Founding, Decided
    <2>7. GoodCall(c)
        BY <1>2, <2>5, <2>6 DEF GoodCall
    <2>8. \A u \in Nat : Minds(calls[r], u) => Minds(c, u)
        BY <2>1, <2>5, <2>6 DEF Minds
    <2>9. QED
        BY <1>0, <1>1, <1>2, <2>1, <2>4, <2>5, <2>6, <2>7, <2>8, CallMoves DEF LocksOK
  <1>7. CASE RemoveLocked(r)
    <2>1. /\ calls[r] \in RemoveCall /\ calls[r].at = "await members" /\ memberLock = Nobody
          /\ UNCHANGED bootstrapLock /\ memberLock' = r
        BY <1>7, AtTells DEF RemoveLocked, MembersLockFree
    <2>2. PICK c : c = [calls[r] EXCEPT !.at = "decide"]
        OBVIOUS
    <2>3. calls' = [calls EXCEPT ![r] = c]
        BY <1>7, <2>2 DEF RemoveLocked, Proceed
    <2>4. c \in RemoveCall /\ c.at = "decide" /\ c.target = calls[r].target
        BY <2>1, <2>2 DEF RemoveCall
    <2>5. /\ ~HoldsBootstrap(c) /\ Removing(c) /\ Removing(calls[r]) /\ ~Making(c)
          /\ ~Founding(c) /\ ~Decided(c)
        BY <2>1, <2>4 DEF HoldsBootstrap, Making, Removing, Founding, Decided
    <2>6. GoodCall(c)
        BY <1>2, <2>4, <2>5 DEF GoodCall
    <2>7. \A u \in Nat : ~Minds(calls[r], u)
        BY <2>1 DEF Minds, Making
    <2>8. \A s \in AccessRequests : ~HoldsMembers(calls[s]) /\ (HoldsBootstrap(calls[s]) => bootstrapLock' = s)
        BY <1>0, <1>n, <2>1 DEF LocksOK
    <2>9. QED
        BY <1>1, <1>2, <2>1, <2>3, <2>4, <2>5, <2>6, <2>7, <2>8, CallMoves
  <1>8. CASE RemoveDecides(r)
    <2>1. calls[r] \in RemoveCall /\ calls[r].at = "decide" /\ UNCHANGED bootstrapLock
        BY <1>8, AtTells DEF RemoveDecides
    <2>2. /\ HoldsMembers(calls[r]) /\ Removing(calls[r]) /\ ~Making(calls[r])
          /\ \A u \in Nat : ~Minds(calls[r], u)
        BY <2>1 DEF HoldsMembers, Removing, Minds, Making
    <2>3. CASE EndCall(r) /\ memberLock' = Nobody
        BY <1>1, <1>2, <2>1, <2>2, <2>3, CallEnds
    <2>4. CASE /\ Proceed(r, "cancel invitations") /\ UNCHANGED memberLock
               /\ ManagesMembers(calls[r].caller)
               /\ (\E m \in MemberOf(calls[r].target) : m.role = "owner") => Cardinality(Owners) > 1
      <3>1. PICK c : c = [calls[r] EXCEPT !.at = "cancel invitations"]
          OBVIOUS
      <3>2. calls' = [calls EXCEPT ![r] = c]
          BY <2>4, <3>1 DEF Proceed
      <3>3. c \in RemoveCall /\ c.at = "cancel invitations" /\ c.target = calls[r].target
          BY <2>1, <3>1 DEF RemoveCall
      <3>4. \E m \in Owners : m.user # c.target
        <4>1. CASE \E m \in MemberOf(c.target) : m.role = "owner"
          <5>1. PICK m \in Owners : m.user = c.target
              BY <4>1 DEF MemberOf, Owners
          <5>2. IsFiniteSet(Owners) /\ Cardinality(Owners) # 1
            <6>1. IsFiniteSet(members) /\ Owners \in SUBSET members
                BY <1>0 DEF PeopleOK, Owners
            <6>2. IsFiniteSet(Owners)
                BY <6>1, FS_Subset
            <6>3. Cardinality(Owners) \in Nat /\ Cardinality(Owners) > 1
                BY <2>4, <3>3, <4>1, <6>2, FS_CardinalityType
            <6>4. QED
                BY <6>2, <6>3
          <5>3. Owners # {m}
              BY <5>2, FS_Singleton
          <5>4. PICK n \in Owners : n # m
              BY <5>1, <5>3
          <5>5. n.user # m.user
              BY <1>0, <5>1, <5>4 DEF PeopleOK, Owners
          <5>6. QED
              BY <5>1, <5>4, <5>5
        <4>2. CASE ~\E m \in MemberOf(c.target) : m.role = "owner"
          <5>1. PICK m \in Owners : TRUE
              BY <2>4 DEF ManagesMembers, MemberOf, CanManageMembers, Owners
          <5>2. m.user # c.target
              BY <4>2, <5>1 DEF MemberOf, Owners
          <5>3. QED
              BY <5>2
        <4>3. QED
            BY <4>1, <4>2
      <3>5. /\ ~HoldsBootstrap(c) /\ Removing(c) /\ ~Making(c) /\ ~Founding(c)
          BY <3>3 DEF HoldsBootstrap, Making, Removing, Founding
      <3>6. GoodCall(c)
          BY <1>2, <2>2, <3>3, <3>4, <3>5 DEF GoodCall
      <3>7. QED
          BY <1>0, <1>1, <1>2, <2>1, <2>2, <2>4, <3>2, <3>3, <3>5, <3>6, CallMoves DEF LocksOK
    <2>5. QED
        BY <1>8, <2>3, <2>4 DEF RemoveDecides
  <1>9. CASE RemoveCancels(r)
    <2> DEFINE I == {i \in Invites : invites[i].status = "pending" /\ invites[i].inviter = calls[r].target}
    <2>1. /\ calls[r] \in RemoveCall /\ calls[r].at = "cancel invitations"
          /\ UNCHANGED <<memberLock, bootstrapLock>>
        BY <1>9, AtTells DEF RemoveCancels
    <2>2. PICK c : c = [calls[r] EXCEPT !.at = "commit removal", !.cancelling = I]
        OBVIOUS
    <2>3. calls' = [calls EXCEPT ![r] = c]
        BY <1>9, <2>2 DEF RemoveCancels
    <2>4. I \in SUBSET Invites
        OBVIOUS
    <2>5. /\ c \in RemoveCall /\ c.at = "commit removal" /\ c.target = calls[r].target
          /\ c.cancelling = I
      <3> HIDE DEF I
      <3> QED
          BY <2>1, <2>2, <2>4 DEF RemoveCall
    <2>6. /\ ~HoldsBootstrap(c) /\ HoldsMembers(calls[r]) /\ Removing(c) /\ Removing(calls[r])
          /\ ~Making(c) /\ ~Founding(c) /\ Decided(calls[r])
        BY <2>1, <2>5 DEF HoldsBootstrap, HoldsMembers, Making, Removing, Founding, Decided
    <2>7. GoodCall(c)
        BY <1>2, <2>5, <2>6 DEF GoodCall
    <2>8. \A u \in Nat : ~Minds(calls[r], u)
        BY <2>1 DEF Minds, Making
    <2> HIDE DEF I
    <2>9. QED
        BY <1>0, <1>1, <1>2, <2>1, <2>3, <2>5, <2>6, <2>7, <2>8, CallMoves DEF LocksOK
  <1>10. QED
      BY <1>3, <1>4, <1>5, <1>6, <1>7, <1>8, <1>9

\* The requests that begin.
LEMMA StartingSteps ==
    ASSUME AccessInv, NEW r \in AccessRequests,
           \/ \E p \in People : StartRegister(r, p)
           \/ \E u \in sessions, p \in People, role \in Roles : StartInvite(r, u, p, role)
           \/ \E i \in Invites : StartAccept(r, i)
           \/ \E u \in sessions, m \in members : StartRemove(r, u, m)
    PROVE  AccessInv'
  <1>0. PeopleOK /\ InvitesOK
      BY DEF AccessInv
  <1>1. ASSUME NEW p \in People, StartRegister(r, p) PROVE AccessInv'
    <2>1. PICK c : c = [at |-> "await lock", kind |-> "register", person |-> p, user |-> 0]
        OBVIOUS
    <2>2. StartCall(r, c) /\ c \in RegisterCall /\ c.at = "await lock"
        BY <1>1, <2>1 DEF StartRegister, RegisterCall
    <2>3. QED
        BY <2>2, Starting
  <1>2. ASSUME NEW u \in sessions, NEW p \in People, NEW role \in Roles,
               StartInvite(r, u, p, role)
        PROVE  AccessInv'
    <2>1. PICK c : c = [at |-> "may invite", kind |-> "invite", caller |-> u, person |-> p,
                        role |-> role]
        OBVIOUS
    <2>2. StartCall(r, c) /\ c \in InviteCall /\ c.at = "may invite"
        BY <1>0, <1>2, <2>1 DEF StartInvite, InviteCall, PeopleOK
    <2>3. QED
        BY <2>2, Starting
  <1>3. ASSUME NEW i \in Invites, StartAccept(r, i) PROVE AccessInv'
    <2>1. PICK c : c = [at |-> "sign up", kind |-> "accept", invite |-> i, row |-> invites[i],
                        person |-> invites[i].person, user |-> 0]
        OBVIOUS
    <2>2. invites[i] \in Invitation
      <3>1. invites[i].status = "pending"
          BY <1>3 DEF StartAccept
      <3>2. QED
          BY <1>0, <3>1 DEF InvitesOK, NoInvitation
    <2>3. invites[i].person \in People
        BY <2>2 DEF Invitation
    <2>4. StartCall(r, c) /\ c \in AcceptCall /\ c.at = "sign up" /\ c.kind = "accept"
        BY <1>3, <2>1, <2>2, <2>3 DEF StartAccept, AcceptCall
    <2>5. QED
        BY <2>4, Starting
  <1>4. ASSUME NEW u \in sessions, NEW m \in members, StartRemove(r, u, m) PROVE AccessInv'
    <2>1. PICK c : c = [at |-> "await members", kind |-> "remove", caller |-> u,
                        target |-> m.user, cancelling |-> {}]
        OBVIOUS
    <2>2. m.user \in Nat /\ u \in Nat
        BY <1>0 DEF PeopleOK, Member
    <2>3. /\ StartCall(r, c) /\ c \in RemoveCall /\ c.at = "await members"
          /\ c.target = m.user
        BY <1>4, <2>1, <2>2 DEF StartRemove, RemoveCall
    <2>4. QED
        BY <2>3, Starting
  <1>5. QED
      BY <1>1, <1>2, <1>3, <1>4

\* A request dies where it is.
LEMMA Dying ==
    ASSUME AccessInv, NEW r \in AccessRequests, CallDies(r)
    PROVE  AccessInv'
  <1>1. accessFaults \in Nat
      BY DEF AccessInv
  <1>2. accessFaults' \in Nat /\ accessFaults' # 0
      BY <1>1 DEF CallDies
  <1>3. /\ EndCall(r) /\ UNCHANGED <<accounts, founded, members, invites, sessions, users>>
        /\ bootstrapLock' = bootstrapLock \/ (bootstrapLock' = Nobody /\ bootstrapLock = r)
        /\ memberLock' = memberLock \/ (memberLock' = Nobody /\ memberLock = r)
      BY DEF CallDies
  <1>4. QED
      BY <1>2, <1>3, CallEnds

-----------------------------------------------------------------------------
LEMMA NextNumber ==
    ASSUME NEW n \in Nat
    PROVE  /\ n + 1 \in Nat /\ n + 1 >= n /\ n + 1 \in 1..(n + 1) /\ n + 1 # 0
           /\ n + 1 <= n + 1
           /\ \A k \in 1..n : k # 0 /\ k # n + 1 /\ k \in 1..(n + 1)
           /\ \A k \in Nat : k <= n => k # n + 1 /\ k <= n + 1
  OBVIOUS

\* A request makes an account, and is the one to see to it.
LEMMA AccountMade ==
    ASSUME AccessInv, NEW r \in AccessRequests, NEW p \in People, accounts[p] = 0, SignUp(p),
           UNCHANGED <<founded, members, invites, sessions, bootstrapLock, memberLock, accessFaults>>,
           NEW c, calls' = [calls EXCEPT ![r] = c],
           c \in RegisterCall \cup AcceptCall, c.at \in {"found", "inviter"}, c.user = users + 1,
           calls[r].at = "sign up",
           c.at = "found" => HoldsBootstrap(calls[r]) /\ Founding(calls[r]) /\ GoodCall(calls[r])
    PROVE  AccessInv'
  <1>0. /\ PeopleOK /\ InvitesOK /\ CallsOK /\ LocksOK /\ AccountsMinded
        /\ accessFaults \in Nat /\ users \in Nat /\ accounts \in [People -> Nat]
      BY DEF AccessInv, PeopleOK
  <1>1. accounts' = [accounts EXCEPT ![p] = users + 1] /\ users' = users + 1
      BY DEF SignUp
  <1>2. /\ users' \in Nat /\ users' >= users /\ users' \in 1..users' /\ users' # 0
        /\ users' <= users'
        /\ \A k \in 1..users : k # 0 /\ k # users' /\ k \in 1..users'
        /\ \A k \in Nat : k <= users => k # users' /\ k <= users'
      BY <1>0, <1>1, NextNumber
  <1>3. accounts' \in [People -> Nat] /\ accounts'[p] = users' /\ \A q \in People : q # p => accounts'[q] = accounts[q]
      BY <1>0, <1>1, <1>2
  <1>4. ASSUME NEW u \in 1..users, HasAccount(u) PROVE HasAccount(u)'
    <2>1. PICK q \in People : accounts[q] = u
        BY <1>4 DEF HasAccount
    <2>2. accounts'[q] = u
        BY <1>2, <1>3, <2>1
    <2>3. QED
        BY <2>2 DEF HasAccount
  <1>n. PICK n : n = c.user
      OBVIOUS
  <1>5. n = users' /\ HasAccount(n)'
      BY <1>1, <1>3, <1>n DEF HasAccount
  <1>6. \A u : MemberOf(u)' = MemberOf(u)
      BY DEF MemberOf
  <1>7. MemberOf(users') = {}
      BY <1>0, <1>2 DEF MemberOf, PeopleOK
  <1>8. PeopleOK'
    <2>1. \A q \in People : accounts'[q] <= users'
      <3>1. users' <= users'
          BY <1>2
      <3>2. ASSUME NEW q \in People, q # p PROVE accounts'[q] <= users'
          BY <1>0, <1>2, <1>3, <3>2 DEF PeopleOK
      <3>3. QED
          BY <1>3, <3>1, <3>2
    <2>2. \A m \in members : m.user \in 1..users' /\ HasAccount(m.user)'
        BY <1>0, <1>2, <1>4 DEF PeopleOK
    <2>3. \A m \in members' : m.user \in 1..users' /\ HasAccount(m.user)'
        BY <2>2
    <2>4. Owners' = Owners
        BY DEF Owners
    <2>5. \A m \in members' : (m.user \in 1..users /\ HasAccount(m.user))'
        BY <2>3 DEF HasAccount
    <2>6. QED
        BY <1>0, <1>2, <1>3, <2>1, <2>4, <2>5 DEF PeopleOK
  <1>9. InvitesOK'
      BY <1>0 DEF InvitesOK
  <1>10. /\ Making(c) /\ ~HoldsMembers(c) /\ ~Removing(c) /\ ~Decided(c)
         /\ (HoldsBootstrap(c) => c.at = "found") /\ (Founding(c) => c.at = "found")
      BY DEF Making, HoldsMembers, Removing, Decided, HoldsBootstrap, Founding
  <1>11. c.at = "found" => founded = 0
      BY DEF GoodCall
  <1>12. (c \in RegisterCall \cup InviteCall \cup AcceptCall \cup RemoveCall)'
      BY DEF RegisterCall, AcceptCall
  <1>13. /\ c.user \in 1..users' /\ HasAccount(c.user)' /\ MemberOf(c.user)' = {}
         /\ c.user = users'
    <2>1. n \in 1..users' /\ HasAccount(n)' /\ MemberOf(n)' = {} /\ n = users'
        BY <1>2, <1>5, <1>6, <1>7
    <2>2. QED
        BY <1>n, <2>1 DEF HasAccount, MemberOf
  <1>14. GoodCall(c)'
    <2>1. /\ c \in RegisterCall \cup InviteCall \cup AcceptCall \cup RemoveCall
          /\ Founding(c) => founded' = 0
        BY <1>10, <1>11
    <2>2. QED
        BY <1>10, <1>13, <2>1 DEF GoodCall, Making, Founding, Removing, Decided
  <1>15. ASSUME NEW s \in AccessRequests, s # r, calls[s] # NoCall PROVE GoodCall(calls[s])'
    <2>1. PICK d : d = calls[s]
        OBVIOUS
    <2>2. GoodCall(d)
        BY <1>0, <1>15, <2>1 DEF CallsOK
    <2>3. Making(d) => HasAccount(d.user)' /\ MemberOf(d.user)' = {}
        BY <1>4, <1>6, <2>2 DEF GoodCall
    <2>4. Decided(d) => \E m \in Owners' : m.user # d.target
        BY <2>2 DEF GoodCall, Owners
    <2>5. d.at = "commit removal" => \A i \in d.cancelling : invites'[i].status = "pending"
        BY <2>2 DEF GoodCall
    <2>6. GoodCall(d)'
        BY <1>0, <1>2, <2>2, <2>3, <2>4, <2>5, OthersStay
    <2>7. QED
        BY <1>0, <1>15, <2>1, <2>6 DEF CallsOK, GoodCall, Making, Founding, Removing, Decided
  <1>16. AccountsMinded'
    <2>1. DOMAIN calls = AccessRequests /\ calls'[r] = c
          /\ \A s \in AccessRequests : s # r => calls'[s] = calls[s]
        BY <1>0 DEF CallsOK
    <2>2. \A u : ~Minds(calls[r], u)
        BY DEF Minds, Making
    <2>3. Minds(c, users')
        BY <1>10, <1>13 DEF Minds
    <2>4. ASSUME accessFaults' = 0, NEW q \in People, accounts'[q] # 0
          PROVE  MemberOf(accounts'[q]) # {} \/ \E s \in AccessRequests : Minds(calls'[s], accounts'[q])
      <3>1. CASE q = p
          BY <1>3, <2>1, <2>3, <3>1
      <3>2. CASE q # p
        <4>1. accounts'[q] = accounts[q]
            BY <1>3, <3>2
        <4>2. MemberOf(accounts[q]) # {} \/ \E s \in AccessRequests : Minds(calls[s], accounts[q])
            BY <1>0, <2>4, <4>1 DEF AccountsMinded
        <4>3. QED
            BY <2>1, <2>2, <4>1, <4>2
      <3>3. QED
          BY <3>1, <3>2
    <2>5. QED
        BY <2>4 DEF AccountsMinded, Minds, Making, MemberOf
  <1>17. \A s \in AccessRequests :
            /\ Making(calls[s]) => calls[s].user # c.user
            /\ Removing(calls[s]) => calls[s].target # c.user
    <2>1. SUFFICES ASSUME NEW s \in AccessRequests
                   PROVE  /\ Making(calls[s]) => calls[s].user # c.user
                          /\ Removing(calls[s]) => calls[s].target # c.user
        OBVIOUS
    <2>2. PICK d : d = calls[s]
        OBVIOUS
    <2>3. Making(d) \/ Removing(d) => GoodCall(d)
        BY <1>0, <2>2, NoCallIdle DEF CallsOK
    <2>4. Making(d) => d.user # users'
        BY <1>2, <2>3 DEF GoodCall
    <2>5. Removing(d) => d.target \in Nat /\ d.target <= users
        BY <2>3 DEF GoodCall, Removing, RegisterCall, InviteCall, AcceptCall, RemoveCall
    <2>6. QED
        BY <1>2, <1>13, <2>2, <2>4, <2>5
  <1>18. /\ HoldsBootstrap(c) => bootstrapLock' = r
         /\ \A s \in AccessRequests : s # r =>
              /\ HoldsBootstrap(calls[s]) => bootstrapLock' = s
              /\ HoldsMembers(calls[s]) => memberLock' = s
      BY <1>0, <1>10 DEF LocksOK
  <1>19. accessFaults' \in Nat
      BY <1>0
  <1>20. QED
      BY <1>8, <1>9, <1>10, <1>14, <1>15, <1>16, <1>17, <1>18, <1>19, RowsChange

LEMMA SigningUp ==
    ASSUME AccessInv, NEW r \in AccessRequests, RegisterSignsUp(r) \/ AcceptSignsUp(r)
    PROVE  AccessInv'
  <1>0. accounts \in [People -> Nat] /\ accessFaults \in Nat
      BY DEF AccessInv, PeopleOK
  <1>1. /\ UNCHANGED <<founded, members, invites, sessions, memberLock, accessFaults>>
        /\ calls[r].at = "sign up"
      BY DEF RegisterSignsUp, AcceptSignsUp
  <1>2. GoodCall(calls[r]) /\ \A u \in Nat : ~Minds(calls[r], u)
      BY <1>1, AtTells DEF Minds, Making
  <1>3. CASE RegisterSignsUp(r)
    <2>1. calls[r] \in RegisterCall /\ HoldsBootstrap(calls[r]) /\ Founding(calls[r])
        BY <1>3, AtTells DEF RegisterSignsUp, HoldsBootstrap, Founding
    <2>2. PICK p \in People : p = calls[r].person
        BY <2>1 DEF RegisterCall
    <2>3. CASE accounts[p] # 0
        BY <1>0, <1>1, <1>2, <1>3, <2>1, <2>2, <2>3, CallEnds DEF RegisterSignsUp
    <2>4. CASE accounts[p] = 0
      <3>1. PICK n : n = users + 1
          OBVIOUS
      <3>2. PICK c : c = [calls[r] EXCEPT !.at = "found", !.user = n]
          OBVIOUS
      <3>3. calls' = [calls EXCEPT ![r] = c] /\ SignUp(p) /\ UNCHANGED bootstrapLock
          BY <1>3, <2>2, <2>4, <3>1, <3>2 DEF RegisterSignsUp
      <3>4. n \in Nat
          BY <3>1, NextNumber DEF AccessInv, PeopleOK
      <3>5. c \in RegisterCall /\ c.at = "found" /\ c.user = n
          BY <2>1, <3>2, <3>4 DEF RegisterCall
      <3>6. QED
          BY <1>1, <1>2, <2>1, <2>4, <3>1, <3>3, <3>5, AccountMade
    <2>5. QED
        BY <1>0, <2>3, <2>4
  <1>4. CASE AcceptSignsUp(r)
    <2>1. calls[r] \in AcceptCall /\ UNCHANGED bootstrapLock
        BY <1>4, AtTells DEF AcceptSignsUp
    <2>2. PICK p \in People : p = calls[r].person
        BY <2>1 DEF AcceptCall
    <2>3. CASE accounts[p] # 0
        BY <1>0, <1>1, <1>2, <1>4, <2>1, <2>2, <2>3, CallEnds DEF AcceptSignsUp
    <2>4. CASE accounts[p] = 0
      <3>1. PICK n : n = users + 1
          OBVIOUS
      <3>2. PICK c : c = [calls[r] EXCEPT !.at = "inviter", !.user = n]
          OBVIOUS
      <3>3. calls' = [calls EXCEPT ![r] = c] /\ SignUp(p)
          BY <1>4, <2>2, <2>4, <3>1, <3>2 DEF AcceptSignsUp
      <3>4. n \in Nat
          BY <3>1, NextNumber DEF AccessInv, PeopleOK
      <3>5. c \in AcceptCall /\ c.at = "inviter" /\ c.user = n
          BY <2>1, <3>2, <3>4 DEF AcceptCall
      <3>6. QED
          BY <1>1, <1>2, <2>1, <2>4, <3>1, <3>3, <3>5, AccountMade
    <2>5. QED
        BY <1>0, <2>3, <2>4
  <1>5. QED
      BY <1>3, <1>4

-----------------------------------------------------------------------------
LEMMA StillAsMany == \A n \in Nat : n >= n /\ 0 <= n
  OBVIOUS

\* A request that ends lets no other lose its lock.
LEMMA LocksFreed ==
    ASSUME AccessInv, NEW r \in AccessRequests,
           \/ UNCHANGED bootstrapLock
           \/ bootstrapLock' = Nobody /\ HoldsBootstrap(calls[r]),
           \/ UNCHANGED memberLock
           \/ memberLock' = Nobody /\ HoldsMembers(calls[r])
    PROVE  \A s \in AccessRequests : s # r =>
              /\ HoldsBootstrap(calls[s]) => bootstrapLock' = s
              /\ HoldsMembers(calls[s]) => memberLock' = s
  BY DEF AccessInv, LocksOK

\* The account a request made, or that of somebody removed, goes: nobody else looks after it.
LEMMA AccountTakenBack ==
    ASSUME AccessInv, NEW r \in AccessRequests, NEW u \in Nat, MemberOf(u) = {}, DeleteUser(u),
           EndCall(r), UNCHANGED <<founded, invites, memberLock, users>>,
           \/ Making(calls[r]) /\ calls[r].user = u
           \/ calls[r].at = "end access" /\ calls[r].target = u,
           \/ UNCHANGED bootstrapLock
           \/ bootstrapLock' = Nobody /\ HoldsBootstrap(calls[r]),
           accessFaults' \in Nat, accessFaults' = 0 => accessFaults = 0
    PROVE  AccessInv'
  <1>0. /\ PeopleOK /\ InvitesOK /\ CallsOK /\ CallsApart /\ AccountsMinded
        /\ users \in Nat /\ accounts \in [People -> Nat] /\ sessions \subseteq Nat
      BY DEF AccessInv, PeopleOK
  <1>1. members' = members
      BY DEF DeleteUser, MemberOf
  <1>2. accounts' \in [People -> Nat] /\ sessions' \subseteq Nat
      BY <1>0 DEF DeleteUser
  <1>3. \A q \in People : accounts'[q] = IF accounts[q] = u THEN 0 ELSE accounts[q]
      BY DEF DeleteUser
  <1>4. ASSUME NEW v, v # u, HasAccount(v) PROVE HasAccount(v)'
    <2>1. PICK q \in People : accounts[q] = v
        BY <1>4 DEF HasAccount
    <2>2. accounts'[q] = v
        BY <1>3, <1>4, <2>1
    <2>3. QED
        BY <2>2 DEF HasAccount
  <1>5. \A v : MemberOf(v)' = MemberOf(v)
      BY <1>1 DEF MemberOf
  <1>6. PeopleOK'
    <2>1. \A q \in People : accounts'[q] <= users'
      <3>2. 0 <= users
          BY <1>0, StillAsMany
      <3>3. QED
          BY <1>0, <1>3, <3>2 DEF PeopleOK
    <2>2. \A m \in members : m.user \in 1..users /\ HasAccount(m.user)'
        BY <1>0, <1>4 DEF PeopleOK, MemberOf
    <2>3. \A m \in members' : (m.user \in 1..users /\ HasAccount(m.user))'
        BY <1>1, <2>2 DEF HasAccount
    <2>4. Owners' = Owners
        BY <1>1 DEF Owners
    <2>5. QED
        BY <1>0, <1>1, <1>2, <2>1, <2>3, <2>4 DEF PeopleOK
  <1>7. InvitesOK'
      BY <1>0, <1>1 DEF InvitesOK
  <1>8. \/ Making(calls[r]) /\ calls[r].user = u
        \/ Removing(calls[r]) /\ calls[r].target = u
      BY DEF Removing
  <1>9. \A s \in AccessRequests : s # r /\ Making(calls[s]) => calls[s].user # u
      BY <1>0, <1>8 DEF CallsApart
  <1>10. ASSUME NEW s \in AccessRequests, s # r, calls[s] # NoCall PROVE GoodCall(calls[s])'
    <2>1. PICK d : d = calls[s]
        OBVIOUS
    <2>2. GoodCall(d)
        BY <1>0, <1>10, <2>1 DEF CallsOK
    <2>3. Making(d) => HasAccount(d.user)' /\ MemberOf(d.user)' = {}
        BY <1>4, <1>5, <1>9, <1>10, <2>1, <2>2 DEF GoodCall
    <2>4. Decided(d) => \E m \in Owners' : m.user # d.target
        BY <1>1, <2>2 DEF GoodCall, Owners
    <2>5. d.at = "commit removal" => \A i \in d.cancelling : invites'[i].status = "pending"
        BY <2>2 DEF GoodCall
    <2>6. GoodCall(d)'
      <3>1. users' \in Nat /\ users' >= users
          BY <1>0, StillAsMany
      <3>2. QED
          BY <1>0, <2>2, <2>3, <2>4, <2>5, <3>1, OthersStay
    <2>7. \A e : GoodCall(e)' /\ e = calls[s] => GoodCall(calls[s])'
        BY <1>0, <1>10 DEF CallsOK, EndCall, GoodCall, Making, Founding, Removing, Decided
    <2>8. QED
        BY <2>1, <2>6, <2>7
  <1>11. AccountsMinded'
    <2>1. DOMAIN calls = AccessRequests /\ \A s \in AccessRequests : s # r => calls'[s] = calls[s]
        BY <1>0 DEF CallsOK, EndCall
    <2>2. \A v : Minds(calls[r], v) => v = u
        BY DEF Minds, Making
    <2>3. ASSUME accessFaults' = 0, NEW q \in People, accounts'[q] # 0
          PROVE  MemberOf(accounts'[q]) # {} \/ \E s \in AccessRequests : Minds(calls'[s], accounts'[q])
      <3>1. accounts'[q] = accounts[q] /\ accounts[q] # u /\ accounts[q] # 0
          BY <1>3, <2>3
      <3>2. MemberOf(accounts[q]) # {} \/ \E s \in AccessRequests : Minds(calls[s], accounts[q])
          BY <1>0, <2>3, <3>1 DEF AccountsMinded
      <3>3. QED
          BY <2>1, <2>2, <3>1, <3>2
    <2>4. QED
        BY <1>1, <2>3 DEF AccountsMinded, Minds, Making, MemberOf
  <1>12. calls' = [calls EXCEPT ![r] = NoCall]
      BY DEF EndCall
  <1>13. \A s \in AccessRequests : s # r =>
              /\ HoldsBootstrap(calls[s]) => bootstrapLock' = s
              /\ HoldsMembers(calls[s]) => memberLock' = s
      BY LocksFreed
  <1>14. QED
      BY <1>6, <1>7, <1>10, <1>11, <1>12, <1>13, NoCallIdle, RowsChange

-----------------------------------------------------------------------------
\* The owner of an account that was made joins, by founding the organisation or by an invitation.
LEMMA SomebodyJoins ==
    ASSUME AccessInv, NEW r \in AccessRequests, NEW m \in Member, members' = members \cup {m},
           Making(calls[r]), calls[r].user = m.user, EndCall(r),
           UNCHANGED <<accounts, users, memberLock, accessFaults>>, sessions' \subseteq Nat,
           \/ UNCHANGED <<founded, bootstrapLock>>
           \/ HoldsBootstrap(calls[r]) /\ founded' = 1 /\ m.role = "owner" /\ bootstrapLock' = Nobody,
           InvitesOK',
           \A s \in AccessRequests : s # r /\ calls[s].at = "commit removal" =>
               \A i \in calls[s].cancelling : invites'[i].status = "pending"
    PROVE  AccessInv'
  <1>0. /\ PeopleOK /\ CallsOK /\ LocksOK /\ CallsApart /\ AccountsMinded /\ users \in Nat
        /\ accessFaults \in Nat
      BY DEF AccessInv, PeopleOK
  <1>1. GoodCall(calls[r])
      BY <1>0, NoCallIdle DEF CallsOK
  <1>2. m.user \in 1..users /\ HasAccount(m.user) /\ MemberOf(m.user) = {}
      BY <1>1 DEF GoodCall
  <1>3. \A v : HasAccount(v)' <=> HasAccount(v)
      BY DEF HasAccount
  <1>4. \A v : v # m.user => MemberOf(v)' = MemberOf(v)
      BY DEF MemberOf
  <1>5. Owners \subseteq Owners' /\ (m.role = "owner" => m \in Owners')
      BY DEF Owners
  <1>6. PeopleOK'
    <2>1. IsFiniteSet(members')
        BY <1>0, FS_AddElement DEF PeopleOK
    <2>2. \A n \in members' : n.user \in 1..users /\ HasAccount(n.user)
        BY <1>0, <1>2 DEF PeopleOK
    <2>3. \A n \in members' : (n.user \in 1..users /\ HasAccount(n.user))'
        BY <2>2 DEF HasAccount
    <2>4. \A n \in members : n.user # m.user
        BY <1>2 DEF MemberOf
    <2>5. \A n, o \in members' : n.user = o.user => n = o
        BY <1>0, <2>4 DEF PeopleOK
    <2>6. founded' = 1 => Owners' # {}
        BY <1>0, <1>5 DEF PeopleOK
    <2>7. members' \subseteq Member' /\ founded' \in {0, 1}
        BY <1>0 DEF PeopleOK, Member
    <2>8. QED
        BY <1>0, <2>1, <2>3, <2>5, <2>6, <2>7 DEF PeopleOK
  <1>7. ASSUME NEW s \in AccessRequests, s # r, calls[s] # NoCall PROVE GoodCall(calls[s])'
    <2>1. PICK d : d = calls[s]
        OBVIOUS
    <2>2. GoodCall(d)
        BY <1>0, <1>7, <2>1 DEF CallsOK
    <2>3. Making(d) => HasAccount(d.user)' /\ MemberOf(d.user)' = {}
      <3>1. Making(d) => d.user # m.user
          BY <1>0, <1>7, <2>1 DEF CallsApart
      <3>2. QED
          BY <1>3, <1>4, <2>2, <3>1 DEF GoodCall
    <2>4. Decided(d) => \E n \in Owners' : n.user # d.target
        BY <1>5, <2>2 DEF GoodCall
    <2>5. d.at = "commit removal" => \A i \in d.cancelling : invites'[i].status = "pending"
        BY <1>7, <2>1
    <2>6. Founding(d) => founded' = founded
      <3>1. Founding(d) => HoldsBootstrap(d)
          BY DEF Founding, HoldsBootstrap
      <3>2. QED
          BY <1>0, <1>7, <2>1, <3>1 DEF LocksOK
    <2>7. users' \in Nat /\ users' >= users
        BY <1>0, StillAsMany
    <2>8. GoodCall(d)'
        BY <1>0, <2>2, <2>3, <2>4, <2>5, <2>6, <2>7, OthersStay
    <2>9. \A e : GoodCall(e)' /\ e = calls[s] => GoodCall(calls[s])'
        BY <1>0, <1>7 DEF CallsOK, EndCall, GoodCall, Making, Founding, Removing, Decided
    <2>10. QED
        BY <2>1, <2>8, <2>9
  <1>8. AccountsMinded'
    <2>1. DOMAIN calls = AccessRequests /\ \A s \in AccessRequests : s # r => calls'[s] = calls[s]
        BY <1>0 DEF CallsOK, EndCall
    <2>2. \A v : Minds(calls[r], v) => v = m.user
        BY DEF Minds, Making
    <2>3. m \in MemberOf(m.user)'
        BY DEF MemberOf
    <2>4. ASSUME accessFaults = 0, NEW q \in People, accounts[q] # 0
          PROVE  MemberOf(accounts[q])' # {} \/ \E s \in AccessRequests : Minds(calls'[s], accounts[q])
      <3>1. CASE accounts[q] = m.user
        <4>1. MemberOf(accounts[q])' = MemberOf(m.user)'
            BY <3>1 DEF MemberOf
        <4>2. QED
            BY <2>3, <4>1
      <3>2. CASE accounts[q] # m.user
        <4>1. MemberOf(accounts[q])' = MemberOf(accounts[q])
            BY <3>2 DEF MemberOf
        <4>2. MemberOf(accounts[q]) # {} \/ \E s \in AccessRequests : Minds(calls[s], accounts[q])
            BY <1>0, <2>4 DEF AccountsMinded
        <4>3. QED
            BY <2>1, <2>2, <3>2, <4>1, <4>2
      <3>3. QED
          BY <3>1, <3>2
    <2>5. QED
        BY <2>4 DEF AccountsMinded, Minds, Making, MemberOf
  <1>9. calls' = [calls EXCEPT ![r] = NoCall]
      BY DEF EndCall
  <1>10. \A s \in AccessRequests : s # r =>
              /\ HoldsBootstrap(calls[s]) => bootstrapLock' = s
              /\ HoldsMembers(calls[s]) => memberLock' = s
      BY LocksFreed
  <1>11. accessFaults' \in Nat
      BY <1>0
  <1>12. QED
      BY <1>6, <1>7, <1>8, <1>9, <1>10, <1>11, NoCallIdle, RowsChange

\* The rows of invitations or sessions change, and no request moves.
LEMMA RowsOnly ==
    ASSUME AccessInv, UNCHANGED <<accounts, founded, members, calls, bootstrapLock, memberLock,
                                  users, accessFaults>>,
           sessions' \subseteq Nat, InvitesOK',
           \A s \in AccessRequests : calls[s].at = "commit removal" =>
               \A i \in calls[s].cancelling : invites'[i].status = "pending"
    PROVE  AccessInv'
  <1>0. PeopleOK /\ CallsOK /\ LocksOK /\ CallsApart /\ AccountsMinded
      BY DEF AccessInv
  <1>1. PeopleOK'
      BY <1>0 DEF PeopleOK, Owners, HasAccount
  <1>2. CallsOK'
    <2>1. ASSUME NEW r \in AccessRequests, calls[r] # NoCall PROVE GoodCall(calls[r])'
      <3>1. GoodCall(calls[r]) /\ calls'[r] = calls[r]
          BY <1>0, <2>1 DEF CallsOK
      <3>2. \A u : (HasAccount(u)' <=> HasAccount(u)) /\ MemberOf(u)' = MemberOf(u)
          BY DEF HasAccount, MemberOf
      <3>3. Owners' = Owners /\ founded' = founded /\ users' = users
          BY DEF Owners
      <3>4. calls'[r].at = "commit removal" => \A i \in calls'[r].cancelling : invites'[i].status = "pending"
          BY <2>1, <3>1
      <3>5. /\ Making(calls[r]) => calls[r].user \in 1..users /\ HasAccount(calls[r].user)' /\ MemberOf(calls[r].user)' = {}
            /\ Founding(calls[r]) => founded' = 0
            /\ Removing(calls[r]) => calls[r].target <= users'
            /\ Decided(calls[r]) => \E m \in Owners' : m.user # calls[r].target
          BY <3>1, <3>2, <3>3 DEF GoodCall
      <3>6. calls[r] \in RegisterCall \cup InviteCall \cup AcceptCall \cup RemoveCall
          BY <3>1 DEF GoodCall
      <3>7. RegisterCall' = RegisterCall /\ InviteCall' = InviteCall /\ AcceptCall' = AcceptCall /\ RemoveCall' = RemoveCall
          BY DEF RegisterCall, InviteCall, AcceptCall, RemoveCall
      <3>8. QED
          BY <3>1, <3>3, <3>4, <3>5, <3>6, <3>7 DEF GoodCall, Making, Founding, Removing, Decided
    <2>2. QED
        BY <1>0, <2>1 DEF CallsOK
  <1>3. LocksOK' /\ CallsApart'
      BY <1>0 DEF LocksOK, CallsApart, HoldsBootstrap, HoldsMembers, Making, Removing
  <1>4. AccountsMinded'
      BY <1>0 DEF AccountsMinded, MemberOf, Minds, Making
  <1>5. QED
      BY <1>1, <1>2, <1>3, <1>4 DEF AccessInv

-----------------------------------------------------------------------------
LEMMA Founds ==
    ASSUME AccessInv, NEW r \in AccessRequests, RegisterFounds(r)
    PROVE  AccessInv'
  <1>0. InvitesOK /\ PeopleOK
      BY DEF AccessInv
  <1>1. /\ calls[r] \in RegisterCall /\ calls[r].at = "found" /\ GoodCall(calls[r])
        /\ HoldsBootstrap(calls[r]) /\ Making(calls[r])
      BY AtTells DEF RegisterFounds, HoldsBootstrap, Making
  <1>2. founded = 0
      BY <1>1 DEF GoodCall, Founding
  <1>3. calls[r].user \in Nat
      BY <1>1 DEF RegisterCall
  <1>4. PICK m : m = [user |-> calls[r].user, role |-> "owner", via |-> Founder]
      OBVIOUS
  <1>5. m \in Member /\ m.user = calls[r].user /\ m.role = "owner" /\ m.via = Founder
      BY <1>3, <1>4 DEF Member, Roles
  <1>6. members' = members \cup {m} /\ UNCHANGED invites
      BY <1>4 DEF RegisterFounds
  <1>7. InvitesOK'
      BY <1>0, <1>5, <1>6 DEF InvitesOK
  <1>8. sessions' \subseteq Nat
      BY <1>0, <1>3 DEF RegisterFounds, PeopleOK
  <1>9. founded' = 1
      BY <1>2 DEF RegisterFounds
  <1>10. \A s \in AccessRequests : calls[s].at = "commit removal" =>
             \A i \in calls[s].cancelling : invites'[i].status = "pending"
      BY <1>6, AtTells DEF GoodCall
  <1>11. /\ EndCall(r) /\ bootstrapLock' = Nobody
         /\ UNCHANGED <<accounts, users, memberLock, accessFaults>>
      BY DEF RegisterFounds
  <1>12. QED
      BY <1>1, <1>5, <1>6, <1>7, <1>8, <1>9, <1>10, <1>11, SomebodyJoins

LEMMA TakingBack ==
    ASSUME AccessInv, NEW r \in AccessRequests,
           FoundingFails(r) \/ AcceptUndone(r) \/ RemoveEndsAccess(r)
    PROVE  AccessInv'
  <1>0. accessFaults \in Nat
      BY DEF AccessInv
  <1>1. CASE FoundingFails(r)
    <2>1. /\ calls[r] \in RegisterCall /\ GoodCall(calls[r]) /\ HoldsBootstrap(calls[r])
          /\ Making(calls[r]) /\ bootstrapLock' = Nobody
        BY <1>1, AtTells DEF FoundingFails, HoldsBootstrap, Making
    <2>2. calls[r].user \in Nat /\ MemberOf(calls[r].user) = {}
        BY <2>1 DEF RegisterCall, GoodCall
    <2>3. accessFaults' \in Nat /\ accessFaults' # 0
        BY <1>0, <1>1 DEF FoundingFails
    <2>4. DeleteUser(calls[r].user) /\ EndCall(r) /\ UNCHANGED <<founded, invites, memberLock, users>>
        BY <1>1 DEF FoundingFails
    <2>5. QED
        BY <2>1, <2>2, <2>3, <2>4, AccountTakenBack
  <1>2. CASE AcceptUndone(r)
    <2>1. calls[r] \in AcceptCall /\ GoodCall(calls[r]) /\ Making(calls[r])
        BY <1>2, AtTells DEF AcceptUndone, Making
    <2>2. calls[r].user \in Nat /\ MemberOf(calls[r].user) = {}
        BY <2>1 DEF AcceptCall, GoodCall
    <2>3. /\ DeleteUser(calls[r].user) /\ EndCall(r)
          /\ UNCHANGED <<founded, invites, bootstrapLock, memberLock, users, accessFaults>>
        BY <1>2 DEF AcceptUndone
    <2>4. QED
        BY <1>0, <2>1, <2>2, <2>3, AccountTakenBack
  <1>3. CASE RemoveEndsAccess(r)
    <2>1. calls[r] \in RemoveCall /\ calls[r].at = "end access"
        BY <1>3, AtTells DEF RemoveEndsAccess
    <2>2. calls[r].target \in Nat /\ ~Making(calls[r])
        BY <2>1 DEF RemoveCall, Making
    <2>3. EndCall(r) /\ UNCHANGED <<founded, invites, bootstrapLock, memberLock, users, accessFaults>>
        BY <1>3 DEF RemoveEndsAccess
    <2>4. CASE MemberOf(calls[r].target) = {}
      <3>1. DeleteUser(calls[r].target)
          BY <1>3, <2>4 DEF RemoveEndsAccess
      <3>2. QED
          BY <1>0, <2>1, <2>2, <2>3, <2>4, <3>1, AccountTakenBack
    <2>5. CASE MemberOf(calls[r].target) # {}
      <3>1. UNCHANGED <<accounts, sessions, members>>
          BY <1>3, <2>5 DEF RemoveEndsAccess
      <3>2. \A u \in Nat : Minds(calls[r], u) => MemberOf(u) # {}
          BY <2>2, <2>5 DEF Minds
      <3>3. QED
          BY <1>0, <2>3, <3>1, <3>2, CallEnds
    <2>6. QED
        BY <2>4, <2>5
  <1>4. QED
      BY <1>1, <1>2, <1>3

\* An invitation is used once: whoever finds it used, or cancelled, is not let in.
LEMMA Joins ==
    ASSUME AccessInv, NEW r \in AccessRequests, AcceptJoins(r)
    PROVE  AccessInv'
  <1>0. InvitesOK /\ PeopleOK /\ LocksOK /\ accessFaults \in Nat
      BY DEF AccessInv
  <1>1. calls[r] \in AcceptCall /\ GoodCall(calls[r]) /\ calls[r].at = "join" /\ Making(calls[r])
      BY AtTells DEF AcceptJoins, Making
  <1>2. PICK i \in Invites : i = calls[r].invite
      BY <1>1 DEF AcceptCall
  <1>3. UNCHANGED <<accounts, founded, sessions, bootstrapLock, memberLock, users, accessFaults>>
      BY DEF AcceptJoins
  <1>4. CASE invites[i].status = "pending"
    <2>1. PICK m : m = [user |-> calls[r].user, role |-> calls[r].row.role, via |-> i]
        OBVIOUS
    <2>2. calls[r].user \in Nat /\ calls[r].row \in Invitation
        BY <1>1 DEF AcceptCall
    <2>3. m \in Member /\ m.user = calls[r].user /\ m.via = i
        BY <2>1, <2>2 DEF Member, Invitation
    <2>4. PICK n : n = invites[i].joined + 1
        OBVIOUS
    <2>5. /\ members' = members \cup {m} /\ EndCall(r)
          /\ invites' = [invites EXCEPT ![i].status = "accepted", ![i].joined = n]
        BY <1>2, <1>4, <2>1, <2>4 DEF AcceptJoins
    <2>6. invites[i] \in Invitation /\ n = 1
        BY <1>0, <1>4, <2>4 DEF InvitesOK, NoInvitation
    <2>7. PICK row : row = [invites[i] EXCEPT !.status = "accepted", !.joined = n]
        OBVIOUS
    <2>8. row \in Invitation /\ row.status = "accepted" /\ row.joined = 1
        BY <2>6, <2>7 DEF Invitation
    <2>9. invites' = [invites EXCEPT ![i] = row]
        BY <2>5, <2>7
    <2>10. DOMAIN invites' = Invites /\ invites'[i] = row /\ \A j \in Invites : j # i => invites'[j] = invites[j]
        BY <1>0, <2>9 DEF InvitesOK
    <2>11. i # Founder
        OBVIOUS
    <2>12. \A o \in members : o.via # i
        BY <1>0, <1>4, <2>11 DEF InvitesOK
    <2>13. \A o \in members : o.via \in Invites \cup {Founder}
        BY <1>0 DEF PeopleOK, Member
    <2>14. InvitesOK'
      <3>1. \A j \in Invites : invites'[j] \in Invitation \cup {NoInvitation}
          BY <1>0, <2>8, <2>10 DEF InvitesOK
      <3>2. \A j \in Invites : invites'[j].status = "pending" => invites'[j].joined = 0
          BY <1>0, <2>8, <2>10 DEF InvitesOK
      <3>3. \A o \in members' : o.via # Founder =>
                invites'[o.via].status = "accepted" /\ invites'[o.via].joined = 1
          BY <1>0, <2>3, <2>5, <2>8, <2>10, <2>12, <2>13 DEF InvitesOK
      <3>4. \A o, p \in members' : o.via = p.via /\ o.via # Founder => o = p
          BY <1>0, <2>3, <2>5, <2>12 DEF InvitesOK
      <3>5. QED
          BY <2>10, <3>1, <3>2, <3>3, <3>4 DEF InvitesOK, Invitation, NoInvitation
    <2>15. RowFree(i)
        BY <1>2 DEF AcceptJoins
    <2>16. ASSUME NEW s \in AccessRequests, calls[s].at = "commit removal", NEW j \in calls[s].cancelling
           PROVE  invites'[j].status = "pending"
      <3>1. j # i
          BY <2>15, <2>16 DEF RowFree
      <3>2. GoodCall(calls[s]) /\ calls[s] \in RemoveCall
          BY <2>16, AtTells
      <3>3. j \in Invites /\ invites[j].status = "pending"
          BY <2>16, <3>2 DEF GoodCall, RemoveCall
      <3>4. QED
          BY <2>10, <3>1, <3>3
    <2>17. sessions' \subseteq Nat
        BY <1>0, <1>3 DEF PeopleOK
    <2>18. QED
        BY <1>1, <1>3, <2>3, <2>5, <2>14, <2>16, <2>17, SomebodyJoins
  <1>5. CASE invites[i].status # "pending"
    <2>1. PICK c : c = [calls[r] EXCEPT !.at = "take account back"]
        OBVIOUS
    <2>2. calls' = [calls EXCEPT ![r] = c] /\ UNCHANGED <<members, invites>>
        BY <1>2, <1>5, <2>1 DEF AcceptJoins, Proceed
    <2>3. c \in AcceptCall /\ c.at = "take account back" /\ c.user = calls[r].user
        BY <1>1, <2>1 DEF AcceptCall
    <2>4. /\ ~HoldsBootstrap(c) /\ ~HoldsMembers(c) /\ ~Removing(c) /\ ~Founding(c)
          /\ ~Decided(c) /\ Making(c)
        BY <2>3 DEF HoldsBootstrap, HoldsMembers, Making, Removing, Founding, Decided
    <2>5. GoodCall(c)
        BY <1>1, <2>3, <2>4 DEF GoodCall
    <2>6. \A u \in Nat : Minds(calls[r], u) => Minds(c, u)
        BY <1>1, <2>3, <2>4 DEF Minds
    <2>7. QED
        BY <1>0, <1>1, <1>3, <2>2, <2>3, <2>4, <2>5, <2>6, CallMoves DEF LocksOK
  <1>6. QED
      BY <1>4, <1>5

\* A removal commits what it decided: an owner is left, and the invitations it cancels still waited.
LEMMA Commits ==
    ASSUME AccessInv, NEW r \in AccessRequests, RemoveCommits(r)
    PROVE  AccessInv'
  <1>0. /\ InvitesOK /\ PeopleOK /\ LocksOK /\ CallsOK /\ AccountsMinded /\ accessFaults \in Nat
        /\ users \in Nat
      BY DEF AccessInv, PeopleOK
  <1>1. /\ calls[r] \in RemoveCall /\ GoodCall(calls[r]) /\ calls[r].at = "commit removal"
        /\ HoldsMembers(calls[r]) /\ Decided(calls[r]) /\ Removing(calls[r])
      BY AtTells DEF RemoveCommits, HoldsMembers, Decided, Removing
  <1>2. PICK u \in Nat : u = calls[r].target
      BY <1>1 DEF RemoveCall
  <1>3. PICK I \in SUBSET Invites : I = calls[r].cancelling
      BY <1>1 DEF RemoveCall
  <1>4. PICK c : c = [calls[r] EXCEPT !.at = "end access"]
      OBVIOUS
  <1>5. /\ calls' = [calls EXCEPT ![r] = c] /\ members' = members \ MemberOf(u)
        /\ invites' = [i \in Invites |-> IF i \in I THEN [invites[i] EXCEPT !.status = "canceled"]
                                                    ELSE invites[i]]
        /\ memberLock' = Nobody
        /\ UNCHANGED <<accounts, founded, sessions, bootstrapLock, users, accessFaults>>
      BY <1>2, <1>3, <1>4 DEF RemoveCommits, Proceed
  <1>6. /\ c \in RemoveCall /\ c.at = "end access" /\ c.target = u
      BY <1>1, <1>2, <1>4 DEF RemoveCall
  <1>7. /\ ~HoldsBootstrap(c) /\ ~HoldsMembers(c) /\ Removing(c) /\ ~Making(c) /\ ~Founding(c)
        /\ ~Decided(c)
      BY <1>6 DEF HoldsBootstrap, HoldsMembers, Making, Removing, Founding, Decided
  <1>8. u <= users
      BY <1>1, <1>2 DEF GoodCall
  <1>9. GoodCall(c)'
    <2>1. c \in RegisterCall \cup InviteCall \cup AcceptCall \cup RemoveCall /\ c.target <= users'
        BY <1>5, <1>6, <1>8
    <2>2. QED
        BY <1>6, <1>7, <2>1 DEF GoodCall, Making, Founding, Removing, Decided
  <1>10. PICK o \in Owners : o.user # u
      BY <1>1, <1>2 DEF GoodCall
  <1>11. o \in Owners'
      BY <1>5, <1>10 DEF Owners, MemberOf
  <1>12. \A v : HasAccount(v)' <=> HasAccount(v)
      BY <1>5 DEF HasAccount
  <1>13. /\ \A v : v # u => MemberOf(v)' = MemberOf(v)
         /\ \A v : MemberOf(v)' \subseteq MemberOf(v)
      BY <1>5 DEF MemberOf
  <1>14. PeopleOK'
    <2>1. members' \in SUBSET members /\ IsFiniteSet(members)
        BY <1>0, <1>5 DEF PeopleOK
    <2>2. IsFiniteSet(members')
        BY <2>1, FS_Subset
    <2>3. \A m \in members' : (m.user \in 1..users /\ HasAccount(m.user))'
        BY <1>0, <1>5, <2>1 DEF PeopleOK, HasAccount
    <2>4. members' \subseteq Member'
        BY <1>0, <2>1 DEF PeopleOK, Member
    <2>5. \A m, n \in members' : m.user = n.user => m = n
        BY <1>0, <2>1 DEF PeopleOK
    <2>6. QED
        BY <1>0, <1>5, <1>11, <2>2, <2>3, <2>4, <2>5 DEF PeopleOK
  <1>15. \A i \in I : invites[i] \in Invitation /\ invites[i].status = "pending"
    <2>1. \A i \in I : invites[i].status = "pending"
        BY <1>1, <1>3 DEF GoodCall
    <2>2. QED
        BY <1>0, <2>1 DEF InvitesOK, NoInvitation
  <1>16. /\ \A i \in I : invites'[i] \in Invitation /\ invites'[i].status = "canceled"
         /\ \A i \in Invites : i \notin I => invites'[i] = invites[i]
         /\ DOMAIN invites' = Invites
    <2>1. \A i \in I : invites'[i] = [invites[i] EXCEPT !.status = "canceled"]
        BY <1>5
    <2>2. ASSUME NEW i \in I
          PROVE  invites'[i] \in Invitation /\ invites'[i].status = "canceled"
      <3>1. PICK row \in Invitation : row = invites[i]
          BY <1>15
      <3>2. invites'[i] = [row EXCEPT !.status = "canceled"]
          BY <2>1, <3>1
      <3>3. QED
          BY <3>2 DEF Invitation
    <2>3. QED
        BY <1>5, <2>2
  <1>17. InvitesOK'
    <2>1. members' \subseteq members
        BY <1>5
    <2>2. \A i \in Invites : invites'[i] \in Invitation \cup {NoInvitation}
        BY <1>0, <1>16 DEF InvitesOK
    <2>3. \A i \in Invites : invites'[i].status = "pending" => invites'[i].joined = 0
        BY <1>0, <1>16 DEF InvitesOK
    <2>4. ASSUME NEW m \in members', m.via # Founder
          PROVE  invites'[m.via].status = "accepted" /\ invites'[m.via].joined = 1
      <3>1. m.via \in Invites
          BY <1>0, <2>1, <2>4 DEF PeopleOK, Member
      <3>2. invites[m.via].status = "accepted" /\ invites[m.via].joined = 1
          BY <1>0, <2>1, <2>4 DEF InvitesOK
      <3>3. m.via \notin I
          BY <1>15, <3>2
      <3>4. QED
          BY <1>16, <3>1, <3>2, <3>3
    <2>5. \A m, n \in members' : m.via = n.via /\ m.via # Founder => m = n
        BY <1>0, <2>1 DEF InvitesOK
    <2>6. QED
        BY <1>16, <2>2, <2>3, <2>4, <2>5 DEF InvitesOK, Invitation, NoInvitation
  <1>18. \A s \in AccessRequests : s # r => ~HoldsMembers(calls[s])
      BY <1>0, <1>1 DEF LocksOK
  <1>19. ASSUME NEW s \in AccessRequests, s # r, calls[s] # NoCall PROVE GoodCall(calls[s])'
    <2>1. PICK d : d = calls[s]
        OBVIOUS
    <2>2. GoodCall(d) /\ ~HoldsMembers(d)
        BY <1>0, <1>18, <1>19, <2>1 DEF CallsOK
    <2>3. Making(d) => HasAccount(d.user)' /\ MemberOf(d.user)' = {}
        BY <1>12, <1>13, <2>2 DEF GoodCall
    <2>4. ~Decided(d) /\ d.at # "commit removal"
        BY <2>2 DEF Decided, HoldsMembers
    <2>5. users' \in Nat /\ users' >= users /\ founded' = founded
        BY <1>0, <1>5, StillAsMany
    <2>6. GoodCall(d)'
        BY <1>0, <2>2, <2>3, <2>4, <2>5, OthersStay
    <2>7. \A e : GoodCall(e)' /\ e = calls[s] => GoodCall(calls[s])'
        BY <1>0, <1>5, <1>19 DEF CallsOK, GoodCall, Making, Founding, Removing, Decided
    <2>8. QED
        BY <2>1, <2>6, <2>7
  <1>20. AccountsMinded'
    <2>1. calls'[r] = c /\ \A s \in AccessRequests : s # r => calls'[s] = calls[s]
        BY <1>0, <1>5 DEF CallsOK
    <2>2. \A v : ~Minds(calls[r], v)
        BY <1>1 DEF Minds, Making
    <2>3. Minds(c, u)
        BY <1>6 DEF Minds
    <2>4. ASSUME accessFaults = 0, NEW q \in People, accounts[q] # 0
          PROVE  MemberOf(accounts[q])' # {} \/ \E s \in AccessRequests : Minds(calls'[s], accounts[q])
      <3>1. CASE accounts[q] = u
          BY <2>1, <2>3, <3>1
      <3>2. CASE accounts[q] # u
        <4>1. MemberOf(accounts[q])' = MemberOf(accounts[q])
            BY <1>5, <3>2 DEF MemberOf
        <4>2. MemberOf(accounts[q]) # {} \/ \E s \in AccessRequests : Minds(calls[s], accounts[q])
            BY <1>0, <2>4 DEF AccountsMinded
        <4>3. QED
            BY <2>1, <2>2, <4>1, <4>2
      <3>3. QED
          BY <3>1, <3>2
    <2>5. QED
        BY <1>5, <2>4 DEF AccountsMinded, Minds, Making, MemberOf
  <1>21. \A s \in AccessRequests : s # r =>
              /\ HoldsBootstrap(calls[s]) => bootstrapLock' = s
              /\ HoldsMembers(calls[s]) => memberLock' = s
      BY <1>0, <1>5, <1>18 DEF LocksOK
  <1>22. accessFaults' \in Nat
      BY <1>0, <1>5
  <1>23. QED
      BY <1>1, <1>2, <1>5, <1>6, <1>7, <1>9, <1>14, <1>17, <1>19, <1>20, <1>21, <1>22, RowsChange

-----------------------------------------------------------------------------
\* An invitation that nobody has joined by changes: the members' own stay as they are.
LEMMA OneInvitationChanges ==
    ASSUME PeopleOK, InvitesOK, NEW i \in Invites, NEW row \in Invitation,
           invites' = [invites EXCEPT ![i] = row], UNCHANGED members,
           row.status # "accepted", row.status = "pending" => row.joined = 0,
           invites[i].status # "accepted"
    PROVE  InvitesOK' /\ \A j \in Invites : j # i => invites'[j] = invites[j]
  <1>1. DOMAIN invites' = Invites /\ invites'[i] = row /\ \A j \in Invites : j # i => invites'[j] = invites[j]
      BY DEF InvitesOK
  <1>2. \A m \in members : m.via \in Invites \cup {Founder}
      BY DEF PeopleOK, Member
  <1>3. \A j \in Invites : invites'[j] \in Invitation \cup {NoInvitation}
      BY <1>1 DEF InvitesOK
  <1>4. \A j \in Invites : invites'[j].status = "pending" => invites'[j].joined = 0
      BY <1>1 DEF InvitesOK
  <1>5. ASSUME NEW m \in members, m.via # Founder
        PROVE  invites'[m.via].status = "accepted" /\ invites'[m.via].joined = 1
    <2>1. invites[m.via].status = "accepted" /\ invites[m.via].joined = 1
        BY <1>5 DEF InvitesOK
    <2>2. m.via # i /\ m.via \in Invites
        BY <1>2, <1>5, <2>1
    <2>3. QED
        BY <1>1, <2>1, <2>2
  <1>6. QED
      BY <1>1, <1>3, <1>4, <1>5 DEF InvitesOK, Invitation, NoInvitation

LEMMA Inserts ==
    ASSUME AccessInv, NEW r \in AccessRequests, NEW i \in Invites, InviteInserted(r, i)
    PROVE  AccessInv'
  <1>0. /\ InvitesOK /\ PeopleOK /\ LocksOK /\ CallsOK /\ AccountsMinded /\ accessFaults \in Nat
        /\ users \in Nat
      BY DEF AccessInv, PeopleOK
  <1>1. calls[r] \in InviteCall /\ calls[r].at = "insert invitation"
      BY AtTells DEF InviteInserted
  <1>2. PICK row : row = [status |-> "pending", person |-> calls[r].person, role |-> calls[r].role,
                          inviter |-> calls[r].caller, expired |-> FALSE, joined |-> 0]
      OBVIOUS
  <1>3. row \in Invitation /\ row.status = "pending" /\ row.joined = 0
    <2>1. calls[r].person \in People /\ calls[r].role \in Roles /\ calls[r].caller \in Nat
        BY <1>1 DEF InviteCall
    <2>2. QED
        BY <1>2, <2>1 DEF Invitation
  <1>4. /\ invites' = [invites EXCEPT ![i] = row] /\ invites[i].status = "none" /\ EndCall(r)
        /\ UNCHANGED <<accounts, founded, members, sessions, bootstrapLock, memberLock, users, accessFaults>>
      BY <1>2 DEF InviteInserted
  <1>5. InvitesOK' /\ \A j \in Invites : j # i => invites'[j] = invites[j]
      BY <1>0, <1>3, <1>4, OneInvitationChanges
  <1>6. PeopleOK'
      BY <1>0, <1>4 DEF PeopleOK, Owners, HasAccount
  <1>7. calls' = [calls EXCEPT ![r] = NoCall]
      BY <1>4 DEF EndCall
  <1>8. ASSUME NEW s \in AccessRequests, s # r, calls[s] # NoCall PROVE GoodCall(calls[s])'
    <2>1. PICK d : d = calls[s]
        OBVIOUS
    <2>2. GoodCall(d)
        BY <1>0, <1>8, <2>1 DEF CallsOK
    <2>3. Making(d) => HasAccount(d.user)' /\ MemberOf(d.user)' = {}
        BY <1>4, <2>2 DEF GoodCall, HasAccount, MemberOf
    <2>4. Decided(d) => \E n \in Owners' : n.user # d.target
        BY <1>4, <2>2 DEF GoodCall, Owners
    <2>5. d.at = "commit removal" => \A j \in d.cancelling : invites'[j].status = "pending"
      <3>1. SUFFICES ASSUME d.at = "commit removal", NEW j \in d.cancelling
                     PROVE  invites'[j].status = "pending"
          OBVIOUS
      <3>2. d \in RemoveCall
          BY <2>1, <3>1, AtTells
      <3>3. j \in Invites /\ invites[j].status = "pending"
          BY <2>2, <3>1, <3>2 DEF GoodCall, RemoveCall
      <3>4. QED
          BY <1>4, <1>5, <3>3
    <2>6. users' \in Nat /\ users' >= users /\ founded' = founded
        BY <1>0, <1>4, StillAsMany
    <2>7. GoodCall(d)'
        BY <1>0, <2>2, <2>3, <2>4, <2>5, <2>6, OthersStay
    <2>8. \A e : GoodCall(e)' /\ e = calls[s] => GoodCall(calls[s])'
        BY <1>0, <1>7, <1>8 DEF CallsOK, GoodCall, Making, Founding, Removing, Decided
    <2>9. QED
        BY <2>1, <2>7, <2>8
  <1>9. AccountsMinded'
    <2>1. \A s \in AccessRequests : s # r => calls'[s] = calls[s]
        BY <1>0, <1>7 DEF CallsOK
    <2>2. \A v : ~Minds(calls[r], v)
        BY <1>1 DEF Minds, Making
    <2>3. ASSUME accessFaults = 0, NEW q \in People, accounts[q] # 0
          PROVE  MemberOf(accounts[q]) # {} \/ \E s \in AccessRequests : Minds(calls'[s], accounts[q])
        BY <1>0, <2>1, <2>2, <2>3 DEF AccountsMinded
    <2>4. QED
        BY <1>4, <2>3 DEF AccountsMinded, Minds, Making, MemberOf
  <1>10. \A s \in AccessRequests : s # r =>
              /\ HoldsBootstrap(calls[s]) => bootstrapLock' = s
              /\ HoldsMembers(calls[s]) => memberLock' = s
      BY <1>0, <1>4 DEF LocksOK
  <1>11. accessFaults' \in Nat
      BY <1>0, <1>4
  <1>12. QED
      BY <1>5, <1>6, <1>7, <1>8, <1>9, <1>10, <1>11, NoCallIdle, RowsChange

\* What happens beside the requests: an invitation expires or is cancelled, somebody signs in or out.
LEMMA BesideRequests ==
    ASSUME AccessInv,
           \/ \E p \in People : SignIn(p)
           \/ \E u \in sessions : SignOut(u) \/ \E i \in Invites : CancelInvitation(u, i)
           \/ \E i \in Invites : InviteExpires(i)
           \/ UNCHANGED accessVars
    PROVE  AccessInv'
  <1>0. PeopleOK /\ InvitesOK /\ sessions \subseteq Nat /\ accounts \in [People -> Nat]
      BY DEF AccessInv, PeopleOK
  <1>1. \A s \in AccessRequests : calls[s].at = "commit removal" =>
             calls[s].cancelling \subseteq Invites /\ \A i \in calls[s].cancelling : invites[i].status = "pending"
      BY AtTells DEF GoodCall, RemoveCall
  <1>2. CASE (\E p \in People : SignIn(p)) \/ (\E u \in sessions : SignOut(u)) \/ UNCHANGED accessVars
    <2>1. UNCHANGED <<accounts, founded, members, invites, calls, bootstrapLock, memberLock, users, accessFaults>>
        BY <1>2 DEF SignIn, SignOut, accessVars
    <2>2. sessions' \subseteq Nat
      <3>1. ASSUME NEW p \in People, SignIn(p) PROVE sessions' \subseteq Nat
        <4>1. accounts[p] \in Nat /\ sessions' = sessions \cup {accounts[p]}
            BY <1>0, <3>1 DEF SignIn
        <4>2. QED
            BY <1>0, <4>1
      <3>2. ASSUME NEW u \in sessions, SignOut(u) PROVE sessions' \subseteq Nat
        <4>1. sessions' = sessions \ {u}
            BY <3>2 DEF SignOut
        <4>2. QED
            BY <1>0, <4>1
      <3>3. QED
          BY <1>0, <1>2, <3>1, <3>2 DEF accessVars
    <2>3. InvitesOK'
        BY <1>0, <2>1 DEF InvitesOK
    <2>4. QED
        BY <1>1, <2>1, <2>2, <2>3, RowsOnly
  <1>3. ASSUME NEW i \in Invites, InviteExpires(i) PROVE AccessInv'
    <2>1. /\ invites[i].status = "pending"
          /\ UNCHANGED <<accounts, founded, members, sessions, calls, bootstrapLock, memberLock, users, accessFaults>>
        BY <1>3 DEF InviteExpires
    <2>2. PICK row : row = [invites[i] EXCEPT !.expired = TRUE]
        OBVIOUS
    <2>3. invites' = [invites EXCEPT ![i] = row]
        BY <1>3, <2>2 DEF InviteExpires
    <2>4. invites[i] \in Invitation /\ invites[i].joined = 0
        BY <1>0, <2>1 DEF InvitesOK, NoInvitation
    <2>5. row \in Invitation /\ row.status = "pending" /\ row.joined = 0
        BY <2>1, <2>2, <2>4 DEF Invitation
    <2>6. InvitesOK' /\ \A j \in Invites : j # i => invites'[j] = invites[j]
        BY <1>0, <2>1, <2>3, <2>5, OneInvitationChanges
    <2>7. invites'[i].status = "pending"
        BY <1>0, <2>3, <2>5 DEF InvitesOK
    <2>8. QED
        BY <1>0, <1>1, <2>1, <2>6, <2>7, RowsOnly
  <1>4. ASSUME NEW u \in sessions, NEW i \in Invites, CancelInvitation(u, i) PROVE AccessInv'
    <2>1. /\ invites[i].status = "pending" /\ RowFree(i)
          /\ UNCHANGED <<accounts, founded, members, sessions, calls, bootstrapLock, memberLock, users, accessFaults>>
        BY <1>4 DEF CancelInvitation
    <2>2. PICK row : row = [invites[i] EXCEPT !.status = "canceled"]
        OBVIOUS
    <2>3. invites' = [invites EXCEPT ![i] = row]
        BY <1>4, <2>2 DEF CancelInvitation
    <2>4. invites[i] \in Invitation
        BY <1>0, <2>1 DEF InvitesOK, NoInvitation
    <2>5. row \in Invitation /\ row.status = "canceled"
        BY <2>2, <2>4 DEF Invitation
    <2>6. InvitesOK' /\ \A j \in Invites : j # i => invites'[j] = invites[j]
        BY <1>0, <2>1, <2>3, <2>5, OneInvitationChanges
    <2>7. \A s \in AccessRequests : calls[s].at = "commit removal" => i \notin calls[s].cancelling
        BY <2>1 DEF RowFree
    <2>8. QED
        BY <1>0, <1>1, <2>1, <2>6, <2>7, RowsOnly
  <1>5. QED
      BY <1>2, <1>3, <1>4

-----------------------------------------------------------------------------
\* Every step keeps the invariant.
LEMMA AccessStep == AccessInv /\ [AccessNext]_accessVars => AccessInv'
  <1> SUFFICES ASSUME AccessInv, [AccessNext]_accessVars PROVE AccessInv'
      OBVIOUS
  <1>1. ASSUME NEW r \in AccessRequests,
               \/ RegisterLocked(r) \/ RegisterLooks(r) \/ InviteChecked(r) \/ AcceptReadsInviter(r)
               \/ RemoveLocked(r) \/ RemoveDecides(r) \/ RemoveCancels(r)
        PROVE  AccessInv'
      BY <1>1, ReadingSteps
  <1>2. ASSUME NEW r \in AccessRequests,
               \/ RegisterSignsUp(r) \/ AcceptSignsUp(r) \/ CallDies(r) \/ RegisterFounds(r)
               \/ FoundingFails(r) \/ AcceptUndone(r) \/ RemoveEndsAccess(r)
               \/ AcceptJoins(r) \/ RemoveCommits(r) \/ \E i \in Invites : InviteInserted(r, i)
        PROVE  AccessInv'
      BY <1>2, SigningUp, Dying, Founds, TakingBack, Joins, Commits, Inserts
  <1>3. ASSUME NEW r \in AccessRequests,
               \/ \E p \in People : StartRegister(r, p)
               \/ \E u \in sessions, p \in People, role \in Roles : StartInvite(r, u, p, role)
               \/ \E i \in Invites : StartAccept(r, i)
               \/ \E u \in sessions, m \in members : StartRemove(r, u, m)
        PROVE  AccessInv'
      BY <1>3, StartingSteps
  <1>4. CASE \/ \E p \in People : SignIn(p)
             \/ \E u \in sessions : SignOut(u) \/ \E i \in Invites : CancelInvitation(u, i)
             \/ \E i \in Invites : InviteExpires(i)
             \/ UNCHANGED accessVars
      BY <1>4, BesideRequests
  <1>5. QED
      BY <1>1, <1>2, <1>3, <1>4 DEF AccessNext

\* The invariant says what the property asks.
LEMMA AccessInvIsEnough == AccessInv => AccessIsKept
  <1> SUFFICES ASSUME AccessInv PROVE AccessIsKept
      OBVIOUS
  <1>0. PeopleOK /\ InvitesOK /\ CallsOK /\ AccountsMinded
      BY DEF AccessInv
  <1>1. OwnersRemain
    <2>1. founded = 0 \/ founded = 1
        BY <1>0 DEF PeopleOK
    <2>2. founded = 1 => Owners # {}
        BY <1>0 DEF PeopleOK
    <2>3. QED
        BY <2>1, <2>2 DEF OwnersRemain
  <1>2. ASSUME NEW i \in Invites PROVE Cardinality({m \in members : m.via = i}) <= 1
    <2> DEFINE J == {m \in members : m.via = i}
    <2>1. i # Founder
        OBVIOUS
    <2>2. \A m, n \in J : m = n
        BY <1>0, <2>1 DEF InvitesOK
    <2>3. CASE J = {}
      <3>1. Cardinality(J) = 0
          BY <2>3, FS_EmptySet
      <3>2. QED
          BY <3>1
    <2>4. CASE J # {}
      <3>1. PICK m : J = {m}
          BY <2>2, <2>4
      <3>2. Cardinality(J) = 1
          BY <3>1, FS_Singleton
      <3>3. QED
          BY <3>2
    <2>5. QED
        BY <2>3, <2>4
  <1>3. ASSUME NEW r \in AccessRequests, NEW u, Minds(calls[r], u) PROVE LooksAfter(r, u)
    <2>1. GoodCall(calls[r]) /\ calls[r].at # "none"
        BY <1>0, <1>3, NoCallIdle DEF CallsOK, Minds, Making
    <2>2. CASE Making(calls[r]) /\ calls[r].user = u
      <3>1. calls[r] \in RegisterCall \cup AcceptCall
          BY <2>2, AtTells DEF Making
      <3>2. "user" \in DOMAIN calls[r]
          BY <3>1 DEF RegisterCall, AcceptCall
      <3>3. calls[r]["user"] = u
          BY <2>2
      <3>4. QED
          BY <3>2, <3>3 DEF LooksAfter
    <2>3. CASE calls[r].at = "end access" /\ calls[r].target = u
      <3>1. calls[r] \in RemoveCall
          BY <2>3, AtTells
      <3>2. "target" \in DOMAIN calls[r]
          BY <3>1 DEF RemoveCall
      <3>3. calls[r]["target"] = u
          BY <2>3
      <3>4. QED
          BY <3>2, <3>3 DEF LooksAfter
    <2>4. QED
        BY <1>3, <2>2, <2>3 DEF Minds
  <1>4. InvitationsWorkOnce
      BY <1>0, <1>2, <1>3 DEF InvitationsWorkOnce, InvitesOK, AccountsMinded
  <1>5. QED
      BY <1>1, <1>4 DEF AccessIsKept

\* However many people register, are invited, accept and remove one another at the same time, and
\* however their requests fail: the deployment has one organisation which keeps an owner, an invitation
\* lets in one person and only while it waits, and until a request fails no account is left that nobody
\* belongs with (registerFirstOwner, invite, acceptInvitation, remove).
THEOREM EntryIsKept == AccessSpec => []AccessIsKept
  <1>1. AccessSpec => []AccessInv
      BY AccessBegins, AccessStep, PTL DEF AccessSpec
  <1>2. QED
      BY <1>1, AccessInvIsEnough, PTL


-----------------------------------------------------------------------------
(***************************************************************************)
(* HostPreparation, for any machines and any runs of the setup script.  What *)
(* each section of a run made sure of stands, whatever other runs and      *)
(* provisioning did since, because no section takes back what a section makes *)
(* sure of.                                                                *)
(***************************************************************************)
PrepareTypes ==
    /\ machine \in {NoMachine} \cup Facts
    /\ runs \in [Runs -> [at : 0..(Len(Sections) + 1), create : BOOLEAN, unlock : BOOLEAN]]
    /\ printed \in BOOLEAN

\* What each section of a run has made sure of stands, whatever other runs did since.
RunsLeave ==
    \A r \in Runs : runs[r].at > 0 =>
        /\ machine \in Facts
        /\ runs[r].at > 1 => machine.account # "missing"
        /\ runs[r].at > 3 => machine.account = "open"
        /\ runs[r].at > 4 => machine.key = "authorised"
        /\ runs[r].at > 5 => machine.linger /\ machine.systemd
        /\ runs[r].at > 6 => machine.supported
        /\ runs[r].at > 7 => machine.podman # 0
        /\ runs[r].at > 8 => machine.ranges
        /\ runs[r].at > 9 => machine.shell /\ machine.home # "missing"

PrepareInv == PrepareTypes /\ RunsLeave /\ (printed => machine \in Facts) /\ PrintedMeansPrepared

-----------------------------------------------------------------------------
\* No section takes back what a section makes sure of.
Improves(m, n) ==
    /\ n \in Facts
    /\ m.account # "missing" => n.account # "missing"
    /\ m.account = "open" => n.account = "open"
    /\ m.key = "authorised" => n.key = "authorised"
    /\ m.shell => n.shell
    /\ m.home # "missing" => n.home # "missing"
    /\ m.systemd => n.systemd
    /\ m.linger => n.linger
    /\ m.supported => n.supported
    /\ m.podman # 0 => n.podman # 0
    /\ m.ranges => n.ranges

LEMMA TheSections ==
    /\ Len(Sections) = 9 /\ DOMAIN Sections = 1..9
    /\ Sections[1] = "account" /\ Sections[2] = "root" /\ Sections[3] = "lock" /\ Sections[4] = "authorise"
    /\ Sections[5] = "linger" /\ Sections[6] = "architecture" /\ Sections[7] = "podman" /\ Sections[8] = "ranges"
    /\ Sections[9] = "signIn"
  BY DEF Sections

\* Changing facts of a machine.
LEMMA FactsChange ==
    ASSUME NEW m \in Facts
    PROVE  /\ Improves(m, m)
           /\ Improves(m, [m EXCEPT !.account = "open"])
           /\ Improves(m, [m EXCEPT !.account = "open", !.shell = TRUE, !.home = "own"])
           /\ Improves(m, [m EXCEPT !.key = "authorised"])
           /\ Improves(m, [m EXCEPT !.linger = TRUE])
           /\ Improves(m, [m EXCEPT !.ranges = TRUE])
           /\ \A p \in Nat, h \in SUBSET {"pasta", "slirp4netns"} :
                 p # 0 => Improves(m, [m EXCEPT !.podman = p, !.helpers = h])
           /\ \A s \in {"fresh", "set-up", "used"} : Improves(m, [m EXCEPT !.storage = s])
  <1>1. Improves(m, m)
      BY DEF Improves
  <1>a. ASSUME NEW n \in Facts, n.account = m.account \/ n.account = "open", n.shell = m.shell \/ n.shell,
               n.home = m.home \/ n.home = "own", n.systemd = m.systemd, n.supported = m.supported,
               n.podman = m.podman \/ n.podman # 0,
               n.key = m.key \/ n.key = "authorised", n.linger = m.linger \/ n.linger, n.ranges = m.ranges \/ n.ranges
        PROVE  Improves(m, n)
      BY <1>a DEF Improves
  <1>2. /\ Improves(m, [m EXCEPT !.account = "open"])
        /\ Improves(m, [m EXCEPT !.account = "open", !.shell = TRUE, !.home = "own"])
    <2>1. Improves(m, [m EXCEPT !.account = "open"])
      <3> DEFINE n == [m EXCEPT !.account = "open"]
      <3>1. n \in Facts
          BY DEF Facts
      <3>2. QED
          BY <1>a, <3>1 DEF Facts
    <2>2. Improves(m, [m EXCEPT !.account = "open", !.shell = TRUE, !.home = "own"])
      <3> DEFINE n == [m EXCEPT !.account = "open", !.shell = TRUE, !.home = "own"]
      <3>1. n \in Facts
          BY DEF Facts
      <3>2. n.account = "open" /\ n.shell = TRUE /\ n.home = "own"
          BY DEF Facts
      <3>3. n.systemd = m.systemd /\ n.supported = m.supported /\ n.podman = m.podman /\ n.key = m.key
          BY DEF Facts
      <3>4. n.linger = m.linger /\ n.ranges = m.ranges
          BY DEF Facts
      <3> HIDE DEF n
      <3>5. Improves(m, n)
          BY <1>a, <3>1, <3>2, <3>3, <3>4
      <3>6. QED
          BY <3>5 DEF n
    <2>3. QED
        BY <2>1, <2>2
  <1>3. Improves(m, [m EXCEPT !.key = "authorised"])
    <2> DEFINE n == [m EXCEPT !.key = "authorised"]
    <2>1. n \in Facts
        BY DEF Facts
    <2>2. QED
        BY <1>a, <2>1 DEF Facts
  <1>4. Improves(m, [m EXCEPT !.linger = TRUE])
    <2> DEFINE n == [m EXCEPT !.linger = TRUE]
    <2>1. n \in Facts
        BY DEF Facts
    <2>2. QED
        BY <1>a, <2>1 DEF Facts
  <1>5. Improves(m, [m EXCEPT !.ranges = TRUE])
    <2> DEFINE n == [m EXCEPT !.ranges = TRUE]
    <2>1. n \in Facts
        BY DEF Facts
    <2>2. QED
        BY <1>a, <2>1 DEF Facts
  <1>6. ASSUME NEW p \in Nat, NEW h \in SUBSET {"pasta", "slirp4netns"}, p # 0
        PROVE  Improves(m, [m EXCEPT !.podman = p, !.helpers = h])
    <2> DEFINE n == [m EXCEPT !.podman = p, !.helpers = h]
    <2>1. n \in Facts
        BY DEF Facts
    <2>2. n.podman = p /\ n.account = m.account /\ n.shell = m.shell /\ n.home = m.home /\ n.systemd = m.systemd
        BY DEF Facts
    <2>3. n.supported = m.supported /\ n.key = m.key /\ n.linger = m.linger /\ n.ranges = m.ranges
        BY DEF Facts
    <2> HIDE DEF n
    <2>4. Improves(m, n)
        BY <1>6, <1>a, <2>1, <2>2, <2>3
    <2>5. QED
        BY <2>4 DEF n
  <1>7. ASSUME NEW s \in {"fresh", "set-up", "used"} PROVE Improves(m, [m EXCEPT !.storage = s])
      BY DEF Improves, Facts
  <1>8. QED
      BY <1>1, <1>2, <1>3, <1>4, <1>5, <1>6, <1>7

\* What a section leaves when the script goes on: no fact taken back, and its own made sure of.
LEMMA SectionLeaves ==
    ASSUME NEW m \in Facts, NEW run \in [at : 0..(Len(Sections) + 1), create : BOOLEAN, unlock : BOOLEAN],
           NEW k \in 1..9, NEW n \in After(Sections[k], m, run)
    PROVE  /\ Improves(m, n)
           /\ k = 1 => n.account # "missing"
           /\ k = 3 /\ m.account # "missing" => n.account = "open"
           /\ k = 4 => n.key = "authorised"
           /\ k = 5 => n.linger /\ n.systemd
           /\ k = 6 => n.supported
           /\ k = 7 => n.podman # 0
           /\ k = 8 => n.ranges
           /\ k = 9 => n.shell /\ n.home # "missing"
  <1>0. m.account \in {"missing", "locked", "open"} /\ m.podman \in Nat /\ m.candidate \in Nat
        /\ m.helpers \in SUBSET {"pasta", "slirp4netns"}
      BY DEF Facts
  <1>1. CASE k = 1
    <2>1. n \in AccountSection(m, run)
        BY <1>1, TheSections DEF After
    <2>2. (n = m /\ m.account # "missing") \/ n = [m EXCEPT !.account = "open", !.shell = TRUE, !.home = "own"]
        BY <2>1 DEF AccountSection
    <2>3. n.account # "missing"
        BY <2>2 DEF Facts
    <2>4. Improves(m, n)
        BY <2>2, FactsChange
    <2>5. QED
        BY <1>1, <2>3, <2>4
  <1>2. CASE k = 2
    <2>1. n \in RootSection(m)
        BY <1>2, TheSections DEF After
    <2>2. n = m
        BY <2>1 DEF RootSection
    <2>3. Improves(m, n)
        BY <2>2, FactsChange
    <2>4. QED
        BY <1>2, <2>2, <2>3
  <1>3. CASE k = 3
    <2>1. n \in LockSection(m, run)
        BY <1>3, TheSections DEF After
    <2>2. (n = m /\ m.account # "locked") \/ n = [m EXCEPT !.account = "open"]
        BY <2>1 DEF LockSection
    <2>3. m.account # "missing" => n.account = "open"
        BY <1>0, <2>2 DEF Facts
    <2>4. Improves(m, n)
        BY <2>2, FactsChange
    <2>5. QED
        BY <1>3, <2>3, <2>4
  <1>4. CASE k = 4
    <2>1. n \in AuthoriseSection(m)
        BY <1>4, TheSections DEF After
    <2>2. n = [m EXCEPT !.key = "authorised"]
        BY <2>1 DEF AuthoriseSection
    <2>3. n.key = "authorised"
        BY <2>2 DEF Facts
    <2>4. Improves(m, n)
        BY <2>2, FactsChange
    <2>5. QED
        BY <1>4, <2>3, <2>4
  <1>5. CASE k = 5
    <2>1. n \in LingerSection(m)
        BY <1>5, TheSections DEF After
    <2>2. n = [m EXCEPT !.linger = TRUE] /\ m.systemd
        BY <2>1 DEF LingerSection
    <2>3. n.linger /\ n.systemd
        BY <2>2 DEF Facts
    <2>4. Improves(m, n)
        BY <2>2, FactsChange
    <2>5. QED
        BY <1>5, <2>3, <2>4
  <1>6. CASE k = 6
    <2>1. n \in ArchitectureSection(m)
        BY <1>6, TheSections DEF After
    <2>2. n = m /\ m.supported
        BY <2>1 DEF ArchitectureSection
    <2>3. Improves(m, n)
        BY <2>2, FactsChange
    <2>4. QED
        BY <1>6, <2>2, <2>3
  <1>7. CASE k = 7
    <2>1. n \in PodmanSection(m)
        BY <1>7, TheSections DEF After
    <2> DEFINE h == m.helpers \cup {StackFor(m.candidate)}
    <2>2. \/ n = m /\ m.podman # 0
          \/ m.candidate # 0 /\ n = [m EXCEPT !.podman = m.candidate, !.helpers = h]
        BY <2>1 DEF PodmanSection
    <2>3. h \in SUBSET {"pasta", "slirp4netns"}
        BY <1>0 DEF StackFor
    <2>4. m.candidate # 0 => Improves(m, [m EXCEPT !.podman = m.candidate, !.helpers = h])
        BY <1>0, <2>3, FactsChange
    <2>5. [m EXCEPT !.podman = m.candidate, !.helpers = h].podman = m.candidate
        BY DEF Facts
    <2>6. Improves(m, n)
        BY <2>2, <2>4, FactsChange
    <2>7. n.podman # 0
        BY <2>2, <2>5
    <2>8. QED
        BY <1>7, <2>6, <2>7
  <1>8. CASE k = 8
    <2>1. n \in RangesSection(m)
        BY <1>8, TheSections DEF After
    <2>2. n = [m EXCEPT !.ranges = TRUE]
        BY <2>1 DEF RangesSection
    <2>3. n.ranges
        BY <2>2 DEF Facts
    <2>4. Improves(m, n)
        BY <2>2, FactsChange
    <2>5. QED
        BY <1>8, <2>3, <2>4
  <1>9. CASE k = 9
    <2>1. n \in SignInSection(m)
        BY <1>9, TheSections DEF After
    <2>2. n = m /\ m.shell /\ m.home # "missing"
        BY <2>1 DEF SignInSection
    <2>3. Improves(m, n)
        BY <2>2, FactsChange
    <2>4. QED
        BY <1>9, <2>2, <2>3
  <1>10. QED
      BY <1>1, <1>2, <1>3, <1>4, <1>5, <1>6, <1>7, <1>8, <1>9

\* A better machine is as good for every run, and for what was printed.
LEMMA BetterIsAsGood ==
    ASSUME PrepareInv, machine \in Facts, Improves(machine, machine'), UNCHANGED <<runs, printed>>
    PROVE  PrepareInv'
  <1>1. PrepareTypes'
      BY DEF PrepareInv, PrepareTypes, Improves
  <1>2. RunsLeave'
      BY DEF PrepareInv, RunsLeave, Improves
  <1>3. (printed' => machine' \in Facts) /\ PrintedMeansPrepared'
      BY DEF PrepareInv, PrintedMeansPrepared, Improves
  <1>4. QED
      BY <1>1, <1>2, <1>3 DEF PrepareInv

-----------------------------------------------------------------------------
LEMMA PrepareStep == PrepareInv /\ [PrepareNext]_prepareVars => PrepareInv'
  <1> SUFFICES ASSUME PrepareInv, [PrepareNext]_prepareVars PROVE PrepareInv'
      OBVIOUS
  <1> DEFINE Run == [at : 0..(Len(Sections) + 1), create : BOOLEAN, unlock : BOOLEAN]
  <1>0. PrepareTypes /\ RunsLeave /\ (printed => machine \in Facts) /\ PrintedMeansPrepared
      BY DEF PrepareInv
  <1>a. NoRun \in Run /\ NoRun.at = 0 /\ Len(Sections) = 9
      BY TheSections DEF NoRun
  <1>b. \A r \in Runs : runs[r] \in Run /\ runs[r].at \in 0..10
      BY <1>0, TheSections DEF PrepareTypes
  <1>c. NoMachine \notin Facts
    <2>1. \A m \in Facts : m.account \in {"missing", "locked", "open"}
        BY DEF Facts
    <2>2. NoMachine.account = "none"
        BY DEF NoMachine
    <2>3. QED
        BY <2>1, <2>2
  <1>1. CASE MachineChosen
    <2>1. machine = NoMachine /\ machine' \in Facts /\ UNCHANGED <<runs, printed>>
        BY <1>1, MachinesAssumption DEF MachineChosen
    <2>2. ~printed /\ \A r \in Runs : ~(runs[r].at > 0)
        BY <1>0, <1>c, <2>1 DEF RunsLeave
    <2>3. QED
        BY <1>0, <2>1, <2>2 DEF PrepareInv, PrepareTypes, RunsLeave, PrintedMeansPrepared
  <1>2. ASSUME NEW r \in Runs, NEW create \in BOOLEAN, NEW unlock \in BOOLEAN, ScriptStarts(r, create, unlock)
        PROVE  PrepareInv'
    <2> DEFINE run == [at |-> 1, create |-> create, unlock |-> unlock]
    <2>1. machine \in Facts /\ runs' = [runs EXCEPT ![r] = run] /\ UNCHANGED <<machine, printed>>
        BY <1>0, <1>2 DEF ScriptStarts, PrepareTypes
    <2>2. run \in Run /\ run.at = 1
        BY <1>a
    <2>3. PrepareTypes'
        BY <1>0, <2>1, <2>2 DEF PrepareTypes
    <2>4. RunsLeave'
      <3>1. \A q \in Runs : runs'[q] = IF q = r THEN run ELSE runs[q]
          BY <1>0, <2>1 DEF PrepareTypes
      <3>2. QED
          BY <1>0, <1>b, <2>1, <2>2, <3>1 DEF RunsLeave
    <2>5. QED
        BY <1>0, <2>1, <2>3, <2>4 DEF PrepareInv, PrintedMeansPrepared
  <1>3. ASSUME NEW r \in Runs, ScriptStep(r) PROVE PrepareInv'
    <2> DEFINE k == runs[r].at
               run == [runs[r] EXCEPT !.at = k + 1]
    <2>1. /\ k \in 1..9 /\ machine' \in After(Sections[k], machine, runs[r])
          /\ runs' = [runs EXCEPT ![r].at = k + 1] /\ UNCHANGED printed
        BY <1>3, TheSections DEF ScriptStep
    <2>2. machine \in Facts
        BY <1>0, <2>1 DEF RunsLeave
    <2>3. /\ Improves(machine, machine')
          /\ k = 1 => machine'.account # "missing"
          /\ k = 3 /\ machine.account # "missing" => machine'.account = "open"
          /\ k = 4 => machine'.key = "authorised"
          /\ k = 5 => machine'.linger /\ machine'.systemd
          /\ k = 6 => machine'.supported
          /\ k = 7 => machine'.podman # 0
          /\ k = 8 => machine'.ranges
          /\ k = 9 => machine'.shell /\ machine'.home # "missing"
        BY <1>b, <2>1, <2>2, SectionLeaves
    <2>4. \A q \in Runs : runs'[q] = IF q = r THEN run ELSE runs[q]
        BY <1>0, <2>1 DEF PrepareTypes
    <2>5. run \in Run /\ run.at = k + 1
        BY <1>a, <1>b, <2>1
    <2>6. PrepareTypes'
        BY <1>0, <2>1, <2>3, <2>5 DEF PrepareTypes, Improves
    <2>7. RunsLeave'
      <3>1. ASSUME NEW q \in Runs, q # r, runs'[q].at > 0
            PROVE  /\ machine' \in Facts
                   /\ runs'[q].at > 1 => machine'.account # "missing"
                   /\ runs'[q].at > 3 => machine'.account = "open"
                   /\ runs'[q].at > 4 => machine'.key = "authorised"
                   /\ runs'[q].at > 5 => machine'.linger /\ machine'.systemd
                   /\ runs'[q].at > 6 => machine'.supported
                   /\ runs'[q].at > 7 => machine'.podman # 0
                   /\ runs'[q].at > 8 => machine'.ranges
                   /\ runs'[q].at > 9 => machine'.shell /\ machine'.home # "missing"
        <4>1. runs'[q] = runs[q]
            BY <2>4, <3>1
        <4>2. QED
            BY <1>0, <2>3, <3>1, <4>1 DEF RunsLeave, Improves
      <3>2. /\ machine' \in Facts
            /\ k + 1 > 1 => machine'.account # "missing"
            /\ k + 1 > 3 => machine'.account = "open"
            /\ k + 1 > 4 => machine'.key = "authorised"
            /\ k + 1 > 5 => machine'.linger /\ machine'.systemd
            /\ k + 1 > 6 => machine'.supported
            /\ k + 1 > 7 => machine'.podman # 0
            /\ k + 1 > 8 => machine'.ranges
            /\ k + 1 > 9 => machine'.shell /\ machine'.home # "missing"
        <4>1. /\ k > 1 => machine.account # "missing"
              /\ k > 3 => machine.account = "open"
              /\ k > 4 => machine.key = "authorised"
              /\ k > 5 => machine.linger /\ machine.systemd
              /\ k > 6 => machine.supported
              /\ k > 7 => machine.podman # 0
              /\ k > 8 => machine.ranges
            BY <1>0, <2>1 DEF RunsLeave
        <4>2. QED
            BY <2>1, <2>3, <4>1 DEF Improves
      <3>3. runs'[r].at = k + 1
          BY <2>4, <2>5
      <3>4. QED
          BY <3>1, <3>2, <3>3 DEF RunsLeave
    <2>8. (printed' => machine' \in Facts) /\ PrintedMeansPrepared'
        BY <1>0, <2>1, <2>3 DEF PrintedMeansPrepared, Improves
    <2>9. QED
        BY <2>6, <2>7, <2>8 DEF PrepareInv
  <1>4. ASSUME NEW r \in Runs, ScriptStops(r) PROVE PrepareInv'
    <2>1. runs' = [runs EXCEPT ![r] = NoRun] /\ UNCHANGED <<machine, printed>>
        BY <1>4 DEF ScriptStops
    <2>2. \A q \in Runs : runs'[q] = IF q = r THEN NoRun ELSE runs[q]
        BY <1>0, <2>1 DEF PrepareTypes
    <2>3. QED
        BY <1>0, <1>a, <2>1, <2>2 DEF PrepareInv, PrepareTypes, RunsLeave, PrintedMeansPrepared
  <1>5. ASSUME NEW r \in Runs, ScriptPrints(r) PROVE PrepareInv'
    <2>1. /\ runs' = [runs EXCEPT ![r] = NoRun] /\ UNCHANGED machine /\ printed' = TRUE
          /\ runs[r].at = 10
        BY <1>5, TheSections DEF ScriptPrints
    <2>2. \A q \in Runs : runs'[q] = IF q = r THEN NoRun ELSE runs[q]
        BY <1>0, <2>1 DEF PrepareTypes
    <2>3. PrepareTypes' /\ RunsLeave'
        BY <1>0, <1>a, <2>1, <2>2 DEF PrepareTypes, RunsLeave
    <2>4. /\ machine \in Facts /\ machine.account = "open" /\ machine.key = "authorised" /\ machine.linger
          /\ machine.shell /\ machine.home # "missing" /\ machine.systemd
          /\ machine.podman # 0 /\ machine.ranges /\ machine.supported
        BY <1>0, <2>1 DEF RunsLeave
    <2>5. QED
        BY <2>1, <2>3, <2>4 DEF PrepareInv, PrintedMeansPrepared
  <1>6. CASE CheckHost
      BY <1>0, <1>6 DEF CheckHost, PrepareInv, PrepareTypes, RunsLeave, PrintedMeansPrepared
  <1>7. CASE ProvisionStorage
    <2>1. machine \in Facts /\ machine' = [machine EXCEPT !.storage = StorageAfter(machine)] /\ UNCHANGED <<runs, printed>>
        BY <1>0, <1>7 DEF ProvisionStorage, PrepareTypes
    <2>2. StorageAfter(machine) \in {"fresh", "set-up", "used"}
        BY <2>1 DEF StorageAfter, Facts
    <2>3. QED
        BY <2>1, <2>2, FactsChange, BetterIsAsGood
  <1>8. CASE UNCHANGED prepareVars
      BY <1>0, <1>8 DEF prepareVars, PrepareInv, PrepareTypes, RunsLeave, PrintedMeansPrepared
  <1>9. QED
      BY <1>1, <1>2, <1>3, <1>4, <1>5, <1>6, <1>7, <1>8 DEF PrepareNext

\* What provisioning accepts the check does not block, and what the check passes fails there only for what it does
\* not see: what Podman says, or a home that is not there.
LEMMA CheckAgrees ==
    ASSUME NEW m \in Facts
    PROVE  /\ Provisions(m) => CheckReady(m)
           /\ CheckReady(m) /\ ~Provisions(m) =>
                 \/ m.driver = "silent" \/ m.home = "missing"
                 \/ m.storage = "fresh" /\ m.driver \in {"other", "rootful"}
  <1>1. ASSUME Provisions(m) PROVE CheckReady(m)
      BY <1>1 DEF Provisions, ReadSystem, NetworkStackFor, StorageStep, CheckReady, AccountResult, SystemdResult,
                  LingeringResult, ArchitectureResult, PodmanResult, CgroupsResult, SubordinateIdsResult,
                  NetworkHelperResult, StorageResult, ReadsPodmanInfo, ReadsUid
  <1>2. ASSUME CheckReady(m), ~Provisions(m), m.home # "missing", m.driver # "silent"
        PROVE  m.storage = "fresh" /\ m.driver \in {"other", "rootful"}
    <2>1. m.driver # "overlay"
        BY <1>2 DEF Provisions, ReadSystem, NetworkStackFor, StorageStep, CheckReady, AccountResult, SystemdResult,
                    LingeringResult, ArchitectureResult, PodmanResult, CgroupsResult, SubordinateIdsResult,
                    NetworkHelperResult, StorageResult, ReadsUid
    <2>2. ~m.override /\ ReadsUid(m) /\ PodmanResult(m)
        BY <1>2 DEF CheckReady, StorageResult, AccountResult
    <2>3. m.driver \in {"other", "rootful"} => m.storage = "fresh"
        BY <1>2, <2>2 DEF CheckReady, AccountResult, StorageResult, ReadsPodmanInfo
    <2>4. m.driver \in {"overlay", "other", "rootful", "silent"}
        BY DEF Facts
    <2>5. QED
        BY <1>2, <2>1, <2>3, <2>4
  <1>3. QED
      BY <1>1, <1>2

\* Whatever runs of the script overlap or stop half way, a fingerprint is printed only by a machine that is prepared,
\* and the host check judges any machine as provisioning will (prepare-host.sh, checkHost, provisionHost).
THEOREM PreparedIsTrue == PrepareSpec => []PreparationIsHonest
  <1>1. PrepareInit => PrepareInv
    <2> SUFFICES ASSUME PrepareInit PROVE PrepareInv
        OBVIOUS
    <2>1. machine = NoMachine /\ printed = FALSE /\ runs = [r \in Runs |-> NoRun]
        BY DEF PrepareInit
    <2>2. NoRun \in [at : 0..(Len(Sections) + 1), create : BOOLEAN, unlock : BOOLEAN] /\ NoRun.at = 0
        BY TheSections DEF NoRun
    <2>3. PrepareTypes
        BY <2>1, <2>2 DEF PrepareTypes
    <2>4. RunsLeave
        BY <2>1, <2>2 DEF RunsLeave
    <2>5. QED
        BY <2>1, <2>3, <2>4 DEF PrepareInv, PrintedMeansPrepared
  <1>2. PrepareInv => PreparationIsHonest
      BY CheckAgrees DEF PrepareInv, PrepareTypes, PreparationIsHonest, CheckAgreesWithProvisioning
  <1>3. QED
      BY <1>1, <1>2, PrepareStep, PTL DEF PrepareSpec

-----------------------------------------------------------------------------
(***************************************************************************)
(* UpdateCheck, for any versions, restarts and faults.  The row and an answer in *)
(* flight hold a version that was published, a badge still in force names what *)
(* the row does, and two checks less than half an interval apart are paid for  *)
(* by a write that was lost or a restart.                                  *)
(***************************************************************************)
CheckedRows == [outcome : Outcomes, checkedAt : Nat, latest : Nat, usable : BOOLEAN]
AskingChecks == [at : {"asking"}, checkedAt : Nat]
AnsweredChecks == [at : {"answered"}, checkedAt : Nat, outcome : Outcomes, version : Nat]

UpdateTypes ==
    /\ updateNow \in Nat /\ running \in Nat /\ queued \in Nat /\ offered \in Nat /\ updateFaults \in Nat
    /\ updateRow \in {NeverChecked} \cup CheckedRows
    /\ checking \in {NoCheck} \cup AskingChecks \cup AnsweredChecks
    /\ published \subseteq Nat \ {NoVersion} /\ askedAt \in Seq(Nat)

\* A row and an answer name a release that was published, or none.
AnswersArePublished ==
    /\ updateRow # NeverChecked => updateRow.latest \in published \cup {NoVersion}
    /\ checking.at = "answered" => checking.version \in published \cup {NoVersion}

\* An offer made to a build is of a newer release, the one the row names.
OffersAreBacked ==
    offered # NoVersion => running # Development /\ updateRow # NeverChecked
                           /\ offered > running /\ updateRow.latest = offered

\* The pairs of questions that came too soon after one another.
SoonAsked == {k \in 2..Len(askedAt) : 2 * (askedAt[k] - askedAt[k - 1]) < CheckInterval}

\* The latest question is neither waiting for its answer nor the one the row records.
LatestLost ==
    /\ askedAt # <<>> /\ checking = NoCheck
    /\ updateRow # NeverChecked => updateRow.checkedAt # askedAt[Len(askedAt)]

\* Every question that came too soon was paid for by a fault, and so was a latest one whose answer is lost.
AsksArePaidFor ==
    /\ checking # NoCheck => askedAt # <<>> /\ checking.checkedAt = askedAt[Len(askedAt)]
    /\ Cardinality(SoonAsked) + (IF LatestLost THEN 1 ELSE 0) <= updateFaults

UpdateInv == UpdateTypes /\ AnswersArePublished /\ OffersAreBacked /\ AsksArePaidFor

-----------------------------------------------------------------------------
LEMMA SoonIsFinite ==
    ASSUME askedAt \in Seq(Nat)
    PROVE  IsFiniteSet(SoonAsked) /\ Cardinality(SoonAsked) \in Nat
  <1>1. IsFiniteSet(2..Len(askedAt))
      BY FS_Interval, Len(askedAt) \in Nat
  <1>2. SoonAsked \in SUBSET (2..Len(askedAt))
      BY DEF SoonAsked
  <1>3. QED
      BY <1>1, <1>2, FS_Subset, FS_CardinalityType

\* Asking once more adds the latest pair, when it comes too soon.
LEMMA SoonGrows ==
    ASSUME askedAt \in Seq(Nat), NEW t \in Nat, CheckInterval \in Nat,
           askedAt' = Append(askedAt, t)
    PROVE  /\ SoonAsked' \subseteq SoonAsked \cup {Len(askedAt) + 1}
           /\ askedAt = <<>> => SoonAsked' \subseteq SoonAsked
           /\ askedAt # <<>> /\ 2 * (t - askedAt[Len(askedAt)]) >= CheckInterval => SoonAsked' \subseteq SoonAsked
  <1> DEFINE n == Len(askedAt)
  <1>1. n \in Nat /\ Len(askedAt') = n + 1
      OBVIOUS
  <1>2. \A k \in 1..n : askedAt'[k] = askedAt[k]
      OBVIOUS
  <1>3. askedAt'[n + 1] = t
      OBVIOUS
  <1>4. ASSUME NEW k \in SoonAsked', k # n + 1 PROVE k \in SoonAsked
    <2>1. k \in 2..(n + 1) /\ 2 * (askedAt'[k] - askedAt'[k - 1]) < CheckInterval
        BY <1>1, <1>4 DEF SoonAsked
    <2>2. k \in 2..n /\ k \in 1..n /\ k - 1 \in 1..n
        BY <1>1, <1>4, <2>1
    <2>3. QED
        BY <1>2, <2>1, <2>2 DEF SoonAsked
  <1>5. ASSUME n + 1 \in SoonAsked'
        PROVE  askedAt # <<>> /\ ~(2 * (t - askedAt[n]) >= CheckInterval)
    <2>1. n + 1 \in 2..(n + 1) /\ 2 * (askedAt'[n + 1] - askedAt'[n]) < CheckInterval
      <3>1. (n + 1) - 1 = n
          BY <1>1
      <3>2. QED
          BY <1>1, <1>5, <3>1 DEF SoonAsked
    <2>2. n \in 1..n /\ askedAt[n] \in Nat
        BY <1>1, <2>1
    <2>3. QED
        BY <1>2, <1>3, <2>1, <2>2
  <1>6. QED
      BY <1>4, <1>5

-----------------------------------------------------------------------------
\* A row, or a check, of one kind is none of the other.
LEMMA KindsDiffer ==
    /\ NeverChecked \notin CheckedRows /\ NoCheck \notin AskingChecks \cup AnsweredChecks
    /\ NoCheck.at = "none" /\ NeverChecked.outcome = "none"
    /\ \A c \in AskingChecks : c.at = "asking" /\ c.checkedAt \in Nat
    /\ \A c \in AnsweredChecks : c.at = "answered" /\ c.checkedAt \in Nat /\ c.outcome \in Outcomes /\ c.version \in Nat
    /\ \A r \in CheckedRows : r.outcome \in Outcomes /\ r.checkedAt \in Nat /\ r.latest \in Nat /\ r.usable \in BOOLEAN
  <1>1. \A r \in CheckedRows : r.outcome \in Outcomes /\ r.checkedAt \in Nat /\ r.latest \in Nat /\ r.usable \in BOOLEAN
      BY DEF CheckedRows
  <1>2. \A c \in AskingChecks : c.at = "asking" /\ c.checkedAt \in Nat
      BY DEF AskingChecks
  <1>3. \A c \in AnsweredChecks : c.at = "answered" /\ c.checkedAt \in Nat /\ c.outcome \in Outcomes /\ c.version \in Nat
      BY DEF AnsweredChecks
  <1>4. NoCheck.at = "none" /\ NeverChecked.outcome = "none" /\ "none" \notin Outcomes
      BY DEF NoCheck, NeverChecked, Outcomes
  <1>5. QED
      BY <1>1, <1>2, <1>3, <1>4

LEMMA UpdateInitial == UpdateInit => UpdateInv
  <1> SUFFICES ASSUME UpdateInit PROVE UpdateInv
      OBVIOUS
  <1>1. UpdateTypes
      BY DEF UpdateInit, UpdateTypes, NoVersion
  <1>4. AnswersArePublished /\ OffersAreBacked
      BY KindsDiffer DEF UpdateInit, AnswersArePublished, OffersAreBacked
  <1>5. AsksArePaidFor
    <2>1. SoonAsked = {} /\ ~LatestLost
        BY DEF UpdateInit, SoonAsked, LatestLost
    <2>2. QED
        BY <2>1, FS_EmptySet DEF UpdateInit, AsksArePaidFor
  <1>6. QED
      BY <1>1, <1>4, <1>5 DEF UpdateInv

\* What was asked is left alone, and the latest question is no more lost than the faults pay for.
LEMMA NothingAsked ==
    ASSUME UpdateInv, UNCHANGED askedAt, updateFaults' \in Nat,
           \/ updateFaults' = updateFaults + 1
           \/ updateFaults' = updateFaults /\ (LatestLost' => LatestLost),
           checking' # NoCheck => checking # NoCheck /\ checking'.checkedAt = checking.checkedAt
    PROVE  AsksArePaidFor'
  <1>1. SoonAsked' = SoonAsked
      BY DEF SoonAsked
  <1>2. Cardinality(SoonAsked) \in Nat /\ updateFaults \in Nat
      BY SoonIsFinite DEF UpdateInv, UpdateTypes
  <1>3. Cardinality(SoonAsked') = Cardinality(SoonAsked)
      BY <1>1, Zenon
  <1>4. Cardinality(SoonAsked') + (IF LatestLost' THEN 1 ELSE 0) <= updateFaults'
      BY <1>2, <1>3 DEF UpdateInv, AsksArePaidFor
  <1>5. checking' # NoCheck => askedAt' # <<>> /\ checking'.checkedAt = askedAt'[Len(askedAt')]
      BY DEF UpdateInv, AsksArePaidFor
  <1>6. QED
      BY <1>4, <1>5 DEF AsksArePaidFor

LEMMA UpdateStep == UpdateInv /\ [UpdateNext]_updateVars => UpdateInv'
  <1> SUFFICES ASSUME UpdateInv, [UpdateNext]_updateVars PROVE UpdateInv'
      OBVIOUS
  <1> USE UpdateAssumption
  <1>0. /\ UpdateTypes /\ AnswersArePublished /\ OffersAreBacked /\ AsksArePaidFor
        /\ CheckInterval \in Nat
      BY DEF UpdateInv
  <1>a. /\ updateRow # NeverChecked => updateRow \in CheckedRows
        /\ checking.at = "asking" => checking \in AskingChecks
        /\ checking.at = "answered" => checking \in AnsweredChecks
        /\ checking = NoCheck => checking.at = "none"
        /\ checking # NoCheck => checking.checkedAt \in Nat
      BY <1>0, KindsDiffer DEF UpdateTypes
  <1>c. UNCHANGED <<updateRow, checking, askedAt>> => (LatestLost' <=> LatestLost)
      BY DEF LatestLost
  <1>1. CASE ScheduleFires
    <2>1. UNCHANGED <<updateNow, published, running, updateRow, checking, askedAt, offered, updateFaults>> /\ queued' = 1
        BY <1>1 DEF ScheduleFires
    <2>2. UpdateTypes'
        BY <1>0, <2>1 DEF UpdateTypes
    <2>3. AsksArePaidFor'
        BY <1>0, <1>c, <2>1, NothingAsked DEF UpdateTypes
    <2>4. QED
        BY <1>0, <2>1, <2>2, <2>3 DEF UpdateInv, AnswersArePublished, OffersAreBacked
  <1>2. ASSUME NEW build \in 0..MaxVersion, Restart(build) PROVE UpdateInv'
    <2>1. /\ UNCHANGED <<updateNow, published, updateRow, askedAt>> /\ updateFaults' = updateFaults + 1
          /\ running' = build /\ checking' = NoCheck /\ queued' \in Nat
          /\ offered' = IF build = running THEN offered ELSE NoVersion
        BY <1>0, <1>2 DEF Restart, UpdateTypes
    <2>2. UpdateTypes'
        BY <1>0, <2>1 DEF UpdateTypes, NoVersion
    <2>3. AsksArePaidFor'
        BY <1>0, <2>1, NothingAsked DEF UpdateTypes
    <2>4. AnswersArePublished' /\ OffersAreBacked'
        BY <1>0, <2>1, KindsDiffer DEF AnswersArePublished, OffersAreBacked
    <2>5. QED
        BY <1>0, <2>1, <2>2, <2>3, <2>4 DEF UpdateInv
  <1>3. CASE StartCheck
    <2>1. UNCHANGED <<updateNow, published, running, updateRow, offered, updateFaults>>
          /\ queued' \in Nat /\ checking = NoCheck
        BY <1>0, <1>3 DEF StartCheck, UpdateTypes
    <2>2. CASE UNCHANGED <<checking, askedAt>>
      <3>1. UpdateTypes'
          BY <1>0, <2>1, <2>2 DEF UpdateTypes
      <3>2. AsksArePaidFor'
          BY <1>0, <1>c, <2>1, <2>2, NothingAsked DEF UpdateTypes
      <3>3. QED
          BY <1>0, <2>1, <2>2, <3>1, <3>2 DEF UpdateInv, AnswersArePublished, OffersAreBacked
    <2>3. CASE /\ ~CheckedRecently /\ checking' = [at |-> "asking", checkedAt |-> updateNow]
               /\ askedAt' = Append(askedAt, updateNow)
      <3>1. checking' \in AskingChecks /\ checking'.at = "asking" /\ checking'.checkedAt = updateNow
          BY <1>0, <2>3 DEF UpdateTypes, AskingChecks
      <3>2. UpdateTypes'
          BY <1>0, <2>1, <2>3, <3>1 DEF UpdateTypes
      <3>3. /\ askedAt' # <<>> /\ askedAt'[Len(askedAt')] = updateNow
            /\ askedAt # <<>> => askedAt[Len(askedAt)] \in Nat
          BY <1>0, <2>3 DEF UpdateTypes
      <3>4. checking' # NoCheck
          BY <3>1, KindsDiffer
      <3>5. /\ SoonAsked' \subseteq SoonAsked \cup {Len(askedAt) + 1}
            /\ ~LatestLost => SoonAsked' \subseteq SoonAsked
        <4>1. ASSUME ~LatestLost PROVE askedAt = <<>> \/ 2 * (updateNow - askedAt[Len(askedAt)]) >= CheckInterval
          <5>1. SUFFICES ASSUME askedAt # <<>> PROVE 2 * (updateNow - askedAt[Len(askedAt)]) >= CheckInterval
              OBVIOUS
          <5>2. updateRow # NeverChecked /\ updateRow.checkedAt = askedAt[Len(askedAt)]
              BY <2>1, <4>1, <5>1 DEF LatestLost
          <5>3. ~(2 * (updateNow - updateRow.checkedAt) < CheckInterval)
              BY <2>3, <5>2 DEF CheckedRecently
          <5>4. QED
              BY <1>0, <3>3, <5>1, <5>2, <5>3 DEF UpdateTypes
        <4>2. askedAt \in Seq(Nat) /\ updateNow \in Nat /\ askedAt' = Append(askedAt, updateNow)
            BY <1>0, <2>3 DEF UpdateTypes
        <4>3. QED
            BY <1>0, <4>1, <4>2, SoonGrows
      <3>6. /\ IsFiniteSet(SoonAsked) /\ Cardinality(SoonAsked) \in Nat
            /\ IsFiniteSet(SoonAsked') /\ Cardinality(SoonAsked') \in Nat
        <4>1. IsFiniteSet(SoonAsked) /\ Cardinality(SoonAsked) \in Nat
            BY <1>0, SoonIsFinite DEF UpdateTypes
        <4>2. IsFiniteSet(SoonAsked \cup {Len(askedAt) + 1})
            BY <4>1, FS_AddElement
        <4>3. QED
            BY <3>5, <4>1, <4>2, FS_Subset, FS_CardinalityType
      <3>7. Cardinality(SoonAsked') <= Cardinality(SoonAsked) + (IF LatestLost THEN 1 ELSE 0)
        <4>1. CASE LatestLost
          <5>1. IsFiniteSet(SoonAsked \cup {Len(askedAt) + 1})
                /\ Cardinality(SoonAsked \cup {Len(askedAt) + 1}) <= Cardinality(SoonAsked) + 1
            <6>1. Cardinality(SoonAsked \cup {Len(askedAt) + 1}) =
                     IF Len(askedAt) + 1 \in SoonAsked THEN Cardinality(SoonAsked) ELSE Cardinality(SoonAsked) + 1
                BY <3>6, FS_AddElement
            <6>2. Cardinality(SoonAsked \cup {Len(askedAt) + 1}) <= Cardinality(SoonAsked) + 1
                BY <3>6, <6>1
            <6>3. IsFiniteSet(SoonAsked \cup {Len(askedAt) + 1})
                BY <3>6, FS_AddElement
            <6>4. QED
                BY <6>2, <6>3
          <5>2. Cardinality(SoonAsked') <= Cardinality(SoonAsked \cup {Len(askedAt) + 1})
              BY <3>5, <5>1, FS_Subset
          <5>3. Cardinality(SoonAsked \cup {Len(askedAt) + 1}) \in Nat
              BY <5>1, FS_CardinalityType
          <5>4. QED
              BY <3>6, <4>1, <5>1, <5>2, <5>3
        <4>2. CASE ~LatestLost
          <5>1. Cardinality(SoonAsked') <= Cardinality(SoonAsked)
              BY <3>5, <3>6, <4>2, FS_Subset
          <5>2. QED
              BY <3>6, <4>2, <5>1
        <4>3. QED
            BY <4>1, <4>2
      <3>8. ~LatestLost'
          BY <3>4 DEF LatestLost
      <3>9. AsksArePaidFor'
          BY <1>0, <2>1, <3>1, <3>3, <3>6, <3>7, <3>8 DEF AsksArePaidFor, UpdateTypes
      <3>10. AnswersArePublished' /\ OffersAreBacked'
          BY <1>0, <2>1, <3>1 DEF AnswersArePublished, OffersAreBacked
      <3>11. QED
          BY <1>0, <2>1, <3>2, <3>9, <3>10 DEF UpdateInv
    <2>4. QED
        BY <1>3, <2>2, <2>3 DEF StartCheck
  <1>4. ASSUME NEW answer \in ReleaseAnswers, GitHubAnswered(answer) PROVE UpdateInv'
    <2>1. /\ UNCHANGED <<updateNow, published, running, updateRow, queued, askedAt, offered, updateFaults>>
          /\ checking.at = "asking"
          /\ checking' = [at |-> "answered", checkedAt |-> checking.checkedAt,
                          outcome |-> answer.outcome, version |-> answer.version]
        BY <1>4 DEF GitHubAnswered
    <2>2. checking \in AskingChecks /\ checking.checkedAt \in Nat /\ checking # NoCheck
        BY <1>a, <2>1, KindsDiffer
    <2>3. answer.outcome \in Outcomes /\ answer.version \in published \cup {NoVersion} /\ answer.version \in Nat
      <3>1. "ok" \in Outcomes
          BY DEF Outcomes
      <3>2. answer.outcome \in Outcomes /\ answer.version \in published \cup {NoVersion}
          BY <3>1 DEF ReleaseAnswers
      <3>3. published \cup {NoVersion} \subseteq Nat
          BY <1>0 DEF UpdateTypes, NoVersion
      <3>4. QED
          BY <3>2, <3>3, Zenon
    <2>4. /\ checking' \in AnsweredChecks /\ checking'.at = "answered" /\ checking'.checkedAt = checking.checkedAt
          /\ checking'.version = answer.version
        BY <2>1, <2>2, <2>3 DEF AnsweredChecks
    <2>5. UpdateTypes'
        BY <1>0, <2>1, <2>4 DEF UpdateTypes
    <2>6. checking' # NoCheck
        BY <2>4, KindsDiffer
    <2>7. AsksArePaidFor'
      <3>1. ~LatestLost'
          BY <2>6 DEF LatestLost
      <3>2. QED
          BY <1>0, <2>1, <2>2, <2>4, <3>1, NothingAsked DEF UpdateTypes
    <2>8. AnswersArePublished' /\ OffersAreBacked'
        BY <1>0, <2>1, <2>3, <2>4 DEF AnswersArePublished, OffersAreBacked
    <2>9. QED
        BY <1>0, <2>1, <2>5, <2>7, <2>8 DEF UpdateInv
  <1>5. CASE RecordCheck
    <2>1. /\ UNCHANGED <<updateNow, published, running, queued, askedAt, updateFaults>>
          /\ checking.at = "answered" /\ checking' = NoCheck
          /\ offered' = IF checking.outcome = "ok" THEN NoVersion ELSE offered
          /\ updateRow' = [outcome |-> checking.outcome, checkedAt |-> checking.checkedAt,
                           latest |-> RecordedVersion, usable |-> UsableSource]
        BY <1>5 DEF RecordCheck
    <2>2. checking \in AnsweredChecks /\ checking # NoCheck /\ checking.outcome \in Outcomes /\ checking.checkedAt \in Nat
        BY <1>a, <2>1, KindsDiffer
    <2>3. /\ RecordedVersion \in published \cup {NoVersion} /\ RecordedVersion \in Nat
          /\ updateRow # NeverChecked /\ checking.outcome # "ok" => RecordedVersion = updateRow.latest
        BY <1>0, <2>1 DEF RecordedVersion, AnswersArePublished, UpdateTypes, NoVersion
    <2>4. UsableSource \in BOOLEAN
        BY <1>a, KindsDiffer DEF UsableSource
    <2>5. /\ updateRow' \in CheckedRows /\ updateRow' # NeverChecked
          /\ updateRow'.checkedAt = checking.checkedAt /\ updateRow'.latest = RecordedVersion
        BY <2>1, <2>2, <2>3, <2>4, KindsDiffer DEF CheckedRows
    <2>6. UpdateTypes'
        BY <1>0, <2>1, <2>5 DEF UpdateTypes, NoVersion
    <2>7. ~LatestLost'
        BY <1>0, <2>1, <2>2, <2>5 DEF LatestLost, AsksArePaidFor
    <2>8. AsksArePaidFor'
        BY <1>0, <2>1, <2>7, NothingAsked DEF UpdateTypes
    <2>9. AnswersArePublished'
        BY <2>1, <2>3, <2>5, KindsDiffer DEF AnswersArePublished
    <2>10. OffersAreBacked'
        BY <1>0, <2>1, <2>3, <2>5 DEF OffersAreBacked
    <2>11. QED
        BY <2>6, <2>8, <2>9, <2>10 DEF UpdateInv
  <1>6. CASE RecordLost
    <2>1. /\ UNCHANGED <<updateNow, published, running, updateRow, queued, askedAt, offered>>
          /\ updateFaults' = updateFaults + 1 /\ checking' = NoCheck
        BY <1>6 DEF RecordLost
    <2>2. UpdateTypes'
        BY <1>0, <2>1 DEF UpdateTypes
    <2>3. AsksArePaidFor'
        BY <1>0, <2>1, NothingAsked DEF UpdateTypes
    <2>4. AnswersArePublished' /\ OffersAreBacked'
        BY <1>0, <2>1, KindsDiffer DEF AnswersArePublished, OffersAreBacked
    <2>5. QED
        BY <1>0, <2>1, <2>2, <2>3, <2>4 DEF UpdateInv
  <1>7. CASE ShowBadge
    <2>1. /\ UNCHANGED <<updateNow, published, running, updateRow, queued, checking, askedAt, updateFaults>>
          /\ Available /\ offered' = updateRow.latest
        BY <1>7 DEF ShowBadge
    <2>2. updateRow \in CheckedRows /\ updateRow.latest \in Nat
        BY <1>a, <2>1, KindsDiffer DEF Available
    <2>3. UpdateTypes'
        BY <1>0, <2>1, <2>2 DEF UpdateTypes
    <2>4. AsksArePaidFor'
        BY <1>0, <1>c, <2>1, NothingAsked DEF UpdateTypes
    <2>5. AnswersArePublished' /\ OffersAreBacked'
        BY <1>0, <2>1, <2>2 DEF AnswersArePublished, OffersAreBacked, Available, IsNewerThan
    <2>6. QED
        BY <1>0, <2>1, <2>3, <2>4, <2>5 DEF UpdateInv
  <1>8. ASSUME NEW version \in 1..MaxVersion, Publish(version) PROVE UpdateInv'
    <2>1. /\ UNCHANGED <<updateNow, running, updateRow, queued, checking, askedAt, offered, updateFaults>>
          /\ published' = published \cup {version} /\ version \in Nat \ {NoVersion}
        BY <1>8 DEF Publish, NoVersion
    <2>2. UpdateTypes'
        BY <1>0, <2>1 DEF UpdateTypes
    <2>3. AsksArePaidFor'
        BY <1>0, <1>c, <2>1, NothingAsked DEF UpdateTypes
    <2>4. AnswersArePublished' /\ OffersAreBacked'
        BY <1>0, <2>1 DEF AnswersArePublished, OffersAreBacked
    <2>5. QED
        BY <2>2, <2>3, <2>4 DEF UpdateInv
  <1>9. CASE SourceEdited
    <2>1. /\ UNCHANGED <<updateNow, published, running, queued, checking, askedAt, offered, updateFaults>>
          /\ updateRow # NeverChecked /\ updateRow' = [updateRow EXCEPT !.usable = ~@]
        BY <1>9 DEF SourceEdited
    <2>2. /\ updateRow' \in CheckedRows /\ updateRow' # NeverChecked
          /\ updateRow'.latest = updateRow.latest /\ updateRow'.checkedAt = updateRow.checkedAt
        BY <1>a, <2>1, KindsDiffer DEF CheckedRows
    <2>3. UpdateTypes'
        BY <1>0, <2>1, <2>2 DEF UpdateTypes
    <2>4. LatestLost' <=> LatestLost
        BY <2>1, <2>2 DEF LatestLost
    <2>5. AsksArePaidFor'
        BY <1>0, <2>1, <2>4, NothingAsked DEF UpdateTypes
    <2>6. AnswersArePublished' /\ OffersAreBacked'
        BY <1>0, <2>1, <2>2 DEF AnswersArePublished, OffersAreBacked
    <2>7. QED
        BY <2>3, <2>5, <2>6 DEF UpdateInv
  <1>10. CASE UpdateTimePasses \/ UNCHANGED updateVars
    <2>1. UNCHANGED <<published, running, updateRow, queued, checking, askedAt, offered, updateFaults>> /\ updateNow' \in Nat
        BY <1>0, <1>10 DEF UpdateTimePasses, updateVars, UpdateTypes
    <2>2. UpdateTypes'
        BY <1>0, <2>1 DEF UpdateTypes
    <2>3. AsksArePaidFor'
        BY <1>0, <1>c, <2>1, NothingAsked DEF UpdateTypes
    <2>4. QED
        BY <1>0, <2>1, <2>2, <2>3 DEF UpdateInv, AnswersArePublished, OffersAreBacked
  <1>11. QED
      BY <1>1, <1>2, <1>3, <1>4, <1>5, <1>6, <1>7, <1>8, <1>9, <1>10 DEF UpdateNext

\* Whatever is published, whichever release the page names, however checks end and the processes restart: an update
\* is offered only when it is published and newer, an offer stands until the build changes or a check finds a release,
\* "Up to date" has a release behind it, and the release page is asked too soon only to make up for a check that was
\* lost (createUpdateCheck, columnsFor, updateStatusFor).
THEOREM UpdatesAreBacked == UpdateSpec => []UpdatesAreOffered
  <1>1. ASSUME UpdateInv PROVE UpdatesAreOffered
    <2>0. UpdateTypes /\ AnswersArePublished /\ OffersAreBacked /\ AsksArePaidFor
        BY <1>1 DEF UpdateInv
    <2>1. updateRow # NeverChecked => updateRow \in CheckedRows /\ updateRow.latest \in Nat
        BY <2>0, KindsDiffer DEF UpdateTypes
    <2>2. updateRow # NeverChecked /\ updateRow.latest # NoVersion => updateRow.latest \in published
        BY <2>0 DEF AnswersArePublished
    <2>3. Available => updateRow.latest \in published /\ updateRow.latest > running
        BY <2>2 DEF Available, IsNewerThan
    <2>4. offered # NoVersion => Available /\ updateRow.latest = offered
        BY <2>0, <2>1 DEF OffersAreBacked, Available, IsNewerThan, UpdateTypes, NoVersion
    <2>5. Headline = "Up to date" => updateRow.latest \in published /\ updateRow.latest <= running
      <3>1. Headline = "Up to date" =>
               running # Development /\ ~Available /\ updateRow # NeverChecked /\ updateRow.latest # NoVersion
        <4>1. CASE running = Development
            BY <4>1 DEF Headline, Available
        <4>2. CASE running # Development /\ updateRow = NeverChecked
            BY <4>2 DEF Headline, Available
        <4>3. CASE Available
            BY <4>3 DEF Headline, Available
        <4>4. CASE running # Development /\ updateRow # NeverChecked /\ ~Available /\ updateRow.latest = NoVersion
            BY <4>4 DEF Headline
        <4>5. QED
            BY <4>1, <4>2, <4>3, <4>4
      <3>2. ~Available /\ running # Development /\ updateRow # NeverChecked /\ updateRow.latest # NoVersion =>
               updateRow.latest <= running
          BY <2>0, <2>1 DEF Available, IsNewerThan, UpdateTypes
      <3>3. QED
          BY <2>2, <3>1, <3>2
    <2>6. AsksSparingly
      <3>1. Cardinality(SoonAsked) \in Nat /\ updateFaults \in Nat
          BY <2>0, SoonIsFinite DEF UpdateTypes
      <3>2. Cardinality(SoonAsked) <= updateFaults
          BY <2>0, <3>1 DEF AsksArePaidFor
      <3>3. QED
          BY <3>2, Zenon DEF AsksSparingly, SoonAsked
    <2>7. QED
        BY <2>3, <2>4, <2>5, <2>6 DEF UpdatesAreOffered, OffersHold
  <1>2. QED
      BY <1>1, UpdateInitial, UpdateStep, PTL DEF UpdateSpec

-----------------------------------------------------------------------------
(***************************************************************************)
(* EnrolWizard, for any addresses, keys, accounts and machines, and any number *)
(* of edits, calls and changes of the machine that answers.  What is shown *)
(* beside the form, what is being enrolled and what a root credential is on *)
(* its way to are each tied to what was asked about when it was asked.     *)
(***************************************************************************)
USE EnrolAssumption

CallFields == {"state", "of", "ready"}
FormFields == {"key", "address", "account", "print"}

\* The parts of the page that are records keep their fields.
PageShape ==
    /\ DOMAIN wizard = {"step", "form", "mode", "copied", "probe", "check", "enrol"}
    /\ DOMAIN wizard.form = FormFields
    /\ DOMAIN wizard.probe = CallFields /\ DOMAIN wizard.check = CallFields /\ DOMAIN wizard.enrol = CallFields
    /\ DOMAIN panel = {"read", "confirmed", "secret", "outcome", "busy"}
    /\ \A i \in installs : DOMAIN i = {"id", "target", "unlock", "pc"}

\* An enrolment under way is of a target a check found ready, and keeps the last step open; a check that
\* says ready found it so; a probe that is shown is of the address in the form.
AnswersRight ==
    /\ wizard.enrol.state = "asked" => wizard.step = 4 /\ wizard.enrol.of \in found
    /\ wizard.check.state = "done" /\ wizard.check.ready => wizard.check.of \in found
    /\ wizard.probe.state # "idle" => wizard.probe.of.address = wizard.form.address

\* A key is confirmed for the address in the form, and only on the panel's step, where that is not edited;
\* a set-up runs towards an address and a key that were confirmed together.
ConfirmedRight ==
    /\ panel.confirmed # Blank => wizard.step = 3 /\ <<wizard.form.address, panel.confirmed>> \in confirmedAt
    /\ \A i \in installs : <<i.target.address, i.target.print>> \in confirmedAt

EnrolInv == PageShape /\ AnswersRight /\ ConfirmedRight /\ enrolled \subseteq found /\ rootSeen \subseteq confirmedAt

-----------------------------------------------------------------------------
LEMMA EnrolBegins == EnrolInit => EnrolInv
  <1> SUFFICES ASSUME EnrolInit PROVE EnrolInv
      OBVIOUS
  <1>1. PageShape
      BY DEF EnrolInit, PageShape, FreshWizard, NoPanel, NoForm, NotAsked, CallFields, FormFields
  <1>2. AnswersRight
      BY DEF EnrolInit, AnswersRight, FreshWizard, NotAsked
  <1>3. ConfirmedRight
      BY DEF EnrolInit, ConfirmedRight, NoPanel
  <1>4. enrolled \subseteq found /\ rootSeen \subseteq confirmedAt
      BY DEF EnrolInit
  <1>5. QED
      BY <1>1, <1>2, <1>3, <1>4 DEF EnrolInv

\* The page's parts that the invariant is about stay as they are, but for the panel's.
LEMMA PartsDecide ==
    ASSUME EnrolInv,
           DOMAIN wizard' = {"step", "form", "mode", "copied", "probe", "check", "enrol"},
           UNCHANGED <<installs, enrolled, found, confirmedAt, rootSeen>>,
           DOMAIN wizard'.form = FormFields,
           wizard'.enrol = wizard.enrol, wizard'.enrol.state = "asked" => wizard'.step = 4,
           wizard'.check = wizard.check \/ wizard'.check = NotAsked \/ wizard'.check = Ask(wizard.form),
           wizard'.probe = NotAsked \/ (wizard'.form.address = wizard.form.address
                                        /\ (wizard'.probe = wizard.probe \/ wizard'.probe = Ask(wizard.form))),
           \/ panel' = NoPanel
           \/ /\ panel' = panel \/ (panel'.confirmed \in {Blank, panel.confirmed} /\ DOMAIN panel' = DOMAIN panel)
              /\ wizard'.form.address = wizard.form.address /\ wizard'.step = wizard.step
           \/ panel' = panel /\ wizard.step # 3
    PROVE  EnrolInv'
  <1>0. PageShape /\ AnswersRight /\ ConfirmedRight
      BY DEF EnrolInv
  <1>1. PageShape'
    <2>1. DOMAIN wizard'.check = CallFields /\ DOMAIN wizard'.probe = CallFields
        BY <1>0 DEF PageShape, NotAsked, Ask, CallFields
    <2>2. DOMAIN panel' = {"read", "confirmed", "secret", "outcome", "busy"}
        BY <1>0 DEF PageShape, NoPanel
    <2>3. QED
        BY <1>0, <2>1, <2>2 DEF PageShape
  <1>2. AnswersRight'
    <2>1. wizard'.check.state = "done" /\ wizard'.check.ready => wizard'.check.of \in found
        BY <1>0 DEF AnswersRight, NotAsked, Ask
    <2>2. wizard'.probe.state # "idle" => wizard'.probe.of.address = wizard'.form.address
        BY <1>0 DEF AnswersRight, NotAsked, Ask
    <2>3. wizard'.enrol.state = "asked" => wizard'.step = 4 /\ wizard'.enrol.of \in found
        BY <1>0 DEF AnswersRight
    <2>4. QED
        BY <2>1, <2>2, <2>3 DEF AnswersRight
  <1>3. ConfirmedRight'
    <2>1. panel'.confirmed # Blank => wizard'.step = 3 /\ <<wizard'.form.address, panel'.confirmed>> \in confirmedAt
        BY <1>0 DEF ConfirmedRight, NoPanel
    <2>2. QED
        BY <1>0, <2>1 DEF ConfirmedRight
  <1>4. QED
      BY <1>1, <1>2, <1>3 DEF EnrolInv

-----------------------------------------------------------------------------
\* A field is edited: the check, and with the address the probe, are forgotten.
LEMMA Edits ==
    ASSUME EnrolInv,
           \/ \E field \in DOMAIN NoForm : \E value \in ValuesOf(field) : SetField(field, value)
           \/ \E k \in SshKeys : GenerateKey(k)
    PROVE  EnrolInv'
  <1>0. PageShape
      BY DEF EnrolInv
  <1>1. DOMAIN NoForm = FormFields
      BY DEF NoForm, FormFields
  <1>2. ASSUME NEW field \in FormFields, NEW value,
               wizard' = [Reset(field) EXCEPT !.form[field] = value],
               wizard.step = StepOf(field),
               UNCHANGED <<panel, installs, enrolled, found, confirmedAt, rootSeen>>
        PROVE  EnrolInv'
    <2>1. PICK base : base = Reset(field)
        OBVIOUS
    <2>2. /\ DOMAIN base = DOMAIN wizard /\ base.form = wizard.form /\ base.enrol = wizard.enrol
          /\ base.check = NotAsked /\ base.step = wizard.step
          /\ base.probe = (IF field = "address" THEN NotAsked ELSE wizard.probe)
        BY <1>0, <2>1 DEF Reset, PageShape
    <2>3. PICK new : new = [wizard.form EXCEPT ![field] = value]
        OBVIOUS
    <2>4. wizard' = [base EXCEPT !.form = new]
        BY <1>0, <1>2, <2>1, <2>2, <2>3 DEF PageShape
    <2>5. DOMAIN new = FormFields /\ (field # "address" => new.address = wizard.form.address)
        BY <1>0, <2>3 DEF PageShape, FormFields
    <2>6. /\ DOMAIN wizard' = DOMAIN wizard /\ wizard'.form = new /\ wizard'.enrol = wizard.enrol
          /\ wizard'.check = NotAsked /\ wizard'.step = wizard.step /\ wizard'.probe = base.probe
        BY <1>0, <2>2, <2>4 DEF PageShape
    <2>7. wizard.step # 3
        BY <1>2 DEF StepOf, FormFields
    <2>8. wizard'.enrol.state = "asked" => wizard'.step = 4
        BY <2>6 DEF EnrolInv, AnswersRight
    <2>9. QED
        BY <1>0, <1>2, <2>2, <2>5, <2>6, <2>7, <2>8, PartsDecide DEF PageShape
  <1>3. ASSUME NEW field \in DOMAIN NoForm, NEW value \in ValuesOf(field), SetField(field, value)
        PROVE  EnrolInv'
      BY <1>1, <1>2, <1>3 DEF SetField, server, history
  <1>4. ASSUME NEW k \in SshKeys, GenerateKey(k) PROVE EnrolInv'
    <2>1. wizard' = [Reset("key") EXCEPT !.form["key"] = k] /\ wizard.step = 0
          /\ UNCHANGED <<panel, installs, enrolled, found, confirmedAt, rootSeen>>
        BY <1>4 DEF GenerateKey, history
    <2>2. "key" \in FormFields /\ StepOf("key") = 0
        BY DEF FormFields, StepOf
    <2>3. QED
        BY <1>2, <2>1, <2>2
  <1>5. QED
      BY <1>3, <1>4

\* The steps that only look at the form or move on, and those that happen elsewhere.
LEMMA PageTurns ==
    ASSUME EnrolInv,
           \/ \E k \in SshKeys : KeyAdded(k)
           \/ \E mode \in {"express", "manual"} : SetInstallMode(mode)
           \/ \E next \in 0..4 : ShowStep(next)
           \/ CopyCommand \/ AskProbe \/ AskCheck \/ LeaveForManual \/ ReadKey \/ KeyRead \/ EnterSecret
           \/ \E host \in Prints : RunCopied(host) \/ \E a \in HostAddresses : Swap(a, host)
           \/ UNCHANGED enrolVars
    PROVE  EnrolInv'
  <1>0. PageShape /\ (wizard.enrol.state = "asked" => wizard.step = 4)
      BY DEF EnrolInv, AnswersRight
  <1>1. ASSUME UNCHANGED <<wizard, installs, enrolled, found, confirmedAt, rootSeen>>,
               panel' = panel \/ (panel'.confirmed \in {Blank, panel.confirmed} /\ DOMAIN panel' = DOMAIN panel)
        PROVE  EnrolInv'
      BY <1>0, <1>1, PartsDecide DEF PageShape
  <1>2. ASSUME NEW k \in SshKeys, KeyAdded(k) PROVE EnrolInv'
      BY <1>1, <1>2 DEF KeyAdded, page, history
  <1>3. ASSUME NEW host \in Prints, NEW a \in HostAddresses, RunCopied(host) \/ Swap(a, host) PROVE EnrolInv'
      BY <1>1, <1>3 DEF RunCopied, Swap, page, history
  <1>4. ASSUME NEW host \in Prints, RunCopied(host) PROVE EnrolInv'
      BY <1>1, <1>4 DEF RunCopied, page, history
  <1>5. CASE UNCHANGED enrolVars
      BY <1>1, <1>5 DEF enrolVars
  <1>6. CASE ReadKey
    <2>1. /\ UNCHANGED <<wizard, installs, enrolled, found, confirmedAt, rootSeen>>
          /\ panel' = [panel EXCEPT !.confirmed = Blank, !.outcome = "none", !.read = Ask(wizard.form)]
        BY <1>6 DEF ReadKey, server, history, Form
    <2>2. panel'.confirmed = Blank /\ DOMAIN panel' = DOMAIN panel
        BY <1>0, <2>1 DEF PageShape
    <2>3. QED
        BY <1>1, <2>1, <2>2
  <1>7. CASE KeyRead \/ EnterSecret
    <2>1. UNCHANGED <<wizard, installs, enrolled, found, confirmedAt, rootSeen>>
        BY <1>7 DEF KeyRead, EnterSecret, server, history
    <2>2. panel'.confirmed = panel.confirmed /\ DOMAIN panel' = DOMAIN panel
        BY <1>0, <1>7 DEF KeyRead, EnterSecret, PageShape
    <2>3. QED
        BY <1>1, <2>1, <2>2
  <1>8. ASSUME NEW mode, SetInstallMode(mode) \/ CopyCommand PROVE EnrolInv'
    <2>1. UNCHANGED <<panel, installs, enrolled, found, confirmedAt, rootSeen>>
        BY <1>8 DEF SetInstallMode, CopyCommand, server, history
    <2>2. /\ DOMAIN wizard' = DOMAIN wizard /\ wizard'.form = wizard.form /\ wizard'.enrol = wizard.enrol
          /\ wizard'.check = wizard.check /\ wizard'.step = wizard.step /\ wizard'.probe = wizard.probe
        BY <1>0, <1>8 DEF SetInstallMode, CopyCommand, PageShape
    <2>3. QED
        BY <1>0, <2>1, <2>2, PartsDecide DEF PageShape
  <1>9. ASSUME NEW next \in 0..4, ShowStep(next) PROVE EnrolInv'
    <2>1. /\ UNCHANGED <<installs, enrolled, found, confirmedAt, rootSeen>> /\ panel' = NoPanel
          /\ wizard' = [wizard EXCEPT !.step = next]
        BY <1>9 DEF ShowStep, server, history
    <2>2. /\ DOMAIN wizard' = DOMAIN wizard /\ wizard'.form = wizard.form /\ wizard'.enrol = wizard.enrol
          /\ wizard'.check = wizard.check /\ wizard'.probe = wizard.probe
        BY <1>0, <2>1 DEF PageShape
    <2>3. wizard.enrol.state # "asked"
        BY <1>0, <1>9 DEF ShowStep, CanAdvance
    <2>4. QED
        BY <1>0, <2>1, <2>2, <2>3, PartsDecide DEF PageShape
  <1>10. CASE AskProbe \/ AskCheck
    <2>1. /\ UNCHANGED <<panel, installs, enrolled, found, confirmedAt, rootSeen>>
          /\ wizard' = [wizard EXCEPT !.probe = Ask(wizard.form)] \/ wizard' = [wizard EXCEPT !.check = Ask(wizard.form)]
        BY <1>10 DEF AskProbe, AskCheck, server, history, Form
    <2>2. /\ DOMAIN wizard' = DOMAIN wizard /\ wizard'.form = wizard.form /\ wizard'.enrol = wizard.enrol
          /\ wizard'.step = wizard.step
          /\ wizard'.check = wizard.check \/ wizard'.check = Ask(wizard.form)
          /\ wizard'.probe = wizard.probe \/ wizard'.probe = Ask(wizard.form)
        BY <1>0, <2>1 DEF PageShape
    <2>3. QED
        BY <1>0, <2>1, <2>2, PartsDecide DEF PageShape
  <1>11. CASE LeaveForManual
    <2>1. /\ UNCHANGED <<installs, enrolled, found, confirmedAt, rootSeen>> /\ panel' = NoPanel
          /\ wizard' = [wizard EXCEPT !.mode = "manual"]
        BY <1>11 DEF LeaveForManual, server, history
    <2>2. /\ DOMAIN wizard' = DOMAIN wizard /\ wizard'.form = wizard.form /\ wizard'.enrol = wizard.enrol
          /\ wizard'.check = wizard.check /\ wizard'.probe = wizard.probe /\ wizard'.step = wizard.step
        BY <1>0, <2>1 DEF PageShape
    <2>3. QED
        BY <1>0, <2>1, <2>2, PartsDecide DEF PageShape
  <1>12. QED
      BY <1>2, <1>3, <1>4, <1>5, <1>6, <1>7, <1>8, <1>9, <1>10, <1>11

-----------------------------------------------------------------------------
\* An answer comes to the page, or the enrolment is submitted.
LEMMA Answers ==
    ASSUME EnrolInv, ProbeAnswered \/ CheckAnswered \/ SubmitEnrolment \/ Enroll
    PROVE  EnrolInv'
  <1>0. /\ PageShape /\ AnswersRight /\ ConfirmedRight
        /\ enrolled \subseteq found /\ rootSeen \subseteq confirmedAt
      BY DEF EnrolInv
  <1>1. UNCHANGED <<panel, installs, confirmedAt, rootSeen>>
      BY DEF ProbeAnswered, CheckAnswered, SubmitEnrolment, Enroll, server, history
  <1>2. CASE ProbeAnswered
    <2>1. /\ wizard.probe.state = "asked" /\ wizard' = [wizard EXCEPT !.probe.state = "done"]
          /\ UNCHANGED <<found, enrolled>>
        BY <1>2 DEF ProbeAnswered, server, history
    <2>2. /\ DOMAIN wizard' = DOMAIN wizard /\ wizard'.form = wizard.form /\ wizard'.enrol = wizard.enrol
          /\ wizard'.check = wizard.check /\ wizard'.step = wizard.step
          /\ DOMAIN wizard'.probe = DOMAIN wizard.probe /\ wizard'.probe.of = wizard.probe.of
        BY <1>0, <2>1 DEF PageShape, CallFields
    <2>3. PageShape'
        BY <1>0, <1>1, <2>2 DEF PageShape
    <2>4. AnswersRight' /\ ConfirmedRight'
        BY <1>0, <1>1, <2>1, <2>2 DEF AnswersRight, ConfirmedRight
    <2>5. QED
        BY <1>0, <1>1, <2>1, <2>3, <2>4 DEF EnrolInv
  <1>3. CASE CheckAnswered
    <2>1. PICK ready \in BOOLEAN : ready = (/\ Presented(wizard.check.of)
                                            /\ <<wizard.check.of.print, wizard.check.of.account, wizard.check.of.key>> \in prepared)
        OBVIOUS
    <2>2. /\ wizard.check.state = "asked" /\ UNCHANGED enrolled
          /\ \/ /\ wizard' = [wizard EXCEPT !.check.state = "done", !.check.ready = ready]
                /\ found' = IF ready THEN found \cup {wizard.check.of} ELSE found
             \/ /\ wizard' = [wizard EXCEPT !.check.state = "failed"]
                /\ UNCHANGED found
        BY <1>3, <2>1 DEF CheckAnswered, server
    <2>3. found \subseteq found'
        BY <2>2
    <2>4. /\ DOMAIN wizard' = DOMAIN wizard /\ wizard'.form = wizard.form /\ wizard'.enrol = wizard.enrol
          /\ wizard'.probe = wizard.probe /\ wizard'.step = wizard.step
          /\ DOMAIN wizard'.check = DOMAIN wizard.check /\ wizard'.check.of = wizard.check.of
      <3>1. PICK checked : /\ \/ checked = [wizard.check EXCEPT !.state = "done", !.ready = ready]
                              \/ checked = [wizard.check EXCEPT !.state = "failed"]
                           /\ wizard' = [wizard EXCEPT !.check = checked]
        <4>1. CASE wizard' = [wizard EXCEPT !.check.state = "done", !.check.ready = ready]
            BY <4>1
        <4>2. CASE wizard' = [wizard EXCEPT !.check.state = "failed"]
            BY <4>2
        <4>3. QED
            BY <2>2, <4>1, <4>2
      <3>2. DOMAIN checked = DOMAIN wizard.check /\ checked.of = wizard.check.of
          BY <1>0, <3>1 DEF PageShape, CallFields
      <3>3. QED
          BY <1>0, <3>1, <3>2 DEF PageShape
    <2>5. wizard'.check.state = "done" /\ wizard'.check.ready => wizard'.check.of \in found'
      <3>1. CASE /\ wizard' = [wizard EXCEPT !.check.state = "done", !.check.ready = ready]
                 /\ found' = IF ready THEN found \cup {wizard.check.of} ELSE found
        <4>1. wizard'.check.ready = ready
            BY <1>0, <3>1 DEF PageShape, CallFields
        <4>2. QED
            BY <2>4, <3>1, <4>1
      <3>2. CASE wizard' = [wizard EXCEPT !.check.state = "failed"]
          BY <1>0, <3>2 DEF PageShape, CallFields
      <3>3. QED
          BY <2>2, <3>1, <3>2
    <2>6. PageShape'
        BY <1>0, <1>1, <2>4 DEF PageShape
    <2>7. AnswersRight' /\ ConfirmedRight'
        BY <1>0, <1>1, <2>3, <2>4, <2>5 DEF AnswersRight, ConfirmedRight
    <2>8. QED
        BY <1>0, <1>1, <2>2, <2>3, <2>6, <2>7 DEF EnrolInv
  <1>4. CASE SubmitEnrolment
    <2>1. /\ wizard.step = 4 /\ wizard' = [wizard EXCEPT !.enrol = Ask(wizard.form)] /\ UNCHANGED <<found, enrolled>>
          /\ wizard.check.state = "done" /\ wizard.check.ready /\ wizard.check.of = wizard.form
        BY <1>4 DEF SubmitEnrolment, CheckedReady, server, history, Form
    <2>2. /\ DOMAIN wizard' = DOMAIN wizard /\ wizard'.form = wizard.form /\ wizard'.check = wizard.check
          /\ wizard'.probe = wizard.probe /\ wizard'.step = wizard.step /\ wizard'.enrol = Ask(wizard.form)
        BY <1>0, <2>1 DEF PageShape
    <2>3. DOMAIN wizard'.enrol = CallFields /\ wizard'.enrol.of = wizard.form
        BY <2>2 DEF Ask, CallFields
    <2>4. wizard.form \in found
        BY <1>0, <2>1 DEF AnswersRight
    <2>5. PageShape'
        BY <1>0, <1>1, <2>2, <2>3 DEF PageShape
    <2>6. AnswersRight' /\ ConfirmedRight'
        BY <1>0, <1>1, <2>1, <2>2, <2>3, <2>4 DEF AnswersRight, ConfirmedRight
    <2>7. QED
        BY <1>0, <1>1, <2>1, <2>5, <2>6 DEF EnrolInv
  <1>5. CASE Enroll
    <2>1. /\ wizard.enrol.state = "asked" /\ UNCHANGED found
          /\ \/ wizard' = [wizard EXCEPT !.step = 5, !.enrol.state = "done"] /\ enrolled' = enrolled \cup {wizard.enrol.of}
             \/ wizard' = [wizard EXCEPT !.enrol.state = "failed"] /\ UNCHANGED enrolled
        BY <1>5 DEF Enroll, history
    <2>2. wizard.step = 4 /\ wizard.enrol.of \in found
        BY <1>0, <2>1 DEF AnswersRight
    <2>3. panel.confirmed = Blank
        BY <1>0, <2>2 DEF ConfirmedRight
    <2>4. /\ DOMAIN wizard' = DOMAIN wizard /\ wizard'.form = wizard.form /\ wizard'.check = wizard.check
          /\ wizard'.probe = wizard.probe /\ DOMAIN wizard'.enrol = DOMAIN wizard.enrol
          /\ wizard'.enrol.state \in {"done", "failed"}
      <3>1. CASE wizard' = [wizard EXCEPT !.step = 5, !.enrol.state = "done"]
          BY <1>0, <3>1 DEF PageShape, CallFields
      <3>2. CASE wizard' = [wizard EXCEPT !.enrol.state = "failed"]
          BY <1>0, <3>2 DEF PageShape, CallFields
      <3>3. QED
          BY <2>1, <3>1, <3>2
    <2>5. PageShape'
        BY <1>0, <1>1, <2>4 DEF PageShape
    <2>6. AnswersRight' /\ ConfirmedRight'
        BY <1>0, <1>1, <2>1, <2>3, <2>4 DEF AnswersRight, ConfirmedRight
    <2>7. QED
        BY <1>0, <1>1, <2>1, <2>2, <2>5, <2>6 DEF EnrolInv
  <1>6. QED
      BY <1>2, <1>3, <1>4, <1>5

-----------------------------------------------------------------------------
\* The express set-up: a key is confirmed, a credential is given, the server connects and runs the script.
LEMMA Confirms ==
    ASSUME EnrolInv, Confirm \/ \E unlock \in BOOLEAN : Install(unlock)
    PROVE  EnrolInv'
  <1>0. /\ PageShape /\ AnswersRight /\ ConfirmedRight
        /\ enrolled \subseteq found /\ rootSeen \subseteq confirmedAt
      BY DEF EnrolInv
  <1>1. CASE Confirm
    <2>1. PICK key : key = panel.read.of.print
        OBVIOUS
    <2>2. /\ wizard.step = 3 /\ panel' = [panel EXCEPT !.confirmed = key]
          /\ confirmedAt' = confirmedAt \cup {<<wizard.form.address, key>>}
          /\ UNCHANGED <<wizard, installs, enrolled, found, rootSeen>>
        BY <1>1, <2>1 DEF Confirm, OnPanel, server, Form
    <2>3. panel'.confirmed = key /\ DOMAIN panel' = DOMAIN panel
        BY <1>0, <2>2 DEF PageShape
    <2>4. PageShape' /\ AnswersRight' /\ ConfirmedRight'
        BY <1>0, <2>2, <2>3 DEF PageShape, AnswersRight, ConfirmedRight
    <2>5. QED
        BY <1>0, <2>2, <2>4 DEF EnrolInv
  <1>2. ASSUME NEW unlock \in BOOLEAN, Install(unlock) PROVE EnrolInv'
    <2>1. PICK target : target = [wizard.form EXCEPT !.print = panel.confirmed]
        OBVIOUS
    <2>2. PICK i : i = [id |-> enrolCalls', target |-> target, unlock |-> unlock, pc |-> "connect"]
        OBVIOUS
    <2>3. /\ installs' = installs \cup {i} /\ panel' = [panel EXCEPT !.outcome = "none", !.busy = enrolCalls']
          /\ panel.confirmed # Blank /\ UNCHANGED <<wizard, enrolled, found, confirmedAt, rootSeen>>
        BY <1>2, <2>1, <2>2 DEF Install, history, Form
    <2>4. i.target = target /\ DOMAIN i = {"id", "target", "unlock", "pc"}
        BY <2>2
    <2>5. target.address = wizard.form.address /\ target.print = panel.confirmed
        BY <1>0, <2>1 DEF PageShape, FormFields
    <2>6. panel'.confirmed = panel.confirmed /\ DOMAIN panel' = DOMAIN panel
        BY <1>0, <2>3 DEF PageShape
    <2>7. <<target.address, target.print>> \in confirmedAt
        BY <1>0, <2>3, <2>5 DEF ConfirmedRight
    <2>8. PageShape'
        BY <1>0, <2>3, <2>4, <2>6 DEF PageShape
    <2>9. AnswersRight' /\ ConfirmedRight'
        BY <1>0, <2>3, <2>4, <2>6, <2>7 DEF AnswersRight, ConfirmedRight
    <2>10. QED
        BY <1>0, <2>3, <2>8, <2>9 DEF EnrolInv
  <1>3. QED
      BY <1>1, <1>2

\* The outcome of a set-up reaches the page, and the set-up is over or runs on.
LEMMA Reports ==
    ASSUME EnrolInv, NEW i \in installs, NEW outcome, Report(i, outcome) \/ UNCHANGED page,
           NEW pc, installs' \subseteq (installs \ {i}) \cup {[i EXCEPT !.pc = pc]},
           UNCHANGED <<enrolled, found, confirmedAt>>, rootSeen' \subseteq confirmedAt
    PROVE  EnrolInv'
  <1>0. PageShape /\ AnswersRight /\ ConfirmedRight /\ enrolled \subseteq found
      BY DEF EnrolInv
  <1>1. \A j \in installs' : DOMAIN j = {"id", "target", "unlock", "pc"}
                             /\ <<j.target.address, j.target.print>> \in confirmedAt
    <2>1. ASSUME NEW j, j = [i EXCEPT !.pc = pc]
          PROVE  DOMAIN j = {"id", "target", "unlock", "pc"} /\ j.target = i.target
        BY <1>0, <2>1 DEF PageShape
    <2>2. QED
        BY <1>0, <2>1 DEF PageShape, ConfirmedRight
  <1>2. /\ DOMAIN panel' = DOMAIN panel
        /\ panel'.confirmed = Blank \/ (panel'.confirmed = panel.confirmed /\ wizard' = wizard)
    <2>1. CASE UNCHANGED page
        BY <2>1 DEF page
    <2>2. CASE panel' = NoPanel
        BY <1>0, <2>2 DEF NoPanel, PageShape
    <2>3. CASE panel' = [panel EXCEPT !.busy = 0, !.outcome = outcome] /\ UNCHANGED wizard
        BY <1>0, <2>3 DEF PageShape
    <2>4. QED
        BY <2>1, <2>2, <2>3 DEF Report
  <1>3. /\ DOMAIN wizard' = DOMAIN wizard /\ wizard'.check = wizard.check /\ wizard'.probe = wizard.probe
        /\ wizard'.enrol = wizard.enrol /\ wizard'.form.address = wizard.form.address
        /\ DOMAIN wizard'.form = DOMAIN wizard.form
        /\ wizard'.step = wizard.step \/ wizard'.step = 4
    <2>1. CASE UNCHANGED wizard
        BY <2>1
    <2>2. CASE wizard' = [wizard EXCEPT !.form.print = i.target.print, !.step = 4]
        BY <1>0, <2>2 DEF PageShape, FormFields
    <2>3. QED
        BY <2>1, <2>2 DEF Report, page
  <1>4. PageShape'
      BY <1>0, <1>1, <1>2, <1>3 DEF PageShape
  <1>5. AnswersRight'
      BY <1>0, <1>3 DEF AnswersRight
  <1>6. ConfirmedRight'
      BY <1>0, <1>1, <1>2, <1>3 DEF ConfirmedRight
  <1>7. QED
      BY <1>0, <1>4, <1>5, <1>6 DEF EnrolInv

LEMMA SetsUp ==
    ASSUME EnrolInv, NEW i \in installs,
           RootConnect(i) \/ \E ended \in {"printed", "printed other", "locked", "gave up"} : ScriptEnds(i, ended)
    PROVE  EnrolInv'
  <1>0. ConfirmedRight /\ rootSeen \subseteq confirmedAt
      BY DEF EnrolInv
  <1>1. CASE RootConnect(i)
    <2>1. rootSeen' \subseteq confirmedAt
      <3>1. CASE UNCHANGED rootSeen
          BY <1>0, <3>1
      <3>2. CASE Verified(i) /\ rootSeen' = rootSeen \cup {<<i.target.address, answers[i.target.address]>>}
        <4>1. answers[i.target.address] = i.target.print
            BY <3>2 DEF Verified, Presented, ProbedKey
        <4>2. <<i.target.address, i.target.print>> \in confirmedAt
            BY <1>0 DEF ConfirmedRight
        <4>3. QED
            BY <1>0, <3>2, <4>1, <4>2
      <3>3. QED
          BY <1>1, <3>1, <3>2 DEF RootConnect
    <2>2. UNCHANGED <<enrolled, found, confirmedAt>>
        BY <1>1 DEF RootConnect
    <2>3. PICK outcome : Report(i, outcome) \/ UNCHANGED page
        BY <1>1 DEF RootConnect
    <2>4. installs' \subseteq (installs \ {i}) \cup {[i EXCEPT !.pc = "run"]}
        BY <1>1 DEF RootConnect
    <2>5. QED
        BY <2>1, <2>2, <2>3, <2>4, Reports
  <1>2. ASSUME NEW ended \in {"printed", "printed other", "locked", "gave up"}, ScriptEnds(i, ended)
        PROVE  EnrolInv'
    <2>1. /\ UNCHANGED <<enrolled, found, confirmedAt, rootSeen>> /\ installs' = installs \ {i}
          /\ Report(i, ScriptOutcome(ended))
        BY <1>2 DEF ScriptEnds, history
    <2>2. installs' \subseteq (installs \ {i}) \cup {[i EXCEPT !.pc = "run"]}
        BY <2>1
    <2>3. QED
        BY <1>0, <2>1, <2>2, Reports
  <1>3. QED
      BY <1>1, <1>2

-----------------------------------------------------------------------------
\* However answers, edits, set-ups and machines come and go: what is enrolled was found ready as it is
\* enrolled, a root credential goes only to a machine whose key was confirmed for that address, and a probe
\* is shown beside the address it is about (checkedReady, submit, install, createRootSession, addressInput).
THEOREM WizardVets == EnrolSpec => []EnrolmentIsVetted
  <1>1. EnrolInv /\ [EnrolNext]_enrolVars => EnrolInv'
      BY Edits, PageTurns, Answers, Confirms, SetsUp DEF EnrolNext
  <1>2. EnrolSpec => []EnrolInv
      BY <1>1, EnrolBegins, PTL DEF EnrolSpec
  <1>3. EnrolInv => EnrolmentIsVetted
      BY DEF EnrolInv, AnswersRight, EnrolmentIsVetted, EnrolledWasChecked, RootOnlyToConfirmed,
             ProbeIsOfTheAddress, Form
  <1>4. QED
      BY <1>2, <1>3, PTL

-----------------------------------------------------------------------------
(***************************************************************************)
(* ControlPlane, for any number of servers, builds, restarts and broken    *)
(* sessions.  A server that was granted the lock, and whose session has not *)
(* been ended, is the one that holds it; what the worker's row says was seen *)
(* is no later than a worker of that build and schema was up; a process that *)
(* is past a queue has made it.                                            *)
(***************************************************************************)
USE ControlPlaneAssumption, ServerNamesAssumption, CreationOrder

Ats == {"announce", "create", "update", "verify", "lock", "granted", "refused", "serving", "working"}
UpProcess == [at : Ats, build : Builds, schema : {1, 2}, queue : {1, 2}]
SeenRow == [build : Builds, schema : {1, 2}, seenAt : Nat]

FleetTypes ==
    /\ process \in [Processes -> {Off} \cup UpProcess]
    /\ queueRows \in [Queues -> Builds \cup {NoBuild}]
    /\ session \in [Servers -> {"none", "open", "broken"}]
    /\ schemaNow \in {1, 2} /\ fleetNow \in Nat /\ beat \in Nat \cup {NoBeat}
    /\ workerRow \in {NoRow} \cup SeenRow
    /\ lastAlive \in [Builds \X {1, 2} -> Int]

\* Granted, and not lost: held.
LockKept ==
    \A s \in Servers : At(s) \in {"granted", "serving"} /\ session[s] # "broken" => lockHolder = s

\* A process that is past a queue found it, or made it; a queue comes after its dead letter queue.
QueuesMade ==
    /\ queueRows["deliver"] # NoBuild => queueRows["deadletter"] # NoBuild
    /\ \A p \in Processes :
         /\ process[p] # Off /\ process[p].queue = 2 => queueRows["deadletter"] # NoBuild
         /\ At(p) \in {"update", "verify"} => queueRows[QueueAt(p)] # NoBuild
         /\ At(p) \in {"lock", "granted", "refused", "serving", "working"} =>
               queueRows["deadletter"] # NoBuild /\ queueRows["deliver"] # NoBuild

\* When a worker of the build and schema of a row, or of the worker itself, was last up.
AliveAs(who) == lastAlive[<<who.build, who.schema>>]

\* The row is that of the worker that announced itself last; neither it nor a heartbeat on its way says
\* that anything was seen later than such a worker was up.
WorkerSeen ==
    /\ \A w \in Builds \X {1, 2} : lastAlive[w] <= fleetNow
    /\ WorkerUp => AliveAs(process["worker"]) = fleetNow
    /\ At("worker") \notin {"off", "announce"} =>
         workerRow # NoRow /\ workerRow.build = process["worker"].build
                           /\ workerRow.schema = process["worker"].schema
    /\ workerRow # NoRow => workerRow.seenAt <= AliveAs(workerRow)
    /\ beat # NoBeat => workerRow # NoRow /\ beat <= AliveAs(workerRow)

FleetInv == FleetTypes /\ LockKept /\ QueuesMade /\ WorkerSeen

-----------------------------------------------------------------------------
LEMMA TheQueues == Queues = {"deliver", "deadletter"} /\ DeadLetterOf("deliver") = "deadletter" /\ DeadLetterOf("deadletter") = "none" /\ Len(OrderedForCreation) = 2
  <1>1. QueuePolicies = <<"deliver", "deadletter">> /\ DOMAIN QueuePolicies = {1, 2}
      BY DEF QueuePolicies
  <1>2. Queues = {"deliver", "deadletter"}
      BY <1>1 DEF Queues
  <1>3. DeadLetterOf("deliver") = "deadletter" /\ DeadLetterOf("deadletter") = "none"
      BY DEF DeadLetterOf
  <1>4. Len(OrderedForCreation) = 2
      OBVIOUS
  <1>5. QED
      BY <1>2, <1>3, <1>4

LEMMA FleetBegins == FleetInit => FleetInv
  <1> SUFFICES ASSUME FleetInit PROVE FleetInv
      OBVIOUS
  <1>1. \A p \in Processes : process[p] = Off
      BY DEF FleetInit
  <1>2. FleetTypes
      BY DEF FleetInit, FleetTypes, NoBeat
  <1>3. LockKept
      BY <1>1 DEF LockKept, At, Off, Processes
  <1>4. QueuesMade
      BY <1>1, TheQueues DEF FleetInit, QueuesMade, At, Off
  <1>5. WorkerSeen
    <2>1. process["worker"] = Off
        BY <1>1 DEF Processes
    <2>2. \A w \in Builds \X {1, 2} : lastAlive[w] <= fleetNow
        BY DEF FleetInit
    <2>3. workerRow = NoRow /\ beat = NoBeat
        BY DEF FleetInit
    <2>4. QED
        BY <2>1, <2>2, <2>3 DEF WorkerSeen, WorkerUp, At, Off
  <1>6. QED
      BY <1>2, <1>3, <1>4, <1>5 DEF FleetInv

-----------------------------------------------------------------------------
\* A process that is up, and moves on.
LEMMA Moves ==
    ASSUME FleetTypes, NEW p \in Processes, NEW a \in Ats, process[p] # Off, GoTo(p, a)
    PROVE  /\ process' \in [Processes -> {Off} \cup UpProcess]
           /\ process'[p] \in UpProcess /\ process'[p].at = a
           /\ process'[p].build = process[p].build /\ process'[p].schema = process[p].schema
           /\ process'[p].queue = process[p].queue
           /\ \A o \in Processes : o # p => process'[o] = process[o]
  <1>1. process[p] \in UpProcess /\ process \in [Processes -> {Off} \cup UpProcess]
      BY DEF FleetTypes
  <1>2. PICK new : new = [process[p] EXCEPT !.at = a]
      OBVIOUS
  <1>3. process' = [process EXCEPT ![p] = new]
      BY <1>2 DEF GoTo
  <1>4. /\ new \in UpProcess /\ new.at = a /\ new.build = process[p].build
        /\ new.schema = process[p].schema /\ new.queue = process[p].queue
      BY <1>1, <1>2 DEF UpProcess
  <1>5. process'[p] = new /\ \A o \in Processes : o # p => process'[o] = process[o]
      BY <1>1, <1>3
  <1>6. process' \in [Processes -> {Off} \cup UpProcess]
      BY <1>1, <1>3, <1>4
  <1>7. QED
      BY <1>4, <1>5, <1>6

\* A process ends.
LEMMA Ends ==
    ASSUME FleetTypes, NEW p \in Processes, process' = [process EXCEPT ![p] = Off]
    PROVE  /\ process' \in [Processes -> {Off} \cup UpProcess] /\ process'[p] = Off
           /\ \A o \in Processes : o # p => process'[o] = process[o]
  BY DEF FleetTypes

\* A process starts.
LEMMA Boots ==
    ASSUME FleetTypes, NEW p \in Processes, NEW b \in Builds, NEW a \in Ats, Boot(p, b, a)
    PROVE  /\ process' \in [Processes -> {Off} \cup UpProcess]
           /\ process[p] = Off
           /\ process'[p] = [at |-> a, build |-> b, schema |-> schemaNow, queue |-> 1]
           /\ \A o \in Processes : o # p => process'[o] = process[o]
  <1>1. [at |-> a, build |-> b, schema |-> schemaNow, queue |-> 1] \in UpProcess
      BY DEF FleetTypes, UpProcess
  <1>2. process \in [Processes -> {Off} \cup UpProcess]
      BY DEF FleetTypes
  <1>3. QED
      BY <1>1, <1>2 DEF Boot

\* A verified queue: the process ends, takes the next queue, or is done with them.
LEMMA Verifies ==
    ASSUME FleetTypes, NEW p \in Processes, VerifyQueue(p)
    PROVE  /\ process' \in [Processes -> {Off} \cup UpProcess]
           /\ \A o \in Processes : o # p => process'[o] = process[o]
           /\ \/ process'[p] = Off
              \/ /\ process'[p] \in UpProcess /\ process[p].queue = 1
                 /\ process'[p].at = "create" /\ process'[p].queue = 2
                 /\ process'[p].build = process[p].build /\ process'[p].schema = process[p].schema
              \/ /\ process'[p] \in UpProcess /\ process[p].queue = 2
                 /\ process'[p].at = AfterQueues(p) /\ process'[p].queue = 2
                 /\ process'[p].build = process[p].build
                 /\ p = "worker" => process'[p].schema = process[p].schema
  <1>1. process[p].at = "verify" /\ process \in [Processes -> {Off} \cup UpProcess]
      BY DEF VerifyQueue, At, FleetTypes
  <1>2. process[p] \in UpProcess
      BY <1>1 DEF Off
  <1>3. process[p].queue \in {1, 2} /\ Len(OrderedForCreation) = 2
      BY <1>2, TheQueues DEF UpProcess
  <1>4. CASE process' = [process EXCEPT ![p] = Off]
      BY <1>4, Ends
  <1>5. CASE process[p].queue = 1 /\ process' = [process EXCEPT ![p].queue = @ + 1, ![p].at = "create"]
    <2>n. PICK n : n = process[p].queue + 1
        OBVIOUS
    <2>o. n = 2
        BY <1>5, <2>n
    <2>1. PICK new : new = [process[p] EXCEPT !.queue = n, !.at = "create"]
        OBVIOUS
    <2>2. process' = [process EXCEPT ![p] = new]
      <3>1. process' = [process EXCEPT ![p] = [process[p] EXCEPT !.queue = process[p].queue + 1, !.at = "create"]]
          BY <1>1, <1>5 DEF Processes
      <3>2. QED
          BY <2>n, <2>1, <3>1
    <2>3. /\ new \in UpProcess /\ new.at = "create" /\ new.queue = 2
          /\ new.build = process[p].build /\ new.schema = process[p].schema
        BY <1>2, <2>o, <2>1 DEF UpProcess, Ats
    <2>4. QED
        BY <1>1, <1>5, <2>2, <2>3
  <1>6. CASE process[p].queue = 2 /\ process' = [process EXCEPT ![p].at = AfterQueues(p),
                                                    ![p].schema = IF p = "worker" THEN @ ELSE schemaNow]
    <2>1. PICK schema \in {1, 2} : schema = IF p = "worker" THEN process[p].schema ELSE schemaNow
        BY <1>2 DEF UpProcess, FleetTypes
    <2>2. PICK new : new = [process[p] EXCEPT !.at = AfterQueues(p), !.schema = schema]
        OBVIOUS
    <2>3. process' = [process EXCEPT ![p] = new]
        BY <1>6, <2>1, <2>2
    <2>4. AfterQueues(p) \in Ats
        BY DEF AfterQueues, Ats
    <2>5. /\ new \in UpProcess /\ new.at = AfterQueues(p) /\ new.queue = process[p].queue
          /\ new.build = process[p].build /\ new.schema = schema
        BY <1>2, <2>2, <2>4 DEF UpProcess
    <2>6. QED
        BY <1>1, <1>6, <2>1, <2>3, <2>5
  <1>7. QED
    <2>1. \/ process' = [process EXCEPT ![p] = Off]
          \/ process[p].queue < 2 /\ process' = [process EXCEPT ![p].queue = @ + 1, ![p].at = "create"]
          \/ ~(process[p].queue < 2) /\ process' = [process EXCEPT ![p].at = AfterQueues(p),
                                                    ![p].schema = IF p = "worker" THEN @ ELSE schemaNow]
        BY <1>3 DEF VerifyQueue
    <2>2. /\ process[p].queue < 2 => process[p].queue = 1
          /\ ~(process[p].queue < 2) => process[p].queue = 2
        BY <1>3
    <2>3. QED
        BY <1>4, <1>5, <1>6, <2>1, <2>2, Zenon

\* The schema a process read, its queue and its build are as they were typed; so is all the rest.
LEMMA TypesStep ==
    ASSUME FleetTypes, [FleetNext]_fleetVars
    PROVE  FleetTypes'
  <1> USE DEF FleetTypes
  <1>1. ASSUME NEW p \in Processes, CreateQueue(p) \/ UpdateQueue(p) PROVE FleetTypes'
    <2>1. process[p] # Off /\ (GoTo(p, "update") \/ GoTo(p, "verify"))
        BY <1>1 DEF CreateQueue, UpdateQueue, At, Off
    <2>2. process' \in [Processes -> {Off} \cup UpProcess]
        BY <2>1, Moves DEF Ats
    <2>3. process[p].build \in Builds
        BY <2>1 DEF UpProcess
    <2>4. queueRows' \in [Queues -> Builds \cup {NoBuild}]
        BY <1>1, <2>3 DEF CreateQueue, UpdateQueue
    <2>5. UNCHANGED <<fleetNow, workerRow, beat, session, schemaNow, lastAlive>>
        BY <1>1 DEF CreateQueue, UpdateQueue
    <2>6. QED
        BY <2>2, <2>4, <2>5
  <1>2. ASSUME NEW p \in Processes, VerifyQueue(p) PROVE FleetTypes'
    <2>1. process' \in [Processes -> {Off} \cup UpProcess]
        BY <1>2, Verifies
    <2>2. UNCHANGED <<fleetNow, queueRows, workerRow, beat, session, schemaNow, lastAlive>>
        BY <1>2 DEF VerifyQueue
    <2>3. QED
        BY <2>1, <2>2
  <1>3. ASSUME NEW p \in Processes, Dies(p) PROVE FleetTypes'
    <2>1. process' \in [Processes -> {Off} \cup UpProcess]
        BY <1>3, Ends DEF Dies
    <2>2. session' \in [Servers -> {"none", "open", "broken"}]
        BY <1>3 DEF Dies
    <2>3. UNCHANGED <<fleetNow, queueRows, workerRow, beat, schemaNow, lastAlive>>
        BY <1>3 DEF Dies
    <2>4. QED
        BY <2>1, <2>2, <2>3
  <1>4. ASSUME NEW b \in Builds, StartWorker(b) PROVE FleetTypes'
    <2>1. process' \in [Processes -> {Off} \cup UpProcess]
        BY <1>4, Boots DEF StartWorker, Processes, Ats
    <2>2. lastAlive' \in [Builds \X {1, 2} -> Int]
        BY <1>4 DEF StartWorker
    <2>3. UNCHANGED <<fleetNow, queueRows, workerRow, beat, session, schemaNow>>
        BY <1>4 DEF StartWorker
    <2>4. QED
        BY <2>1, <2>2, <2>3
  <1>5. ASSUME NEW b \in Builds, NEW s \in Servers, StartServer(s, b) PROVE FleetTypes'
    <2>1. process' \in [Processes -> {Off} \cup UpProcess]
        BY <1>5, Boots DEF StartServer, Processes, Ats
    <2>2. UNCHANGED <<fleetNow, queueRows, workerRow, beat, session, schemaNow, lastAlive>>
        BY <1>5 DEF StartServer
    <2>3. QED
        BY <2>1, <2>2
  <1>6. CASE Announce
    <2>1. process["worker"] # Off /\ GoTo("worker", "create")
        BY <1>6 DEF Announce, At, Off
    <2>2. process' \in [Processes -> {Off} \cup UpProcess]
        BY <2>1, Moves DEF Ats, Processes
    <2>3. process["worker"] \in UpProcess
        BY <2>1 DEF Processes
    <2>4. workerRow' \in SeenRow
        BY <1>6, <2>3 DEF Announce, AnnouncedRow, UpProcess, SeenRow
    <2>5. UNCHANGED <<fleetNow, queueRows, beat, session, schemaNow, lastAlive>>
        BY <1>6 DEF Announce
    <2>6. QED
        BY <2>2, <2>4, <2>5
  <1>7. CASE SendHeartbeat \/ LoseHeartbeat
      BY <1>7 DEF SendHeartbeat, LoseHeartbeat
  <1>8. CASE WriteHeartbeat
    <2>1. workerRow' \in {NoRow} \cup SeenRow
      <3>1. CASE workerRow = NoRow
          BY <1>8, <3>1 DEF WriteHeartbeat, NoRow
      <3>2. CASE workerRow \in SeenRow
          BY <1>8, <3>2 DEF WriteHeartbeat, SeenRow
      <3>3. QED
          BY <3>1, <3>2
    <2>2. UNCHANGED <<fleetNow, process, queueRows, session, schemaNow, lastAlive>> /\ beat' = NoBeat
        BY <1>8 DEF WriteHeartbeat
    <2>3. QED
        BY <2>1, <2>2
  <1>9. ASSUME NEW s \in Servers, TryLock(s) \/ LockAnswered(s) \/ LockLost(s) PROVE FleetTypes'
    <2>1. process[s] # Off /\ s \in Processes
        BY <1>9 DEF TryLock, LockAnswered, LockLost, At, Off, Processes
    <2>2. process' \in [Processes -> {Off} \cup UpProcess]
      <3>1. CASE process' = [process EXCEPT ![s] = Off]
          BY <2>1, <3>1, Ends
      <3>2. CASE GoTo(s, "serving") \/ GoTo(s, "granted") \/ GoTo(s, "refused")
          BY <2>1, <3>2, Moves DEF Ats
      <3>3. QED
          BY <1>9, <3>1, <3>2 DEF TryLock, LockAnswered, LockLost, GoTo
    <2>3. session' \in [Servers -> {"none", "open", "broken"}]
        BY <1>9 DEF TryLock, LockAnswered, LockLost
    <2>4. UNCHANGED <<fleetNow, queueRows, workerRow, beat, schemaNow, lastAlive>>
        BY <1>9 DEF TryLock, LockAnswered, LockLost
    <2>5. QED
        BY <2>2, <2>3, <2>4
  <1>10. ASSUME NEW s \in Servers, SessionBreaks(s) PROVE FleetTypes'
      BY <1>10 DEF SessionBreaks
  <1>11. CASE SessionReaped \/ Migrate \/ UNCHANGED fleetVars
      BY <1>11 DEF SessionReaped, Migrate, fleetVars
  <1>12. CASE FleetTimePasses
    <2>1. fleetNow' \in Nat
        BY <1>12 DEF FleetTimePasses
    <2>2. lastAlive' \in [Builds \X {1, 2} -> Int]
      <3>1. fleetNow' \in Int
          BY <2>1
      <3>2. QED
          BY <1>12, <3>1 DEF FleetTimePasses
    <2>3. UNCHANGED <<process, queueRows, workerRow, beat, session, schemaNow>>
        BY <1>12 DEF FleetTimePasses
    <2>4. QED
        BY <2>1, <2>2, <2>3
  <1>13. QED
      BY <1>1, <1>2, <1>3, <1>4, <1>5, <1>6, <1>7, <1>8, <1>9, <1>10, <1>11, <1>12 DEF FleetNext

-----------------------------------------------------------------------------
\* The lock stays with whom it was granted to, until it is told otherwise.
LEMMA LocksStep ==
    ASSUME FleetTypes, LockKept, [FleetNext]_fleetVars
    PROVE  LockKept'
  <1> USE DEF LockKept
  <1>0. /\ \A s \in Servers : s \in Processes /\ s # "worker" /\ s # Free /\ s # Orphaned
        /\ DOMAIN session = Servers
      BY DEF Processes, FleetTypes
  <1>1. ASSUME NEW p \in Processes, CreateQueue(p) \/ UpdateQueue(p) PROVE LockKept'
    <2>1. process[p] # Off /\ (GoTo(p, "update") \/ GoTo(p, "verify"))
        BY <1>1 DEF CreateQueue, UpdateQueue, At, Off
    <2>2. /\ process'[p].at \in {"update", "verify"}
          /\ \A o \in Processes : o # p => process'[o] = process[o]
        BY <2>1, Moves DEF Ats
    <2>3. UNCHANGED <<lockHolder, session>>
        BY <1>1 DEF CreateQueue, UpdateQueue
    <2>4. QED
        BY <1>0, <2>2, <2>3 DEF At
  <1>2. ASSUME NEW p \in Processes, VerifyQueue(p) PROVE LockKept'
    <2>1. /\ process'[p].at \in {"off", "create", "working", "lock"}
          /\ \A o \in Processes : o # p => process'[o] = process[o]
        BY <1>2, Verifies DEF AfterQueues, Off
    <2>2. UNCHANGED <<lockHolder, session>>
        BY <1>2 DEF VerifyQueue
    <2>3. QED
        BY <1>0, <2>1, <2>2 DEF At
  <1>3. ASSUME NEW p \in Processes, Dies(p) PROVE LockKept'
    <2>1. process'[p].at = "off" /\ \A o \in Processes : o # p => process'[o] = process[o]
        BY <1>3, Ends DEF Dies, Off
    <2>2. \A s \in Servers : s # p => session'[s] = session[s] /\ (lockHolder = s => lockHolder' = s)
        BY <1>3 DEF Dies
    <2>3. QED
        BY <1>0, <2>1, <2>2 DEF At
  <1>4. ASSUME NEW b \in Builds, NEW p \in Processes, Boot(p, b, "announce") \/ Boot(p, b, "create"),
               UNCHANGED <<lockHolder, session>>
        PROVE  LockKept'
    <2>1. /\ process'[p].at \in {"announce", "create"}
          /\ \A o \in Processes : o # p => process'[o] = process[o]
      <3>1. PICK a \in {"announce", "create"} : Boot(p, b, a)
          BY <1>4
      <3>2. /\ process'[p] = [at |-> a, build |-> b, schema |-> schemaNow, queue |-> 1]
            /\ \A o \in Processes : o # p => process'[o] = process[o]
        <4>1. a \in Ats
            BY DEF Ats
        <4>2. QED
            BY <3>1, <4>1, Boots
      <3>3. QED
          BY <3>2
    <2>2. QED
        BY <1>0, <1>4, <2>1 DEF At
  <1>5. CASE Announce
    <2>1. process["worker"] # Off /\ GoTo("worker", "create") /\ UNCHANGED <<lockHolder, session>>
        BY <1>5 DEF Announce, At, Off
    <2>2. \A o \in Processes : o # "worker" => process'[o] = process[o]
        BY <2>1, Moves DEF Ats, Processes
    <2>3. QED
        BY <1>0, <2>1, <2>2 DEF At
  <1>6. ASSUME NEW s \in Servers, TryLock(s) PROVE LockKept'
    <2>1. process[s] # Off /\ s \in Processes
        BY <1>0, <1>6 DEF TryLock, At, Off
    <2>2. PICK a \in {"granted", "refused"} : a = IF lockHolder = Free THEN "granted" ELSE "refused"
        OBVIOUS
    <2>3. GoTo(s, a)
        BY <1>6, <2>2 DEF TryLock, GoTo
    <2>4. process'[s].at = a /\ \A o \in Processes : o # s => process'[o] = process[o]
        BY <2>1, <2>3, Moves DEF Ats
    <2>5. /\ lockHolder' = IF lockHolder = Free THEN s ELSE lockHolder
          /\ \A o \in Servers : o # s => session'[o] = session[o]
        BY <1>0, <1>6 DEF TryLock
    <2>6. ASSUME NEW o \in Servers, At(o)' \in {"granted", "serving"}, session'[o] # "broken"
          PROVE  lockHolder' = o
      <3>1. CASE o = s
          BY <2>2, <2>4, <2>5, <2>6, <3>1 DEF At
      <3>2. CASE o # s
        <4>1. lockHolder = o
            BY <1>0, <2>4, <2>5, <2>6, <3>2 DEF At
        <4>2. QED
            BY <1>0, <2>5, <4>1
      <3>3. QED
          BY <3>1, <3>2
    <2>7. QED
        BY <2>6
  <1>7. ASSUME NEW s \in Servers, LockAnswered(s) PROVE LockKept'
    <2>1. process[s] # Off /\ s \in Processes
        BY <1>0, <1>7 DEF LockAnswered, At, Off
    <2>2. CASE MayServe(s)
      <3>1. GoTo(s, "serving") /\ UNCHANGED <<session, lockHolder>>
          BY <1>7, <2>2 DEF LockAnswered
      <3>2. \A o \in Processes : o # s => process'[o] = process[o]
          BY <2>1, <3>1, Moves DEF Ats
      <3>3. lockHolder = s
          BY <2>2 DEF MayServe
      <3>4. QED
          BY <1>0, <3>1, <3>2, <3>3 DEF At
    <2>3. CASE ~MayServe(s)
      <3>1. /\ process' = [process EXCEPT ![s] = Off]
            /\ lockHolder' = IF lockHolder = s THEN Free ELSE lockHolder
            /\ \A o \in Servers : o # s => session'[o] = session[o]
          BY <1>0, <1>7, <2>3 DEF LockAnswered
      <3>2. process'[s].at = "off" /\ \A o \in Processes : o # s => process'[o] = process[o]
          BY <2>1, <3>1, Ends DEF Off
      <3>3. QED
          BY <1>0, <3>1, <3>2 DEF At
    <2>4. QED
        BY <2>2, <2>3
  <1>8. ASSUME NEW s \in Servers, SessionBreaks(s) PROVE LockKept'
    <2>1. /\ session'[s] = "broken" /\ \A o \in Servers : o # s => session'[o] = session[o]
          /\ lockHolder' = IF lockHolder = s THEN Free ELSE lockHolder
          /\ UNCHANGED process
        BY <1>0, <1>8 DEF SessionBreaks
    <2>2. QED
        BY <1>0, <2>1 DEF At
  <1>9. ASSUME NEW s \in Servers, LockLost(s) PROVE LockKept'
    <2>1. /\ process' = [process EXCEPT ![s] = Off] /\ UNCHANGED lockHolder
          /\ \A o \in Servers : o # s => session'[o] = session[o]
        BY <1>0, <1>9 DEF LockLost
    <2>2. process'[s].at = "off" /\ \A o \in Processes : o # s => process'[o] = process[o]
        BY <1>0, <2>1, Ends DEF Off
    <2>3. QED
        BY <1>0, <2>1, <2>2 DEF At
  <1>10. CASE SessionReaped
      BY <1>0, <1>10 DEF SessionReaped, At
  <1>11. CASE SendHeartbeat \/ WriteHeartbeat \/ LoseHeartbeat \/ Migrate \/ FleetTimePasses \/ UNCHANGED fleetVars
      BY <1>11 DEF SendHeartbeat, WriteHeartbeat, LoseHeartbeat, Migrate, FleetTimePasses, fleetVars, At
  <1>12. QED
    <2>1. ASSUME NEW b \in Builds, StartWorker(b) \/ \E s \in Servers : StartServer(s, b) PROVE LockKept'
        BY <1>0, <1>4, <2>1 DEF StartWorker, StartServer, Processes
    <2>2. QED
        BY <1>1, <1>2, <1>3, <1>5, <1>6, <1>7, <1>8, <1>9, <1>10, <1>11, <2>1 DEF FleetNext

-----------------------------------------------------------------------------
\* Queues are made and not unmade, so what a process is past stays there.
LEMMA QueuesKeep ==
    ASSUME FleetTypes, QueuesMade, NEW p \in Processes,
           \A o \in Processes : o # p => process'[o] = process[o],
           \A q \in Queues : queueRows[q] # NoBuild => queueRows'[q] # NoBuild,
           queueRows'["deliver"] # NoBuild => queueRows'["deadletter"] # NoBuild,
           process'[p] # Off /\ process'[p].queue = 2 => queueRows'["deadletter"] # NoBuild,
           process'[p].at \in {"update", "verify"} =>
               queueRows'[OrderedForCreation[process'[p].queue]] # NoBuild,
           process'[p].at \in {"lock", "granted", "refused", "serving", "working"} =>
               queueRows'["deadletter"] # NoBuild /\ queueRows'["deliver"] # NoBuild
    PROVE  QueuesMade'
  <1>1. ASSUME NEW o \in Processes, o # p
        PROVE  /\ process'[o] # Off /\ process'[o].queue = 2 => queueRows'["deadletter"] # NoBuild
               /\ process'[o].at \in {"update", "verify"} =>
                     queueRows'[OrderedForCreation[process'[o].queue]] # NoBuild
               /\ process'[o].at \in {"lock", "granted", "refused", "serving", "working"} =>
                     queueRows'["deadletter"] # NoBuild /\ queueRows'["deliver"] # NoBuild
    <2>1. process'[o] = process[o]
        BY <1>1
    <2>2. process[o].at \in {"update", "verify"} =>
              process[o].queue \in {1, 2} /\ OrderedForCreation[process[o].queue] \in Queues
      <3>1. process[o] \in {Off} \cup UpProcess
          BY DEF FleetTypes
      <3>2. process[o].at \in {"update", "verify"} => process[o].queue \in {1, 2}
          BY <3>1 DEF Off, UpProcess
      <3>3. QED
          BY <3>2, TheQueues
    <2>3. process[o].at \in {"update", "verify"} => queueRows[OrderedForCreation[process[o].queue]] # NoBuild
        BY DEF QueuesMade, At, QueueAt
    <2>4. QED
        BY <2>1, <2>2, <2>3, TheQueues DEF QueuesMade, At
  <1>2. QED
      BY <1>1 DEF QueuesMade, At, QueueAt

LEMMA QueuesStep ==
    ASSUME FleetTypes, QueuesMade, [FleetNext]_fleetVars
    PROVE  QueuesMade'
  <1>0. queueRows \in [Queues -> Builds \cup {NoBuild}] /\ process \in [Processes -> {Off} \cup UpProcess]
      BY DEF FleetTypes
  <1>a. ASSUME NEW p \in Processes, process[p].at \in {"create", "update", "verify"}
        PROVE  process[p] \in UpProcess /\ process[p] # Off /\ process[p].queue \in {1, 2}
               /\ QueueAt(p) = (IF process[p].queue = 1 THEN "deadletter" ELSE "deliver")
    <2>1. process[p] \in UpProcess /\ process[p] # Off
        BY <1>0, <1>a DEF Off
    <2>2. process[p].queue \in {1, 2}
        BY <2>1 DEF UpProcess
    <2>3. QED
        BY <2>1, <2>2 DEF QueueAt
  <1>1. ASSUME NEW p \in Processes, CreateQueue(p) \/ UpdateQueue(p) PROVE QueuesMade'
    <2>1. /\ process[p].at \in {"create", "update"} /\ (GoTo(p, "update") \/ GoTo(p, "verify"))
        BY <1>1 DEF CreateQueue, UpdateQueue, At
    <2>2. /\ process[p] \in UpProcess /\ process[p] # Off /\ process[p].queue \in {1, 2}
          /\ QueueAt(p) = (IF process[p].queue = 1 THEN "deadletter" ELSE "deliver")
        BY <1>a, <2>1
    <2>3. process[p].build \in Builds /\ process[p].build # NoBuild
        BY <2>2 DEF UpProcess
    <2>4. /\ queueRows'[QueueAt(p)] # NoBuild
          /\ \A q \in Queues : q # QueueAt(p) => queueRows'[q] = queueRows[q]
        BY <1>0, <1>1, <2>2, <2>3, TheQueues DEF CreateQueue, UpdateQueue
    <2>5. /\ \A o \in Processes : o # p => process'[o] = process[o]
          /\ process'[p].queue = process[p].queue /\ process'[p].at \in {"update", "verify"}
        BY <2>1, <2>2, Moves DEF Ats
    <2>6. process[p].queue = 2 => queueRows["deadletter"] # NoBuild
        BY <2>2 DEF QueuesMade
    <2>7. queueRows'["deliver"] # NoBuild => queueRows'["deadletter"] # NoBuild
        BY <2>2, <2>4, <2>6, TheQueues DEF QueuesMade
    <2>8. OrderedForCreation[process'[p].queue] = QueueAt(p)
        BY <2>5 DEF QueueAt
    <2>9. process'[p].queue = 2 => queueRows'["deadletter"] # NoBuild
        BY <2>2, <2>4, <2>5, <2>6, TheQueues
    <2>10. QED
        BY <2>4, <2>5, <2>7, <2>8, <2>9, QueuesKeep
  <1>2. ASSUME NEW p \in Processes, VerifyQueue(p) PROVE QueuesMade'
    <2>1. /\ process[p].at = "verify" /\ UNCHANGED queueRows
        BY <1>2 DEF VerifyQueue, At
    <2>2. /\ process[p] \in UpProcess /\ process[p] # Off /\ process[p].queue \in {1, 2}
          /\ QueueAt(p) = (IF process[p].queue = 1 THEN "deadletter" ELSE "deliver")
        BY <1>a, <2>1
    <2>3. queueRows[QueueAt(p)] # NoBuild
        BY <2>1 DEF QueuesMade, At
    <2>4. queueRows["deadletter"] # NoBuild
        BY <2>2, <2>3 DEF QueuesMade
    <2>5. process[p].queue = 2 => queueRows["deliver"] # NoBuild
        BY <2>2, <2>3
    <2>6. \A o \in Processes : o # p => process'[o] = process[o]
        BY <1>2, Verifies
    <2>7. /\ process'[p].at \notin {"update", "verify"}
          /\ process'[p].at \in {"lock", "granted", "refused", "serving", "working"} => process[p].queue = 2
        BY <1>2, Verifies DEF AfterQueues, Off
    <2>8. QED
        BY <2>1, <2>4, <2>5, <2>6, <2>7, QueuesKeep DEF QueuesMade
  <1>3. ASSUME NEW p \in Processes, process' = [process EXCEPT ![p] = Off], UNCHANGED queueRows
        PROVE  QueuesMade'
    <2>1. process'[p] = Off /\ \A o \in Processes : o # p => process'[o] = process[o]
        BY <1>3, Ends
    <2>2. QED
        BY <1>3, <2>1, QueuesKeep DEF QueuesMade, Off
  <1>4. ASSUME NEW b \in Builds, NEW p \in Processes, NEW a \in {"announce", "create"},
               Boot(p, b, a), UNCHANGED queueRows
        PROVE  QueuesMade'
    <2>1. /\ process'[p] = [at |-> a, build |-> b, schema |-> schemaNow, queue |-> 1]
          /\ \A o \in Processes : o # p => process'[o] = process[o]
      <3>1. a \in Ats
          BY DEF Ats
      <3>2. QED
          BY <1>4, <3>1, Boots
    <2>2. process'[p].at = a /\ process'[p].queue = 1
        BY <2>1
    <2>3. QED
        BY <1>4, <2>1, <2>2, QueuesKeep DEF QueuesMade
  <1>5. ASSUME NEW p \in Processes, NEW a \in {"create", "granted", "refused", "serving"},
               process[p] # Off, GoTo(p, a), UNCHANGED queueRows,
               a # "create" => process[p].at \in {"lock", "granted", "refused"}
        PROVE  QueuesMade'
    <2>1. /\ process'[p].at = a /\ process'[p].queue = process[p].queue
          /\ \A o \in Processes : o # p => process'[o] = process[o]
        BY <1>5, Moves DEF Ats
    <2>2. process[p].queue = 2 => queueRows["deadletter"] # NoBuild
        BY <1>5 DEF QueuesMade
    <2>3. a # "create" => queueRows["deadletter"] # NoBuild /\ queueRows["deliver"] # NoBuild
        BY <1>5 DEF QueuesMade, At
    <2>4. QED
        BY <1>5, <2>1, <2>2, <2>3, QueuesKeep DEF QueuesMade
  <1>6. ASSUME NEW p \in Processes, Dies(p) PROVE QueuesMade'
      BY <1>3, <1>6 DEF Dies
  <1>7. ASSUME NEW s \in Servers, TryLock(s) \/ LockAnswered(s) \/ LockLost(s) PROVE QueuesMade'
    <2>1. /\ process[s] # Off /\ s \in Processes /\ UNCHANGED queueRows
          /\ process[s].at \in {"lock", "granted", "refused", "serving"}
        BY <1>7 DEF TryLock, LockAnswered, LockLost, At, Off, Processes
    <2>2. \/ process' = [process EXCEPT ![s] = Off]
          \/ /\ \E a \in {"granted", "refused", "serving"} : GoTo(s, a)
             /\ process[s].at \in {"lock", "granted", "refused"}
        BY <1>7 DEF TryLock, LockAnswered, LockLost, GoTo, At
    <2>3. QED
        BY <1>3, <1>5, <2>1, <2>2
  <1>8. CASE Announce
    <2>1. process["worker"] # Off /\ GoTo("worker", "create") /\ UNCHANGED queueRows
        BY <1>8 DEF Announce, At, Off
    <2>2. QED
        BY <1>5, <2>1 DEF Processes
  <1>9. CASE /\ UNCHANGED <<process, queueRows>>
      BY <1>9 DEF QueuesMade, At, QueueAt
  <1>10. QED
    <2>1. ASSUME NEW b \in Builds, StartWorker(b) \/ \E s \in Servers : StartServer(s, b) PROVE QueuesMade'
        BY <1>4, <2>1 DEF StartWorker, StartServer, Processes
    <2>2. (SendHeartbeat \/ WriteHeartbeat \/ LoseHeartbeat \/ SessionReaped \/ Migrate \/ FleetTimePasses
           \/ UNCHANGED fleetVars \/ \E s \in Servers : SessionBreaks(s)) => UNCHANGED <<process, queueRows>>
        BY DEF SendHeartbeat, WriteHeartbeat, LoseHeartbeat, SessionReaped, Migrate, FleetTimePasses,
               fleetVars, SessionBreaks
    <2>3. QED
        BY <1>1, <1>2, <1>6, <1>7, <1>8, <1>9, <2>1, <2>2 DEF FleetNext

-----------------------------------------------------------------------------
LEMMA Later ==
    ASSUME NEW n \in Nat
    PROVE  n + 1 \in Nat /\ n <= n /\ \A k \in Int : k <= n => k <= n + 1
  OBVIOUS

LEMMA NoLater == \A k, m, n \in Int : k <= m /\ m <= n => k <= n
  OBVIOUS

\* A step that does not touch the worker, its row or its heartbeat.
LEMMA WorkerUntouched ==
    ASSUME WorkerSeen, process'["worker"] = process["worker"],
           UNCHANGED <<fleetNow, workerRow, beat, lastAlive>>
    PROVE  WorkerSeen'
  BY DEF WorkerSeen, WorkerUp, At, AliveAs

\* A step of the worker that leaves its build, its schema, its row and its heartbeat.
LEMMA WorkerMoves ==
    ASSUME WorkerSeen, process["worker"] # Off, process["worker"].at \notin {"off", "announce"},
           process'["worker"] = Off \/ (process'["worker"].build = process["worker"].build
                                        /\ process'["worker"].schema = process["worker"].schema),
           UNCHANGED <<fleetNow, workerRow, beat, lastAlive>>
    PROVE  WorkerSeen'
  BY DEF WorkerSeen, WorkerUp, At, AliveAs, Off

LEMMA SeenStep ==
    ASSUME FleetTypes, WorkerSeen, [FleetNext]_fleetVars
    PROVE  WorkerSeen'
  <1>0. /\ process \in [Processes -> {Off} \cup UpProcess] /\ "worker" \in Processes
        /\ lastAlive \in [Builds \X {1, 2} -> Int] /\ fleetNow \in Nat /\ schemaNow \in {1, 2}
        /\ beat \in Nat \cup {NoBeat} /\ workerRow \in {NoRow} \cup SeenRow
      BY DEF FleetTypes, Processes
  <1>1. \A w \in {process["worker"], workerRow} : w \notin {Off, NoRow} => <<w.build, w.schema>> \in Builds \X {1, 2}
      BY <1>0 DEF UpProcess, SeenRow
  <1>2. ASSUME NEW p \in Processes, CreateQueue(p) \/ UpdateQueue(p) \/ VerifyQueue(p) PROVE WorkerSeen'
    <2>1. /\ UNCHANGED <<fleetNow, workerRow, beat, lastAlive>>
          /\ process[p].at \in {"create", "update", "verify"}
        BY <1>2 DEF CreateQueue, UpdateQueue, VerifyQueue, At
    <2>2. process[p] # Off
        BY <2>1 DEF Off
    <2>3. \A o \in Processes : o # p => process'[o] = process[o]
        BY <1>2, <2>2, Moves, Verifies DEF CreateQueue, UpdateQueue, Ats
    <2>4. CASE p # "worker"
        BY <1>0, <2>1, <2>3, <2>4, WorkerUntouched
    <2>5. CASE p = "worker"
      <3>1. process'[p] = Off \/ (process'[p].build = process[p].build /\ process'[p].schema = process[p].schema)
          BY <1>2, <2>2, <2>5, Moves, Verifies DEF CreateQueue, UpdateQueue, Ats
      <3>2. QED
          BY <2>1, <2>2, <2>5, <3>1, WorkerMoves
    <2>6. QED
        BY <2>4, <2>5
  <1>3. ASSUME NEW p \in Processes, Dies(p) PROVE WorkerSeen'
    <2>1. /\ UNCHANGED <<fleetNow, workerRow, beat, lastAlive>> /\ process'[p] = Off
          /\ \A o \in Processes : o # p => process'[o] = process[o]
        BY <1>3, Ends DEF Dies
    <2>2. CASE p # "worker"
        BY <1>0, <2>1, <2>2, WorkerUntouched
    <2>3. CASE p = "worker"
        BY <2>1, <2>3 DEF WorkerSeen, WorkerUp, At, AliveAs, Off
    <2>4. QED
        BY <2>2, <2>3
  <1>4. ASSUME NEW b \in Builds, StartWorker(b) PROVE WorkerSeen'
    <2>1. /\ UNCHANGED <<fleetNow, workerRow, beat>>
          /\ lastAlive' = [lastAlive EXCEPT ![<<b, schemaNow>>] = fleetNow]
          /\ Boot("worker", b, "announce")
        BY <1>4 DEF StartWorker
    <2>2. process'["worker"] = [at |-> "announce", build |-> b, schema |-> schemaNow, queue |-> 1]
        BY <1>0, <2>1, Boots DEF Ats
    <2>3. /\ process'["worker"].at = "announce" /\ process'["worker"].build = b
          /\ process'["worker"].schema = schemaNow
        BY <2>2
    <2>4. <<b, schemaNow>> \in Builds \X {1, 2} /\ lastAlive'[<<b, schemaNow>>] = fleetNow
        BY <1>0, <2>1
    <2>5. \A w \in Builds \X {1, 2} : lastAlive'[w] = lastAlive[w] \/ lastAlive'[w] = fleetNow
        BY <1>0, <2>1
    <2>6. \A w \in Builds \X {1, 2} : lastAlive'[w] <= fleetNow
        BY <1>0, <2>5, Later DEF WorkerSeen
    <2>7. \A w \in Builds \X {1, 2} : \A k \in Int : k <= lastAlive[w] => k <= lastAlive'[w]
      <3>1. SUFFICES ASSUME NEW w \in Builds \X {1, 2}, NEW k \in Int, k <= lastAlive[w]
                     PROVE  k <= lastAlive'[w]
          OBVIOUS
      <3>2. lastAlive[w] \in Int /\ lastAlive[w] <= fleetNow /\ fleetNow \in Int
          BY <1>0 DEF WorkerSeen
      <3>3. QED
          BY <2>5, <3>1, <3>2, NoLater
    <2>8. workerRow # NoRow => workerRow.seenAt <= AliveAs(workerRow)' /\ (beat # NoBeat => beat <= AliveAs(workerRow)')
      <3>1. SUFFICES ASSUME workerRow # NoRow
                     PROVE  workerRow.seenAt <= AliveAs(workerRow)' /\ (beat # NoBeat => beat <= AliveAs(workerRow)')
          OBVIOUS
      <3>2. PICK w \in Builds \X {1, 2} : w = <<workerRow.build, workerRow.schema>>
          BY <1>0, <3>1 DEF SeenRow
      <3>3. workerRow.seenAt \in Int /\ (beat # NoBeat => beat \in Int)
          BY <1>0, <3>1 DEF SeenRow
      <3>4. workerRow.seenAt <= lastAlive[w] /\ (beat # NoBeat => beat <= lastAlive[w])
          BY <3>1, <3>2 DEF WorkerSeen, AliveAs
      <3>5. AliveAs(workerRow)' = lastAlive'[w]
          BY <2>1, <3>2 DEF AliveAs
      <3>6. QED
          BY <2>7, <3>3, <3>4, <3>5
    <2>9. QED
        BY <2>1, <2>3, <2>4, <2>6, <2>8 DEF WorkerSeen, WorkerUp, At, AliveAs
  <1>5. ASSUME NEW b \in Builds, NEW s \in Servers, StartServer(s, b) PROVE WorkerSeen'
    <2>1. UNCHANGED <<fleetNow, workerRow, beat, lastAlive>> /\ s \in Processes /\ s # "worker"
        BY <1>5 DEF StartServer, Processes
    <2>2. process'["worker"] = process["worker"]
        BY <1>0, <1>5, <2>1, Boots DEF StartServer, Ats
    <2>3. QED
        BY <2>1, <2>2, WorkerUntouched
  <1>6. CASE Announce
    <2>1. /\ process["worker"].at = "announce" /\ GoTo("worker", "create")
          /\ UNCHANGED <<fleetNow, beat, lastAlive>>
        BY <1>6 DEF Announce, At
    <2>2. process["worker"] \in UpProcess /\ process["worker"] # Off
        BY <1>0, <2>1 DEF Off
    <2>3. /\ process'["worker"].build = process["worker"].build
          /\ process'["worker"].schema = process["worker"].schema
        BY <1>0, <2>1, <2>2, Moves DEF Ats
    <2>4. workerRow' = [build |-> process["worker"].build, schema |-> process["worker"].schema, seenAt |-> fleetNow]
        BY <1>6 DEF Announce, AnnouncedRow
    <2>5. /\ workerRow'.build = process["worker"].build /\ workerRow'.schema = process["worker"].schema
          /\ workerRow'.seenAt = fleetNow /\ workerRow' # NoRow
      <3>1. workerRow' \in SeenRow
          BY <1>0, <2>2, <2>4 DEF SeenRow, UpProcess
      <3>2. QED
          BY <2>4, <3>1 DEF SeenRow, NoRow
    <2>6. PICK w \in Builds \X {1, 2} : w = <<process["worker"].build, process["worker"].schema>>
        BY <2>2 DEF UpProcess
    <2>7. lastAlive[w] = fleetNow
        BY <2>2, <2>6 DEF WorkerSeen, WorkerUp, AliveAs
    <2>8. AliveAs(process["worker"])' = fleetNow /\ AliveAs(workerRow)' = fleetNow
        BY <2>1, <2>3, <2>5, <2>6, <2>7 DEF AliveAs
    <2>9. beat # NoBeat => beat <= fleetNow
      <3>1. SUFFICES ASSUME beat # NoBeat PROVE beat <= fleetNow
          OBVIOUS
      <3>2. workerRow # NoRow /\ beat <= AliveAs(workerRow)
          BY <3>1 DEF WorkerSeen
      <3>3. PICK o \in Builds \X {1, 2} : o = <<workerRow.build, workerRow.schema>>
          BY <1>0, <3>2 DEF SeenRow
      <3>4. lastAlive[o] <= fleetNow /\ lastAlive[o] \in Int /\ beat <= lastAlive[o]
          BY <1>0, <3>2, <3>3 DEF WorkerSeen, AliveAs
      <3>5. beat \in Int /\ fleetNow \in Int
          BY <1>0, <3>1
      <3>6. QED
          BY <3>4, <3>5, NoLater
    <2>10. fleetNow <= fleetNow
        BY <1>0, Later
    <2>11. QED
        BY <2>1, <2>3, <2>5, <2>8, <2>9, <2>10 DEF WorkerSeen
  <1>7. CASE SendHeartbeat
    <2>1. /\ UNCHANGED <<fleetNow, process, workerRow, lastAlive>> /\ beat' = fleetNow
          /\ At("worker") \notin {"off", "announce"}
        BY <1>7 DEF SendHeartbeat
    <2>2. WorkerUp
        BY <2>1 DEF WorkerUp, At, Off
    <2>3. workerRow # NoRow /\ AliveAs(workerRow) = fleetNow
        BY <2>1, <2>2 DEF WorkerSeen, AliveAs
    <2>4. fleetNow <= fleetNow
        BY <1>0, Later
    <2>5. QED
        BY <2>1, <2>3, <2>4 DEF WorkerSeen, WorkerUp, At, AliveAs
  <1>8. CASE WriteHeartbeat
    <2>1. /\ UNCHANGED <<fleetNow, process, lastAlive>> /\ beat # NoBeat /\ beat' = NoBeat
          /\ workerRow' = [workerRow EXCEPT !.seenAt = beat]
        BY <1>8 DEF WriteHeartbeat
    <2>2. workerRow \in SeenRow /\ beat \in Nat /\ beat <= AliveAs(workerRow)
        BY <1>0, <2>1 DEF WorkerSeen
    <2>3. /\ workerRow' \in SeenRow /\ workerRow'.seenAt = beat
          /\ workerRow'.build = workerRow.build /\ workerRow'.schema = workerRow.schema
        BY <2>1, <2>2 DEF SeenRow
    <2>4. workerRow' # NoRow
        BY <2>3 DEF SeenRow, NoRow
    <2>5. QED
        BY <2>1, <2>2, <2>3, <2>4 DEF WorkerSeen, WorkerUp, At, AliveAs
  <1>9. CASE LoseHeartbeat
      BY <1>9 DEF LoseHeartbeat, WorkerSeen, WorkerUp, At, AliveAs
  <1>10. ASSUME NEW s \in Servers, TryLock(s) \/ LockAnswered(s) \/ LockLost(s) PROVE WorkerSeen'
    <2>1. UNCHANGED <<fleetNow, workerRow, beat, lastAlive>> /\ s # "worker"
        BY <1>10 DEF TryLock, LockAnswered, LockLost
    <2>2. process'["worker"] = process["worker"]
        BY <1>0, <1>10, <2>1 DEF TryLock, LockAnswered, LockLost, GoTo
    <2>3. QED
        BY <2>1, <2>2, WorkerUntouched
  <1>11. CASE (\E s \in Servers : SessionBreaks(s)) \/ SessionReaped \/ Migrate \/ UNCHANGED fleetVars
      BY <1>11, WorkerUntouched DEF SessionBreaks, SessionReaped, Migrate, fleetVars
  <1>12. CASE FleetTimePasses
    <2>1. UNCHANGED <<process, workerRow, beat>> /\ fleetNow' = fleetNow + 1
        BY <1>12 DEF FleetTimePasses
    <2>2. PICK n \in Nat : n = fleetNow + 1 /\ n <= n /\ \A k \in Int : k <= fleetNow => k <= n
        BY <1>0, Later
    <2>3. fleetNow' = n
        BY <2>1, <2>2
    <2>4. \A w \in Builds \X {1, 2} : lastAlive'[w] = lastAlive[w] \/ lastAlive'[w] = n
        BY <1>0, <1>12, <2>3 DEF FleetTimePasses
    <2>5. WorkerUp => lastAlive'[<<process["worker"].build, process["worker"].schema>>] = n
        BY <1>0, <1>1, <1>12, <2>3 DEF FleetTimePasses, WorkerUp, NoRow, UpProcess
    <2>6. \A w \in Builds \X {1, 2} : lastAlive'[w] <= n
        BY <1>0, <2>2, <2>4 DEF WorkerSeen
    <2>7. \A w \in Builds \X {1, 2} : \A k \in Int : k <= lastAlive[w] => k <= lastAlive'[w]
      <3>1. SUFFICES ASSUME NEW w \in Builds \X {1, 2}, NEW k \in Int, k <= lastAlive[w]
                     PROVE  k <= lastAlive'[w]
          OBVIOUS
      <3>2. lastAlive[w] \in Int /\ lastAlive[w] <= n /\ n \in Int
          BY <1>0, <2>2 DEF WorkerSeen
      <3>3. QED
          BY <2>4, <3>1, <3>2, NoLater
    <2>8. workerRow # NoRow => workerRow.seenAt <= AliveAs(workerRow)' /\ (beat # NoBeat => beat <= AliveAs(workerRow)')
      <3>1. SUFFICES ASSUME workerRow # NoRow
                     PROVE  workerRow.seenAt <= AliveAs(workerRow)' /\ (beat # NoBeat => beat <= AliveAs(workerRow)')
          OBVIOUS
      <3>2. PICK w \in Builds \X {1, 2} : w = <<workerRow.build, workerRow.schema>>
          BY <1>0, <3>1 DEF SeenRow
      <3>3. workerRow.seenAt \in Int /\ (beat # NoBeat => beat \in Int)
          BY <1>0, <3>1 DEF SeenRow
      <3>4. workerRow.seenAt <= lastAlive[w] /\ (beat # NoBeat => beat <= lastAlive[w])
          BY <3>1, <3>2 DEF WorkerSeen, AliveAs
      <3>5. AliveAs(workerRow)' = lastAlive'[w]
          BY <2>1, <3>2 DEF AliveAs
      <3>6. QED
          BY <2>7, <3>3, <3>4, <3>5
    <2>9. QED
        BY <2>1, <2>3, <2>5, <2>6, <2>8 DEF WorkerSeen, WorkerUp, At, AliveAs
  <1>13. QED
      BY <1>2, <1>3, <1>4, <1>5, <1>6, <1>7, <1>8, <1>9, <1>10, <1>11, <1>12 DEF FleetNext

-----------------------------------------------------------------------------
LEMMA FleetHolds == FleetSpec => []FleetInv
  <1>1. FleetInv /\ [FleetNext]_fleetVars => FleetInv'
      BY TypesStep, LocksStep, QueuesStep, SeenStep DEF FleetInv
  <1>2. QED
      BY <1>1, FleetBegins, PTL DEF FleetSpec

\* Of all servers that serve, only one has a session the database still knows, and it holds the lock: the
\* others lost theirs and have not heard (acquireSingletonLock, startServer).
THEOREM OneServerActs == FleetSpec => []ServersActAlone
  <1>1. FleetInv => ServersActAlone
      BY DEF FleetInv, LockKept, ServersActAlone
  <1>2. QED
      BY <1>1, FleetHolds, PTL

LEMMA Age ==
    ASSUME NEW now \in Nat, NEW seen \in Nat, NEW alive \in Int, seen <= alive,
           ~(now - seen > StaleAfter)
    PROVE  now - alive <= StaleAfter
  OBVIOUS

\* A banner that shows nothing wrong says the truth: a worker of the server's build, which found its schema,
\* was up no longer ago than StaleAfter, whatever heartbeats were delayed or lost and whichever workers
\* came and went (conditionFor, announce, heartbeat).
THEOREM BannerIsTrue == FleetSpec => []QuietMeansAWorker
  <1>1. ASSUME FleetInv PROVE QuietMeansAWorker
    <2>1. SUFFICES ASSUME NEW s \in Servers, At(s) = "serving", ConditionFor(s) = "healthy"
                   PROVE  fleetNow - lastAlive[<<process[s].build, process[s].schema>>] <= StaleAfter
        BY DEF QuietMeansAWorker
    <2>2. /\ workerRow # NoRow /\ ~IsStale
          /\ workerRow.build = process[s].build /\ workerRow.schema = process[s].schema
      <3>1. CASE workerRow = NoRow
          BY <2>1, <3>1 DEF ConditionFor
      <3>2. CASE workerRow # NoRow /\ IsStale
          BY <2>1, <3>2 DEF ConditionFor
      <3>3. CASE workerRow # NoRow /\ ~IsStale /\ workerRow.build # process[s].build
          BY <2>1, <3>3 DEF ConditionFor
      <3>4. CASE /\ workerRow # NoRow /\ ~IsStale /\ workerRow.build = process[s].build
                 /\ workerRow.schema # process[s].schema
          BY <2>1, <3>4 DEF ConditionFor
      <3>5. QED
          BY <3>1, <3>2, <3>3, <3>4
    <2>3. /\ workerRow \in SeenRow /\ workerRow.seenAt <= AliveAs(workerRow)
          /\ fleetNow \in Nat /\ lastAlive \in [Builds \X {1, 2} -> Int]
        BY <1>1, <2>2 DEF FleetInv, FleetTypes, WorkerSeen
    <2>4. PICK w \in Builds \X {1, 2} : w = <<workerRow.build, workerRow.schema>>
        BY <2>3 DEF SeenRow
    <2>5. PICK seen \in Nat : seen = workerRow.seenAt
        BY <2>3 DEF SeenRow
    <2>6. lastAlive[w] \in Int /\ seen <= lastAlive[w] /\ ~(fleetNow - seen > StaleAfter)
        BY <2>2, <2>3, <2>4, <2>5 DEF AliveAs, IsStale
    <2>7. fleetNow - lastAlive[w] <= StaleAfter
        BY <2>3, <2>6, Age
    <2>8. QED
        BY <2>2, <2>4, <2>7
  <1>2. QED
      BY <1>1, FleetHolds, PTL

\* Everything a deployment relies on of its processes, the queues they make included (orderedForCreation,
\* reconcileQueues).
THEOREM FleetIsSound == FleetSpec => []ControlPlaneIsSound
  <1>1. FleetInv => QueuesAreThere
    <2>1. SUFFICES ASSUME FleetInv PROVE QueuesAreThere
        OBVIOUS
    <2>2. QED
        BY <2>1, TheQueues DEF FleetInv, QueuesMade, QueuesAreThere
  <1>2. FleetSpec => []QueuesAreThere
      BY <1>1, FleetHolds, PTL
  <1>3. ServersActAlone /\ QuietMeansAWorker /\ QueuesAreThere => ControlPlaneIsSound
      BY DEF ControlPlaneIsSound
  <1>4. QED
      BY <1>2, <1>3, OneServerActs, BannerIsTrue, PTL
=============================================================================
