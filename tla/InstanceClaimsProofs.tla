------------------------ MODULE InstanceClaimsProofs ------------------------
(***************************************************************************)
(* Proofs about InstanceClaims, for any number of calls and claims, any    *)
(* set of requests, with and without server restarts.  ShapeInv holds      *)
(* whether or not calls may outlast their lease; HoldInv, and what rests   *)
(* on it, as long as none does (~Stalls), which is what the waits of the   *)
(* controller are set up for.                                              *)
(***************************************************************************)
EXTENDS InstanceClaims, TLAPS

\* What a call in progress looks like: it has a claim when it works under one,
\* and a position in the program of its change.
WellFormed(r) ==
    /\ r \in Call
    /\ r.pc = "idle" => r = Idle
    /\ r.pc = "found" => r.op \in Lifecycle \cup {"save"} /\ r.claim = None /\ ~r.wrote
    /\ r.pc \in {"probe", "record", "letgo"} => r.claim = None
    /\ r.pc \in {"work", "cleanup", "release"} => r.claim # None /\ r.op \in DOMAIN Program
    /\ r.pc = "work" => r.at \in 1..(Len(Program[r.op]) + 1)
    /\ r.pc = "cleanup" => r.op = "signin"

\* No two calls were given the same claim, and each was given out.
CallsInv ==
    /\ calls \in [Calls -> Call]
    /\ \A c \in Calls : WellFormed(calls[c]) /\ calls[c].claim <= lastId
    /\ \A c, d \in Calls : c # d /\ calls[c].claim # None => calls[c].claim # calls[d].claim

\* Every id on record was handed out by randomUUID.
IdsHandedOut == host.by <= lastId /\ \A l \in late : l.claim <= lastId

ShapeInv == TypeOK /\ CallsInv /\ IdsHandedOut

USE BoundAssumption, WantedAssumption, FlagsAssumption DEF None

-----------------------------------------------------------------------------
\* The programs of the changes, spelled out.
LEMMA Programs ==
    /\ DOMAIN Program = Change \cup {"signin"}
    /\ Program["create"] = <<"lay", "newEnv", "doc">>
    /\ Program["start"] = <<"env", "token", "doc", "up">>
    /\ Program["restart"] = <<"down", "env", "token", "doc", "up">>
    /\ Program["stop"] = <<"down">>
    /\ Program["save"] = <<"doc">>
    /\ Program["remove"] = <<"downAll", "wipe">>
    /\ Program["signin"] = <<"down", "authDown", "authUp", "poll">>
  <1>1. DOMAIN Program = Change \cup {"signin"}
      BY DEF Program, Change, Lifecycle
  <1>2. RestartProgram = <<"down", "env", "token", "doc", "up">>
    <2> DEFINE S == {"down", "env", "token", "doc", "up"}
               longer == <<"down", "env", "token", "doc", "up">>
    <2>1. RestartProgram \in Seq(S) /\ longer \in Seq(S)
      <3>1. <<"down">> \in Seq(S) /\ StartProgram \in Seq(S) /\ longer \in Seq(S)
          BY DEF StartProgram
      <3>2. QED
          BY <3>1 DEF RestartProgram
    <2>2. Len(RestartProgram) = 5 /\ Len(longer) = 5
        BY DEF RestartProgram, StartProgram
    <2>3. \A i \in 1..5 : RestartProgram[i] = longer[i]
        BY DEF RestartProgram, StartProgram
    <2>4. QED
        BY <2>1, <2>2, <2>3
  <1>3. QED
      BY <1>1, <1>2 DEF Program, CreateProgram, StartProgram, StopProgram, SaveProgram,
                        RemoveProgram, SignInProgram

\* Every position of a program is a command or the write of the token.
LEMMA StepsOfPrograms ==
    ASSUME NEW op \in DOMAIN Program
    PROVE  /\ Len(Program[op]) \in 1..5
           /\ \A i \in 1..Len(Program[op]) : Program[op][i] \in Command \cup {"token"}
  <1>1. op \in {"create", "start", "restart", "stop", "save", "remove", "signin"}
      BY Programs DEF Change, Lifecycle
  <1>2. CASE op = "create"
      BY <1>2, Programs DEF Command
  <1>3. CASE op = "start"
      BY <1>3, Programs DEF Command
  <1>4. CASE op = "restart"
      BY <1>4, Programs DEF Command
  <1>5. CASE op = "stop"
      BY <1>5, Programs DEF Command
  <1>6. CASE op = "save"
      BY <1>6, Programs DEF Command
  <1>7. CASE op = "remove"
      BY <1>7, Programs DEF Command
  <1>8. CASE op = "signin"
      BY <1>8, Programs DEF Command
  <1>9. QED
      BY <1>1, <1>2, <1>3, <1>4, <1>5, <1>6, <1>7, <1>8

\* A command leaves a well formed host.
LEMMA EffectType ==
    ASSUME host \in Host, NEW cmd \in Command, NEW claim \in Ids, NEW doc \in Ids \cup {None}
    PROVE  /\ Effect(cmd, claim, doc) \in Host
           /\ Effect(cmd, claim, doc).by \in {host.by, claim}
  <1>1. CASE cmd \in {"lay", "newEnv", "env", "doc", "up"}
      BY <1>1 DEF Effect, Host
  <1>2. CASE cmd \in {"down", "downAll", "wipe"}
      BY <1>2 DEF Effect, Host
  <1>3. CASE cmd \in {"authDown", "authUp", "poll"}
      BY <1>3 DEF Effect, Host
  <1>4. QED
      BY <1>1, <1>2, <1>3 DEF Command

\* A call stays well formed as it goes on, fails, or begins.
LEMMA CallAdvances ==
    ASSUME NEW r, WellFormed(r), r.pc = "work", r.at <= Len(Program[r.op]), NEW w \in BOOLEAN
    PROVE  /\ WellFormed([r EXCEPT !.at = r.at + 1])
           /\ WellFormed([r EXCEPT !.at = r.at + 1, !.wrote = w])
  <1>1. Len(Program[r.op]) \in 1..5
      BY StepsOfPrograms DEF WellFormed
  <1>2. r.at + 1 \in 1..(Len(Program[r.op]) + 1) /\ r.at + 1 \in 0..6
    <2>1. r.at \in 1..(Len(Program[r.op]) + 1)
        BY DEF WellFormed
    <2>2. ASSUME NEW n \in 1..5, NEW a \in 1..(n + 1), a <= n
          PROVE  a + 1 \in 1..(n + 1) /\ a + 1 \in 0..6
        BY <2>2
    <2>3. QED
        BY <1>1, <2>1, <2>2
  <1>3. [r EXCEPT !.at = r.at + 1] \in Call /\ [r EXCEPT !.at = r.at + 1, !.wrote = w] \in Call
      BY <1>2 DEF WellFormed, Call
  <1>4. QED
      BY <1>2, <1>3 DEF WellFormed, Call

LEMMA CallFails ==
    ASSUME NEW r, WellFormed(r), r.pc \in {"work", "cleanup"}
    PROVE  /\ WellFormed([r EXCEPT !.pc = "release"])
           /\ WellFormed([r EXCEPT !.pc = "release", !.keep = TRUE])
           /\ r.op = "signin" => /\ WellFormed([r EXCEPT !.pc = "cleanup"])
                                 /\ WellFormed([r EXCEPT !.pc = "cleanup", !.keep = TRUE])
  BY DEF WellFormed, Call

LEMMA CallEnds == WellFormed(Idle)
  BY DEF WellFormed, Call, Idle, Absent

LEMMA CallEndsSignIn ==
    ASSUME NEW r, WellFormed(r), r.pc \in {"probe", "record"}, NEW pc \in {"record", "letgo"}
    PROVE  WellFormed([r EXCEPT !.pc = pc])
  BY DEF WellFormed, Call

\* A call that begins has a record of its own.
LEMMA CallClaims ==
    ASSUME NEW op \in {"create", "signin"}, NEW id \in Ids, NEW doc \in Ids \cup {None}
    PROVE  WellFormed([Idle EXCEPT !.op = op, !.pc = "work", !.at = 1, !.claim = id, !.doc = doc])
  <1> DEFINE r == [Idle EXCEPT !.op = op, !.pc = "work", !.at = 1, !.claim = id, !.doc = doc]
  <1>1. r \in Call
    <2>1. op \in Op /\ 1 \in 0..6 /\ Idle \in Call
        BY CallEnds DEF Op, Change, WellFormed
    <2>2. QED
        BY <2>1 DEF Call
  <1>2. r.op = op /\ r.pc = "work" /\ r.at = 1 /\ r.claim = id
      BY DEF Idle
  <1>3. op \in DOMAIN Program /\ Len(Program[op]) \in 1..5
      BY Programs, StepsOfPrograms DEF Change
  <1>4. QED
      BY <1>1, <1>2, <1>3 DEF WellFormed, Ids

\* A call that has taken its claim is at the first command of its program.
LEMMA ClaimedCallType ==
    ASSUME NEW q \in Call, NEW id \in Ids, NEW doc \in Ids \cup {None}
    PROVE  [q EXCEPT !.pc = "work", !.at = 1, !.claim = id, !.doc = doc] \in Call
  <1>1. 1 \in 0..6
      OBVIOUS
  <1>2. QED
      BY <1>1 DEF Call

LEMMA CallBegins ==
    ASSUME NEW op, NEW doc \in Ids \cup {None}
    PROVE  /\ op \in Lifecycle \cup {"save"} =>
                WellFormed([Idle EXCEPT !.op = op, !.pc = "found", !.read = doc])
           /\ op \in {"complete", "cancel"} =>
                \A st \in Present \cup Absent :
                   WellFormed([Idle EXCEPT !.op = op, !.pc = "probe", !.read = doc, !.saw = st])
  <1>1. Idle \in Call
      BY CallEnds DEF WellFormed
  <1>3. ASSUME op \in Lifecycle \cup {"save"}
        PROVE  WellFormed([Idle EXCEPT !.op = op, !.pc = "found", !.read = doc])
    <2> DEFINE r == [Idle EXCEPT !.op = op, !.pc = "found", !.read = doc]
    <2>1. r \in Call
        BY <1>1, <1>3 DEF Call, Op, Change
    <2>2. r.op = op /\ r.pc = "found" /\ r.claim = None /\ ~r.wrote
        BY DEF Idle
    <2>3. QED
        BY <1>3, <2>1, <2>2 DEF WellFormed
  <1>4. ASSUME op \in {"complete", "cancel"}, NEW st \in Present \cup Absent
        PROVE  WellFormed([Idle EXCEPT !.op = op, !.pc = "probe", !.read = doc, !.saw = st])
    <2> DEFINE r == [Idle EXCEPT !.op = op, !.pc = "probe", !.read = doc, !.saw = st]
    <2>1. r \in Call
        BY <1>1, <1>4 DEF Call, Op
    <2>2. r.op = op /\ r.pc = "probe" /\ r.claim = None
        BY DEF Idle
    <2>3. QED
        BY <2>1, <2>2 DEF WellFormed
  <1>5. QED
      BY <1>3, <1>4

\* One call moves, and keeps its claim, gives it up or is given a new one.
LEMMA CallsMove ==
    ASSUME CallsInv, NEW c \in Calls, NEW r, WellFormed(r),
           calls' = [calls EXCEPT ![c] = r], lastId \in Nat,
           \/ lastId' = lastId /\ r.claim \in {None, calls[c].claim}
           \/ lastId' = lastId + 1 /\ r.claim = lastId + 1
    PROVE  CallsInv'
  <1>0. /\ calls \in [Calls -> Call] /\ r \in Call /\ lastId' >= lastId /\ lastId' \in Nat
        /\ \A d \in Calls : calls[d] \in Call /\ calls[d].claim \in Nat /\ calls[d].claim <= lastId
      BY DEF CallsInv, WellFormed, Call, Ids
  <1>1. calls' \in [Calls -> Call]
      BY <1>0
  <1>2. \A d \in Calls : calls'[d] = IF d = c THEN r ELSE calls[d]
      BY <1>0
  <1>3. \A d \in Calls : WellFormed(calls'[d])
      BY <1>2 DEF CallsInv
  <1>4. \A d \in Calls : calls'[d].claim <= lastId'
      BY <1>0, <1>2
  <1>5. \A d, e \in Calls : d # e /\ calls'[d].claim # None => calls'[d].claim # calls'[e].claim
      BY <1>0, <1>2 DEF CallsInv
  <1>6. QED
      BY <1>1, <1>3, <1>4, <1>5 DEF CallsInv, WellFormed

\* The step a call is at is a command of its program, or the write of the token.
LEMMA StepIsCommand ==
    ASSUME CallsInv, NEW c \in Calls, calls[c].pc = "work", ~AtEnd(c)
    PROVE  /\ Step(c) \in Command \cup {"token"}
           /\ calls[c].at <= Len(Program[calls[c].op])
           /\ calls[c].claim \in Ids
           /\ calls[c].doc \in Ids \cup {None}
           /\ Step(c) # "token" => LeftBehind(c, Step(c)) \in LateCommand
  <1>1. /\ calls[c] \in Call /\ calls[c].op \in DOMAIN Program /\ calls[c].claim # None
        /\ calls[c].at \in 1..(Len(Program[calls[c].op]) + 1)
      BY DEF CallsInv, WellFormed
  <1>2. Len(Program[calls[c].op]) \in 1..5
      BY <1>1, StepsOfPrograms
  <1>3. calls[c].at \in 1..Len(Program[calls[c].op])
      BY <1>1, <1>2 DEF AtEnd
  <1>4. Step(c) \in Command \cup {"token"}
      BY <1>1, <1>3, StepsOfPrograms DEF Step
  <1>5. calls[c].op \in Op /\ calls[c].claim \in Ids /\ calls[c].doc \in Ids \cup {None}
      BY <1>1, Programs DEF Op, Call
  <1>6. QED
      BY <1>2, <1>3, <1>4, <1>5 DEF LeftBehind, LateCommand

-----------------------------------------------------------------------------
LEMMA ShapeInit == Init => ShapeInv
  <1> SUFFICES ASSUME Init PROVE ShapeInv
      OBVIOUS
  <1>1. row \in Row /\ host \in Host
      BY DEF Init, Row, Host, Absent
  <1>2. Idle \in Call /\ WellFormed(Idle) /\ Idle.claim = None
      BY CallEnds DEF WellFormed, Idle
  <1>3. CallsInv
      BY <1>2 DEF Init, CallsInv
  <1>4. QED
    <2>1. /\ calls \in [Calls -> Call] /\ late = {} /\ failure \in BOOLEAN /\ lastId = 0
          /\ host.by = 0
        BY <1>3 DEF Init, CallsInv
    <2>2. QED
        BY <1>1, <1>3, <2>1 DEF ShapeInv, TypeOK, IdsHandedOut

\* A step keeps the shape if what it writes has it and one call moves, or none.
LEMMA ShapeFrame ==
    ASSUME ShapeInv, CallsInv', row' \in Row, host' \in Host, late' \subseteq LateCommand,
           failure' \in BOOLEAN, lastId' \in lastId..MaxIds, host'.by <= lastId',
           \A l \in late' : l \in late \/ l.claim <= lastId
    PROVE  ShapeInv'
  BY DEF ShapeInv, CallsInv, TypeOK, IdsHandedOut, LateCommand, Ids

LEMMA ShapeStep == ShapeInv /\ [Next]_vars => ShapeInv'
  <1> SUFFICES ASSUME ShapeInv, [Next]_vars PROVE ShapeInv'
      OBVIOUS
  <1>0. /\ CallsInv /\ row \in Row /\ host \in Host /\ late \subseteq LateCommand
        /\ failure \in BOOLEAN /\ lastId \in 0..MaxIds /\ calls \in [Calls -> Call]
        /\ host.by <= lastId /\ host.by \in Nat /\ lastId \in Nat
      BY DEF ShapeInv, TypeOK, IdsHandedOut, Host, Ids
  <1>a. ASSUME NEW c \in Calls
        PROVE  WellFormed(calls[c]) /\ calls[c] \in Call /\ calls[c].claim <= lastId
      BY <1>0 DEF CallsInv, WellFormed
  <1>b. \A c \in Calls : calls[c] = Idle => calls[c].claim = None
      BY DEF Idle
  \* The steps that move one call, and the row or the host with it.
  <1>c. ASSUME NEW c \in Calls, NEW r, WellFormed(r), calls' = [calls EXCEPT ![c] = r],
               r.claim \in {None, calls[c].claim}, row' \in Row, host' \in Host,
               UNCHANGED <<late, failure, lastId>>, host'.by <= lastId
        PROVE  ShapeInv'
    <2>1. CallsInv'
        BY <1>0, <1>c, CallsMove
    <2>2. QED
        BY <1>0, <1>c, <2>1, ShapeFrame
  <1>d. ASSUME NEW c \in Calls, calls' = [calls EXCEPT ![c] = Idle], row' \in Row,
               UNCHANGED <<host, late, failure, lastId>>
        PROVE  ShapeInv'
    <2>1. Idle.claim = None
        BY DEF Idle
    <2>2. QED
        BY <1>0, <1>c, <1>d, <2>1, CallEnds
  \* The steps that give a call a new claim.
  <1>e. ASSUME NEW c \in Calls, NEW r, WellFormed(r), calls' = [calls EXCEPT ![c] = r],
               r.claim = lastId + 1, lastId' = lastId + 1, lastId < MaxIds, row' \in Row,
               UNCHANGED <<host, late, failure>>
        PROVE  ShapeInv'
    <2>1. CallsInv'
        BY <1>0, <1>e, CallsMove
    <2>2. QED
        BY <1>0, <1>e, <2>1, ShapeFrame
  <1>1. ASSUME NEW c \in Calls, Create(c) PROVE ShapeInv'
    <2> DEFINE r == [Idle EXCEPT !.op = "create", !.pc = "work", !.at = 1,
                                 !.claim = lastId + 1, !.doc = lastId + 1]
    <2>1. lastId + 1 \in Ids /\ lastId < MaxIds /\ lastId' = lastId + 1
        BY <1>0, <1>1 DEF Create, Ids
    <2>2. WellFormed(r) /\ r.claim = lastId + 1
        BY <2>1, CallClaims DEF Idle
    <2>3. row' \in Row
      <3>1. PICK ms \in BOOLEAN :
              row' = [row EXCEPT !.status = IF ms THEN "needs_auth" ELSE "stopped",
                                 !.microsoft = ms, !.cfg = lastId', !.doc = lastId',
                                 !.token = lastId']
          BY <1>1 DEF Create
      <3>2. (IF ms THEN "needs_auth" ELSE "stopped") \in Present
          BY DEF Present
      <3>3. QED
          BY <1>0, <2>1, <3>1, <3>2 DEF Row
    <2>4. QED
        BY <1>1, <1>e, <2>1, <2>2, <2>3 DEF Create
  <1>2. ASSUME NEW c \in Calls, SignIn(c) PROVE ShapeInv'
    <2> DEFINE r == [Idle EXCEPT !.op = "signin", !.pc = "work", !.at = 1,
                                 !.claim = lastId + 1, !.doc = None]
    <2>1. lastId + 1 \in Ids /\ lastId < MaxIds /\ lastId' = lastId + 1
        BY <1>0, <1>2 DEF SignIn, Ids
    <2>2. WellFormed(r) /\ r.claim = lastId + 1
        BY <2>1, CallClaims DEF Idle
    <2>3. row' \in Row
        BY <1>0, <1>2, <2>1 DEF SignIn, Row
    <2>4. r = [Idle EXCEPT !.op = "signin", !.pc = "work", !.at = 1, !.claim = lastId + 1]
      <3>1. Idle = [Idle EXCEPT !.doc = None]
          BY DEF Idle
      <3>2. QED
          BY <3>1 DEF Idle
    <2>5. QED
        BY <1>2, <1>e, <2>1, <2>2, <2>3, <2>4 DEF SignIn
  <1>3. ASSUME NEW c \in Calls, NEW op \in Wanted, Begin(c, op) PROVE ShapeInv'
    <2> DEFINE r == [Idle EXCEPT !.op = op, !.pc = "found",
                                 !.read = IF op = "save" THEN row.doc ELSE None]
    <2>1. row.doc \in Ids \cup {None} /\ op \in Lifecycle \cup {"save"}
        BY <1>0, <1>3 DEF Row, Begin
    <2>2. WellFormed(r)
      <3>1. (IF op = "save" THEN row.doc ELSE None) \in Ids \cup {None}
          BY <2>1
      <3>2. QED
          BY <2>1, <3>1, CallBegins
    <2>3. QED
      <3>1. r.claim = None
          BY DEF Idle
      <3>2. QED
          BY <1>0, <1>3, <1>c, <2>2, <3>1 DEF Begin
  <1>4. ASSUME NEW c \in Calls, NEW op \in Wanted, EndRead(c, op) PROVE ShapeInv'
    <2> DEFINE r == [Idle EXCEPT !.op = op, !.pc = "probe", !.read = row.auth,
                                 !.saw = IF op = "complete" THEN row.status ELSE "none"]
    <2>1. /\ row.auth \in Ids \cup {None} /\ row.status \in Present \cup Absent
          /\ op \in {"complete", "cancel"}
        BY <1>0, <1>4 DEF Row, EndRead
    <2>2. WellFormed(r)
      <3>1. (IF op = "complete" THEN row.status ELSE "none") \in Present \cup Absent
          BY <2>1 DEF Absent
      <3>2. QED
          BY <2>1, <3>1, CallBegins
    <2>3. QED
      <3>1. r.claim = None
          BY DEF Idle
      <3>2. QED
          BY <1>0, <1>4, <1>c, <2>2, <3>1 DEF EndRead
  <1>5. ASSUME NEW c \in Calls, Claim(c) PROVE ShapeInv'
    <2> DEFINE doc == IF calls[c].op = "save" THEN lastId + 1 ELSE row.doc
               r == [calls[c] EXCEPT !.pc = "work", !.at = 1, !.claim = lastId + 1, !.doc = doc]
    <2>1. lastId + 1 \in Ids /\ lastId < MaxIds /\ lastId' = lastId + 1 /\ calls[c].pc = "found"
        BY <1>0, <1>5 DEF Claim, Ids
    <2>2. doc \in Ids \cup {None} /\ calls[c].op \in Lifecycle \cup {"save"}
        BY <1>0, <1>a, <2>1 DEF Row, WellFormed
    <2>3. calls[c].op \in DOMAIN Program /\ Len(Program[calls[c].op]) \in 1..5
        BY <2>2, Programs, StepsOfPrograms DEF Change
    <2>4. WellFormed(r) /\ r.claim = lastId + 1
      <3>1. r \in Call
        <4>1. calls[c] \in Call
            BY <1>a DEF WellFormed
        <4>2. QED
            BY <2>1, <2>2, <4>1, ClaimedCallType
      <3>2. r.op = calls[c].op /\ r.pc = "work" /\ r.at = 1 /\ r.claim = lastId + 1
          BY <1>a DEF Call
      <3>3. QED
          BY <2>1, <2>3, <3>1, <3>2 DEF WellFormed, Ids
    <2>5. row' \in Row
        BY <1>0, <1>5, <2>1 DEF Claim, Row
    <2>6. calls' = [calls EXCEPT ![c] = r]
        BY <1>0, <1>5 DEF Claim
    <2>7. QED
        BY <1>5, <1>e, <2>1, <2>4, <2>5, <2>6 DEF Claim
  <1>6. ASSUME NEW c \in Calls, Refused(c) \/ EndNotYet(c) PROVE ShapeInv'
      BY <1>0, <1>6, <1>d DEF Refused, EndNotYet
  <1>7. ASSUME NEW c \in Calls, Exec(c) PROVE ShapeInv'
    <2> DEFINE w == IF Step(c) = "env" THEN ~host.up ELSE calls[c].wrote
               r == [calls[c] EXCEPT !.at = calls[c].at + 1, !.wrote = w]
    <2>1. /\ Step(c) \in Command /\ calls[c].at <= Len(Program[calls[c].op])
          /\ calls[c].claim \in Ids /\ calls[c].doc \in Ids \cup {None} /\ calls[c].pc = "work"
        BY <1>0, <1>7, StepIsCommand DEF Exec
    <2>2. host' \in Host /\ host'.by <= lastId
        BY <1>0, <1>a, <1>7, <2>1, EffectType DEF Exec
    <2>3. w \in BOOLEAN
        BY <1>0, <1>a DEF Host, Call
    <2>4. WellFormed(r) /\ r.claim = calls[c].claim
        BY <1>a, <2>1, <2>3, CallAdvances DEF Call
    <2>5. calls' = [calls EXCEPT ![c] = r]
        BY <1>0, <1>7 DEF Exec
    <2>6. QED
        BY <1>0, <1>7, <1>c, <2>2, <2>4, <2>5 DEF Exec
  <1>8. ASSUME NEW c \in Calls, ExecFails(c) PROVE ShapeInv'
    <2> DEFINE r == [calls[c] EXCEPT !.pc = Failing(c)]
    <2>1. /\ Step(c) \in Command
          /\ calls[c].claim \in Ids /\ calls[c].doc \in Ids \cup {None} /\ calls[c].pc = "work"
        BY <1>0, <1>8, StepIsCommand DEF ExecFails
    <2>2. host' \in Host /\ host'.by <= lastId
        BY <1>0, <1>a, <1>8, <2>1, EffectType DEF ExecFails
    <2>3. WellFormed(r) /\ r.claim = calls[c].claim
        BY <1>a, <2>1, CallFails DEF Call, Failing
    <2>4. calls' = [calls EXCEPT ![c] = r]
        BY <1>0, <1>8 DEF ExecFails
    <2>5. QED
        BY <1>0, <1>8, <1>c, <2>2, <2>3, <2>4 DEF ExecFails
  <1>g. ASSUME NEW c \in Calls, NEW pc \in {"release", "cleanup"}, NEW cmd \in Command,
               calls[c].pc \in {"work", "cleanup"}, pc = "cleanup" => calls[c].op = "signin",
               calls' = [calls EXCEPT ![c] = [calls[c] EXCEPT !.pc = pc, !.keep = TRUE]],
               late' = late \cup {LeftBehind(c, cmd)},
               UNCHANGED <<row, host, failure, lastId>>
        PROVE  ShapeInv'
    <2> DEFINE r == [calls[c] EXCEPT !.pc = pc, !.keep = TRUE]
    <2>1. WellFormed(r) /\ r.claim = calls[c].claim
        BY <1>a, <1>g, CallFails DEF Call
    <2>2. CallsInv'
        BY <1>0, <1>g, <2>1, CallsMove
    <2>3. calls[c].op \in Op /\ calls[c].claim \in Ids /\ calls[c].doc \in Ids \cup {None}
        BY <1>a, <1>g, Programs DEF WellFormed, Op, Call
    <2>4. LeftBehind(c, cmd) \in LateCommand /\ LeftBehind(c, cmd).claim <= lastId
        BY <1>a, <2>3 DEF LeftBehind, LateCommand
    <2>5. QED
        BY <1>0, <1>g, <2>2, <2>4, ShapeFrame
  <1>9. ASSUME NEW c \in Calls, TimesOut(c) PROVE ShapeInv'
    <2>1. Step(c) \in Command /\ calls[c].pc = "work"
        BY <1>0, <1>9, StepIsCommand DEF TimesOut
    <2>2. /\ calls' = [calls EXCEPT ![c] = [calls[c] EXCEPT !.pc = Failing(c), !.keep = TRUE]]
          /\ late' = late \cup {LeftBehind(c, Step(c))}
          /\ UNCHANGED <<row, host, failure, lastId>>
        BY <1>0, <1>9 DEF TimesOut
    <2>3. Failing(c) \in {"release", "cleanup"} /\ (Failing(c) = "cleanup" => calls[c].op = "signin")
        BY DEF Failing
    <2>4. QED
        BY <1>g, <2>1, <2>2, <2>3
  <1>10. ASSUME NEW c \in Calls, Cleanup(c) PROVE ShapeInv'
    <2>1. CASE /\ host' \in {host, Effect("authDown", calls[c].claim, None)}
               /\ calls' = [calls EXCEPT ![c].pc = "release"]
               /\ UNCHANGED late
      <3>1. WellFormed([calls[c] EXCEPT !.pc = "release"])
          BY <1>a, <1>10, CallFails DEF Cleanup
      <3>2. calls[c].claim \in Ids
          BY <1>a, <1>10 DEF Cleanup, WellFormed, Call
      <3>3. host' \in Host /\ host'.by <= lastId
        <4>1. "authDown" \in Command /\ None \in Ids \cup {None}
            BY DEF Command
        <4>2. QED
            BY <1>0, <1>a, <2>1, <3>2, <4>1, EffectType
      <3>4. calls' = [calls EXCEPT ![c] = [calls[c] EXCEPT !.pc = "release"]]
          BY <1>0, <2>1
      <3>5. [calls[c] EXCEPT !.pc = "release"].claim = calls[c].claim
          BY <1>a DEF Call
      <3>6. QED
          BY <1>0, <1>10, <1>c, <2>1, <3>1, <3>3, <3>4, <3>5 DEF Cleanup
    <2>2. CASE /\ late' = late \cup {LeftBehind(c, "authDown")}
               /\ calls' = [calls EXCEPT ![c].pc = "release", ![c].keep = TRUE]
               /\ UNCHANGED host
      <3>1. calls' = [calls EXCEPT ![c] = [calls[c] EXCEPT !.pc = "release", !.keep = TRUE]]
          BY <1>0, <2>2
      <3>2. QED
          BY <1>10, <1>g, <2>2, <3>1 DEF Cleanup, Command
    <2>3. QED
        BY <1>10, <2>1, <2>2 DEF Cleanup
  <1>11. ASSUME NEW c \in Calls, StoreToken(c) PROVE ShapeInv'
    <2> DEFINE r == [calls[c] EXCEPT !.at = calls[c].at + 1]
    <2>1. /\ calls[c].at <= Len(Program[calls[c].op]) /\ calls[c].claim \in Ids
          /\ calls[c].pc = "work"
        BY <1>0, <1>11, StepIsCommand DEF StoreToken
    <2>2. WellFormed(r) /\ r.claim = calls[c].claim
        BY <1>a, <2>1, CallAdvances DEF Call
    <2>3. row' \in Row
        BY <1>0, <1>11, <2>1 DEF StoreToken, Row
    <2>4. calls' = [calls EXCEPT ![c] = r]
        BY <1>0, <1>11 DEF StoreToken
    <2>5. QED
        BY <1>0, <1>11, <1>c, <2>2, <2>3, <2>4 DEF StoreToken
  <1>h. Released \in Row
      BY <1>0 DEF Released, Row
  <1>12. ASSUME NEW c \in Calls, Finish(c) PROVE ShapeInv'
    <2>1. row' \in Row
        BY <1>h, <1>12 DEF Finish, Row, Present
    <2>2. QED
        BY <1>12, <1>d, <2>1 DEF Finish
  <1>13. ASSUME NEW c \in Calls, FinishSave(c) PROVE ShapeInv'
    <2>1. Released.doc \in Ids \cup {None} /\ calls[c].doc \in Ids \cup {None}
        BY <1>h, <1>a DEF Row, Call
    <2>2. row' \in Row
        BY <1>h, <1>13, <2>1 DEF FinishSave, Row
    <2>3. QED
        BY <1>13, <1>d, <2>2 DEF FinishSave
  <1>14. ASSUME NEW c \in Calls, FinishRemove(c) PROVE ShapeInv'
    <2>1. row' \in Row
        BY <1>h, <1>14 DEF FinishRemove, Row, Absent
    <2>2. QED
        BY <1>14, <1>d, <2>1 DEF FinishRemove
  <1>15. ASSUME NEW c \in Calls, FinishFails(c) PROVE ShapeInv'
    <2> DEFINE r == [calls[c] EXCEPT !.pc = "release"]
    <2>1. WellFormed(r) /\ r.claim = calls[c].claim
        BY <1>a, <1>15, CallFails DEF FinishFails, Call
    <2>2. QED
        BY <1>0, <1>15, <1>c, <2>1 DEF FinishFails
  <1>16. ASSUME NEW c \in Calls, FinishSignIn(c) PROVE ShapeInv'
    <2>1. row' \in Row
        BY <1>0, <1>16 DEF FinishSignIn, Row, Present
    <2>2. QED
        BY <1>16, <1>d, <2>1 DEF FinishSignIn
  <1>17. ASSUME NEW c \in Calls, NoDeviceCode(c) PROVE ShapeInv'
    <2> DEFINE r == [calls[c] EXCEPT !.pc = "cleanup"]
    <2>1. WellFormed(r) /\ r.claim = calls[c].claim
        BY <1>a, <1>17, CallFails DEF NoDeviceCode, Call
    <2>2. QED
        BY <1>0, <1>17, <1>c, <2>1 DEF NoDeviceCode
  <1>18. ASSUME NEW c \in Calls, Release(c) PROVE ShapeInv'
    <2>1. row' \in Row
        BY <1>0, <1>h, <1>18 DEF Release, Row
    <2>2. QED
        BY <1>18, <1>d, <2>1 DEF Release
  <1>19. ASSUME NEW c \in Calls, EndSession(c) PROVE ShapeInv'
    <2> DEFINE pc == IF calls[c].op = "complete" THEN "record" ELSE "letgo"
               r == [calls[c] EXCEPT !.pc = pc]
    <2>1. WellFormed(r) /\ r.claim = calls[c].claim
        BY <1>a, <1>19, CallEndsSignIn DEF EndSession, Call
    <2>2. host' \in Host /\ host'.by = host.by
        BY <1>0, <1>19 DEF EndSession, Host
    <2>3. QED
        BY <1>0, <1>19, <1>c, <2>1, <2>2 DEF EndSession
  <1>20. ASSUME NEW c \in Calls, EndRecord(c) PROVE ShapeInv'
    <2> DEFINE r == [calls[c] EXCEPT !.pc = "letgo"]
    <2>1. WellFormed(r) /\ r.claim = calls[c].claim
        BY <1>a, <1>20, CallEndsSignIn DEF EndRecord, Call
    <2>2. row' \in Row
        BY <1>0, <1>20 DEF EndRecord, Row, Present
    <2>3. QED
        BY <1>0, <1>20, <1>c, <2>1, <2>2 DEF EndRecord
  <1>21. ASSUME NEW c \in Calls, EndLetGo(c) PROVE ShapeInv'
    <2>1. row' \in Row
        BY <1>0, <1>21 DEF EndLetGo, Row
    <2>2. QED
        BY <1>21, <1>d, <2>1 DEF EndLetGo
  <1>i. ASSUME UNCHANGED <<calls, lastId>>, row' \in Row, host' \in Host,
               host'.by \in Nat, host'.by <= lastId, late' \subseteq late, failure' \in BOOLEAN
        PROVE  ShapeInv'
    <2>1. CallsInv'
        BY <1>0, <1>i DEF CallsInv
    <2>2. QED
        BY <1>0, <1>i, <2>1, ShapeFrame
  <1>22. ASSUME NEW l \in late, Lands(l) PROVE ShapeInv'
    <2>1. /\ l \in LateCommand /\ l.cmd \in Command /\ l.claim \in Ids /\ l.doc \in Ids \cup {None}
          /\ l.claim <= lastId /\ l.claim \in Nat
        BY <1>0 DEF ShapeInv, IdsHandedOut, LateCommand, Ids
    <2>2. host' \in Host /\ host'.by \in Nat /\ host'.by <= lastId
        BY <1>0, <1>22, <2>1, EffectType DEF Lands
    <2>3. QED
        BY <1>0, <1>22, <1>i, <2>2 DEF Lands
  <1>23. ASSUME ReconcileRead PROVE ShapeInv'
      BY <1>0, <1>23, <1>i DEF ReconcileRead
  <1>24. ASSUME RecordUnitFailure PROVE ShapeInv'
    <2>1. row' \in Row
        BY <1>0, <1>24 DEF RecordUnitFailure, Row, Present
    <2>2. QED
        BY <1>0, <1>24, <1>i, <2>1 DEF RecordUnitFailure
  <1>25. ASSUME HostMoves PROVE ShapeInv'
    <2>1. host' \in Host /\ host'.by \in {host.by, None}
        BY <1>0, <1>25 DEF HostMoves, Host
    <2>2. QED
        BY <1>0, <1>25, <1>i, <2>1 DEF HostMoves
  <1>26. ASSUME CfgLeaseExpires \/ AuthLeaseExpires PROVE ShapeInv'
    <2>1. row' \in Row
        BY <1>0, <1>26 DEF Row, CfgLeaseExpires, AuthLeaseExpires
    <2>2. QED
        BY <1>0, <1>26, <1>i, <2>1 DEF CfgLeaseExpires, AuthLeaseExpires
  <1>27. ASSUME ServerCrash PROVE ShapeInv'
    <2>1. CallsInv'
      <3>1. Idle \in Call /\ Idle.claim = None
          BY CallEnds DEF WellFormed, Idle
      <3>2. QED
          BY <1>0, <1>27, <3>1, CallEnds DEF ServerCrash, CallsInv
    <2>2. \A l \in late' : \/ l \in late
                           \/ l \in LateCommand /\ l.claim <= lastId
      <3>1. SUFFICES ASSUME NEW c \in Calls, calls[c].pc = "work", ~AtEnd(c), Step(c) # "token"
                     PROVE  LeftBehind(c, Step(c)) \in LateCommand
                            /\ LeftBehind(c, Step(c)).claim <= lastId
          BY <1>27 DEF ServerCrash
      <3>2. QED
          BY <1>0, <1>a, <3>1, StepIsCommand DEF LeftBehind
    <2>3. QED
      <3>1. late' \subseteq LateCommand /\ \A l \in late' : l \in late \/ l.claim <= lastId
          BY <1>0, <2>2
      <3>2. UNCHANGED <<row, host, lastId>> /\ failure' \in BOOLEAN
          BY <1>27 DEF ServerCrash
      <3>3. QED
          BY <1>0, <2>1, <3>1, <3>2, ShapeFrame
  <1>28. ASSUME UNCHANGED vars PROVE ShapeInv'
      BY <1>0, <1>28, <1>i DEF vars
  <1>29. QED
      BY <1>1, <1>2, <1>3, <1>4, <1>5, <1>6, <1>7, <1>8, <1>9, <1>10, <1>11, <1>12, <1>13,
         <1>14, <1>15, <1>16, <1>17, <1>18, <1>19, <1>20, <1>21, <1>22, <1>23, <1>24, <1>25,
         <1>26, <1>27, <1>28 DEF Next, CallStep

\* Every reachable state has its shape, whether or not calls may outlast their leases: a call
\* works under an id of its own that randomUUID handed out, at a step of its change's program.
THEOREM ClaimsAreDistinct == Spec => []ShapeInv
  <1>1. Init => ShapeInv
      BY ShapeInit
  <1>2. ShapeInv /\ [Next]_vars => ShapeInv'
      BY ShapeStep
  <1>3. QED
      BY <1>1, <1>2, PTL DEF Spec

-----------------------------------------------------------------------------
\* A bot that was never created has neither a claim nor settings.
FreshRow == row.status = "none" => row.cfg = None /\ ~row.cfgStale /\ row.doc = None

LEMMA FreshInit == Init => FreshRow
  BY DEF Init, FreshRow

LEMMA FreshStep == ShapeInv /\ FreshRow /\ [Next]_vars => FreshRow'
  <1> SUFFICES ASSUME row \in Row, FreshRow, [Next]_vars PROVE FreshRow'
      BY DEF ShapeInv, TypeOK
  <1>1. ASSUME NEW c \in Calls, Create(c) PROVE FreshRow'
      BY <1>1 DEF Create, FreshRow, Row
  <1>2. ASSUME NEW c \in Calls, SignIn(c) \/ Claim(c) \/ StoreToken(c) PROVE FreshRow'
      BY <1>2 DEF SignIn, Claim, Claimable, StoreToken, OwnsCfg, FreshRow, Row, Exists, Present
  <1>3. ASSUME NEW c \in Calls, Finish(c) \/ FinishSave(c) \/ FinishRemove(c) PROVE FreshRow'
      BY <1>3 DEF Finish, FinishSave, FinishRemove, Released, OwnsCfg, FreshRow, Row, Exists, Present
  <1>4. ASSUME NEW c \in Calls, FinishSignIn(c) \/ Release(c) PROVE FreshRow'
      BY <1>4 DEF FinishSignIn, Release, Released, OwnsCfg, OwnsAuth, FreshRow, Row, Exists, Present
  <1>5. ASSUME NEW c \in Calls, EndRecord(c) \/ EndLetGo(c) PROVE FreshRow'
      BY <1>5 DEF EndRecord, EndLetGo, FreshRow, Row, Exists, Present
  <1>6. ASSUME RecordUnitFailure \/ CfgLeaseExpires \/ AuthLeaseExpires PROVE FreshRow'
      BY <1>6 DEF RecordUnitFailure, CfgLeaseExpires, AuthLeaseExpires, FreshRow, Row
  <1>7. ASSUME UNCHANGED row PROVE FreshRow'
      BY <1>7 DEF FreshRow
  <1>8. QED
      BY <1>1, <1>2, <1>3, <1>4, <1>5, <1>6, <1>7
      DEF Next, CallStep, Refused, Exec, ExecFails, TimesOut, FinishFails, NoDeviceCode, Cleanup,
          EndSession, EndNotYet, Begin, EndRead, Lands, ReconcileRead, HostMoves, ServerCrash, vars

\* A change at work, or about to give its claim back, holds the live claim of the row.
ChangesHold ==
    \A c \in Calls :
        calls[c].op \in Change /\ calls[c].pc \in {"work", "release"} =>
            Exists /\ row.cfg = calls[c].claim /\ ~row.cfgStale

\* So does a command that a change left behind.
LateHold == \A l \in late : l.op \in Change => Exists /\ row.cfg = l.claim /\ ~row.cfgStale

\* A call that left a command behind is failing and keeps its claim.
LateIsKept ==
    \A c \in Calls, l \in late :
        l.claim = calls[c].claim => calls[c].pc \in {"cleanup", "release"} /\ calls[c].keep

HoldInv == ShapeInv /\ FreshRow /\ ChangesHold /\ LateHold /\ LateIsKept

\* A call goes on, or ends, under the claim it has.
GoesOn(old, new) ==
    \/ new = old
    \/ new.claim = None
    \/ /\ new.claim = old.claim /\ new.op = old.op /\ new.keep = old.keep
       /\ \/ old.pc = "work"
          \/ old.pc = "cleanup" /\ new.pc \in {"cleanup", "release"}

\* Steps that leave the config claim alone.
LEMMA HoldFrame ==
    ASSUME HoldInv, ShapeInv', FreshRow', Exists => Exists', row'.cfg = row.cfg,
           row'.cfgStale = row.cfgStale, late' \subseteq late,
           \A c \in Calls : GoesOn(calls[c], calls'[c])
    PROVE  HoldInv'
  <1>1. \A c \in Calls : WellFormed(calls[c]) /\ WellFormed(calls'[c])
      BY DEF HoldInv, ShapeInv, CallsInv
  <1>2. \A c \in Calls : calls[c].pc = "cleanup" => calls[c].op \notin Change
      BY <1>1 DEF WellFormed, Change, Lifecycle
  <1>3. \A c \in Calls : calls'[c].claim = None => calls'[c].pc \notin {"work", "cleanup", "release"}
      BY <1>1 DEF WellFormed
  <1>4. \A l \in late : l.claim # None
      BY DEF HoldInv, ShapeInv, TypeOK, LateCommand, Ids
  <1>5. ChangesHold'
      BY <1>2, <1>3 DEF HoldInv, ChangesHold, GoesOn
  <1>6. LateHold'
      BY DEF HoldInv, LateHold
  <1>7. LateIsKept'
      BY <1>4 DEF HoldInv, LateIsKept, GoesOn
  <1>8. QED
      BY <1>5, <1>6, <1>7 DEF HoldInv

\* While the claim is free no change is at work, and nothing that one left behind is.
LEMMA FreeIsUnheld ==
    ASSUME HoldInv, ~Exists \/ CfgFree
    PROVE  /\ \A c \in Calls : ~(calls[c].op \in Change /\ calls[c].pc \in {"work", "release"})
           /\ \A l \in late : l.op \notin Change
  <1>1. \A c \in Calls : calls[c].pc \in {"work", "release"} => calls[c].claim # None
      BY DEF HoldInv, ShapeInv, CallsInv, WellFormed
  <1>2. \A l \in late : l.claim # None
      BY DEF HoldInv, ShapeInv, TypeOK, LateCommand, Ids
  <1>3. QED
      BY <1>1, <1>2 DEF HoldInv, ChangesHold, LateHold, CfgFree

\* A call that takes a claim while none is held.
LEMMA HoldTake ==
    ASSUME HoldInv, ShapeInv', FreshRow', ~Exists \/ CfgFree, NEW c \in Calls, NEW r,
           calls' = [calls EXCEPT ![c] = r], r.claim = lastId + 1, UNCHANGED late,
           r.op \in Change => Exists' /\ row'.cfg = r.claim /\ ~row'.cfgStale
    PROVE  HoldInv'
  <1>1. /\ \A d \in Calls : ~(calls[d].op \in Change /\ calls[d].pc \in {"work", "release"})
        /\ \A l \in late : l.op \notin Change
      BY FreeIsUnheld
  <1>2. \A d \in Calls : calls'[d] = IF d = c THEN r ELSE calls[d]
      BY DEF HoldInv, ShapeInv, CallsInv
  <1>3. \A l \in late : l.claim # lastId + 1
      BY DEF HoldInv, ShapeInv, TypeOK, IdsHandedOut, LateCommand, Ids
  <1>4. ChangesHold' /\ LateHold'
      BY <1>1, <1>2 DEF ChangesHold, LateHold
  <1>5. LateIsKept'
      BY <1>2, <1>3 DEF HoldInv, LateIsKept
  <1>6. QED
      BY <1>4, <1>5 DEF HoldInv

\* A change that gives the claim back ends, and has left nothing behind.
LEMMA HoldGiveBack ==
    ASSUME HoldInv, ShapeInv', FreshRow', NEW c \in Calls, calls[c].op \in Change, OwnsCfg(c),
           calls[c].pc \in {"work", "release"}, calls[c].pc = "release" => ~calls[c].keep,
           calls' = [calls EXCEPT ![c] = Idle], UNCHANGED late
    PROVE  HoldInv'
  <1>1. \A d \in Calls : calls'[d] = IF d = c THEN Idle ELSE calls[d]
      BY DEF HoldInv, ShapeInv, CallsInv
  <1>2. \A l \in late : l.claim # calls[c].claim /\ l.claim # None
      BY DEF HoldInv, ShapeInv, TypeOK, LateIsKept, LateCommand, Ids
  <1>3. \A l \in late : l.op \notin Change
      BY <1>2 DEF HoldInv, LateHold, OwnsCfg
  <1>4. \A d \in Calls : d # c => ~(calls[d].op \in Change /\ calls[d].pc \in {"work", "release"})
      BY DEF HoldInv, ShapeInv, CallsInv, WellFormed, ChangesHold, OwnsCfg
  <1>5. ChangesHold' /\ LateHold'
      BY <1>1, <1>3, <1>4 DEF ChangesHold, LateHold, Idle
  <1>6. LateIsKept'
      BY <1>1, <1>2 DEF HoldInv, LateIsKept, Idle
  <1>7. QED
      BY <1>5, <1>6 DEF HoldInv

\* A call whose command got no answer keeps its claim and fails.
LEMMA HoldLeave ==
    ASSUME HoldInv, ShapeInv', FreshRow', NEW c \in Calls, calls[c].pc \in {"work", "cleanup"}, NEW cmd,
           NEW pc \in {"cleanup", "release"}, pc = "cleanup" => calls[c].op = "signin",
           calls' = [calls EXCEPT ![c] = [calls[c] EXCEPT !.pc = pc, !.keep = TRUE]],
           late' = late \cup {LeftBehind(c, cmd)}, UNCHANGED row
    PROVE  HoldInv'
  <1>0. /\ calls[c] \in Call /\ calls[c].claim # None
        /\ calls[c].op \in Change => calls[c].pc = "work"
      BY DEF HoldInv, ShapeInv, CallsInv, WellFormed, Change, Lifecycle
  <1>1. \A d \in Calls : calls'[d] = IF d = c THEN [calls[c] EXCEPT !.pc = pc, !.keep = TRUE]
                                     ELSE calls[d]
      BY DEF HoldInv, ShapeInv, CallsInv
  <1>2. /\ calls'[c].op = calls[c].op /\ calls'[c].claim = calls[c].claim /\ calls'[c].pc = pc
        /\ calls'[c].keep
    <2> DEFINE r == [calls[c] EXCEPT !.pc = pc, !.keep = TRUE]
    <2>1. r.op = calls[c].op /\ r.claim = calls[c].claim /\ r.pc = pc
        BY <1>0 DEF Call
    <2>2. r.keep
        BY <1>0 DEF Call
    <2>3. calls'[c] = r
        BY <1>1
    <2> HIDE DEF r
    <2>4. QED
        BY <2>1, <2>2, <2>3
  <1>3. LeftBehind(c, cmd).op = calls[c].op /\ LeftBehind(c, cmd).claim = calls[c].claim
      BY DEF LeftBehind
  <1>4. ChangesHold' /\ LateHold'
      BY <1>0, <1>1, <1>2, <1>3 DEF HoldInv, ChangesHold, LateHold, Exists
  <1>5. \A d \in Calls : d # c => calls[d].claim # calls[c].claim
      BY <1>0 DEF HoldInv, ShapeInv, CallsInv
  <1>6. LateIsKept'
      BY <1>1, <1>2, <1>3, <1>5 DEF HoldInv, LateIsKept
  <1>7. QED
      BY <1>4, <1>6 DEF HoldInv

LEMMA HoldInit == Init => HoldInv
  BY ShapeInit, FreshInit DEF Init, HoldInv, ChangesHold, LateHold, LateIsKept, Idle

LEMMA HoldStep == ASSUME ~Stalls PROVE HoldInv /\ [Next]_vars => HoldInv'
  <1> SUFFICES ASSUME HoldInv, [Next]_vars PROVE HoldInv'
      OBVIOUS
  <1>0. /\ ShapeInv' /\ FreshRow' /\ row \in Row /\ calls \in [Calls -> Call]
        /\ \A c \in Calls : WellFormed(calls[c]) /\ calls[c] \in Call
      BY ShapeStep, FreshStep DEF HoldInv, ShapeInv, TypeOK, CallsInv, WellFormed
  <1>a. Idle.claim = None
      BY DEF Idle
  <1>b. ASSUME NEW c \in Calls, NEW r, calls' = [calls EXCEPT ![c] = r], GoesOn(calls[c], r),
               Exists => Exists', row'.cfg = row.cfg, row'.cfgStale = row.cfgStale,
               late' \subseteq late
        PROVE  HoldInv'
    <2>1. \A d \in Calls : GoesOn(calls[d], calls'[d])
        BY <1>0, <1>b DEF GoesOn
    <2>2. QED
        BY <1>0, <1>b, <2>1, HoldFrame
  <1>c. ASSUME UNCHANGED calls, Exists => Exists', row'.cfg = row.cfg, row'.cfgStale = row.cfgStale,
               late' \subseteq late
        PROVE  HoldInv'
      BY <1>0, <1>c, HoldFrame DEF GoesOn
  <1>1. ASSUME NEW c \in Calls, Create(c) PROVE HoldInv'
    <2> DEFINE r == [Idle EXCEPT !.op = "create", !.pc = "work", !.at = 1,
                                 !.claim = lastId + 1, !.doc = lastId + 1]
    <2>1. ~Exists /\ calls' = [calls EXCEPT ![c] = r] /\ UNCHANGED late
        BY <1>1 DEF Create, Exists, Present
    <2>2. Exists' /\ row'.cfg = lastId + 1 /\ ~row'.cfgStale
        BY <1>0, <1>1 DEF Create, Row, Exists, Present, HoldInv, FreshRow
    <2>3. r.claim = lastId + 1
        BY DEF Idle
    <2>4. QED
        BY <1>0, <2>1, <2>2, <2>3, HoldTake
  <1>2. ASSUME NEW c \in Calls, SignIn(c) PROVE HoldInv'
    <2> DEFINE r == [Idle EXCEPT !.op = "signin", !.pc = "work", !.at = 1, !.claim = lastId + 1]
    <2>1. CfgFree /\ calls' = [calls EXCEPT ![c] = r] /\ UNCHANGED late
        BY <1>2 DEF SignIn
    <2>2. r.claim = lastId + 1 /\ r.op \notin Change
        BY DEF Idle, Change, Lifecycle
    <2>3. QED
        BY <1>0, <2>1, <2>2, HoldTake
  <1>3. ASSUME NEW c \in Calls, NEW op \in Wanted, Begin(c, op) \/ EndRead(c, op) PROVE HoldInv'
    <2> DEFINE found == [Idle EXCEPT !.op = op, !.pc = "found",
                                     !.read = IF op = "save" THEN row.doc ELSE None]
               probe == [Idle EXCEPT !.op = op, !.pc = "probe", !.read = row.auth,
                                     !.saw = IF op = "complete" THEN row.status ELSE "none"]
    <2>1. found.claim = None /\ probe.claim = None
        BY DEF Idle
    <2>2. /\ calls' = [calls EXCEPT ![c] = found] \/ calls' = [calls EXCEPT ![c] = probe]
          /\ UNCHANGED <<row, late>>
        BY <1>3 DEF Begin, EndRead
    <2>3. QED
        BY <1>b, <2>1, <2>2 DEF GoesOn, Exists
  <1>4. ASSUME NEW c \in Calls, Claim(c) PROVE HoldInv'
    <2> DEFINE r == [calls[c] EXCEPT !.pc = "work", !.at = 1, !.claim = lastId + 1,
                              !.doc = IF calls[c].op = "save" THEN lastId + 1 ELSE row.doc]
    <2>1. CfgFree /\ Exists /\ calls' = [calls EXCEPT ![c] = r] /\ UNCHANGED late
        BY <1>4 DEF Claim, Claimable
    <2>2. r.claim = lastId + 1
        BY <1>0 DEF Call
    <2>3. Exists' /\ row'.cfg = lastId + 1 /\ ~row'.cfgStale
        BY <1>0, <1>4, <2>1 DEF Claim, Row, Exists
    <2>4. QED
        BY <1>0, <2>1, <2>2, <2>3, HoldTake
  <1>5. ASSUME NEW c \in Calls, Refused(c) \/ EndNotYet(c) PROVE HoldInv'
      BY <1>5, <1>a, <1>b DEF Refused, EndNotYet, GoesOn, Exists
  <1>6. ASSUME NEW c \in Calls, Exec(c) PROVE HoldInv'
    <2> DEFINE w == IF Step(c) = "env" THEN ~host.up ELSE calls[c].wrote
               r == [calls[c] EXCEPT !.at = calls[c].at + 1, !.wrote = w]
    <2>1. calls' = [calls EXCEPT ![c] = r] /\ UNCHANGED <<row, late>> /\ calls[c].pc = "work"
        BY <1>0, <1>6 DEF Exec
    <2>2. GoesOn(calls[c], r)
        BY <1>0, <2>1 DEF GoesOn, Call
    <2>3. QED
        BY <1>b, <2>1, <2>2 DEF Exists
  <1>7. ASSUME NEW c \in Calls, ExecFails(c) \/ FinishFails(c) \/ NoDeviceCode(c) PROVE HoldInv'
    <2>1. PICK pc : /\ calls' = [calls EXCEPT ![c] = [calls[c] EXCEPT !.pc = pc]]
                    /\ UNCHANGED <<row, late>> /\ calls[c].pc = "work"
        BY <1>0, <1>7 DEF ExecFails, FinishFails, NoDeviceCode
    <2>2. GoesOn(calls[c], [calls[c] EXCEPT !.pc = pc])
        BY <1>0, <2>1 DEF GoesOn, Call
    <2>3. QED
        BY <1>b, <2>1, <2>2 DEF Exists
  <1>8. ASSUME NEW c \in Calls, TimesOut(c) PROVE HoldInv'
    <2>1. /\ calls' = [calls EXCEPT ![c] = [calls[c] EXCEPT !.pc = Failing(c), !.keep = TRUE]]
          /\ late' = late \cup {LeftBehind(c, Step(c))}
          /\ UNCHANGED row /\ calls[c].pc = "work"
        BY <1>0, <1>8 DEF TimesOut
    <2>2. Failing(c) \in {"release", "cleanup"} /\ (Failing(c) = "cleanup" => calls[c].op = "signin")
        BY DEF Failing
    <2>3. QED
        BY <1>0, <2>1, <2>2, HoldLeave
  <1>9. ASSUME NEW c \in Calls, Cleanup(c) PROVE HoldInv'
    <2>1. CASE calls' = [calls EXCEPT ![c].pc = "release"] /\ UNCHANGED late
      <3>1. calls' = [calls EXCEPT ![c] = [calls[c] EXCEPT !.pc = "release"]]
          BY <1>0, <2>1
      <3>2. GoesOn(calls[c], [calls[c] EXCEPT !.pc = "release"])
          BY <1>0, <1>9 DEF Cleanup, GoesOn, Call
      <3>3. QED
          BY <1>9, <1>b, <2>1, <3>1, <3>2 DEF Cleanup, Exists
    <2>2. CASE /\ late' = late \cup {LeftBehind(c, "authDown")}
               /\ calls' = [calls EXCEPT ![c].pc = "release", ![c].keep = TRUE]
      <3>1. calls' = [calls EXCEPT ![c] = [calls[c] EXCEPT !.pc = "release", !.keep = TRUE]]
          BY <1>0, <2>2
      <3>2. QED
          BY <1>0, <1>9, <2>2, <3>1, HoldLeave DEF Cleanup
    <2>3. QED
        BY <1>9, <2>1, <2>2 DEF Cleanup
  <1>10. ASSUME NEW c \in Calls, StoreToken(c) PROVE HoldInv'
    <2> DEFINE r == [calls[c] EXCEPT !.at = calls[c].at + 1]
    <2>1. calls' = [calls EXCEPT ![c] = r] /\ UNCHANGED late /\ calls[c].pc = "work"
        BY <1>0, <1>10 DEF StoreToken
    <2>2. GoesOn(calls[c], r)
        BY <1>0, <2>1 DEF GoesOn, Call
    <2>3. Step(c) = "token" => calls[c].op \in Change
      <3>1. ASSUME calls[c].op = "signin" PROVE Step(c) # "token"
        <4>1. calls[c].at \in 1..4
            BY <1>0, <1>10, <2>1, <3>1, Programs DEF WellFormed, AtEnd, StoreToken
        <4>2. QED
            BY <3>1, <4>1, Programs DEF Step
      <3>2. QED
          BY <1>0, <2>1, <3>1, Programs DEF WellFormed
    <2>4. ~row.cfgStale
        BY <1>10, <2>1, <2>3 DEF HoldInv, ChangesHold, StoreToken
    <2>5. row'.cfg = row.cfg /\ row'.cfgStale = row.cfgStale /\ row'.status = row.status
        BY <1>0, <1>10, <2>4 DEF StoreToken, Row
    <2>6. QED
        BY <1>b, <2>1, <2>2, <2>5 DEF Exists
  <1>11. ASSUME NEW c \in Calls, Finish(c) \/ FinishSave(c) \/ FinishRemove(c) PROVE HoldInv'
    <2>1. /\ calls[c].op \in Change /\ OwnsCfg(c) /\ calls[c].pc = "work"
          /\ calls' = [calls EXCEPT ![c] = Idle] /\ UNCHANGED late
        BY <1>11 DEF Finish, FinishSave, FinishRemove, Change, Lifecycle
    <2>2. QED
        BY <1>0, <2>1, HoldGiveBack
  <1>12. ASSUME NEW c \in Calls, Release(c) PROVE HoldInv'
    <2>1. CASE ~calls[c].keep /\ calls[c].op \in Change /\ OwnsCfg(c)
        BY <1>0, <1>12, <2>1, HoldGiveBack DEF Release
    <2>2. CASE row'.cfg = row.cfg /\ row'.cfgStale = row.cfgStale /\ row'.status = row.status
        BY <1>12, <1>a, <1>b, <2>2 DEF Release, GoesOn, Exists
    <2>3. QED
        BY <1>0, <1>12, <2>1, <2>2 DEF Release, Row
  <1>13. ASSUME NEW c \in Calls, FinishSignIn(c) \/ EndLetGo(c) PROVE HoldInv'
    <2>1. row'.cfg = row.cfg /\ row'.cfgStale = row.cfgStale /\ (Exists => Exists')
        BY <1>0, <1>13 DEF FinishSignIn, EndLetGo, Row, Exists, Present
    <2>2. QED
        BY <1>13, <1>a, <1>b, <2>1 DEF FinishSignIn, EndLetGo, GoesOn
  <1>14. ASSUME NEW c \in Calls, EndSession(c) \/ EndRecord(c) PROVE HoldInv'
    <2>1. row'.cfg = row.cfg /\ row'.cfgStale = row.cfgStale /\ (Exists => Exists')
        BY <1>0, <1>14 DEF EndSession, EndRecord, Row, Exists, Present
    <2>2. PICK pc : calls' = [calls EXCEPT ![c] = [calls[c] EXCEPT !.pc = pc]]
        BY <1>0, <1>14 DEF EndSession, EndRecord
    <2>3. [calls[c] EXCEPT !.pc = pc].claim = None
        BY <1>0, <1>14 DEF EndSession, EndRecord, WellFormed, Call
    <2>4. QED
        BY <1>14, <1>b, <2>1, <2>2, <2>3 DEF EndSession, EndRecord, GoesOn
  <1>15. ASSUME NEW l \in late, Lands(l) PROVE HoldInv'
      BY <1>15, <1>c DEF Lands, Exists
  <1>16. ASSUME ReconcileRead \/ HostMoves \/ UNCHANGED vars PROVE HoldInv'
      BY <1>16, <1>c DEF ReconcileRead, HostMoves, vars, Exists
  <1>17. ASSUME RecordUnitFailure \/ AuthLeaseExpires PROVE HoldInv'
    <2>1. row'.cfg = row.cfg /\ row'.cfgStale = row.cfgStale /\ (Exists => Exists')
        BY <1>0, <1>17 DEF RecordUnitFailure, AuthLeaseExpires, Row, Exists, Present
    <2>2. QED
        BY <1>17, <1>c, <2>1 DEF RecordUnitFailure, AuthLeaseExpires
  <1>18. ASSUME CfgLeaseExpires PROVE HoldInv'
    <2>1. Quiet(row.cfg)
        BY <1>18 DEF CfgLeaseExpires
    <2>2. /\ \A c \in Calls : ~(calls[c].op \in Change /\ calls[c].pc \in {"work", "release"})
          /\ \A l \in late : l.op \notin Change
        BY <2>1 DEF Quiet, HoldInv, ChangesHold, LateHold
    <2>3. UNCHANGED <<calls, late>>
        BY <1>18 DEF CfgLeaseExpires
    <2>4. ChangesHold' /\ LateHold' /\ LateIsKept'
        BY <2>2, <2>3 DEF HoldInv, ChangesHold, LateHold, LateIsKept
    <2>5. QED
        BY <1>0, <2>4 DEF HoldInv
  <1>19. ASSUME ServerCrash PROVE HoldInv'
    <2>1. UNCHANGED row /\ \A c \in Calls : calls'[c] = Idle
        BY <1>19 DEF ServerCrash
    <2>2. \A l \in late' : \/ l \in late
                           \/ \E c \in Calls : /\ calls[c].pc = "work"
                                               /\ l.op = calls[c].op /\ l.claim = calls[c].claim
        BY <1>19 DEF ServerCrash, LeftBehind
    <2>3. ChangesHold'
        BY <2>1 DEF ChangesHold, Idle
    <2>4. LateHold'
        BY <2>1, <2>2 DEF HoldInv, LateHold, ChangesHold, Exists
    <2>5. LateIsKept'
        BY <1>0, <2>1 DEF LateIsKept, ShapeInv, TypeOK, LateCommand, Idle, Ids
    <2>6. QED
        BY <1>0, <2>3, <2>4, <2>5 DEF HoldInv
  <1>20. QED
      BY <1>1, <1>2, <1>3, <1>4, <1>5, <1>6, <1>7, <1>8, <1>9, <1>10, <1>11, <1>12, <1>13,
         <1>14, <1>15, <1>16, <1>17, <1>18, <1>19 DEF Next, CallStep

\* A sign-in at work that has its claim has it fresh, and a bot that was never created has none.
SignInsHold ==
    /\ \A d \in Calls : Working(d) /\ calls[d].op = "signin" /\ OwnsAuth(d) => ~row.authStale
    /\ row.status = "none" => row.auth = None

ApartInv == SignInsHold /\ SignInsAreApart

\* A call at work as a change of the bot's state or as a sign-in was so before, under the same claim.
Keeps(old, new) ==
    new.pc \in {"work", "cleanup"} /\ new.op \in Lifecycle \cup {"signin"} =>
        old.pc \in {"work", "cleanup"} /\ new.op = old.op /\ new.claim = old.claim

\* Steps at which no such call begins, and that leave the sign-in's claim or end it.
LEMMA ApartFrame ==
    ASSUME ApartInv, CallsInv', \A c \in Calls : Keeps(calls[c], calls'[c]),
           \/ row'.auth = None
           \/ /\ Exists' => Exists
              /\ row'.auth = row.auth /\ (row'.authStale => row.authStale)
              /\ row'.status = "none" => row.status = "none"
    PROVE  ApartInv'
  <1>1. \A c \in Calls : Working(c)' => calls'[c].claim # None
      BY DEF CallsInv, WellFormed, Working
  <1>2. QED
      BY <1>1 DEF ApartInv, SignInsHold, SignInsAreApart, Keeps, Working, OwnsAuth

\* Every step keeps sign-ins and changes apart.
LEMMA ApartStep == ASSUME ~Stalls PROVE HoldInv /\ HoldInv' /\ ApartInv /\ [Next]_vars => ApartInv'
  <1> SUFFICES ASSUME HoldInv, HoldInv', ApartInv, [Next]_vars PROVE ApartInv'
      OBVIOUS
  <1>0. /\ row \in Row /\ row' \in Row /\ calls \in [Calls -> Call] /\ CallsInv' /\ lastId \in Nat
        /\ \A c \in Calls : WellFormed(calls[c]) /\ calls[c] \in Call /\ calls[c].claim <= lastId
        /\ ChangesHold /\ SignInsHold /\ SignInsAreApart
      BY DEF HoldInv, ShapeInv, TypeOK, CallsInv, ApartInv
  <1>a. \A c \in Calls : Working(c) /\ calls[c].op \in Lifecycle => Exists /\ row.cfg = calls[c].claim
                                                               /\ row.cfg # None /\ ~row.cfgStale
      BY <1>0 DEF WellFormed, ChangesHold, Working, Lifecycle, Change
  <1>b. ASSUME NEW c \in Calls, NEW r, calls' = [calls EXCEPT ![c] = r], Keeps(calls[c], r)
        PROVE  \A d \in Calls : Keeps(calls[d], calls'[d])
    <2>1. \A d \in Calls : calls'[d] = IF d = c THEN r ELSE calls[d]
        BY <1>0, <1>b
    <2>2. QED
        BY <1>b, <2>1 DEF Keeps
  <1>1. ASSUME NEW c \in Calls, Create(c) PROVE ApartInv'
    <2>1. row'.auth = None
        BY <1>0, <1>1 DEF Create, SignInsHold, Row
    <2>2. \A d \in Calls : Keeps(calls[d], calls'[d])
        BY <1>0, <1>1, <1>b DEF Create, Idle, Keeps, Lifecycle
    <2>3. QED
        BY <1>0, <2>1, <2>2, ApartFrame
  <1>2. ASSUME NEW c \in Calls, SignIn(c) PROVE ApartInv'
    <2>1. /\ row'.auth = lastId + 1 /\ ~row'.authStale /\ Exists'
          /\ CfgFree /\ row'.status = row.status
        BY <1>0, <1>2 DEF SignIn, Row, Exists
    <2>2. \A d \in Calls : d # c => calls'[d] = calls[d]
        BY <1>0, <1>2 DEF SignIn
    <2>3. calls'[c].op = "signin"
        BY <1>0, <1>2 DEF SignIn, Idle
    <2>4. \A d \in Calls : ~(Working(d) /\ calls[d].op \in Lifecycle)
        BY <1>a, <2>1 DEF CfgFree
    <2>5. \A d \in Calls : ~(Working(d)' /\ calls'[d].op \in Lifecycle)
        BY <2>2, <2>3, <2>4 DEF Working, Lifecycle
    <2>6. row'.status # "none"
        BY <2>1 DEF Exists, Present
    <2>7. QED
        BY <2>1, <2>5, <2>6 DEF ApartInv, SignInsHold, SignInsAreApart
  <1>3. ASSUME NEW c \in Calls, Claim(c) PROVE ApartInv'
    <2>1. CASE calls[c].op = "save"
      <3>1. \A d \in Calls : Keeps(calls[d], calls'[d])
          BY <1>0, <1>3, <2>1, <1>b DEF Claim, Keeps, Lifecycle
      <3>2. row'.auth = row.auth /\ row'.authStale = row.authStale /\ row'.status = row.status
          BY <1>0, <1>3 DEF Claim, Row
      <3>3. QED
          BY <1>0, <3>1, <3>2, ApartFrame DEF Exists
    <2>2. CASE calls[c].op # "save"
      <3>1. AuthFree /\ row'.auth = row.auth /\ row'.authStale = row.authStale /\ row'.status = row.status
          BY <1>0, <1>3, <2>2 DEF Claim, Claimable, Row
      <3>2. calls[c].op \in Lifecycle
          BY <1>0, <1>3, <2>2 DEF Claim, WellFormed
      <3>3. \A d \in Calls : Working(d)' /\ calls'[d].op = "signin" => Working(d) /\ calls'[d] = calls[d]
          BY <1>0, <1>3, <3>2 DEF Claim, Working, Lifecycle
      <3>4. \A d \in Calls : Working(d)' /\ calls'[d].op = "signin" => ~OwnsAuth(d)'
        <4>1. \A d \in Calls : Working(d) => calls[d].claim # None
            BY <1>0 DEF WellFormed, Working
        <4>2. QED
            BY <1>0, <3>1, <3>3, <4>1 DEF SignInsHold, OwnsAuth, AuthFree, Exists
      <3>5. QED
          BY <1>0, <3>1, <3>4 DEF ApartInv, SignInsHold, SignInsAreApart
    <2>3. QED
        BY <2>1, <2>2
  <1>4. CASE AuthLeaseExpires
    <2>1. \A d \in Calls : Working(d) => calls[d].claim # row.auth
        BY <1>4 DEF AuthLeaseExpires, Quiet, Working
    <2>2. row'.auth = row.auth /\ row'.status = row.status /\ UNCHANGED calls
        BY <1>0, <1>4 DEF AuthLeaseExpires, Row
    <2>3. \A d \in Calls : Working(d)' => ~OwnsAuth(d)'
        BY <2>1, <2>2 DEF Working, OwnsAuth
    <2>4. QED
        BY <1>0, <2>2, <2>3 DEF ApartInv, SignInsHold, SignInsAreApart
  <1>5. ASSUME NEW c \in Calls,
               \/ Refused(c) \/ Exec(c) \/ ExecFails(c) \/ TimesOut(c) \/ FinishFails(c)
               \/ NoDeviceCode(c) \/ Cleanup(c) \/ EndSession(c) \/ EndNotYet(c)
               \/ \E op \in Wanted : Begin(c, op) \/ EndRead(c, op)
        PROVE  ApartInv'
    <2>1. UNCHANGED row
        BY <1>5 DEF Refused, Exec, ExecFails, TimesOut, FinishFails, NoDeviceCode, Cleanup,
           EndSession, EndNotYet, Begin, EndRead
    <2>2. \A d \in Calls : Keeps(calls[d], calls'[d])
      <3>1. CASE Refused(c) \/ EndNotYet(c)
          BY <1>0, <1>b, <3>1 DEF Refused, EndNotYet, Keeps, Idle
      <3>2. CASE Exec(c)
          BY <1>0, <3>2 DEF Exec, Keeps, Call
      <3>3. CASE ExecFails(c) \/ TimesOut(c)
          BY <1>0, <3>3 DEF ExecFails, TimesOut, Failing, Keeps, Call
      <3>4. CASE FinishFails(c) \/ NoDeviceCode(c) \/ Cleanup(c) \/ EndSession(c)
          BY <1>0, <3>4 DEF FinishFails, NoDeviceCode, Cleanup, EndSession, Keeps, Call
      <3>5. CASE \E op \in Wanted : Begin(c, op) \/ EndRead(c, op)
        <4>1. PICK op \in Wanted : Begin(c, op) \/ EndRead(c, op)
            BY <3>5
        <4>2. \A d \in Calls : d # c => calls'[d] = calls[d]
            BY <1>0, <4>1 DEF Begin, EndRead
        <4>3. calls'[c].pc \in {"found", "probe"}
          <5>1. CASE Begin(c, op)
            <6>1. calls'[c].pc = "found"
                BY <1>0, <5>1 DEF Begin, Idle
            <6>2. QED
                BY <6>1
          <5>2. CASE EndRead(c, op)
            <6>1. calls'[c].pc = "probe"
                BY <1>0, <5>2 DEF EndRead, Idle
            <6>2. QED
                BY <6>1
          <5>3. QED
              BY <4>1, <5>1, <5>2
        <4>4. QED
            BY <4>2, <4>3 DEF Keeps
      <3>6. QED
          BY <1>5, <3>1, <3>2, <3>3, <3>4, <3>5
    <2>3. QED
        BY <1>0, <2>1, <2>2, ApartFrame DEF Exists
  <1>6. ASSUME NEW c \in Calls, StoreToken(c) PROVE ApartInv'
    <2>1. row'.auth = row.auth /\ row'.authStale = row.authStale /\ row'.status = row.status
        BY <1>0, <1>6 DEF StoreToken, Row
    <2>2. \A d \in Calls : Keeps(calls[d], calls'[d])
        BY <1>0, <1>6 DEF StoreToken, Keeps, Call
    <2>3. QED
        BY <1>0, <2>1, <2>2, ApartFrame DEF Exists
  <1>7. ASSUME NEW c \in Calls, Finish(c) \/ FinishSave(c) \/ FinishRemove(c) \/ FinishSignIn(c)
               \/ Release(c) \/ EndLetGo(c) \/ EndRecord(c)
        PROVE  ApartInv'
    <2>1. \/ row'.auth = None
          \/ /\ Exists' => Exists
             /\ row'.auth = row.auth /\ row'.authStale = row.authStale
             /\ row'.status = "none" => row.status = "none"
        BY <1>0, <1>7 DEF Finish, FinishSave, FinishRemove, FinishSignIn, Release, EndLetGo, EndRecord,
           Released, OwnsCfg, OwnsAuth, Exists, Present, Row
    <2>2. \A d \in Calls : Keeps(calls[d], calls'[d])
      <3>1. CASE EndRecord(c)
          BY <1>0, <3>1 DEF EndRecord, Keeps, Call
      <3>2. CASE ~EndRecord(c)
          BY <1>0, <1>7, <1>b, <3>2 DEF Finish, FinishSave, FinishRemove, FinishSignIn, Release, EndLetGo, Keeps, Idle
      <3>3. QED
          BY <3>1, <3>2
    <2>3. QED
        BY <1>0, <2>1, <2>2, ApartFrame
  <1>8. CASE RecordUnitFailure \/ CfgLeaseExpires
    <2>1. /\ row'.auth = row.auth /\ row'.authStale = row.authStale /\ UNCHANGED calls
          /\ Exists' => Exists
          /\ row'.status = "none" => row.status = "none"
        BY <1>0, <1>8 DEF RecordUnitFailure, CfgLeaseExpires, Exists, Present, Row
    <2>2. QED
        BY <1>0, <2>1, ApartFrame DEF Keeps
  <1>9. CASE (\E l \in late : Lands(l)) \/ ReconcileRead \/ HostMoves \/ ServerCrash \/ UNCHANGED vars
    <2>1. UNCHANGED row /\ \A d \in Calls : Keeps(calls[d], calls'[d])
        BY <1>9 DEF Lands, ReconcileRead, HostMoves, ServerCrash, vars, Keeps, Idle
    <2>2. QED
        BY <1>0, <2>1, ApartFrame DEF Exists
  <1>10. QED
      BY <1>1, <1>2, <1>3, <1>4, <1>5, <1>6, <1>7, <1>8, <1>9 DEF Next, CallStep

\* A change at work holds the claim, and there is one claim.
LEMMA HoldIsExclusive == HoldInv => ChangesAreExclusive /\ NothingLateUnderAChange
  <1> SUFFICES ASSUME HoldInv PROVE ChangesAreExclusive /\ NothingLateUnderAChange
      OBVIOUS
  <1>1. \A c \in Calls : Working(c) /\ calls[c].op \in Change =>
                            calls[c].pc = "work" /\ calls[c].claim # None /\ row.cfg = calls[c].claim
      BY DEF HoldInv, ShapeInv, CallsInv, WellFormed, ChangesHold, Working, Change, Lifecycle
  <1>2. ChangesAreExclusive
      BY <1>1 DEF HoldInv, ShapeInv, CallsInv, ChangesAreExclusive
  <1>3. NothingLateUnderAChange
      BY <1>1 DEF HoldInv, LateHold, NothingLateUnderAChange
  <1>4. QED
      BY <1>2, <1>3

\* As long as no call outlasts its lease, at most one change is at work on a bot's host; nothing an
\* earlier change left behind can touch the bot under a later one, for claimedExec keeps the claim
\* of a call whose command may still run; and no start, stop or removal is at work beside a sign-in
\* that has its claim.
THEOREM OneChangeWorks == ASSUME ~Stalls PROVE Spec => []OneChangeAtATime
  <1>1. Init => HoldInv /\ ApartInv
    <2>1. Init => HoldInv
        BY HoldInit
    <2>2. Init => ApartInv
        BY DEF Init, ApartInv, SignInsHold, SignInsAreApart, Working, Idle
    <2>3. QED
        BY <2>1, <2>2
  <1>2. HoldInv /\ ApartInv /\ [Next]_vars => HoldInv' /\ ApartInv'
      BY HoldStep, ApartStep
  <1>3. HoldInv /\ ApartInv => OneChangeAtATime
      BY HoldIsExclusive DEF HoldInv, ShapeInv, ApartInv, OneChangeAtATime
  <1>4. QED
      BY <1>1, <1>2, <1>3, PTL DEF Spec

-----------------------------------------------------------------------------
\* How far a start or a restart is in the program they share.
Done(r) == IF r.op = "restart" THEN r.at - 1 ELSE r.at
Starts(r) == r.pc = "work" /\ r.op \in {"start", "restart"}

\* A start works with the settings saved last; once it is past a step of its program, the host, or
\* the row, holds what that step wrote; and a bot it brought up runs on that.
StartProgress ==
    \A c \in Calls : Starts(calls[c]) =>
        /\ calls[c].doc = row.doc
        /\ Done(calls[c]) <= 1 => ~calls[c].wrote
        /\ Done(calls[c]) > 1 /\ calls[c].wrote => host.env = calls[c].claim
        /\ Done(calls[c]) > 2 /\ calls[c].wrote => row.token = calls[c].claim
        /\ Done(calls[c]) > 3 => host.doc = row.doc
        /\ host.by = calls[c].claim =>
             /\ Done(calls[c]) > 4 /\ host.botDoc = row.doc
             /\ calls[c].wrote => host.botEnv = row.token

\* Nothing of the bot is on its host.
Bare == ~host.laid /\ ~host.up /\ ~host.signIn

\* A removal whose last command is done has left nothing on the host, and nothing comes back.
Removes(r) == r.pc = "work" /\ r.op = "remove" /\ r.at > 2
RemovalProgress ==
    /\ \A c \in Calls : Removes(calls[c]) => Bare
    /\ row.status = "removed" => Bare

\* What a sign-in left behind is one of its own commands.
SignInCommand == {"down", "authDown", "authUp", "poll"}
LateAreSignIns == \A l \in late : l.op \notin Change => l.cmd \in SignInCommand

WorkInv == StartProgress /\ RemovalProgress /\ LateAreSignIns

\* What a sign-in, the end of one and the host itself may do under a change.
Aside ==
    /\ host'.env = host.env /\ host'.doc = host.doc
    /\ \/ host'.by = None
       \/ host'.by = host.by /\ host'.botDoc = host.botDoc /\ host'.botEnv = host.botEnv
    /\ Bare => Bare'

\* A sign-in's commands leave the bot's files and a removed bot alone.
LEMMA SignInIsAside ==
    ASSUME host \in Host, NEW cmd \in SignInCommand, NEW claim, NEW doc, CanRun(cmd),
           host' = Effect(cmd, claim, doc)
    PROVE  Aside
  BY DEF SignInCommand, CanRun, Effect, Host, Aside, Bare

LEMMA SignInSteps ==
    ASSUME CallsInv, NEW c \in Calls, calls[c].pc = "work", ~AtEnd(c), calls[c].op = "signin"
    PROVE  Step(c) \in SignInCommand
  <1>1. calls[c].at \in 1..4
      BY Programs DEF CallsInv, WellFormed, AtEnd
  <1>2. QED
      BY <1>1, Programs DEF Step, SignInCommand

\* Steps aside of the change at work: the row keeps its settings and its token, no start or
\* removal moves, and whatever is left behind comes of a sign-in.
LEMMA WorkFrame ==
    ASSUME WorkInv, Aside \/ UNCHANGED host, row'.doc = row.doc, row'.token = row.token,
           row'.status = "removed" => row.status = "removed", LateAreSignIns',
           \A c \in Calls : \/ calls'[c] = calls[c]
                            \/ ~Starts(calls'[c]) /\ ~Removes(calls'[c]),
           \A c \in Calls : Starts(calls[c]) => calls[c].claim # None
    PROVE  WorkInv'
  <1>1. \A c \in Calls : Starts(calls'[c]) => Starts(calls[c]) /\ calls'[c] = calls[c]
      OBVIOUS
  <1>2. \A c \in Calls : Removes(calls'[c]) => Removes(calls[c])
      OBVIOUS
  <1>3. StartProgress'
      BY <1>1 DEF WorkInv, StartProgress, Aside
  <1>4. RemovalProgress'
      BY <1>2 DEF WorkInv, RemovalProgress, Aside, Bare
  <1>5. QED
      BY <1>3, <1>4 DEF WorkInv

\* What a start is at.
LEMMA StartSteps ==
    ASSUME CallsInv, NEW c \in Calls, Starts(calls[c]), ~AtEnd(c)
    PROVE  /\ Done(calls[c]) \in 0..4
           /\ Done(calls[c]) = 0 => Step(c) = "down"
           /\ Done(calls[c]) = 1 => Step(c) = "env"
           /\ Done(calls[c]) = 2 => Step(c) = "token"
           /\ Done(calls[c]) = 3 => Step(c) = "doc"
           /\ Done(calls[c]) = 4 => Step(c) = "up"
  <1>1. CASE calls[c].op = "start"
    <2>1. calls[c].at \in 1..4
        BY <1>1, Programs DEF Starts, CallsInv, WellFormed, AtEnd
    <2>2. QED
        BY <1>1, <2>1, Programs DEF Done, Step
  <1>2. CASE calls[c].op = "restart"
    <2>1. calls[c].at \in 1..5
        BY <1>2, Programs DEF Starts, CallsInv, WellFormed, AtEnd
    <2>2. QED
        BY <1>2, <2>1, Programs DEF Done, Step
  <1>3. QED
      BY <1>1, <1>2 DEF Starts

\* Steps after which no start or removal is at work.
LEMMA WorkVacuous ==
    ASSUME \A c \in Calls : ~Starts(calls'[c]) /\ ~Removes(calls'[c]),
           row'.status = "removed" => Bare', LateAreSignIns'
    PROVE  WorkInv'
  BY DEF WorkInv, StartProgress, RemovalProgress

LEMMA WorkInit == Init => WorkInv
  BY DEF Init, WorkInv, StartProgress, RemovalProgress, LateAreSignIns, Starts, Removes, Idle

\* A start goes on with the next step of its program.
LEMMA StartGoesOn ==
    ASSUME HoldInv, WorkInv, NEW c \in Calls, Starts(calls[c]), Exec(c)
    PROVE  LET r == calls'[c] IN
             /\ r.doc = row.doc
             /\ Done(r) <= 1 => ~r.wrote
             /\ Done(r) > 1 /\ r.wrote => host'.env = r.claim
             /\ Done(r) > 2 /\ r.wrote => row.token = r.claim
             /\ Done(r) > 3 => host'.doc = row.doc
             /\ host'.by = r.claim =>
                  /\ Done(r) > 4 /\ host'.botDoc = row.doc
                  /\ r.wrote => host'.botEnv = row.token
  <1> DEFINE n == Done(calls[c])
             w == IF Step(c) = "env" THEN ~host.up ELSE calls[c].wrote
             r == [calls[c] EXCEPT !.at = calls[c].at + 1, !.wrote = w]
  <1>0. /\ CallsInv /\ host \in Host /\ calls \in [Calls -> Call] /\ calls[c] \in Call
        /\ calls[c].claim \in Ids /\ calls[c].at \in Nat
      BY DEF HoldInv, ShapeInv, TypeOK, CallsInv, WellFormed, Starts, Call
  <1>1. /\ ~AtEnd(c) /\ Step(c) # "token" /\ calls' = [calls EXCEPT ![c] = r]
        /\ \/ CanRun(Step(c)) /\ host' = Effect(Step(c), calls[c].claim, calls[c].doc)
           \/ BestEffort(calls[c].op, Step(c)) /\ UNCHANGED host
      BY <1>0 DEF Exec
  <1>2. /\ n \in {0, 1, 3, 4}
        /\ n = 0 => Step(c) = "down"
        /\ n = 1 => Step(c) = "env"
        /\ n = 3 => Step(c) = "doc"
        /\ n = 4 => Step(c) = "up"
      BY <1>0, <1>1, StartSteps
  <1>3. host' = Effect(Step(c), calls[c].claim, calls[c].doc)
      BY <1>1, <1>2 DEF BestEffort, Starts
  <1>4. calls'[c] = r /\ r.claim = calls[c].claim /\ r.doc = calls[c].doc
      BY <1>0, <1>1 DEF Call
  <1>5. Done(r) = n + 1
      BY <1>0 DEF Done, Call
  <1>6. /\ calls[c].doc = row.doc
        /\ n <= 1 => ~calls[c].wrote
        /\ n > 1 /\ calls[c].wrote => host.env = calls[c].claim
        /\ n > 2 /\ calls[c].wrote => row.token = calls[c].claim
        /\ n > 3 => host.doc = row.doc
        /\ host.by = calls[c].claim => n > 4
      BY DEF WorkInv, StartProgress
  <1>7. r.wrote = w
      BY <1>0 DEF Call
  <1> HIDE DEF n, r
  <1>8. CASE n = 0
      BY <1>0, <1>2, <1>3, <1>4, <1>5, <1>6, <1>7, <1>8 DEF Effect, Host
  <1>9. CASE n = 1
    <2>1. r.wrote => ~host.up
        BY <1>2, <1>7, <1>9
    <2>2. /\ host'.by = host.by
          /\ ~host.up => host'.env = calls[c].claim
        BY <1>0, <1>2, <1>3, <1>9 DEF Effect, Host
    <2>3. QED
        BY <1>4, <1>5, <1>6, <1>9, <2>1, <2>2
  <1>10. CASE n = 3
      BY <1>0, <1>2, <1>3, <1>4, <1>5, <1>6, <1>7, <1>10 DEF Effect, Host
  <1>11. CASE n = 4
      BY <1>0, <1>2, <1>3, <1>4, <1>5, <1>6, <1>7, <1>11 DEF Effect, Host
  <1>12. QED
      BY <1>2, <1>8, <1>9, <1>10, <1>11

\* Only a start stores a token, when it is past its second step.
LEMMA TokenSteps ==
    ASSUME CallsInv, NEW c \in Calls, calls[c].pc = "work", ~AtEnd(c), Step(c) = "token"
    PROVE  Starts(calls[c]) /\ Done(calls[c]) = 2
  <1>0. calls[c].op \in DOMAIN Program /\ calls[c].at \in 1..(Len(Program[calls[c].op]) + 1)
      BY DEF CallsInv, WellFormed
  <1>1. calls[c].op \in {"create", "start", "restart", "stop", "save", "remove", "signin"}
      BY <1>0, Programs DEF Change, Lifecycle
  <1>2. CASE calls[c].op \in {"create", "stop", "save"}
      BY <1>0, <1>2, Programs DEF Step, AtEnd
  <1>3. CASE calls[c].op \in {"remove", "signin"}
      BY <1>0, <1>3, Programs DEF Step, AtEnd
  <1>4. CASE calls[c].op \in {"start", "restart"}
      BY <1>4, StartSteps DEF Starts
  <1>5. QED
      BY <1>1, <1>2, <1>3, <1>4

LEMMA WorkStep == ASSUME ~Stalls PROVE HoldInv /\ WorkInv /\ [Next]_vars => WorkInv'
  <1> SUFFICES ASSUME HoldInv, WorkInv, [Next]_vars PROVE WorkInv'
      OBVIOUS
  <1>0. /\ CallsInv /\ CallsInv' /\ row \in Row /\ host \in Host /\ calls \in [Calls -> Call]
        /\ \A c \in Calls : WellFormed(calls[c]) /\ calls[c] \in Call
        /\ \A c \in Calls : Starts(calls[c]) => calls[c].claim # None
        /\ LateAreSignIns
      BY ShapeStep DEF HoldInv, ShapeInv, TypeOK, CallsInv, WellFormed, WorkInv, Starts
  <1>a. ~Starts(Idle) /\ ~Removes(Idle)
      BY DEF Starts, Removes, Idle
  \* A change at work is the only one, and its bot exists.
  <1>b. ASSUME NEW c \in Calls, calls[c].pc = "work", calls[c].op \in Change
        PROVE  /\ \A d \in Calls : d # c => ~Starts(calls[d]) /\ ~Removes(calls[d])
               /\ row.status # "removed"
    <2>1. \A d \in Calls : Working(d) /\ calls[d].op \in Change => d = c
        BY <1>b, HoldIsExclusive DEF ChangesAreExclusive, Working
    <2>2. row.status # "removed"
        BY <1>b DEF HoldInv, ChangesHold, Exists, Present
    <2>3. QED
        BY <2>1, <2>2 DEF Starts, Removes, Working, Change, Lifecycle
  \* Without a claim none is at work.
  <1>c. ~Exists \/ CfgFree => \A c \in Calls : ~Starts(calls[c]) /\ ~Removes(calls[c])
      BY FreeIsUnheld DEF Starts, Removes, Change, Lifecycle
  \* A step aside that moves one call.
  <1>d. ASSUME NEW c \in Calls, NEW r, calls' = [calls EXCEPT ![c] = r], ~Starts(r), ~Removes(r),
               Aside \/ UNCHANGED host, row'.doc = row.doc, row'.token = row.token,
               row'.status = "removed" => row.status = "removed", LateAreSignIns'
        PROVE  WorkInv'
    <2>1. \A d \in Calls : \/ calls'[d] = calls[d]
                           \/ ~Starts(calls'[d]) /\ ~Removes(calls'[d])
      <3>1. \A d \in Calls : calls'[d] = IF d = c THEN r ELSE calls[d]
          BY <1>0, <1>d
      <3>2. QED
          BY <1>d, <3>1
    <2>2. QED
        BY <1>0, <1>d, <2>1, WorkFrame
  <1>e. ASSUME UNCHANGED late PROVE LateAreSignIns'
      BY <1>0, <1>e DEF LateAreSignIns
  \* The change at work ends, or fails.
  <1>f. ASSUME NEW c \in Calls, NEW r, calls' = [calls EXCEPT ![c] = r], ~Starts(r), ~Removes(r),
               calls[c].pc = "work", calls[c].op \in Change,
               row'.status = "removed" => Bare', LateAreSignIns'
        PROVE  WorkInv'
    <2>1. \A d \in Calls : ~Starts(calls'[d]) /\ ~Removes(calls'[d])
        BY <1>0, <1>b, <1>f
    <2>2. QED
        BY <1>f, <2>1, WorkVacuous
  <1>g. ASSUME NEW c \in Calls, NEW pc \in {"cleanup", "release", "record", "letgo"}
        PROVE  /\ ~Starts([calls[c] EXCEPT !.pc = pc]) /\ ~Removes([calls[c] EXCEPT !.pc = pc])
               /\ ~Starts([calls[c] EXCEPT !.pc = pc, !.keep = TRUE])
               /\ ~Removes([calls[c] EXCEPT !.pc = pc, !.keep = TRUE])
      BY <1>0 DEF Starts, Removes, Call
  <1>h. \A c \in Calls : calls[c].pc = "work" /\ calls[c].op \notin Change => calls[c].op = "signin"
      BY <1>0, Programs DEF WellFormed
  <1>i. \A c \in Calls : Failing(c) \in {"cleanup", "release"}
      BY DEF Failing
  <1>1. ASSUME NEW c \in Calls, Create(c) PROVE WorkInv'
    <2> DEFINE r == [Idle EXCEPT !.op = "create", !.pc = "work", !.at = 1,
                                 !.claim = lastId + 1, !.doc = lastId + 1]
    <2>1. ~Exists /\ calls' = [calls EXCEPT ![c] = r] /\ row'.status # "removed" /\ UNCHANGED late
        BY <1>0, <1>1 DEF Create, Exists, Present, Row
    <2>2. ~Starts(r) /\ ~Removes(r)
        BY DEF Starts, Removes, Idle
    <2>3. \A d \in Calls : ~Starts(calls'[d]) /\ ~Removes(calls'[d])
        BY <1>0, <1>c, <2>1, <2>2
    <2>4. QED
        BY <1>e, <2>1, <2>3, WorkVacuous
  <1>2. ASSUME NEW c \in Calls, SignIn(c) PROVE WorkInv'
    <2> DEFINE r == [Idle EXCEPT !.op = "signin", !.pc = "work", !.at = 1, !.claim = lastId + 1]
    <2>1. ~Starts(r) /\ ~Removes(r)
        BY DEF Starts, Removes, Idle
    <2>2. row'.doc = row.doc /\ row'.token = row.token /\ row'.status = row.status
        BY <1>0, <1>2 DEF SignIn, Row
    <2>3. QED
        BY <1>2, <1>d, <1>e, <2>1, <2>2 DEF SignIn
  <1>3. ASSUME NEW c \in Calls, NEW op \in Wanted, Begin(c, op) \/ EndRead(c, op) PROVE WorkInv'
    <2> DEFINE found == [Idle EXCEPT !.op = op, !.pc = "found",
                                     !.read = IF op = "save" THEN row.doc ELSE None]
               probe == [Idle EXCEPT !.op = op, !.pc = "probe", !.read = row.auth,
                                     !.saw = IF op = "complete" THEN row.status ELSE "none"]
    <2>1. ~Starts(found) /\ ~Removes(found) /\ ~Starts(probe) /\ ~Removes(probe)
        BY DEF Idle, Starts, Removes
    <2>2. /\ calls' = [calls EXCEPT ![c] = found] \/ calls' = [calls EXCEPT ![c] = probe]
          /\ UNCHANGED <<row, host, late>>
        BY <1>3 DEF Begin, EndRead
    <2>3. QED
        BY <1>d, <1>e, <2>1, <2>2
  <1>4. ASSUME NEW c \in Calls, Claim(c) PROVE WorkInv'
    <2> DEFINE doc == IF calls[c].op = "save" THEN lastId + 1 ELSE row.doc
               r == [calls[c] EXCEPT !.pc = "work", !.at = 1, !.claim = lastId + 1, !.doc = doc]
    <2>1. /\ CfgFree /\ Exists /\ calls' = [calls EXCEPT ![c] = r] /\ UNCHANGED <<host, late>>
          /\ calls[c].pc = "found"
        BY <1>4 DEF Claim, Claimable
    <2>2. r.op = calls[c].op /\ r.at = 1 /\ r.claim = lastId + 1 /\ r.doc = doc
        BY <1>0 DEF Call
    <2>3. r.wrote = calls[c].wrote /\ ~calls[c].wrote
        BY <1>0, <2>1 DEF Call, WellFormed
    <2>4. row'.doc = row.doc /\ row'.status # "removed"
        BY <1>0, <1>4, <2>1 DEF Claim, Row, Exists, Present
    <2>5. \A d \in Calls : d # c => ~Starts(calls'[d]) /\ ~Removes(calls'[d])
        BY <1>0, <1>c, <2>1
    <2>6. host.by # lastId + 1
        BY DEF HoldInv, ShapeInv, TypeOK, IdsHandedOut, Host, Ids
    <2>7. calls'[c] = r
        BY <1>0, <2>1
    <2> HIDE DEF r
    <2>8. Starts(r) => r.doc = row.doc /\ Done(r) \in 0..1
        BY <2>2 DEF Starts, Done
    <2>9. StartProgress'
        BY <2>1, <2>2, <2>3, <2>4, <2>5, <2>6, <2>7, <2>8 DEF StartProgress
    <2>10. RemovalProgress'
        BY <2>2, <2>4, <2>5, <2>7 DEF RemovalProgress, Removes
    <2>11. QED
        BY <1>e, <2>1, <2>9, <2>10 DEF WorkInv
  <1>5. ASSUME NEW c \in Calls, Refused(c) \/ EndNotYet(c) PROVE WorkInv'
      BY <1>5, <1>a, <1>d, <1>e DEF Refused, EndNotYet
  <1>6. ASSUME NEW c \in Calls, Exec(c) PROVE WorkInv'
    <2> DEFINE w == IF Step(c) = "env" THEN ~host.up ELSE calls[c].wrote
               r == [calls[c] EXCEPT !.at = calls[c].at + 1, !.wrote = w]
    <2>0. /\ calls' = [calls EXCEPT ![c] = r] /\ UNCHANGED <<row, late>> /\ calls[c].pc = "work"
          /\ ~AtEnd(c)
          /\ \/ CanRun(Step(c)) /\ host' = Effect(Step(c), calls[c].claim, calls[c].doc)
             \/ BestEffort(calls[c].op, Step(c)) /\ UNCHANGED host
        BY <1>0, <1>6 DEF Exec
    <2>1. /\ r.op = calls[c].op /\ r.pc = "work" /\ r.at = calls[c].at + 1
          /\ calls'[c] = r
        BY <1>0, <2>0 DEF Call
    <2> HIDE DEF r
    <2>2. CASE calls[c].op \notin Change
      <3>1. calls[c].op = "signin"
          BY <1>h, <2>0, <2>2
      <3>2. Step(c) \in SignInCommand
          BY <1>0, <2>0, <3>1, SignInSteps
      <3>3. Aside \/ UNCHANGED host
          BY <1>0, <2>0, <3>2, SignInIsAside
      <3>4. ~Starts(r) /\ ~Removes(r)
          BY <2>1, <3>1 DEF Starts, Removes
      <3>5. QED
          BY <1>d, <1>e, <2>0, <3>3, <3>4
    <2>3. CASE calls[c].op \in Change
      <3>1. \A d \in Calls : d # c => ~Starts(calls'[d]) /\ ~Removes(calls'[d])
          BY <1>0, <1>b, <2>0, <2>3
      <3>2. row'.status # "removed"
          BY <1>b, <2>0, <2>3
      <3>3. StartProgress'
        <4>1. ASSUME Starts(calls'[c]) PROVE Starts(calls[c])
            BY <2>0, <2>1, <4>1 DEF Starts
        <4>2. QED
            BY <1>6, <2>0, <3>1, <4>1, StartGoesOn DEF StartProgress
      <3>4. ASSUME Removes(calls'[c]) PROVE Bare'
        <4>1. calls[c].op = "remove" /\ calls[c].at = 2
          <5>1. calls[c].op = "remove" /\ calls[c].at + 1 > 2
              BY <2>1, <3>4 DEF Removes
          <5>2. calls[c].at \in 1..3
            <6>1. Len(Program["remove"]) = 2
                BY Programs
            <6>2. calls[c].at \in 1..(Len(Program[calls[c].op]) + 1)
                BY <1>0, <2>0 DEF WellFormed
            <6>3. QED
                BY <5>1, <6>1, <6>2
          <5>3. calls[c].at <= 2
              BY <2>0, <5>1, <5>2, Programs DEF AtEnd
          <5>4. QED
              BY <5>1, <5>2, <5>3
        <4>2. Step(c) = "wipe"
            BY <4>1, Programs DEF Step
        <4>3. QED
            BY <1>0, <2>0, <4>1, <4>2 DEF BestEffort, CanRun, Effect, Host, Bare
      <3>5. RemovalProgress'
          BY <3>1, <3>2, <3>4 DEF RemovalProgress
      <3>6. QED
          BY <1>e, <2>0, <3>3, <3>5 DEF WorkInv
    <2>4. QED
        BY <2>2, <2>3
  <1>7. ASSUME NEW c \in Calls, ExecFails(c) PROVE WorkInv'
    <2> DEFINE r == [calls[c] EXCEPT !.pc = Failing(c)]
    <2>1. /\ calls' = [calls EXCEPT ![c] = r] /\ UNCHANGED <<row, late>> /\ calls[c].pc = "work"
          /\ ~AtEnd(c)
          /\ \/ CanRun(Step(c)) /\ host' = Effect(Step(c), calls[c].claim, calls[c].doc)
             \/ UNCHANGED host
        BY <1>0, <1>7 DEF ExecFails
    <2>2. ~Starts(r) /\ ~Removes(r)
        BY <1>g, <1>i
    <2>3. CASE calls[c].op \notin Change
      <3>1. Step(c) \in SignInCommand
          BY <1>0, <1>h, <2>1, <2>3, SignInSteps
      <3>2. Aside \/ UNCHANGED host
          BY <1>0, <2>1, <3>1, SignInIsAside
      <3>3. QED
          BY <1>d, <1>e, <2>1, <2>2, <3>2
    <2>4. CASE calls[c].op \in Change
        BY <1>b, <1>e, <1>f, <2>1, <2>2, <2>4
    <2>5. QED
        BY <2>3, <2>4
  <1>8. ASSUME NEW c \in Calls, FinishFails(c) \/ NoDeviceCode(c) PROVE WorkInv'
    <2>1. PICK pc \in {"cleanup", "release"} :
             /\ calls' = [calls EXCEPT ![c] = [calls[c] EXCEPT !.pc = pc]]
             /\ UNCHANGED <<row, host, late>>
        BY <1>0, <1>8 DEF FinishFails, NoDeviceCode
    <2>2. QED
        BY <1>d, <1>e, <1>g, <2>1
  <1>9. ASSUME NEW c \in Calls, TimesOut(c) PROVE WorkInv'
    <2>1. /\ calls' = [calls EXCEPT ![c] = [calls[c] EXCEPT !.pc = Failing(c), !.keep = TRUE]]
          /\ late' = late \cup {LeftBehind(c, Step(c))} /\ calls[c].pc = "work" /\ ~AtEnd(c)
          /\ UNCHANGED <<row, host>>
        BY <1>0, <1>9 DEF TimesOut
    <2>2. LateAreSignIns'
      <3>1. calls[c].op \notin Change => Step(c) \in SignInCommand
          BY <1>0, <1>h, <2>1, SignInSteps
      <3>2. QED
          BY <1>0, <2>1, <3>1 DEF LateAreSignIns, LeftBehind
    <2>3. QED
        BY <1>d, <1>g, <1>i, <2>1, <2>2
  <1>10. ASSUME NEW c \in Calls, Cleanup(c) PROVE WorkInv'
    <2>1. CASE /\ calls' = [calls EXCEPT ![c].pc = "release"] /\ UNCHANGED late
               /\ host' \in {host, Effect("authDown", calls[c].claim, None)}
      <3>1. calls' = [calls EXCEPT ![c] = [calls[c] EXCEPT !.pc = "release"]]
          BY <1>0, <2>1
      <3>2. Aside \/ UNCHANGED host
        <4>1. CanRun("authDown") /\ "authDown" \in SignInCommand
            BY DEF CanRun, SignInCommand
        <4>2. QED
            BY <1>0, <2>1, <4>1, SignInIsAside
      <3>3. UNCHANGED row
          BY <1>10 DEF Cleanup
      <3>4. QED
          BY <1>d, <1>e, <1>g, <2>1, <3>1, <3>2, <3>3
    <2>2. CASE /\ late' = late \cup {LeftBehind(c, "authDown")} /\ UNCHANGED host
               /\ calls' = [calls EXCEPT ![c].pc = "release", ![c].keep = TRUE]
      <3>1. calls' = [calls EXCEPT ![c] = [calls[c] EXCEPT !.pc = "release", !.keep = TRUE]]
          BY <1>0, <2>2
      <3>2. LateAreSignIns'
          BY <1>0, <2>2 DEF LateAreSignIns, LeftBehind, SignInCommand
      <3>3. UNCHANGED row
          BY <1>10 DEF Cleanup
      <3>4. QED
          BY <1>d, <1>g, <2>2, <3>1, <3>2, <3>3
    <2>3. QED
        BY <1>10, <2>1, <2>2 DEF Cleanup
  <1>11. ASSUME NEW c \in Calls, StoreToken(c) PROVE WorkInv'
    <2> DEFINE r == [calls[c] EXCEPT !.at = calls[c].at + 1]
    <2>1. /\ calls' = [calls EXCEPT ![c] = r] /\ UNCHANGED <<host, late>> /\ calls[c].pc = "work"
          /\ ~AtEnd(c) /\ Step(c) = "token"
        BY <1>0, <1>11 DEF StoreToken
    <2>2. Starts(calls[c]) /\ Done(calls[c]) = 2
        BY <1>0, <2>1, TokenSteps
    <2>3. /\ r.op = calls[c].op /\ r.at = calls[c].at + 1 /\ r.claim = calls[c].claim
          /\ r.doc = calls[c].doc /\ r.pc = calls[c].pc /\ calls'[c] = r /\ calls[c].at \in Nat
        BY <1>0, <2>1 DEF Call
    <2>4. r.wrote = calls[c].wrote
        BY <1>0 DEF Call
    <2> HIDE DEF r
    <2>5. Done(r) = 3
        BY <2>2, <2>3 DEF Done
    <2>6. /\ row'.doc = row.doc /\ row'.status = row.status
          /\ calls[c].wrote => row'.token = calls[c].claim
        BY <1>0, <1>11 DEF StoreToken, Row
    <2>7. calls[c].op \in Change
        BY <2>2 DEF Starts, Change, Lifecycle
    <2>8. /\ \A d \in Calls : d # c => ~Starts(calls'[d]) /\ ~Removes(calls'[d])
          /\ row'.status # "removed" /\ ~Removes(r)
        BY <1>0, <1>b, <2>1, <2>2, <2>3, <2>6, <2>7 DEF Starts, Removes
    <2>9. /\ calls[c].doc = row.doc /\ (calls[c].wrote => host.env = calls[c].claim)
          /\ host.by # calls[c].claim
        BY <2>2 DEF WorkInv, StartProgress
    <2>10. StartProgress'
        BY <2>1, <2>3, <2>4, <2>5, <2>6, <2>8, <2>9 DEF StartProgress
    <2>11. RemovalProgress'
        BY <2>3, <2>8 DEF RemovalProgress
    <2>12. QED
        BY <1>e, <2>1, <2>10, <2>11 DEF WorkInv
  <1>12. ASSUME NEW c \in Calls, Finish(c) \/ FinishSave(c) PROVE WorkInv'
    <2>1. /\ calls[c].op \in Change /\ calls[c].pc = "work" /\ UNCHANGED late
          /\ calls' = [calls EXCEPT ![c] = Idle]
        BY <1>12 DEF Finish, FinishSave, Change, Lifecycle
    <2>2. row'.status # "removed"
        BY <1>0, <1>12 DEF Finish, FinishSave, Released, OwnsCfg, Exists, Present, Row
    <2>3. QED
        BY <1>a, <1>e, <1>f, <2>1, <2>2
  <1>13. ASSUME NEW c \in Calls, FinishRemove(c) PROVE WorkInv'
    <2>1. /\ calls[c].op = "remove" /\ calls[c].pc = "work" /\ UNCHANGED <<host, late>>
          /\ calls' = [calls EXCEPT ![c] = Idle] /\ AtEnd(c)
        BY <1>13 DEF FinishRemove
    <2>2. Removes(calls[c])
      <3>1. Len(Program["remove"]) = 2
          BY Programs
      <3>2. QED
          BY <2>1, <3>1 DEF AtEnd, Removes
    <2>3. Bare'
        BY <2>1, <2>2 DEF WorkInv, RemovalProgress, Bare
    <2>4. calls[c].op \in Change
        BY <2>1 DEF Change, Lifecycle
    <2>5. QED
        BY <1>a, <1>e, <1>f, <2>1, <2>3, <2>4
  <1>14. ASSUME NEW c \in Calls, Release(c) \/ FinishSignIn(c) \/ EndLetGo(c) PROVE WorkInv'
    <2>1. /\ row'.doc = row.doc /\ row'.token = row.token
          /\ row'.status = "removed" => row.status = "removed"
        BY <1>0, <1>14 DEF Release, Released, FinishSignIn, EndLetGo, Row
    <2>2. QED
        BY <1>14, <1>a, <1>d, <1>e, <2>1 DEF Release, FinishSignIn, EndLetGo
  <1>15. ASSUME NEW c \in Calls, EndSession(c) \/ EndRecord(c) PROVE WorkInv'
    <2>1. /\ row'.doc = row.doc /\ row'.token = row.token
          /\ row'.status = "removed" => row.status = "removed"
        BY <1>0, <1>15 DEF EndSession, EndRecord, Row
    <2>2. PICK pc \in {"record", "letgo"} : calls' = [calls EXCEPT ![c] = [calls[c] EXCEPT !.pc = pc]]
        BY <1>0, <1>15 DEF EndSession, EndRecord
    <2>3. Aside \/ UNCHANGED host
        BY <1>0, <1>15 DEF EndSession, EndRecord, Aside, Bare, Host
    <2>4. UNCHANGED late
        BY <1>15 DEF EndSession, EndRecord
    <2>5. QED
        BY <1>d, <1>e, <1>g, <2>1, <2>2, <2>3, <2>4
  <1>j. ASSUME UNCHANGED <<calls, late>>, Aside \/ UNCHANGED host, row'.doc = row.doc,
               row'.token = row.token, row'.status = "removed" => row.status = "removed"
        PROVE  WorkInv'
      BY <1>0, <1>e, <1>j, WorkFrame
  <1>16. ASSUME NEW l \in late, Lands(l) PROVE WorkInv'
    <2>1. /\ UNCHANGED <<row, calls>> /\ late' \subseteq late
          /\ \/ CanRun(l.cmd) /\ host' = Effect(l.cmd, l.claim, l.doc)
             \/ UNCHANGED host
        BY <1>16 DEF Lands
    <2>2. LateAreSignIns'
        BY <1>0, <2>1 DEF LateAreSignIns
    <2>3. CASE l.op \in Change
      <3>1. row.status # "removed" /\ row.cfg = l.claim
          BY <2>3 DEF HoldInv, LateHold, Exists, Present
      <3>2. \A c \in Calls : ~Starts(calls[c]) /\ ~Removes(calls[c])
          BY <3>1 DEF HoldInv, ChangesHold, LateIsKept, Starts, Removes, Change, Lifecycle
      <3>3. QED
          BY <2>1, <2>2, <3>1, <3>2, WorkVacuous
    <2>4. CASE l.op \notin Change
      <3>1. Aside \/ UNCHANGED host
          BY <1>0, <2>1, <2>4, SignInIsAside DEF LateAreSignIns
      <3>2. QED
          BY <1>0, <2>1, <2>2, <3>1, WorkFrame
    <2>5. QED
        BY <2>3, <2>4
  <1>17. ASSUME HostMoves PROVE WorkInv'
    <2>1. Aside
        BY <1>0, <1>17 DEF HostMoves, Aside, Bare, Host
    <2>2. QED
        BY <1>17, <1>j, <2>1 DEF HostMoves
  <1>18. ASSUME ReconcileRead \/ UNCHANGED vars PROVE WorkInv'
      BY <1>18, <1>j DEF ReconcileRead, vars
  <1>19. ASSUME RecordUnitFailure \/ CfgLeaseExpires \/ AuthLeaseExpires PROVE WorkInv'
    <2>1. /\ row'.doc = row.doc /\ row'.token = row.token
          /\ row'.status = "removed" => row.status = "removed"
        BY <1>0, <1>19 DEF RecordUnitFailure, CfgLeaseExpires, AuthLeaseExpires, Row
    <2>2. QED
        BY <1>19, <1>j, <2>1 DEF RecordUnitFailure, CfgLeaseExpires, AuthLeaseExpires
  <1>20. ASSUME ServerCrash PROVE WorkInv'
    <2>1. UNCHANGED <<row, host>> /\ \A c \in Calls : calls'[c] = Idle
        BY <1>20 DEF ServerCrash
    <2>2. LateAreSignIns'
      <3>1. ASSUME NEW l \in late', l \notin late, l.op \notin Change PROVE l.cmd \in SignInCommand
        <4>1. PICK c \in Calls : /\ calls[c].pc = "work" /\ ~AtEnd(c)
                                 /\ l = LeftBehind(c, Step(c))
            BY <1>20, <3>1 DEF ServerCrash
        <4>2. l.op = calls[c].op /\ l.cmd = Step(c)
            BY <4>1 DEF LeftBehind
        <4>3. QED
            BY <1>0, <1>h, <3>1, <4>1, <4>2, SignInSteps
      <3>2. QED
          BY <1>0, <3>1 DEF LateAreSignIns
    <2>3. row'.status = "removed" => Bare'
        BY <2>1 DEF WorkInv, RemovalProgress, Bare
    <2>4. QED
        BY <1>a, <2>1, <2>2, <2>3, WorkVacuous
  <1>21. QED
      BY <1>1, <1>2, <1>3, <1>4, <1>5, <1>6, <1>7, <1>8, <1>9, <1>10, <1>11, <1>12, <1>13,
         <1>14, <1>15, <1>16, <1>17, <1>18, <1>19, <1>20 DEF Next, CallStep

LEMMA WorkIsReported == HoldInv /\ WorkInv => HostAsReported
  <1> SUFFICES ASSUME HoldInv, WorkInv PROVE HostAsReported
      OBVIOUS
  <1>1. \A c \in Calls : Working(c) /\ calls[c].op \in {"start", "restart"} => Starts(calls[c])
      BY DEF HoldInv, ShapeInv, CallsInv, WellFormed, Working, Starts
  <1>2. StartedAsSaved
      BY <1>1 DEF WorkInv, StartProgress, StartedAsSaved
  <1>3. QED
      BY <1>2 DEF HostAsReported, WorkInv, RemovalProgress, Bare, RemovedLeavesNothing

\* As long as no call outlasts its lease, a bot that a start brought up runs on the settings saved
\* last and answers to the token on record, and a bot's row is deleted only when nothing of it is
\* left on its host (startUnderClaim, remove), whatever commands time out or take effect late.
THEOREM HostIsAsReported == ASSUME ~Stalls PROVE Spec => []HostAsReported
  <1>1. Init => HoldInv /\ WorkInv
      BY HoldInit, WorkInit
  <1>2. HoldInv /\ WorkInv /\ [Next]_vars => (HoldInv /\ WorkInv)'
      BY HoldStep, WorkStep
  <1>3. HoldInv /\ WorkInv => HostAsReported
      BY WorkIsReported
  <1>4. QED
      BY <1>1, <1>2, <1>3, PTL DEF Spec

-----------------------------------------------------------------------------
\* A save that still owns its claim was made against the settings the row has.
Saves(r) == r.op = "save" /\ r.pc = "work"
SavesAreCurrent ==
    \A c \in Calls : Saves(calls[c]) /\ row.cfg = calls[c].claim => calls[c].read = row.doc

SaveInv == ShapeInv /\ FreshRow /\ SavesAreCurrent

\* Steps that keep the claim and the settings of the row, or end the claim.
LEMMA SavesFrame ==
    ASSUME SavesAreCurrent, CallsInv',
           \/ row'.cfg = None
           \/ row'.cfg = row.cfg /\ row'.doc = row.doc,
           \A c \in Calls : \/ ~Saves(calls'[c])
                            \/ /\ Saves(calls[c])
                               /\ calls'[c].claim = calls[c].claim
                               /\ calls'[c].read = calls[c].read
    PROVE  SavesAreCurrent'
  <1>1. \A c \in Calls : Saves(calls'[c]) => calls'[c].claim # None
      BY DEF CallsInv, WellFormed, Saves
  <1>2. QED
      BY <1>1 DEF SavesAreCurrent

LEMMA SavesStep == SaveInv /\ [Next]_vars => SavesAreCurrent'
  <1> SUFFICES ASSUME SaveInv, [Next]_vars PROVE SavesAreCurrent'
      OBVIOUS
  <1>0. /\ CallsInv' /\ row \in Row /\ calls \in [Calls -> Call] /\ SavesAreCurrent
        /\ \A c \in Calls : WellFormed(calls[c]) /\ calls[c] \in Call
      BY ShapeStep DEF SaveInv, ShapeInv, TypeOK, CallsInv, WellFormed
  <1>a. ~Saves(Idle)
      BY DEF Saves, Idle
  <1>b. ASSUME NEW c \in Calls, NEW r, calls' = [calls EXCEPT ![c] = r], ~Saves(r),
               \/ row'.cfg = None
               \/ row'.cfg = row.cfg /\ row'.doc = row.doc
        PROVE  SavesAreCurrent'
    <2>1. \A d \in Calls : calls'[d] = IF d = c THEN r ELSE calls[d]
        BY <1>0, <1>b
    <2>2. \A d \in Calls : \/ ~Saves(calls'[d])
                           \/ /\ Saves(calls[d])
                              /\ calls'[d].claim = calls[d].claim
                              /\ calls'[d].read = calls[d].read
        BY <1>b, <2>1
    <2>3. QED
        BY <1>0, <1>b, <2>2, SavesFrame
  <1>c. ASSUME UNCHANGED calls, row'.cfg = row.cfg, row'.doc = row.doc PROVE SavesAreCurrent'
      BY <1>c DEF SaveInv, SavesAreCurrent
  <1>1. ASSUME NEW c \in Calls, Create(c) PROVE SavesAreCurrent'
    <2> DEFINE r == [Idle EXCEPT !.op = "create", !.pc = "work", !.at = 1,
                                 !.claim = lastId + 1, !.doc = lastId + 1]
    <2>1. calls' = [calls EXCEPT ![c] = r] /\ row'.cfg = lastId + 1
        BY <1>0, <1>1 DEF Create, Row
    <2>2. ~Saves(r)
        BY DEF Saves, Idle
    <2>3. \A d \in Calls : d # c => calls'[d] = calls[d] /\ calls[d].claim # lastId + 1
        BY <1>0, <2>1 DEF SaveInv, ShapeInv, TypeOK, CallsInv, Call, Ids
    <2>4. calls'[c] = r
        BY <1>0, <2>1
    <2>5. QED
        BY <2>1, <2>2, <2>3, <2>4 DEF SavesAreCurrent
  <1>2. ASSUME NEW c \in Calls, SignIn(c) PROVE SavesAreCurrent'
    <2> DEFINE r == [Idle EXCEPT !.op = "signin", !.pc = "work", !.at = 1, !.claim = lastId + 1]
    <2>1. row'.cfg = None
        BY <1>0, <1>2 DEF SignIn, Row
    <2>2. ~Saves(r)
        BY DEF Saves, Idle
    <2>3. QED
        BY <1>2, <1>b, <2>1, <2>2 DEF SignIn
  <1>3. ASSUME NEW c \in Calls, NEW op \in Wanted, Begin(c, op) \/ EndRead(c, op)
        PROVE  SavesAreCurrent'
    <2> DEFINE found == [Idle EXCEPT !.op = op, !.pc = "found",
                                     !.read = IF op = "save" THEN row.doc ELSE None]
               probe == [Idle EXCEPT !.op = op, !.pc = "probe", !.read = row.auth,
                                     !.saw = IF op = "complete" THEN row.status ELSE "none"]
    <2>1. ~Saves(found) /\ ~Saves(probe)
        BY DEF Idle, Saves
    <2>2. /\ calls' = [calls EXCEPT ![c] = found] \/ calls' = [calls EXCEPT ![c] = probe]
          /\ UNCHANGED row
        BY <1>3 DEF Begin, EndRead
    <2>3. QED
        BY <1>b, <2>1, <2>2
  <1>4. ASSUME NEW c \in Calls, Claim(c) PROVE SavesAreCurrent'
    <2> DEFINE r == [calls[c] EXCEPT !.pc = "work", !.at = 1, !.claim = lastId + 1,
                              !.doc = IF calls[c].op = "save" THEN lastId + 1 ELSE row.doc]
    <2>1. calls' = [calls EXCEPT ![c] = r] /\ row'.cfg = lastId + 1 /\ row'.doc = row.doc
        BY <1>0, <1>4 DEF Claim, Row
    <2>2. r.op = calls[c].op /\ r.read = calls[c].read
        BY <1>0 DEF Call
    <2>3. \A d \in Calls : d # c => calls'[d] = calls[d] /\ calls[d].claim # lastId + 1
        BY <1>0, <2>1 DEF SaveInv, ShapeInv, TypeOK, CallsInv, Call, Ids
    <2>4. calls'[c] = r
        BY <1>0, <2>1
    <2>5. Saves(r) => r.read = row.doc
        BY <1>4, <2>2 DEF Claim, Claimable, Saves
    <2>6. QED
        BY <2>1, <2>3, <2>4, <2>5 DEF SavesAreCurrent
  <1>5. ASSUME NEW c \in Calls, Exec(c) \/ StoreToken(c) PROVE SavesAreCurrent'
    <2> DEFINE w == IF Step(c) = "env" THEN ~host.up ELSE calls[c].wrote
               r == [calls[c] EXCEPT !.at = calls[c].at + 1, !.wrote = w]
               s == [calls[c] EXCEPT !.at = calls[c].at + 1]
    <2>1. /\ calls' = [calls EXCEPT ![c] = r] \/ calls' = [calls EXCEPT ![c] = s]
          /\ calls[c].pc = "work"
        BY <1>0, <1>5 DEF Exec, StoreToken
    <2>2. /\ r.op = calls[c].op /\ r.claim = calls[c].claim /\ r.read = calls[c].read
          /\ s.op = calls[c].op /\ s.claim = calls[c].claim /\ s.read = calls[c].read
        BY <1>0 DEF Call
    <2> HIDE DEF r, s
    <2>3. row'.cfg = row.cfg /\ row'.doc = row.doc
        BY <1>0, <1>5 DEF Exec, StoreToken, Row
    <2>4. \A d \in Calls : \/ ~Saves(calls'[d])
                           \/ /\ Saves(calls[d])
                              /\ calls'[d].claim = calls[d].claim
                              /\ calls'[d].read = calls[d].read
        BY <1>0, <2>1, <2>2 DEF Saves
    <2>5. QED
        BY <1>0, <2>3, <2>4, SavesFrame
  <1>6. ASSUME NEW c \in Calls,
               ExecFails(c) \/ FinishFails(c) \/ NoDeviceCode(c) \/ EndSession(c) \/ EndRecord(c)
        PROVE  SavesAreCurrent'
    <2>1. PICK pc \in {"cleanup", "release", "record", "letgo"} :
             calls' = [calls EXCEPT ![c] = [calls[c] EXCEPT !.pc = pc]]
        BY <1>0, <1>6 DEF ExecFails, FinishFails, NoDeviceCode, EndSession, EndRecord, Failing
    <2>2. ~Saves([calls[c] EXCEPT !.pc = pc])
        BY <1>0 DEF Saves, Call
    <2>3. row'.cfg = row.cfg /\ row'.doc = row.doc
        BY <1>0, <1>6 DEF ExecFails, FinishFails, NoDeviceCode, EndSession, EndRecord, Row
    <2>4. QED
        BY <1>b, <2>1, <2>2, <2>3
  <1>7. ASSUME NEW c \in Calls, TimesOut(c) \/ Cleanup(c) PROVE SavesAreCurrent'
    <2>1. \/ \E pc \in {"cleanup", "release"} :
               calls' = [calls EXCEPT ![c] = [calls[c] EXCEPT !.pc = pc, !.keep = TRUE]]
          \/ calls' = [calls EXCEPT ![c] = [calls[c] EXCEPT !.pc = "release"]]
        BY <1>0, <1>7 DEF TimesOut, Cleanup, Failing
    <2>2. \A pc \in {"cleanup", "release"} : ~Saves([calls[c] EXCEPT !.pc = pc, !.keep = TRUE])
        BY <1>0 DEF Saves, Call
    <2>3. ~Saves([calls[c] EXCEPT !.pc = "release"])
        BY <1>0 DEF Saves, Call
    <2>4. UNCHANGED row
        BY <1>7 DEF TimesOut, Cleanup
    <2>5. QED
        BY <1>b, <2>1, <2>2, <2>3, <2>4
  <1>8. ASSUME NEW c \in Calls, Finish(c) \/ FinishSave(c) \/ FinishRemove(c) \/ Release(c)
        PROVE  SavesAreCurrent'
    <2>1. \/ row'.cfg = None
          \/ row'.cfg = row.cfg /\ row'.doc = row.doc
        BY <1>0, <1>8 DEF Finish, FinishSave, FinishRemove, Release, Released, Row
    <2>2. QED
        BY <1>8, <1>a, <1>b, <2>1 DEF Finish, FinishSave, FinishRemove, Release
  <1>9. ASSUME NEW c \in Calls, FinishSignIn(c) \/ EndLetGo(c) \/ Refused(c) \/ EndNotYet(c)
        PROVE  SavesAreCurrent'
    <2>1. row'.cfg = row.cfg /\ row'.doc = row.doc
        BY <1>0, <1>9 DEF FinishSignIn, EndLetGo, Refused, EndNotYet, Row
    <2>2. QED
        BY <1>9, <1>a, <1>b, <2>1 DEF FinishSignIn, EndLetGo, Refused, EndNotYet
  <1>10. ASSUME RecordUnitFailure \/ CfgLeaseExpires \/ AuthLeaseExpires PROVE SavesAreCurrent'
    <2>1. row'.cfg = row.cfg /\ row'.doc = row.doc
        BY <1>0, <1>10 DEF RecordUnitFailure, CfgLeaseExpires, AuthLeaseExpires, Row
    <2>2. QED
        BY <1>10, <1>c, <2>1 DEF RecordUnitFailure, CfgLeaseExpires, AuthLeaseExpires
  <1>11. ASSUME UNCHANGED <<row, calls>> PROVE SavesAreCurrent'
      BY <1>11, <1>c
  <1>12. ASSUME ServerCrash PROVE SavesAreCurrent'
      BY <1>12, <1>a DEF ServerCrash, SavesAreCurrent
  <1>13. QED
      BY <1>1, <1>2, <1>3, <1>4, <1>5, <1>6, <1>7, <1>8, <1>9, <1>10, <1>11, <1>12
      DEF Next, CallStep, Lands, ReconcileRead, HostMoves, vars

\* The settings change when the bot is created and when a save ends, under the claim it holds.
LEMMA SettingsStep ==
    ASSUME SaveInv, Next, row'.doc # row.doc, row.doc # None
    PROVE  \E c \in Calls : /\ calls[c].op = "save" /\ calls[c].doc = row'.doc
                            /\ calls[c].read = row.doc
  <1>0. row \in Row /\ SavesAreCurrent /\ FreshRow
      BY DEF SaveInv, ShapeInv, TypeOK
  <1>1. ASSUME NEW c \in Calls, FinishSave(c)
        PROVE  calls[c].op = "save" /\ calls[c].doc = row'.doc /\ calls[c].read = row.doc
    <2>1. calls[c].op = "save" /\ calls[c].doc = row'.doc
        BY <1>0, <1>1 DEF FinishSave, Released, Row
    <2>2. QED
        BY <1>0, <1>1, <2>1 DEF FinishSave, OwnsCfg, SavesAreCurrent, Saves
  <1>2. ASSUME NEW c \in Calls, Create(c) PROVE FALSE
      BY <1>0, <1>2 DEF Create, FreshRow
  <1>3. ASSUME NEW c \in Calls, SignIn(c) \/ Claim(c) \/ StoreToken(c) \/ Finish(c) PROVE FALSE
      BY <1>0, <1>3 DEF SignIn, Claim, StoreToken, Finish, Released, Row
  <1>4. ASSUME NEW c \in Calls,
               FinishRemove(c) \/ FinishSignIn(c) \/ Release(c) \/ EndRecord(c) \/ EndLetGo(c)
        PROVE  FALSE
      BY <1>0, <1>4 DEF FinishRemove, FinishSignIn, Release, EndRecord, EndLetGo, Released, Row
  <1>5. ASSUME RecordUnitFailure \/ CfgLeaseExpires \/ AuthLeaseExpires PROVE FALSE
      BY <1>0, <1>5 DEF RecordUnitFailure, CfgLeaseExpires, AuthLeaseExpires, Row
  <1>6. QED
      BY <1>1, <1>2, <1>3, <1>4, <1>5
      DEF Next, CallStep, Refused, Exec, ExecFails, TimesOut, FinishFails, NoDeviceCode, Cleanup,
          EndSession, EndNotYet, Begin, EndRead, Lands, ReconcileRead, HostMoves, ServerCrash

\* Even if calls outlast their leases, no save overwrites another: saveConfig's last transaction
\* replaces the settings only if it still owns the claim, and then they are those it was made for.
THEOREM NoSaveIsLost == Spec => SavesBuildOnTheLatest
  <1>1. Init => SaveInv
      BY ShapeInit, FreshInit DEF Init, SaveInv, SavesAreCurrent, Saves, Idle
  <1>2. SaveInv /\ [Next]_vars => SaveInv'
      BY ShapeStep, FreshStep, SavesStep DEF SaveInv
  <1>3. SaveInv /\ [Next]_vars =>
          [row'.doc # row.doc /\ row.doc # None =>
              \E c \in Calls : /\ calls[c].op = "save"
                               /\ calls[c].doc = row'.doc
                               /\ calls[c].read = row.doc]_vars
      BY SettingsStep
  <1>4. QED
      BY <1>1, <1>2, <1>3, PTL DEF Spec, SavesBuildOnTheLatest
=============================================================================
