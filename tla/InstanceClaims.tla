--------------------------- MODULE InstanceClaims ---------------------------
(***************************************************************************)
(* Changes to one bot: create, start, restart, stop, save settings, remove *)
(* and the Microsoft sign-in.  Each is a call of the server process that   *)
(* takes a leased claim on the instance row, runs commands on the host     *)
(* over SSH and finalises the row if it still owns the claim.  A command   *)
(* that times out may still take effect: the call then leaves its claim to *)
(* the lease.  Completing and cancelling a sign-in take no claim.  Every   *)
(* transaction and every remote command is one step.                       *)
(***************************************************************************)
EXTENDS Naturals, FiniteSets, Sequences

CONSTANTS
    Calls,      \* concurrent calls of the instance controller
    Wanted,     \* the changes operators ask for, besides creating the bot
    MaxIds,     \* bound: claim ids handed out by randomUUID
    Stalls,     \* TRUE if a call may outlast the lease of its claim
    MayCrash    \* TRUE if the server may restart

ASSUME BoundAssumption == MaxIds \in Nat
ASSUME WantedAssumption ==
    Wanted \subseteq {"start", "restart", "stop", "remove", "save", "signin", "complete", "cancel"}
ASSUME FlagsAssumption == Stalls \in BOOLEAN /\ MayCrash \in BOOLEAN

VARIABLES
    row,     \* the instance row and its latest settings
    host,    \* the bot's units and files on its machine
    calls,   \* the calls in progress
    late,    \* commands that timed out and may still take effect
    failure, \* a reconciliation has read the unit as failed, not yet recorded
    lastId   \* claim ids handed out so far, in order

vars == <<row, host, calls, late, failure, lastId>>

-----------------------------------------------------------------------------
None == 0
Ids == 1..MaxIds

\* The remote commands of each change, in order; "token" is the one database
\* write among them (writeTokenUnderClaim).  The layout steps of a create and
\* the steps of a removal are each taken in groups.
CreateProgram == <<"lay", "newEnv", "doc">>
StartProgram == <<"env", "token", "doc", "up">>
RestartProgram == <<"down">> \o StartProgram
StopProgram == <<"down">>
SaveProgram == <<"doc">>
RemoveProgram == <<"downAll", "wipe">>
SignInProgram == <<"down", "authDown", "authUp", "poll">>

Program ==
    [create |-> CreateProgram, start |-> StartProgram, restart |-> RestartProgram,
     stop |-> StopProgram, save |-> SaveProgram, remove |-> RemoveProgram,
     signin |-> SignInProgram]

Lifecycle == {"start", "restart", "stop", "remove"}
Change == Lifecycle \cup {"create", "save"}        \* take the config claim
Op == Change \cup {"signin", "complete", "cancel"}
Command == {"lay", "newEnv", "env", "doc", "up", "down", "downAll", "wipe",
            "authDown", "authUp", "poll"}

\* Steps whose exit code nobody looks at: the change goes on either way.
BestEffort(op, cmd) == cmd = "downAll" \/ (op = "signin" /\ cmd \in {"down", "authDown"})

Present == {"needs_auth", "stopped", "running", "error"}
Absent == {"none", "removed"}
Idle == [op |-> "none", pc |-> "idle", at |-> 0, claim |-> None, doc |-> None,
         read |-> None, saw |-> "none", keep |-> FALSE, wrote |-> FALSE]

(***************************************************************************)
(* Claims are named by their id, a settings document by the claim it was   *)
(* saved under and a live-control token by the claim it was minted under.  *)
(* A call's doc is the document it will write; read is what it found when  *)
(* it began, the settings to be changed or the sign-in to be ended, and    *)
(* saw the status.                                                         *)
(***************************************************************************)
Row == [status : Present \cup Absent, microsoft : BOOLEAN, cfg : Ids \cup {None}, cfgStale : BOOLEAN,
        auth : Ids \cup {None}, authStale : BOOLEAN, doc : Ids \cup {None},
        token : Ids \cup {None}]
Host == [laid : BOOLEAN, up : BOOLEAN, by : Ids \cup {None}, signIn : BOOLEAN,
         session : BOOLEAN, doc : Ids \cup {None}, env : Ids \cup {None},
         botDoc : Ids \cup {None}, botEnv : Ids \cup {None}]
Call == [op : Op \cup {"none"}, at : 0..6, claim : Ids \cup {None}, doc : Ids \cup {None},
         pc : {"idle", "found", "work", "cleanup", "release", "probe", "record", "letgo"},
         read : Ids \cup {None}, saw : Present \cup Absent, keep : BOOLEAN, wrote : BOOLEAN]
LateCommand == [cmd : Command, op : Op, claim : Ids, doc : Ids \cup {None}]

Exists == row.status \in Present
CfgFree == row.cfg = None \/ row.cfgStale
AuthFree == row.auth = None \/ row.authStale
OwnsCfg(c) == Exists /\ row.cfg = calls[c].claim
OwnsAuth(c) == Exists /\ row.auth = calls[c].claim

Step(c) == Program[calls[c].op][calls[c].at]
LeftBehind(c, cmd) ==
    [cmd |-> cmd, op |-> calls[c].op, claim |-> calls[c].claim, doc |-> calls[c].doc]
AtEnd(c) == calls[c].at > Len(Program[calls[c].op])

\* The call is at work on the host under a claim it took.
Working(c) == calls[c].pc \in {"work", "cleanup"}

-----------------------------------------------------------------------------
\* What a command does to the host.  systemd skips a unit while the other of
\* the pair is active; the environment of a running bot is kept.
Effect(cmd, claim, doc) ==
    CASE cmd = "lay"      -> [host EXCEPT !.laid = TRUE]
      [] cmd = "newEnv"   -> [host EXCEPT !.env = claim]
      [] cmd = "env"      -> IF host.up THEN host ELSE [host EXCEPT !.env = claim]
      [] cmd = "doc"      -> [host EXCEPT !.doc = doc]
      [] cmd = "up"       -> IF host.up THEN host
                             ELSE [host EXCEPT !.up = TRUE, !.by = claim,
                                               !.botDoc = host.doc, !.botEnv = host.env]
      [] cmd = "down"     -> [host EXCEPT !.up = FALSE]
      [] cmd = "downAll"  -> [host EXCEPT !.up = FALSE, !.signIn = FALSE]
      [] cmd = "wipe"     -> [host EXCEPT !.laid = FALSE, !.env = None, !.doc = None,
                                          !.session = FALSE]
      [] cmd = "authDown" -> [host EXCEPT !.signIn = FALSE]
      [] cmd = "authUp"   -> [host EXCEPT !.signIn = TRUE]
      [] cmd = "poll"     -> host

\* Mutation of CanRun: the directory is deleted without verifyGoneCommand.
CanRunUnverified(cmd) ==
    /\ cmd \in {"newEnv", "env", "doc", "up", "authUp"} => host.laid
    /\ cmd = "up" => ~host.signIn
    /\ cmd = "authUp" => ~host.up

\* Whether it can succeed: the directory is there, the other unit is not
\* active (skipWhileActive), verifyGoneCommand finds nothing running.
CanRun(cmd) ==
    /\ cmd \in {"newEnv", "env", "doc", "up", "authUp"} => host.laid
    /\ cmd = "up" => ~host.signIn
    /\ cmd = "authUp" => ~host.up
    /\ cmd = "wipe" => ~host.up /\ ~host.signIn

Init ==
    /\ row = [status |-> "none", microsoft |-> FALSE, cfg |-> None, cfgStale |-> FALSE, auth |-> None,
              authStale |-> FALSE, doc |-> None, token |-> None]
    /\ host = [laid |-> FALSE, up |-> FALSE, by |-> None, signIn |-> FALSE,
               session |-> FALSE, doc |-> None, env |-> None, botDoc |-> None,
               botEnv |-> None]
    /\ calls = [c \in Calls |-> Idle]
    /\ late = {}
    /\ failure = FALSE
    /\ lastId = 0

\* create inserts the row already claimed, with its first settings; a
\* Microsoft account has yet to sign in (needsInteractiveSignIn).
Create(c) ==
    /\ calls[c] = Idle
    /\ row.status = "none"
    /\ lastId < MaxIds
    /\ lastId' = lastId + 1
    /\ \E ms \in BOOLEAN :
         row' = [row EXCEPT !.status = IF ms THEN "needs_auth" ELSE "stopped",
                            !.microsoft = ms, !.cfg = lastId', !.doc = lastId',
                            !.token = lastId']
    /\ calls' = [calls EXCEPT ![c] = [Idle EXCEPT !.op = "create", !.pc = "work", !.at = 1,
                                                  !.claim = lastId', !.doc = lastId']]
    /\ UNCHANGED <<host, late, failure>>

\* requireInstance: a start is refused while the sign-in is outstanding.  A
\* save carries the version the operator's page was showing.
Begin(c, op) ==
    /\ calls[c] = Idle
    /\ op \in Wanted \cap (Lifecycle \cup {"save"})
    /\ Exists
    /\ op \in {"start", "restart"} => row.status # "needs_auth"
    /\ calls' = [calls EXCEPT ![c] = [Idle EXCEPT !.op = op, !.pc = "found",
                                  !.read = IF op = "save" THEN row.doc ELSE None]]
    /\ UNCHANGED <<row, host, late, failure, lastId>>

\* Mutation of Claimable: a save does not look for another change's claim.
ClaimableAnyway(c) ==
    IF calls[c].op = "save" THEN Exists ELSE Exists /\ CfgFree /\ AuthFree

\* claimForConfig and the version check of takeConfigClaim; claimForLifecycle.
Claimable(c) ==
    IF calls[c].op = "save" THEN Exists /\ CfgFree /\ calls[c].read = row.doc
                            ELSE Exists /\ CfgFree /\ AuthFree

\* The claim's transaction; a start reads the saved settings in it.
Claim(c) ==
    /\ calls[c].pc = "found"
    /\ Claimable(c)
    /\ lastId < MaxIds
    /\ lastId' = lastId + 1
    /\ row' = [row EXCEPT !.cfg = lastId', !.cfgStale = FALSE]
    /\ calls' = [calls EXCEPT ![c] = [@ EXCEPT !.pc = "work", !.at = 1, !.claim = lastId',
                                       !.doc = IF calls[c].op = "save" THEN lastId' ELSE row.doc]]
    /\ UNCHANGED <<host, late, failure>>

\* Busy, signing in, modified concurrently, or gone.
Refused(c) ==
    /\ calls[c].pc = "found"
    /\ ~Claimable(c)
    /\ calls' = [calls EXCEPT ![c] = Idle]
    /\ UNCHANGED <<row, host, late, failure, lastId>>

\* beginAuthentication: claimForAuth, which also ends a stale config claim.
SignIn(c) ==
    /\ calls[c] = Idle
    /\ "signin" \in Wanted
    /\ Exists /\ row.microsoft /\ AuthFree /\ CfgFree
    /\ lastId < MaxIds
    /\ lastId' = lastId + 1
    /\ row' = [row EXCEPT !.auth = lastId', !.authStale = FALSE, !.cfg = None,
                          !.cfgStale = FALSE]
    /\ calls' = [calls EXCEPT ![c] = [Idle EXCEPT !.op = "signin", !.pc = "work", !.at = 1,
                                                  !.claim = lastId']]
    /\ UNCHANGED <<host, late, failure>>

-----------------------------------------------------------------------------
\* claimedExec: the next command of the change answers and is good enough.
Exec(c) ==
    /\ calls[c].pc = "work" /\ ~AtEnd(c)
    /\ Step(c) # "token"
    /\ \/ CanRun(Step(c)) /\ host' = Effect(Step(c), calls[c].claim, calls[c].doc)
       \/ BestEffort(calls[c].op, Step(c)) /\ UNCHANGED host
    /\ calls' = [calls EXCEPT ![c].at = @ + 1,
                               ![c].wrote = IF Step(c) = "env" THEN ~host.up ELSE @]
    /\ UNCHANGED <<row, late, failure, lastId>>

\* Where a call goes when a step fails: a sign-in stops its session first.
Failing(c) == IF calls[c].op = "signin" THEN "cleanup" ELSE "release"

\* The host cannot be reached or refuses, or its answer cannot be read, in
\* which case the command did run.
ExecFails(c) ==
    /\ calls[c].pc = "work" /\ ~AtEnd(c)
    /\ Step(c) # "token"
    /\ \/ UNCHANGED host
       \/ CanRun(Step(c)) /\ host' = Effect(Step(c), calls[c].claim, calls[c].doc)
    /\ calls' = [calls EXCEPT ![c].pc = Failing(c)]
    /\ UNCHANGED <<row, late, failure, lastId>>

\* Mutation of TimesOut: the claim is released like after any other failure.
TimesOutReleasing(c) ==
    /\ calls[c].pc = "work" /\ ~AtEnd(c)
    /\ Step(c) # "token"
    /\ late' = late \cup {LeftBehind(c, Step(c))}
    /\ calls' = [calls EXCEPT ![c].pc = Failing(c)]
    /\ UNCHANGED <<row, host, failure, lastId>>

\* The command was sent and no answer came: flight.inFlight.
TimesOut(c) ==
    /\ calls[c].pc = "work" /\ ~AtEnd(c)
    /\ Step(c) # "token"
    /\ late' = late \cup {LeftBehind(c, Step(c))}
    /\ calls' = [calls EXCEPT ![c].pc = Failing(c), ![c].keep = TRUE]
    /\ UNCHANGED <<row, host, failure, lastId>>

\* Such a command takes effect after all, or never does.
Lands(l) ==
    /\ l \in late
    /\ late' = late \ {l}
    /\ \/ UNCHANGED host
       \/ CanRun(l.cmd) /\ host' = Effect(l.cmd, l.claim, l.doc)
    /\ UNCHANGED <<row, calls, failure, lastId>>

\* Mutation of StoreToken: the new token is not stored.
TokenNotStored(c) ==
    /\ calls[c].pc = "work" /\ ~AtEnd(c)
    /\ Step(c) = "token"
    /\ calls' = [calls EXCEPT ![c].at = @ + 1]
    /\ UNCHANGED <<row, host, late, failure, lastId>>

\* writeTokenUnderClaim, skipped when the running bot's environment was
\* kept; it renews the lease.
StoreToken(c) ==
    /\ calls[c].pc = "work" /\ ~AtEnd(c)
    /\ Step(c) = "token"
    /\ \/ ~calls[c].wrote /\ UNCHANGED row
       \/ /\ calls[c].wrote /\ OwnsCfg(c)
          /\ row' = [row EXCEPT !.token = calls[c].claim, !.cfgStale = FALSE]
    /\ calls' = [calls EXCEPT ![c].at = @ + 1]
    /\ UNCHANGED <<host, late, failure, lastId>>

Released == [row EXCEPT !.cfg = None, !.cfgStale = FALSE]

\* finalizeConfigClaim with the status a lifecycle change came to.
Finish(c) ==
    /\ calls[c].pc = "work" /\ AtEnd(c)
    /\ calls[c].op \in {"start", "restart", "stop"}
    /\ OwnsCfg(c)
    /\ row' = [Released EXCEPT !.status = IF calls[c].op = "stop" THEN "stopped" ELSE "running"]
    /\ calls' = [calls EXCEPT ![c] = Idle]
    /\ UNCHANGED <<host, late, failure, lastId>>

\* Mutation of FinishSave: the claim is not looked at.
FinishSaveUnfenced(c) ==
    /\ calls[c].pc = "work" /\ AtEnd(c)
    /\ calls[c].op \in {"save", "create"}
    /\ Exists
    /\ row' = [Released EXCEPT !.doc = IF calls[c].op = "save" THEN calls[c].doc ELSE @]
    /\ calls' = [calls EXCEPT ![c] = Idle]
    /\ UNCHANGED <<host, late, failure, lastId>>

\* saveConfig's last transaction records the version it wrote; create's only
\* gives the claim back.
FinishSave(c) ==
    /\ calls[c].pc = "work" /\ AtEnd(c)
    /\ calls[c].op \in {"save", "create"}
    /\ OwnsCfg(c)
    /\ row' = [Released EXCEPT !.doc = IF calls[c].op = "save" THEN calls[c].doc ELSE @]
    /\ calls' = [calls EXCEPT ![c] = Idle]
    /\ UNCHANGED <<host, late, failure, lastId>>

\* deleteUnderClaim
FinishRemove(c) ==
    /\ calls[c].pc = "work" /\ AtEnd(c)
    /\ calls[c].op = "remove"
    /\ OwnsCfg(c)
    /\ row' = [Released EXCEPT !.status = "removed", !.auth = None, !.authStale = FALSE]
    /\ calls' = [calls EXCEPT ![c] = Idle]
    /\ UNCHANGED <<host, late, failure, lastId>>

\* The claim was taken over meanwhile (InstanceBusyError), or the last
\* transaction fails; so may the write of the token.
FinishFails(c) ==
    /\ calls[c].pc = "work"
    /\ calls[c].op \in Change
    /\ ~AtEnd(c) => Step(c) = "token"
    /\ calls' = [calls EXCEPT ![c].pc = "release"]
    /\ UNCHANGED <<row, host, late, failure, lastId>>

\* The device code appeared: the status is set by id, and the claim is held
\* while the operator signs in.
FinishSignIn(c) ==
    /\ calls[c].pc = "work" /\ AtEnd(c)
    /\ calls[c].op = "signin"
    /\ row' = IF Exists THEN [row EXCEPT !.status = "needs_auth"] ELSE row
    /\ calls' = [calls EXCEPT ![c] = Idle]
    /\ UNCHANGED <<host, late, failure, lastId>>

\* No device code appeared.
NoDeviceCode(c) ==
    /\ calls[c].pc = "work" /\ AtEnd(c)
    /\ calls[c].op = "signin"
    /\ calls' = [calls EXCEPT ![c].pc = "cleanup"]
    /\ UNCHANGED <<row, host, late, failure, lastId>>

\* A failed sign-in stops its session, if it can.
Cleanup(c) ==
    /\ calls[c].pc = "cleanup"
    /\ \/ /\ host' \in {host, Effect("authDown", calls[c].claim, None)}
          /\ calls' = [calls EXCEPT ![c].pc = "release"]
          /\ UNCHANGED late
       \/ /\ late' = late \cup {LeftBehind(c, "authDown")}
          /\ calls' = [calls EXCEPT ![c].pc = "release", ![c].keep = TRUE]
          /\ UNCHANGED host
    /\ UNCHANGED <<row, failure, lastId>>

\* releasingClaim and its sign-in twin: a claim under which a command may
\* still run is kept; releasing may fail.
Release(c) ==
    /\ calls[c].pc = "release"
    /\ \/ UNCHANGED row
       \/ /\ ~calls[c].keep
          /\ calls[c].op \in Change /\ OwnsCfg(c)
          /\ row' = Released
       \/ /\ ~calls[c].keep
          /\ calls[c].op = "signin" /\ OwnsAuth(c)
          /\ row' = [row EXCEPT !.auth = None, !.authStale = FALSE]
    /\ calls' = [calls EXCEPT ![c] = Idle]
    /\ UNCHANGED <<host, late, failure, lastId>>

-----------------------------------------------------------------------------
\* completeAuthentication and cancelAuthentication read the row, and with it
\* the claim of the sign-in they mean.
EndRead(c, op) ==
    /\ calls[c] = Idle
    /\ op \in Wanted \cap {"complete", "cancel"}
    /\ Exists /\ row.microsoft
    /\ calls' = [calls EXCEPT ![c] = [Idle EXCEPT !.op = op, !.pc = "probe",
                                                  !.read = row.auth,
                                  !.saw = IF op = "complete" THEN row.status ELSE "none"]]
    /\ UNCHANGED <<row, host, late, failure, lastId>>

\* They stop the session on the host, if it lets itself be stopped; a
\* completion first needs the session cache the client writes when the
\* operator has signed in.
EndSession(c) ==
    /\ calls[c].pc = "probe"
    /\ calls[c].op = "complete" => host.session /\ calls[c].saw = "needs_auth"
    /\ host' \in {host, [host EXCEPT !.signIn = FALSE]}
    /\ calls' = [calls EXCEPT ![c].pc = IF calls[c].op = "complete" THEN "record" ELSE "letgo"]
    /\ UNCHANGED <<row, late, failure, lastId>>

\* Not signed in yet, nothing to complete, or the host could not be asked.
EndNotYet(c) ==
    /\ calls[c].pc = "probe"
    /\ calls' = [calls EXCEPT ![c] = Idle]
    /\ UNCHANGED <<row, host, late, failure, lastId>>

\* completeAuthentication sets the status by id.
EndRecord(c) ==
    /\ calls[c].pc = "record"
    /\ row' = IF Exists THEN [row EXCEPT !.status = "stopped"] ELSE row
    /\ calls' = [calls EXCEPT ![c].pc = "letgo"]
    /\ UNCHANGED <<host, late, failure, lastId>>

\* releaseAuthClaim of the claim read at the beginning.
EndLetGo(c) ==
    /\ calls[c].pc = "letgo"
    /\ row' = IF Exists /\ calls[c].read # None /\ row.auth = calls[c].read
                THEN [row EXCEPT !.auth = None, !.authStale = FALSE] ELSE row
    /\ calls' = [calls EXCEPT ![c] = Idle]
    /\ UNCHANGED <<host, late, failure, lastId>>

-----------------------------------------------------------------------------
\* reconcileHost reads the unit of a bot that should be running as failed.
ReconcileRead ==
    /\ ~failure
    /\ row.status = "running" /\ ~host.up
    /\ failure' = TRUE
    /\ UNCHANGED <<row, host, calls, late, lastId>>

\* Mutation of RecordUnitFailure: what systemd calls the unit is stored.
RecordAsObserved ==
    /\ failure
    /\ failure' = FALSE
    /\ row' = IF row.status = "running" /\ row.cfg = None
                THEN [row EXCEPT !.status = "failed"] ELSE row
    /\ UNCHANGED <<host, calls, late, lastId>>

\* recordUnitFailure, unless a change has begun meanwhile.
RecordUnitFailure ==
    /\ failure
    /\ failure' = FALSE
    /\ row' = IF row.status = "running" /\ row.cfg = None
                THEN [row EXCEPT !.status = "error"] ELSE row
    /\ UNCHANGED <<host, calls, late, lastId>>

\* What happens on the host by itself: the bot dies, systemd or a sleep
\* timer starts or stops it, the operator signs in, the session ends.
HostMoves ==
    /\ \/ host.up /\ host' = [host EXCEPT !.up = FALSE]
       \/ /\ ~host.up /\ ~host.signIn /\ host.laid
          /\ host' = [host EXCEPT !.up = TRUE, !.by = None, !.botDoc = host.doc,
                                  !.botEnv = host.env]
       \/ host.signIn /\ ~host.session /\ host' = [host EXCEPT !.session = TRUE]
       \/ host.signIn /\ host' = [host EXCEPT !.signIn = FALSE]
    /\ UNCHANGED <<row, calls, late, failure, lastId>>

\* Nobody is at work under a claim any more: neither its call nor a command
\* it left behind.  The waits of every change add up to less than its lease.
Quiet(claim) ==
    /\ \A c \in Calls : calls[c].claim # claim \/ calls[c].pc = "idle"
    /\ \A l \in late : l.claim # claim

\* CONFIG_CLAIM_LEASE_MS and AUTH_LEASE_MS run out.
CfgLeaseExpires ==
    /\ row.cfg # None /\ ~row.cfgStale
    /\ Stalls \/ Quiet(row.cfg)
    /\ row' = [row EXCEPT !.cfgStale = TRUE]
    /\ UNCHANGED <<host, calls, late, failure, lastId>>

AuthLeaseExpires ==
    /\ row.auth # None /\ ~row.authStale
    /\ Stalls \/ Quiet(row.auth)
    /\ row' = [row EXCEPT !.authStale = TRUE]
    /\ UNCHANGED <<host, calls, late, failure, lastId>>

\* The server restarts; a command it had sent may still take effect.
ServerCrash ==
    /\ MayCrash
    /\ \E c \in Calls : calls[c] # Idle
    /\ late' = late \cup
         {LeftBehind(c, Step(c)) :
             c \in {d \in Calls : calls[d].pc = "work" /\ ~AtEnd(d) /\ Step(d) # "token"}}
    /\ calls' = [c \in Calls |-> Idle]
    /\ failure' = FALSE
    /\ UNCHANGED <<row, host, lastId>>

-----------------------------------------------------------------------------
CallStep(c) ==
    \/ Claim(c) \/ Refused(c)
    \/ Exec(c) \/ ExecFails(c) \/ TimesOut(c) \/ StoreToken(c)
    \/ Finish(c) \/ FinishSave(c) \/ FinishRemove(c) \/ FinishFails(c)
    \/ FinishSignIn(c) \/ NoDeviceCode(c) \/ Cleanup(c) \/ Release(c)
    \/ EndSession(c) \/ EndNotYet(c) \/ EndRecord(c) \/ EndLetGo(c)

Next ==
    \/ \E c \in Calls :
         \/ Create(c) \/ SignIn(c) \/ CallStep(c)
         \/ \E op \in Wanted : Begin(c, op) \/ EndRead(c, op)
    \/ \E l \in late : Lands(l)
    \/ ReconcileRead \/ RecordUnitFailure \/ HostMoves
    \/ CfgLeaseExpires \/ AuthLeaseExpires \/ ServerCrash

Spec == Init /\ [][Next]_vars

-----------------------------------------------------------------------------
\* Every variable has its shape.
TypeOK ==
    /\ row \in Row
    /\ host \in Host
    /\ calls \in [Calls -> Call]
    /\ late \subseteq LateCommand
    /\ failure \in BOOLEAN
    /\ lastId \in 0..MaxIds

\* As long as no call outlasts its lease, at most one change is at work on
\* the bot's host.
ChangesAreExclusive ==
    \A c, d \in Calls :
        /\ Working(c) /\ calls[c].op \in Change
        /\ Working(d) /\ calls[d].op \in Change
        => c = d

\* Nor can a command that an earlier change gave up on still touch the bot
\* under a later one: claimedExec makes its caller keep the claim.
NothingLateUnderAChange ==
    \A c \in Calls, l \in late :
        Working(c) /\ calls[c].op \in Change /\ l.op \in Change => l.claim = calls[c].claim

\* Nor is a start, stop or removal at work beside a sign-in, unless the sign-in's claim was given
\* away under it, as cancelling or completing one does (claimForLifecycle, claimForAuth).
SignInsAreApart ==
    \A c, d \in Calls :
        Working(c) /\ calls[c].op \in Lifecycle /\ Working(d) /\ calls[d].op = "signin" => ~OwnsAuth(d)

\* A bot that a start brought up runs on the settings saved last, whatever
\* failed saves left on the host, and answers to the token the row holds.
StartedAsSaved ==
    \A c \in Calls :
        /\ Working(c) /\ AtEnd(c) /\ calls[c].op \in {"start", "restart"}
        /\ host.up /\ host.by = calls[c].claim
        => /\ host.botDoc = row.doc
           /\ calls[c].wrote => host.botEnv = row.token

\* A row is deleted only when nothing of the bot is left on its host, and
\* nothing comes back.
RemovedLeavesNothing == row.status = "removed" => ~host.laid /\ ~host.up /\ ~host.signIn

\* No save overwrites another: settings are replaced only by a save that was
\* made against them, even if its call outlasts its lease.
SavesBuildOnTheLatest ==
    [][row'.doc # row.doc /\ row.doc # None =>
          \E c \in Calls : /\ calls[c].op = "save"
                           /\ calls[c].doc = row'.doc
                           /\ calls[c].read = row.doc]_vars

\* Taken together: one change at a time works on a bot, late commands and sign-ins included
\* (claim, claimedExec).
OneChangeAtATime == TypeOK /\ ChangesAreExclusive /\ NothingLateUnderAChange /\ SignInsAreApart

\* Taken together: what a finished start or removal says of the bot is what
\* its host holds (startUnderClaim, remove).
HostAsReported == StartedAsSaved /\ RemovedLeavesNothing
=============================================================================
