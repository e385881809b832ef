---------------------------- MODULE EnrolWizard ----------------------------
(***************************************************************************)
(* Enrolling a host from the browser: the wizard's form, the address       *)
(* probe, the host check and the express set-up as root, each a call whose *)
(* answer may come after the form has changed, and the server's side of    *)
(* them.  What answers at an address is known by its host key and may be   *)
(* another machine the next time.  A machine is prepared when the set-up   *)
(* script ran there for an account and a key.  An answer reaches the page  *)
(* unless its mutation was reset, started again or unmounted.              *)
(***************************************************************************)
EXTENDS Naturals, Sequences

CONSTANTS
    HostAddresses,     \* hostname and port
    SshKeys,
    Accounts,
    Prints,        \* host key fingerprints, one for each machine
    Blank,         \* an empty field
    MaxSwaps,      \* bound: times another machine answers at an address
    MaxEdits,      \* bound: changes of the form's fields
    MaxCalls       \* bound: calls made from the page

ASSUME EnrolAssumption ==
    {MaxSwaps, MaxEdits, MaxCalls} \subseteq Nat /\ Blank \notin (HostAddresses \cup SshKeys \cup Accounts \cup Prints)

VARIABLES
    answers,    \* the machine that answers at each address
    prepared,   \* <<machine, account, key>> the set-up script ran for
    keyList,    \* the organisation's SSH keys
    wizard,     \* the page: step, form, install mode, copied command, mutations
    panel,      \* the express panel's state, kept while it is mounted
    installs,   \* express set-ups the server is running
    enrolled,   \* host rows
    found,      \* history: targets a host check reported ready
    confirmedAt,\* history: <<address, machine>> an operator confirmed
    rootSeen,   \* history: <<address, machine>> a root credential was offered to
    swaps, edits, enrolCalls

enrolVars == <<answers, prepared, keyList, wizard, panel, installs, enrolled, found,
               confirmedAt, rootSeen, swaps, edits, enrolCalls>>

-----------------------------------------------------------------------------
NoForm == [key |-> Blank, address |-> Blank, account |-> Blank, print |-> Blank]
NotAsked == [state |-> "idle", of |-> NoForm, ready |-> FALSE]
NoPanel == [read |-> NotAsked, confirmed |-> Blank, secret |-> FALSE, outcome |-> "none", busy |-> 0]
FreshWizard ==
    [step |-> 0, form |-> NoForm, mode |-> "manual", copied |-> <<>>,
     probe |-> NotAsked, check |-> NotAsked, enrol |-> NotAsked]

\* A call is asked, answered by the server (done) and shown until it is reset.
Ask(target) == [state |-> "asked", of |-> target, ready |-> FALSE]
Calling == enrolCalls < MaxCalls /\ enrolCalls' = enrolCalls + 1
Form == wizard.form

page == <<wizard, panel>>
server == <<answers, prepared, keyList, installs, enrolled>>
history == <<found, confirmedAt, rootSeen>>

-----------------------------------------------------------------------------
\* checkedInput and addressInput: a changed field forgets the check, and the
\* probe when it is the address.
Reset(field) ==
    IF field = "address" THEN [wizard EXCEPT !.probe = NotAsked, !.check = NotAsked]
    ELSE [wizard EXCEPT !.check = NotAsked]
StepOf(field) == CASE field = "key" -> 0 [] field = "address" -> 1 [] field = "account" -> 2 [] field = "print" -> 4
ValuesOf(field) ==
    CASE field = "key" -> keyList [] field = "address" -> HostAddresses
      [] field = "account" -> Accounts [] field = "print" -> Prints
SetField(field, value) ==
    /\ wizard.step = StepOf(field) /\ Form[field] # value /\ value \in ValuesOf(field)
    /\ edits < MaxEdits /\ edits' = edits + 1
    /\ wizard' = [Reset(field) EXCEPT !.form[field] = value]
    /\ UNCHANGED <<panel, server, history, swaps, enrolCalls>>

\* generateKey: offered while there is no key; the new one is selected.
GenerateKey(k) ==
    /\ wizard.step = 0 /\ keyList = {}
    /\ keyList' = {k}
    /\ wizard' = [Reset("key") EXCEPT !.form.key = k]
    /\ UNCHANGED <<panel, answers, prepared, installs, enrolled, history, swaps, edits, enrolCalls>>
KeyAdded(k) ==
    /\ k \notin keyList /\ keyList' = keyList \cup {k}
    /\ UNCHANGED <<page, answers, prepared, installs, enrolled, history, swaps, edits, enrolCalls>>
SetInstallMode(mode) ==
    /\ wizard.step = 0 /\ wizard.mode # mode
    /\ wizard' = [wizard EXCEPT !.mode = mode]
    /\ UNCHANGED <<panel, server, history, swaps, edits, enrolCalls>>

\* goTo; the express panel exists only on its own step.
CanAdvance ==
    CASE wizard.step = 0 -> Form.key # Blank
      [] wizard.step = 1 -> Form.address # Blank
      [] wizard.step = 2 -> Form.account # Blank
      [] wizard.step = 3 -> TRUE
      [] OTHER -> FALSE
ShowStep(next) ==
    /\ wizard.step < 5 /\ next \in 0..4
    /\ \/ next = wizard.step + 1 /\ CanAdvance
       \/ next = wizard.step - 1 /\ wizard.enrol.state # "asked"
    /\ wizard' = [wizard EXCEPT !.step = next]
    /\ panel' = NoPanel
    /\ UNCHANGED <<server, history, swaps, edits, enrolCalls>>

\* The set-up command is copied as it is now and run, then or later, on
\* whatever machine the operator is signed in to.
CopyCommand ==
    /\ wizard.step = 3 /\ wizard.mode = "manual"
    /\ wizard.copied # <<Form.account, Form.key>>
    /\ wizard' = [wizard EXCEPT !.copied = <<Form.account, Form.key>>]
    /\ UNCHANGED <<panel, server, history, swaps, edits, enrolCalls>>
RunCopied(machine) ==
    /\ wizard.copied # <<>>
    /\ prepared' = prepared \cup {<<machine>> \o wizard.copied}
    /\ UNCHANGED <<page, answers, keyList, installs, enrolled, history, swaps, edits, enrolCalls>>

AskProbe ==
    /\ wizard.step = 1 /\ Form.address # Blank /\ wizard.probe.state # "asked" /\ Calling
    /\ wizard' = [wizard EXCEPT !.probe = Ask(Form)]
    /\ UNCHANGED <<panel, server, history, swaps, edits>>
\* probeAddress: what it says of the address asked about is not told apart.
ProbeAnswered ==
    /\ wizard.probe.state = "asked"
    /\ wizard' = [wizard EXCEPT !.probe.state = "done"]
    /\ UNCHANGED <<panel, server, history, swaps, edits, enrolCalls>>

CanCheck == Blank \notin {Form[field] : field \in DOMAIN Form}
AskCheck ==
    /\ wizard.step = 4 /\ CanCheck /\ wizard.check.state # "asked" /\ Calling
    /\ wizard' = [wizard EXCEPT !.check = Ask(Form)]
    /\ UNCHANGED <<panel, server, history, swaps, edits>>

\* checkHost: connected only when the key presented is the one expected; ready
\* when the account was prepared for the key on that machine.
ProbedKey(address) == answers[address]
Presented(target) == ProbedKey(target.address) = target.print
CheckAnswered ==
    LET target == wizard.check.of
        ready == Presented(target) /\ <<target.print, target.account, target.key>> \in prepared
    IN  /\ wizard.check.state = "asked"
        /\ \/ /\ wizard' = [wizard EXCEPT !.check.state = "done", !.check.ready = ready]
              /\ found' = IF ready THEN found \cup {target} ELSE found
           \/ /\ wizard' = [wizard EXCEPT !.check.state = "failed"]
              /\ UNCHANGED found
        /\ UNCHANGED <<panel, server, confirmedAt, rootSeen, swaps, edits, enrolCalls>>

\* Mutation of CheckedReady: a ready check counts whatever it was about.
CheckedSomething == wizard.check.state = "done" /\ wizard.check.ready

\* checkedReady: the check that is shown was about what the form says now.
CheckedReady == wizard.check.state = "done" /\ wizard.check.ready /\ wizard.check.of = Form
SubmitEnrolment ==
    /\ wizard.step = 4 /\ wizard.enrol.state # "asked" /\ Form.print # Blank /\ CheckedReady /\ Calling
    /\ wizard' = [wizard EXCEPT !.enrol = Ask(Form)]
    /\ UNCHANGED <<panel, server, history, swaps, edits>>

\* enroll: the key is read again and must be the expected one.
Enroll ==
    LET target == wizard.enrol.of
    IN  /\ wizard.enrol.state = "asked"
        /\ IF Presented(target)
             THEN \/ /\ enrolled' = enrolled \cup {target}
                     /\ wizard' = [wizard EXCEPT !.step = 5, !.enrol.state = "done"]
                  \/ wizard' = [wizard EXCEPT !.enrol.state = "failed"] /\ UNCHANGED enrolled
             ELSE wizard' = [wizard EXCEPT !.enrol.state = "failed"] /\ UNCHANGED enrolled
        /\ UNCHANGED <<panel, answers, prepared, keyList, installs, history, swaps, edits, enrolCalls>>

-----------------------------------------------------------------------------
\* The express panel: read the host key, confirm it, give a root credential.
OnPanel == wizard.step = 3 /\ wizard.mode = "express"
ReadKey ==
    /\ OnPanel /\ panel.read.state # "asked" /\ Calling
    /\ panel' = [panel EXCEPT !.confirmed = Blank, !.outcome = "none", !.read = Ask(Form)]
    /\ UNCHANGED <<wizard, server, history, swaps, edits>>
\* readHostKey
KeyRead ==
    /\ panel.read.state = "asked"
    /\ \/ panel' = [panel EXCEPT !.read.state = "done", !.read.of.print = ProbedKey(panel.read.of.address)]
       \/ panel' = [panel EXCEPT !.read.state = "failed"]
    /\ UNCHANGED <<wizard, server, history, swaps, edits, enrolCalls>>
Confirm ==
    LET key == panel.read.of.print
    IN  /\ OnPanel /\ panel.read.state = "done" /\ panel.confirmed # key
        /\ panel' = [panel EXCEPT !.confirmed = key]
        /\ confirmedAt' = confirmedAt \cup {<<Form.address, key>>}
        /\ UNCHANGED <<wizard, server, found, rootSeen, swaps, edits, enrolCalls>>
EnterSecret ==
    /\ OnPanel /\ ~panel.secret
    /\ panel' = [panel EXCEPT !.secret = TRUE, !.outcome = "none"]
    /\ UNCHANGED <<wizard, server, history, swaps, edits, enrolCalls>>

\* install: the target is the form's, the expected key the confirmed one.  To
\* unlock is offered when the account was found locked, beside the main button,
\* which waits for a confirmed key and the secret; an account is found locked only
\* with a confirmed key, and to read another takes the outcome away.
Install(unlock) ==
    /\ OnPanel /\ panel.busy = 0 /\ Calling
    /\ IF unlock THEN panel.outcome = "locked" ELSE panel.secret
    /\ panel.confirmed # Blank
    /\ installs' = installs \cup
         {[id |-> enrolCalls', target |-> [Form EXCEPT !.print = panel.confirmed], unlock |-> unlock, pc |-> "connect"]}
    /\ panel' = [panel EXCEPT !.outcome = "none", !.busy = enrolCalls']
    /\ UNCHANGED <<wizard, answers, prepared, keyList, enrolled, history, swaps, edits>>

\* Mutation of Verified: the root session takes whatever key is presented.
VerifiedAny(i) == TRUE

\* createRootSession verifies the key before the credential is offered.
Verified(i) == Presented(i.target)

\* The page hears of it while the panel that asked is still there: ready fills
\* in the fingerprint, without a reset of the check, and goes to the last step.
Report(i, outcome) ==
    IF panel.busy # i.id THEN UNCHANGED page
    ELSE IF outcome = "ready"
      THEN wizard' = [wizard EXCEPT !.form.print = i.target.print, !.step = 4] /\ panel' = NoPanel
      ELSE panel' = [panel EXCEPT !.busy = 0, !.outcome = outcome] /\ UNCHANGED wizard

RootConnect(i) ==
    /\ i.pc = "connect"
    /\ \/ /\ Verified(i)
          /\ rootSeen' = rootSeen \cup {<<i.target.address, answers[i.target.address]>>}
          /\ \/ installs' = (installs \ {i}) \cup {[i EXCEPT !.pc = "run"]} /\ UNCHANGED page
             \/ installs' = installs \ {i} /\ Report(i, "refused")
       \/ /\ installs' = installs \ {i}
          /\ Report(i, IF Verified(i) THEN "unreachable" ELSE "key-mismatch")
          /\ UNCHANGED rootSeen
    /\ UNCHANGED <<answers, prepared, keyList, enrolled, found, confirmedAt, swaps, edits, enrolCalls>>

\* execViaChannel: the script exits, or the call gives up on it and it may
\* yet finish.
ScriptRan(i, ended) ==
    LET done == prepared \cup {<<i.target.print, i.target.account, i.target.key>>}
    IN  prepared' \in CASE ended \in {"printed", "printed other"} -> {done}
                      [] ended = "locked" -> {prepared}
                      [] ended = "gave up" -> {prepared, done}

\* scriptOutcome and runFailureOutcome: the printed fingerprint must be the
\* confirmed one.
ScriptOutcome(ended) ==
    CASE ended = "printed" -> "ready"
      [] ended = "printed other" -> "key-mismatch"
      [] ended = "locked" -> "locked"
      [] ended = "gave up" -> "script-failed"
ScriptEnds(i, ended) ==
    /\ i.pc = "run" /\ (ended = "locked" => ~i.unlock)
    /\ installs' = installs \ {i}
    /\ ScriptRan(i, ended)
    /\ Report(i, ScriptOutcome(ended))
    /\ UNCHANGED <<answers, keyList, enrolled, history, swaps, edits, enrolCalls>>

LeaveForManual ==
    /\ OnPanel /\ panel.outcome \in {"locked", "refused", "key-mismatch", "unreachable", "script-failed"}
    /\ wizard' = [wizard EXCEPT !.mode = "manual"]
    /\ panel' = NoPanel
    /\ UNCHANGED <<server, history, swaps, edits, enrolCalls>>

\* Another machine answers at an address.
Swap(a, machine) ==
    /\ swaps < MaxSwaps /\ swaps' = swaps + 1
    /\ answers' = [answers EXCEPT ![a] = machine]
    /\ UNCHANGED <<page, prepared, keyList, installs, enrolled, history, edits, enrolCalls>>

-----------------------------------------------------------------------------
EnrolInit ==
    /\ answers = [a \in HostAddresses |-> CHOOSE machine \in Prints : TRUE]
    /\ prepared = {} /\ keyList = {} /\ installs = {} /\ enrolled = {}
    /\ wizard = FreshWizard /\ panel = NoPanel
    /\ found = {} /\ confirmedAt = {} /\ rootSeen = {}
    /\ swaps = 0 /\ edits = 0 /\ enrolCalls = 0

EnrolNext ==
    \/ \E field \in DOMAIN NoForm : \E value \in ValuesOf(field) : SetField(field, value)
    \/ \E k \in SshKeys : GenerateKey(k) \/ KeyAdded(k)
    \/ \E mode \in {"express", "manual"} : SetInstallMode(mode)
    \/ \E next \in 0..4 : ShowStep(next)
    \/ CopyCommand \/ AskProbe \/ ProbeAnswered \/ AskCheck \/ CheckAnswered \/ SubmitEnrolment \/ Enroll
    \/ ReadKey \/ KeyRead \/ Confirm \/ EnterSecret \/ LeaveForManual
    \/ \E unlock \in BOOLEAN : Install(unlock)
    \/ \E i \in installs : RootConnect(i)
                        \/ \E ended \in {"printed", "printed other", "locked", "gave up"} : ScriptEnds(i, ended)
    \/ \E machine \in Prints : RunCopied(machine) \/ \E a \in HostAddresses : Swap(a, machine)

EnrolSpec == EnrolInit /\ [][EnrolNext]_enrolVars

\* A host is enrolled only as a check found it ready: same address, account,
\* key and fingerprint, however the form changed while answers were under way
\* and although an express set-up fills in the fingerprint beside a check that
\* is still shown (checkedReady, submit).
EnrolledWasChecked == enrolled \subseteq found

\* A root credential is offered only to a machine whose key an operator
\* confirmed for that very address, also after the panel was left, the key
\* read again or another machine took the address (install, createRootSession).
RootOnlyToConfirmed == rootSeen \subseteq confirmedAt

\* A probe's answer is shown beside the address it is about (addressInput).
ProbeIsOfTheAddress == wizard.probe.state # "idle" => wizard.probe.of.address = Form.address

\* Whatever order answers, edits and changes of machine come in, the wizard
\* vets what it enrols, what it trusts with root and what it shows.
EnrolmentIsVetted == EnrolledWasChecked /\ RootOnlyToConfirmed /\ ProbeIsOfTheAddress
=============================================================================
