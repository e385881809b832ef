-------------------------- MODULE HostPreparation --------------------------
(***************************************************************************)
(* Getting a machine ready to run bots: the setup script, run as root by   *)
(* the operator or by express install, the host check the wizard asks for, *)
(* and the first steps of provisioning, which look at the same facts.      *)
(* Runs of the script may overlap (a run whose connection was cut may go   *)
(* on while the operator starts another) and may end anywhere.             *)
(***************************************************************************)
EXTENDS Naturals, Sequences

CONSTANTS
    Machines,   \* machines a host may be before it is prepared
    Runs,       \* runs of the setup script
    MaxRuns     \* bound: runs started

ASSUME PrepareAssumption == MaxRuns \in Nat

\* What the script, the check and provisioning look at.  The shell may run
\* commands or not; the home folder may be missing, where the account cannot
\* make one, or have a path that is not the account's own or not a plain one;
\* podman info may name the driver of a rootless Podman, say that Podman is not
\* rootless, or say nothing that can be read.
Facts ==
    [account : {"missing", "locked", "open"}, root : BOOLEAN, shell : BOOLEAN,
     home : {"missing", "odd", "own"}, key : {"no", "authorised", "restricted"},
     systemd : BOOLEAN, linger : BOOLEAN, supported : BOOLEAN, podman : Nat,
     candidate : Nat, helpers : SUBSET {"pasta", "slirp4netns"},
     ranges : BOOLEAN, cgroup2 : BOOLEAN, storage : {"fresh", "set-up", "used"},
     driver : {"overlay", "other", "rootful", "silent"}, override : BOOLEAN]

ASSUME MachinesAssumption == Machines \subseteq Facts

VARIABLES
    machine,   \* the host, as its account sees it
    runs,      \* where each run of the script is
    started,   \* runs started
    printed,   \* some run printed the fingerprint
    verdict    \* the last host check: none, ready or blocked

prepareVars == <<machine, runs, started, printed, verdict>>

-----------------------------------------------------------------------------
NoRun == [at |-> 0, create |-> FALSE, unlock |-> FALSE]
PodmanFloor == 4

\* requiredStackFor: pasta since Podman 5.
StackFor(major) == IF major >= 5 THEN "pasta" ELSE "slirp4netns"
MeetsFloor(m) == m.podman >= PodmanFloor

\* The script's sections in their order, each with what must hold for it to
\* go on and what it leaves.
Sections == <<"account", "root", "lock", "authorise", "linger", "architecture", "podman", "ranges", "signIn">>

\* createSection and missingSection.
AccountSection(m, run) ==
    IF m.account # "missing" THEN {m}
    ELSE IF run.create THEN {[m EXCEPT !.account = "open", !.shell = TRUE, !.home = "own"]}
    ELSE {}

RootSection(m) == IF m.root THEN {} ELSE {m}

\* lockSection: unlocked when granted; nobody answers a terminal otherwise.
LockSection(m, run) ==
    IF m.account # "locked" THEN {m} ELSE IF run.unlock THEN {[m EXCEPT !.account = "open"]} ELSE {}

\* AUTHORISE: the home must be there; a key in it is left alone, a restricted one refused.
AuthoriseSection(m) ==
    IF m.home = "missing" \/ m.key = "restricted" THEN {} ELSE {[m EXCEPT !.key = "authorised"]}

\* loginctl comes with systemd.
LingerSection(m) == IF m.systemd THEN {[m EXCEPT !.linger = TRUE]} ELSE {}
ArchitectureSection(m) == IF m.supported THEN {m} ELSE {}

\* Mutation of PodmanSection: a distribution without the package is passed over.
PodmanPassedOver(m) ==
    IF m.podman # 0 \/ m.candidate = 0 THEN {m}
    ELSE {[m EXCEPT !.podman = m.candidate, !.helpers = @ \cup {StackFor(m.candidate)}]}

\* PODMAN_SECTION: installed with the helper its version needs; a Podman
\* that is there is left alone, whatever its version and helpers.
PodmanSection(m) ==
    IF m.podman # 0 THEN {m}
    ELSE IF m.candidate = 0 THEN {}
    ELSE {[m EXCEPT !.podman = m.candidate, !.helpers = @ \cup {StackFor(m.candidate)}]}

RangesSection(m) == {[m EXCEPT !.ranges = TRUE]}

\* signInSection looks at the shell, the home and once more the lock before
\* the fingerprint is printed.
SignInSection(m) == IF m.shell /\ m.home # "missing" /\ m.account = "open" THEN {m} ELSE {}

\* The machines a section may leave; none when it stops the script.
After(section, m, run) ==
    CASE section = "account" -> AccountSection(m, run)
      [] section = "root" -> RootSection(m)
      [] section = "lock" -> LockSection(m, run)
      [] section = "authorise" -> AuthoriseSection(m)
      [] section = "linger" -> LingerSection(m)
      [] section = "architecture" -> ArchitectureSection(m)
      [] section = "podman" -> PodmanSection(m)
      [] section = "ranges" -> RangesSection(m)
      [] OTHER -> SignInSection(m)

-----------------------------------------------------------------------------
\* The check's results, one operator for each that can block.  The user id,
\* like every other fact, is read by running commands.
PodmanResult(m) == m.podman # 0 /\ MeetsFloor(m)
ReadsUid(m) == m.shell /\ ~m.root

\* readsPodmanInfo: podman info is only asked when the account has storage.
ReadsPodmanInfo(m) == ReadsUid(m) /\ PodmanResult(m) /\ ~m.override /\ m.storage # "fresh"

AccountResult(m) == ReadsUid(m) /\ ~(ReadsPodmanInfo(m) /\ m.driver = "rootful")
SystemdResult(m) == m.systemd /\ m.home # "odd"
LingeringResult(m) == m.linger
ArchitectureResult(m) == m.supported
CgroupsResult(m) == m.cgroup2
SubordinateIdsResult(m) == m.ranges

\* Mutation of NetworkHelperResult: every Podman is taken to need slirp4netns.
HelperOfOldPodman(m) == ~PodmanResult(m) \/ "slirp4netns" \in m.helpers

NetworkHelperResult(m) == ~PodmanResult(m) \/ StackFor(m.podman) \in m.helpers

\* storageResult: a fresh account is left to provisioning.
StorageResult(m) ==
    /\ ~m.override
    /\ m.storage = "fresh" \/ ~ReadsPodmanInfo(m)
       \/ ~(m.driver = "other" \/ (m.driver = "silent" /\ m.storage = "used"))

Reachable(m) == m.account = "open" /\ m.key = "authorised"
CheckReady(m) ==
    /\ Reachable(m) /\ AccountResult(m) /\ SystemdResult(m) /\ LingeringResult(m) /\ ArchitectureResult(m)
    /\ PodmanResult(m) /\ CgroupsResult(m) /\ SubordinateIdsResult(m) /\ NetworkHelperResult(m)
    /\ StorageResult(m)

\* provisionHost up to its client download: readSystem, lingering,
\* networkStackFor, the storage step, the architecture.
ReadSystem(m) == m.shell /\ ~m.root /\ m.systemd /\ m.home # "odd"
NetworkStackFor(m) ==
    ~m.root /\ m.podman # 0 /\ MeetsFloor(m) /\ m.cgroup2 /\ m.ranges /\ StackFor(m.podman) \in m.helpers

\* storageStepCommand: settings refused, a fresh account set up in its home,
\* then podman info must say rootless and overlay.
StorageStep(m) == ~m.override /\ m.home # "missing" /\ m.driver = "overlay"
StorageAfter(m) == IF StorageStep(m) /\ m.storage = "fresh" THEN "set-up" ELSE m.storage
Provisions(m) ==
    Reachable(m) /\ ReadSystem(m) /\ m.linger /\ NetworkStackFor(m) /\ StorageStep(m) /\ m.supported

-----------------------------------------------------------------------------
NoMachine == [account |-> "none"]

MachineChosen ==
    /\ machine = NoMachine
    /\ machine' \in Machines
    /\ UNCHANGED <<runs, started, printed, verdict>>

\* expressSetupCommand, or the command the operator copied.
ScriptStarts(r, create, unlock) ==
    /\ machine # NoMachine /\ runs[r] = NoRun /\ started < MaxRuns
    /\ runs' = [runs EXCEPT ![r] = [at |-> 1, create |-> create, unlock |-> unlock]]
    /\ started' = started + 1
    /\ UNCHANGED <<machine, printed, verdict>>

ScriptStep(r) ==
    /\ runs[r].at \in DOMAIN Sections
    /\ \E m \in After(Sections[runs[r].at], machine, runs[r]) : machine' = m
    /\ runs' = [runs EXCEPT ![r].at = @ + 1]
    /\ UNCHANGED <<started, printed, verdict>>

\* A section stops the script, a command of it fails, or the session is cut
\* and takes the script with it.
ScriptStops(r) ==
    /\ runs[r].at \in DOMAIN Sections
    /\ runs' = [runs EXCEPT ![r] = NoRun]
    /\ UNCHANGED <<machine, started, printed, verdict>>

\* The fingerprint is printed, from which express install takes "ready".
ScriptPrints(r) ==
    /\ runs[r].at = Len(Sections) + 1
    /\ printed' = TRUE
    /\ runs' = [runs EXCEPT ![r] = NoRun]
    /\ UNCHANGED <<machine, started, verdict>>

CheckHost ==
    /\ machine # NoMachine
    /\ verdict' = IF CheckReady(machine) THEN "ready" ELSE "blocked"
    /\ UNCHANGED <<machine, runs, started, printed>>

\* Provisioning's storage step; what follows does not change the facts.
ProvisionStorage ==
    /\ machine # NoMachine /\ Reachable(machine) /\ ReadSystem(machine)
    /\ machine.linger /\ NetworkStackFor(machine)
    /\ machine' = [machine EXCEPT !.storage = StorageAfter(machine)]
    /\ UNCHANGED <<runs, started, printed, verdict>>

PrepareInit ==
    /\ machine = NoMachine /\ runs = [r \in Runs |-> NoRun] /\ started = 0
    /\ printed = FALSE /\ verdict = "none"

PrepareNext ==
    \/ MachineChosen
    \/ \E r \in Runs :
        \/ \E create, unlock \in BOOLEAN : ScriptStarts(r, create, unlock)
        \/ ScriptStep(r) \/ ScriptStops(r) \/ ScriptPrints(r)
    \/ CheckHost \/ ProvisionStorage

PrepareSpec == PrepareInit /\ [][PrepareNext]_prepareVars

\* A fingerprint is printed only by a machine that is prepared, whatever runs
\* stopped half way or overlapped before: "Running it again is safe."
PrintedMeansPrepared ==
    printed => /\ machine.account = "open" /\ machine.shell /\ machine.home # "missing"
               /\ machine.key = "authorised" /\ machine.systemd /\ machine.linger
               /\ machine.podman # 0 /\ machine.ranges /\ machine.supported

\* The host check and provisioning judge the same facts alike: what
\* provisioning would accept the check does not block, and a host found ready
\* is accepted, unless Podman itself does not answer or does not give a fresh
\* account rootless overlay storage, which the check says is left to
\* provisioning, or the home folder is not there, which the check never looks at.
CheckAgreesWithProvisioning ==
    machine # NoMachine =>
        /\ Provisions(machine) => CheckReady(machine)
        /\ (CheckReady(machine) /\ ~Provisions(machine))
             => \/ machine.driver = "silent" \/ machine.home = "missing"
                \/ machine.storage = "fresh" /\ machine.driver \in {"other", "rootful"}

\* What an administrator is told of a machine (prepare-host.sh, checkHost) is
\* what provisioning will find.
PreparationIsHonest == PrintedMeansPrepared /\ CheckAgreesWithProvisioning
=============================================================================
