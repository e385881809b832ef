---------------------------- MODULE MCOnboarding ----------------------------
(* What happens before hosts run bots, and towards the outside: preparing a   *)
(* machine and checking it, the enrolment wizard, the self-host script and    *)
(* installer, the check for updates and its release notes, the processes of   *)
(* an upgrade, and sending messages.  These parts share no state, so each     *)
(* behaviour takes the steps of one part, chosen at the start.                *)
EXTENDS HostPreparation, EnrolWizard, SelfHost, UpdateCheck, ReleaseNotes, ControlPlane, MessageSenders

VARIABLE part

Parts == {"preparation", "enrolment", "self-host", "updates", "notes", "processes", "senders"}

onboardingVars == <<part, prepareVars, enrolVars, selfHostVars, updateVars, draft, fleetVars, sendVars>>

OnboardingInit ==
    /\ part \in Parts
    /\ PrepareInit /\ EnrolInit /\ SelfHostInit /\ UpdateInit /\ NotesInit /\ FleetInit /\ SendInit

\* Part p takes the step: no other part's variables change.
Only(p) ==
    /\ part = p /\ UNCHANGED part
    /\ IF p = "preparation" THEN TRUE ELSE UNCHANGED prepareVars
    /\ IF p = "enrolment" THEN TRUE ELSE UNCHANGED enrolVars
    /\ IF p = "self-host" THEN TRUE ELSE UNCHANGED selfHostVars
    /\ IF p = "updates" THEN TRUE ELSE UNCHANGED updateVars
    /\ IF p = "notes" THEN TRUE ELSE UNCHANGED draft
    /\ IF p = "processes" THEN TRUE ELSE UNCHANGED fleetVars
    /\ IF p = "senders" THEN TRUE ELSE UNCHANGED sendVars

OnboardingNext ==
    \/ Only("preparation") /\ PrepareNext
    \/ Only("enrolment") /\ EnrolNext
    \/ Only("self-host") /\ SelfHostNext
    \/ Only("updates") /\ UpdateNext
    \/ Only("notes") /\ NotesNext
    \/ Only("processes") /\ FleetNext
    \/ Only("senders") /\ SendNext

OnboardingSpec == OnboardingInit /\ [][OnboardingNext]_onboardingVars

-----------------------------------------------------------------------------
(* The instance.  Runs of the setup script, administrators and servers are     *)
(* given the same values: they are interchangeable in their part, and so are   *)
(* builds; one part moves.                                                     *)
Alike == Permutations(Runs) \cup Permutations(Builds)

\* Bound: a third start of a process is kept apart from a broken connection, a
\* third edit of the wizard's form from a fourth call, and a second change of
\* what a name resolves to from a second attempt.
Apart ==
    /\ boots <= 2 \/ broken = 0
    /\ edits <= 2 \/ enrolCalls <= 3
    /\ turns <= 1 \/ send.tries <= 1

\* Machines that differ from a prepared one in at most two respects, and from
\* a bare one in at most one.
Ready ==
    [account |-> "open", root |-> FALSE, shell |-> TRUE, home |-> "own", systemd |-> TRUE,
     key |-> "authorised", linger |-> TRUE, supported |-> TRUE, podman |-> 5, candidate |-> 5, helpers |-> {"pasta"}, ranges |-> TRUE, cgroup2 |-> TRUE, storage |-> "fresh",
     driver |-> "overlay", override |-> FALSE]
Untouched ==
    [Ready EXCEPT !.account = "missing", !.shell = FALSE, !.home = "missing", !.key = "no",
                  !.linger = FALSE, !.podman = 0, !.helpers = {}, !.ranges = FALSE]
Respects ==
    [account |-> {"missing", "locked", "open"}, root |-> BOOLEAN, shell |-> BOOLEAN,
     home |-> {"missing", "odd", "own"}, systemd |-> BOOLEAN, key |-> {"no", "authorised", "restricted"},
     linger |-> BOOLEAN, supported |-> BOOLEAN, podman |-> {0, 3, 4, 5}, candidate |-> {0, 4, 5},
     helpers |-> SUBSET {"pasta", "slirp4netns"}, ranges |-> BOOLEAN, cgroup2 |-> BOOLEAN,
     storage |-> {"fresh", "set-up", "used"}, driver |-> {"overlay", "other", "rootful", "silent"}, override |-> BOOLEAN]
Near(m) == UNION {{[m EXCEPT ![f] = v] : v \in Respects[f]} : f \in DOMAIN Ready}
\* No storage is kept in a home that is not there.
NearMachines ==
    {m \in UNION {Near(n) : n \in Near(Ready)} \cup Near(Untouched) : m.home = "missing" => m.storage = "fresh"}

\* Addresses of four bits, in ranges like those of the code.
IpRange(b, k) == [base |-> b, bits |-> k]
NeverHere == [v4 |-> {IpRange(0, 2)}, v6 |-> {IpRange(15, 4)}]
SoftHere == [v4 |-> {IpRange(4, 2), IpRange(8, 3)}, v6 |-> {IpRange(6, 4)}]
GlobalHere == IpRange(4, 2)
AllowedHere == [v4 |-> {IpRange(8, 4)}, v6 |-> {}]

Ip(f, n) == [family |-> f, n |-> n]
EveryIp == {Ip(f, n) : f \in {"v4", "v6", "mapped"}, n \in 0..15}
HostNamed(n, l) == [literal |-> FALSE, name |-> n, local |-> l, address |-> Ip("v4", 0)]
HostLiteral(a) == [literal |-> TRUE, name |-> "literal", local |-> FALSE, address |-> a]
Example == HostNamed("example", FALSE)
Setting(k, s, sh, h, i) == [kind |-> k, scheme |-> s, shape |-> sh, host |-> h, implicit |-> i]

SomeSettings ==
    {Setting("webhook", s, sh, h, FALSE) : s \in {"https", "http"}, sh \in {"plain", "odd"},
        h \in {Example, HostNamed("inside", TRUE), HostNamed("other", TRUE)}}
    \cup {Setting("webhook", s, "plain", HostLiteral(a), FALSE) : s \in {"https", "http"}, a \in EveryIp}
    \cup {Setting(k, "https", "plain", Example, FALSE) : k \in {"telegram", "resend", "discord", "gotify"}}
    \cup {Setting("email", "smtp", "plain", Example, i) : i \in BOOLEAN}
SomeAnswers ==
    {<<a>> : a \in EveryIp}
    \cup {<<>>, <<Ip("unreadable", 0)>>, <<Ip("v4", 12), Ip("v4", 4)>>, <<Ip("v4", 12), Ip("v6", 5)>>,
          <<Ip("v4", 12), Ip("mapped", 13), Ip("v6", 4)>>, <<Ip("v4", 8), Ip("v4", 9)>>}
=============================================================================
