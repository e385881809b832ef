------------------------------ MODULE SelfHost ------------------------------
(***************************************************************************)
(* The installer and the script that lets a control plane manage the very  *)
(* machine it runs on: scripts/install.sh writes .env once and then has    *)
(* scripts/self-host.sh put a restricted key in the account's              *)
(* authorized_keys, prove that it works and from which address, and write  *)
(* the materials the control plane enrols the machine from.                *)
(* A run of the script is its commands in order.  A signal may end it      *)
(* between any two, and it takes back what it noted it wrote.  Somebody    *)
(* else may edit authorized_keys at any time.                              *)
(***************************************************************************)
EXTENDS Naturals, Sequences, SequencesExt

CONSTANTS
    Administrators,  \* who may adopt the machine from the Hosts page
    MaxScripts,      \* bound: runs of self-host.sh
    MaxOutside       \* bound: edits of authorized_keys by somebody else

ASSUME SelfHostAssumption == MaxScripts \in Nat /\ MaxOutside \in Nat

VARIABLES
    home,       \* the account's .ssh: directory, key pair, forced command, authorized_keys
    script,     \* the run of self-host.sh
    materials,  \* .env.self-host: the key it names and how far reaching it was proven
    installer,  \* where install.sh is
    envFile,    \* .env: whether written, and what it says of this machine
    adoption,   \* by administrator: where adopting is
    keyRows,    \* ssh keys the organisation stores for this machine
    scripts, outside

selfHostVars == <<home, script, materials, installer, envFile, adoption, keyRows, scripts, outside>>

-----------------------------------------------------------------------------
Restricted(key) == [key |-> key, options |-> "restricted"]
Bare(key) == [key |-> key, options |-> "bare"]
NoFile == [there |-> FALSE, lines |-> <<>>]
NoMaterials == [key |-> "none", reach |-> "unproven"]

\* What the script may be given: nothing, one public key, two, or text that is none.
Supplied == {<<>>, <<"given">>, <<"given", "second">>, <<"unreadable">>}
MintedKey == <<"minted">>

NewRun(input) ==
    [at |-> "key", input |-> input, wrote |-> {}, listed |-> FALSE, private |-> FALSE, reach |-> "unproven",
     filtered |-> <<>>, before |-> home, unnoted |-> FALSE, disturbed |-> FALSE]

Go(at) == script' = [script EXCEPT !.at = at]
Die == Go("undo")
Keep == UNCHANGED <<installer, envFile, adoption, keyRows, scripts, outside>>
Running == script.at \notin {"never", "finished", "failed"}

-----------------------------------------------------------------------------
(* self-host.sh *)

\* Arguments, root, the tools and HOME are looked at before anything is written, and so is sshd.
StartScript(input) ==
    /\ ~Running /\ scripts < MaxScripts
    /\ scripts' = scripts + 1
    /\ \/ script' = NewRun(input)
       \/ script' = [NewRun(input) EXCEPT !.at = "failed"]

\* KEY_LINES: exactly one public key, on one line.
\* Mutation of OneKey: however many keys the text holds.
OneKeyOrMore(input) == input # <<"unreadable">>
OneKey(input) == Len(input) = 1 /\ input # <<"unreadable">>

\* 2. The key: the one supplied, the one already minted, or a new one.
ChooseTheKey ==
    /\ script.at = "key"
    /\ IF script.input # <<>>
       THEN IF OneKey(script.input) THEN Go("check") ELSE Die
       ELSE IF home.key # home.pub THEN Die
       ELSE IF home.key THEN script' = [script EXCEPT !.at = "check", !.private = TRUE, !.input = MintedKey]
       ELSE Go(IF home.dir THEN "mint" ELSE "dir")
    /\ UNCHANGED <<home, materials>> /\ Keep

\* make_ssh_dir: the directory, and the note that this run made it.
MakeSshDir ==
    /\ script.at \in {"dir", "dir again"}
    /\ home' = [home EXCEPT !.dir = TRUE]
    /\ script' = [script EXCEPT !.at = IF @ = "dir" THEN "dir made" ELSE "dir made again", !.unnoted = ~home.dir]
    /\ UNCHANGED materials /\ Keep
NoteSshDir ==
    /\ script.at \in {"dir made", "dir made again"}
    /\ script' = [script EXCEPT !.at = IF @ = "dir made" THEN "mint" ELSE "wrapper", !.wrote = @ \cup {"dir"}, !.unnoted = FALSE]
    /\ UNCHANGED <<home, materials>> /\ Keep

MintKey ==
    /\ script.at = "mint"
    /\ \/ /\ home' = [home EXCEPT !.key = TRUE, !.pub = TRUE]
          /\ script' = [script EXCEPT !.at = "check", !.wrote = @ \cup {"key"}, !.private = TRUE, !.input = MintedKey]
       \/ UNCHANGED home /\ script' = [script EXCEPT !.at = "undo", !.wrote = @ \cup {"key"}]
    /\ UNCHANGED materials /\ Keep

\* 3. What authorized_keys already says about this key.
TheKey == script.input[1]
Lists(line) == home.file.there /\ \E i \in DOMAIN home.file.lines : home.file.lines[i] = line
CheckAuthorizedKeys ==
    /\ script.at = "check"
    /\ IF Lists(Bare(TheKey)) THEN Die
       ELSE script' = [script EXCEPT !.at = IF home.wrapper # "none" THEN "entry" ELSE IF home.dir THEN "wrapper" ELSE "dir again",
                                     !.listed = Lists(Restricted(TheKey))]
    /\ UNCHANGED <<home, materials>> /\ Keep

\* 4. The forced command.
WriteWrapper ==
    /\ script.at = "wrapper"
    /\ home' = [home EXCEPT !.wrapper = "ours"]
    /\ script' = [script EXCEPT !.at = "entry", !.wrote = @ \cup {"wrapper"}]
    /\ UNCHANGED materials /\ Keep

\* 5. The entry: the file, noted, when there is none; then the line, and the note that this run appended it.
\* Either write may fail.
EmptyFile == [there |-> TRUE, lines |-> <<>>]
LeaveEntry ==
    /\ script.at = "entry" /\ script.listed
    /\ Go("verify")
    /\ UNCHANGED <<home, materials>> /\ Keep
CreateFile ==
    /\ script.at = "entry" /\ ~script.listed /\ ~home.file.there
    /\ \/ /\ home' = [home EXCEPT !.file = EmptyFile]
          /\ script' = [script EXCEPT !.at = "append", !.wrote = @ \cup {"file"}]
       \/ UNCHANGED home /\ Die
    /\ UNCHANGED materials /\ Keep
AppendEntry ==
    /\ script.at = "append" \/ (script.at = "entry" /\ ~script.listed /\ home.file.there)
    /\ \/ /\ home' = [home EXCEPT !.file.lines =
                 @ \o <<Restricted(TheKey)>> \o [i \in 1..Len(script.input) - 1 |-> Bare(script.input[i + 1])]]
          /\ script' = [script EXCEPT !.at = "appended", !.unnoted = TRUE]
       \/ UNCHANGED home /\ Die
    /\ UNCHANGED materials /\ Keep
NoteEntry ==
    /\ script.at = "appended"
    /\ script' = [script EXCEPT !.at = "verify", !.wrote = @ \cup {"entry"}, !.unnoted = FALSE]
    /\ UNCHANGED <<home, materials>> /\ Keep

\* 6. The key authenticates and opens no session of its own; a supplied key's private half is elsewhere.
Verify ==
    /\ script.at = "verify"
    /\ \/ script.private /\ Die
       \/ (script.private => Lists(Restricted(TheKey)) /\ home.wrapper = "ours") /\ Go("probe")
    /\ UNCHANGED <<home, materials>> /\ Keep

\* 8. The first candidate address that answers with one of this machine's own host keys; none without docker
\* and the image.  With a private key at hand authenticating from there is tried too.
Probe ==
    /\ script.at = "probe"
    /\ \/ Die
       \/ \E answers \in [1..2 -> {"silent", "other", "this"}] :
            LET reached == SelectInSeq(answers, LAMBDA answer : answer = "this") IN
            IF reached = 0 THEN Die
            ELSE \E reach \in IF script.private THEN {"proven", "reachable"} ELSE {"proven"} :
                   script' = [script EXCEPT !.at = "materials", !.reach = reach]
    /\ UNCHANGED <<home, materials>> /\ Keep

\* 9. The materials, and FINISHED.
WriteMaterials ==
    /\ script.at = "materials"
    /\ materials' = [key |-> TheKey, reach |-> script.reach]
    /\ Go("written")
    /\ UNCHANGED home /\ Keep
FinishScript == script.at = "written" /\ Go("finished") /\ UNCHANGED <<home, materials>> /\ Keep

\* HUP, INT, TERM: the exit trap takes back.
Signal ==
    /\ Running /\ script.at \notin {"undo", "filtered", "undo rest"}
    /\ Die
    /\ UNCHANGED <<home, materials>> /\ Keep

\* take_back: a copy of authorized_keys without the last line equal to this run's entry (the copy may fail,
\* which is warned of), put in its place, ...
WithoutLast(lines, line) ==
    LET at == SelectLastInSeq(lines, LAMBDA l : l = line) IN IF at = 0 THEN lines ELSE RemoveAt(lines, at)
FilterEntry ==
    /\ script.at = "undo"
    /\ IF "entry" \in script.wrote /\ home.file.there /\ Lists(Restricted(TheKey))
       THEN \/ script' = [script EXCEPT !.at = "filtered", !.filtered = WithoutLast(home.file.lines, Restricted(TheKey))]
            \/ script' = [script EXCEPT !.at = "undo rest", !.disturbed = TRUE]
       ELSE Go("undo rest")
    /\ UNCHANGED <<home, materials>> /\ Keep
ReplaceFile ==
    /\ script.at = "filtered"
    /\ home' = [home EXCEPT !.file = IF "file" \in script.wrote /\ script.filtered = <<>> THEN NoFile ELSE [@ EXCEPT !.lines = script.filtered]]
    /\ Go("undo rest")
    /\ UNCHANGED materials /\ Keep
\* ... then the forced command, the key pair and the directory.
TakeBackRest ==
    LET w == script.wrote
        undone == [home EXCEPT !.wrapper = IF "wrapper" \in w THEN "none" ELSE @,
                               !.key = IF "key" \in w THEN FALSE ELSE @, !.pub = IF "key" \in w THEN FALSE ELSE @]
        empty == ~undone.key /\ undone.wrapper = "none" /\ ~undone.file.there
    IN
    /\ script.at = "undo rest"
    /\ home' = IF "dir" \in w /\ empty THEN [undone EXCEPT !.dir = FALSE] ELSE undone
    /\ Go("failed")
    /\ UNCHANGED materials /\ Keep

-----------------------------------------------------------------------------
(* install.sh *)

\* It stops where there is a .env or a database volume already; otherwise it builds, makes the secrets,
\* writes .env and starts the control plane.
InstallControlPlane ==
    /\ installer = "idle" /\ ~envFile.written
    /\ envFile' = [envFile EXCEPT !.written = TRUE]
    /\ installer' = "started"
    /\ UNCHANGED <<home, script, materials, adoption, keyRows, scripts, outside>>

\* The control plane mints and seals a key, unless this runs as root or minting fails; its public half goes
\* to the script.
OfferThisMachine ==
    /\ installer = "started"
    /\ \/ StartScript(<<"given">>) /\ installer' = "offering"
       \/ installer' = "idle" /\ UNCHANGED <<script, scripts>>
    /\ UNCHANGED <<home, materials, envFile, adoption, keyRows, outside>>

\* .env takes the materials, then the sealed private half, when the script succeeded.
AppendMaterials ==
    /\ installer = "offering" /\ ~Running
    /\ IF script.at = "finished"
       THEN envFile' = [envFile EXCEPT !.offer = materials] /\ installer' = "appending"
       ELSE installer' = "idle" /\ UNCHANGED envFile
    /\ UNCHANGED <<home, script, materials, adoption, keyRows, scripts, outside>>
AppendSealedKey ==
    /\ installer = "appending"
    /\ envFile' = [envFile EXCEPT !.sealed = TRUE]
    /\ installer' = "idle"
    /\ UNCHANGED <<home, script, materials, adoption, keyRows, scripts, outside>>

\* The operator runs the script by hand.
RunByHand ==
    /\ installer = "idle"
    /\ \E input \in Supplied : StartScript(input)
    /\ UNCHANGED <<home, materials, installer, envFile, adoption, keyRows, outside>>

-----------------------------------------------------------------------------
(* The Hosts page: adopt, which stores the key unless it finds it stored, then enrols the machine. *)
CanAdoptSelfHost == envFile.sealed /\ envFile.offer.reach = "proven"
FindKey(a) ==
    /\ adoption[a] = "idle" /\ CanAdoptSelfHost
    /\ adoption' = [adoption EXCEPT ![a] = IF keyRows > 0 THEN "enrol" ELSE "insert"]
    /\ UNCHANGED <<home, script, materials, installer, envFile, keyRows, scripts, outside>>
InsertKey(a) ==
    /\ adoption[a] = "insert"
    /\ keyRows' = keyRows + 1
    /\ adoption' = [adoption EXCEPT ![a] = "enrol"]
    /\ UNCHANGED <<home, script, materials, installer, envFile, scripts, outside>>
EnrolSelf(a) ==
    /\ adoption[a] = "enrol"
    /\ adoption' = [adoption EXCEPT ![a] = "done"]
    /\ UNCHANGED <<home, script, materials, installer, envFile, keyRows, scripts, outside>>

-----------------------------------------------------------------------------
\* Somebody else adds a line to authorized_keys, or frees a key of the restrictions.
EditAuthorizedKeys ==
    /\ outside < MaxOutside /\ outside' = outside + 1
    /\ home.dir
    /\ \/ home' = [home EXCEPT !.file = [there |-> TRUE, lines |-> Append(@.lines, Bare("theirs"))]]
       \/ \E i \in DOMAIN home.file.lines : home' = [home EXCEPT !.file.lines[i].options = "bare"]
    /\ script' = [script EXCEPT !.disturbed = TRUE]
    /\ UNCHANGED <<materials, installer, envFile, adoption, keyRows, scripts>>

SelfHostInit ==
    /\ home = [dir |-> FALSE, key |-> FALSE, pub |-> FALSE, wrapper |-> "none", file |-> NoFile]
    /\ script = [at |-> "never", disturbed |-> FALSE, unnoted |-> FALSE]
    /\ materials = NoMaterials
    /\ installer = "idle"
    /\ envFile = [written |-> FALSE, offer |-> NoMaterials, sealed |-> FALSE]
    /\ adoption = [a \in Administrators |-> "idle"]
    /\ keyRows = 0
    /\ scripts = 0 /\ outside = 0

SelfHostNext ==
    \/ ChooseTheKey \/ MakeSshDir \/ NoteSshDir \/ MintKey \/ CheckAuthorizedKeys \/ WriteWrapper
    \/ LeaveEntry \/ CreateFile \/ AppendEntry \/ NoteEntry \/ Verify \/ Probe \/ WriteMaterials \/ FinishScript
    \/ Signal \/ FilterEntry \/ ReplaceFile \/ TakeBackRest
    \/ InstallControlPlane \/ OfferThisMachine \/ AppendMaterials \/ AppendSealedKey \/ RunByHand
    \/ \E a \in Administrators : FindKey(a) \/ InsertKey(a) \/ EnrolSelf(a)
    \/ EditAuthorizedKeys

SelfHostSpec == SelfHostInit /\ [][SelfHostNext]_selfHostVars

-----------------------------------------------------------------------------
(* Properties. *)

\* No key enters authorized_keys without the restrictions: text that holds a second key is turned down.
OnlyRestrictedEntries == \A i \in DOMAIN home.file.lines :
    home.file.lines[i].options = "bare" => home.file.lines[i].key = "theirs" \/ outside > 0

\* A run that did not finish left the account as it found it: an entry an earlier run made stays, whatever
\* this one wrote is gone -- unless a signal came between a write and its note, or somebody else edited the file.
\* What a run does leave, when it ends after it made authorized_keys and before it noted a line of its own there,
\* is that file, empty, and .ssh around it: take_back looks at the file only for a run that appended to it.
FailureLeavesNothing ==
    script.at = "failed" /\ ~script.unnoted /\ ~script.disturbed =>
        \/ home = script.before
        \/ /\ "file" \in script.wrote /\ "entry" \notin script.wrote
           /\ home = [script.before EXCEPT !.dir = TRUE, !.file = EmptyFile]

\* A run that finished left the key listed under its restrictions, with the forced command in place; and
\* what .env offers stays backed like that whatever later runs of the script wrote and took back.
OfferIsBacked ==
    /\ script.at = "finished" /\ ~script.disturbed => Lists(Restricted(TheKey)) /\ home.wrapper # "none" /\ materials.key = TheKey
    /\ envFile.offer # NoMaterials /\ outside = 0 => Lists(Restricted(envFile.offer.key)) /\ home.wrapper # "none"

\* The script's word: only restricted entries, no key, entry or forced command left by a run that failed, and an
\* offer the account really backs.
SelfHostKeepsItsWord == OnlyRestrictedEntries /\ FailureLeavesNothing /\ OfferIsBacked
=============================================================================
