------------------------- MODULE ArtifactCollection -------------------------
(***************************************************************************)
(* The worker collects what a bot leaves on its host: the player list, a   *)
(* file the bot appends to, and finished replays.  The list is copied in   *)
(* chunks from a cursor kept in the bot's row, and emptied on the host     *)
(* once all of it is stored and the bot is stopped; a replay is deleted    *)
(* once stored.  Collectors may overlap (an expired job runs again), lose  *)
(* their host at any command, and die between any two steps.  The cursor   *)
(* is one per bot, while the list's name comes from the saved document.    *)
(***************************************************************************)
EXTENDS Naturals, Sequences, SequencesExt

CONSTANTS
    Collectors,     \* runs of the job that may overlap
    ListNames,      \* names the document may give the player list
    Replays,        \* replays the bot may record
    Usable,         \* those that can be carried: not too large, empty or garbled
    MaxChunk,       \* MAX_ARTIFACT_BYTES, in entries
    KeptPerKind,    \* ARTIFACTS_KEPT_PER_KIND
    MaxEntries,     \* bound: entries the bot writes
    MaxRenames,     \* bound: saved documents
    MaxSweeps       \* bound: sweeps begun

ASSUME CollectAssumption ==
    /\ {MaxChunk, KeptPerKind, MaxEntries, MaxRenames, MaxSweeps} \subseteq Nat
    /\ MaxChunk > 0 /\ Usable \subseteq Replays /\ ListNames # {}

VARIABLES
    lists,       \* the files on the host, by name; entries are numbered as written
    botRuns,     \* the bot's unit, or its sign-in's, is active
    botList,     \* the name it was started with
    listName,    \* the name in the saved document
    renames,
    written,     \* entries written so far
    listCursor,  \* playerListOffset, playerListFingerprint, playerListCursorVersion
    stored,      \* instanceArtifact rows of the list, oldest first
    everStored,  \* history: entries and replays that were stored
    emptied,     \* history: entries gone from the host
    replayFiles, \* none, recording, settled, old or gone
    leaving,     \* the host's teardown was requested
    sweep,       \* each collector's position
    sweeps

collectVars == <<lists, botRuns, botList, listName, renames, written, listCursor, stored,
                 everStored, emptied, replayFiles, leaving, sweep, sweeps>>
hostVars == <<lists, botRuns, botList, listName, renames, written, emptied, replayFiles, leaving>>
storeVars == <<listCursor, stored, everStored>>

-----------------------------------------------------------------------------
NoMark == 0
StartCursor == [offset |-> 0, mark |-> NoMark, version |-> 0]
NoRead == [size |-> 0, before |-> NoMark, chunk |-> <<>>, after |-> NoMark, stopped |-> FALSE]
IdleSweep == [pc |-> "idle", name |-> "none", cursor |-> StartCursor, read |-> NoRead, todo |-> {}]

\* fingerprintWindow: the file's last entry before a position.
Fingerprint(file, end) == IF end \in DOMAIN file THEN file[end] ELSE NoMark

\* playerListReadCommand: size, unit states, fingerprint before the offset, a
\* chunk of at most MaxChunk, fingerprint after it.
ReadFrom(file, offset) ==
    LET n == IF Len(file) < offset THEN 0
             ELSE IF Len(file) - offset > MaxChunk THEN MaxChunk ELSE Len(file) - offset
    IN  [size |-> Len(file), before |-> Fingerprint(file, offset),
         chunk |-> SubSeq(file, offset + 1, offset + n),
         after |-> Fingerprint(file, offset + n), stopped |-> ~botRuns]

SweepTo(c, r) == sweep' = [sweep EXCEPT ![c] = r]
At(c, pc) == sweep[c].pc = pc

\* stillCollecting, asked again before the truncation and before the replays.
StillCollecting == ~leaving

-----------------------------------------------------------------------------
\* The bot starts with the saved name, appends, stops; an operator saves
\* another name; the host's removal is requested.
BotStarts ==
    /\ ~botRuns
    /\ botRuns' = TRUE /\ botList' = listName
    /\ UNCHANGED <<lists, listName, renames, written, emptied, replayFiles, leaving, storeVars, sweep, sweeps>>
BotStops ==
    /\ botRuns
    /\ botRuns' = FALSE
    /\ UNCHANGED <<lists, botList, listName, renames, written, emptied, replayFiles, leaving, storeVars, sweep, sweeps>>
BotAppends ==
    /\ botRuns /\ written < MaxEntries
    /\ written' = written + 1
    /\ lists' = [lists EXCEPT ![botList] = Append(@, written + 1)]
    /\ UNCHANGED <<botRuns, botList, listName, renames, emptied, replayFiles, leaving, storeVars, sweep, sweeps>>
ListRenamed(name) ==
    /\ renames < MaxRenames /\ name # listName
    /\ listName' = name /\ renames' = renames + 1
    /\ UNCHANGED <<lists, botRuns, botList, written, emptied, replayFiles, leaving, storeVars, sweep, sweeps>>
HostLeaves ==
    /\ ~leaving
    /\ leaving' = TRUE
    /\ UNCHANGED <<lists, botRuns, botList, listName, renames, written, emptied, replayFiles, storeVars, sweep, sweeps>>

NextAge(age) == CASE age = "recording" -> "settled" [] OTHER -> "old"

\* A replay is recorded by a running bot, settles and grows old.
ReplayAges(r) ==
    /\ \/ replayFiles[r] = "none" /\ botRuns /\ replayFiles' = [replayFiles EXCEPT ![r] = "recording"]
       \/ /\ replayFiles[r] \in {"recording", "settled"}
          /\ replayFiles' = [replayFiles EXCEPT ![r] = NextAge(@)]
    /\ UNCHANGED <<lists, botRuns, botList, listName, renames, written, emptied, leaving, storeVars, sweep, sweeps>>

-----------------------------------------------------------------------------
\* The job reads the bot's row and document before it connects.
SweepBegins(c) ==
    /\ At(c, "idle") /\ StillCollecting /\ sweeps < MaxSweeps
    /\ SweepTo(c, [IdleSweep EXCEPT !.pc = "read", !.name = listName, !.cursor = listCursor])
    /\ sweeps' = sweeps + 1
    /\ UNCHANGED <<hostVars, storeVars>>

\* The host is lost, or the worker dies: what is left of the sweep is not done.
SweepLost(c) ==
    /\ ~At(c, "idle")
    /\ SweepTo(c, IdleSweep)
    /\ UNCHANGED <<hostVars, storeVars, sweeps>>

\* A cursor past the end of the file, or whose fingerprint is not the file's,
\* is reset before anything is kept.  A read that fails leaves the list alone.
ReadList(c) ==
    LET s == sweep[c]
        read == ReadFrom(lists[s.name], s.cursor.offset)
        moved == read.size < s.cursor.offset \/ read.before # s.cursor.mark
    IN  /\ At(c, "read")
        /\ \/ SweepTo(c, [s EXCEPT !.read = read, !.pc = IF moved THEN "reset" ELSE "store"])
           \/ SweepTo(c, [s EXCEPT !.pc = "replays"])
        /\ UNCHANGED <<hostVars, storeVars, sweeps>>

\* resetCursor, by the version read; the whole file is then read from 0.
CanReset(cursor) == listCursor.version = cursor.version
ResetTo(cursor) == [StartCursor EXCEPT !.version = cursor.version + 1]
ResetMoved(c) ==
    /\ At(c, "reset")
    /\ IF CanReset(sweep[c].cursor)
         THEN /\ listCursor' = ResetTo(sweep[c].cursor)
              /\ SweepTo(c, [sweep[c] EXCEPT !.cursor = listCursor', !.pc = "read"])
         ELSE SweepTo(c, [sweep[c] EXCEPT !.pc = "replays"]) /\ UNCHANGED listCursor
    /\ UNCHANGED <<hostVars, stored, everStored, sweeps>>

\* insertArtifact: a chunk already stored is not stored again.
WithChunk(rows, chunk) == IF chunk \in ToSet(rows) THEN rows ELSE Append(rows, chunk)

Advanced(s) ==
    [offset |-> s.cursor.offset + Len(s.read.chunk), mark |-> s.read.after, version |-> s.cursor.version + 1]

\* storeAndAdvance: one transaction, undone when the version has moved on.
\* The list is to be emptied when all of it was read, both units were stopped
\* and the host is still collected from.
StoreAndAdvance(c) ==
    LET s == sweep[c]
        cursor == IF s.read.chunk = <<>> THEN s.cursor ELSE Advanced(s)
        next == IF cursor.offset # 0 /\ s.read.size = cursor.offset /\ s.read.stopped /\ StillCollecting
                  THEN "truncate" ELSE "replays"
    IN  /\ At(c, "store")
        /\ \/ /\ s.read.chunk = <<>>
              /\ SweepTo(c, [s EXCEPT !.pc = next])
              /\ UNCHANGED storeVars
           \/ /\ s.read.chunk # <<>> /\ listCursor.version = s.cursor.version
              /\ stored' = WithChunk(stored, s.read.chunk)
              /\ everStored' = everStored \cup ToSet(s.read.chunk)
              /\ listCursor' = cursor
              /\ SweepTo(c, [s EXCEPT !.cursor = cursor, !.pc = next])
           \/ /\ s.read.chunk # <<>> /\ listCursor.version # s.cursor.version
              /\ SweepTo(c, [s EXCEPT !.pc = "replays"])
              /\ UNCHANGED storeVars
        /\ UNCHANGED <<hostVars, sweeps>>

\* Mutation of StillAsRead: the file is not looked at again on the host.
StillThere(file, cursor) == ~botRuns

\* truncateCommand, under the lock a starting unit takes: both units stopped,
\* the size and the fingerprint those of the cursor.  Its answer may be lost.
StillAsRead(file, cursor) ==
    /\ ~botRuns
    /\ Len(file) = cursor.offset
    /\ Fingerprint(file, cursor.offset) = cursor.mark

TruncateList(c) ==
    LET s == sweep[c]
    IN  /\ At(c, "truncate")
        /\ IF StillAsRead(lists[s.name], s.cursor)
             THEN /\ lists' = [lists EXCEPT ![s.name] = <<>>]
                  /\ emptied' = emptied \cup ToSet(lists[s.name])
                  /\ \E pc \in {"restart", "replays"} : SweepTo(c, [s EXCEPT !.pc = pc])
             ELSE SweepTo(c, [s EXCEPT !.pc = "replays"]) /\ UNCHANGED <<lists, emptied>>
        /\ UNCHANGED <<botRuns, botList, listName, renames, written, replayFiles, leaving, storeVars, sweeps>>

\* The cursor of the emptied list starts over, unless it moved meanwhile.
RestartCursor(c) ==
    /\ At(c, "restart")
    /\ listCursor' = IF CanReset(sweep[c].cursor) THEN ResetTo(sweep[c].cursor) ELSE listCursor
    /\ SweepTo(c, [sweep[c] EXCEPT !.pc = "replays"])
    /\ UNCHANGED <<hostVars, stored, everStored, sweeps>>

\* The settled replays are listed once.
ListReplays(c) ==
    /\ At(c, "replays")
    /\ SweepTo(c, IF StillCollecting
                    THEN [sweep[c] EXCEPT !.pc = "copy",
                             !.todo = {r \in Replays : replayFiles[r] \in {"settled", "old"}}]
                    ELSE [sweep[c] EXCEPT !.pc = "prune"])
    /\ UNCHANGED <<hostVars, storeVars, sweeps>>

\* decodeHostBytes leaves out what cannot be carried; the rest is stored
\* (KeepReplay) and then deleted (DropReplay), or the deletion fails.
CanCarry(r) == r \in Usable /\ replayFiles[r] # "gone"
KeepReplay(c, r) ==
    /\ At(c, "copy") /\ r \in sweep[c].todo
    /\ IF CanCarry(r)
         THEN /\ everStored' = everStored \cup {r}
              /\ SweepTo(c, [sweep[c] EXCEPT !.pc = "drop", !.name = r])
         ELSE SweepTo(c, [sweep[c] EXCEPT !.todo = @ \ {r}]) /\ UNCHANGED everStored
    /\ UNCHANGED <<hostVars, listCursor, stored, sweeps>>
DropReplay(c) ==
    /\ At(c, "drop")
    /\ replayFiles' \in {replayFiles, [replayFiles EXCEPT ![sweep[c].name] = "gone"]}
    /\ emptied' = emptied \cup {r \in {sweep[c].name} : replayFiles'[r] = "gone"}
    /\ SweepTo(c, [sweep[c] EXCEPT !.pc = "copy", !.todo = @ \ {sweep[c].name}, !.name = "none"])
    /\ UNCHANGED <<lists, botRuns, botList, listName, renames, written, leaving, storeVars, sweeps>>

\* pruneReplays frees the old ones, stored or not.
PruneReplays(c) ==
    /\ At(c, "copy") /\ sweep[c].todo = {}
    /\ replayFiles' = [r \in Replays |-> IF replayFiles[r] = "old" THEN "gone" ELSE replayFiles[r]]
    /\ SweepTo(c, [sweep[c] EXCEPT !.pc = "prune"])
    /\ UNCHANGED <<lists, botRuns, botList, listName, renames, written, emptied, leaving, storeVars, sweeps>>

\* deleteBeyondKept, and deleteCollectedBefore when the rows are that old.
PruneStored(c) ==
    /\ At(c, "prune")
    /\ \E n \in 0..KeptPerKind :
        stored' = IF Len(stored) <= n THEN stored ELSE SubSeq(stored, Len(stored) - n + 1, Len(stored))
    /\ SweepTo(c, IdleSweep)
    /\ UNCHANGED <<hostVars, listCursor, everStored, sweeps>>

-----------------------------------------------------------------------------
CollectInit ==
    /\ lists = [name \in ListNames |-> <<>>] /\ botRuns = FALSE
    /\ listName = (CHOOSE name \in ListNames : TRUE) /\ botList = listName
    /\ renames = 0 /\ written = 0 /\ listCursor = StartCursor /\ stored = <<>>
    /\ everStored = {} /\ emptied = {}
    /\ replayFiles = [r \in Replays |-> "none"] /\ leaving = FALSE
    /\ sweep = [c \in Collectors |-> IdleSweep] /\ sweeps = 0

CollectNext ==
    \/ BotStarts \/ BotStops \/ BotAppends \/ HostLeaves
    \/ \E name \in ListNames : ListRenamed(name)
    \/ \E r \in Replays : ReplayAges(r)
    \/ \E c \in Collectors :
        \/ SweepBegins(c) \/ SweepLost(c) \/ ReadList(c) \/ ResetMoved(c) \/ StoreAndAdvance(c)
        \/ TruncateList(c) \/ RestartCursor(c) \/ ListReplays(c) \/ DropReplay(c)
        \/ PruneReplays(c) \/ PruneStored(c)
        \/ \E r \in Replays : KeepReplay(c, r)

CollectSpec == CollectInit /\ [][CollectNext]_collectVars

\* Whatever the collector deleted from the host as collected had been stored:
\* no entry the bot wrote after the read, none of a file given another name,
\* and no replay is lost, also when collectors overlap or die in between
\* (collectPlayerList, truncateCommand, collectReplays).
NothingLostUncollected == emptied \subseteq everStored
=============================================================================
