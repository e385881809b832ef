-------------------------- MODULE ReadConnections --------------------------
(***************************************************************************)
(* The connections to a host that reads share.  A reader leases the        *)
(* installed connection or opens one, then looks at the host's row again   *)
(* before it is handed out; a lease has a deadline; a connection has a     *)
(* hard age, is closed when idle, retired when the host was too slow, and  *)
(* evicted when the host's key is trusted anew.  Each connection admits a  *)
(* limited number of reads at a time; the others wait in a queue.  One     *)
(* host, one process; a step is what runs between two awaits.              *)
(***************************************************************************)
EXTENDS Naturals, Sequences, SequencesExt, FiniteSets

CONSTANTS
    Readers,       \* callers of leaseHostReader
    ChannelLimit,  \* READ_CONNECTION_CHANNEL_LIMIT
    MaxOpens,      \* bound: connections opened
    MaxIdentity,   \* bound: host keys trusted one after the other
    MaxReads       \* bound: reads begun

ASSUME ReadAssumption ==
    {ChannelLimit, MaxOpens, MaxIdentity, MaxReads} \subseteq Nat /\ ChannelLimit > 0 /\ IsFiniteSet(Readers)

VARIABLES
    identity,  \* the host row's connection identity
    evictDue,  \* the row was re-trusted, evictHost not yet called
    entry,     \* the host's entry: generation, installed and pending connection
    conns,     \* the connections opened so far
    reader,    \* each reader's position, lease and read
    reads

readVars == <<identity, evictDue, entry, conns, reader, reads>>

-----------------------------------------------------------------------------
None == 0
NoReader == [pc |-> "idle", identity |-> None, conn |-> None, expired |-> FALSE, op |-> "none"]

\* Connection: opening, up, down (its transport was lost) or closed.
NewConn(who, generation) ==
    [state |-> "opening", identity |-> who, generation |-> generation, retired |-> FALSE,
     old |-> FALSE, active |-> 0, waiting |-> <<>>]

Leases(k) == {r \in Readers : reader[r].conn = k /\ reader[r].pc \in {"check", "leased"}}
IsUsable(k, who) == conns[k].state = "up" /\ ~conns[k].retired /\ conns[k].identity = who
Uninstalled(k) == IF entry.installed = k THEN [entry EXCEPT !.installed = None] ELSE entry

\* shutDown: every read of the connection is abandoned, so nobody waits any more.
Shut(c) == [c EXCEPT !.state = "closed", !.waiting = <<>>]
CloseConn(k) == [conns EXCEPT ![k] = Shut(@)]

\* abandon: a read that waits leaves the queue, one that runs gives back its
\* slot, one that was admitted but has not run yet is left to find out.
Abandoned(op) == IF op = "admitted" THEN "late" ELSE IF op = "late" THEN op ELSE "none"
AbandonedBy(S) == [r \in Readers |-> IF r \in S THEN [reader[r] EXCEPT !.op = Abandoned(@)] ELSE reader[r]]

\* ChannelLimiter.release: the slot goes to the first in the queue.
Freed(c) ==
    IF c.waiting = <<>> THEN [c EXCEPT !.active = @ - 1] ELSE [c EXCEPT !.waiting = Tail(@)]
Admitted(c) == IF c.waiting = <<>> THEN {} ELSE {Head(c.waiting)}
AfterFree(k, rs) ==
    [r \in Readers |-> IF r \in Admitted(conns[k]) THEN [rs[r] EXCEPT !.op = "admitted"] ELSE rs[r]]

\* afterLastLease: whether a connection is shut down with its last lease.
EndsWithout(k, left) ==
    conns[k].state \in {"up", "down"} /\ left = {} /\ (conns[k].retired \/ entry.installed # k)

-----------------------------------------------------------------------------
\* leaseHostReader reads the row; lease() then runs up to its first await.
ReadRow(r) ==
    /\ reader[r].pc = "idle" /\ reader[r].op = "none" /\ reads < MaxReads
    /\ reader' = [reader EXCEPT ![r] = [NoReader EXCEPT !.pc = "lease", !.identity = identity]]
    /\ reads' = reads + 1
    /\ UNCHANGED <<identity, evictDue, entry, conns>>

Checkout(r, k) == [reader[r] EXCEPT !.pc = "check", !.conn = k]
CanJoin(who) ==
    entry.pending # None /\ conns[entry.pending].generation = entry.generation
                         /\ conns[entry.pending].identity = who

\* startOpen, or a wait for the opening another reader began; an installed
\* connection that is of no use is destroyed first.
OpenOrJoin(r, en, cs, rs) ==
    LET who == reader[r].identity
    IN  IF CanJoin(who)
          THEN /\ reader' = [rs EXCEPT ![r].pc = "wait", ![r].conn = entry.pending]
               /\ entry' = en /\ conns' = cs
          ELSE /\ Len(conns) < MaxOpens
               /\ conns' = Append(cs, NewConn(who, en.generation))
               /\ entry' = [en EXCEPT !.pending = Len(conns) + 1]
               /\ reader' = [rs EXCEPT ![r].pc = "wait", ![r].conn = Len(conns) + 1]

Lease(r) ==
    LET k == entry.installed
    IN  /\ reader[r].pc = "lease"
        /\ \/ /\ k # None /\ IsUsable(k, reader[r].identity) /\ ~conns[k].old
              /\ reader' = [reader EXCEPT ![r] = Checkout(r, k)]
              /\ UNCHANGED <<entry, conns>>
           \/ /\ k # None /\ ~IsUsable(k, reader[r].identity)
              /\ OpenOrJoin(r, Uninstalled(k), CloseConn(k), AbandonedBy(Leases(k)))
           \/ /\ k # None => (IsUsable(k, reader[r].identity) /\ conns[k].old)
              /\ OpenOrJoin(r, entry, conns, reader)
        /\ UNCHANGED <<identity, evictDue, reads>>

GiveUp(k) ==
    /\ conns' = CloseConn(k)
    /\ entry' = IF entry.pending = k THEN [entry EXCEPT !.pending = None] ELSE entry
    /\ UNCHANGED reader

\* install: a connection of another identity is destroyed, one of the same
\* stays for as long as it has leases.
InstallConn(k) ==
    LET before == entry.installed
        goes == before # None /\ (conns[before].identity # conns[k].identity \/ Leases(before) = {})
    IN  /\ entry' = [entry EXCEPT !.pending = None, !.installed = k]
        /\ conns' = [IF goes THEN CloseConn(before) ELSE conns EXCEPT ![k].state = "up"]
        /\ reader' = IF goes THEN AbandonedBy(Leases(before)) ELSE reader

OpenEnds(k) ==
    /\ conns[k].state = "opening"
    /\ \/ GiveUp(k)
       \/ /\ entry.pending = k /\ entry.generation = conns[k].generation
          /\ InstallConn(k)
    /\ UNCHANGED <<identity, evictDue, reads>>

\* The readers that waited go on: with the connection, with another try, or
\* with the error of the opening.
WaitEnds(r) ==
    LET k == reader[r].conn
    IN  /\ reader[r].pc = "wait" /\ conns[k].state # "opening"
        /\ \/ IsUsable(k, reader[r].identity) /\ reader' = [reader EXCEPT ![r] = Checkout(r, k)]
           \/ /\ ~IsUsable(k, reader[r].identity)
              /\ \E pc \in {"idle", "lease"} : reader' = [reader EXCEPT ![r].pc = pc, ![r].conn = None]
        /\ UNCHANGED <<identity, evictDue, entry, conns, reads>>

\* release: the lease's read is abandoned, its slot freed; the last lease of a
\* connection nobody will ask for again closes it.
HoldsSlot(r) == reader[r].op = "running"
Dropped(k, r) ==
    LET c == IF HoldsSlot(r) THEN Freed(conns[k])
             ELSE [conns[k] EXCEPT !.waiting = RemoveFirst(@, r)]
    IN  [conns EXCEPT ![k] = IF EndsWithout(k, Leases(k) \ {r}) THEN Shut(c) ELSE c]
Release(r) ==
    LET k == reader[r].conn
        rs == [reader EXCEPT ![r] = [NoReader EXCEPT !.op = Abandoned(reader[r].op),
                                        !.conn = IF Abandoned(reader[r].op) = "late" THEN k ELSE None]]
    IN  /\ conns' = Dropped(k, r)
        /\ reader' = IF HoldsSlot(r) THEN AfterFree(k, rs) ELSE rs
        /\ UNCHANGED <<identity, evictDue, entry, reads>>

\* Mutation of RowStillTrusts: the row is not looked at a second time.
RowTrusted(r) == TRUE

\* leaseHostReader's second look at the row decides whether the reader is
\* handed out.
RowStillTrusts(r) == identity = reader[r].identity
CheckRow(r) ==
    /\ reader[r].pc = "check"
    /\ IF RowStillTrusts(r)
         THEN reader' = [reader EXCEPT ![r].pc = "leased"] /\ UNCHANGED <<identity, evictDue, entry, conns, reads>>
         ELSE Release(r)
ReleaseReader(r) == reader[r].pc = "leased" /\ Release(r)

\* begin and acquire: admitted when a slot is free, queued otherwise.
BeginRead(r) ==
    LET k == reader[r].conn
    IN  /\ reader[r].pc = "leased" /\ reader[r].op = "none" /\ ~reader[r].expired
        /\ conns[k].state # "closed" /\ reads < MaxReads
        /\ reads' = reads + 1
        /\ IF conns[k].active < ChannelLimit
             THEN /\ conns' = [conns EXCEPT ![k].active = @ + 1]
                  /\ reader' = [reader EXCEPT ![r].op = "admitted"]
             ELSE /\ conns' = [conns EXCEPT ![k].waiting = Append(@, r)]
                  /\ reader' = [reader EXCEPT ![r].op = "queued"]
        /\ UNCHANGED <<identity, evictDue, entry>>

\* Mutation of WhenAdmitted: a read abandoned before it ran keeps its slot.
WhenAdmittedKeeps(r) ==
    /\ reader[r].op \in {"admitted", "late"}
    /\ reader' = [reader EXCEPT ![r].op = IF @ = "late" THEN "none" ELSE "running"]
    /\ UNCHANGED <<identity, evictDue, entry, conns, reads>>

\* whenAdmitted: the read runs, or gives its slot on when it was abandoned.
WhenAdmitted(r) ==
    LET k == reader[r].conn
        gone == IF reader[r].pc = "idle" THEN [reader EXCEPT ![r] = NoReader]
                ELSE [reader EXCEPT ![r].op = "none"]
    IN  /\ \/ /\ reader[r].op = "admitted"
              /\ reader' = [reader EXCEPT ![r].op = "running"]
              /\ UNCHANGED conns
           \/ /\ reader[r].op = "late"
              /\ conns' = [conns EXCEPT ![k] = Freed(@)]
              /\ reader' = AfterFree(k, gone)
        /\ UNCHANGED <<identity, evictDue, entry, reads>>

\* execUntil and forwardUntil end, well or not: finishOp.
ReadEnds(r) ==
    LET k == reader[r].conn
    IN  /\ HoldsSlot(r)
        /\ conns' = [conns EXCEPT ![k] = Freed(@)]
        /\ reader' = AfterFree(k, [reader EXCEPT ![r].op = "none"])
        /\ UNCHANGED <<identity, evictDue, entry, reads>>

\* expire: a queued read is given up; a running one retires the connection.
DeadlinePasses(r) ==
    LET k == reader[r].conn
        op == reader[r].op
        rs == [reader EXCEPT ![r].expired = TRUE, ![r].op = IF @ = "admitted" THEN "late" ELSE "none"]
    IN  /\ reader[r].pc \in {"check", "leased"} /\ ~reader[r].expired /\ op # "late"
        /\ LET c == [conns[k] EXCEPT !.retired = @ \/ op = "running",
                                     !.waiting = RemoveFirst(@, r)]
           IN  /\ conns' = [conns EXCEPT ![k] = IF op = "running" THEN Freed(c) ELSE c]
               /\ entry' = IF op = "running" THEN Uninstalled(k) ELSE entry
               /\ reader' = IF op = "running" THEN AfterFree(k, rs) ELSE rs
        /\ UNCHANGED <<identity, evictDue, reads>>

\* The transport is lost; a connection ages; it is closed when idle, or at its
\* hard age with whatever it carries.
ConnLost(k) ==
    /\ conns[k].state = "up"
    /\ conns' = [conns EXCEPT ![k].state = "down"]
    /\ UNCHANGED <<identity, evictDue, entry, reader, reads>>
ConnAges(k) ==
    /\ conns[k].state \in {"up", "down"} /\ ~conns[k].old
    /\ conns' = [conns EXCEPT ![k].old = TRUE]
    /\ UNCHANGED <<identity, evictDue, entry, reader, reads>>
ShutDown(k) ==
    /\ conns' = CloseConn(k)
    /\ entry' = Uninstalled(k)
    /\ reader' = AbandonedBy(Leases(k))
    /\ UNCHANGED <<identity, evictDue, reads>>
IdleTimer(k) == conns[k].state \in {"up", "down"} /\ Leases(k) = {} /\ ShutDown(k)
HardAge(k) == conns[k].state \in {"up", "down"} /\ conns[k].old /\ ShutDown(k)

\* The host's key is trusted anew: the row first, then evict.
Retrust ==
    /\ identity < MaxIdentity /\ ~evictDue
    /\ identity' = identity + 1 /\ evictDue' = TRUE
    /\ UNCHANGED <<entry, conns, reader, reads>>
Evict ==
    /\ evictDue
    /\ evictDue' = FALSE
    /\ entry' = [entry EXCEPT !.generation = @ + 1, !.installed = None]
    /\ conns' = [k \in DOMAIN conns |-> IF conns[k].state \in {"up", "down"}
                                        THEN Shut(conns[k]) ELSE conns[k]]
    /\ reader' = AbandonedBy({r \in Readers : reader[r].pc \in {"check", "leased"}})
    /\ UNCHANGED <<identity, reads>>

-----------------------------------------------------------------------------
ReadInit ==
    /\ identity = 1 /\ evictDue = FALSE /\ conns = <<>> /\ reads = 0
    /\ entry = [generation |-> 1, installed |-> None, pending |-> None]
    /\ reader = [r \in Readers |-> NoReader]

ReadNext ==
    \/ \E r \in Readers :
        \/ ReadRow(r) \/ Lease(r) \/ WaitEnds(r) \/ CheckRow(r) \/ ReleaseReader(r)
        \/ BeginRead(r) \/ WhenAdmitted(r) \/ ReadEnds(r) \/ DeadlinePasses(r)
    \/ \E k \in DOMAIN conns : OpenEnds(k) \/ ConnLost(k) \/ ConnAges(k) \/ IdleTimer(k) \/ HardAge(k)
    \/ Retrust \/ Evict

ReadSpec == ReadInit /\ [][ReadNext]_readVars

\* A reader that was handed out reads over a connection to the host as it is
\* trusted now, but for the moment between the row's change and the eviction:
\* no lease in flight, opening under way or queue carries an old key past it
\* (leaseHostReader, evict).
HandedOutIsTrusted ==
    \A r \in Readers :
        (reader[r].pc = "leased" /\ conns[reader[r].conn].state # "closed" /\ ~evictDue)
            => conns[reader[r].conn].identity = identity

\* Slots are neither lost nor handed out twice, also when a read is abandoned
\* between its admission and its turn, and no read waits beside a free slot
\* (createChannelLimiter, whenAdmitted, finishOp).
SlotsAccountedFor ==
    \A k \in DOMAIN conns : conns[k].state \in {"up", "down"} =>
        /\ conns[k].active =
             Cardinality({r \in Readers : reader[r].conn = k /\ reader[r].op \in {"admitted", "running", "late"}})
        /\ conns[k].active <= ChannelLimit
        /\ conns[k].waiting # <<>> => conns[k].active = ChannelLimit

\* A connection nobody leases and the entry does not hold is closed: none is
\* left open behind a retirement, a replacement or an eviction (shutDown).
NoneLeftOpen ==
    \A k \in DOMAIN conns : conns[k].state = "up" => entry.installed = k \/ Leases(k) # {}

\* The connections readers share (leaseHostReader, acquire): to the host as it
\* is trusted, no more reads at a time than it allows, none left behind.
ConnectionsAreSound == HandedOutIsTrusted /\ SlotsAccountedFor /\ NoneLeftOpen
=============================================================================
