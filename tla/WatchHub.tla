------------------------------- MODULE WatchHub -------------------------------
(***************************************************************************)
(* The watch hub (internal/watch), the Subscribe handler that drives one   *)
(* stream (internal/server/grpcserver/watch.go) and the revision           *)
(* bookkeeping of the client that reads it (sdk/go/kmsclient/watch.go).    *)
(*                                                                         *)
(* Writers commit a change-log row and then call Wake.  One goroutine      *)
(* (Run) drains the log past its cursor and offers each row to a copy of   *)
(* the registry.  A Subscribe call registers first, then computes its      *)
(* backlog with several separate reads, then activates; the rows           *)
(* dispatched in between wait in pending.  A client has one stream at a    *)
(* time and resumes the next one from the last revision it saw.            *)
(***************************************************************************)
EXTENDS ChangeLog

CONSTANTS
    Clients,        \* the subscribing processes
    Watched,        \* the namespaces their Subscribe request names
    DispatchBatch,  \* dispatchBatch: rows per ListChangesSince page
    BufferCap,      \* Options.SubscriberBuffer
    MaxReplay       \* Options.SnapshotMaxReplay

ASSUME WatchHubConstants ==
    /\ Watched \subseteq Namespaces
    /\ DispatchBatch \in Nat \ {0}
    /\ BufferCap \in Nat \ {0}
    /\ MaxReplay \in Nat

VARIABLES
    owed,     \* whether a writer has committed and not yet called Wake
    wake,     \* the one-slot wake channel
    retry,    \* whether the drain retry timer is armed
    hubPC,    \* where Run is
    cursor,   \* the last dispatched revision
    batch,    \* the rest of the page drain is dispatching
    full,     \* whether that page was full, so that drain reads another
    targets,  \* dispatch's registry copy, less the ones already offered
    sub,      \* the stream of each client
    lastRev,  \* subManager.lastRev of each client
    got,      \* history: the change events each client applied
    snapAt,   \* history: the newest snapshot revision each client applied
    lost      \* history: rows pruned before the hub dispatched them

hubVars == <<wake, retry, hubPC, cursor, batch, full, targets>>
clientVars == <<lastRev, got, snapAt>>
vars == <<log, rows, nsID, nextID, owed, wake, retry, hubPC, cursor, batch,
          full, targets, sub, lastRev, got, snapAt, lost>>

\* off: no stream.  bound: authorized, ids captured.  registered .. backlog:
\* in the registry, computing the backlog.  ready: activated, backlog being
\* sent.  live: in the pump.
Phases == {"off", "bound", "registered", "current", "replay", "snapshot",
           "backlog", "ready", "live"}
Computing == {"registered", "current", "replay", "snapshot", "backlog"}
Active == {"ready", "live"}
\* Mutation of InRegistry: the stream registers after its backlog is read.
RegisteredLate == Active

InRegistry == Computing \cup Active

Closed == [phase    |-> "off",
           ids      |-> [n \in Watched |-> 0],
           since    |-> 0,      \* Registration.LastSeenRevision
           cur      |-> 0,      \* computeBacklog's current
           rcur     |-> 0,      \* replayEntries' cursor
           replay   |-> {},     \* Backlog.Replay, the part not yet sent
           isSnap   |-> FALSE,  \* Backlog.IsSnapshot
           rev      |-> 0,      \* Backlog.Revision
           pending  |-> <<>>,
           events   |-> <<>>,
           lastSent |-> 0,
           hb       |-> 0]      \* pump's lastRev, sent in heartbeats

-----------------------------------------------------------------------------
(* Names of the ideas the actions use.                                     *)

\* Subscription.matches: name and incarnation.
Matches(s, r) == /\ log[r].ns \in Watched
                 /\ log[r].id = s.ids[log[r].ns]
                 /\ s.ids[log[r].ns] > 0

\* The incarnations the stream was authorized for are still the current ones
\* (GetNamespace and namespaceMethodCheck under a bound context).
StillBound(s) == \A n \in Watched : s.ids[n] = nsID[n]

\* Subscription.close: the registry entry goes, and so does its place in a
\* registry copy (an offer to a closed subscription does nothing).
CloseStream(c) ==
    /\ sub' = [sub EXCEPT ![c] = Closed]
    /\ targets' = targets \ {c}

-----------------------------------------------------------------------------
\* The server starts on an existing database.  A client may already run: it
\* has seen everything up to some revision of that database, or nothing.
Init ==
    /\ LogInit
    /\ owed = FALSE /\ wake = FALSE /\ retry = FALSE
    /\ hubPC = "select" /\ cursor = CurrentRevision
    /\ batch = {} /\ full = FALSE /\ targets = {}
    /\ sub = [c \in Clients |-> Closed]
    /\ lastRev \in [Clients -> 0..CurrentRevision]
    /\ got = [c \in Clients |-> {}]
    /\ snapAt = lastRev
    /\ lost = {}

-----------------------------------------------------------------------------
(* Writers.                                                                *)

\* A write transaction on namespace n commits; its Wake call is still to come.
\* Of several writers that have not called Wake yet one call is kept: Wake
\* coalesces, and the drain after the first call reads all their rows.
Commit(n) ==
    /\ AppendChange(n)
    /\ owed' = TRUE
    /\ UNCHANGED <<nsVars, hubVars, sub, clientVars, lost>>

Wake ==
    /\ owed
    /\ owed' = FALSE
    /\ wake' = TRUE
    /\ UNCHANGED <<logVars, nsVars, retry, hubPC, cursor, batch, full, targets,
                   sub, clientVars, lost>>

ReplaceNamespace(n) ==
    /\ DeleteNamespace(n) \/ CreateNamespace(n)
    /\ UNCHANGED <<owed, hubVars, sub, clientVars, lost>>

-----------------------------------------------------------------------------
(* The dispatch goroutine.                                                 *)

\* Run's select takes the wake or the retry case and enters drain.
RunWake ==
    /\ hubPC = "select" /\ wake
    /\ wake' = FALSE
    /\ hubPC' = "read"
    /\ UNCHANGED <<logVars, nsVars, owed, retry, cursor, batch, full, targets,
                   sub, clientVars, lost>>

RunRetry ==
    /\ hubPC = "select" /\ retry
    /\ retry' = FALSE
    /\ hubPC' = "read"
    /\ UNCHANGED <<logVars, nsVars, owed, wake, cursor, batch, full, targets,
                   sub, clientVars, lost>>

\* drain's ListChangesSince.
DrainRead ==
    /\ hubPC = "read"
    /\ batch' = ListChangesSince(cursor, DispatchBatch)
    /\ full' = (Cardinality(batch') = DispatchBatch)
    /\ IF batch' = {}
       THEN hubPC' = "select" /\ retry' = FALSE
       ELSE hubPC' = "dispatch" /\ UNCHANGED retry
    /\ UNCHANGED <<logVars, nsVars, owed, wake, cursor, targets, sub,
                   clientVars, lost>>

\* Mutation of DrainFail: the retry timer is not armed.
DrainFailNoRetry ==
    /\ hubPC = "read"
    /\ hubPC' = "select"
    /\ UNCHANGED <<logVars, nsVars, owed, wake, retry, cursor, batch, full,
                   targets, sub, clientVars, lost>>

\* The read fails: drain returns the cursor it has and Run arms the timer.
DrainFail ==
    /\ hubPC = "read"
    /\ hubPC' = "select"
    /\ retry' = TRUE
    /\ UNCHANGED <<logVars, nsVars, owed, wake, cursor, batch, full, targets,
                   sub, clientVars, lost>>

\* dispatch copies the registry under the hub's lock.
DispatchCopy ==
    /\ hubPC = "dispatch"
    /\ hubPC' = "offer"
    /\ targets' = {c \in Clients : /\ sub[c].phase \in InRegistry
                                   /\ Matches(sub[c], Min(batch))}
    /\ UNCHANGED <<logVars, nsVars, owed, wake, retry, cursor, batch, full,
                   sub, clientVars, lost>>

\* Subscription.offer, and the close of a subscriber whose buffer is full.
OfferTo(c) ==
    LET s == sub[c]
        r == Min(batch)
    IN IF s.phase \in Computing
       THEN IF Len(s.pending) >= BufferCap
            THEN sub' = [sub EXCEPT ![c] = Closed]
            ELSE sub' = [sub EXCEPT ![c].pending = Append(@, r)]
       ELSE IF r <= s.lastSent
            THEN UNCHANGED sub
            ELSE IF Len(s.events) >= BufferCap
                 THEN sub' = [sub EXCEPT ![c] = Closed]
                 ELSE sub' = [sub EXCEPT ![c].events = Append(@, r),
                                         ![c].lastSent = r]

DispatchOffer(c) ==
    /\ hubPC = "offer"
    /\ c \in targets
    /\ OfferTo(c)
    /\ targets' = targets \ {c}
    /\ UNCHANGED <<logVars, nsVars, owed, wake, retry, hubPC, cursor, batch,
                   full, clientVars, lost>>

\* The row is dispatched: drain advances the cursor, and at the end of the
\* page reads another one or returns.
DrainAdvance ==
    /\ hubPC = "offer"
    /\ targets = {}
    /\ cursor' = Min(batch)
    /\ batch' = batch \ {Min(batch)}
    /\ IF batch' # {}
       THEN hubPC' = "dispatch" /\ UNCHANGED retry
       ELSE IF full
            THEN hubPC' = "read" /\ UNCHANGED retry
            ELSE hubPC' = "select" /\ retry' = FALSE
    /\ full' = (full /\ batch' # {})
    /\ UNCHANGED <<logVars, nsVars, owed, wake, targets, sub, clientVars,
                   lost>>

\* Mutation of PruneChangeLog: pruning runs beside the dispatch loop.
PruneAnyTime ==
    /\ \E aged \in SUBSET rows : rows' = KeptRows(aged)
    /\ lost' = lost \cup {r \in rows \ rows' : r > cursor}
    /\ UNCHANGED <<log, nsVars, owed, hubVars, sub, clientVars>>

\* Run's prune case.  The release tables it prunes next have no part in
\* delivery.
PruneChangeLog ==
    /\ hubPC = "select"
    /\ \E aged \in SUBSET rows :
          /\ KeptRows(aged) # rows
          /\ rows' = KeptRows(aged)
    /\ lost' = lost \cup {r \in rows \ rows' : r > cursor}
    /\ UNCHANGED <<log, nsVars, owed, hubVars, sub, clientVars>>

\* Run's liveness case: the client has not acked for three heartbeats.
DropExpired(c) ==
    /\ hubPC = "select"
    /\ sub[c].phase \in InRegistry
    /\ CloseStream(c)
    /\ UNCHANGED <<logVars, nsVars, owed, wake, retry, hubPC, cursor, batch,
                   full, clientVars, lost>>

\* The server process stops and starts again: streams and in-memory hub state
\* go, and serve admits nobody until Run has read its first cursor.
Restart ==
    /\ owed' = FALSE /\ wake' = FALSE /\ retry' = FALSE
    /\ hubPC' = "select" /\ cursor' = CurrentRevision
    /\ batch' = {} /\ full' = FALSE /\ targets' = {}
    /\ sub' = [c \in Clients |-> Closed]
    /\ UNCHANGED <<logVars, nsVars, clientVars, lost>>

-----------------------------------------------------------------------------
(* One Subscribe call.                                                     *)

StreamOnly == UNCHANGED <<logVars, nsVars, owed, wake, retry, hubPC, cursor,
                          batch, full, lost>>

\* The client connects with the revision it has seen; AuthorizeSubscribe
\* binds the incarnation of every namespace.
Connect(c) ==
    /\ sub[c].phase = "off"
    /\ \A n \in Watched : nsID[n] # Absent
    /\ sub' = [sub EXCEPT ![c] = [Closed EXCEPT
                  !.phase = "bound",
                  !.ids   = [n \in Watched |-> nsID[n]],
                  !.since = lastRev[c]]]
    /\ UNCHANGED <<targets, clientVars>> /\ StreamOnly

\* Hub.Subscribe up to the registration.  A replacement between the check and
\* the registration shows what one right after the registration shows.
Register(c) ==
    /\ sub[c].phase = "bound"
    /\ sub' = [sub EXCEPT ![c] = IF StillBound(sub[c])
                                 THEN [@ EXCEPT !.phase = "registered"]
                                 ELSE Closed]
    /\ UNCHANGED <<targets, clientVars>> /\ StreamOnly

\* computeBacklog's CurrentRevision.
ReadCurrent(c) ==
    /\ sub[c].phase = "registered"
    /\ sub' = [sub EXCEPT ![c].phase = "current",
                          ![c].cur = CurrentRevision]
    /\ UNCHANGED <<targets, clientVars>> /\ StreamOnly

\* canReplay, with its own read of the oldest retained revision.
ReplayAllowed(s) ==
    /\ s.since # 0
    /\ s.since <= s.cur
    /\ s.cur - s.since <= MaxReplay
    /\ OldestRetainedRevision # 0
    /\ OldestRetainedRevision <= s.since + 1

CanReplay(c) ==
    /\ sub[c].phase = "current"
    /\ sub' = [sub EXCEPT ![c].phase = IF ReplayAllowed(sub[c])
                                       THEN "replay" ELSE "snapshot",
                          ![c].rcur = sub[c].since]
    /\ UNCHANGED <<targets, clientVars>> /\ StreamOnly

\* canReplay's read of the oldest retained revision fails.
CanReplayFails(c) ==
    /\ sub[c].phase = "current"
    /\ sub' = [sub EXCEPT ![c].phase = "snapshot"]
    /\ UNCHANGED <<targets, clientVars>> /\ StreamOnly

\* One iteration of replayEntries' loop over the page it reads.  The loop
\* walks the page up to cur, and gives up at the first gap, at a legacy row
\* of a watched namespace, or when the log ends before cur.
PageTo(s) ==
    {r \in ListChangesSince(s.rcur, DispatchBatch) : r <= s.cur}

\* Mutations of PageBroken: no contiguity check, no legacy check.
PageGapIgnored(s) ==
    \E r \in PageTo(s) : log[r].ns \in Watched /\ log[r].id = Legacy

PageLegacyIgnored(s) ==
    \E r \in PageTo(s) : \E q \in (s.rcur + 1)..r : q \notin PageTo(s)

PageBroken(s) ==
    \/ \E r \in PageTo(s) : \E q \in (s.rcur + 1)..r : q \notin PageTo(s)
    \/ \E r \in PageTo(s) : /\ log[r].ns \in Watched
                            /\ log[r].id = Legacy

\* Where the page leaves the loop's cursor.
PageEnd(s) == IF PageTo(s) = {} THEN s.rcur ELSE Max(PageTo(s))

PageShort(s) ==
    /\ PageEnd(s) < s.cur
    /\ Cardinality(ListChangesSince(s.rcur, DispatchBatch)) < DispatchBatch

ReplayPage(c) ==
    LET s == sub[c]
        add == {r \in PageTo(s) : Matches(s, r)}
    IN /\ s.phase = "replay"
       /\ IF s.rcur >= s.cur
          THEN sub' = [sub EXCEPT ![c].phase = "backlog", ![c].rev = s.cur,
                                  ![c].cur = 0, ![c].rcur = 0]
          ELSE IF PageBroken(s) \/ PageShort(s)
               THEN sub' = [sub EXCEPT ![c].phase = "snapshot",
                                       ![c].replay = {}]
               ELSE sub' = [sub EXCEPT ![c].rcur = PageEnd(s),
                                       ![c].replay = @ \cup add]
       /\ UNCHANGED <<targets, clientVars>> /\ StreamOnly

\* SnapshotParameters: one read transaction for the revision, the namespace
\* ids and the values.
SnapshotRead(c) ==
    /\ sub[c].phase = "snapshot"
    /\ IF StillBound(sub[c])
       THEN /\ sub' = [sub EXCEPT ![c].phase = "backlog",
                                  ![c].isSnap = TRUE,
                                  ![c].rev = CurrentRevision,
                                  ![c].cur = 0, ![c].rcur = 0]
            /\ UNCHANGED targets
       ELSE CloseStream(c)
    /\ UNCHANGED clientVars /\ StreamOnly

\* Subscription.activate: pending rows the backlog does not cover go to the
\* event channel.  pending is in dispatch order, so the rows activate skips
\* are its longest prefix at or below the backlog revision.
Covered(s) ==
    Min({k \in 0..Len(s.pending) :
            k = Len(s.pending) \/ s.pending[k + 1] > s.rev})

\* Mutation of Uncovered: every pending row is flushed.
UncoveredAll(s) == s.pending

Uncovered(s) == SubSeq(s.pending, Covered(s) + 1, Len(s.pending))

Activate(c) ==
    LET s == sub[c]
        flush == Uncovered(s)
    IN /\ s.phase = "backlog"
       /\ IF Len(flush) > BufferCap
          THEN CloseStream(c)
          ELSE /\ sub' = [sub EXCEPT
                      ![c].phase = "ready",
                      ![c].pending = <<>>,
                      ![c].events = flush,
                      ![c].lastSent = IF flush = <<>> THEN s.rev
                                      ELSE flush[Len(flush)],
                      ![c].hb = s.rev,
                      ![c].since = 0]
               /\ UNCHANGED targets
       /\ UNCHANGED clientVars /\ StreamOnly

\* The stream ends from the client's side, or a store read fails, or the
\* transport breaks: Subscription.Close.
Disconnect(c) ==
    /\ sub[c].phase # "off"
    /\ CloseStream(c)
    /\ UNCHANGED clientVars /\ StreamOnly

-----------------------------------------------------------------------------
(* What the transport sends and the client applies.                        *)

\* handleEvent for a change: shouldApply, then advanceRev.
ClientApplies(c, r) ==
    /\ got' = [got EXCEPT ![c] = IF r > lastRev[c] THEN @ \cup {r} ELSE @]
    /\ lastRev' = [lastRev EXCEPT ![c] = Max({@, r})]
    /\ UNCHANGED snapAt

\* sendBacklog in snapshot mode.
SendSnapshot(c) ==
    /\ sub[c].phase = "ready" /\ sub[c].isSnap
    /\ sub' = [sub EXCEPT ![c].phase = "live"]
    /\ snapAt' = [snapAt EXCEPT ![c] = Max({@, sub[c].rev})]
    /\ lastRev' = [lastRev EXCEPT ![c] = Max({@, sub[c].rev})]
    /\ UNCHANGED <<targets, got>> /\ StreamOnly

\* sendBacklog in replay mode, one entry at a time.
SendReplay(c) ==
    /\ sub[c].phase = "ready" /\ ~sub[c].isSnap
    /\ IF sub[c].replay = {}
       THEN /\ sub' = [sub EXCEPT ![c].phase = "live"]
            /\ UNCHANGED clientVars
       ELSE LET r == Min(sub[c].replay)
            IN /\ sub' = [sub EXCEPT ![c].replay = @ \ {r}]
               /\ ClientApplies(c, r)
    /\ UNCHANGED targets /\ StreamOnly

\* pump forwards one live event.
PumpEvent(c) ==
    /\ sub[c].phase = "live" /\ sub[c].events # <<>>
    /\ sub' = [sub EXCEPT ![c].events = Tail(@),
                          ![c].hb = Head(sub[c].events)]
    /\ ClientApplies(c, Head(sub[c].events))
    /\ UNCHANGED targets /\ StreamOnly

\* Mutations of PumpHeartbeat: it carries the newest queued revision instead
\* of the newest sent one; it does not reauthorize.
HeartbeatQueued(c) ==
    /\ sub[c].phase = "live"
    /\ IF StillBound(sub[c])
       THEN /\ lastRev' = [lastRev EXCEPT ![c] = Max({@, sub[c].lastSent})]
            /\ UNCHANGED <<sub, targets>>
       ELSE CloseStream(c) /\ UNCHANGED lastRev
    /\ UNCHANGED <<got, snapAt>> /\ StreamOnly

HeartbeatUnchecked(c) ==
    /\ sub[c].phase = "live"
    /\ lastRev' = [lastRev EXCEPT ![c] = Max({@, sub[c].hb})]
    /\ UNCHANGED <<sub, targets, got, snapAt>> /\ StreamOnly

\* pump's ticker: ReauthorizeWatch, then a heartbeat with the last sent
\* revision; a changed incarnation ends the stream instead.
PumpHeartbeat(c) ==
    /\ sub[c].phase = "live"
    /\ IF StillBound(sub[c])
       THEN /\ lastRev' = [lastRev EXCEPT ![c] = Max({@, sub[c].hb})]
            /\ UNCHANGED <<sub, targets>>
       ELSE CloseStream(c) /\ UNCHANGED lastRev
    /\ UNCHANGED <<got, snapAt>> /\ StreamOnly

-----------------------------------------------------------------------------
Hub == \/ RunWake \/ RunRetry \/ DrainRead \/ DrainFail \/ DispatchCopy
       \/ DrainAdvance \/ PruneChangeLog
       \/ \E c \in Clients : DispatchOffer(c) \/ DropExpired(c)

Stream(c) == \/ Register(c) \/ ReadCurrent(c) \/ CanReplay(c)
             \/ CanReplayFails(c) \/ ReplayPage(c)
             \/ SnapshotRead(c) \/ Activate(c)
             \/ SendSnapshot(c) \/ SendReplay(c) \/ PumpEvent(c)
             \/ PumpHeartbeat(c)

Next == \/ \E n \in Namespaces : Commit(n)
        \/ \E n \in Watched : ReplaceNamespace(n)
        \/ Wake \/ Hub \/ Restart
        \/ \E c \in Clients : Connect(c) \/ Disconnect(c) \/ Stream(c)

Spec == Init /\ [][Next]_vars

\* What the scheduling gives.  A writer that committed goes on to call Wake;
\* Run goes round its select, where a ready wake or retry case is taken in
\* the end; each goroutine takes its next step.  Reading the log may fail, but
\* the retry timer repeats it every second, so it is assumed not to fail for
\* ever (SF).  Nothing is assumed of clients, of pruning or of new commits.
HubFairness ==
    /\ WF_vars(Wake) /\ WF_vars(RunWake) /\ WF_vars(RunRetry)
    /\ SF_vars(DrainRead) /\ WF_vars(DispatchCopy) /\ WF_vars(DrainAdvance)
    /\ \A c \in Clients : WF_vars(DispatchOffer(c))

StreamFairness ==
    \A c \in Clients :
        /\ WF_vars(Register(c)) /\ WF_vars(ReadCurrent(c))
        /\ WF_vars(CanReplay(c)) /\ WF_vars(ReplayPage(c))
        /\ WF_vars(SnapshotRead(c)) /\ WF_vars(Activate(c))
        /\ WF_vars(SendSnapshot(c)) /\ WF_vars(SendReplay(c))
        /\ WF_vars(PumpEvent(c)) /\ WF_vars(PumpHeartbeat(c))

FairSpec == Spec /\ HubFairness /\ StreamFairness

-----------------------------------------------------------------------------
(* Invariants.                                                             *)

StreamRec ==
    [phase : Phases, ids : [Watched -> Nat], since : Nat, cur : Nat,
     rcur : Nat, replay : SUBSET Nat, isSnap : BOOLEAN, rev : Nat,
     pending : Seq(Nat), events : Seq(Nat), lastSent : Nat, hb : Nat]

LogType ==
    /\ log \in Seq(Rows) /\ rows \subseteq DOMAIN log /\ lost \subseteq DOMAIN log
    /\ nsID \in [Namespaces -> Nat] /\ nextID \in Nat

HubType ==
    /\ hubPC \in {"select", "read", "dispatch", "offer"}
    /\ cursor \in 0..Len(log)
    /\ batch \subseteq rows
    /\ targets \subseteq Clients

FlagType ==
    /\ owed \in BOOLEAN /\ wake \in BOOLEAN
    /\ retry \in BOOLEAN /\ full \in BOOLEAN

ClientType ==
    /\ sub \in [Clients -> StreamRec]
    /\ lastRev \in [Clients -> 0..Len(log)]
    /\ got \in [Clients -> SUBSET (DOMAIN log)]
    /\ snapAt \in [Clients -> 0..Len(log)]

TypeOK == LogType /\ HubType /\ FlagType /\ ClientType

Queued(s) == {s.events[i] : i \in DOMAIN s.events}

\* Entries reach a stream's channel in revision order, each strictly above the
\* backlog revision (Subscription.Events), whatever rows were dispatched
\* while the backlog was being computed.
EventsInOrder ==
    \A c \in Clients : sub[c].phase \in Active =>
        LET e == sub[c].events
        IN /\ \A i \in DOMAIN e : sub[c].rev < e[i]
           /\ \A i, j \in DOMAIN e : i < j => e[i] < e[j]

\* Nothing the server still has to send is at or below the revision the client
\* has already recorded: neither a heartbeat nor an earlier event makes
\* shouldApply discard an entry the client never applied.
NothingOvertaken ==
    \A c \in Clients : sub[c].phase \in Active =>
        \A r \in Queued(sub[c]) \cup sub[c].replay : lastRev[c] < r

\* A stream that is up has been offered every dispatched row of its namespace
\* incarnations above its backlog revision: registering before reading the
\* backlog leaves no row between the backlog and the live stream.  Only rows
\* pruned before the hub ever read them are missing.
LiveComplete ==
    \A c \in Clients : sub[c].phase \in Active =>
        \A r \in (sub[c].rev + 1)..cursor :
            Matches(sub[c], r) => r \in Queued(sub[c]) \cup got[c] \cup lost

\* A finished replay holds exactly the stream's rows between the revision the
\* client resumed from and the backlog revision, whatever was pruned while
\* its pages were read.
ReplayExact ==
    \A c \in Clients : sub[c].phase = "backlog" /\ ~sub[c].isSnap =>
        sub[c].replay =
            {r \in (sub[c].since + 1)..sub[c].rev : Matches(sub[c], r)}

\* What a client may rely on across reconnects, restarts and pruning: every
\* row of a watched namespace's current incarnation at or below the revision
\* it resumes from, and every row whose incarnation is not known, was applied
\* by it or is covered by a snapshot it applied.
ResumeComplete ==
    \A c \in Clients : \A r \in 1..lastRev[c] :
        /\ log[r].ns \in Watched
        /\ log[r].id \in {nsID[log[r].ns], Legacy}
        => r \in got[c] \cup lost \/ r <= snapAt[c]

\* plan.md: "a client that reconnects with an old revision receives the missed
\* changes or a snapshot".  Once a stream bound to the current incarnations is
\* up and its backlog sent, no row of theirs at or below the client's revision
\* is unaccounted for.
ReconnectReceivesMissed ==
    \A c \in Clients : sub[c].phase = "live" /\ StillBound(sub[c]) =>
        \A r \in 1..lastRev[c] :
            Matches(sub[c], r) => r \in got[c] \cup lost \/ r <= snapAt[c]

-----------------------------------------------------------------------------
(* Liveness.                                                               *)

\* A row committed for a live stream reaches its client, or the stream ends
\* (and the client resumes by revision): coalesced wakes, a wake racing the
\* end of a drain and failed reads never strand a row.
EventuallyDelivered ==
    \A c \in Clients : \A r \in 1..MaxRevision :
        (/\ sub[c].phase \in Active /\ r \in DOMAIN log
         /\ sub[c].rev < r /\ Matches(sub[c], r))
        ~> (r \in got[c] \cup lost \/ sub[c].phase = "off")

\* A stream whose namespace was deleted or recreated ends: heartbeat
\* reauthorization compares the bound incarnation with the current one.
StaleStreamCloses ==
    \A c \in Clients :
        (sub[c].phase = "live" /\ ~StillBound(sub[c])) ~> (sub[c].phase = "off")

\* replayEntries: "complete is false when a gap is detected at the tail (a
\* prune raced this subscribe), signaling the caller to fall back to a
\* snapshot".  Reading the replay pages ends.
ReplayEnds ==
    \A c \in Clients : (sub[c].phase = "replay") ~> (sub[c].phase # "replay")
===============================================================================
