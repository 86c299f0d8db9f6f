---------------------------- MODULE ReleaseSessions ---------------------------
(***************************************************************************)
(* Release sessions on one track: internal/storage/release_sessions.go,    *)
(* the parts of PruneConfigurationReleases that concern them, and the life *)
(* of a WatchRelease stream as far as it touches a session row.            *)
(*                                                                         *)
(* A session is one run of a client process.  It follows the track's       *)
(* current release unless it is pinned to a version.  Its target has a     *)
(* revision, the larger of its pin's and the activation's; every target    *)
(* the server hands out leaves a delivery row, and an acknowledgement is   *)
(* reduced only against the delivery row of the revision it names.         *)
(***************************************************************************)
EXTENDS ReleaseStore

CONSTANTS
    Sessions,        \* session ids, drawn by the client processes
    AckStates,       \* lifecycle states in use; only "applied" is special
    EventRetention,  \* releaseSessionEventRetention
    MaxSequence,     \* model bound: acknowledgement sequences
    MaxConnections   \* model bound: streams opened

ASSUME ReleaseSessionsConstants ==
    /\ "applied" \in AckStates
    /\ EventRetention \in Nat \ {0}
    /\ MaxSequence \in Nat /\ MaxConnections \in Nat

VARIABLES
    live,       \* the sessions with a row
    pin,        \* PinVersion and PinRevision of each row
    conn,       \* Connected and ConnectionID
    open,       \* the WatchRelease streams the server holds
    opened,     \* how many streams it has opened
    deliv,      \* release_target_deliveries
    eff,        \* the effective acknowledgement in the row
    applied,    \* the last applied one
    watermark,  \* PrunedAckSequence
    events,     \* release_session_events, the payload for its fingerprint
    considered  \* history: every event ever recorded for the row

ackVars == <<eff, applied, watermark, events, considered>>
streamVars == <<conn, open, opened>>
sessionVars == <<live, pin, streamVars, deliv, ackVars>>
vars == <<storeVars, sessionVars>>

SequenceNumbers == 1..MaxSequence
Delivery == [rev : Revisions, v : Versions, act : Revisions]
Ack == [seq : SequenceNumbers, rev : Revisions, v : Versions, act : Revisions,
        state : AckStates]
Stream == [s : Sessions, id : 1..MaxConnections]

NoPin == [v |-> 0, rev |-> 0]
NoConn == [up |-> FALSE, id |-> 0]
NoAck == [seq |-> 0, rev |-> 0, v |-> 0, act |-> 0, state |-> "none"]

SessionInit ==
    /\ live = {}
    /\ pin = [s \in Sessions |-> NoPin]
    /\ conn = [s \in Sessions |-> NoConn]
    /\ open = {} /\ opened = 0
    /\ deliv = [s \in Sessions |-> {}]
    /\ eff = [s \in Sessions |-> NoAck]
    /\ applied = [s \in Sessions |-> NoAck]
    /\ watermark = [s \in Sessions |-> 0]
    /\ events = [s \in Sessions |-> {}]
    /\ considered = [s \in Sessions |-> {}]

Init == StoreInit /\ SessionInit

\* The versions pin_version names in release_sessions.
Pins == {pin[s].v : s \in live} \ {0}

MaxOf(a, b) == IF a >= b THEN a ELSE b

-----------------------------------------------------------------------------
(* Targets.                                                                *)

\* Mutation of Target: a pinned target goes by the activation's revision.
TargetByActivation(p, cur) ==
    IF p.v # 0 \/ cur.v = 0
    THEN [rev |-> IF cur.v = 0 THEN p.rev ELSE cur.act, v |-> p.v, act |-> 0]
    ELSE [rev |-> MaxOf(p.rev, cur.act), v |-> cur.v, act |-> cur.act]

\* resolveInstanceTx: what a row with pin p is to run.  Version 0 is no target.
Target(p, cur) ==
    IF p.v # 0 \/ cur.v = 0
    THEN [rev |-> p.rev, v |-> p.v, act |-> 0]
    ELSE [rev |-> MaxOf(p.rev, cur.act), v |-> cur.v, act |-> cur.act]

TargetOf(s) == Target(pin[s], current)

\* Mutation of Delivered: the row is stamped with the store's revision.
DeliveredNow(ds, t) ==
    IF t.v = 0 \/ \E d \in ds : d.rev = t.rev THEN ds
    ELSE ds \cup {[t EXCEPT !.rev = MaxOf(@, rev)]}

\* The delivery row of a resolved target is inserted unless its key, the
\* revision, is there already.
Delivered(ds, t) ==
    IF t.v = 0 \/ \E d \in ds : d.rev = t.rev THEN ds ELSE ds \cup {t}

\* ResolveInstanceRelease, from the stream's sendTarget and the
\* GetInstanceRelease call.  A release that is gone is an error.
ResolveInstanceRelease(s) ==
    /\ s \in live
    /\ TargetOf(s).v \in {0} \cup DOMAIN rels
    /\ deliv' = [deliv EXCEPT ![s] = Delivered(@, TargetOf(s))]
    /\ UNCHANGED <<storeVars, live, pin, streamVars, ackVars>>

\* SetReleasePin: version v, or 0 to unpin, if the pin is still the one the
\* caller saw (the row's revision, as expected) and differs from it.
SetReleasePin(s, v) ==
    /\ s \in live
    /\ v # 0 => conn[s].up /\ v \in DOMAIN rels /\ Readable(rels[v])
    /\ v # pin[s].v
    /\ rev < MaxRevision
    /\ rev' = rev + 1
    /\ LET p == [v |-> v, rev |-> rev + 1]
       IN  /\ Target(p, current).v \in {0} \cup DOMAIN rels
           /\ pin' = [pin EXCEPT ![s] = p]
           /\ deliv' = [deliv EXCEPT ![s] = Delivered(@, Target(p, current))]
    /\ UNCHANGED <<counter, rels, current, previous, acts, actLog, rollback,
                   res, live, streamVars, ackVars>>

-----------------------------------------------------------------------------
(* Sessions and streams.                                                   *)

\* RegisterReleaseSession with resume false; with a row there it only checks.
RegisterReleaseSession(s) ==
    /\ s \notin live
    /\ live' = live \cup {s}
    /\ UNCHANGED <<storeVars, pin, streamVars, deliv, ackVars>>

\* watchInstanceRelease opens a stream under a connection id of its own.
OpenStream(s) ==
    /\ s \in live
    /\ opened < MaxConnections
    /\ opened' = opened + 1
    /\ open' = open \cup {[s |-> s, id |-> opened + 1]}
    /\ conn' = [conn EXCEPT ![s] = [up |-> TRUE, id |-> opened + 1]]
    /\ UNCHANGED <<storeVars, live, pin, deliv, ackVars>>

\* Mutation of Disconnected: any stream's end disconnects the row.
DisconnectedUnfenced(c, id) == [c EXCEPT !.up = FALSE]

\* ConnectReleaseSession(connected = false) leaves a row that another
\* connection has taken over alone.
Disconnected(c, id) == IF c.id = id THEN [c EXCEPT !.up = FALSE] ELSE c

\* A stream ends: cancelled, half-closed, dropped by the hub, or refused.  Its
\* deferred disconnect runs; should the write fail, the error is ignored.
CloseStream(st) ==
    /\ st \in open
    /\ open' = open \ {st}
    /\ \/ conn' = IF st.s \in live
                  THEN [conn EXCEPT ![st.s] = Disconnected(@, st.id)]
                  ELSE conn
       \/ conn' = conn
    /\ UNCHANGED <<storeVars, live, pin, opened, deliv, ackVars>>

\* The process ends and starts again: every stream and call is gone, and
\* ResetReleaseInstanceConnections clears the flags before it serves.
Restart ==
    /\ open' = {}
    /\ conn' = [s \in Sessions |-> [conn[s] EXCEPT !.up = FALSE]]
    /\ rollback' = NoRollback
    /\ UNCHANGED <<rev, counter, rels, current, previous, acts, actLog, res,
                   live, pin, opened, deliv, ackVars>>

-----------------------------------------------------------------------------
(* Acknowledgements.                                                       *)

\* Mutation of Newer: the order of the sequences alone, so that a late event
\* about a superseded target takes over.
NewerSequence(a, b) == a.seq > b.seq

\* The order of events: first by target revision, then by sequence.
Newer(a, b) == a.rev > b.rev \/ (a.rev = b.rev /\ a.seq > b.seq)

\* Mutation of Fresh: no watermark, so a sequence can come back.
FreshUnretained(s, a) == \A e \in events[s] : e.seq # a.seq

\* The event is neither a duplicate of a retained one nor in conflict with it,
\* and its sequence is not below the pruning watermark.
Fresh(s, a) ==
    /\ \A e \in events[s] : e.seq # a.seq
    /\ a.seq > watermark[s]

\* The events behind the newest EventRetention of them.
Expired(es) ==
    {e \in es : Cardinality({f \in es : f.seq > e.seq}) >= EventRetention}

\* n is the watermark w after the events es have been pruned: at least the
\* newest expired sequence.  All retained events are above w, so those above n
\* are all of them when none expired.
Watermark(w, es, n) ==
    IF Expired(es) = {}
    THEN n = w
    ELSE \E e \in Expired(es) : /\ \A f \in Expired(es) : f.seq <= e.seq
                                /\ n = MaxOf(w, e.seq)

\* ReduceReleaseSessionAcknowledgement, where it does not stop early: the
\* stream holds the session, the event is fresh and matches a delivery row.
\* Everywhere else it only stamps the row or returns an error.
Acknowledge(st, a) ==
    LET s == st.s IN
    /\ st \in open /\ s \in live
    /\ conn[s] = [up |-> TRUE, id |-> st.id]
    /\ Fresh(s, a)
    /\ [rev |-> a.rev, v |-> a.v, act |-> a.act] \in deliv[s]
    /\ eff' = [eff EXCEPT ![s] = IF Newer(a, @) THEN a ELSE @]
    /\ applied' = [applied EXCEPT ![s] =
                      IF a.state = "applied" /\ Newer(a, @) THEN a ELSE @]
    /\ \E n \in 0..MaxSequence :
          /\ Watermark(watermark[s], events[s] \cup {a}, n)
          /\ watermark' = [watermark EXCEPT ![s] = n]
          /\ events' = [events EXCEPT ![s] = {e \in @ \cup {a} : e.seq > n}]
    /\ considered' = [considered EXCEPT ![s] = @ \cup {a}]
    /\ UNCHANGED <<storeVars, live, pin, streamVars, deliv>>

-----------------------------------------------------------------------------
(* Retention.                                                              *)

\* Mutation of KeptDeliveries: the row of the pin's revision is not kept.
KeptDeliveriesUnpinned(s, old) ==
    {d \in deliv[s] : d.rev > old \/ d.rev \in LabelActs \cup {eff[s].rev}}

\* The delivery rows PruneConfigurationReleases leaves: the newer ones, and
\* those of the pin, of the acknowledged target and of the labels.
KeptDeliveries(s, old) ==
    {d \in deliv[s] :
        d.rev > old \/ d.rev \in LabelActs \cup {pin[s].rev, eff[s].rev}}

\* old bounds the delivery rows of each session that are past the cutoff: they
\* were written no earlier than the revision they name.
PruneConfigurationReleases(cutoff, oldest, old) ==
    /\ PruneReleases(cutoff, oldest, Pins)
    /\ deliv' = [s \in Sessions |-> KeptDeliveries(s, old[s])]
    /\ UNCHANGED <<live, pin, streamVars, ackVars>>

\* Mutation of PruneReleaseSessions: the acknowledgements stay behind.
PruneSessionRowsOnly(gone) ==
    LET cleared(f, none) == [s \in Sessions |-> IF s \in gone THEN none ELSE f[s]]
    IN  /\ \A s \in gone : ~conn[s].up
        /\ live' = live \ gone
        /\ pin' = cleared(pin, NoPin)
        /\ conn' = cleared(conn, NoConn)
        /\ deliv' = cleared(deliv, {})
        /\ UNCHANGED <<storeVars, open, opened, ackVars>>

\* pruneReleaseSessions: disconnected sessions go, pinned or not, with all
\* their rows.
PruneReleaseSessions(gone) ==
    LET cleared(f, none) == [s \in Sessions |-> IF s \in gone THEN none ELSE f[s]]
    IN  /\ \A s \in gone : ~conn[s].up
        /\ live' = live \ gone
        /\ pin' = cleared(pin, NoPin)
        /\ conn' = cleared(conn, NoConn)
        /\ deliv' = cleared(deliv, {})
        /\ eff' = cleared(eff, NoAck)
        /\ applied' = cleared(applied, NoAck)
        /\ watermark' = cleared(watermark, 0)
        /\ events' = cleared(events, {})
        /\ considered' = cleared(considered, {})
        /\ UNCHANGED <<storeVars, open, opened>>

-----------------------------------------------------------------------------
ReleaseStep ==
    \/ \E m \in SUBSET Resources, application \in BOOLEAN :
          CreateConfigurationRelease(m, application) /\ UNCHANGED sessionVars
    \/ \E v \in DOMAIN rels :
          ActivateConfigurationRelease(v) /\ UNCHANGED sessionVars
    \/ RollbackRead /\ UNCHANGED sessionVars
    \/ RollbackActivate /\ UNCHANGED sessionVars
    \/ RollbackFails /\ UNCHANGED sessionVars

ResourceStep ==
    \E r \in Resources :
        \/ RemoveResource(r, Pins) /\ UNCHANGED sessionVars
        \/ ReplaceParameter(r) /\ UNCHANGED sessionVars
        \/ \E state \in {"enabled", "disabled"} :
              SetSecretVersionState(r, state) /\ UNCHANGED sessionVars
        \/ PurgeSecretVersion(r) /\ UNCHANGED sessionVars

SessionStep ==
    \/ \E s \in Sessions :
          \/ RegisterReleaseSession(s)
          \/ OpenStream(s)
          \/ ResolveInstanceRelease(s)
          \/ \E v \in {0} \cup DOMAIN rels : SetReleasePin(s, v)
    \/ \E st \in open :
          \/ CloseStream(st)
          \/ \E seq \in SequenceNumbers, d \in deliv[st.s], state \in AckStates :
                Acknowledge(st, [seq |-> seq, rev |-> d.rev, v |-> d.v,
                                 act |-> d.act, state |-> state])
    \/ Restart

\* The maintenance pass of Hub.Run; a pass that removes no row is left out.
PruneStep ==
    \/ \E a \in actLog : PruneActivateRows(a.rev) /\ UNCHANGED sessionVars
    \/ \E cutoff \in 0..rev, oldest \in {0} \cup (DOMAIN rels \ (Labelled \cup Pins)) :
          \E old \in [Sessions -> 0..cutoff] :
             /\ \A s \in Sessions : old[s] \in {0} \cup {d.rev : d \in deliv[s]}
             /\ PruneConfigurationReleases(cutoff, oldest, old)
    \/ \E gone \in (SUBSET live) \ {{}} : PruneReleaseSessions(gone)

Next == ReleaseStep \/ ResourceStep \/ SessionStep \/ PruneStep

Spec == Init /\ [][Next]_vars

-----------------------------------------------------------------------------
(* Properties.                                                             *)

SessionTypeOK ==
    /\ live \subseteq Sessions
    /\ pin \in [Sessions -> [v : 0..MaxVersion, rev : Revisions]]
    /\ deliv \in [Sessions -> SUBSET Delivery]

StreamTypeOK ==
    /\ conn \in [Sessions -> [up : BOOLEAN, id : 0..MaxConnections]]
    /\ open \subseteq Stream /\ opened \in 0..MaxConnections

AckTypeOK ==
    /\ eff \in [Sessions -> Ack \cup {NoAck}]
    /\ applied \in [Sessions -> Ack \cup {NoAck}]
    /\ watermark \in [Sessions -> 0..MaxSequence]
    /\ events \in [Sessions -> SUBSET Ack]
    /\ considered \in [Sessions -> SUBSET Ack]

\* The tables hold what their columns say; in particular a release version is
\* never above the counter that numbers the next one.
TypeOK == StoreTypeOK /\ SessionTypeOK /\ StreamTypeOK /\ AckTypeOK

\* What a label or a pin names is there and whole: retention keeps the
\* release, so that a target resolves and a rollback finds its version, and no
\* delete or destroy takes a version out of its manifest, however it falls
\* between a release's creation, its activation and its pinning.  Only the
\* emergency purge may.
ReferencedReleasesIntact ==
    \A v \in Labelled \cup Pins :
        /\ v \in DOMAIN rels
        /\ \A r \in rels[v] : res[r] \in {"enabled", "disabled", "purged"}

\* Retention never removes the newest release, so "latest" (version 0 of
\* getConfigurationRelease) is always the last one created, which is what an
\* application plan's expected latest version is compared with.
NewestReleaseKept == Latest = counter

\* One revision is one target: the delivery row of the revision a session's
\* target has now names that target, and no row is ahead of it.  The reducer
\* would otherwise refuse what the session rightly acknowledges.
RevisionNamesOneTarget ==
    \A s \in live : \A d \in deliv[s] :
        /\ d.rev <= TargetOf(s).rev
        /\ d.rev = TargetOf(s).rev => d = TargetOf(s)

\* What the rollout view compares: a session whose acknowledged revision is
\* its target's has acknowledged the target's version, and its last applied
\* revision is never ahead of the target.
CaughtUpMeansTarget ==
    \A s \in live : \A a \in {eff[s], applied[s]} :
        /\ a.rev <= TargetOf(s).rev
        /\ a.rev = TargetOf(s).rev /\ a # NoAck =>
              [rev |-> a.rev, v |-> a.v, act |-> a.act] = TargetOf(s)

\* The reducer's verdict does not depend on the order of arrival: the row
\* holds the newest of all events it recorded and the newest applied one, and
\* pruned events cannot regain authority.
EffectiveIsNewest ==
    LET AtMost(a, b) == a.rev < b.rev \/ (a.rev = b.rev /\ a.seq <= b.seq) IN
    \A s \in live :
        /\ \A a \in considered[s] : AtMost(a, eff[s])
        /\ eff[s] \in considered[s] \cup {NoAck}
        /\ \A a \in considered[s] :
              a.state = "applied" => AtMost(a, applied[s])
        /\ applied[s] \in {a \in considered[s] : a.state = "applied"}
                             \cup {NoAck}

\* A sequence is one event for good: after its fingerprint has been pruned the
\* watermark still refuses another payload under it.
OnePayloadPerSequence ==
    \A s \in live : \A a, b \in considered[s] : a.seq = b.seq => a = b

\* A stream that has the session is shown connected, so that it may be pinned
\* and acknowledge; the late end of an older stream does not clear it.
OpenStreamIsConnected ==
    \A st \in open : st.s \in live /\ conn[st.s].id = st.id => conn[st.s].up

TargetAdvances ==
    \A s \in Sessions : s \in live /\ s \in live' =>
        /\ TargetOf(s)'.rev >= TargetOf(s).rev
        /\ TargetOf(s)'.rev = TargetOf(s).rev => TargetOf(s)' = TargetOf(s)

\* A session's target only moves forward: its revision never falls, and while
\* the revision stays the target stays.
TargetMonotone == [][TargetAdvances]_vars

TargetRowStays ==
    \A s \in Sessions :
        s \in live /\ s \in live' /\ TargetOf(s) \in deliv[s]
          /\ TargetOf(s)' = TargetOf(s)
        => TargetOf(s) \in deliv'[s]

\* Once a target has been handed out, its delivery row outlives every pruning
\* for as long as it is the target, so it can still be acknowledged.
TargetStaysAcknowledgeable == [][TargetRowStays]_vars

\* "re-activates the release name's previous version": the rollback step makes
\* current what is labelled previous when it takes effect.
RollbackActivatesPrevious ==
    [][RollbackActivate => current'.v = previous.v]_vars
===============================================================================
