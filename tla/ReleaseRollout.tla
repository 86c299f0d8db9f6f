---------------------------- MODULE ReleaseRollout ----------------------------
(***************************************************************************)
(* One client process following a release track: the Go SDK's              *)
(* ReleaseLoader.Run (sdk/go/kmsclient/release_loader.go) against the      *)
(* session tables, over WatchRelease streams served by                     *)
(* watchInstanceRelease (internal/server/grpcserver/release_sessions.go).  *)
(*                                                                         *)
(* The loader is three goroutines: the main loop, at most one call of      *)
(* processCandidate, and the watch loop with its current stream.  A stream *)
(* keeps the order of its messages until it breaks; the server may go on   *)
(* serving a stream its client has given up.                               *)
(***************************************************************************)
EXTENDS ReleaseSessions, Sequences

CONSTANTS
    Self,           \* the session of the process
    MaxDisturbances \* model bound: moves of the target, failures of calls, and
                    \* losses of a stream that is in use

ASSUME RolloutConstants ==
    /\ Self \in Sessions
    /\ AckStates = {"received", "prepared", "applied", "rejected"}
    /\ MaxDisturbances \in Nat
    /\ MaxSequence >= 3 * MaxDisturbances
    /\ MaxRevision >= MaxDisturbances /\ MaxConnections > MaxDisturbances

VARIABLES
    run,       \* how far Run is; "failed" is a terminal watch error
    main,      \* the main loop's variables
    job,       \* the processCandidate call in flight
    candidate, \* the channel from the watch loop, capacity 1, latest wins
    committed, \* the targets Commit was called for, in order
    acks,      \* nextAckSequence, pendingAck and dirtyAck
    stream,    \* the watch loop's stream, 0 when it has none
    inbox,     \* per stream: acknowledgements on their way to the server
    outbox,    \* per stream: events on their way to the client, while it reads
    last,      \* per stream: the target revision sent last, -1 before
    disturbed  \* how often it has been disturbed

loaderVars == <<run, main, job, candidate, committed, acks, disturbed>>
wireVars == <<stream, inbox, outbox, last>>
rolloutVars == <<vars, loaderVars, wireVars>>

NoTarget == [rev |-> 0, v |-> 0, act |-> 0]
NoJob == [c |-> NoTarget, stage |-> "none", cancelled |-> FALSE]

StreamIds == 1..MaxConnections

\* The releases have been created; nothing is active and no session exists.
RolloutInit ==
    /\ rev = 0 /\ counter = MaxVersion
    /\ rels = [v \in Versions |-> {}]
    /\ current = NoLabel /\ previous = NoLabel
    /\ acts = {} /\ actLog = {}
    /\ res = [r \in Resources |-> "enabled"]
    /\ rollback = NoRollback
    /\ SessionInit
    /\ run = "starting"
    /\ main = [latest |-> NoTarget, retry |-> FALSE, pending |-> NoTarget,
               read |-> "none", fresh |-> NoTarget]
    /\ job = NoJob
    /\ candidate = NoTarget
    /\ committed = <<>>
    /\ acks = [next |-> 1, pending |-> [st \in AckStates |-> NoAck],
               dirty |-> {}]
    /\ stream = 0
    /\ inbox = [i \in StreamIds |-> <<>>]
    /\ outbox = [i \in StreamIds |-> <<>>]
    /\ last = [i \in StreamIds |-> -1]
    /\ disturbed = 0

Disturb == disturbed < MaxDisturbances /\ disturbed' = disturbed + 1

Here(i) == [s |-> Self, id |-> i]

\* What GetInstanceRelease answers, leaving its delivery row behind; the call
\* fails when the session is gone.
GetInstanceRelease ==
    /\ Self \in live
    /\ ResolveInstanceRelease(Self)

\* A call fails because the session is gone or for a reason that passes.
CallFails ==
    IF Self \in live THEN Disturb ELSE UNCHANGED disturbed

\* Run returns a terminal watch error unless it is returning another already.
Terminal == IF run = "stopping" THEN "stopped" ELSE "failed"

-----------------------------------------------------------------------------
(* The main loop of Run.                                                   *)

\* shouldQueueReleaseCandidate.  After the first one every candidate counts as
\* a reconciliation, those of the watch included.
ShouldQueue(c) ==
    /\ c.v # 0
    /\ c.rev >= main.latest.rev
    /\ c = main.latest => main.retry

\* Run's queue: start the candidate, or cancel the call in flight and wait for
\* it with the newest candidate pending.  An answered read is consumed.
Queue(c) ==
    LET m == [main EXCEPT !.read = "none", !.fresh = NoTarget] IN
    IF ShouldQueue(c)
    THEN /\ main' = [m EXCEPT !.latest = c, !.retry = FALSE,
                        !.pending = IF job = NoJob THEN @ ELSE c]
         /\ job' = IF job = NoJob
                   THEN [c |-> c, stage |-> "resolve", cancelled |-> FALSE]
                   ELSE [job EXCEPT !.cancelled = TRUE]
    ELSE main' = m /\ UNCHANGED job

InLoop == run = "running" /\ main.read = "none"

\* registerSession and the first getActive; no release yet is not an error.
Start ==
    /\ run = "starting"
    /\ Self \notin live
    /\ RegisterReleaseSession(Self)
    /\ run' = "initial"
    /\ UNCHANGED <<main, job, candidate, committed, acks, disturbed, wireVars>>

ReadInitial ==
    /\ run = "initial"
    /\ GetInstanceRelease
    /\ run' = "running"
    /\ Queue(TargetOf(Self))
    /\ UNCHANGED <<candidate, committed, acks, disturbed, wireVars>>

\* Run returns the error of its first calls.
StartFails ==
    /\ run = "initial"
    /\ CallFails
    /\ run' = "stopped"
    /\ UNCHANGED <<vars, main, job, candidate, committed, acks, wireVars>>

\* case candidate := <-events
TakeCandidate ==
    /\ InLoop /\ candidate # NoTarget
    /\ candidate' = NoTarget
    /\ Queue(candidate)
    /\ UNCHANGED <<vars, run, committed, acks, disturbed, wireVars>>

\* case <-ticker.C: the loop waits in getActive; a failure is ignored.
Reconcile ==
    /\ InLoop
    /\ GetInstanceRelease
    /\ main' = [main EXCEPT !.read = "tick", !.fresh = TargetOf(Self)]
    /\ UNCHANGED <<run, job, candidate, committed, acks, disturbed, wireVars>>

\* getActive has returned.  At startup an unchanged answer ends Run.
TakeFresh ==
    /\ run = "running"
    /\ \/ main.read = "tick"
       \/ main.read = "startup" /\ main.fresh.v # 0 /\ main.fresh # main.latest
    /\ Queue(main.fresh)
    /\ UNCHANGED <<vars, run, candidate, committed, acks, disturbed, wireVars>>

\* case result := <-results, which ends the call in flight.  A candidate that
\* was queued meanwhile is the one pending.
TakeResult ==
    /\ InLoop
    /\ job.stage \in {"applied", "superseded", "failed"}
    /\ \/ /\ main.pending # NoTarget
          /\ job' = [c |-> main.pending, stage |-> "resolve",
                     cancelled |-> FALSE]
          /\ main' = [main EXCEPT !.pending = NoTarget]
          /\ UNCHANGED <<vars, run>>
       \/ /\ main.pending = NoTarget
          /\ job' = NoJob
          /\ job.stage = "failed" => committed # <<>>
          /\ main' = [main EXCEPT !.retry = @ \/ job.stage = "failed"]
          /\ UNCHANGED <<vars, run>>
       \/ \* before the first Commit a failure asks for the active release
          \* once more
          /\ main.pending = NoTarget
          /\ job.stage = "failed" /\ committed = <<>>
          /\ GetInstanceRelease
          /\ job' = NoJob
          /\ main' = [main EXCEPT !.read = "startup",
                                  !.fresh = TargetOf(Self)]
          /\ UNCHANGED run
    /\ UNCHANGED <<candidate, committed, acks, disturbed, wireVars>>

\* The release that failed is still the one, or cannot be read: Run stops the
\* watch after its acknowledgements and returns the error.
StartupFails ==
    /\ run = "running"
    /\ \/ /\ main.read = "startup"
          /\ main.fresh.v = 0 \/ main.fresh = main.latest
          /\ UNCHANGED disturbed
       \/ /\ main.read = "none" /\ main.pending = NoTarget
          /\ job.stage = "failed" /\ committed = <<>>
          /\ CallFails
    /\ run' = "stopping"
    /\ UNCHANGED <<vars, main, job, candidate, committed, acks, wireVars>>

-----------------------------------------------------------------------------
(* processCandidate.                                                       *)

\* Mutation of Acked: a state keeps the sequence it had.
AckedInPlace(c, st) ==
    LET seq == IF acks.pending[st] = NoAck THEN acks.next
                                           ELSE acks.pending[st].seq
    IN  [acks EXCEPT !.next = IF seq = @ THEN @ + 1 ELSE @,
                     !.pending[st] = [seq |-> seq, rev |-> c.rev, v |-> c.v,
                                      act |-> c.act, state |-> st],
                     !.dirty = @ \cup {st}]

\* ackWithDivergence: one pending acknowledgement for each state.
Acked(c, st) ==
    IF acks.pending[st] # NoAck /\ acks.pending[st].rev > c.rev
    THEN acks
    ELSE [acks EXCEPT !.next = @ + 1,
                      !.pending[st] = [seq |-> acks.next, rev |-> c.rev,
                                       v |-> c.v, act |-> c.act, state |-> st],
                      !.dirty = @ \cup {st}]

\* A failure is put down to supersession once the call has been cancelled.
Rejects ==
    /\ acks' = Acked(job.c, "rejected")
    /\ job' = [job EXCEPT !.stage = IF job.cancelled THEN "superseded"
                                                     ELSE "failed"]
    /\ IF job.cancelled THEN UNCHANGED disturbed ELSE Disturb
    /\ UNCHANGED <<run, main, candidate, committed, wireVars>>

\* resolveCandidate fetches the manifest's entries; prepare is the
\* application's.
Resolve ==
    /\ job.stage = "resolve"
    /\ \/ /\ acks' = Acked(job.c, "received")
          /\ job' = [job EXCEPT !.stage = "prepare"]
          /\ UNCHANGED <<run, main, candidate, committed, disturbed, wireVars>>
       \/ Rejects
    /\ UNCHANGED vars

Prepare ==
    /\ job.stage = "prepare"
    /\ \/ /\ ~job.cancelled
          /\ acks' = Acked(job.c, "prepared")
          /\ job' = [job EXCEPT !.stage = "check"]
          /\ UNCHANGED <<run, main, candidate, committed, disturbed, wireVars>>
       \/ Rejects
    /\ UNCHANGED vars

\* Mutation of CheckActive: the acknowledgement goes out before the Commit.
CheckActiveAcking ==
    /\ job.stage = "check"
    /\ \/ /\ GetInstanceRelease /\ TargetOf(Self).v # 0
          /\ IF job.c = TargetOf(Self) /\ ~job.cancelled
             THEN /\ job' = [job EXCEPT !.stage = "commit"]
                  /\ acks' = Acked(job.c, "applied")
             ELSE /\ job' = [job EXCEPT !.stage = "superseded"]
                  /\ acks' = Acked(job.c, "rejected")
          /\ UNCHANGED <<run, main, candidate, committed, disturbed, wireVars>>
       \/ Rejects /\ UNCHANGED vars

\* The last look at the target before Commit.
CheckActive ==
    /\ job.stage = "check"
    /\ \/ /\ GetInstanceRelease /\ TargetOf(Self).v # 0
          /\ IF job.c = TargetOf(Self) /\ ~job.cancelled
             THEN job' = [job EXCEPT !.stage = "commit"] /\ UNCHANGED acks
             ELSE /\ job' = [job EXCEPT !.stage = "superseded"]
                  /\ acks' = Acked(job.c, "rejected")
          /\ UNCHANGED <<run, main, candidate, committed, disturbed, wireVars>>
       \/ Rejects /\ UNCHANGED vars

\* The check fails, not to be tried again, without a session or without an
\* active release.
CheckGone ==
    /\ job.stage = "check"
    /\ Self \in live => TargetOf(Self).v = 0
    /\ acks' = Acked(job.c, "rejected")
    /\ job' = [job EXCEPT !.stage = IF job.cancelled THEN "superseded"
                                                     ELSE "failed"]
    /\ UNCHANGED <<vars, run, main, candidate, committed, disturbed, wireVars>>

\* Commit, too late to notice a cancellation.
Commit ==
    /\ job.stage = "commit"
    /\ committed' = Append(committed, job.c)
    /\ acks' = Acked(job.c, "applied")
    /\ job' = [job EXCEPT !.stage = "applied"]
    /\ UNCHANGED <<vars, run, main, candidate, disturbed, wireVars>>

-----------------------------------------------------------------------------
(* The watch loop and its streams.                                         *)

\* Acknowledgements in the order of their sequence numbers.
BySequence(as) ==
    {q \in [1..Cardinality(as) -> as] : \A k \in 2..Cardinality(as) : q[k - 1].seq < q[k].seq}

Pending(sts) == {acks.pending[st] : st \in sts} \ {NoAck}

\* Mutation of Replayed: only what has not been sent before.
ReplayedDirty == BySequence(Pending(acks.dirty))

\* sendPendingAcks with replay: everything pending, in the order it was
\* generated, whether it was sent on an earlier stream or not.
Replayed == BySequence(Pending(AckStates))

\* watchSession opens a stream; the server refuses a session that is gone, and
\* that error is terminal.
WatchSession ==
    /\ run \in {"running", "stopping"} /\ stream = 0
    /\ \/ /\ OpenStream(Self)
          /\ stream' = opened + 1
          /\ \E q \in Replayed : inbox' = [inbox EXCEPT ![opened + 1] = q]
          /\ acks' = [acks EXCEPT !.dirty = {}]
          /\ UNCHANGED run
       \/ /\ Self \notin live
          /\ run' = Terminal
          /\ UNCHANGED <<vars, stream, inbox, acks>>
    /\ UNCHANGED <<main, job, candidate, committed, disturbed, outbox, last>>

\* case <-l.ackSignal.  The code holds ackMu for the snapshot and again for each
\* clearing of a dirty flag, not while it sends.  One step stands for all of it: an
\* acknowledgement made in between has a new generation, so its flag stays set, as
\* if it had been made after this step.
SendPendingAcks ==
    /\ stream # 0 /\ acks.dirty # {}
    /\ \E q \in BySequence(Pending(acks.dirty)) :
          inbox' = [inbox EXCEPT ![stream] = @ \o q]
    /\ acks' = [acks EXCEPT !.dirty = {}]
    /\ UNCHANGED <<vars, run, main, job, candidate, committed, disturbed,
                   stream, outbox, last>>

\* case item := <-recv: a target replaces the candidate waiting in the channel;
\* a refused acknowledgement is dropped if it is still the pending one.
Receive ==
    /\ stream # 0 /\ outbox[stream] # <<>>
    /\ outbox' = [outbox EXCEPT ![stream] = Tail(@)]
    /\ LET e == Head(outbox[stream]) IN
       IF "state" \in DOMAIN e
       THEN /\ acks' = IF acks.pending[e.state] = e
                       THEN [acks EXCEPT !.pending[e.state] = NoAck,
                                         !.dirty = @ \ {e.state}]
                       ELSE acks
            /\ UNCHANGED candidate
       ELSE candidate' = e /\ UNCHANGED acks
    /\ UNCHANGED <<vars, run, main, job, committed, disturbed, stream, inbox,
                   last>>

\* The client finds its stream broken, or gives it up; it reads nothing more
\* from it.
LoseStream ==
    /\ stream # 0
    /\ IF Here(stream) \in open THEN Disturb ELSE UNCHANGED disturbed
    /\ stream' = 0
    /\ outbox' = [outbox EXCEPT ![stream] = <<>>]
    /\ UNCHANGED <<vars, run, main, job, candidate, committed, acks, inbox,
                   last>>

\* waitForReleaseWatchStop is over; Run returns the startup error.
Stop ==
    /\ run = "stopping"
    /\ run' = "stopped" /\ stream' = 0
    /\ outbox' = [i \in StreamIds |-> <<>>]
    /\ UNCHANGED <<vars, main, job, candidate, committed, acks, disturbed,
                   inbox, last>>

-----------------------------------------------------------------------------
(* The server's end of a stream.                                           *)

\* sendTarget, on a notification, a hub event or a heartbeat; the first one
\* is sent whatever it is.  A target without a release is no news to a loader.
SendTarget(i) ==
    /\ Here(i) \in open
    /\ last[i] # TargetOf(Self).rev
    /\ GetInstanceRelease
    /\ last' = [last EXCEPT ![i] = TargetOf(Self).rev]
    /\ outbox' = IF TargetOf(Self).v = 0 \/ stream # i THEN outbox
                 ELSE [outbox EXCEPT ![i] = Append(@, TargetOf(Self))]
    /\ UNCHANGED <<loaderVars, stream, inbox>>

TargetRow(a) == [rev |-> a.rev, v |-> a.v, act |-> a.act]

\* A failed precondition is terminal for the loader whose stream it is.
Refused(i) == IF stream = i THEN Terminal ELSE run

\* The next acknowledgement of a stream that holds the session: reduced, passed
\* over, answered as unavailable, or refused as conflicting or mismatched.
ServeAck(i) ==
    LET a == Head(inbox[i]) IN
    /\ Here(i) \in open /\ inbox[i] # <<>>
    /\ Self \in live /\ conn[Self] = [up |-> TRUE, id |-> i]
    /\ inbox' = [inbox EXCEPT ![i] = Tail(@)]
    /\ \/ /\ Acknowledge(Here(i), a)
          /\ UNCHANGED <<run, outbox>>
       \/ /\ ~Fresh(Self, a)
          /\ run' = IF \E e \in events[Self] : e.seq = a.seq /\ e # a
                    THEN Refused(i) ELSE run
          /\ UNCHANGED <<vars, outbox>>
       \/ /\ Fresh(Self, a) /\ TargetRow(a) \notin deliv[Self]
          /\ IF \E d \in deliv[Self] : d.rev = a.rev
             THEN run' = Refused(i) /\ UNCHANGED outbox
             ELSE /\ outbox' = IF stream # i THEN outbox
                               ELSE [outbox EXCEPT ![i] = Append(@, a)]
                  /\ UNCHANGED run
          /\ UNCHANGED vars
    /\ UNCHANGED <<main, job, candidate, committed, acks, disturbed, stream,
                   last>>

\* The stream ends, also because another has taken its session; what the
\* server has not read is lost.
EndStream(i) ==
    /\ IF stream = i THEN Disturb ELSE UNCHANGED disturbed
    /\ CloseStream(Here(i))
    /\ inbox' = [inbox EXCEPT ![i] = <<>>]
    /\ last' = [last EXCEPT ![i] = -1]
    /\ UNCHANGED <<run, main, job, candidate, committed, acks, stream, outbox>>

ServerRestart ==
    /\ Disturb
    /\ Restart
    /\ inbox' = [i \in StreamIds |-> <<>>]
    /\ last' = [i \in StreamIds |-> -1]
    /\ UNCHANGED <<run, main, job, candidate, committed, acks, stream, outbox>>

-----------------------------------------------------------------------------
\* Operators and retention.  A rollback is an activation, and a
\* pruning here is one whose windows have all passed.
Moves ==
    \/ \E v \in DOMAIN rels :
          ActivateConfigurationRelease(v) /\ UNCHANGED sessionVars
    \/ \E v \in {0} \cup DOMAIN rels : SetReleasePin(Self, v)

Prunes ==
    \/ PruneConfigurationReleases(rev, counter, [s \in Sessions |-> rev])
    \/ PruneReleaseSessions({Self} \cap live)

Operate ==
    /\ \/ Moves /\ Disturb
       \/ Prunes /\ UNCHANGED disturbed
    /\ UNCHANGED <<run, main, job, candidate, committed, acks, wireVars>>

Job == Resolve \/ Prepare \/ CheckActive \/ CheckGone \/ Commit

Loader == \/ Start \/ ReadInitial \/ StartFails \/ TakeCandidate \/ Reconcile
          \/ TakeFresh \/ TakeResult \/ StartupFails \/ Job \/ WatchSession
          \/ SendPendingAcks \/ Receive \/ LoseStream \/ Stop

Server == \/ \E i \in StreamIds : SendTarget(i) \/ ServeAck(i) \/ EndStream(i)
          \/ ServerRestart

RolloutNext == Operate \/ Loader \/ Server

RolloutSpec == RolloutInit /\ [][RolloutNext]_rolloutVars

-----------------------------------------------------------------------------
(* Properties.                                                             *)

\* The targets the server shows as applied.
ShownApplied ==
    {TargetRow(a) : a \in {e \in considered[Self] : e.state = "applied"}}

Promise == INSTANCE LoaderContract WITH shown <- ShownApplied

\* The loader keeps the contract of LoaderContract: Commit is called for targets
\* of rising revisions, though candidates come from the watch, the ticker and
\* the startup read and a superseded call may outlive its cancellation; and
\* whatever was lost, repeated or late on the way, the server shows nothing as
\* applied that Commit was not called for before.
KeepsContract == Promise!Spec

\* Replays over old and new streams, retries of a rejected release and pruned
\* fingerprints never make the reducer take the loader's acknowledgements for
\* conflicting ones: the loader fails for good only with its session gone.
FailsOnlyWithoutSession == run = "failed" => Self \notin live
===============================================================================
