------------------------------ MODULE NodeLoader ------------------------------
(***************************************************************************)
(* The TypeScript SDK's ReleaseLoader.run (releases/loader.ts) with the    *)
(* policy ManagedConfigManager puts around it (configstore/manager.ts),    *)
(* against the session tables and streams of ReleaseRollout.               *)
(*                                                                         *)
(* Where the Go loader has a main loop that owns its variables, this one   *)
(* has promise continuations: the watch loop, the reconciliation loop and  *)
(* the continuation of a candidate that failed at startup each call offer  *)
(* by themselves, and acknowledgements are sent one by one by a chain of   *)
(* flushes.  A step is the code between two awaits.                        *)
(***************************************************************************)
EXTENDS ReleaseRollout

CONSTANTS
    Divergent,  \* releases that differ from the source defaults
    Cold        \* releases that differ from the others in a restart-bound field

ASSUME NodeConstants == Divergent \subseteq Versions /\ Cold \subseteq Versions

VARIABLES
    flush,      \* what the current flushAcknowledgements has yet to send
    failing,    \* continuations of candidates that failed before any Commit
    managed     \* the manager: startup as its prepare captured it, divergence,
                \* lastReportedKey, and its reports

nodeVars == <<flush, failing, managed>>
nodeLoaderVars == <<rolloutVars, nodeVars>>

NodeInit ==
    /\ RolloutInit
    /\ flush = <<>>
    /\ failing = {}
    /\ managed = [startup |-> TRUE, divergent |-> FALSE, key |-> NoTarget, reports |-> <<>>]

\* The candidate's signal: the run's, or its own once it is superseded.
Aborted == job.cancelled \/ run # "running"

Settled == job.stage \in {"applied", "superseded", "failed"}

-----------------------------------------------------------------------------
(* run: offering candidates and what becomes of them.                      *)

\* run's own calls are those of the Go loader.
NodeStart == (Start \/ ReadInitial \/ StartFails) /\ UNCHANGED nodeVars

\* offer, called by whoever reads a target.  The model retries a candidate
\* as long as there are sequence numbers for its acknowledgements.
Offer(c) ==
    IF /\ run = "running"
       /\ c = main.latest => acks.next + 2 <= MaxSequence
    THEN Queue(c)
    ELSE /\ main' = [main EXCEPT !.read = "none", !.fresh = NoTarget]
         /\ UNCHANGED job

\* reconcileLoop: the read, and the continuation that offers what it read.
ReconcileReads == Reconcile /\ UNCHANGED nodeVars

ReconcileOffers ==
    /\ main.read = "tick"
    /\ Offer(main.fresh)
    /\ UNCHANGED <<vars, run, candidate, committed, acks, disturbed, wireVars, nodeVars>>

\* The continuation of processCandidate.  The candidate is the latest unless
\* it was superseded; a failure before the first Commit is looked at again.
CandidateSettles ==
    /\ run = "running" /\ Settled
    /\ \/ /\ job.cancelled
          /\ job' = [c |-> main.pending, stage |-> "resolve", cancelled |-> FALSE]
          /\ main' = [main EXCEPT !.pending = NoTarget]
          /\ UNCHANGED failing
       \/ /\ ~job.cancelled
          /\ job.stage = "failed" /\ committed = <<>>
          /\ job' = NoJob
          /\ failing' = failing \cup {[c |-> job.c, stage |-> "reading", fresh |-> NoTarget]}
          /\ UNCHANGED main
       \/ /\ ~job.cancelled
          /\ job.stage # "failed" \/ committed # <<>>
          /\ job' = NoJob
          /\ main' = [main EXCEPT !.retry = @ \/ job.stage = "failed"]
          /\ UNCHANGED failing
    /\ UNCHANGED <<vars, run, candidate, committed, acks, disturbed, wireVars, flush, managed>>

\* The startup continuation reads the target once more; if that is no other
\* one, or cannot be read, it waits for the rejection to be acknowledged.
StartupReads(g) ==
    /\ run = "running" /\ g.stage = "reading"
    /\ \/ /\ GetInstanceRelease
          /\ failing' = (failing \ {g}) \cup
                          {IF TargetOf(Self).v # 0 /\ TargetOf(Self) # g.c
                           THEN [g EXCEPT !.stage = "read", !.fresh = TargetOf(Self)]
                           ELSE [g EXCEPT !.stage = "acking"]}
          /\ UNCHANGED disturbed
       \/ /\ CallFails
          /\ failing' = (failing \ {g}) \cup {[g EXCEPT !.stage = "acking"]}
          /\ UNCHANGED vars
    /\ UNCHANGED <<run, main, job, candidate, committed, acks, wireVars, flush, managed>>

StartupOffers(g) ==
    /\ run = "running" /\ g.stage = "read"
    /\ Offer(g.fresh)
    /\ failing' = failing \ {g}
    /\ UNCHANGED <<vars, run, candidate, committed, acks, disturbed, wireVars, flush, managed>>

\* The acknowledgement was flushed or its time is over: run rejects.
StartupGivesUp(g) ==
    /\ run = "running" /\ g.stage = "acking"
    /\ run' = "stopping"
    /\ UNCHANGED <<vars, main, job, candidate, committed, acks, disturbed, wireVars, nodeVars>>

\* stop, or the caller's signal.
StopRun ==
    /\ run = "running" /\ Disturb
    /\ run' = "stopping"
    /\ UNCHANGED <<vars, main, job, candidate, committed, acks, wireVars, nodeVars>>

\* run's finally: the candidate has settled and the stream is closed.
RunEnds ==
    /\ run = "stopping" \/ (run = "failed" /\ stream # 0)
    /\ job = NoJob \/ Settled
    /\ run' = IF run = "stopping" THEN "stopped" ELSE run
    /\ stream' = 0 /\ flush' = <<>> /\ failing' = {}
    /\ outbox' = [i \in StreamIds |-> <<>>]
    /\ UNCHANGED <<vars, main, job, candidate, committed, acks, disturbed, inbox, last, managed>>

-----------------------------------------------------------------------------
(* processCandidate, with the manager's prepare and commit.                *)

\* #ack: every call takes a sequence number, the newest target's is kept.
NodeAcked(c, st) ==
    IF acks.pending[st] # NoAck /\ acks.pending[st].rev > c.rev
    THEN [acks EXCEPT !.next = @ + 1]
    ELSE Acked(c, st)

\* #reject; what fails after the signal was aborted counts as superseded.
Reject ==
    /\ acks' = NodeAcked(job.c, "rejected")
    /\ job' = [job EXCEPT !.stage = IF Aborted THEN "superseded" ELSE "failed"]
    /\ UNCHANGED <<run, main, candidate, committed, wireVars, nodeVars>>

\* A call of the candidate fails: because it was aborted, or by itself.
CandidateFails ==
    /\ Reject
    /\ IF Aborted THEN UNCHANGED disturbed ELSE Disturb
    /\ UNCHANGED vars

\* Mutation of BeginPrepare: startup is taken once, when the manager starts.
BeginPrepareOnce == managed

\* #prepareSnapshot up to its await: a release is a startup's if none is ready yet.
BeginPrepare == [managed EXCEPT !.startup = committed = <<>>]

\* The candidate is resolved, and the call of prepare follows in the same step.
ResolveCandidate ==
    /\ job.stage = "resolve"
    /\ \/ /\ ~Aborted
          /\ acks' = NodeAcked(job.c, "received")
          /\ job' = [job EXCEPT !.stage = "prepare"]
          /\ managed' = BeginPrepare
          /\ UNCHANGED <<vars, run, main, candidate, committed, disturbed, wireVars, flush, failing>>
       \/ CandidateFails

Differs(c) == (c.v \in Cold) # (committed[Len(committed)].v \in Cold)

\* The restart-required fields the binding finds, against the running release.
NeedsRestart(c) == committed # <<>> /\ Differs(c)

\* Such a candidate is refused as a whole, unless startup was captured.
RestartRequired(c) == ~managed.startup /\ NeedsRestart(c)

\* Mutation of ReportOnce: the key is the release's version alone.
ReportOnceByVersion(c) ==
    IF c.v \notin Divergent \/ managed.key.v = c.v THEN managed
    ELSE [managed EXCEPT !.key = c, !.reports = Append(@, c)]

\* #reportOnce
ReportOnce(c) ==
    IF c.v \notin Divergent \/ managed.key = c THEN managed
    ELSE [managed EXCEPT !.key = c, !.reports = Append(@, c)]

\* #prepareSnapshot after its await, and what processCandidate makes of it.
PrepareSnapshot ==
    /\ job.stage = "prepare"
    /\ \/ /\ ~Aborted /\ ~RestartRequired(job.c)
          /\ managed' = ReportOnce(job.c)
          /\ acks' = NodeAcked(job.c, "prepared")
          /\ job' = [job EXCEPT !.stage = "check"]
          /\ UNCHANGED <<vars, run, main, candidate, committed, disturbed, wireVars, flush, failing>>
       \/ /\ ~Aborted /\ RestartRequired(job.c)
          /\ Reject
          /\ UNCHANGED <<vars, disturbed>>
       \/ CandidateFails

\* The answer to the last look at the target; without a session or a release
\* there is none.
ActiveAnswers ==
    /\ job.stage = "check"
    /\ GetInstanceRelease /\ TargetOf(Self).v # 0
    /\ job' = [job EXCEPT !.stage = IF job.c = TargetOf(Self) THEN "commit" ELSE "differs"]
    /\ UNCHANGED <<run, main, candidate, committed, acks, disturbed, wireVars, nodeVars>>

ActiveFails ==
    /\ job.stage = "check"
    /\ \/ CandidateFails
       \/ /\ Self \in live => TargetOf(Self).v = 0
          /\ Reject
          /\ UNCHANGED <<vars, disturbed>>

\* A clean generation forgets which divergence was reported.
Publish(c) ==
    [managed EXCEPT !.divergent = c.v \in Divergent,
                    !.key = IF c.v \in Divergent THEN @ ELSE NoTarget]

\* The signal, the comparison and the commit are one step of the process.
CommitPrepared ==
    /\ job.stage \in {"commit", "differs"}
    /\ IF Aborted \/ job.stage = "differs"
       THEN /\ job' = [job EXCEPT !.stage = "superseded"]
            /\ acks' = NodeAcked(job.c, "rejected")
            /\ UNCHANGED <<committed, managed>>
       ELSE /\ job' = [job EXCEPT !.stage = "applied"]
            /\ committed' = Append(committed, job.c)
            /\ managed' = Publish(job.c)
            /\ acks' = NodeAcked(job.c, "applied")
    /\ UNCHANGED <<vars, run, main, candidate, disturbed, wireVars, flush, failing>>

-----------------------------------------------------------------------------
(* watchLoop and the flushing of acknowledgements.                         *)

\* A stream opens, and replays every acknowledgement first; a session that is
\* gone is a terminal error.
WatchRelease ==
    /\ run = "running" /\ stream = 0
    /\ \/ /\ OpenStream(Self)
          /\ stream' = opened + 1
          /\ flush' \in Replayed
          /\ UNCHANGED run
       \/ /\ Self \notin live
          /\ run' = "failed"
          /\ UNCHANGED <<vars, stream, flush>>
    /\ UNCHANGED <<main, job, candidate, committed, acks, disturbed, inbox, outbox, last,
                   failing, managed>>

\* One send of flushAcknowledgements, and its continuation: what was replaced
\* meanwhile stays dirty.  A flush collects what is dirty when it begins.
FlushQueue == IF flush # <<>> THEN {flush} ELSE BySequence(Pending(acks.dirty))

SendAck ==
    /\ stream # 0
    /\ \E q \in FlushQueue :
          /\ q # <<>>
          /\ inbox' = [inbox EXCEPT ![stream] = Append(@, Head(q))]
          /\ flush' = Tail(q)
          /\ acks' = [acks EXCEPT !.dirty = IF acks.pending[Head(q).state] = Head(q)
                                            THEN @ \ {Head(q).state} ELSE @]
    /\ UNCHANGED <<vars, run, main, job, candidate, committed, disturbed, stream, outbox, last,
                   failing, managed>>

\* An event: a target is offered, a refused acknowledgement is forgotten if it
\* is still the one retained.
ReceiveEvent ==
    /\ stream # 0 /\ outbox[stream] # <<>>
    /\ outbox' = [outbox EXCEPT ![stream] = Tail(@)]
    /\ LET e == Head(outbox[stream]) IN
       IF "state" \in DOMAIN e
       THEN /\ acks' = IF acks.pending[e.state] = e
                       THEN [acks EXCEPT !.pending[e.state] = NoAck, !.dirty = @ \ {e.state}]
                       ELSE acks
            /\ UNCHANGED <<main, job>>
       ELSE Offer(e) /\ UNCHANGED acks
    /\ UNCHANGED <<vars, run, candidate, committed, disturbed, stream, inbox, last, nodeVars>>

StreamEnds == LoseStream /\ flush' = <<>> /\ UNCHANGED <<failing, managed>>

-----------------------------------------------------------------------------
Candidate == \/ ResolveCandidate \/ PrepareSnapshot \/ ActiveAnswers \/ ActiveFails
             \/ CommitPrepared
Startup == \E g \in failing : StartupReads(g) \/ StartupOffers(g) \/ StartupGivesUp(g)

NodeStep ==
    \/ NodeStart \/ ReconcileReads \/ ReconcileOffers \/ CandidateSettles \/ Startup
    \/ StopRun \/ RunEnds \/ Candidate
    \/ WatchRelease \/ SendAck \/ ReceiveEvent \/ StreamEnds

NodeNext ==
    \/ NodeStep
    \/ (Operate \/ Server) /\ UNCHANGED nodeVars

NodeSpec == NodeInit /\ [][NodeNext]_nodeLoaderVars

-----------------------------------------------------------------------------
(* Properties.                                                             *)

\* "Startup fails until an initial release is successfully applied": the error
\* of a candidate that failed at startup ends the run only while nothing is.
StartupErrorOnlyAtStartup ==
    [][run = "running" /\ run' = "stopping" /\ UNCHANGED disturbed => committed = <<>>]_nodeLoaderVars
===============================================================================
