---------------------------- MODULE ReleaseClients ----------------------------
(***************************************************************************)
(* A process that follows a release track with either SDK's loader: the Go *)
(* ReleaseLoader of ReleaseRollout, or the TypeScript one of NodeLoader    *)
(* under ManagedConfigManager.  Operators, server and wire are the same.   *)
(***************************************************************************)
EXTENDS NodeLoader

VARIABLE sdk  \* the SDK the process is built with

clientVars == <<nodeLoaderVars, sdk>>

ClientInit == NodeInit /\ sdk \in {"go", "node"}

Go == sdk = "go" /\ UNCHANGED <<sdk, nodeVars>>
Node == sdk = "node" /\ UNCHANGED sdk
Either == UNCHANGED <<sdk, nodeVars>>

ClientNext ==
    \/ Go /\ Loader
    \/ Node /\ NodeStep
    \/ Either /\ (Operate \/ Server)

ClientSpec == ClientInit /\ [][ClientNext]_clientVars

-----------------------------------------------------------------------------
(* Fairness.  Each set holds the steps of one goroutine, or of one chain   *)
(* of continuations, that exclude each other or come to an end.            *)

MainThread == \/ Start \/ ReadInitial \/ StartFails \/ TakeFresh
              \/ StartupFails \/ Stop
WatchThread == \/ WatchSession \/ SendPendingAcks \/ Receive
               \/ Here(stream) \notin open /\ LoseStream

RunLoop == NodeStart \/ ReconcileReads \/ ReconcileOffers \/ RunEnds
WatchLoop == \/ WatchRelease \/ SendAck \/ ReceiveEvent
             \/ Here(stream) \notin open /\ StreamEnds

\* Every goroutine and continuation keeps running, every call returns and
\* timers recur.  Go's select chooses among its ready cases at random, so a case
\* that is ready again and again is taken.  Nothing is assumed of operators, of
\* a stream's end or of the moment a stream is lost, except that a client
\* notices a stream the server has ended.
ClientFairness ==
    /\ WF_clientVars(Go /\ MainThread)
    /\ SF_clientVars(Go /\ TakeCandidate) /\ SF_clientVars(Go /\ TakeResult)
    /\ WF_clientVars(Go /\ Reconcile)
    /\ WF_clientVars(Go /\ Job)
    /\ WF_clientVars(Go /\ WatchThread)
    /\ WF_clientVars(Node /\ RunLoop)
    /\ WF_clientVars(Node /\ (Candidate \/ CandidateSettles))
    /\ WF_clientVars(Node /\ Startup)
    /\ WF_clientVars(Node /\ WatchLoop)
    /\ WF_clientVars(Either /\ \E i \in StreamIds : SendTarget(i) \/ ServeAck(i))

FairClientSpec == ClientSpec /\ ClientFairness

-----------------------------------------------------------------------------
(* Properties.                                                             *)

\* A managed process never runs a release that differs in a restart-bound field
\* from the one it started with, whatever was superseded or retried in between:
\* the startup that #prepareSnapshot captured before its await still holds after it.
NeverColdSwapped ==
    sdk = "node" =>
        \A k \in DOMAIN committed : (committed[k].v \in Cold) = (committed[1].v \in Cold)

\* The operator is told of a divergence before the process runs it, for every
\* target anew, also for one that brings back a release reported earlier; and
\* the manager's flag says which kind is running (#reportOnce, #lastReportedKey).
DivergenceReported ==
    sdk = "node" =>
        /\ \A k \in DOMAIN committed :
              committed[k].v \in Divergent => committed[k] \in Range(managed.reports)
        /\ managed.divergent = (committed # <<>> /\ committed[Len(committed)].v \in Divergent)

\* When operators stop and streams stop breaking, the process runs its
\* session's target and the server shows it applied, unless run has ended or
\* the target needs a restart of a managed process.
RolloutConverges ==
    <>[](\/ run \in {"stopped", "failed"}
         \/ TargetOf(Self).v = 0
         \/ sdk = "node" /\ NeedsRestart(TargetOf(Self))
         \/ /\ committed # <<>> /\ committed[Len(committed)] = TargetOf(Self)
            /\ eff[Self].state = "applied"
            /\ TargetRow(eff[Self]) = TargetOf(Self))
===============================================================================
