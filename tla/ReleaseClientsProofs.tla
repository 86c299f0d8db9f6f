------------------------- MODULE ReleaseClientsProofs -------------------------
(***************************************************************************)
(* Both loaders of ReleaseClients keep LoaderContract, for any number of   *)
(* releases, revisions, streams and disturbances; and the safety           *)
(* properties of the process around them.                                  *)
(*                                                                         *)
(* First the inductive invariant, and what a step of either loader or of   *)
(* the server does to the tables, to the loader's main loop, to the        *)
(* streams' queues, to the Node loader's failed candidates and flush, and  *)
(* to the manager's report; then that the invariant is kept.               *)
(*                                                                         *)
(* Everything the loader, the wire and the tables hold of a target is one  *)
(* of the targets the session has had (Seen), and no two of those share a  *)
(* revision.  Commits rise because the main loop goes from one revision to *)
(* a larger one, except to retry a release that was not committed.         *)
(***************************************************************************)
EXTENDS ReleaseClients, TLAPS, FiniteSetTheorems

USE ZenonT(3), SMTT(20)     \* in this order, for a leaf that names no prover

AllTargets == [rev : Nat, v : Nat, act : Nat]
AllAcks == [seq : Nat, rev : Nat, v : Nat, act : Nat, state : AckStates]
Stages == {"none", "resolve", "prepare", "check", "commit", "differs", "applied",
           "superseded", "failed"}

TableType ==
    /\ rev \in Nat /\ opened \in Nat
    /\ DOMAIN rels \subseteq Nat \ {0}
    /\ current \in [v : Nat, act : Nat] /\ current.act <= rev
    /\ pin \in [Sessions -> [v : Nat, rev : Nat]] /\ pin[Self].rev <= rev
    /\ deliv \in [Sessions -> SUBSET AllTargets]
    /\ events \in [Sessions -> SUBSET AllAcks]
    /\ considered \in [Sessions -> SUBSET AllAcks] /\ events[Self] \subseteq considered[Self]

LoaderType ==
    /\ main \in [latest : AllTargets, retry : BOOLEAN, pending : AllTargets,
                 read : {"none", "tick", "startup"}, fresh : AllTargets]
    /\ job \in [c : AllTargets, stage : Stages, cancelled : BOOLEAN]
    /\ committed \in Seq(AllTargets)
    /\ acks \in [next : Nat, pending : [AckStates -> AllAcks \cup {NoAck}], dirty : SUBSET AckStates]
    /\ \A st \in AckStates : acks.pending[st] = NoAck \/ acks.pending[st].state = st

WireType ==
    /\ candidate \in AllTargets
    /\ stream \in {0} \cup StreamIds
    /\ inbox \in [StreamIds -> Seq(AllAcks)]
    /\ outbox \in [StreamIds -> Seq(AllAcks \cup AllTargets)]
    /\ flush \in Seq(AllAcks)
    /\ failing \subseteq [c : AllTargets, stage : {"reading", "read", "acking"}, fresh : AllTargets]
    /\ managed \in [startup : BOOLEAN, divergent : BOOLEAN, key : AllTargets, reports : Seq(AllTargets)]

\* The acknowledgements the process retains, those on their way, and those the
\* server has recorded.
Sent ==
    ({acks.pending[st] : st \in AckStates} \ {NoAck}) \cup Range(flush)
      \cup (UNION {Range(inbox[i]) : i \in StreamIds}) \cup considered[Self]

\* The targets the process, the wire and the tables hold.
Heard ==
    {main.latest, main.pending, main.fresh, job.c, candidate}
      \cup {g.fresh : g \in failing}
      \cup (UNION {Range(outbox[i]) \cap AllTargets : i \in StreamIds}) \cup deliv[Self]

Seen == Heard \cup {TargetRow(a) : a \in Sent}

\* No two targets of a session share a revision, and none is ahead of the one it
\* has now.  Version 0 is no target.
Agree(x, y) == x.v # 0 /\ y.v # 0 /\ x.rev = y.rev => x = y
Fits(x, t) == x.v # 0 => x.rev <= t.rev /\ (x.rev = t.rev => x = t)

SeenInv ==
    /\ \A x, y \in Seen : Agree(x, y)
    /\ Self \in live => \A x \in Seen : Fits(x, TargetOf(Self))
    /\ run = "starting" => Self \notin live /\ \A x \in Seen : x.v = 0
    /\ \A d \in deliv[Self] : d.v # 0

\* A sequence number is one acknowledgement, and it is about a target.
SequenceInv ==
    /\ \A a \in Sent : a.seq < acks.next /\ a.v # 0
    /\ \A a, b \in Sent : a.seq = b.seq => a = b

\* Nothing is acknowledged as applied before Commit.
AppliedInv ==
    \A a \in Sent : a.state = "applied" => TargetRow(a) \in Range(committed)

Before(c) == \A k \in DOMAIN committed : committed[k].rev < c.rev

\* The call in flight is for the latest candidate, or cancelled for it; what was
\* committed is older than a call that has not committed, and than a candidate
\* that is to be retried.
OrderInv ==
    /\ \A k \in DOMAIN committed : committed[k].rev <= main.latest.rev
    /\ main.latest.v = 0 => committed = <<>> /\ job = NoJob /\ ~main.retry
    /\ main.retry => job = NoJob /\ Before(main.latest)
    /\ job.stage = "none" => job = NoJob /\ main.pending = NoTarget
    /\ job.stage # "none" => job.c.v # 0
    /\ job.stage # "none" /\ ~job.cancelled => job.c = main.latest /\ main.pending = NoTarget
    /\ job.cancelled => main.pending = main.latest /\ job.c.rev < main.latest.rev
    /\ job.stage \notin {"none", "applied"} => Before(job.c)
    /\ job.stage = "applied" => \A k \in DOMAIN committed : committed[k].rev <= job.c.rev

\* While the manager prepares, the startup it captured is still true of the
\* process.  A candidate past it needs no restart, and its divergence has been
\* reported.
ManagedInv ==
    sdk = "node" =>
        /\ managed.key.v # 0 => managed.key \in Range(managed.reports)
        /\ job.stage = "prepare" => (managed.startup <=> committed = <<>>)
        /\ job.stage \in {"check", "commit", "differs"} =>
             /\ ~NeedsRestart(job.c)
             /\ job.c.v \in Divergent => job.c \in Range(managed.reports)

IInv ==
    /\ TableType /\ LoaderType /\ WireType
    /\ SeenInv /\ SequenceInv /\ AppliedInv /\ OrderInv
    /\ ManagedInv /\ NeverColdSwapped /\ DivergenceReported
    /\ FailsOnlyWithoutSession

-----------------------------------------------------------------------------
(* What steps do to the tables.                                            *)

TablesStay ==
    /\ UNCHANGED <<rev, rels, current, live, pin, deliv, events, considered>>
    /\ opened' \in {opened, opened + 1}

TablesResolve == UNCHANGED <<events, considered, opened>> /\ GetInstanceRelease

TablesRegister == RegisterReleaseSession(Self) /\ run = "starting" /\ run' # "starting"

TablesRecord == \E i \in StreamIds : inbox[i] # <<>> /\ Acknowledge(Here(i), Head(inbox[i]))

\* A step leaves the tables alone, resolves the session's release, registers the
\* session, records an acknowledgement, moves the track or the pin, or prunes.
LEMMA TableSteps ==
    ASSUME [ClientNext]_clientVars
    PROVE  /\ TablesStay \/ TablesResolve \/ TablesRegister \/ TablesRecord \/ Moves \/ Prunes
           /\ run' = "starting" => run = "starting"
<1> USE DEF TablesStay, vars, storeVars, trackVars, sessionVars, streamVars, ackVars
<1>1. CASE Go /\ Loader
  <2>1. CASE Start \/ ReadInitial \/ StartFails
    BY <2>1 DEF Start, ReadInitial, StartFails, TablesRegister, TablesResolve, GetInstanceRelease,
                ResolveInstanceRelease
  <2>2. CASE TakeCandidate \/ Reconcile \/ TakeFresh \/ TakeResult \/ StartupFails
    BY <2>2 DEF TakeCandidate, Reconcile, TakeFresh, TakeResult, StartupFails, TablesResolve,
                GetInstanceRelease, ResolveInstanceRelease, InLoop
  <2>3. CASE Job
    BY <2>3 DEF Job, Resolve, Prepare, CheckActive, CheckGone, Commit, Rejects, TablesResolve,
                GetInstanceRelease, ResolveInstanceRelease
  <2>4. CASE WatchSession
    BY <2>4 DEF WatchSession, OpenStream, Terminal
  <2>5. CASE SendPendingAcks \/ Receive \/ LoseStream \/ Stop
    BY <2>5 DEF SendPendingAcks, Receive, LoseStream, Stop
  <2> QED BY <1>1, <2>1, <2>2, <2>3, <2>4, <2>5 DEF Loader
<1>2. CASE Node /\ NodeStep
  <2>1. CASE NodeStart
    BY <2>1 DEF NodeStart, Start, ReadInitial, StartFails, TablesRegister, TablesResolve, GetInstanceRelease,
                ResolveInstanceRelease
  <2>2. CASE ReconcileReads \/ ReconcileOffers \/ CandidateSettles \/ Startup
    BY <2>2, Zenon DEF ReconcileReads, Reconcile, ReconcileOffers, CandidateSettles, Startup, StartupReads,
                StartupOffers, StartupGivesUp, TablesResolve, GetInstanceRelease, ResolveInstanceRelease, InLoop
  <2>3. CASE StopRun \/ RunEnds
    BY <2>3 DEF StopRun, RunEnds
  <2>4. CASE Candidate
    BY <2>4 DEF Candidate, ResolveCandidate, PrepareSnapshot, ActiveAnswers, ActiveFails, CommitPrepared,
                CandidateFails, Reject, TablesResolve, GetInstanceRelease, ResolveInstanceRelease
  <2>5. CASE WatchRelease
    BY <2>5 DEF WatchRelease, OpenStream
  <2>6. CASE SendAck \/ ReceiveEvent \/ StreamEnds
    BY <2>6 DEF SendAck, ReceiveEvent, StreamEnds, LoseStream
  <2> QED BY <1>2, <2>1, <2>2, <2>3, <2>4, <2>5, <2>6 DEF NodeStep
<1>3. CASE Operate
  BY <1>3 DEF Operate
<1>4. CASE Server
  <2>1. CASE ServerRestart
    BY <2>1 DEF ServerRestart, Restart
  <2>2. ASSUME NEW i \in StreamIds, SendTarget(i)
        PROVE  TablesResolve /\ run' = run
    BY <2>2 DEF SendTarget, TablesResolve, GetInstanceRelease, ResolveInstanceRelease, loaderVars
  <2>3. ASSUME NEW i \in StreamIds, EndStream(i)
        PROVE  TablesStay /\ run' = run
    BY <2>3 DEF EndStream, CloseStream
  <2>4. ASSUME NEW i \in StreamIds, ServeAck(i)
        PROVE  (TablesStay \/ TablesRecord) /\ (run' = "starting" => run = "starting")
    BY <2>4 DEF ServeAck, TablesRecord, Refused, Terminal
  <2> QED BY <1>4, <2>1, <2>2, <2>3, <2>4 DEF Server
<1>5. CASE UNCHANGED clientVars
  BY <1>5 DEF clientVars, nodeLoaderVars, rolloutVars, loaderVars
<1> QED BY <1>1, <1>2, <1>3, <1>4, <1>5 DEF ClientNext

TableStep == TablesStay \/ TablesResolve \/ TablesRegister \/ TablesRecord \/ Moves \/ Prunes

\* The process's session is one of the sessions.
LEMMA SelfIsSession == Self \in Sessions
BY RolloutConstants

\* GetReleaseTarget gives a target no newer than the store's revision.
LEMMA TargetType ==
    ASSUME TableType
    PROVE  TargetOf(Self) \in AllTargets /\ TargetOf(Self).rev <= rev
BY SelfIsSession DEF TableType, TargetOf, Target, MaxOf, AllTargets

\* The elements of a sequence over S are in S.
LEMMA RangeInSet ==
    ASSUME NEW S, NEW q \in Seq(S)
    PROVE  Range(q) \subseteq S
BY DEF Range

\* What each kind of step does to the variables TableType and the target depend on.
Activates(v) == ActivateConfigurationRelease(v) /\ UNCHANGED sessionVars

\* ActivateRelease gives the track the next revision and touches no session.
LEMMA Activating ==
    ASSUME TableType, NEW v \in DOMAIN rels, Activates(v)
    PROVE  /\ rev' = rev + 1 /\ current' = [v |-> v, act |-> rev + 1] /\ v \in Nat \ {0}
           /\ UNCHANGED <<rels, live, pin, deliv, events, considered, opened>>
<1>1. /\ rev' = rev + 1 /\ current' = [v |-> v, act |-> rev + 1]
      /\ UNCHANGED <<rels, live, pin, deliv, events, considered, opened>>
  BY DEF Activates, ActivateConfigurationRelease, MoveLabels, sessionVars, streamVars, ackVars
<1>2. v \in Nat \ {0}
  BY DEF TableType
<1> QED BY <1>1, <1>2

\* SetReleasePin gives the session's pin the next revision.
LEMMA Pinning ==
    ASSUME TableType, NEW v \in {0} \cup DOMAIN rels, SetReleasePin(Self, v)
    PROVE  /\ rev' = rev + 1 /\ v \in Nat
           /\ pin' = [pin EXCEPT ![Self] = [v |-> v, rev |-> rev + 1]]
           /\ pin'[Self] = [v |-> v, rev |-> rev + 1]
           /\ deliv' = [deliv EXCEPT ![Self] = Delivered(@, TargetOf(Self)')]
           /\ UNCHANGED <<rels, current, live, events, considered, opened>>
<1>1. /\ rev' = rev + 1 /\ v \in Nat
      /\ pin' = [pin EXCEPT ![Self] = [v |-> v, rev |-> rev + 1]]
      /\ deliv' = [deliv EXCEPT ![Self] = Delivered(@, Target([v |-> v, rev |-> rev + 1], current))]
      /\ UNCHANGED <<rels, current, live, events, considered, opened>>
  BY DEF TableType, SetReleasePin, streamVars, ackVars
<1>2. pin'[Self] = [v |-> v, rev |-> rev + 1]
  BY <1>1, SelfIsSession DEF TableType
<1>3. TargetOf(Self)' = Target([v |-> v, rev |-> rev + 1], current)
  BY <1>1, <1>2 DEF TargetOf
<1> QED BY <1>1, <1>2, <1>3

\* Pruning leaves revisions and labels alone and only removes rows.
LEMMA Pruning ==
    ASSUME TableType, Prunes
    PROVE  /\ UNCHANGED <<rev, current, opened>> /\ DOMAIN rels' \subseteq DOMAIN rels
           /\ live' \subseteq live
           /\ Self \in live' => pin'[Self] = pin[Self]
           /\ pin' \in [Sessions -> [v : Nat, rev : Nat]] /\ pin'[Self].rev <= rev
           /\ deliv' \in [Sessions -> SUBSET AllTargets] /\ deliv'[Self] \subseteq deliv[Self]
           /\ events' \in [Sessions -> SUBSET AllAcks]
           /\ considered' \in [Sessions -> SUBSET AllAcks]
           /\ considered'[Self] \subseteq considered[Self] /\ events'[Self] \subseteq considered'[Self]
<1> USE SelfIsSession
<1>1. CASE PruneConfigurationReleases(rev, counter, [s \in Sessions |-> rev])
  <2>1. /\ UNCHANGED <<rev, current, opened, live, pin, events, considered>>
        /\ rels' = [v \in KeptReleases(counter, KeptActs(rev), Pins) |-> rels[v]]
        /\ deliv' = [s \in Sessions |-> KeptDeliveries(s, rev)]
    BY <1>1 DEF PruneConfigurationReleases, PruneReleases, streamVars, ackVars
  <2>2. DOMAIN rels' \subseteq DOMAIN rels
    BY <2>1 DEF KeptReleases
  <2>3. \A s \in Sessions : KeptDeliveries(s, rev) \subseteq deliv[s]
    BY DEF KeptDeliveries
  <2> QED BY <2>1, <2>2, <2>3 DEF TableType
<1>2. CASE PruneReleaseSessions({Self} \cap live)
  <2>1. /\ UNCHANGED <<rev, current, opened, rels>>
        /\ live' = live \ ({Self} \cap live)
        /\ pin' = [s \in Sessions |-> IF s \in {Self} \cap live THEN NoPin ELSE pin[s]]
        /\ deliv' = [s \in Sessions |-> IF s \in {Self} \cap live THEN {} ELSE deliv[s]]
        /\ events' = [s \in Sessions |-> IF s \in {Self} \cap live THEN {} ELSE events[s]]
        /\ considered' = [s \in Sessions |-> IF s \in {Self} \cap live THEN {} ELSE considered[s]]
    BY <1>2 DEF PruneReleaseSessions, storeVars, trackVars
  <2>2. live' \subseteq live /\ Self \notin live'
    BY <2>1
  <2>3. /\ pin' \in [Sessions -> [v : Nat, rev : Nat]] /\ pin'[Self].rev <= rev
    BY <2>1 DEF TableType, NoPin
  <2>4. /\ deliv' \in [Sessions -> SUBSET AllTargets] /\ deliv'[Self] \subseteq deliv[Self]
    BY <2>1 DEF TableType
  <2>5. /\ events' \in [Sessions -> SUBSET AllAcks]
        /\ considered' \in [Sessions -> SUBSET AllAcks]
        /\ considered'[Self] \subseteq considered[Self] /\ events'[Self] \subseteq considered'[Self]
    BY <2>1 DEF TableType
  <2> QED BY <2>1, <2>2, <2>3, <2>4, <2>5
<1> QED BY <1>1, <1>2 DEF Prunes

\* An acknowledgement from the wire is recorded for this session only.
LEMMA Recording ==
    ASSUME TableType, inbox \in [StreamIds -> Seq(AllAcks)], TablesRecord
    PROVE  /\ UNCHANGED <<rev, rels, current, live, pin, opened, deliv>>
           /\ \E i \in StreamIds : \E a \in Range(inbox[i]) :
                 /\ considered' = [considered EXCEPT ![Self] = @ \cup {a}]
                 /\ events'[Self] \subseteq events[Self] \cup {a}
           /\ events' \in [Sessions -> SUBSET AllAcks]
<1> USE SelfIsSession
<1>1. PICK i \in StreamIds : inbox[i] # <<>> /\ Acknowledge(Here(i), Head(inbox[i]))
  BY DEF TablesRecord
<1> DEFINE a == Head(inbox[i])
<1>2. a \in Range(inbox[i]) /\ a \in AllAcks
  BY <1>1 DEF Range
<1>3. Here(i).s = Self
  BY DEF Here
<1> HIDE DEF a
<1>4. Acknowledge(Here(i), a)
  BY <1>1 DEF a
<1>5. /\ UNCHANGED <<rev, rels, current, live, pin, opened, deliv>>
      /\ considered' = [considered EXCEPT ![Self] = @ \cup {a}]
  BY <1>3, <1>4 DEF Acknowledge, storeVars, trackVars, streamVars
<1>6. PICK n : events' = [events EXCEPT ![Self] = {e \in @ \cup {a} : e.seq > n}]
  BY <1>3, <1>4, Zenon DEF Acknowledge
<1>7. events'[Self] \subseteq events[Self] \cup {a} /\ events' \in [Sessions -> SUBSET AllAcks]
  BY <1>2, <1>6 DEF TableType
<1> QED BY <1>2, <1>5, <1>7, Zenon

\* Every effect on the tables keeps their type.
LEMMA TableTypeStep ==
    ASSUME TableType, inbox \in [StreamIds -> Seq(AllAcks)], TableStep
    PROVE  TableType'
<1> USE SelfIsSession
<1>1. CASE TablesStay
  BY <1>1 DEF TablesStay, TableType
<1>2. CASE TablesResolve
  <2>1. UNCHANGED <<rev, rels, current, live, pin, opened, events, considered>>
        /\ deliv' = [deliv EXCEPT ![Self] = Delivered(@, TargetOf(Self))]
    BY <1>2 DEF TablesResolve, GetInstanceRelease, ResolveInstanceRelease, storeVars, trackVars
  <2>2. Delivered(deliv[Self], TargetOf(Self)) \in SUBSET AllTargets
    BY TargetType DEF Delivered, TableType
  <2> QED BY <2>1, <2>2 DEF TableType
<1>3. CASE TablesRegister
  BY <1>3 DEF TablesRegister, RegisterReleaseSession, TableType, storeVars, trackVars, streamVars, ackVars
<1>4. CASE TablesRecord
  <2>1. PICK i \in StreamIds : \E a \in Range(inbox[i]) :
                 /\ considered' = [considered EXCEPT ![Self] = @ \cup {a}]
                 /\ events'[Self] \subseteq events[Self] \cup {a}
    BY <1>4, Recording, Zenon
  <2>2. PICK a \in AllAcks :
                 /\ considered' = [considered EXCEPT ![Self] = @ \cup {a}]
                 /\ events'[Self] \subseteq events[Self] \cup {a}
    BY <2>1, RangeInSet, Zenon
  <2>3. considered' \in [Sessions -> SUBSET AllAcks] /\ events'[Self] \subseteq considered'[Self]
    BY <2>2 DEF TableType
  <2> QED BY <1>4, <2>3, Recording DEF TableType
<1>5. CASE Moves
  <2>1. ASSUME NEW v \in DOMAIN rels, Activates(v)
        PROVE  TableType'
    BY <2>1, Activating DEF TableType
  <2>2. ASSUME NEW v \in {0} \cup DOMAIN rels, SetReleasePin(Self, v)
        PROVE  TableType'
    <3>1. /\ rev' = rev + 1 /\ v \in Nat
          /\ pin' = [pin EXCEPT ![Self] = [v |-> v, rev |-> rev + 1]]
          /\ deliv' = [deliv EXCEPT ![Self] = Delivered(@, TargetOf(Self)')]
          /\ UNCHANGED <<rels, current, live, events, considered, opened>>
      BY <2>2, Pinning, Zenon
    <3>2. pin'[Self].rev = rev + 1 /\ pin' \in [Sessions -> [v : Nat, rev : Nat]]
      BY <3>1 DEF TableType
    <3>3. TargetOf(Self)' \in AllTargets
      BY <3>1, <3>2 DEF TableType, TargetOf, Target, MaxOf, AllTargets
    <3>4. deliv' \in [Sessions -> SUBSET AllTargets]
      BY <3>1, <3>3 DEF TableType, Delivered
    <3> QED BY <3>1, <3>2, <3>4 DEF TableType
  <2> QED BY <1>5, <2>1, <2>2 DEF Moves, Activates
<1>6. CASE Prunes
  BY <1>6, Pruning DEF TableType
<1> QED BY <1>1, <1>2, <1>3, <1>4, <1>5, <1>6 DEF TableStep

\* The target of a session stays, or moves to a revision above all earlier ones; its
\* rows are rows it had or its target's; a record is of an acknowledgement on its way.
LEMMA TableEffects ==
    ASSUME TableType, inbox \in [StreamIds -> Seq(AllAcks)], TableStep
    PROVE  /\ Self \in live' => \/ Self \in live /\ TargetOf(Self)' = TargetOf(Self)
                                \/ Self \in live /\ TargetOf(Self)'.rev > TargetOf(Self).rev
                                \/ run = "starting" /\ run' # "starting"
           /\ \A d \in deliv'[Self] : d \in deliv[Self] \/ (Self \in live' /\ d = TargetOf(Self)' /\ d.v # 0)
           /\ \A a \in considered'[Self] :
                 a \in considered[Self] \/ \E i \in StreamIds : a \in Range(inbox[i])
<1> USE SelfIsSession
<1>1. CASE TablesStay
  BY <1>1 DEF TablesStay, TargetOf
<1>2. CASE TablesResolve
  <2>1. UNCHANGED <<current, live, pin, considered>> /\ Self \in live
        /\ deliv' = [deliv EXCEPT ![Self] = Delivered(@, TargetOf(Self))]
    BY <1>2 DEF TablesResolve, GetInstanceRelease, ResolveInstanceRelease, storeVars, trackVars
  <2>2. TargetOf(Self)' = TargetOf(Self)
    BY <2>1 DEF TargetOf
  <2>3. \A d \in deliv'[Self] : d \in deliv[Self] \/ (d = TargetOf(Self) /\ d.v # 0)
    BY <2>1 DEF Delivered, TableType
  <2> QED BY <2>1, <2>2, <2>3
<1>3. CASE TablesRegister
  BY <1>3 DEF TablesRegister, RegisterReleaseSession, ackVars
<1>4. CASE TablesRecord
  <2>1. UNCHANGED <<current, live, pin, deliv>>
    BY <1>4, Recording
  <2>2. PICK i \in StreamIds : \E a \in Range(inbox[i]) : considered' = [considered EXCEPT ![Self] = @ \cup {a}]
    BY <1>4, Recording, Zenon
  <2>3. \A a \in considered'[Self] : a \in considered[Self] \/ a \in Range(inbox[i])
    BY <2>2 DEF TableType
  <2> QED BY <2>1, <2>3 DEF TargetOf
<1>5. CASE Moves
  <2>1. TargetOf(Self).rev <= rev /\ TargetOf(Self).rev \in Nat /\ rev \in Nat
    BY TargetType DEF AllTargets, TableType
  <2>2. ASSUME NEW v \in DOMAIN rels, Activates(v)
        PROVE  /\ UNCHANGED <<live, deliv, considered>>
               /\ TargetOf(Self)' = TargetOf(Self) \/ TargetOf(Self)'.rev > TargetOf(Self).rev
    <3>1. /\ rev' = rev + 1 /\ current' = [v |-> v, act |-> rev + 1] /\ v # 0
          /\ UNCHANGED <<live, pin, deliv, considered>>
      BY <2>2, Activating
    <3>2. CASE pin[Self].v # 0
      BY <3>1, <3>2 DEF TargetOf, Target
    <3>3. CASE pin[Self].v = 0
      <4>1. TargetOf(Self)'.rev = MaxOf(pin[Self].rev, rev + 1)
        BY <3>1, <3>3 DEF TargetOf, Target
      <4>2. MaxOf(pin[Self].rev, rev + 1) = rev + 1
        BY DEF MaxOf, TableType
      <4> QED BY <2>1, <3>1, <4>1, <4>2
    <3> QED BY <3>1, <3>2, <3>3
  <2>3. ASSUME NEW v \in {0} \cup DOMAIN rels, SetReleasePin(Self, v)
        PROVE  /\ Self \in live /\ UNCHANGED <<live, considered>>
               /\ TargetOf(Self)'.rev > TargetOf(Self).rev
               /\ \A d \in deliv'[Self] : d \in deliv[Self] \/ (d = TargetOf(Self)' /\ d.v # 0)
    <3>1. /\ pin'[Self] = [v |-> v, rev |-> rev + 1] /\ v \in Nat
          /\ deliv' = [deliv EXCEPT ![Self] = Delivered(@, TargetOf(Self)')]
          /\ UNCHANGED <<current, live, considered>>
      BY <2>3, Pinning
    <3>2. TargetOf(Self)'.rev = rev + 1
      BY <3>1 DEF TargetOf, Target, MaxOf, TableType
    <3>3. \A d \in deliv'[Self] : d \in deliv[Self] \/ (d = TargetOf(Self)' /\ d.v # 0)
      BY <3>1 DEF Delivered, TableType
    <3>4. Self \in live
      BY <2>3 DEF SetReleasePin
    <3> QED BY <2>1, <3>1, <3>2, <3>3, <3>4
  <2> QED BY <1>5, <2>2, <2>3 DEF Moves, Activates
<1>6. CASE Prunes
  BY <1>6, Pruning DEF TargetOf
<1> QED BY <1>1, <1>2, <1>3, <1>4, <1>5, <1>6 DEF TableStep

-----------------------------------------------------------------------------
(* What steps do to the main loop, the call in flight and acknowledgements. *)

Settles == {"applied", "superseded", "failed"}
Unsettled == {"resolve", "prepare", "check", "commit", "differs"}

AcksForget ==
    \/ acks' = acks
    \/ \E d \in SUBSET AckStates : acks' = [acks EXCEPT !.dirty = d]
    \/ \E st \in AckStates : acks' = [acks EXCEPT !.pending[st] = NoAck, !.dirty = @ \ {st}]

Acknowledged(st) == acks' = Acked(job.c, st) \/ acks' = NodeAcked(job.c, st)

\* A target that was heard of before, or the session's.
Known(c) == c \in Heard \/ (Self \in live /\ c = TargetOf(Self))

LoaderIdles ==
    /\ UNCHANGED <<job, committed>> /\ AcksForget
    /\ \/ main' = main
       \/ main' = [main EXCEPT !.read = "none", !.fresh = NoTarget]
       \/ Self \in live /\ main' = [main EXCEPT !.read = "tick", !.fresh = TargetOf(Self)]

LoaderQueues == UNCHANGED <<committed, acks>> /\ \E c \in AllTargets : Known(c) /\ Queue(c)

LoaderSettles ==
    /\ UNCHANGED <<committed, acks>> /\ job.stage \in Settles
    /\ \/ /\ main.pending # NoTarget \/ job.cancelled
          /\ job' = [c |-> main.pending, stage |-> "resolve", cancelled |-> FALSE]
          /\ main' = [main EXCEPT !.pending = NoTarget]
       \/ /\ main.pending = NoTarget \/ ~job.cancelled
          /\ job' = NoJob
          /\ \/ main' = [main EXCEPT !.retry = @ \/ job.stage = "failed"]
             \/ main' = main
             \/ Self \in live /\ main' = [main EXCEPT !.read = "startup", !.fresh = TargetOf(Self)]

LoaderMoves ==
    /\ UNCHANGED <<main, committed>> /\ job.stage \in Unsettled
    /\ \E s \in {"prepare", "check", "commit", "differs", "superseded", "failed"} :
          job' = [job EXCEPT !.stage = s]
    /\ acks' = acks \/ \E st \in AckStates \ {"applied"} : Acknowledged(st)

LoaderCommits ==
    /\ UNCHANGED main /\ job.stage = "commit"
    /\ committed' = Append(committed, job.c)
    /\ job' = [job EXCEPT !.stage = "applied"]
    /\ Acknowledged("applied")

LoaderStep == LoaderIdles \/ LoaderQueues \/ LoaderSettles \/ LoaderMoves \/ LoaderCommits

\* The four acknowledgement states, of which one is applied.
LEMMA StateNames ==
    /\ "received" \in AckStates \ {"applied"} /\ "prepared" \in AckStates \ {"applied"}
    /\ "rejected" \in AckStates \ {"applied"} /\ "applied" \in AckStates
BY RolloutConstants

\* An event on a stream is a target exactly when it has no state.
LEMMA HeadIsHeard ==
    ASSUME WireType, stream # 0, outbox[stream] # <<>>, "state" \notin DOMAIN Head(outbox[stream])
    PROVE  Head(outbox[stream]) \in AllTargets /\ Head(outbox[stream]) \in Heard
<1>1. stream \in StreamIds /\ outbox[stream] \in Seq(AllAcks \cup AllTargets)
  BY DEF WireType
<1>2. Head(outbox[stream]) \in AllAcks \cup AllTargets /\ Head(outbox[stream]) \in Range(outbox[stream])
  BY <1>1 DEF Range
<1>3. \A a \in AllAcks : "state" \in DOMAIN a
  BY DEF AllAcks
<1>4. Head(outbox[stream]) \in AllTargets
  BY <1>2, <1>3
<1>5. Head(outbox[stream]) \in UNION {Range(outbox[i]) \cap AllTargets : i \in StreamIds}
  BY <1>1, <1>2, <1>4
<1> QED BY <1>4, <1>5 DEF Heard

\* What the loader reads from its stream, if an acknowledgement, has a state.
LEMMA HeadHasState ==
    ASSUME WireType, stream # 0, outbox[stream] # <<>>, "state" \in DOMAIN Head(outbox[stream])
    PROVE  Head(outbox[stream]).state \in AckStates
<1>1. stream \in StreamIds /\ outbox[stream] \in Seq(AllAcks \cup AllTargets)
  BY DEF WireType
<1>2. Head(outbox[stream]) \in AllAcks \cup AllTargets
  BY <1>1
<1>3. \A a \in AllTargets : "state" \notin DOMAIN a
  BY DEF AllTargets
<1>4. \A a \in AllAcks : a.state \in AckStates
  BY DEF AllAcks
<1>5. Head(outbox[stream]) \in AllAcks
  BY <1>2, <1>3
<1> QED BY <1>4, <1>5

\* Offering a target the session has had queues it or drops it.
LEMMA OfferStep ==
    ASSUME NEW c \in AllTargets, Known(c), Offer(c), UNCHANGED <<committed, acks>>
    PROVE  LoaderQueues \/ LoaderIdles
BY DEF Offer, LoaderQueues, LoaderIdles, AcksForget

\* Every step of the Go loader idles, queues, settles, moves or commits.
LEMMA GoLoaderStep ==
    ASSUME TableType, LoaderType, WireType, Loader
    PROVE  LoaderStep
<1>1. CASE Start \/ StartFails \/ StartupFails \/ LoseStream \/ Stop
  BY <1>1, Zenon DEF Start, StartFails, StartupFails, LoseStream, Stop, LoaderStep, LoaderIdles, AcksForget
<1>2. CASE ReadInitial
  <2>1. Self \in live /\ Queue(TargetOf(Self)) /\ UNCHANGED <<committed, acks>>
    BY <1>2 DEF ReadInitial, GetInstanceRelease
  <2> QED BY <2>1, TargetType DEF Known, LoaderStep, LoaderQueues
<1>3. CASE TakeCandidate
  <2>1. Queue(candidate) /\ UNCHANGED <<committed, acks>>
    BY <1>3 DEF TakeCandidate
  <2>2. candidate \in AllTargets /\ candidate \in Heard
    BY DEF WireType, Heard
  <2> QED BY <2>1, <2>2 DEF Known, LoaderStep, LoaderQueues
<1>4. CASE Reconcile
  BY <1>4 DEF Reconcile, GetInstanceRelease, LoaderStep, LoaderIdles, AcksForget
<1>5. CASE TakeFresh
  <2>1. Queue(main.fresh) /\ UNCHANGED <<committed, acks>>
    BY <1>5 DEF TakeFresh
  <2>2. main.fresh \in AllTargets /\ main.fresh \in Heard
    BY DEF LoaderType, Heard
  <2> QED BY <2>1, <2>2 DEF Known, LoaderStep, LoaderQueues
<1>6. CASE TakeResult
  BY <1>6 DEF TakeResult, GetInstanceRelease, LoaderStep, LoaderSettles, Settles
<1>7. CASE Resolve \/ Prepare
  BY <1>7, StateNames DEF Resolve, Prepare, Rejects, LoaderStep, LoaderMoves, Unsettled, Acknowledged
<1>8. CASE CheckActive \/ CheckGone
  BY <1>8, StateNames DEF CheckActive, CheckGone, Rejects, LoaderStep, LoaderMoves, Unsettled, Acknowledged
<1>9. CASE Commit
  BY <1>9 DEF Commit, LoaderStep, LoaderCommits, Acknowledged
<1>10. CASE WatchSession \/ SendPendingAcks
  <2>1. UNCHANGED <<main, job, committed>> /\ (acks' = acks \/ acks' = [acks EXCEPT !.dirty = {}])
    BY <1>10 DEF WatchSession, SendPendingAcks
  <2> QED BY <2>1, Zenon DEF LoaderStep, LoaderIdles, AcksForget
<1>11. CASE Receive
  <2>1. /\ UNCHANGED <<main, job, committed>> /\ stream # 0 /\ outbox[stream] # <<>>
        /\ \/ acks' = acks
           \/ /\ "state" \in DOMAIN Head(outbox[stream])
              /\ acks' = [acks EXCEPT !.pending[Head(outbox[stream]).state] = NoAck,
                                      !.dirty = @ \ {Head(outbox[stream]).state}]
    BY <1>11 DEF Receive
  <2> QED BY <2>1, HeadHasState, Zenon DEF LoaderStep, LoaderIdles, AcksForget
<1> QED BY <1>1, <1>2, <1>3, <1>4, <1>5, <1>6, <1>7, <1>8, <1>9, <1>10, <1>11 DEF Loader, Job

\* Every step of the Node loader idles, queues, settles, moves or commits.
LEMMA NodeLoaderStep ==
    ASSUME TableType, LoaderType, WireType, NodeStep
    PROVE  LoaderStep
<1>1. CASE NodeStart
  BY <1>1, GoLoaderStep DEF NodeStart, Loader
<1>2. CASE ReconcileReads
  BY <1>2, GoLoaderStep DEF ReconcileReads, Loader
<1>3. CASE ReconcileOffers
  <2>1. Offer(main.fresh) /\ UNCHANGED <<committed, acks>>
    BY <1>3 DEF ReconcileOffers
  <2>2. main.fresh \in AllTargets /\ Known(main.fresh)
    BY DEF LoaderType, Heard, Known
  <2> QED BY <2>1, <2>2, OfferStep DEF LoaderStep
<1>4. CASE CandidateSettles
  BY <1>4 DEF CandidateSettles, Settled, LoaderStep, LoaderSettles, Settles
<1>5. CASE Startup
  <2>1. PICK g \in failing : StartupReads(g) \/ StartupOffers(g) \/ StartupGivesUp(g)
    BY <1>5 DEF Startup
  <2>2. CASE StartupReads(g) \/ StartupGivesUp(g)
    BY <2>2, Zenon DEF StartupReads, StartupGivesUp, LoaderStep, LoaderIdles, AcksForget
  <2>3. CASE StartupOffers(g)
    <3>1. Offer(g.fresh) /\ UNCHANGED <<committed, acks>>
      BY <2>3 DEF StartupOffers
    <3>2. g.fresh \in AllTargets /\ Known(g.fresh)
      BY DEF WireType, Heard, Known
    <3> QED BY <3>1, <3>2, OfferStep DEF LoaderStep
  <2> QED BY <2>1, <2>2, <2>3
<1>6. CASE StopRun \/ RunEnds \/ WatchRelease
  BY <1>6, Zenon DEF StopRun, RunEnds, WatchRelease, LoaderStep, LoaderIdles, AcksForget
<1>7. CASE ResolveCandidate
  BY <1>7, StateNames
  DEF ResolveCandidate, CandidateFails, Reject, LoaderStep, LoaderMoves, Unsettled, Acknowledged
<1>8. CASE PrepareSnapshot
  BY <1>8, StateNames
  DEF PrepareSnapshot, CandidateFails, Reject, LoaderStep, LoaderMoves, Unsettled, Acknowledged
<1>9. CASE ActiveAnswers \/ ActiveFails
  BY <1>9, StateNames
  DEF ActiveAnswers, ActiveFails, CandidateFails, Reject, LoaderStep, LoaderMoves, Unsettled, Acknowledged
<1>10. CASE CommitPrepared
  BY <1>10, StateNames
  DEF CommitPrepared, LoaderStep, LoaderMoves, LoaderCommits, Unsettled, Acknowledged
<1>11. CASE SendAck
  <2>1. PICK q \in FlushQueue :
          /\ UNCHANGED <<main, job, committed>>
          /\ acks' = [acks EXCEPT !.dirty = IF acks.pending[Head(q).state] = Head(q)
                                            THEN @ \ {Head(q).state} ELSE @]
    BY <1>11, Zenon DEF SendAck
  <2>2. \E d \in SUBSET AckStates : acks' = [acks EXCEPT !.dirty = d]
    BY <2>1, Zenon DEF LoaderType
  <2> QED BY <2>1, <2>2, Zenon DEF LoaderStep, LoaderIdles, AcksForget
<1>12. CASE ReceiveEvent
  <2>1. stream # 0 /\ outbox[stream] # <<>> /\ UNCHANGED committed
    BY <1>12 DEF ReceiveEvent
  <2>2. CASE "state" \in DOMAIN Head(outbox[stream])
    <3>1. /\ UNCHANGED <<main, job>>
          /\ \/ acks' = acks
             \/ acks' = [acks EXCEPT !.pending[Head(outbox[stream]).state] = NoAck,
                                      !.dirty = @ \ {Head(outbox[stream]).state}]
      BY <1>12, <2>2 DEF ReceiveEvent
    <3> QED BY <2>1, <2>2, <3>1, HeadHasState, Zenon DEF LoaderStep, LoaderIdles, AcksForget
  <2>3. CASE "state" \notin DOMAIN Head(outbox[stream])
    <3>1. Offer(Head(outbox[stream])) /\ UNCHANGED acks
      BY <1>12, <2>3 DEF ReceiveEvent
    <3> QED BY <2>1, <2>3, <3>1, HeadIsHeard, OfferStep DEF LoaderStep, Known
  <2> QED BY <2>2, <2>3
<1>13. CASE StreamEnds
  BY <1>13, GoLoaderStep DEF StreamEnds, Loader
<1> QED
  BY <1>1, <1>2, <1>3, <1>4, <1>5, <1>6, <1>7, <1>8, <1>9, <1>10, <1>11, <1>12, <1>13
  DEF NodeStep, Candidate

\* Every step of the system does one of these to the loader's main loop.
LEMMA LoaderSteps ==
    ASSUME TableType, LoaderType, WireType, [ClientNext]_clientVars
    PROVE  LoaderStep
<1>1. CASE Operate \/ Server
  BY <1>1, Zenon DEF Operate, Server, SendTarget, ServeAck, EndStream, ServerRestart, loaderVars,
              LoaderStep, LoaderIdles, AcksForget
<1>2. CASE UNCHANGED clientVars
  BY <1>2 DEF clientVars, nodeLoaderVars, rolloutVars, loaderVars, LoaderStep, LoaderIdles, AcksForget
<1> QED BY <1>1, <1>2, GoLoaderStep, NodeLoaderStep DEF ClientNext

-----------------------------------------------------------------------------
(* Types of the loader, and the order of commits.                          *)

NewAck(st) == [seq |-> acks.next, rev |-> job.c.rev, v |-> job.c.v, act |-> job.c.act, state |-> st]

\* Acknowledging takes a fresh sequence number or keeps the retained acknowledgement.
LEMMA Acknowledging ==
    ASSUME LoaderType, NEW st \in AckStates, Acknowledged(st)
    PROVE  /\ acks' \in [next : Nat, pending : [AckStates -> AllAcks \cup {NoAck}], dirty : SUBSET AckStates]
           /\ \/ acks'.pending = acks.pending /\ acks'.next >= acks.next
              \/ acks'.pending = [acks.pending EXCEPT ![st] = NewAck(st)] /\ acks'.next = acks.next + 1
<1>1. NewAck(st) \in AllAcks
  BY DEF NewAck, AllAcks, LoaderType, AllTargets
<1>2. \/ acks' = acks \/ acks' = [acks EXCEPT !.next = @ + 1]
      \/ acks' = [acks EXCEPT !.next = @ + 1, !.pending[st] = NewAck(st), !.dirty = @ \cup {st}]
  BY DEF Acknowledged, Acked, NodeAcked, NewAck
<1>3. acks.next \in Nat
  BY DEF LoaderType
<1> HIDE DEF NewAck
<1>4. CASE acks' = acks
  BY <1>3, <1>4 DEF LoaderType
<1>5. CASE acks' = [acks EXCEPT !.next = @ + 1]
  BY <1>3, <1>5 DEF LoaderType
<1>6. CASE acks' = [acks EXCEPT !.next = @ + 1, !.pending[st] = NewAck(st), !.dirty = @ \cup {st}]
  <2>1. /\ acks'.next = acks.next + 1 /\ acks'.dirty = acks.dirty \cup {st}
        /\ acks'.pending = [acks.pending EXCEPT ![st] = NewAck(st)]
    BY <1>6 DEF LoaderType
  <2>2. [acks.pending EXCEPT ![st] = NewAck(st)] \in [AckStates -> AllAcks \cup {NoAck}]
    BY <1>1 DEF LoaderType
  <2>3. acks' \in [next : Nat, pending : [AckStates -> AllAcks \cup {NoAck}], dirty : SUBSET AckStates]
    <3>1. PICK p \in [AckStates -> AllAcks \cup {NoAck}], d \in SUBSET AckStates :
            acks' = [acks EXCEPT !.next = acks.next + 1, !.pending = p, !.dirty = d]
      <4>1. acks' = [acks EXCEPT !.next = acks.next + 1,
                                 !.pending = [acks.pending EXCEPT ![st] = NewAck(st)],
                                 !.dirty = acks.dirty \cup {st}]
        BY <1>6
      <4>2. acks.dirty \cup {st} \in SUBSET AckStates
        BY DEF LoaderType
      <4> QED BY <2>2, <4>1, <4>2, Zenon
    <3>2. acks \in [next : Nat, pending : [AckStates -> AllAcks \cup {NoAck}], dirty : SUBSET AckStates]
      BY DEF LoaderType
    <3>3. acks' = [next |-> acks.next + 1, pending |-> p, dirty |-> d]
      BY <3>1, <3>2, Zenon
    <3> QED BY <1>3, <3>3
  <2> QED BY <2>1, <2>3
<1> QED BY <1>2, <1>4, <1>5, <1>6

\* A server's answer only forgets retained acknowledgements.
LEMMA Forgetting ==
    ASSUME LoaderType, AcksForget
    PROVE  /\ acks' \in [next : Nat, pending : [AckStates -> AllAcks \cup {NoAck}], dirty : SUBSET AckStates]
           /\ acks'.next = acks.next
           /\ \A st \in AckStates : acks'.pending[st] \in {acks.pending[st], NoAck}
<1>1. CASE acks' = acks \/ \E d \in SUBSET AckStates : acks' = [acks EXCEPT !.dirty = d]
  BY <1>1 DEF LoaderType
<1>2. ASSUME NEW st \in AckStates, acks' = [acks EXCEPT !.pending[st] = NoAck, !.dirty = @ \ {st}]
      PROVE  /\ acks' \in [next : Nat, pending : [AckStates -> AllAcks \cup {NoAck}], dirty : SUBSET AckStates]
             /\ acks'.next = acks.next
             /\ acks'.pending = [acks.pending EXCEPT ![st] = NoAck]
  <2>1. [acks.pending EXCEPT ![st] = NoAck] \in [AckStates -> AllAcks \cup {NoAck}]
    BY DEF LoaderType
  <2> QED BY <1>2, <2>1, Zenon DEF LoaderType
<1>3. acks.pending \in [AckStates -> AllAcks \cup {NoAck}]
  BY DEF LoaderType
<1> QED BY <1>1, <1>2, <1>3, Zenon DEF AcksForget

\* What may become of each retained acknowledgement, and of the next sequence number.
LEMMA AcksStep ==
    ASSUME LoaderType, LoaderStep
    PROVE  /\ acks' \in [next : Nat, pending : [AckStates -> AllAcks \cup {NoAck}], dirty : SUBSET AckStates]
           /\ acks'.next >= acks.next
           /\ \/ \A st \in AckStates : acks'.pending[st] \in {acks.pending[st], NoAck}
              \/ /\ acks'.next = acks.next + 1 /\ job.stage \in Unsettled
                 /\ \E s \in AckStates :
                      /\ s = "applied" => committed' = Append(committed, job.c)
                      /\ \A st \in AckStates :
                           acks'.pending[st] = IF st = s THEN NewAck(s) ELSE acks.pending[st]
<1>0. acks.next \in Nat /\ acks.pending \in [AckStates -> AllAcks \cup {NoAck}]
  BY DEF LoaderType
<1>1. CASE AcksForget
  BY <1>0, <1>1, Forgetting
<1>2. ASSUME NEW s \in AckStates, Acknowledged(s), job.stage \in Unsettled,
             s = "applied" => committed' = Append(committed, job.c)
      PROVE  /\ acks' \in [next : Nat, pending : [AckStates -> AllAcks \cup {NoAck}], dirty : SUBSET AckStates]
             /\ acks'.next >= acks.next
             /\ \/ \A st \in AckStates : acks'.pending[st] \in {acks.pending[st], NoAck}
                \/ /\ acks'.next = acks.next + 1
                   /\ \A st \in AckStates :
                           acks'.pending[st] = IF st = s THEN NewAck(s) ELSE acks.pending[st]
  <2>1. CASE acks'.pending = acks.pending /\ acks'.next >= acks.next
    BY <1>2, <2>1, Acknowledging, Zenon
  <2>2. CASE acks'.pending = [acks.pending EXCEPT ![s] = NewAck(s)] /\ acks'.next = acks.next + 1
    BY <1>0, <1>2, <2>2, Acknowledging
  <2> QED BY <1>2, <2>1, <2>2, Acknowledging
<1>3. CASE LoaderIdles
  BY <1>1, <1>3 DEF LoaderIdles
<1>4. CASE acks' = acks
  BY <1>1, <1>4 DEF AcksForget
<1>5. CASE LoaderMoves /\ acks' # acks
  BY <1>2, <1>5 DEF LoaderMoves
<1>6. CASE LoaderCommits
  BY <1>2, <1>6, StateNames DEF LoaderCommits, Unsettled
<1> QED BY <1>3, <1>4, <1>5, <1>6 DEF LoaderStep, LoaderQueues, LoaderSettles

\* The absent target is version 0.
LEMMA NoTargetType == NoTarget \in AllTargets /\ NoTarget.v = 0 /\ NoTarget.rev = 0
BY DEF NoTarget, AllTargets

Main == [latest : AllTargets, retry : BOOLEAN, pending : AllTargets,
         read : {"none", "tick", "startup"}, fresh : AllTargets]
JobType == [c : AllTargets, stage : Stages, cancelled : BOOLEAN]

\* The fields of main and job after each kind of step.
LEMMA Idling ==
    ASSUME TableType, LoaderType, LoaderIdles
    PROVE  /\ main' \in Main /\ job' = job /\ committed' = committed
           /\ main'.latest = main.latest /\ main'.retry = main.retry /\ main'.pending = main.pending
           /\ main'.fresh \in {main.fresh, NoTarget} \/ (Self \in live /\ main'.fresh = TargetOf(Self))
<1>1. main \in Main /\ TargetOf(Self) \in AllTargets
  BY TargetType DEF LoaderType, Main
<1> QED BY <1>1, NoTargetType, Zenon DEF LoaderIdles, Main

\* A stale or repeated candidate leaves the call in flight and the latest target alone.
LEMMA QueuesNot ==
    ASSUME LoaderType, NEW c \in AllTargets, Queue(c), ~ShouldQueue(c)
    PROVE  /\ main' \in Main /\ job' = job
           /\ main'.latest = main.latest /\ main'.retry = main.retry /\ main'.pending = main.pending
           /\ main'.fresh = NoTarget
<1>1. main \in Main
  BY DEF LoaderType, Main
<1>2. main' = [main EXCEPT !.read = "none", !.fresh = NoTarget] /\ job' = job
  BY DEF Queue
<1> QED BY <1>1, <1>2, NoTargetType, Zenon DEF Main

\* A candidate accepted while nothing runs starts at once.
LEMMA QueuesFirst ==
    ASSUME LoaderType, NEW c \in AllTargets, Queue(c), ShouldQueue(c), job = NoJob
    PROVE  /\ main' \in Main /\ main'.latest = c /\ main'.retry = FALSE /\ main'.pending = main.pending
           /\ main'.fresh = NoTarget
           /\ job' \in JobType /\ job'.c = c /\ job'.stage = "resolve" /\ job'.cancelled = FALSE
<1>1. main \in Main
  BY DEF LoaderType, Main
<1> DEFINE m == [main EXCEPT !.read = "none", !.fresh = NoTarget]
<1>2. /\ main' = [m EXCEPT !.latest = c, !.retry = FALSE, !.pending = IF job = NoJob THEN @ ELSE c]
      /\ job' = [c |-> c, stage |-> "resolve", cancelled |-> FALSE]
  BY DEF Queue
<1>3. m \in Main /\ m.pending = main.pending /\ m.fresh = NoTarget
  BY <1>1, NoTargetType, Zenon DEF Main
<1> HIDE DEF m
<1>4. main' = [m EXCEPT !.latest = c, !.retry = FALSE, !.pending = @]
  BY <1>2
<1>5. /\ main' \in Main /\ main'.latest = c /\ main'.retry = FALSE /\ main'.pending = m.pending
      /\ main'.fresh = m.fresh
  BY <1>3, <1>4, Zenon DEF Main
<1> QED BY <1>2, <1>3, <1>5 DEF JobType, Stages

\* A candidate accepted while a call runs cancels it and waits.
LEMMA QueuesNext ==
    ASSUME LoaderType, NEW c \in AllTargets, Queue(c), ShouldQueue(c), job # NoJob
    PROVE  /\ main' \in Main /\ main'.latest = c /\ main'.retry = FALSE /\ main'.pending = c
           /\ main'.fresh = NoTarget
           /\ job' \in JobType /\ job'.c = job.c /\ job'.stage = job.stage /\ job'.cancelled = TRUE
<1>1. main \in Main /\ job \in JobType
  BY DEF LoaderType, Main, JobType
<1> DEFINE m == [main EXCEPT !.read = "none", !.fresh = NoTarget]
<1>2. /\ main' = [m EXCEPT !.latest = c, !.retry = FALSE, !.pending = IF job = NoJob THEN @ ELSE c]
      /\ job' = [job EXCEPT !.cancelled = TRUE]
  BY DEF Queue
<1>3. m \in Main /\ m.fresh = NoTarget
  BY <1>1, NoTargetType, Zenon DEF Main
<1> HIDE DEF m
<1>4. main' = [m EXCEPT !.latest = c, !.retry = FALSE, !.pending = c]
  BY <1>2
<1>5. /\ main' \in Main /\ main'.latest = c /\ main'.retry = FALSE /\ main'.pending = c
      /\ main'.fresh = m.fresh
  BY <1>3, <1>4, Zenon DEF Main
<1> QED BY <1>1, <1>2, <1>3, <1>5, Zenon DEF JobType

\* When a call ends the waiting candidate starts; a failed one is to be retried.
LEMMA Settling ==
    ASSUME TableType, LoaderType, LoaderSettles
    PROVE  /\ main' \in Main /\ job' \in JobType /\ main'.latest = main.latest
           /\ main'.fresh = main.fresh \/ (Self \in live /\ main'.fresh = TargetOf(Self))
           /\ \/ /\ main.pending # NoTarget \/ job.cancelled
                 /\ job'.c = main.pending /\ job'.stage = "resolve" /\ job'.cancelled = FALSE
                 /\ main'.pending = NoTarget /\ main'.retry = main.retry
              \/ /\ main.pending = NoTarget \/ ~job.cancelled
                 /\ job' = NoJob /\ main'.pending = main.pending
                 /\ main'.retry => main.retry \/ job.stage = "failed"
<1>1. main \in Main /\ job \in JobType /\ TargetOf(Self) \in AllTargets
  BY TargetType DEF LoaderType, Main, JobType
<1>2. NoJob \in JobType
  BY NoTargetType DEF JobType, NoJob, Stages
<1>3. CASE /\ main.pending # NoTarget \/ job.cancelled
           /\ job' = [c |-> main.pending, stage |-> "resolve", cancelled |-> FALSE]
           /\ main' = [main EXCEPT !.pending = NoTarget]
  BY <1>1, <1>3, NoTargetType DEF Main, JobType, Stages
<1>4. CASE main' = [main EXCEPT !.retry = @ \/ job.stage = "failed"]
  <2>1. (main.retry \/ job.stage = "failed") \in BOOLEAN
    BY <1>1 DEF Main
  <2>2. /\ main' \in Main /\ main'.latest = main.latest /\ main'.fresh = main.fresh
        /\ main'.pending = main.pending /\ main'.retry = (main.retry \/ job.stage = "failed")
    BY <1>1, <1>4, <2>1, Zenon DEF Main
  <2> QED BY <1>2, <1>3, <2>2, Zenon DEF LoaderSettles
<1>5. CASE main' = main \/ (Self \in live /\ main' = [main EXCEPT !.read = "startup", !.fresh = TargetOf(Self)])
  <2>1. /\ main' \in Main /\ main'.latest = main.latest
        /\ main'.fresh = main.fresh \/ (Self \in live /\ main'.fresh = TargetOf(Self))
        /\ main'.pending = main.pending /\ main'.retry = main.retry
    BY <1>1, <1>5, Zenon DEF Main
  <2> QED BY <1>2, <1>3, <2>1, Zenon DEF LoaderSettles
<1> QED BY <1>3, <1>4, <1>5, Zenon DEF LoaderSettles

\* A call in flight goes from stage to stage and appends to the commits only at commit.
LEMMA Moving ==
    ASSUME LoaderType, LoaderMoves \/ LoaderCommits
    PROVE  /\ main' = main /\ job' \in JobType /\ job'.c = job.c /\ job'.cancelled = job.cancelled
           /\ job.stage \in Unsettled /\ job'.stage # "none"
           /\ LoaderMoves => job'.stage # "applied" /\ committed' = committed
           /\ LoaderCommits => job'.stage = "applied" /\ committed' = Append(committed, job.c)
<1>1. job \in JobType
  BY DEF LoaderType, JobType
<1> QED BY <1>1 DEF LoaderMoves, LoaderCommits, JobType, Unsettled, Stages

\* A target the session has had is the latest one if it has its revision.
LEMMA KnownAgrees ==
    ASSUME SeenInv, NEW c \in AllTargets, Known(c), c.v # 0, main.latest.v # 0, c.rev = main.latest.rev
    PROVE  c = main.latest
<1>1. main.latest \in Seen
  BY DEF Seen, Heard
<1>2. CASE c \in Heard
  BY <1>1, <1>2 DEF Seen, SeenInv, Agree
<1>3. CASE Self \in live /\ c = TargetOf(Self)
  BY <1>1, <1>3 DEF SeenInv, Fits
<1> QED BY <1>2, <1>3 DEF Known

\* The revisions of commits, of the latest target and of the call are numbers.
LEMMA CommittedRevs ==
    ASSUME LoaderType
    PROVE  /\ \A k \in DOMAIN committed : committed[k].rev \in Nat
           /\ main.latest.rev \in Nat /\ job.c.rev \in Nat
<1>1. \A k \in DOMAIN committed : committed[k] \in AllTargets
  BY DEF LoaderType
<1> QED BY <1>1 DEF LoaderType, AllTargets

\* Every step keeps commits older than what is still to be committed: a retry is of a
\* target that was not committed, and a queued target is newer than the latest.
LEMMA OrderStep ==
    ASSUME TableType, LoaderType, SeenInv, OrderInv, LoaderStep
    PROVE  OrderInv'
<1>0. /\ \A k \in DOMAIN committed : committed[k].rev \in Nat
      /\ main.latest.rev \in Nat /\ job.c.rev \in Nat
      /\ NoJob.stage = "none" /\ NoJob.cancelled = FALSE
      /\ \A c \in AllTargets : c.rev \in Nat
  BY CommittedRevs DEF NoJob, AllTargets
<1>1. CASE LoaderIdles
  <2>1. /\ job' = job /\ committed' = committed /\ main'.latest = main.latest
        /\ main'.retry = main.retry /\ main'.pending = main.pending
    BY <1>1, Idling
  <2> QED BY <2>1 DEF OrderInv, Before
<1>2. CASE LoaderQueues
  <2>1. PICK c \in AllTargets : Known(c) /\ Queue(c) /\ committed' = committed
    BY <1>2 DEF LoaderQueues
  <2>2. CASE ~ShouldQueue(c)
    <3>1. /\ job' = job /\ main'.latest = main.latest
          /\ main'.retry = main.retry /\ main'.pending = main.pending
      BY <2>1, <2>2, QueuesNot
    <3> QED BY <2>1, <3>1 DEF OrderInv, Before
  <2>3. CASE ShouldQueue(c)
    <3>1. c.v # 0 /\ c.rev >= main.latest.rev /\ c.rev \in Nat /\ (c = main.latest => main.retry)
      BY <1>0, <2>3 DEF ShouldQueue
    <3>2. c.rev = main.latest.rev /\ main.latest.v # 0 => c = main.latest
      BY <2>1, <3>1, KnownAgrees
    <3>3. \A k \in DOMAIN committed : committed[k].rev <= c.rev
      BY <1>0, <3>1 DEF OrderInv
    <3>4. CASE job = NoJob
      <4>1. /\ main'.latest = c /\ main'.retry = FALSE /\ main'.pending = main.pending
            /\ job'.c = c /\ job'.stage = "resolve" /\ job'.cancelled = FALSE
        BY <2>1, <2>3, <3>4, QueuesFirst, Zenon
      <4>2. main.pending = NoTarget
        BY <1>0, <3>4 DEF OrderInv
      <4>3. CASE c = main.latest
        <5>1. Before(c)
          BY <3>1, <4>3 DEF OrderInv
        <5> QED BY <2>1, <3>1, <3>3, <4>1, <4>2, <5>1 DEF OrderInv, Before
      <4>4. CASE c # main.latest
        <5>1. Before(c)
          BY <1>0, <3>1, <3>2, <4>4 DEF OrderInv, Before
        <5> QED BY <2>1, <3>1, <3>3, <4>1, <4>2, <5>1 DEF OrderInv, Before
      <4> QED BY <4>3, <4>4
    <3>5. CASE job # NoJob
      <4>1. /\ main'.latest = c /\ main'.retry = FALSE /\ main'.pending = c
            /\ job'.c = job.c /\ job'.stage = job.stage /\ job'.cancelled = TRUE
        BY <2>1, <2>3, <3>5, QueuesNext, Zenon
      <4>2. job.stage # "none" /\ main.latest.v # 0 /\ ~main.retry
        BY <3>5 DEF OrderInv
      <4>3. c.rev > main.latest.rev
        BY <1>0, <3>1, <3>2, <4>2
      <4>4. job.c.rev <= main.latest.rev
        BY <1>0, <4>2 DEF OrderInv
      <4>5. job.c.rev < c.rev
        BY <1>0, <3>1, <4>3, <4>4
      <4> QED BY <2>1, <3>1, <3>3, <4>1, <4>2, <4>5 DEF OrderInv, Before
    <3> QED BY <3>4, <3>5
  <2> QED BY <2>2, <2>3
<1>3. CASE LoaderSettles
  <2>0. job.stage \in Settles /\ job.stage # "none" /\ committed' = committed
        /\ main'.latest = main.latest
    BY <1>3, Settling, Zenon DEF LoaderSettles, Settles
  <2>1. job # NoJob /\ ~main.retry /\ main.latest.v # 0
    BY <1>0, <2>0 DEF OrderInv
  <2>2. CASE /\ main.pending # NoTarget \/ job.cancelled
             /\ job'.c = main.pending /\ job'.stage = "resolve" /\ job'.cancelled = FALSE
             /\ main'.pending = NoTarget /\ main'.retry = main.retry
    <3>1. job.cancelled
      BY <2>0, <2>2 DEF OrderInv
    <3>2. main.pending = main.latest /\ job.c.rev < main.latest.rev
      BY <3>1 DEF OrderInv
    <3>3. Before(main.latest)
      <4>1. CASE job.stage = "applied"
        BY <1>0, <2>0, <3>1, <3>2, <4>1 DEF OrderInv, Before
      <4>2. CASE job.stage # "applied"
        BY <1>0, <2>0, <3>2, <4>2 DEF OrderInv, Before
      <4> QED BY <4>1, <4>2
    <3> QED BY <2>0, <2>1, <2>2, <3>2, <3>3 DEF OrderInv, Before
  <2>3. CASE /\ main.pending = NoTarget \/ ~job.cancelled
             /\ job' = NoJob /\ main'.pending = main.pending
             /\ main'.retry => main.retry \/ job.stage = "failed"
    <3>1. ~job.cancelled
      BY <2>1, <2>3, NoTargetType DEF OrderInv
    <3>2. job.c = main.latest /\ main.pending = NoTarget
      BY <2>0, <3>1 DEF OrderInv
    <3>3. job.stage = "failed" => Before(main.latest)
      BY <3>2 DEF OrderInv
    <3> QED BY <1>0, <2>0, <2>1, <2>3, <3>2, <3>3 DEF OrderInv, Before
  <2> QED BY <1>3, <2>2, <2>3, Settling, Zenon
<1>4. CASE LoaderMoves
  <2>1. /\ main' = main /\ job'.c = job.c /\ job'.cancelled = job.cancelled /\ committed' = committed
        /\ job.stage \in Unsettled /\ job'.stage # "none" /\ job'.stage # "applied"
    BY <1>4, Moving
  <2>2. job.stage # "none" /\ job # NoJob /\ Before(job.c)
    BY <1>0, <2>1 DEF Unsettled, OrderInv
  <2> QED BY <2>1, <2>2 DEF OrderInv, Before
<1>5. CASE LoaderCommits
  <2>1. /\ main' = main /\ job'.c = job.c /\ job'.cancelled = job.cancelled
        /\ job.stage \in Unsettled /\ job'.stage = "applied" /\ committed' = Append(committed, job.c)
    BY <1>5, Moving
  <2>2. job.stage # "none" /\ job # NoJob
    BY <1>0, <2>1 DEF Unsettled
  <2>3. main.latest.v # 0 /\ ~main.retry /\ job.c.rev <= main.latest.rev
    BY <1>0, <2>2 DEF OrderInv
  <2>4. \A k \in DOMAIN committed' : committed'[k].rev <= main.latest.rev /\ committed'[k].rev <= job.c.rev
    <3>1. committed \in Seq(AllTargets) /\ job.c \in AllTargets
      BY DEF LoaderType
    <3>2. \A k \in DOMAIN committed' : committed'[k] = job.c \/ (k \in DOMAIN committed /\ committed'[k] = committed[k])
      BY <2>1, <3>1
    <3>3. Before(job.c)
      BY <2>1 DEF OrderInv, Unsettled
    <3> QED BY <1>0, <2>3, <3>2, <3>3 DEF OrderInv, Before
  <2> QED BY <2>1, <2>2, <2>3, <2>4 DEF OrderInv, Before
<1> QED BY <1>1, <1>2, <1>3, <1>4, <1>5 DEF LoaderStep

\* Every step keeps the types of the loader's main loop.
LEMMA LoaderTypeStep ==
    ASSUME TableType, LoaderType, LoaderStep
    PROVE  LoaderType'
<1>1. main' \in Main /\ job' \in JobType
  <2>1. main \in Main /\ job \in JobType
    BY DEF LoaderType, Main, JobType
  <2>2. CASE LoaderIdles
    BY <2>1, <2>2, Idling
  <2>3. CASE LoaderQueues
    BY <2>1, <2>3, QueuesNot, QueuesFirst, QueuesNext, Zenon DEF LoaderQueues
  <2>4. CASE LoaderSettles
    BY <2>4, Settling
  <2>5. CASE LoaderMoves \/ LoaderCommits
    BY <2>1, <2>5, Moving
  <2> QED BY <2>2, <2>3, <2>4, <2>5 DEF LoaderStep
<1>2. committed' \in Seq(AllTargets)
  <2>1. committed' = committed \/ committed' = Append(committed, job.c)
    BY DEF LoaderStep, LoaderIdles, LoaderQueues, LoaderSettles, LoaderMoves, LoaderCommits
  <2>2. committed \in Seq(AllTargets) /\ job.c \in AllTargets
    BY DEF LoaderType
  <2>3. Append(committed, job.c) \in Seq(AllTargets)
    BY <2>2
  <2> QED BY <2>1, <2>2, <2>3
<1>3. acks' \in [next : Nat, pending : [AckStates -> AllAcks \cup {NoAck}], dirty : SUBSET AckStates]
  BY AcksStep
<1>4. ASSUME NEW st \in AckStates
      PROVE  acks'.pending[st] = NoAck \/ acks'.pending[st].state = st
  <2>1. acks.pending[st] = NoAck \/ acks.pending[st].state = st
    BY DEF LoaderType
  <2>2. NewAck(st).state = st
    BY DEF NewAck
  <2>3. acks'.pending[st] \in {acks.pending[st], NoAck, NewAck(st)}
    BY AcksStep
  <2> QED BY <2>1, <2>2, <2>3
<1> QED BY <1>1, <1>2, <1>3, <1>4 DEF LoaderType, Main, JobType
-----------------------------------------------------------------------------
(* What steps do to the wire: nothing is on it that was not sent before.    *)

\* What sending, joining and receiving do to the elements of a queue.
LEMMA QueueFacts ==
    ASSUME NEW S, NEW q \in Seq(S)
    PROVE  /\ \A x \in S : Append(q, x) \in Seq(S) /\ Range(Append(q, x)) = Range(q) \cup {x}
           /\ \A r \in Seq(S) : q \o r \in Seq(S) /\ Range(q \o r) = Range(q) \cup Range(r)
           /\ q # <<>> => /\ Tail(q) \in Seq(S) /\ Range(Tail(q)) \subseteq Range(q)
                          /\ Head(q) \in S /\ Head(q) \in Range(q)
           /\ <<>> \in Seq(S) /\ Range(<<>>) = {}
<1>1. ASSUME NEW x \in S PROVE Append(q, x) \in Seq(S) /\ Range(Append(q, x)) = Range(q) \cup {x}
  <2>1. Append(q, x) \in Seq(S) /\ DOMAIN Append(q, x) = 1..(Len(q) + 1)
    OBVIOUS
  <2>2. \A k \in 1..Len(q) : Append(q, x)[k] = q[k]
    OBVIOUS
  <2>3. Append(q, x)[Len(q) + 1] = x /\ Len(q) \in Nat /\ DOMAIN q = 1..Len(q)
    OBVIOUS
  <2>4. \A k \in 1..(Len(q) + 1) : k \in 1..Len(q) \/ k = Len(q) + 1
    BY <2>3
  <2>5. Range(Append(q, x)) \subseteq Range(q) \cup {x}
    BY <2>1, <2>2, <2>3, <2>4 DEF Range
  <2>6. Range(q) \subseteq Range(Append(q, x))
    <3>1. \A k \in 1..Len(q) : k \in 1..(Len(q) + 1)
      BY <2>3
    <3> QED BY <2>1, <2>2, <2>3, <3>1 DEF Range
  <2>7. x \in Range(Append(q, x))
    <3>1. Len(q) + 1 \in 1..(Len(q) + 1)
      BY <2>3
    <3> QED BY <2>1, <2>3, <3>1 DEF Range
  <2> QED BY <2>1, <2>5, <2>6, <2>7
<1>2. ASSUME NEW r \in Seq(S) PROVE q \o r \in Seq(S) /\ Range(q \o r) = Range(q) \cup Range(r)
  <2>1. q \o r \in Seq(S) /\ DOMAIN (q \o r) = 1..(Len(q) + Len(r)) /\ Len(q) \in Nat /\ Len(r) \in Nat
        /\ DOMAIN q = 1..Len(q) /\ DOMAIN r = 1..Len(r)
    OBVIOUS
  <2>2. \A k \in 1..Len(q) : (q \o r)[k] = q[k] /\ k \in 1..(Len(q) + Len(r))
    OBVIOUS
  <2>3. \A k \in 1..Len(r) : (q \o r)[k + Len(q)] = r[k] /\ k + Len(q) \in 1..(Len(q) + Len(r))
    OBVIOUS
  <2>4. \A k \in 1..(Len(q) + Len(r)) : k \in 1..Len(q) \/ \E j \in 1..Len(r) : k = j + Len(q)
    <3> SUFFICES ASSUME NEW k \in 1..(Len(q) + Len(r)), k \notin 1..Len(q)
                 PROVE  \E j \in 1..Len(r) : k = j + Len(q)
      OBVIOUS
    <3>1. k - Len(q) \in 1..Len(r) /\ k = (k - Len(q)) + Len(q)
      BY <2>1
    <3> QED BY <3>1
  <2>5. Range(q \o r) \subseteq Range(q) \cup Range(r)
    <3> SUFFICES ASSUME NEW k \in 1..(Len(q) + Len(r)) PROVE (q \o r)[k] \in Range(q) \cup Range(r)
      BY <2>1 DEF Range
    <3>1. CASE k \in 1..Len(q)
      BY <2>1, <2>2, <3>1 DEF Range
    <3>2. ASSUME NEW j \in 1..Len(r), k = j + Len(q) PROVE (q \o r)[k] \in Range(r)
      BY <2>1, <2>3, <3>2 DEF Range
    <3> QED BY <2>4, <3>1, <3>2
  <2>6. Range(q) \subseteq Range(q \o r)
    BY <2>1, <2>2 DEF Range
  <2>7. Range(r) \subseteq Range(q \o r)
    BY <2>1, <2>3 DEF Range
  <2> QED BY <2>1, <2>5, <2>6, <2>7
<1>3. ASSUME q # <<>>
      PROVE  /\ Tail(q) \in Seq(S) /\ Range(Tail(q)) \subseteq Range(q)
             /\ Head(q) \in S /\ Head(q) \in Range(q)
  <2>1. /\ Tail(q) \in Seq(S) /\ Len(Tail(q)) = Len(q) - 1 /\ Head(q) = q[1] /\ Len(q) \in Nat \ {0}
        /\ DOMAIN Tail(q) = 1..(Len(q) - 1) /\ DOMAIN q = 1..Len(q)
    BY <1>3
  <2>2. \A k \in 1..(Len(q) - 1) : Tail(q)[k] = q[k + 1] /\ k + 1 \in 1..Len(q)
    BY <1>3
  <2>3. 1 \in 1..Len(q)
    BY <2>1
  <2>4. Range(Tail(q)) \subseteq Range(q)
    BY <2>1, <2>2 DEF Range
  <2>5. Head(q) \in Range(q) /\ Head(q) \in S
    BY <2>1, <2>3 DEF Range
  <2> QED BY <2>1, <2>4, <2>5
<1>4. <<>> \in Seq(S) /\ Range(<<>>) = {}
  BY DEF Range
<1> QED BY <1>1, <1>2, <1>3, <1>4

\* The acknowledgements put in the order of their sequence numbers are retained ones.
LEMMA Queued ==
    ASSUME LoaderType, NEW sts \in SUBSET AckStates, NEW q \in BySequence(Pending(sts))
    PROVE  q \in Seq(AllAcks) /\ Range(q) \subseteq Sent
<1>1. Pending(sts) \subseteq AllAcks /\ Pending(sts) \subseteq Sent
  BY DEF LoaderType, Pending, Sent
<1>2. IsFiniteSet(Pending(sts))
  <2> DEFINE R == {acks.pending["received"]}
             P == R \cup {acks.pending["prepared"]}
             A == P \cup {acks.pending["applied"]}
             J == A \cup {acks.pending["rejected"]}
  <2>1. IsFiniteSet(R)
    BY FS_Singleton, Zenon
  <2>2. IsFiniteSet(P)
    BY <2>1, FS_AddElement
  <2>3. IsFiniteSet(A)
    BY <2>2, FS_AddElement
  <2>4. IsFiniteSet(J)
    BY <2>3, FS_AddElement
  <2>5. Pending(sts) \in SUBSET J
    BY RolloutConstants DEF Pending
  <2> QED BY <2>4, <2>5, FS_Subset
<1>3. Cardinality(Pending(sts)) \in Nat
  BY <1>2, FS_CardinalityType
<1>4. q \in [1..Cardinality(Pending(sts)) -> Pending(sts)]
  BY DEF BySequence
<1>5. q \in Seq(Pending(sts))
  BY <1>3, <1>4
<1>6. Range(q) \subseteq Pending(sts)
  BY <1>5, RangeInSet
<1>7. q \in Seq(AllAcks)
  BY <1>1, <1>5
<1> QED BY <1>1, <1>6, <1>7

\* What a stream may carry: whatever it did, and what the process has retained
\* or was about to send.
Carries(i, q) ==
    /\ i \in StreamIds
    /\ \/ q = <<>>
       \/ inbox[i] # <<>> /\ q = Tail(inbox[i])
       \/ \E sts \in SUBSET AckStates : \E p \in BySequence(Pending(sts)) : q = p \/ q = inbox[i] \o p
       \/ \E p \in Seq(AllAcks) : p # <<>> /\ Range(p) \subseteq Sent /\ q = Append(inbox[i], Head(p))

\* What the loader puts on a stream is acknowledgements it has sent or retains.
LEMMA Carrying ==
    ASSUME LoaderType, WireType, NEW i \in StreamIds, NEW q, Carries(i, q)
    PROVE  q \in Seq(AllAcks) /\ Range(q) \subseteq Sent
<1>1. inbox[i] \in Seq(AllAcks) /\ Range(inbox[i]) \subseteq Sent
  BY DEF WireType, Sent
<1>2. CASE q = <<>>
  BY <1>1, <1>2, QueueFacts
<1>3. CASE inbox[i] # <<>> /\ q = Tail(inbox[i])
  BY <1>1, <1>3, QueueFacts
<1>4. ASSUME NEW sts \in SUBSET AckStates, NEW p \in BySequence(Pending(sts)), q = p \/ q = inbox[i] \o p
      PROVE  q \in Seq(AllAcks) /\ Range(q) \subseteq Sent
  <2>1. p \in Seq(AllAcks) /\ Range(p) \subseteq Sent
    BY Queued
  <2>2. inbox[i] \o p \in Seq(AllAcks) /\ Range(inbox[i] \o p) = Range(inbox[i]) \cup Range(p)
    BY <1>1, <2>1, QueueFacts
  <2> QED BY <1>1, <1>4, <2>1, <2>2, Zenon
<1>5. ASSUME NEW p \in Seq(AllAcks), p # <<>>, Range(p) \subseteq Sent, q = Append(inbox[i], Head(p))
      PROVE  q \in Seq(AllAcks) /\ Range(q) \subseteq Sent
  <2>1. Head(p) \in AllAcks /\ Head(p) \in Sent
    BY <1>5, QueueFacts
  <2>2. q \in Seq(AllAcks) /\ Range(q) = Range(inbox[i]) \cup {Head(p)}
    BY <1>1, <1>5, <2>1, QueueFacts
  <2> QED BY <1>1, <2>1, <2>2
<1> QED BY <1>2, <1>3, <1>4, <1>5 DEF Carries

\* The steps that use the wire.
GoWire ==
    /\ UNCHANGED nodeVars
    /\ TakeCandidate \/ WatchSession \/ SendPendingAcks \/ Receive \/ LoseStream \/ Stop
NodeWire ==
    \/ CandidateSettles \/ Startup \/ RunEnds \/ WatchRelease \/ SendAck \/ ReceiveEvent
    \/ StreamEnds
ServerWire == Server /\ UNCHANGED nodeVars
WireStays == UNCHANGED <<candidate, stream, inbox, outbox, flush, failing>>

\* Every step leaves the wire alone or is the Go loader's, the Node loader's or the
\* server's step on it.
LEMMA WireSteps ==
    ASSUME [ClientNext]_clientVars
    PROVE  WireStays \/ GoWire \/ NodeWire \/ ServerWire
<1>1. CASE Go /\ Loader
  <2>1. CASE Start \/ ReadInitial \/ StartFails \/ Reconcile \/ TakeFresh \/ TakeResult \/ StartupFails
    BY <1>1, <2>1 DEF Go, Start, ReadInitial, StartFails, Reconcile, TakeFresh, TakeResult,
                      StartupFails, wireVars, nodeVars, WireStays
  <2>2. CASE Job
    BY <1>1, <2>2 DEF Go, Job, Resolve, Prepare, CheckActive, CheckGone, Commit, Rejects, wireVars,
                      nodeVars, WireStays
  <2> QED BY <1>1, <2>1, <2>2 DEF Loader, Go, GoWire, nodeVars
<1>2. CASE Node /\ NodeStep
  <2>1. CASE NodeStart \/ ReconcileReads \/ ReconcileOffers \/ StopRun
    BY <2>1 DEF NodeStart, ReconcileReads, ReconcileOffers, StopRun, Start, ReadInitial, StartFails,
                Reconcile, wireVars, nodeVars, WireStays
  <2>2. CASE Candidate
    BY <2>2 DEF Candidate, ResolveCandidate, PrepareSnapshot, ActiveAnswers, ActiveFails,
                CommitPrepared, CandidateFails, Reject, wireVars, nodeVars, WireStays
  <2> QED BY <1>2, <2>1, <2>2 DEF NodeStep, NodeWire
<1>3. CASE Either /\ Operate
  BY <1>3 DEF Either, Operate, wireVars, nodeVars, WireStays
<1>4. CASE Either /\ Server
  BY <1>4 DEF Either, ServerWire, nodeVars
<1>5. CASE UNCHANGED clientVars
  BY <1>5 DEF clientVars, nodeLoaderVars, rolloutVars, loaderVars, wireVars, nodeVars, WireStays
<1> QED BY <1>1, <1>2, <1>3, <1>4, <1>5 DEF ClientNext

\* The candidate channel holds a target the process has heard of, or none.
LEMMA CandidateStep ==
    ASSUME WireType, [ClientNext]_clientVars
    PROVE  candidate' \in AllTargets /\ candidate' \in {NoTarget} \cup Heard
<1>1. CASE candidate' \in {candidate, NoTarget}
  BY <1>1, NoTargetType DEF WireType, Heard
<1>2. CASE WireStays
  BY <1>1, <1>2 DEF WireStays
<1>3. CASE GoWire
  <2>1. CASE TakeCandidate \/ WatchSession \/ SendPendingAcks \/ LoseStream \/ Stop
    BY <1>1, <2>1 DEF TakeCandidate, WatchSession, SendPendingAcks, LoseStream, Stop
  <2>2. CASE Receive
    BY <1>1, <2>2, HeadIsHeard DEF Receive
  <2> QED BY <1>3, <2>1, <2>2 DEF GoWire
<1>4. CASE NodeWire
  BY <1>1, <1>4, Zenon DEF NodeWire, CandidateSettles, Startup, StartupReads, StartupOffers, StartupGivesUp,
       RunEnds, WatchRelease, SendAck, ReceiveEvent, StreamEnds, LoseStream
<1>5. CASE ServerWire
  BY <1>1, <1>5, Zenon DEF ServerWire, Server, SendTarget, ServeAck, EndStream, ServerRestart, loaderVars
<1> QED BY <1>2, <1>3, <1>4, <1>5, WireSteps

\* The loader's stream is one of the streams opened, or none.
LEMMA StreamStep ==
    ASSUME TableType, WireType, [ClientNext]_clientVars
    PROVE  stream' \in {0} \cup StreamIds
<1>1. CASE stream' \in {0, stream}
  BY <1>1 DEF WireType
<1>2. CASE stream' = opened + 1 /\ opened < MaxConnections
  BY <1>2, ReleaseSessionsConstants DEF TableType, StreamIds
<1>3. CASE WireStays
  BY <1>1, <1>3 DEF WireStays
<1>4. CASE GoWire
  BY <1>1, <1>2, <1>4 DEF GoWire, TakeCandidate, WatchSession, OpenStream, SendPendingAcks, Receive,
       LoseStream, Stop, wireVars
<1>5. CASE NodeWire
  BY <1>1, <1>2, <1>5, Zenon DEF NodeWire, CandidateSettles, Startup, StartupReads, StartupOffers,
       StartupGivesUp, RunEnds, WatchRelease, OpenStream, SendAck, ReceiveEvent, StreamEnds, LoseStream,
       wireVars
<1>6. CASE ServerWire
  BY <1>1, <1>6, Zenon DEF ServerWire, Server, SendTarget, ServeAck, EndStream, ServerRestart
<1> QED BY <1>3, <1>4, <1>5, <1>6, WireSteps

InboxMoves ==
    \/ inbox' = inbox
    \/ inbox' = [i \in StreamIds |-> <<>>]
    \/ \E i \in StreamIds : \E q : Carries(i, q) /\ inbox' = [inbox EXCEPT ![i] = q]

\* The Node loader's flush sends acknowledgements it retains.
LEMMA Flushing ==
    ASSUME LoaderType, WireType, NEW q \in FlushQueue
    PROVE  q \in Seq(AllAcks) /\ Range(q) \subseteq Sent
<1>1. CASE q = flush
  BY <1>1 DEF WireType, Sent
<1>2. CASE q \in BySequence(Pending(acks.dirty))
  <2>1. acks.dirty \in SUBSET AckStates
    BY DEF LoaderType
  <2> QED BY <1>2, <2>1, Queued
<1> QED BY <1>1, <1>2 DEF FlushQueue

\* Streams carry to the server only acknowledgements the process has sent or retains.
LEMMA InboxStep ==
    ASSUME TableType, LoaderType, WireType, [ClientNext]_clientVars
    PROVE  /\ inbox' \in [StreamIds -> Seq(AllAcks)]
           /\ \A i \in StreamIds : Range(inbox'[i]) \subseteq Sent
<1>0. acks.dirty \in SUBSET AckStates /\ stream \in {0} \cup StreamIds
  BY DEF LoaderType, WireType
<1>1. InboxMoves
  <2>1. CASE WireStays
    BY <2>1 DEF WireStays, InboxMoves
  <2>2. CASE GoWire
    <3>1. CASE TakeCandidate \/ Receive \/ LoseStream \/ Stop
      BY <3>1 DEF TakeCandidate, Receive, LoseStream, Stop, wireVars, InboxMoves
    <3>2. CASE WatchSession
      <4>1. CASE inbox' = inbox
        BY <4>1 DEF InboxMoves
      <4>2. ASSUME OpenStream(Self), NEW q \in Replayed, inbox' = [inbox EXCEPT ![opened + 1] = q]
            PROVE  InboxMoves
        <5>1. opened + 1 \in StreamIds
          BY <4>2, ReleaseSessionsConstants DEF OpenStream, TableType, StreamIds
        <5>2. Carries(opened + 1, q)
          BY <4>2, <5>1 DEF Carries, Replayed
        <5> QED BY <4>2, <5>1, <5>2, Zenon DEF InboxMoves
      <4> QED BY <3>2, <4>1, <4>2 DEF WatchSession
    <3>3. CASE SendPendingAcks
      <4>1. PICK q \in BySequence(Pending(acks.dirty)) : inbox' = [inbox EXCEPT ![stream] = inbox[stream] \o q]
        BY <3>3, Zenon DEF SendPendingAcks
      <4>2. stream \in StreamIds
        BY <1>0, <3>3 DEF SendPendingAcks
      <4>3. Carries(stream, inbox[stream] \o q)
        BY <1>0, <4>2 DEF Carries
      <4> QED BY <4>1, <4>2, <4>3, Zenon DEF InboxMoves
    <3> QED BY <2>2, <3>1, <3>2, <3>3 DEF GoWire
  <2>3. CASE NodeWire
    <3>1. CASE CandidateSettles \/ Startup \/ RunEnds \/ WatchRelease \/ ReceiveEvent \/ StreamEnds
      BY <3>1, Zenon DEF CandidateSettles, Startup, StartupReads, StartupOffers, StartupGivesUp, RunEnds,
           WatchRelease, ReceiveEvent, StreamEnds, LoseStream, wireVars, InboxMoves
    <3>2. CASE SendAck
      <4>1. PICK q \in FlushQueue : q # <<>> /\ inbox' = [inbox EXCEPT ![stream] = Append(inbox[stream], Head(q))]
        BY <3>2, Zenon DEF SendAck
      <4>2. stream \in StreamIds
        BY <1>0, <3>2 DEF SendAck
      <4>3. Carries(stream, Append(inbox[stream], Head(q)))
        BY <4>1, <4>2, Flushing DEF Carries
      <4> QED BY <4>1, <4>2, <4>3, Zenon DEF InboxMoves
    <3> QED BY <2>3, <3>1, <3>2 DEF NodeWire
  <2>4. CASE ServerWire
    <3>1. ASSUME NEW i \in StreamIds, SendTarget(i) \/ ServeAck(i) \/ EndStream(i)
          PROVE  InboxMoves
      <4>1. CASE SendTarget(i)
        BY <4>1 DEF SendTarget, InboxMoves
      <4>2. CASE ServeAck(i)
        <5>1. inbox[i] # <<>> /\ inbox' = [inbox EXCEPT ![i] = Tail(inbox[i])]
          BY <4>2, Zenon DEF ServeAck
        <5> QED BY <5>1, Zenon DEF Carries, InboxMoves
      <4>3. CASE EndStream(i)
        BY <4>3, Zenon DEF EndStream, Carries, InboxMoves
      <4> QED BY <3>1, <4>1, <4>2, <4>3
    <3>2. CASE ServerRestart
      BY <3>2 DEF ServerRestart, InboxMoves
    <3> QED BY <2>4, <3>1, <3>2 DEF ServerWire, Server
  <2> QED BY <2>1, <2>2, <2>3, <2>4, WireSteps
<1>2. inbox \in [StreamIds -> Seq(AllAcks)] /\ \A i \in StreamIds : Range(inbox[i]) \subseteq Sent
  BY DEF WireType, Sent
<1>3. CASE inbox' = inbox
  BY <1>2, <1>3
<1>4. CASE inbox' = [i \in StreamIds |-> <<>>]
  <2>1. <<>> \in Seq(AllAcks) /\ Range(<<>>) = {}
    BY DEF Range
  <2> QED BY <1>4, <2>1
<1>5. ASSUME NEW i \in StreamIds, NEW q, Carries(i, q), inbox' = [inbox EXCEPT ![i] = q]
      PROVE  /\ inbox' \in [StreamIds -> Seq(AllAcks)]
             /\ \A k \in StreamIds : Range(inbox'[k]) \subseteq Sent
  BY <1>2, <1>5, Carrying
<1> QED BY <1>1, <1>3, <1>4, <1>5 DEF InboxMoves

\* What a stream may bring: an acknowledgement that was refused, or a target
\* that was known.
Brings(i, q) ==
    /\ i \in StreamIds
    /\ \/ q = <<>>
       \/ outbox[i] # <<>> /\ q = Tail(outbox[i])
       \/ \E x \in AllAcks \cup AllTargets : /\ x \in AllTargets => Known(x)
                                             /\ q = Append(outbox[i], x)

OutboxMoves ==
    \/ outbox' = outbox
    \/ outbox' = [i \in StreamIds |-> <<>>]
    \/ \E i \in StreamIds : \E q : Brings(i, q) /\ outbox' = [outbox EXCEPT ![i] = q]

\* What the server puts on a stream is an acknowledgement's answer or a session's target.
LEMMA Bringing ==
    ASSUME WireType, NEW i \in StreamIds, NEW q, Brings(i, q)
    PROVE  /\ q \in Seq(AllAcks \cup AllTargets)
           /\ \A x \in Range(q) \cap AllTargets : Known(x)
<1>1. /\ outbox[i] \in Seq(AllAcks \cup AllTargets)
      /\ \A x \in Range(outbox[i]) \cap AllTargets : Known(x)
  BY DEF WireType, Heard, Known
<1>2. CASE q = <<>>
  <2>1. <<>> \in Seq(AllAcks \cup AllTargets) /\ Range(<<>>) = {}
    BY DEF Range
  <2> QED BY <1>2, <2>1
<1>3. CASE outbox[i] # <<>> /\ q = Tail(outbox[i])
  <2>1. q \in Seq(AllAcks \cup AllTargets) /\ Range(q) \subseteq Range(outbox[i])
    BY <1>1, <1>3, QueueFacts
  <2> QED BY <1>1, <2>1
<1>4. ASSUME NEW x \in AllAcks \cup AllTargets, x \in AllTargets => Known(x), q = Append(outbox[i], x)
      PROVE  /\ q \in Seq(AllAcks \cup AllTargets)
             /\ \A y \in Range(q) \cap AllTargets : Known(y)
  <2>1. q \in Seq(AllAcks \cup AllTargets) /\ Range(q) = Range(outbox[i]) \cup {x}
    BY <1>1, <1>4, QueueFacts
  <2> QED BY <1>1, <1>4, <2>1
<1> QED BY <1>2, <1>3, <1>4 DEF Brings

\* Streams carry to the loader only targets the session has had.
LEMMA OutboxStep ==
    ASSUME TableType, LoaderType, WireType, [ClientNext]_clientVars
    PROVE  /\ outbox' \in [StreamIds -> Seq(AllAcks \cup AllTargets)]
           /\ \A i \in StreamIds : \A x \in Range(outbox'[i]) \cap AllTargets : Known(x)
<1>0. stream \in {0} \cup StreamIds
  BY DEF WireType
<1>1. OutboxMoves
  <2>1. CASE WireStays
    BY <2>1 DEF WireStays, OutboxMoves
  <2>2. ASSUME stream # 0, outbox' = [outbox EXCEPT ![stream] = <<>>]
        PROVE  OutboxMoves
    BY <1>0, <2>2, Zenon DEF Brings, OutboxMoves
  <2>3. ASSUME stream # 0, outbox[stream] # <<>>, outbox' = [outbox EXCEPT ![stream] = Tail(outbox[stream])]
        PROVE  OutboxMoves
    BY <1>0, <2>3, Zenon DEF Brings, OutboxMoves
  <2>4. CASE GoWire
    <3>1. CASE TakeCandidate \/ WatchSession \/ SendPendingAcks \/ Stop
      BY <3>1 DEF TakeCandidate, WatchSession, SendPendingAcks, Stop, wireVars, OutboxMoves
    <3>2. CASE Receive
      BY <2>3, <3>2 DEF Receive
    <3>3. CASE LoseStream
      BY <2>2, <3>3 DEF LoseStream
    <3> QED BY <2>4, <3>1, <3>2, <3>3 DEF GoWire
  <2>5. CASE NodeWire
    <3>1. CASE CandidateSettles \/ Startup \/ RunEnds \/ WatchRelease \/ SendAck
      BY <3>1, Zenon DEF CandidateSettles, Startup, StartupReads, StartupOffers, StartupGivesUp, RunEnds,
           WatchRelease, SendAck, wireVars, OutboxMoves
    <3>2. CASE ReceiveEvent
      BY <2>3, <3>2 DEF ReceiveEvent
    <3>3. CASE StreamEnds
      BY <2>2, <3>3 DEF StreamEnds, LoseStream
    <3> QED BY <2>5, <3>1, <3>2, <3>3 DEF NodeWire
  <2>6. CASE ServerWire
    <3>1. ASSUME NEW i \in StreamIds, SendTarget(i)
          PROVE  OutboxMoves
      <4>1. TargetOf(Self) \in AllTargets /\ Known(TargetOf(Self))
        BY <3>1, TargetType DEF SendTarget, GetInstanceRelease, Known
      <4>2. outbox' = outbox \/ outbox' = [outbox EXCEPT ![i] = Append(outbox[i], TargetOf(Self))]
        BY <3>1 DEF SendTarget
      <4> QED BY <4>1, <4>2 DEF Brings, OutboxMoves
    <3>2. ASSUME NEW i \in StreamIds, ServeAck(i)
          PROVE  OutboxMoves
      <4>1. inbox[i] # <<>> /\ inbox[i] \in Seq(AllAcks)
        BY <3>2 DEF ServeAck, WireType
      <4>2. Head(inbox[i]) \in AllAcks
        BY <4>1
      <4>3. Head(inbox[i]) \notin AllTargets
        BY <4>2 DEF AllAcks, AllTargets
      <4>4. outbox' = outbox \/ outbox' = [outbox EXCEPT ![i] = Append(outbox[i], Head(inbox[i]))]
        BY <3>2, Zenon DEF ServeAck
      <4> QED BY <4>2, <4>3, <4>4 DEF Brings, OutboxMoves
    <3>3. CASE \E i \in StreamIds : EndStream(i)
      BY <3>3 DEF EndStream, OutboxMoves
    <3>4. CASE ServerRestart
      BY <3>4 DEF ServerRestart, OutboxMoves
    <3> QED BY <2>6, <3>1, <3>2, <3>3, <3>4 DEF ServerWire, Server
  <2> QED BY <2>1, <2>4, <2>5, <2>6, WireSteps
<1>2. /\ outbox \in [StreamIds -> Seq(AllAcks \cup AllTargets)]
      /\ \A i \in StreamIds : \A x \in Range(outbox[i]) \cap AllTargets : Known(x)
  BY DEF WireType, Heard, Known
<1>3. CASE outbox' = outbox
  BY <1>2, <1>3
<1>4. CASE outbox' = [i \in StreamIds |-> <<>>]
  <2>1. <<>> \in Seq(AllAcks \cup AllTargets) /\ Range(<<>>) = {}
    BY DEF Range
  <2> QED BY <1>4, <2>1
<1>5. ASSUME NEW i \in StreamIds, NEW q, Brings(i, q), outbox' = [outbox EXCEPT ![i] = q]
      PROVE  /\ outbox' \in [StreamIds -> Seq(AllAcks \cup AllTargets)]
             /\ \A k \in StreamIds : \A x \in Range(outbox'[k]) \cap AllTargets : Known(x)
  BY <1>2, <1>5, Bringing
<1> QED BY <1>1, <1>3, <1>4, <1>5 DEF OutboxMoves

\* A flush under way holds only acknowledgements that were retained.
LEMMA FlushStep ==
    ASSUME LoaderType, WireType, [ClientNext]_clientVars
    PROVE  flush' \in Seq(AllAcks) /\ Range(flush') \subseteq Sent
<1>1. CASE flush' = flush
  BY <1>1 DEF WireType, Sent
<1>2. CASE flush' = <<>>
  BY <1>2 DEF Range
<1>3. CASE flush' \in Replayed
  BY <1>3, Queued DEF Replayed
<1>4. ASSUME NEW q \in FlushQueue, q # <<>>, flush' = Tail(q)
      PROVE  flush' \in Seq(AllAcks) /\ Range(flush') \subseteq Sent
  <2>1. q \in Seq(AllAcks) /\ Range(q) \subseteq Sent
    BY Flushing
  <2>2. Tail(q) \in Seq(AllAcks) /\ Range(Tail(q)) \subseteq Range(q)
    BY <1>4, <2>1, QueueFacts
  <2> QED BY <1>4, <2>1, <2>2
<1>5. CASE WireStays \/ GoWire \/ ServerWire
  BY <1>1, <1>5 DEF WireStays, GoWire, ServerWire, nodeVars
<1>6. CASE NodeWire
  <2>1. CASE SendAck
    BY <1>4, <2>1 DEF SendAck
  <2>2. CASE CandidateSettles \/ Startup \/ RunEnds \/ WatchRelease \/ ReceiveEvent \/ StreamEnds
    BY <1>1, <1>2, <1>3, <2>2, Zenon DEF CandidateSettles, Startup, StartupReads, StartupOffers, StartupGivesUp,
       RunEnds, WatchRelease, ReceiveEvent, StreamEnds, nodeVars
  <2> QED BY <1>6, <2>1, <2>2 DEF NodeWire
<1> QED BY <1>5, <1>6, WireSteps

Failings == [c : AllTargets, stage : {"reading", "read", "acking"}, fresh : AllTargets]

\* A failed candidate's read of the current release gives a target the session has had.
LEMMA FailingStep ==
    ASSUME TableType, LoaderType, WireType, [ClientNext]_clientVars
    PROVE  failing' \subseteq Failings /\ \A g \in failing' : g.fresh = NoTarget \/ Known(g.fresh)
<1>0. /\ failing \subseteq Failings /\ \A g \in failing : Known(g.fresh)
      /\ job.c \in AllTargets /\ TargetOf(Self) \in AllTargets
  BY TargetType DEF WireType, LoaderType, Failings, Heard, Known
<1>1. CASE failing' \subseteq failing
  BY <1>0, <1>1
<1>2. CASE failing' = failing \cup {[c |-> job.c, stage |-> "reading", fresh |-> NoTarget]}
  <2>1. [c |-> job.c, stage |-> "reading", fresh |-> NoTarget] \in Failings
    BY <1>0, NoTargetType DEF Failings
  <2> QED BY <1>0, <1>2, <2>1
<1>3. ASSUME NEW g \in failing, StartupReads(g)
      PROVE  failing' \subseteq Failings /\ \A h \in failing' : h.fresh = NoTarget \/ Known(h.fresh)
  <2>1. g \in Failings
    BY <1>0
  <2>2. [g EXCEPT !.stage = "acking"] \in Failings /\ [g EXCEPT !.stage = "acking"].fresh = g.fresh
    BY <2>1 DEF Failings
  <2>3. /\ [g EXCEPT !.stage = "read", !.fresh = TargetOf(Self)] \in Failings
        /\ [g EXCEPT !.stage = "read", !.fresh = TargetOf(Self)].fresh = TargetOf(Self)
    BY <1>0, <2>1, Zenon DEF Failings
  <2>4. CASE failing' = (failing \ {g}) \cup {[g EXCEPT !.stage = "acking"]}
    BY <1>0, <2>2, <2>4, Zenon
  <2>5. CASE /\ Self \in live
             /\ failing' = (failing \ {g}) \cup {[g EXCEPT !.stage = "read", !.fresh = TargetOf(Self)]}
    BY <1>0, <2>3, <2>5, Zenon DEF Known
  <2> QED BY <1>3, <2>4, <2>5 DEF StartupReads, GetInstanceRelease
<1>4. CASE WireStays \/ GoWire \/ ServerWire
  BY <1>1, <1>4 DEF WireStays, GoWire, ServerWire, nodeVars
<1>5. CASE NodeWire
  <2>1. CASE CandidateSettles
    BY <1>1, <1>2, <2>1 DEF CandidateSettles
  <2>2. CASE Startup
    BY <1>1, <1>3, <2>2 DEF Startup, StartupOffers, StartupGivesUp, nodeVars
  <2>3. CASE RunEnds \/ WatchRelease \/ SendAck \/ ReceiveEvent \/ StreamEnds
    BY <1>1, <2>3 DEF RunEnds, WatchRelease, SendAck, ReceiveEvent, StreamEnds, nodeVars
  <2> QED BY <1>5, <2>1, <2>2, <2>3 DEF NodeWire
<1> QED BY <1>4, <1>5, WireSteps

-----------------------------------------------------------------------------
(* The manager.                                                            *)

Checked == {"check", "commit", "differs"}

KeepsChecked ==
    /\ job'.stage \in Checked => job.stage \in Checked /\ job'.c = job.c
    /\ job'.stage = "prepare" => job.stage = "prepare"

ManagerIdles == UNCHANGED <<managed, committed>> /\ KeepsChecked
ManagerBegins ==
    /\ managed' = BeginPrepare
    /\ job' = [job EXCEPT !.stage = "prepare"]
    /\ UNCHANGED committed
ManagerReports ==
    /\ job.stage = "prepare" /\ ~RestartRequired(job.c)
    /\ managed' = ReportOnce(job.c)
    /\ job' = [job EXCEPT !.stage = "check"]
    /\ UNCHANGED committed
ManagerPublishes ==
    /\ job.stage = "commit"
    /\ committed' = Append(committed, job.c)
    /\ managed' = Publish(job.c)
    /\ job' = [job EXCEPT !.stage = "applied"]
ManagerStep == ManagerIdles \/ ManagerBegins \/ ManagerReports \/ ManagerPublishes

\* Queueing a candidate moves no call past the manager's prepare.
LEMMA OfferKeeps ==
    ASSUME LoaderType, NEW c, Queue(c) \/ Offer(c)
    PROVE  KeepsChecked
<1>1. \/ job' = job
      \/ job' = [c |-> c, stage |-> "resolve", cancelled |-> FALSE]
      \/ job' = [job EXCEPT !.cancelled = TRUE]
  BY DEF Queue, Offer
<1> QED BY <1>1 DEF KeepsChecked, Checked, LoaderType

\* Only the Node process has a manager; its steps begin to prepare, report, publish or leave it alone.
LEMMA ManagerSteps ==
    ASSUME LoaderType, [ClientNext]_clientVars
    PROVE  sdk' = sdk /\ (sdk = "node" => ManagerStep) /\ (sdk # "node" => managed' = managed)
<1>0. job \in JobType
  BY DEF LoaderType, JobType
<1>1. CASE Go /\ Loader
  BY <1>1 DEF Go, nodeVars
<1>2. CASE Either /\ (Operate \/ Server)
  BY <1>2, Zenon DEF Either, nodeVars, Operate, Server, SendTarget, ServeAck, EndStream, ServerRestart, loaderVars,
              ManagerStep, ManagerIdles, KeepsChecked
<1>3. CASE UNCHANGED clientVars
  BY <1>3 DEF clientVars, nodeLoaderVars, rolloutVars, loaderVars, nodeVars, ManagerStep, ManagerIdles, KeepsChecked
<1>4. CASE Node /\ NodeStep
  <2> SUFFICES ManagerStep
    BY <1>4 DEF Node
  <2>1. CASE NodeStart \/ ReconcileReads \/ StopRun \/ RunEnds \/ WatchRelease \/ SendAck \/ StreamEnds
    <3>1. UNCHANGED <<managed, committed>>
      BY <2>1 DEF NodeStart, Start, ReadInitial, StartFails, ReconcileReads, Reconcile, StopRun, RunEnds,
                  WatchRelease, SendAck, StreamEnds, LoseStream, nodeVars
    <3>2. job' = job \/ Queue(TargetOf(Self))
      BY <2>1 DEF NodeStart, Start, ReadInitial, StartFails, ReconcileReads, Reconcile, StopRun, RunEnds,
                  WatchRelease, SendAck, StreamEnds, LoseStream
    <3>3. KeepsChecked
      BY <3>2, OfferKeeps DEF KeepsChecked
    <3> QED BY <3>1, <3>3 DEF ManagerStep, ManagerIdles
  <2>2. CASE ReconcileOffers
    BY <2>2, OfferKeeps DEF ReconcileOffers, nodeVars, ManagerStep, ManagerIdles
  <2>3. CASE ReceiveEvent
    <3>1. job' = job \/ Offer(Head(outbox[stream]))
      BY <2>3 DEF ReceiveEvent
    <3>2. KeepsChecked
      BY <3>1, OfferKeeps DEF KeepsChecked
    <3> QED BY <2>3, <3>2 DEF ReceiveEvent, nodeVars, ManagerStep, ManagerIdles
  <2>4. CASE Startup
    <3>1. PICK g \in failing : StartupReads(g) \/ StartupOffers(g) \/ StartupGivesUp(g)
      BY <2>4 DEF Startup
    <3>2. job' = job \/ Offer(g.fresh)
      BY <3>1 DEF StartupReads, StartupOffers, StartupGivesUp
    <3>3. KeepsChecked
      BY <3>2, OfferKeeps DEF KeepsChecked
    <3> QED BY <3>1, <3>3 DEF StartupReads, StartupOffers, StartupGivesUp, nodeVars, ManagerStep, ManagerIdles
  <2>5. CASE CandidateSettles
    <3>1. job'.stage \in {"resolve", "none"}
      BY <2>5 DEF CandidateSettles, NoJob
    <3> QED BY <2>5, <3>1 DEF CandidateSettles, KeepsChecked, Checked, ManagerStep, ManagerIdles
  <2>6. ASSUME Reject PROVE ManagerIdles
    BY <1>0, <2>6 DEF Reject, nodeVars, JobType, KeepsChecked, Checked, ManagerIdles
  <2>7. CASE Candidate
    <3>1. CASE ResolveCandidate
      <4>1. CASE CandidateFails
        BY <2>6, <4>1 DEF CandidateFails, ManagerStep
      <4> QED BY <3>1, <4>1 DEF ResolveCandidate, ManagerBegins, ManagerStep
    <3>2. CASE PrepareSnapshot
      <4>1. CASE Reject
        BY <2>6, <4>1 DEF ManagerStep
      <4> QED BY <3>2, <4>1 DEF PrepareSnapshot, CandidateFails, ManagerReports, ManagerStep
    <3>3. CASE ActiveAnswers
      <4>1. /\ job.stage \in Checked /\ job'.c = job.c /\ job'.stage # "prepare"
            /\ UNCHANGED <<committed, managed>>
        BY <1>0, <3>3 DEF ActiveAnswers, Checked, JobType, nodeVars
      <4> QED BY <4>1 DEF KeepsChecked, ManagerIdles, ManagerStep
    <3>4. CASE ActiveFails
      BY <2>6, <3>4 DEF ActiveFails, CandidateFails, ManagerStep
    <3>5. CASE CommitPrepared
      <4>1. CASE job' = [job EXCEPT !.stage = "superseded"] /\ UNCHANGED <<committed, managed>>
        BY <1>0, <4>1 DEF JobType, KeepsChecked, Checked, ManagerIdles, ManagerStep
      <4> QED BY <3>5, <4>1 DEF CommitPrepared, ManagerPublishes, ManagerStep
    <3> QED BY <2>7, <3>1, <3>2, <3>3, <3>4, <3>5 DEF Candidate
  <2> QED BY <1>4, <2>1, <2>2, <2>3, <2>4, <2>5, <2>7 DEF NodeStep
<1> QED BY <1>1, <1>2, <1>3, <1>4 DEF ClientNext, Go

ManagedType == [startup : BOOLEAN, divergent : BOOLEAN, key : AllTargets, reports : Seq(AllTargets)]

\* #prepareSnapshot's first lines change nothing but the startup they capture.
LEMMA Beginning ==
    ASSUME LoaderType, WireType
    PROVE  /\ BeginPrepare \in ManagedType
           /\ BeginPrepare.startup = (committed = <<>>)
           /\ BeginPrepare.divergent = managed.divergent
           /\ BeginPrepare.key = managed.key /\ BeginPrepare.reports = managed.reports
<1>1. managed \in ManagedType /\ (committed = <<>>) \in BOOLEAN
  BY DEF WireType, ManagedType
<1> QED BY <1>1, Zenon DEF BeginPrepare, ManagedType

\* #reportOnce reports a divergent target unless it was the last one reported.
LEMMA Reporting ==
    ASSUME LoaderType, WireType
    PROVE  /\ ReportOnce(job.c) \in ManagedType
           /\ ReportOnce(job.c).divergent = managed.divergent
           /\ Range(managed.reports) \subseteq Range(ReportOnce(job.c).reports)
           /\ \/ ReportOnce(job.c) = managed /\ (job.c.v \in Divergent => managed.key = job.c)
              \/ ReportOnce(job.c).key = job.c /\ job.c \in Range(ReportOnce(job.c).reports)
<1>1. managed \in ManagedType /\ job.c \in AllTargets
  BY DEF LoaderType, WireType, ManagedType
<1>2. CASE job.c.v \notin Divergent \/ managed.key = job.c
  BY <1>1, <1>2 DEF ReportOnce
<1>3. CASE ~(job.c.v \notin Divergent \/ managed.key = job.c)
  <2>1. ReportOnce(job.c) = [managed EXCEPT !.key = job.c, !.reports = Append(managed.reports, job.c)]
    BY <1>3 DEF ReportOnce
  <2>2. /\ Append(managed.reports, job.c) \in Seq(AllTargets)
        /\ Range(Append(managed.reports, job.c)) = Range(managed.reports) \cup {job.c}
    BY <1>1, QueueFacts DEF ManagedType
  <2>3. /\ ReportOnce(job.c) \in ManagedType /\ ReportOnce(job.c).divergent = managed.divergent
        /\ ReportOnce(job.c).key = job.c /\ ReportOnce(job.c).reports = Append(managed.reports, job.c)
    BY <1>1, <2>1, <2>2, Zenon DEF ManagedType
  <2> QED BY <2>2, <2>3
<1> QED BY <1>2, <1>3

\* Publishing sets the divergence flag of the release committed and forgets an old report.
LEMMA Publishing ==
    ASSUME LoaderType, WireType
    PROVE  /\ Publish(job.c) \in ManagedType
           /\ Publish(job.c).divergent = (job.c.v \in Divergent)
           /\ Publish(job.c).reports = managed.reports
           /\ Publish(job.c).key \in {managed.key, NoTarget}
<1>1. managed \in ManagedType
  BY DEF WireType, ManagedType
<1>2. (job.c.v \in Divergent) \in BOOLEAN
  OBVIOUS
<1> QED BY <1>1, <1>2, NoTargetType, Zenon DEF Publish, ManagedType

\* Every step keeps the manager's type.
LEMMA ManagedTypeStep ==
    ASSUME LoaderType, WireType, [ClientNext]_clientVars
    PROVE  managed' \in ManagedType
<1>1. managed \in ManagedType
  BY DEF WireType, ManagedType
<1> QED BY <1>1, ManagerSteps, Beginning, Reporting, Publishing
        DEF ManagerStep, ManagerIdles, ManagerBegins, ManagerReports, ManagerPublishes

\* Every step keeps the types of the wire and of the Node loader's own state.
LEMMA WireTypeStep ==
    ASSUME TableType, LoaderType, WireType, [ClientNext]_clientVars
    PROVE  WireType'
BY CandidateStep, StreamStep, InboxStep, OutboxStep, FlushStep, FailingStep, ManagedTypeStep,
   Zenon DEF WireType, Failings, ManagedType

\* Every step keeps the manager's guarantees: #prepareSnapshot refuses a restart-bound
\* change and reports a divergence before the candidate goes on to its commit.
LEMMA ManagedStep ==
    ASSUME LoaderType, WireType, ManagedInv, NeverColdSwapped, DivergenceReported, [ClientNext]_clientVars
    PROVE  ManagedInv' /\ NeverColdSwapped' /\ DivergenceReported'
<1>0. CASE sdk # "node"
  BY <1>0, ManagerSteps DEF ManagedInv, NeverColdSwapped, DivergenceReported
<1>1. CASE sdk = "node" /\ ManagerIdles
  <2>1. sdk' = "node" /\ managed' = managed /\ committed' = committed
        /\ (job'.stage \in Checked => job.stage \in Checked /\ job'.c = job.c)
        /\ (job'.stage = "prepare" => job.stage = "prepare")
    BY <1>1, ManagerSteps DEF ManagerIdles, KeepsChecked
  <2>2. NeverColdSwapped' /\ DivergenceReported'
    BY <1>1, <2>1 DEF NeverColdSwapped, DivergenceReported
  <2> QED BY <1>1, <2>1, <2>2 DEF ManagedInv, Checked, NeedsRestart, Differs
<1>2. CASE sdk = "node" /\ ManagerBegins
  <2>1. /\ sdk' = "node" /\ managed' = BeginPrepare /\ committed' = committed
        /\ job'.stage = "prepare"
    BY <1>2, ManagerSteps DEF ManagerBegins, LoaderType
  <2>2. /\ managed'.startup = (committed' = <<>>) /\ managed'.divergent = managed.divergent
        /\ managed'.key = managed.key /\ managed'.reports = managed.reports
    BY <2>1, Beginning
  <2>3. NeverColdSwapped'
    BY <1>2, <2>1, Zenon DEF NeverColdSwapped
  <2>4. DivergenceReported'
    BY <1>2, <2>1, <2>2 DEF DivergenceReported
  <2> QED BY <1>2, <2>1, <2>2, <2>3, <2>4 DEF ManagedInv
<1>3. CASE sdk = "node" /\ ManagerReports
  <2>1. /\ sdk' = "node" /\ managed' = ReportOnce(job.c) /\ committed' = committed /\ ~RestartRequired(job.c)
        /\ job'.c = job.c /\ job.stage = "prepare" /\ job'.stage = "check"
    BY <1>3, ManagerSteps DEF ManagerReports, LoaderType
  <2>2. managed'.divergent = managed.divergent /\ Range(managed.reports) \subseteq Range(managed'.reports)
    BY <2>1, Reporting
  <2>3. NeverColdSwapped'
    BY <1>3, <2>1, Zenon DEF NeverColdSwapped
  <2>4. DivergenceReported'
    BY <1>3, <2>1, <2>2 DEF DivergenceReported
  <2>5. /\ managed'.key.v # 0 => managed'.key \in Range(managed'.reports)
        /\ job.c.v \in Divergent => job.c \in Range(managed'.reports)
    <3>1. CASE managed' = managed /\ (job.c.v \in Divergent => managed.key = job.c)
      <4>1. job.c.v \in Divergent => job.c.v # 0
        BY NodeConstants, ReleaseStoreConstants DEF Versions
      <4> QED BY <1>3, <3>1, <4>1 DEF ManagedInv
    <3>2. CASE managed'.key = job.c /\ job.c \in Range(managed'.reports)
      BY <3>2
    <3> QED BY <2>1, <3>1, <3>2, Reporting
  <2>6. ~NeedsRestart(job.c)'
    BY <1>3, <2>1 DEF ManagedInv, RestartRequired, NeedsRestart, Differs
  <2> QED BY <2>1, <2>3, <2>4, <2>5, <2>6 DEF ManagedInv
<1>4. CASE sdk = "node" /\ ManagerPublishes
  <2>1. /\ sdk' = "node" /\ managed' = Publish(job.c) /\ committed' = Append(committed, job.c)
        /\ job.stage = "commit" /\ job'.stage = "applied"
    BY <1>4, ManagerSteps DEF ManagerPublishes, LoaderType
  <2>2. /\ managed'.divergent = (job.c.v \in Divergent) /\ managed'.reports = managed.reports
        /\ managed'.key \in {managed.key, NoTarget}
    BY <2>1, Publishing
  <2>3. ~NeedsRestart(job.c) /\ (job.c.v \in Divergent => job.c \in Range(managed.reports))
    BY <1>4, <2>1 DEF ManagedInv
  <2>4. ManagedInv'
    BY <1>4, <2>1, <2>2, NoTargetType DEF ManagedInv
  <2>5. /\ committed \in Seq(AllTargets) /\ job.c \in AllTargets
        /\ Len(committed) \in Nat /\ DOMAIN committed = 1..Len(committed)
        /\ DOMAIN committed' = 1..(Len(committed) + 1)
        /\ \A k \in 1..Len(committed) : committed'[k] = committed[k]
        /\ committed'[Len(committed) + 1] = job.c /\ Len(committed') = Len(committed) + 1
    BY <2>1 DEF LoaderType
  <2>6. \A k \in DOMAIN committed' : k \in DOMAIN committed \/ committed'[k] = job.c
    BY <2>5
  <2>7. NeverColdSwapped'
    <3>1. CASE committed = <<>>
      BY <2>5, <3>1 DEF NeverColdSwapped
    <3>2. CASE committed # <<>>
      <4>1. Len(committed) \in DOMAIN committed /\ 1 \in DOMAIN committed 
        BY <2>5, <3>2
      <4>2. (job.c.v \in Cold) = (committed[1].v \in Cold)
        BY <1>4, <2>3, <3>2, <4>1 DEF NeedsRestart, Differs, NeverColdSwapped
      <4>3. committed'[1] = committed[1]
        BY <2>5, <4>1
      <4> QED BY <1>4, <2>1, <2>5, <2>6, <4>2, <4>3 DEF NeverColdSwapped
    <3> QED BY <3>1, <3>2
  <2>8. DivergenceReported'
    <3>1. committed' # <<>> /\ committed'[Len(committed')] = job.c
      BY <2>5
    <3>2. \A k \in DOMAIN committed' : committed'[k].v \in Divergent => committed'[k] \in Range(managed'.reports)
      BY <1>4, <2>2, <2>3, <2>5, <2>6, Zenon DEF DivergenceReported
    <3> QED BY <2>1, <2>2, <3>1, <3>2 DEF DivergenceReported
  <2> QED BY <2>4, <2>7, <2>8
<1> QED BY <1>0, <1>1, <1>2, <1>3, <1>4, ManagerSteps DEF ManagerStep

-----------------------------------------------------------------------------
(* Acknowledgements and targets after a step.                              *)

Sending(a) ==
    \/ \E st \in AckStates : a = acks.pending[st] /\ a # NoAck
    \/ a \in Range(flush) \/ a \in considered[Self]
    \/ \E i \in StreamIds : a \in Range(inbox[i])

\* The acknowledgements sent, by where they are.
LEMMA SentIs == \A a : a \in Sent <=> Sending(a)
<1> TAKE a
<1> DEFINE P == {acks.pending[st] : st \in AckStates} \ {NoAck}
           I == UNION {Range(inbox[i]) : i \in StreamIds}
<1>1. a \in I <=> \E i \in StreamIds : a \in Range(inbox[i])
  OBVIOUS
<1>2. a \in P <=> \E st \in AckStates : a = acks.pending[st] /\ a # NoAck
  OBVIOUS
<1>3. Sent = P \cup Range(flush) \cup I \cup considered[Self]
  BY DEF Sent
<1> HIDE DEF P, I
<1> QED BY <1>1, <1>2, <1>3 DEF Sending

\* The same after a step.
LEMMA SentIsNext == \A a : a \in Sent' <=> Sending(a)'
<1> TAKE a
<1> DEFINE P == {acks'.pending[st] : st \in AckStates} \ {NoAck}
           I == UNION {Range(inbox'[i]) : i \in StreamIds}
<1>1. a \in I <=> \E i \in StreamIds : a \in Range(inbox'[i])
  OBVIOUS
<1>2. a \in P <=> \E st \in AckStates : a = acks'.pending[st] /\ a # NoAck
  OBVIOUS
<1>3. Sent' = P \cup Range(flush') \cup I \cup considered'[Self]
  BY DEF Sent
<1> HIDE DEF P, I
<1> QED BY <1>1, <1>2, <1>3 DEF Sending

\* A step sends at most one new acknowledgement, with the next sequence number, about the
\* call in flight; it says applied only if the step commits.
LEMMA SentStep ==
    ASSUME TableType, LoaderType, WireType, [ClientNext]_clientVars
    PROVE  /\ acks'.next >= acks.next /\ acks.next \in Nat /\ acks'.next \in Nat
           /\ \/ Sent' \subseteq Sent
              \/ /\ acks'.next = acks.next + 1 /\ job.stage \in Unsettled
                 /\ \E s \in AckStates :
                      /\ s = "applied" => committed' = Append(committed, job.c)
                      /\ Sent' \subseteq Sent \cup {NewAck(s)}
<1>1. LoaderStep /\ TableStep
  BY LoaderSteps, TableSteps DEF TableStep
<1>2. /\ Range(flush') \subseteq Sent
      /\ \A i \in StreamIds : Range(inbox'[i]) \subseteq Sent
  BY FlushStep, InboxStep
<1>3. considered'[Self] \subseteq Sent
  <2>1. \A a \in considered'[Self] :
           a \in considered[Self] \/ \E i \in StreamIds : a \in Range(inbox[i])
    BY <1>1, TableEffects DEF WireType
  <2> QED BY <2>1, SentIs DEF Sending
<1>4. \A a \in Sent' : a \in Sent \/ \E st \in AckStates : a = acks'.pending[st] /\ a # NoAck
  <2>1. \A a \in Sent' : \/ \E st \in AckStates : a = acks'.pending[st] /\ a # NoAck
                         \/ a \in Range(flush') \/ a \in considered'[Self]
                         \/ \E i \in StreamIds : a \in Range(inbox'[i])
    BY SentIsNext DEF Sending
  <2> QED BY <1>2, <1>3, <2>1
<1>5. \A st \in AckStates : acks.pending[st] # NoAck => acks.pending[st] \in Sent
  BY SentIs DEF Sending
<1>6. acks.next \in Nat /\ acks'.next \in Nat /\ acks'.next >= acks.next
  BY <1>1, AcksStep DEF LoaderType
<1>7. CASE \A st \in AckStates : acks'.pending[st] \in {acks.pending[st], NoAck}
  <2>1. Sent' \subseteq Sent
    BY <1>4, <1>5, <1>7
  <2> QED BY <1>6, <2>1
<1>8. ASSUME acks'.next = acks.next + 1, job.stage \in Unsettled, NEW s \in AckStates,
             s = "applied" => committed' = Append(committed, job.c),
             \A st \in AckStates : acks'.pending[st] = IF st = s THEN NewAck(s) ELSE acks.pending[st]
      PROVE  Sent' \subseteq Sent \cup {NewAck(s)}
  BY <1>4, <1>5, <1>8
<1> QED BY <1>1, <1>6, <1>7, <1>8, AcksStep

\* A new acknowledgement is about the call's target, under the next sequence number.
LEMMA NewAckRow ==
    ASSUME LoaderType, NEW s \in AckStates
    PROVE  /\ TargetRow(NewAck(s)) = job.c /\ NewAck(s).seq = acks.next /\ NewAck(s).v = job.c.v
           /\ NewAck(s).state = s
<1>1. job.c \in AllTargets
  BY DEF LoaderType
<1>2. TargetRow(NewAck(s)) = [rev |-> job.c.rev, v |-> job.c.v, act |-> job.c.act]
  BY DEF TargetRow, NewAck
<1>3. [rev |-> job.c.rev, v |-> job.c.v, act |-> job.c.act] = job.c
  BY <1>1 DEF AllTargets
<1> QED BY <1>2, <1>3 DEF NewAck

\* What was sent is acknowledgements.
LEMMA SentType ==
    ASSUME TableType, LoaderType, WireType
    PROVE  Sent \subseteq AllAcks
<1>1. considered[Self] \subseteq AllAcks
  BY SelfIsSession DEF TableType
<1>2. Range(flush) \subseteq AllAcks /\ \A i \in StreamIds : Range(inbox[i]) \subseteq AllAcks
  BY RangeInSet DEF WireType
<1>3. \A st \in AckStates : acks.pending[st] \in AllAcks \cup {NoAck}
  BY DEF LoaderType
<1> QED BY <1>1, <1>2, <1>3, SentIs DEF Sending

\* Every step keeps one acknowledgement per sequence number.
LEMMA SequenceStep ==
    ASSUME TableType, LoaderType, WireType, SequenceInv, OrderInv, [ClientNext]_clientVars
    PROVE  SequenceInv'
<1>1. acks'.next >= acks.next /\ acks.next \in Nat /\ acks'.next \in Nat
  BY SentStep
<1>2. \A a \in Sent : a.seq \in Nat /\ a.seq < acks.next /\ a.v # 0
  BY SentType DEF AllAcks, SequenceInv
<1>3. CASE Sent' \subseteq Sent
  <2>1. \A a \in Sent' : a.seq < acks'.next /\ a.v # 0
    BY <1>1, <1>2, <1>3
  <2>2. \A a, b \in Sent' : a.seq = b.seq => a = b
    BY <1>3 DEF SequenceInv
  <2> QED BY <2>1, <2>2 DEF SequenceInv
<1>4. ASSUME acks'.next = acks.next + 1, job.stage \in Unsettled, NEW s \in AckStates,
             Sent' \subseteq Sent \cup {NewAck(s)}
      PROVE  SequenceInv'
  <2>1. NewAck(s).seq = acks.next /\ NewAck(s).v # 0
    BY <1>4, NewAckRow DEF OrderInv, Unsettled
  <2>2. \A a \in Sent' : a.seq < acks'.next /\ a.v # 0
    BY <1>1, <1>2, <1>4, <2>1
  <2>3. \A a, b \in Sent' : a.seq = b.seq => a = b
    <3> SUFFICES ASSUME NEW a \in Sent', NEW b \in Sent', a.seq = b.seq PROVE a = b
      OBVIOUS
    <3>1. CASE a \in Sent /\ b \in Sent
      BY <3>1 DEF SequenceInv
    <3>2. CASE a = NewAck(s) /\ b \in Sent
      BY <1>1, <1>2, <2>1, <3>2
    <3>3. CASE b = NewAck(s) /\ a \in Sent
      BY <1>1, <1>2, <2>1, <3>3
    <3> QED BY <1>4, <3>1, <3>2, <3>3
  <2> QED BY <2>2, <2>3 DEF SequenceInv
<1> QED BY <1>3, <1>4, SentStep

\* A step appends the call's target to the commits or leaves them.
LEMMA CommittedGrows ==
    ASSUME LoaderType, LoaderStep
    PROVE  /\ committed' = committed \/ committed' = Append(committed, job.c)
           /\ Range(committed) \subseteq Range(committed')
           /\ committed' = Append(committed, job.c) => job.c \in Range(committed')
<1>1. committed \in Seq(AllTargets) /\ job.c \in AllTargets
  BY DEF LoaderType
<1>2. Range(Append(committed, job.c)) = Range(committed) \cup {job.c}
  BY <1>1, QueueFacts
<1>3. committed' = committed \/ committed' = Append(committed, job.c)
  BY DEF LoaderStep, LoaderIdles, LoaderQueues, LoaderSettles, LoaderMoves, LoaderCommits
<1> QED BY <1>2, <1>3, Zenon

\* Every step keeps applied acknowledgements behind their commits.
LEMMA AppliedStep ==
    ASSUME TableType, LoaderType, WireType, AppliedInv, [ClientNext]_clientVars
    PROVE  AppliedInv'
<1>1. /\ Range(committed) \subseteq Range(committed')
      /\ committed' = Append(committed, job.c) => job.c \in Range(committed')
  BY LoaderSteps, CommittedGrows
<1>2. \A a \in Sent : a.state = "applied" => TargetRow(a) \in Range(committed')
  BY <1>1 DEF AppliedInv
<1>3. CASE Sent' \subseteq Sent
  BY <1>2, <1>3 DEF AppliedInv
<1>4. ASSUME NEW s \in AckStates, s = "applied" => committed' = Append(committed, job.c),
             Sent' \subseteq Sent \cup {NewAck(s)}
      PROVE  AppliedInv'
  <2>1. NewAck(s).state = "applied" => TargetRow(NewAck(s)) \in Range(committed')
    BY <1>1, <1>4, NewAckRow
  <2> QED BY <1>2, <1>4, <2>1 DEF AppliedInv
<1> QED BY <1>3, <1>4, SentStep

\* What the session has had is targets.
LEMMA SeenType ==
    ASSUME TableType, LoaderType, WireType
    PROVE  Seen \subseteq AllTargets
<1>1. {TargetRow(a) : a \in Sent} \subseteq AllTargets
  <2>1. \A a \in AllAcks : TargetRow(a) \in AllTargets
    BY DEF TargetRow, AllAcks, AllTargets
  <2> QED BY <2>1, SentType
<1>2. {main.latest, main.pending, main.fresh, job.c, candidate} \subseteq AllTargets
  BY DEF LoaderType, WireType
<1>3. {g.fresh : g \in failing} \subseteq AllTargets
  BY DEF WireType
<1>4. deliv[Self] \subseteq AllTargets
  BY SelfIsSession DEF TableType
<1>5. UNION {Range(outbox[i]) \cap AllTargets : i \in StreamIds} \subseteq AllTargets
  OBVIOUS
<1>6. Heard \subseteq AllTargets
  <2> DEFINE A == {main.latest, main.pending, main.fresh, job.c, candidate}
             B == {g.fresh : g \in failing}
             C == UNION {Range(outbox[i]) \cap AllTargets : i \in StreamIds}
  <2>1. Heard = A \cup B \cup C \cup deliv[Self]
    BY DEF Heard
  <2>2. A \subseteq AllTargets /\ B \subseteq AllTargets
    BY <1>2, <1>3
  <2>3. C \subseteq AllTargets
    BY <1>5
  <2> HIDE DEF A, B, C
  <2> QED BY <1>4, <2>1, <2>2, <2>3
<1> QED BY <1>1, <1>6 DEF Seen

\* The targets of the main loop and of its call were known, or are none.
LEMMA LoaderKnows ==
    ASSUME TableType, LoaderType, LoaderStep
    PROVE  \A x \in {main'.latest, main'.pending, main'.fresh, job'.c} : x = NoTarget \/ Known(x)
<1>0. /\ Known(main.latest) /\ Known(main.pending) /\ Known(main.fresh) /\ Known(job.c)
      /\ NoJob.c = NoTarget
  BY DEF Known, Heard, NoJob
<1>1. CASE LoaderIdles
  BY <1>0, <1>1, Idling, Zenon DEF Known
<1>2. CASE LoaderQueues
  <2>1. PICK c \in AllTargets : Known(c) /\ Queue(c)
    BY <1>2 DEF LoaderQueues
  <2>2. CASE ~ShouldQueue(c)
    BY <1>0, <2>1, <2>2, QueuesNot
  <2>3. CASE ShouldQueue(c) /\ job = NoJob
    BY <1>0, <2>1, <2>3, QueuesFirst, Zenon
  <2>4. CASE ShouldQueue(c) /\ job # NoJob
    BY <1>0, <2>1, <2>4, QueuesNext, Zenon
  <2> QED BY <2>2, <2>3, <2>4
<1>3. CASE LoaderSettles
  <2>1. /\ main'.latest = main.latest /\ main'.pending \in {main.pending, NoTarget}
        /\ job'.c \in {main.pending, NoTarget}
        /\ main'.fresh = main.fresh \/ (Self \in live /\ main'.fresh = TargetOf(Self))
    BY <1>0, <1>3, Settling, Zenon
  <2> QED BY <1>0, <2>1 DEF Known
<1>4. CASE LoaderMoves \/ LoaderCommits
  BY <1>0, <1>4, Moving
<1> QED BY <1>1, <1>2, <1>3, <1>4 DEF LoaderStep

Hearing(x) ==
    \/ x \in {main.latest, main.pending, main.fresh, job.c, candidate}
    \/ \E g \in failing : x = g.fresh
    \/ \E i \in StreamIds : x \in Range(outbox[i]) \cap AllTargets
    \/ x \in deliv[Self]

\* The targets held after a step, by where they are.
LEMMA HeardIsNext == \A x \in Heard' : Hearing(x)'
<1> TAKE x \in Heard'
<1> DEFINE A == {main'.latest, main'.pending, main'.fresh, job'.c, candidate'}
           B == {g.fresh : g \in failing'}
           C == UNION {Range(outbox'[i]) \cap AllTargets : i \in StreamIds}
<1>1. Heard' = A \cup B \cup C \cup deliv'[Self]
  BY DEF Heard
<1>2. x \in B => \E g \in failing' : x = g.fresh
  OBVIOUS
<1>3. x \in C => \E i \in StreamIds : x \in Range(outbox'[i]) \cap AllTargets
  OBVIOUS
<1> HIDE DEF A, B, C
<1>4. x \in A \/ x \in B \/ x \in C \/ x \in deliv'[Self]
  BY <1>1
<1> QED BY <1>2, <1>3, <1>4 DEF A, Hearing

\* A target after a step is one from before, or the session's before or after it.
Comes(x) ==
    \/ x.v = 0 \/ x \in Seen
    \/ Self \in live /\ x = TargetOf(Self)
    \/ Self \in live' /\ x = TargetOf(Self)'

\* A target held after a step was held before it or is the session's target.
LEMMA SeenComes ==
    ASSUME TableType, LoaderType, WireType, [ClientNext]_clientVars
    PROVE  \A x \in Seen' : Comes(x)
<1>1. LoaderStep /\ TableStep
  BY LoaderSteps, TableSteps DEF TableStep
<1>2. \A x : x = NoTarget \/ Known(x) => Comes(x)
  BY NoTargetType DEF Known, Comes, Seen
<1>3. ASSUME NEW x \in Heard' PROVE Comes(x)
  <2>1. CASE x \in {main'.latest, main'.pending, main'.fresh, job'.c}
    BY <1>1, <1>2, <2>1, LoaderKnows
  <2>2. CASE x = candidate'
    BY <1>2, <2>2, CandidateStep DEF Known
  <2>3. CASE \E g \in failing' : x = g.fresh
    BY <1>2, <2>3, FailingStep
  <2>4. CASE \E i \in StreamIds : x \in Range(outbox'[i]) \cap AllTargets
    BY <1>2, <2>4, OutboxStep
  <2>5. CASE x \in deliv'[Self]
    <3>1. x \in deliv[Self] \/ (Self \in live' /\ x = TargetOf(Self)')
      BY <1>1, <2>5, TableEffects DEF WireType
    <3>2. x \in deliv[Self] => x \in Seen
      BY Zenon DEF Seen, Heard
    <3> QED BY <3>1, <3>2 DEF Comes
  <2> QED BY <2>1, <2>2, <2>3, <2>4, <2>5, HeardIsNext DEF Hearing
<1>4. ASSUME NEW a \in Sent' PROVE Comes(TargetRow(a))
  <2>1. CASE a \in Sent
    BY <2>1 DEF Comes, Seen
  <2>2. CASE \E s \in AckStates : a = NewAck(s)
    <3>1. TargetRow(a) = job.c
      BY <2>2, NewAckRow
    <3>2. job.c \in Seen
      BY DEF Seen, Heard
    <3> QED BY <3>1, <3>2 DEF Comes
  <2> QED BY <2>1, <2>2, SentStep
<1>5. \A x \in Seen' : x \in Heard' \/ \E a \in Sent' : x = TargetRow(a)
  BY DEF Seen, TargetRow
<1> QED BY <1>3, <1>4, <1>5

\* The session's target after a step is a target.
LEMMA TargetTypeNext ==
    ASSUME TableType'
    PROVE  TargetOf(Self)' \in AllTargets
BY SelfIsSession DEF TableType, TargetOf, Target, MaxOf, AllTargets

\* Every step keeps one target per revision: the session's target changes only with a
\* revision above all before it.
LEMMA SeenStep ==
    ASSUME TableType, LoaderType, WireType, SeenInv, [ClientNext]_clientVars
    PROVE  SeenInv'
<1>1. TableStep /\ (run' = "starting" => run = "starting")
  BY TableSteps DEF TableStep
<1>2. TableType'
  BY <1>1, TableTypeStep DEF WireType
<1>3. /\ TargetOf(Self).rev \in Nat /\ TargetOf(Self)'.rev \in Nat
      /\ \A x \in Seen : x.rev \in Nat
  BY <1>2, TargetType, TargetTypeNext, SeenType DEF AllTargets
<1> DEFINE t == TargetOf(Self)
           n == TargetOf(Self)'
<1>4. Self \in live' => \/ Self \in live /\ n = t
                        \/ Self \in live /\ n.rev > t.rev
                        \/ run = "starting" /\ run' # "starting"
  BY <1>1, TableEffects DEF WireType
<1>5. /\ \A x, y \in Seen : Agree(x, y)
      /\ Self \in live => \A x \in Seen : Fits(x, t)
      /\ run = "starting" => Self \notin live /\ \A x \in Seen : x.v = 0
      /\ \A d \in deliv[Self] : d.v # 0
  BY DEF SeenInv
<1>6. \A x \in Seen' : \/ x.v = 0 \/ x \in Seen
                       \/ Self \in live /\ x = t
                       \/ Self \in live' /\ x = n
  BY SeenComes DEF Comes
<1>7. t.rev \in Nat /\ n.rev \in Nat
  BY <1>3
<1> HIDE DEF t, n
<1>8. ASSUME Self \in live', NEW x \in Seen' PROVE Fits(x, n)
  <2>1. CASE Self \in live /\ n = t
    BY <1>5, <1>6, <1>7, <2>1 DEF Fits
  <2>2. CASE Self \in live /\ n.rev > t.rev
    BY <1>3, <1>5, <1>6, <1>7, <2>2 DEF Fits
  <2>3. CASE run = "starting"
    BY <1>5, <1>6, <1>7, <2>3 DEF Fits
  <2> QED BY <1>4, <1>8, <2>1, <2>2, <2>3
<1>9. ASSUME NEW x \in Seen', NEW y \in Seen' PROVE Agree(x, y)
  <2>1. CASE Self \in live'
    <3>1. Fits(x, n) /\ Fits(y, n)
      BY <1>8, <2>1
    <3>2. ASSUME NEW z \in Seen' PROVE z.v = 0 \/ z \in Seen \/ (Self \in live /\ z = t) \/ z = n
      BY <1>6
    <3>3. CASE x = n \/ y = n
      BY <3>1, <3>3 DEF Fits, Agree
    <3>4. CASE x # n /\ y # n
      BY <1>5, <3>2, <3>4 DEF Fits, Agree
    <3> QED BY <3>3, <3>4
  <2>2. CASE Self \notin live'
    BY <1>5, <1>6, <2>2 DEF Fits, Agree
  <2> QED BY <2>1, <2>2
<1>10. run' = "starting" => Self \notin live' /\ \A x \in Seen' : x.v = 0
  BY <1>1, <1>4, <1>5, <1>6
<1>11. \A d \in deliv'[Self] : d.v # 0
  BY <1>1, <1>5, TableEffects DEF WireType
<1> QED BY <1>8, <1>9, <1>10, <1>11, Zenon DEF SeenInv, n

\* The server refuses an acknowledgement for good only if it contradicts an earlier one
\* or a row, and then two of what was sent would share a sequence or a revision.
LEMMA NeverRefused ==
    ASSUME TableType, LoaderType, WireType, SeenInv, SequenceInv, NEW i \in StreamIds, inbox[i] # <<>>
    PROVE  /\ ~\E e \in events[Self] : e.seq = Head(inbox[i]).seq /\ e # Head(inbox[i])
           /\ TargetRow(Head(inbox[i])) \notin deliv[Self] =>
                ~\E d \in deliv[Self] : d.rev = Head(inbox[i]).rev
<1> DEFINE a == Head(inbox[i])
<1>1. a \in Range(inbox[i])
  BY QueueFacts DEF WireType
<1>2. a \in Sent
  BY <1>1, SentIs DEF Sending
<1>3. \A e \in events[Self] : e \in Sent
  BY SentIs DEF TableType, Sending
<1>4. TargetRow(a) \in Seen /\ \A d \in deliv[Self] : d \in Seen /\ d.v # 0
  BY <1>2, Zenon DEF Seen, Heard, SeenInv
<1>5. a.v # 0 /\ TargetRow(a).rev = a.rev /\ TargetRow(a).v = a.v
  BY <1>2, Zenon DEF SequenceInv, TargetRow
<1> HIDE DEF a
<1>6. \A e \in events[Self] : e.seq = a.seq => e = a
  BY <1>2, <1>3 DEF SequenceInv
<1>7. \A d \in deliv[Self] : d.rev = a.rev => d = TargetRow(a)
  BY <1>4, <1>5, Zenon DEF SeenInv, Agree
<1> QED BY <1>6, <1>7 DEF a

Fails == run # "failed" /\ run' = "failed"

\* Every step keeps the loader from failing while it has its session: the reducer knows
\* every sequence number it is sent under one payload, and every target it is about.
LEMMA FailsStep ==
    ASSUME TableType, LoaderType, WireType, SeenInv, SequenceInv, FailsOnlyWithoutSession,
           [ClientNext]_clientVars
    PROVE  FailsOnlyWithoutSession'
<1>1. CASE run = "failed"
  <2>1. Self \in live' => Self \in live \/ run = "starting"
    BY TableSteps, TableEffects DEF TableStep, WireType
  <2> QED BY <1>1, <2>1 DEF FailsOnlyWithoutSession
<1>2. ASSUME Fails PROVE Self \notin live /\ live' = live
  <2>1. ASSUME NEW i \in StreamIds, ServeAck(i) PROVE FALSE
    <3>1. inbox[i] # <<>>
      BY <2>1, Zenon DEF ServeAck
    <3>2. run' = run
      BY <2>1, <3>1, NeverRefused, Zenon DEF ServeAck
    <3> QED BY <1>2, <3>2 DEF Fails
  <2>2. CASE Go /\ Loader
    <3>1. CASE Start \/ ReadInitial \/ StartFails \/ TakeCandidate \/ Reconcile \/ TakeFresh \/ TakeResult
      BY <1>2, <3>1 DEF Fails, Start, ReadInitial, StartFails, TakeCandidate, Reconcile, TakeFresh, TakeResult
    <3>2. CASE Job
      BY <1>2, <3>2 DEF Fails, Job, Resolve, Prepare, CheckActive, CheckGone, Commit, Rejects
    <3>3. CASE StartupFails \/ SendPendingAcks \/ Receive \/ LoseStream \/ Stop
      BY <1>2, <3>3 DEF Fails, StartupFails, SendPendingAcks, Receive, LoseStream, Stop
    <3>4. CASE WatchSession
      BY <1>2, <3>4 DEF Fails, WatchSession, vars, sessionVars
    <3> QED BY <2>2, <3>1, <3>2, <3>3, <3>4 DEF Loader
  <2>3. CASE Node /\ NodeStep
    <3>1. CASE NodeStart \/ ReconcileReads \/ ReconcileOffers \/ CandidateSettles \/ StopRun \/ RunEnds
      BY <1>2, <3>1 DEF Fails, NodeStart, Start, ReadInitial, StartFails, ReconcileReads, Reconcile,
                        ReconcileOffers, CandidateSettles, StopRun, RunEnds
    <3>2. CASE Startup \/ SendAck \/ ReceiveEvent \/ StreamEnds
      BY <1>2, <3>2, Zenon DEF Fails, Startup, StartupReads, StartupOffers, StartupGivesUp, SendAck, ReceiveEvent,
                        StreamEnds, LoseStream
    <3>3. CASE Candidate
      BY <1>2, <3>3 DEF Fails, Candidate, ResolveCandidate, PrepareSnapshot, ActiveAnswers, ActiveFails,
                        CommitPrepared, CandidateFails, Reject
    <3>4. CASE WatchRelease
      BY <1>2, <3>4 DEF Fails, WatchRelease, vars, sessionVars
    <3> QED BY <2>3, <3>1, <3>2, <3>3, <3>4 DEF NodeStep
  <2>4. CASE Either /\ (Operate \/ Server)
    BY <1>2, <2>1, <2>4 DEF Fails, Operate, Server, SendTarget, EndStream, ServerRestart, loaderVars
  <2>5. CASE UNCHANGED clientVars
    BY <1>2, <2>5 DEF Fails, clientVars, nodeLoaderVars, rolloutVars, loaderVars
  <2> QED BY <2>2, <2>3, <2>4, <2>5 DEF ClientNext
<1> QED BY <1>1, <1>2 DEF Fails, FailsOnlyWithoutSession

-----------------------------------------------------------------------------
(* The inductive invariant, and the theorems.                              *)

\* The inductive invariant holds before the loader registers.
LEMMA StartsWell ==
    ASSUME ClientInit
    PROVE  IInv
<1>0. NodeInit /\ RolloutInit /\ SessionInit
  BY Zenon DEF ClientInit, NodeInit, RolloutInit
<1>01. /\ rev = 0 /\ rels = [v \in Versions |-> {}] /\ current = NoLabel
       /\ candidate = NoTarget /\ stream = 0 /\ flush = <<>> /\ failing = {}
       /\ inbox = [i \in StreamIds |-> <<>>] /\ outbox = [i \in StreamIds |-> <<>>]
       /\ managed = [startup |-> TRUE, divergent |-> FALSE, key |-> NoTarget, reports |-> <<>>]
  BY <1>0, Zenon DEF RolloutInit, NodeInit
<1>02. /\ opened = 0 /\ pin = [s \in Sessions |-> NoPin] /\ deliv = [s \in Sessions |-> {}]
       /\ events = [s \in Sessions |-> {}] /\ considered = [s \in Sessions |-> {}]
  BY <1>0, Zenon DEF SessionInit
<1>1. TableType
  <2>1. DOMAIN rels \subseteq Nat \ {0} /\ current \in [v : Nat, act : Nat] /\ current.act <= rev
    BY <1>01, ReleaseStoreConstants DEF NoLabel, Versions
  <2>2. pin \in [Sessions -> [v : Nat, rev : Nat]] /\ pin[Self].rev <= rev
    BY <1>01, <1>02, SelfIsSession DEF NoPin
  <2>3. /\ deliv \in [Sessions -> SUBSET AllTargets]
        /\ events \in [Sessions -> SUBSET AllAcks]
        /\ considered \in [Sessions -> SUBSET AllAcks] /\ events[Self] \subseteq considered[Self]
    BY <1>02, SelfIsSession
  <2> QED BY <1>01, <1>02, <2>1, <2>2, <2>3 DEF TableType
<1>2. LoaderType
  <2>1. main \in Main /\ job \in JobType /\ committed \in Seq(AllTargets)
    BY <1>0, NoTargetType DEF RolloutInit, NoJob, Main, JobType, Stages
  <2>2. [st \in AckStates |-> NoAck] \in [AckStates -> AllAcks \cup {NoAck}]
    OBVIOUS
  <2>3. acks = [next |-> 1, pending |-> [st \in AckStates |-> NoAck], dirty |-> {}]
    BY <1>0, Zenon DEF RolloutInit
  <2>4. \A st \in AckStates : acks.pending[st] = NoAck
    BY <2>3
  <2>5. acks \in [next : Nat, pending : [AckStates -> AllAcks \cup {NoAck}], dirty : SUBSET AckStates]
    BY <2>2, <2>3
  <2> QED BY <2>1, <2>4, <2>5 DEF LoaderType, Main, JobType
<1>3. WireType
  <2>1. inbox \in [StreamIds -> Seq(AllAcks)] /\ outbox \in [StreamIds -> Seq(AllAcks \cup AllTargets)]
    BY <1>01
  <2>2. managed \in [startup : BOOLEAN, divergent : BOOLEAN, key : AllTargets, reports : Seq(AllTargets)]
    BY <1>01, NoTargetType
  <2> QED BY <1>01, <2>1, <2>2, NoTargetType DEF WireType
<1>4. Sent = {}
  <2>1. /\ \A st \in AckStates : acks.pending[st] = NoAck
        /\ flush = <<>> /\ considered[Self] = {} /\ \A i \in StreamIds : inbox[i] = <<>>
    <3>1. acks.pending = [st \in AckStates |-> NoAck]
      BY <1>0 DEF RolloutInit
    <3> QED BY <1>01, <1>02, <3>1, SelfIsSession
  <2>2. Range(<<>>) = {}
    BY DEF Range
  <2> QED BY <2>1, <2>2, SentIs DEF Sending
<1>5. \A x \in Seen : x = NoTarget
  <2>1. main.latest = NoTarget /\ main.pending = NoTarget /\ main.fresh = NoTarget
        /\ job.c = NoTarget /\ candidate = NoTarget
    BY <1>0 DEF RolloutInit, NoJob
  <2>2. failing = {} /\ deliv[Self] = {} /\ \A i \in StreamIds : Range(outbox[i]) = {}
    BY <1>01, <1>02, SelfIsSession DEF Range
  <2>3. UNION {Range(outbox[i]) \cap AllTargets : i \in StreamIds} = {}
    BY <2>2
  <2>4. \A x \in Heard : x = NoTarget
    BY <2>1, <2>2, <2>3 DEF Heard
  <2> QED BY <1>4, <2>4 DEF Seen
<1>6. /\ run = "starting" /\ live = {} /\ committed = <<>> /\ job = NoJob /\ deliv[Self] = {}
      /\ main.latest = NoTarget /\ main.pending = NoTarget /\ main.retry = FALSE
  BY <1>0, SelfIsSession DEF RolloutInit, SessionInit
<1>7. SeenInv
  BY <1>5, <1>6, NoTargetType DEF SeenInv, Agree
<1>8. SequenceInv /\ AppliedInv
  BY <1>4 DEF SequenceInv, AppliedInv
<1>9. OrderInv
  BY <1>6 DEF OrderInv, NoJob
<1>10. ManagedInv /\ NeverColdSwapped /\ DivergenceReported
  <2>1. managed.key = NoTarget /\ managed.divergent = FALSE /\ job.stage = "none"
    BY <1>0, <1>6 DEF NodeInit, NoJob
  <2>2. ManagedInv
    BY <2>1, NoTargetType DEF ManagedInv
  <2>3. NeverColdSwapped
    BY <1>6 DEF NeverColdSwapped
  <2>4. managed.divergent = (committed # <<>> /\ committed[Len(committed)].v \in Divergent)
    BY <1>6, <2>1, Zenon
  <2>5. DOMAIN committed = {}
    BY <1>6
  <2>6. DivergenceReported
    BY <2>4, <2>5 DEF DivergenceReported
  <2> QED BY <2>2, <2>3, <2>6
<1>11. FailsOnlyWithoutSession
  BY <1>6 DEF FailsOnlyWithoutSession
<1> QED BY <1>1, <1>2, <1>3, <1>7, <1>8, <1>9, <1>10, <1>11 DEF IInv

\* Every step keeps the inductive invariant.
LEMMA GoesOnWell ==
    ASSUME IInv, [ClientNext]_clientVars
    PROVE  IInv'
<1> USE DEF IInv
<1>1. TableStep /\ LoaderStep
  BY TableSteps, LoaderSteps DEF TableStep
<1>2. TableType'
  BY <1>1, TableTypeStep DEF WireType
<1>3. LoaderType' /\ OrderInv'
  BY <1>1, LoaderTypeStep, OrderStep
<1>4. WireType'
  BY WireTypeStep
<1>5. SeenInv'
  BY SeenStep
<1>6. SequenceInv' /\ AppliedInv'
  BY SequenceStep, AppliedStep
<1>7. ManagedInv' /\ NeverColdSwapped' /\ DivergenceReported'
  BY ManagedStep
<1>8. FailsOnlyWithoutSession'
  BY FailsStep
<1> QED BY <1>2, <1>3, <1>4, <1>5, <1>6, <1>7, <1>8

\* The inductive invariant of a release's clients: the types, the targets and sequence
\* numbers in flight, the order of commits, the manager's state and the loader's failures.
THEOREM Invariance == ClientSpec => []IInv
<1>1. ClientInit => IInv
  BY StartsWell
<1>2. IInv /\ [ClientNext]_clientVars => IInv'
  BY GoesOnWell
<1> QED BY <1>1, <1>2, PTL DEF ClientSpec

\* A managed process never runs a release that differs in a restart-bound field from the
\* one it started with (#prepareSnapshot).
THEOREM ColdFieldsKept == ClientSpec => []NeverColdSwapped
<1>1. IInv => NeverColdSwapped
  BY DEF IInv
<1> QED BY <1>1, Invariance, PTL

\* The operator is told of a divergence before the process runs it, for every target
\* anew, and the manager's flag is the running release's (#reportOnce).
THEOREM ToldOfDivergence == ClientSpec => []DivergenceReported
<1>1. IInv => DivergenceReported
  BY DEF IInv
<1> QED BY <1>1, Invariance, PTL

\* No replay, retry or pruning makes the reducer refuse the loader's acknowledgements:
\* the loader fails for good only with its session gone.
THEOREM FailsOnlyAlone == ClientSpec => []FailsOnlyWithoutSession
<1>1. IInv => FailsOnlyWithoutSession
  BY DEF IInv
<1> QED BY <1>1, Invariance, PTL

\* Commit is a step of the process alone: the server records nothing in it.
LEMMA CommitLeavesTables ==
    ASSUME [ClientNext]_clientVars, committed' # committed
    PROVE  considered' = considered
<1>1. CASE Go /\ Loader
  <2>1. CASE Job
    BY <2>1 DEF Job, Resolve, Prepare, CheckActive, CheckGone, Commit, Rejects, vars, sessionVars, ackVars
  <2> QED BY <1>1, <2>1 DEF Loader, Start, ReadInitial, StartFails, TakeCandidate, Reconcile, TakeFresh,
       TakeResult, StartupFails, WatchSession, SendPendingAcks, Receive, LoseStream, Stop
<1>2. CASE Node /\ NodeStep
  <2>1. CASE Candidate
    BY <2>1 DEF Candidate, ResolveCandidate, PrepareSnapshot, ActiveAnswers, ActiveFails, CommitPrepared,
                CandidateFails, Reject, vars, sessionVars, ackVars
  <2> QED BY <1>2, <2>1, Zenon DEF NodeStep, NodeStart, Start, ReadInitial, StartFails, ReconcileReads, Reconcile,
       ReconcileOffers, CandidateSettles, Startup, StartupReads, StartupOffers, StartupGivesUp, StopRun,
       RunEnds, WatchRelease, SendAck, ReceiveEvent, StreamEnds, LoseStream
<1>3. CASE Either /\ (Operate \/ Server)
  BY <1>3, Zenon DEF Operate, Server, SendTarget, ServeAck, EndStream, ServerRestart, loaderVars
<1>4. CASE UNCHANGED clientVars
  BY <1>4 DEF clientVars, nodeLoaderVars, rolloutVars, loaderVars
<1> QED BY <1>1, <1>2, <1>3, <1>4 DEF ClientNext

\* A step hands the application the next target, or leaves what it was handed alone
\* and has the server show nothing else as applied.
LEMMA PromiseStep ==
    ASSUME IInv, IInv', [ClientNext]_clientVars
    PROVE  [Promise!Next]_<<committed, ShownApplied>>
<1> USE DEF IInv
<1>1. LoaderStep
  BY LoaderSteps
<1>2. CASE LoaderCommits
  <2>1. /\ committed \in Seq(AllTargets) /\ job.c \in AllTargets /\ committed' = Append(committed, job.c)
        /\ Before(job.c)
    BY <1>2 DEF LoaderCommits, LoaderType, OrderInv
  <2>2. /\ Len(committed') = Len(committed) + 1 /\ Len(committed) \in Nat
        /\ committed'[Len(committed) + 1] = job.c
    BY <2>1
  <2>3. considered' = considered
    <3>1. committed' # committed
      BY <2>2
    <3> QED BY <3>1, CommitLeavesTables
  <2>4. ShownApplied' = ShownApplied
    BY <2>3 DEF ShownApplied, TargetRow
  <2>5. Promise!Commit
    BY <2>1, <2>2, <2>4 DEF Promise!Commit, Before
  <2> QED BY <2>5 DEF Promise!Next
<1>3. CASE ~LoaderCommits
  <2>1. committed' = committed
    BY <1>1, <1>3 DEF LoaderStep, LoaderIdles, LoaderQueues, LoaderSettles, LoaderMoves
  <2>2. \A a \in considered'[Self] : a \in Sent'
    BY SentIsNext DEF Sending
  <2>3. ShownApplied' \subseteq Range(committed')
    BY <2>2 DEF ShownApplied, AppliedInv
  <2>4. Promise!Report
    BY <2>1, <2>3 DEF Promise!Report, Range
  <2> QED BY <2>4 DEF Promise!Next
<1> QED BY <1>2, <1>3

\* Both loaders keep LoaderContract: Commit is called for targets of rising revisions,
\* and the server shows nothing as applied that Commit was not called for before.
THEOREM ContractKept == ClientSpec => KeepsContract
<1>1. ClientInit => Promise!Init
  <2> SUFFICES ASSUME ClientInit PROVE Promise!Init
    OBVIOUS
  <2>1. committed = <<>> /\ considered[Self] = {}
    BY SelfIsSession DEF ClientInit, NodeInit, RolloutInit, SessionInit
  <2>2. ShownApplied = {}
    BY <2>1 DEF ShownApplied
  <2> QED BY <2>1, <2>2 DEF Promise!Init
<1>2. IInv /\ IInv' /\ [ClientNext]_clientVars => [Promise!Next]_<<committed, ShownApplied>>
  BY PromiseStep
<1> QED BY <1>1, <1>2, Invariance, PTL DEF ClientSpec, KeepsContract, Promise!Spec
===============================================================================
