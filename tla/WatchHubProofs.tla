---------------------------- MODULE WatchHubProofs ----------------------------
(***************************************************************************)
(* Proofs about WatchHub for any number of clients, namespaces and         *)
(* revisions and any page, buffer and replay limit.                        *)
(*                                                                         *)
(* The argument.  Done(c, r) says the hub has finished with row r as far   *)
(* as stream c is concerned: its cursor passed r, or r is the row being    *)
(* dispatched and c is no longer (or never was) in the registry copy.      *)
(* Everything offered to a stream is Done, and every Done row above the    *)
(* revision the stream's backlog covers was offered to it: CurrentRevision *)
(* is read after the registration, so a row above it is dispatched to a    *)
(* registry copy that holds the stream.                                    *)
(***************************************************************************)
EXTENDS WatchHub, TLAPS, FiniteSetTheorems, WellFoundedInduction

USE ZenonT(3), SMTT(20)     \* in this order, for a leaf that names no prover

-----------------------------------------------------------------------------
(* The inductive invariant.                                                *)

Done(c, r) == \/ r <= cursor
              \/ hubPC = "offer" /\ r = Min(batch) /\ c \notin targets

\* The page drain dispatches is the log above the cursor without holes other
\* than the rows it never saw.
HubInv ==
    /\ hubPC \in {"select", "read"} <=> batch = {}
    /\ hubPC # "offer" => targets = {}
    /\ \A b \in batch : cursor < b
    /\ \A r \in rows, b \in batch : cursor < r /\ r <= b => r \in batch
    /\ \A r \in DOMAIN log : cursor < r => r \in rows \cup lost

Increasing(q) == \A i, j \in DOMAIN q : i < j => q[i] < q[j]

Holds(q, r) == \E i \in DOMAIN q : q[i] = r

\* A registry copy holds registered streams the row is for.
TargetInv(c) ==
    c \in targets => /\ sub[c].phase \in InRegistry
                     /\ Matches(sub[c], Min(batch))

\* A stream that has not activated holds the rows offered since it
\* registered, and all of them above the revision it has read.
ComputingInv(c) ==
    LET s == sub[c] IN
    /\ s.phase \in {"off", "bound"} => s.pending = <<>>
    /\ s.phase \in {"bound"} \cup Computing =>
          s.since = lastRev[c] /\ s.events = <<>>
    /\ s.phase \in Computing =>
          /\ Increasing(s.pending)
          /\ \A i \in DOMAIN s.pending : Done(c, s.pending[i])
    /\ s.phase \in {"current", "replay", "snapshot"} => s.cur <= Len(log)
    /\ s.phase \in {"current", "replay", "snapshot"} =>
          \A r \in DOMAIN log :
              s.cur < r /\ Done(c, r) /\ Matches(s, r)
              => Holds(s.pending, r) \/ r \in lost
    /\ s.phase = "backlog" =>
          \A r \in DOMAIN log :
              s.rev < r /\ Done(c, r) /\ Matches(s, r)
              => Holds(s.pending, r) \/ r \in lost

\* The replay collected so far is exactly what it should be.
ReplayInv(c) ==
    LET s == sub[c] IN
    /\ s.phase \in {"off", "bound", "registered", "current", "snapshot"} =>
          s.replay = {} /\ ~s.isSnap
    /\ s.isSnap => s.replay = {}
    /\ s.phase \in {"current", "replay"} => lastRev[c] <= s.cur
    /\ s.phase = "replay" =>
          /\ ~s.isSnap
          /\ s.since <= s.rcur /\ s.rcur <= s.cur
          /\ s.replay = {r \in (s.since + 1)..s.rcur : Matches(s, r)}
    /\ s.phase = "backlog" =>
          /\ s.since <= s.rev /\ s.rev <= Len(log)
          /\ ~s.isSnap =>
                s.replay = {r \in (s.since + 1)..s.rev : Matches(s, r)}

\* An activated stream: the queue, the last queued and the last sent revision
\* and the client's own revision are in order, and no row is missing.
QueueInv(c) ==
    LET s == sub[c] IN
    /\ s.pending = <<>>
    /\ s.rev <= Len(log) /\ s.rev <= s.hb /\ lastRev[c] <= s.hb
    /\ s.hb <= Len(log) /\ s.hb <= s.lastSent
    /\ s.phase = "live" => s.replay = {}
    /\ s.phase = "ready" => s.hb = s.rev
    /\ \A r \in s.replay : lastRev[c] < r /\ r <= s.rev
    /\ Increasing(s.events)
    /\ \A i \in DOMAIN s.events : /\ s.hb < s.events[i]
                                   /\ s.events[i] <= s.lastSent
                                   /\ Done(c, s.events[i])
    /\ s.lastSent = s.rev \/ (s.rev < s.lastSent /\ Done(c, s.lastSent))

CompleteInv(c) ==
    \A r \in DOMAIN log :
        sub[c].rev < r /\ Done(c, r) /\ Matches(sub[c], r)
        => Holds(sub[c].events, r) \/ r \in got[c] \/ r \in lost

ActiveInv(c) == sub[c].phase \in Active => QueueInv(c) /\ CompleteInv(c)

StreamInv(c) ==
    TargetInv(c) /\ ComputingInv(c) /\ ReplayInv(c) /\ ActiveInv(c)

IInv == TypeOK /\ HubInv /\ \A c \in Clients : StreamInv(c)

-----------------------------------------------------------------------------
(* Lemmas about the operators.                                             *)

\* A nonempty set of naturals has its least element as Min.
LEMMA MinNat ==
    ASSUME NEW S \in SUBSET Nat, S # {}
    PROVE  Min(S) \in S /\ \A y \in S : Min(S) <= y
<1>1. PICK x \in S : \A y \in S : ~(<<y, x>> \in OpToRel(<, Nat))
    BY Zenon, NatLessThanWellFounded, WFMin
<1>2. \A y \in S : ~(y < x)
    BY <1>1, Zenon DEF OpToRel
<1>3. \A y \in S : x <= y
    BY <1>2
<1>4. QED BY Zenon, <1>3 DEF Min

\* Max of two naturals is the larger of the two.
LEMMA MaxPair ==
    ASSUME NEW a \in Nat, NEW b \in Nat
    PROVE  /\ Max({a, b}) \in {a, b}
           /\ a <= Max({a, b}) /\ b <= Max({a, b})
<1>1. \E x \in {a, b} : \A y \in {a, b} : x >= y
    OBVIOUS
<1>2. QED BY <1>1 DEF Max

\* A page has no hole: it holds every retained row between the cursor and a row
\* it holds.
LEMMA PageClosed ==
    ASSUME NEW since \in Nat, NEW limit \in Nat, rows \subseteq Nat,
           IsFiniteSet(rows),
           NEW b \in ListChangesSince(since, limit),
           NEW r \in rows, since < r, r <= b
    PROVE  r \in ListChangesSince(since, limit)
<1> DEFINE below(x) == {q \in rows : since < q /\ q < x}
<1>0. b \in rows /\ below(b) \in SUBSET rows
    BY DEF ListChangesSince
<1>1. /\ IsFiniteSet(below(b))
      /\ below(r) \in SUBSET below(b)
  <2>1. IsFiniteSet(below(b))
      BY <1>0, FS_Subset
  <2>2. ASSUME NEW q \in rows, since < q, q < r
        PROVE  q < b
      <3>1. q \in Nat /\ r \in Nat /\ b \in Nat
          BY <1>0
      <3>2. QED BY <2>2, <3>1
  <2>3. QED BY Zenon, <2>1, <2>2
<1>2. Cardinality(below(r)) <= Cardinality(below(b))
    BY <1>1, FS_Subset
<1>3. /\ Cardinality(below(r)) \in Nat /\ Cardinality(below(b)) \in Nat
    BY <1>1, FS_Subset, FS_CardinalityType
<1>4. Cardinality(below(b)) < limit
    BY DEF ListChangesSince
<1>5. QED BY <1>2, <1>3, <1>4 DEF ListChangesSince

\* What Restart and the closing of a stream leave.
LEMMA ClosedType == Closed \in StreamRec
    BY DEF Closed, StreamRec, Phases

\* Setting the phase of a stream record leaves it a stream record.
LEMMA PhaseRec ==
    ASSUME NEW s \in StreamRec, NEW p \in Phases, NEW t,
           t = [s EXCEPT !.phase = p]
    PROVE  t \in StreamRec
    BY Zenon DEF StreamRec

\* So does storing the result of a replay in it ...
LEMMA ReplayedRec ==
    ASSUME NEW s \in StreamRec, NEW r \in Nat, NEW t,
           t = [s EXCEPT !.phase = "backlog", !.rev = r, !.cur = 0, !.rcur = 0]
    PROVE  t \in StreamRec
    BY Zenon DEF StreamRec, Phases

\* ... and storing the result of a snapshot.
LEMMA SnapshotRec ==
    ASSUME NEW s \in StreamRec, NEW r \in Nat, NEW t,
           t = [s EXCEPT !.phase = "backlog", !.isSnap = TRUE, !.rev = r,
                         !.cur = 0, !.rcur = 0]
    PROVE  t \in StreamRec
    BY Zenon DEF StreamRec, Phases

\* The log is a sequence, and the retained rows are finitely many of its
\* revisions.
LEMMA LogFacts ==
    ASSUME LogType
    PROVE  /\ Len(log) \in Nat /\ DOMAIN log = 1..Len(log)
           /\ rows \in SUBSET Nat /\ IsFiniteSet(rows)
<1>1. Len(log) \in Nat /\ DOMAIN log = 1..Len(log)
    BY DEF LogType
<1>2. rows \in SUBSET (1..Len(log))
    BY <1>1 DEF LogType
<1>3. IsFiniteSet(1..Len(log))
    BY <1>1, FS_Interval
<1>4. IsFiniteSet(rows)
    BY Zenon, <1>2, <1>3, FS_Subset
<1>5. QED BY <1>1, <1>2, <1>4

-----------------------------------------------------------------------------
(* Types.                                                                  *)

\* The initial state is well typed.
LEMMA TypeInit == Init => TypeOK
<1> SUFFICES ASSUME Init PROVE TypeOK
    OBVIOUS
<1>1. LogType
  <2>1. /\ Histories \subseteq Seq(Rows) /\ log \in Histories /\ rows = DOMAIN log
        /\ nsID = [n \in Namespaces |-> 1] /\ nextID = 2 /\ lost = {}
      BY ChangeLogConstants DEF Init, LogInit, FirstFreeID
  <2>2. QED BY <2>1 DEF LogType
<1>2. HubType
    BY <1>1, LogFacts DEF Init, HubType, CurrentRevision
<1>3. FlagType
    BY Zenon DEF Init, FlagType
<1>4. ClientType
    BY ClosedType DEF Init, ClientType, CurrentRevision
<1>5. QED BY <1>1, <1>2, <1>3, <1>4 DEF TypeOK

\* Every step leaves the change log well typed.
LEMMA LogTypeStep == LogType /\ [Next]_vars => LogType'
<1> SUFFICES ASSUME LogType, [Next]_vars PROVE LogType'
    OBVIOUS
<1>1. ASSUME NEW n \in Namespaces, Commit(n) PROVE LogType'
  <2>1. log' = Append(log, [ns |-> n, id |-> nsID[n]]) /\ rows' = rows \cup {Len(log) + 1}
      BY <1>1 DEF Commit, AppendChange
  <2>2. [ns |-> n, id |-> nsID[n]] \in Rows
      BY DEF Rows, LogType
  <2>3. /\ log' \in Seq(Rows) /\ Len(log') = Len(log) + 1
        /\ Len(log) \in Nat
        /\ DOMAIN log = 1..Len(log) /\ DOMAIN log' = 1..(Len(log) + 1)
      BY <2>1, <2>2 DEF LogType
  <2>4. DOMAIN log \subseteq DOMAIN log' /\ Len(log) + 1 \in DOMAIN log'
      BY <2>3
  <2>5. QED
      BY <1>1, <2>1, <2>3, <2>4 DEF Commit, LogType, nsVars
<1>2. ASSUME NEW n \in Watched, ReplaceNamespace(n) PROVE LogType'
    BY <1>2 DEF ReplaceNamespace, DeleteNamespace, CreateNamespace, LogType,
                Absent, logVars, hubVars, clientVars
<1>3. CASE PruneChangeLog
    BY <1>3 DEF PruneChangeLog, KeptRows, LogType, nsVars
<1>4. CASE UNCHANGED <<log, rows, lost, nsID, nextID>>
    BY <1>4 DEF LogType
<1>5. QED
  <2>1. ASSUME NEW c \in Clients,
               \/ DispatchOffer(c) \/ DropExpired(c) \/ Connect(c)
               \/ Disconnect(c) \/ Stream(c)
        PROVE  UNCHANGED <<log, rows, lost, nsID, nextID>>
      BY Zenon, <2>1 DEF DispatchOffer, DropExpired, Connect, Disconnect, Stream,
           Register, ReadCurrent, CanReplay, CanReplayFails, ReplayPage,
           SnapshotRead, Activate, SendSnapshot, SendReplay, PumpEvent,
           PumpHeartbeat, StreamOnly, logVars, nsVars
  <2>2. CASE Wake \/ Restart \/ RunWake \/ RunRetry \/ DrainRead \/ DrainFail
             \/ DispatchCopy \/ DrainAdvance
      BY <1>4, <2>2 DEF Wake, Restart, RunWake, RunRetry, DrainRead, DrainFail,
           DispatchCopy, DrainAdvance, logVars, nsVars
  <2>3. CASE UNCHANGED vars
      BY <1>4, <2>3 DEF vars
  <2>4. QED
      BY <1>1, <1>2, <1>3, <1>4, <2>1, <2>2, <2>3 DEF Next, Hub

-----------------------------------------------------------------------------
(* The dispatch goroutine.                                                 *)

\* The row dispatch works on is a row of the log, and the first of its batch.
LEMMA BatchMin ==
    ASSUME LogType, HubType, batch # {}
    PROVE  /\ Min(batch) \in batch /\ Min(batch) \in DOMAIN log
           /\ Min(batch) \in Nat
           /\ \A b \in batch : Min(batch) <= b
<1>1. batch \in SUBSET Nat /\ batch \subseteq DOMAIN log
    BY LogFacts DEF HubType, LogType
<1>2. QED BY Zenon, <1>1, MinNat

\* The steps that leave the dispatch goroutine and the log alone.
StreamStep ==
    \E c \in Clients : \/ DropExpired(c) \/ Connect(c) \/ Disconnect(c)
                       \/ Stream(c)

\* A step of one stream leaves the log and the hub's progress alone.
LEMMA StreamStepFrame ==
    ASSUME StreamStep
    PROVE  /\ UNCHANGED <<log, rows, nsID, nextID, owed, wake, retry, hubPC,
                          cursor, batch, full, lost>>
           /\ targets' \subseteq targets
<1>1. PICK c \in Clients : \/ DropExpired(c) \/ Connect(c) \/ Disconnect(c)
                          \/ Stream(c)
    BY DEF StreamStep
<1>2. QED
    BY Zenon, <1>1
    DEF DropExpired, Connect, Disconnect, Stream,
        Register, ReadCurrent, CanReplay, CanReplayFails, ReplayPage,
        SnapshotRead, Activate, SendSnapshot, SendReplay, PumpEvent,
        PumpHeartbeat, StreamOnly, CloseStream, logVars, nsVars

\* The cases of a step, one per kind of actor.
LEMMA NextCases ==
    ASSUME [Next]_vars
    PROVE  \/ \E n \in Namespaces : Commit(n)
           \/ \E n \in Watched : ReplaceNamespace(n)
           \/ Wake \/ Restart \/ RunWake \/ RunRetry \/ DrainRead \/ DrainFail
           \/ DispatchCopy \/ DrainAdvance \/ PruneChangeLog
           \/ \E c \in Clients : DispatchOffer(c)
           \/ StreamStep
           \/ UNCHANGED vars
    BY DEF Next, Hub, StreamStep

\* Every step leaves the wake-up flags well typed.
LEMMA FlagStep == FlagType /\ [Next]_vars => FlagType'
<1> SUFFICES ASSUME FlagType, [Next]_vars PROVE FlagType'
    OBVIOUS
<1> USE DEF FlagType
<1>1. ASSUME NEW n \in Namespaces, Commit(n) PROVE FlagType'
    BY <1>1 DEF Commit, hubVars
<1>2. ASSUME NEW n \in Watched, ReplaceNamespace(n) PROVE FlagType'
    BY <1>2 DEF ReplaceNamespace, hubVars
<1>3. CASE Wake \/ Restart \/ RunWake \/ RunRetry \/ DrainFail \/ DispatchCopy
    BY Zenon, <1>3 DEF Wake, Restart, RunWake, RunRetry, DrainFail, DispatchCopy
<1>4. CASE DrainRead
    BY Zenon, <1>4 DEF DrainRead
<1>5. CASE DrainAdvance
    BY Zenon, <1>5 DEF DrainAdvance
<1>6. CASE PruneChangeLog
    BY <1>6 DEF PruneChangeLog, hubVars
<1>7. ASSUME NEW c \in Clients, DispatchOffer(c) PROVE FlagType'
    BY <1>7 DEF DispatchOffer
<1>8. CASE StreamStep
    BY <1>8, StreamStepFrame
<1>9. CASE UNCHANGED vars
    BY <1>9 DEF vars
<1>10. QED
    BY <1>1, <1>2, <1>3, <1>4, <1>5, <1>6, <1>7, <1>8, <1>9, NextCases

\* Every step keeps what the hub's own state satisfies.
LEMMA HubStep ==
    LogType /\ HubType /\ HubInv /\ [Next]_vars => HubType' /\ HubInv'
<1> SUFFICES ASSUME LogType, HubType, HubInv, [Next]_vars
             PROVE  HubType' /\ HubInv'
    OBVIOUS
<1> USE LogFacts
<1>0. LogType'
    BY LogTypeStep
<1>1. ASSUME NEW n \in Namespaces, Commit(n) PROVE HubType' /\ HubInv'
  <2>1. /\ Len(log') = Len(log) + 1 /\ DOMAIN log' = 1..(Len(log) + 1)
        /\ rows' = rows \cup {Len(log) + 1}
        /\ UNCHANGED <<hubPC, cursor, batch, targets, lost>>
      BY <1>1 DEF Commit, AppendChange, hubVars, LogType
  <2>2. \A b \in batch : b \in 1..Len(log)
      BY DEF HubType, LogType
  <2>3. HubType'
      BY <2>1 DEF HubType
  <2>4. HubInv'
      BY <2>1, <2>2 DEF HubInv, HubType, LogType
  <2>5. QED BY <2>3, <2>4
<1>2. ASSUME NEW n \in Watched, ReplaceNamespace(n) PROVE HubType' /\ HubInv'
    BY <1>2 DEF ReplaceNamespace, DeleteNamespace, CreateNamespace, logVars,
                hubVars, HubType, HubInv
<1>3. CASE Restart
    BY <1>3 DEF Restart, logVars, HubType, HubInv, CurrentRevision
<1>4. CASE Wake \/ RunWake \/ RunRetry \/ DrainFail
    BY <1>4 DEF Wake, RunWake, RunRetry, DrainFail, logVars, HubType, HubInv
<1>5. CASE DrainRead
  <2>1. /\ UNCHANGED <<log, rows, cursor, targets, lost>>
        /\ batch' = ListChangesSince(cursor, DispatchBatch)
        /\ batch' = {} => hubPC' = "select"
        /\ batch' # {} => hubPC' = "dispatch"
        /\ targets = {}
      BY <1>5 DEF DrainRead, logVars, HubInv
  <2>2. batch' \subseteq rows /\ \A b \in batch' : cursor < b
      BY <2>1 DEF ListChangesSince
  <2>3. \A r \in rows, b \in batch' : cursor < r /\ r <= b => r \in batch'
      BY <2>1, PageClosed, WatchHubConstants DEF HubType
  <2>4. QED BY <2>1, <2>2, <2>3 DEF HubType, HubInv
<1>6. CASE DispatchCopy
  <2>1. batch # {}
      BY <1>6 DEF DispatchCopy, HubInv
  <2>2. QED BY <1>6, <2>1 DEF DispatchCopy, logVars, HubType, HubInv
<1>7. CASE DrainAdvance
  <2>1. batch # {}
      BY <1>7 DEF DrainAdvance, HubInv
  <2>2. /\ UNCHANGED <<log, rows, targets, lost>> /\ targets = {}
        /\ cursor' = Min(batch) /\ batch' = batch \ {Min(batch)}
        /\ batch' # {} => hubPC' = "dispatch"
        /\ batch' = {} => hubPC' \in {"read", "select"}
      BY <1>7 DEF DrainAdvance, logVars
  <2>3. /\ Min(batch) \in batch /\ Min(batch) \in Nat /\ Min(batch) \in DOMAIN log
        /\ \A b \in batch : Min(batch) <= b /\ b \in Nat
      BY <2>1, BatchMin DEF HubType
  <2>4. HubType'
      BY <2>2, <2>3 DEF HubType
  <2>5. HubInv'
      BY <2>2, <2>3 DEF HubInv, HubType, LogType
  <2>6. QED BY <2>4, <2>5
<1>8. CASE PruneChangeLog
  <2>1. /\ rows' \subseteq rows /\ batch = {}
        /\ lost' = lost \cup {r \in rows \ rows' : r > cursor}
        /\ UNCHANGED <<log, hubPC, cursor, batch, targets>>
      BY <1>8 DEF PruneChangeLog, KeptRows, hubVars, HubInv
  <2>2. QED BY <2>1 DEF HubType, HubInv, LogType
<1>9. ASSUME NEW c \in Clients, DispatchOffer(c) PROVE HubType' /\ HubInv'
    BY <1>9 DEF DispatchOffer, logVars, HubType, HubInv
<1>10. CASE StreamStep
    BY <1>10, StreamStepFrame DEF HubType, HubInv
<1>11. CASE UNCHANGED vars
    BY <1>11 DEF vars, HubType, HubInv
<1>12. QED
    BY <1>1, <1>2, <1>3, <1>4, <1>5, <1>6, <1>7, <1>8, <1>9, <1>10, <1>11,
       NextCases

-----------------------------------------------------------------------------
(* Streams.                                                                *)

\* What keeps stream c's invariant when the step is not its own: rows the hub
\* has finished with stay so, and a row it newly finishes with is lost, not
\* for the stream, or the stream is not registered.
LEMMA Frame ==
    ASSUME LogType, ClientType, NEW c \in Clients, StreamInv(c), TargetInv(c)',
           sub'[c] = sub[c], lastRev'[c] = lastRev[c], got'[c] = got[c],
           lost \subseteq lost', Len(log) <= Len(log'), Len(log') \in Nat,
           \A r \in DOMAIN log : log'[r] = log[r],
           \A r \in Nat : Done(c, r) => Done(c, r)',
           sub[c].phase \in InRegistry =>
             \A r \in DOMAIN log' :
               Done(c, r)' /\ Matches(sub[c], r)'
               => (r \in DOMAIN log /\ Done(c, r)) \/ r \in lost
    PROVE  StreamInv(c)'
<1> DEFINE s == sub[c]
<1>0. /\ Len(log) \in Nat /\ DOMAIN log = 1..Len(log) /\ s \in StreamRec
      /\ lastRev[c] \in Nat
    BY LogFacts DEF ClientType
<1>1. /\ s.rev \in Nat /\ s.cur \in Nat /\ s.rcur \in Nat /\ s.hb \in Nat
      /\ s.since \in Nat /\ s.lastSent \in Nat
      /\ \A i \in DOMAIN s.pending : s.pending[i] \in Nat
      /\ \A i \in DOMAIN s.events : s.events[i] \in Nat
  <2>1. s.pending \in Seq(Nat) /\ s.events \in Seq(Nat)
      BY <1>0 DEF StreamRec
  <2>2. /\ \A i \in DOMAIN s.pending : s.pending[i] \in Nat
        /\ \A i \in DOMAIN s.events : s.events[i] \in Nat
      BY SMTT(30), <2>1
  <2>3. QED BY <1>0, <2>2 DEF StreamRec
<1>2. \A r \in DOMAIN log : Matches(s, r)' <=> Matches(s, r)
    BY DEF Matches
<1>3. ComputingInv(c)'
  <2>1. ComputingInv(c)
      BY DEF StreamInv
  <2>2. s.cur <= Len(log) => s.cur <= Len(log')
      BY <1>0, <1>1
  <2>3. QED
      BY <1>1, <1>2, <2>1, <2>2 DEF ComputingInv, InRegistry, Computing
<1>4. ReplayInv(c)'
  <2>1. ReplayInv(c) /\ ComputingInv(c)
      BY DEF StreamInv
  <2>2. ASSUME NEW m \in Nat, m <= Len(log)
        PROVE  {r \in (s.since + 1)..m : Matches(s, r)'} =
               {r \in (s.since + 1)..m : Matches(s, r)}
    <3>1. (s.since + 1)..m \subseteq DOMAIN log
        BY SMTT(30), <1>0, <1>1, <2>2
    <3>2. QED BY <1>2, <3>1
  <2>3. s.phase = "replay" => s.rcur <= Len(log)
      BY <1>0, <1>1, <2>1 DEF ReplayInv, ComputingInv
  <2>4. s.rev <= Len(log) => s.rev <= Len(log')
      BY SMTT(30), <1>0, <1>1
  <2>5. CASE s.phase = "replay"
      BY SMTT(30), <1>1, <2>1, <2>2, <2>3, <2>5 DEF ReplayInv
  <2>6. CASE s.phase = "backlog"
      BY SMTT(30), <1>1, <2>1, <2>2, <2>4, <2>6 DEF ReplayInv
  <2>7. CASE s.phase \notin {"replay", "backlog"}
      BY <2>1, <2>7 DEF ReplayInv
  <2>8. QED BY <2>5, <2>6, <2>7
<1>5. ActiveInv(c)'
  <2>1. SUFFICES ASSUME s.phase \in Active PROVE QueueInv(c)' /\ CompleteInv(c)'
      BY DEF ActiveInv
  <2>2. QueueInv(c) /\ CompleteInv(c)
      BY <2>1 DEF StreamInv, ActiveInv
  <2>3. (s.rev <= Len(log) => s.rev <= Len(log')) /\ (s.hb <= Len(log) => s.hb <= Len(log'))
      BY SMTT(30), <1>0, <1>1
  <2>4. QueueInv(c)'
      BY <1>1, <2>2, <2>3 DEF QueueInv
  <2>5. CompleteInv(c)'
      BY ZenonT(20), <1>2, <2>1, <2>2 DEF CompleteInv, InRegistry
  <2>6. QED BY <2>4, <2>5
<1>6. QED BY <1>3, <1>4, <1>5 DEF StreamInv

\* A stream that has ended owes nothing.
LEMMA ClosedInv ==
    ASSUME NEW c \in Clients, sub'[c] = Closed, c \notin targets'
    PROVE  StreamInv(c)'
<1>1. /\ sub'[c].phase = "off" /\ sub'[c].pending = <<>>
      /\ sub'[c].replay = {} /\ sub'[c].isSnap = FALSE
    BY DEF Closed
<1>2. TargetInv(c)'
    BY DEF TargetInv
<1>3. ComputingInv(c)'
    BY <1>1 DEF ComputingInv, Computing
<1>4. ReplayInv(c)'
    BY <1>1 DEF ReplayInv
<1>5. ActiveInv(c)'
    BY <1>1 DEF ActiveInv, Active
<1>6. QED BY <1>2, <1>3, <1>4, <1>5 DEF StreamInv

\* A step of stream c leaves every other stream alone.
LEMMA OtherStreams ==
    ASSUME ClientType, NEW c \in Clients, NEW d \in Clients, d # c,
           \/ DropExpired(c) \/ Connect(c) \/ Disconnect(c) \/ Stream(c)
           \/ DispatchOffer(c)
    PROVE  /\ sub'[d] = sub[d] /\ lastRev'[d] = lastRev[d] /\ got'[d] = got[d]
           /\ d \in targets' <=> d \in targets
<1> USE DEF ClientType, CloseStream, clientVars
<1>1. CASE DropExpired(c) \/ Connect(c) \/ Disconnect(c)
    BY <1>1 DEF DropExpired, Connect, Disconnect
<1>2. CASE DispatchOffer(c)
    BY <1>2 DEF DispatchOffer, OfferTo
<1>3. CASE Register(c) \/ ReadCurrent(c) \/ CanReplay(c) \/ CanReplayFails(c)
           \/ SnapshotRead(c)
    BY <1>3 DEF Register, ReadCurrent, CanReplay, CanReplayFails, SnapshotRead
<1>4. CASE ReplayPage(c)
    BY <1>4 DEF ReplayPage
<1>5. CASE Activate(c)
    BY <1>5 DEF Activate
<1>6. CASE SendSnapshot(c) \/ PumpEvent(c) \/ PumpHeartbeat(c)
    BY <1>6 DEF SendSnapshot, PumpEvent, PumpHeartbeat, ClientApplies
<1>7. CASE SendReplay(c)
    BY <1>7 DEF SendReplay, ClientApplies
<1>8. QED
    BY <1>1, <1>2, <1>3, <1>4, <1>5, <1>6, <1>7 DEF Stream

\* ... and changes no other place of the client variables.
LEMMA OwnPlace ==
    ASSUME ClientType, NEW c \in Clients,
           \/ DropExpired(c) \/ Connect(c) \/ Disconnect(c) \/ Stream(c)
           \/ DispatchOffer(c)
    PROVE  \E s, l, g, a : /\ sub' = [sub EXCEPT ![c] = s]
                          /\ lastRev' = [lastRev EXCEPT ![c] = l]
                          /\ got' = [got EXCEPT ![c] = g]
                          /\ snapAt' = [snapAt EXCEPT ![c] = a]
<1>1. /\ sub = [sub EXCEPT ![c] = sub[c]]
      /\ lastRev = [lastRev EXCEPT ![c] = lastRev[c]]
      /\ got = [got EXCEPT ![c] = got[c]]
      /\ snapAt = [snapAt EXCEPT ![c] = snapAt[c]]
    BY DEF ClientType
<1> USE DEF CloseStream, clientVars
<1>c. ASSUME NEW s, sub' = [sub EXCEPT ![c] = s], UNCHANGED <<lastRev, got, snapAt>>
      PROVE  \E t, l, g, a : /\ sub' = [sub EXCEPT ![c] = t]
                            /\ lastRev' = [lastRev EXCEPT ![c] = l]
                            /\ got' = [got EXCEPT ![c] = g]
                            /\ snapAt' = [snapAt EXCEPT ![c] = a]
  <2>1. lastRev' = [lastRev EXCEPT ![c] = lastRev[c]]
      BY <1>1, <1>c
  <2>2. got' = [got EXCEPT ![c] = got[c]]
      BY <1>1, <1>c
  <2>3. snapAt' = [snapAt EXCEPT ![c] = snapAt[c]]
      BY <1>1, <1>c
  <2>4. WITNESS s, lastRev[c], got[c], snapAt[c]
  <2>5. QED BY Zenon, <1>c, <2>1, <2>2, <2>3
<1>2. CASE DropExpired(c) \/ Connect(c) \/ Disconnect(c)
  <2>1. UNCHANGED <<lastRev, got, snapAt>>
      BY <1>2 DEF DropExpired, Connect, Disconnect
  <2>2. PICK s : sub' = [sub EXCEPT ![c] = s]
    <3>1. CASE DropExpired(c) \/ Disconnect(c)
        BY Zenon, <3>1 DEF DropExpired, Disconnect
    <3>2. CASE Connect(c)
        BY Zenon, <3>2 DEF Connect
    <3>3. QED BY <1>2, <3>1, <3>2
  <2>3. QED BY Zenon, <1>c, <2>1, <2>2
<1>3. CASE DispatchOffer(c)
    BY <1>1, <1>3 DEF DispatchOffer, OfferTo
<1>4. CASE Register(c) \/ ReadCurrent(c) \/ CanReplay(c) \/ CanReplayFails(c)
           \/ SnapshotRead(c)
  <2>1. UNCHANGED <<lastRev, got, snapAt>>
      BY <1>4
      DEF Register, ReadCurrent, CanReplay, CanReplayFails, SnapshotRead
  <2>2. PICK s : sub' = [sub EXCEPT ![c] = s]
      BY <1>4
      DEF Register, ReadCurrent, CanReplay, CanReplayFails, SnapshotRead
  <2>3. QED BY Zenon, <1>c, <2>1, <2>2
<1>5. CASE ReplayPage(c)
    BY <1>1, <1>5 DEF ReplayPage
<1>6. CASE Activate(c)
  <2>1. UNCHANGED <<lastRev, got, snapAt>>
      BY <1>6 DEF Activate
  <2>2. PICK s : sub' = [sub EXCEPT ![c] = s]
      BY ZenonT(20), <1>6 DEF Activate
  <2>3. QED BY Zenon, <1>c, <2>1, <2>2
<1>7. CASE SendSnapshot(c) \/ PumpEvent(c) \/ PumpHeartbeat(c)
    BY <1>1, <1>7 DEF SendSnapshot, PumpEvent, PumpHeartbeat, ClientApplies
<1>8. CASE SendReplay(c)
    BY <1>1, <1>8 DEF SendReplay, ClientApplies
<1>9. QED
    BY <1>2, <1>3, <1>4, <1>5, <1>6, <1>7, <1>8 DEF Stream

\* Whatever the hub has finished with is a revision of the log.
LEMMA DoneInLog ==
    ASSUME LogType, HubType, HubInv, NEW c \in Clients, NEW r \in Nat,
           Done(c, r)
    PROVE  r <= Len(log)
<1>1. CASE r <= cursor
    BY <1>1, LogFacts DEF HubType
<1>2. CASE hubPC = "offer" /\ r = Min(batch)
  <2>1. batch # {}
      BY <1>2 DEF HubInv
  <2>2. QED BY <1>2, <2>1, BatchMin, LogFacts
<1>3. QED BY <1>1, <1>2 DEF Done

\* What a step of a stream has to show for the stream itself.
Kept(c) ==
    /\ sub'[c] \in StreamRec
    /\ lastRev'[c] \in 0..Len(log) /\ snapAt'[c] \in 0..Len(log)
    /\ got'[c] \subseteq DOMAIN log
    /\ StreamInv(c)'

\* A stream that ends keeps its part of the invariant.
LEMMA EndingKeeps ==
    ASSUME ClientType, NEW c \in Clients, CloseStream(c), UNCHANGED clientVars
    PROVE  Kept(c)
<1>1. sub'[c] = Closed /\ c \notin targets'
    BY DEF CloseStream, ClientType
<1>2. QED
    BY <1>1, ClosedType, ClosedInv DEF Kept, ClientType, clientVars

\* Binding a registration keeps it.
LEMMA ConnectKeeps ==
    ASSUME IInv, NEW c \in Clients, Connect(c)
    PROVE  Kept(c)
<1> DEFINE s == [Closed EXCEPT !.phase = "bound",
                               !.ids   = [n \in Watched |-> nsID[n]],
                               !.since = lastRev[c]]
<1>1. /\ sub'[c] = s /\ sub[c].phase = "off"
      /\ UNCHANGED <<log, cursor, hubPC, batch, targets, lost, lastRev, got,
                     snapAt>>
    BY DEF Connect, StreamOnly, clientVars, logVars, IInv, TypeOK, ClientType
<1>2. lastRev[c] \in Nat
    BY SMTT(30), LogFacts DEF IInv, TypeOK, ClientType
<1>3. s \in StreamRec
    BY Zenon, <1>2, ClosedType, WatchHubConstants
    DEF StreamRec, Phases, IInv, TypeOK, LogType
<1>4. c \notin targets
    BY <1>1 DEF IInv, StreamInv, TargetInv, InRegistry, Computing, Active
<1>5. StreamInv(c)'
    BY <1>1, <1>4 DEF StreamInv, TargetInv, ComputingInv, ReplayInv, ActiveInv,
           Closed, Computing, Active
<1>6. QED
    BY <1>1, <1>3, <1>5 DEF Kept, IInv, TypeOK, ClientType

\* Entering the registry keeps it.
LEMMA RegisterKeeps ==
    ASSUME IInv, NEW c \in Clients, Register(c)
    PROVE  Kept(c)
<1>1. /\ sub[c].phase = "bound" /\ sub[c] \in StreamRec
      /\ UNCHANGED <<log, cursor, hubPC, batch, targets, lost, lastRev, got,
                     snapAt>>
    BY DEF Register, StreamOnly, clientVars, logVars, IInv, TypeOK, ClientType
<1>2. c \notin targets
    BY <1>1 DEF IInv, StreamInv, TargetInv, InRegistry, Computing, Active
<1>3. CASE ~StillBound(sub[c])
  <2>1. sub'[c] = Closed
      BY <1>3 DEF Register, IInv, TypeOK, ClientType
  <2>2. QED
      BY <1>1, <1>2, <2>1, ClosedType, ClosedInv
      DEF Kept, IInv, TypeOK, ClientType
<1>4. CASE StillBound(sub[c])
  <2>1. sub'[c] = [sub[c] EXCEPT !.phase = "registered"]
      BY <1>4 DEF Register, IInv, TypeOK, ClientType
  <2>2. sub'[c] \in StreamRec
      BY Zenon, <1>1, <2>1 DEF StreamRec, Phases
  <2>3. StreamInv(c)'
      BY <1>1, <1>2, <2>1
      DEF StreamRec, IInv, StreamInv, TargetInv, ComputingInv, ReplayInv, ActiveInv,
          Increasing, Computing, Active
  <2>4. QED BY <1>1, <2>2, <2>3 DEF Kept, IInv, TypeOK, ClientType
<1>5. QED BY <1>3, <1>4

\* Reading the current revision keeps it.
LEMMA ReadCurrentKeeps ==
    ASSUME IInv, NEW c \in Clients, ReadCurrent(c)
    PROVE  Kept(c)
<1>1. /\ sub[c].phase = "registered" /\ sub[c] \in StreamRec
      /\ sub'[c] = [sub[c] EXCEPT !.phase = "current", !.cur = Len(log)]
      /\ UNCHANGED <<log, cursor, hubPC, batch, targets, lost, lastRev, got,
                     snapAt>>
      /\ Len(log) \in Nat /\ DOMAIN log = 1..Len(log)
    BY LogFacts DEF ReadCurrent, StreamOnly, clientVars, logVars, IInv, TypeOK,
           ClientType, CurrentRevision
<1>2. sub'[c] \in StreamRec
    BY Zenon, <1>1 DEF StreamRec, Phases
<1>3. TargetInv(c)'
    BY <1>1 DEF StreamRec, IInv, StreamInv, TargetInv, Matches, InRegistry,
           Computing
<1>4. ComputingInv(c)'
    BY <1>1 DEF StreamRec, IInv, StreamInv, ComputingInv, Computing, Done
<1>5. ReplayInv(c)' /\ ActiveInv(c)'
  <2>1. /\ sub'[c].phase = "current" /\ sub'[c].cur = Len(log)
        /\ sub'[c].replay = sub[c].replay /\ sub'[c].isSnap = sub[c].isSnap
      BY <1>1 DEF StreamRec
  <2>2. sub[c].replay = {} /\ ~sub[c].isSnap
      BY Zenon, <1>1 DEF IInv, StreamInv, ReplayInv
  <2>3. lastRev'[c] <= Len(log)
      BY <1>1 DEF IInv, TypeOK, ClientType
  <2>4. ReplayInv(c)'
      BY Zenon, <2>1, <2>2, <2>3 DEF ReplayInv
  <2>5. ActiveInv(c)'
      BY Zenon, <2>1 DEF ActiveInv, Active
  <2>6. QED BY <2>4, <2>5
<1>6. QED
    BY <1>1, <1>2, <1>3, <1>4, <1>5
    DEF Kept, StreamInv, IInv, TypeOK, ClientType

\* Deciding for a replay or a snapshot keeps it.
LEMMA CanReplayKeeps ==
    ASSUME IInv, NEW c \in Clients, CanReplay(c)
    PROVE  Kept(c)
<1> DEFINE p == IF ReplayAllowed(sub[c]) THEN "replay" ELSE "snapshot"
<1>1. /\ sub[c].phase = "current" /\ sub[c] \in StreamRec
      /\ sub'[c] = [sub[c] EXCEPT !.phase = p, !.rcur = sub[c].since]
      /\ UNCHANGED <<log, cursor, hubPC, batch, targets, lost, lastRev, got,
                     snapAt>>
    BY DEF CanReplay, StreamOnly, clientVars, logVars, IInv, TypeOK, ClientType
<1>2. p \in {"replay", "snapshot"}
    OBVIOUS
<1> HIDE DEF p
<1>3. sub'[c] \in StreamRec
    BY Zenon, <1>1, <1>2 DEF StreamRec, Phases
<1>4. TargetInv(c)'
    BY <1>1, <1>2
    DEF StreamRec, IInv, StreamInv, TargetInv, Matches, InRegistry, Computing
<1>5. ComputingInv(c)'
    BY <1>1, <1>2
    DEF StreamRec, IInv, StreamInv, ComputingInv, Computing, Done, Matches
<1>6. ReplayInv(c)' /\ ActiveInv(c)'
    BY <1>1, <1>2
    DEF StreamRec, IInv, StreamInv, ReplayInv, ComputingInv, Computing,
        ActiveInv, Active
<1>7. QED
    BY <1>1, <1>3, <1>4, <1>5, <1>6
    DEF Kept, StreamInv, IInv, TypeOK, ClientType

\* The snapshot chosen when the oldest revision cannot be read keeps it.
LEMMA CanReplayFailsKeeps ==
    ASSUME IInv, NEW c \in Clients, CanReplayFails(c)
    PROVE  Kept(c)
<1>1. /\ sub[c].phase = "current" /\ sub[c] \in StreamRec
      /\ sub'[c] = [sub[c] EXCEPT !.phase = "snapshot"]
      /\ UNCHANGED <<log, cursor, hubPC, batch, targets, lost, lastRev, got,
                     snapAt>>
    BY DEF CanReplayFails, StreamOnly, clientVars, logVars, IInv, TypeOK,
           ClientType
<1>2. sub'[c] \in StreamRec
    BY Zenon, <1>1 DEF StreamRec, Phases
<1>3. TargetInv(c)'
    BY <1>1
    DEF StreamRec, IInv, StreamInv, TargetInv, Matches, InRegistry, Computing
<1>4. ComputingInv(c)'
    BY <1>1
    DEF StreamRec, IInv, StreamInv, ComputingInv, Computing, Done, Matches
<1>5. ReplayInv(c)' /\ ActiveInv(c)'
    BY <1>1
    DEF StreamRec, IInv, StreamInv, ReplayInv, ComputingInv, Computing,
        ActiveInv, Active
<1>6. QED
    BY <1>1, <1>2, <1>3, <1>4, <1>5
    DEF Kept, StreamInv, IInv, TypeOK, ClientType

\* Reading a page of the replay: a page that is neither broken nor short is
\* the rows from the loop's cursor up to its end, with none missing.
LEMMA PageFacts ==
    ASSUME LogType, NEW s \in StreamRec, ~PageBroken(s), s.cur <= Len(log)
    PROVE  /\ PageEnd(s) \in Nat /\ s.rcur <= PageEnd(s)
           /\ s.rcur <= s.cur => PageEnd(s) <= s.cur
           /\ PageTo(s) = (s.rcur + 1)..PageEnd(s)
<1>0. s.rcur \in Nat /\ s.cur \in Nat
    BY DEF StreamRec
<1>1. PageTo(s) \in SUBSET Nat /\ \A r \in PageTo(s) : s.rcur < r /\ r <= s.cur
    BY <1>0, LogFacts DEF PageTo, ListChangesSince
<1>2. CASE PageTo(s) = {}
    BY <1>0, <1>2 DEF PageEnd
<1>3. CASE PageTo(s) # {}
  <2>1. \A r \in PageTo(s) : \A q \in (s.rcur + 1)..r : q \in PageTo(s)
      BY DEF PageBroken
  <2>2. \E x \in PageTo(s) : \A y \in PageTo(s) : x >= y
    <3> DEFINE N == {x \in Nat : \A y \in PageTo(s) : y <= x}
    <3>1. s.cur \in N
        BY <1>0, <1>1
    <3>2. N \in SUBSET Nat /\ N # {}
        BY <3>1
    <3>3. PICK m \in N : \A x \in N : m <= x
        BY Zenon, <3>2, MinNat
    <3>4. m \in Nat /\ \A y \in PageTo(s) : y <= m /\ y \in Nat
        BY <1>1, <3>3
    <3>5. CASE m \in PageTo(s)
        BY <3>4, <3>5
    <3>6. CASE m \notin PageTo(s)
      <4>1. m - 1 \in Nat
          BY <1>0, <1>1, <1>3, <3>4
      <4>2. \A y \in PageTo(s) : y <= m - 1
          BY <3>4, <3>6
      <4>3. m - 1 \in N
          BY <4>1, <4>2
      <4>4. m <= m - 1
          BY <3>3, <4>3
      <4>5. QED BY <3>4, <4>4
    <3>7. QED BY <3>5, <3>6
  <2>3. /\ PageEnd(s) \in PageTo(s)
        /\ \A y \in PageTo(s) : PageEnd(s) >= y
      BY <1>3, <2>2 DEF PageEnd, Max
  <2>4. PageEnd(s) \in Nat /\ s.rcur < PageEnd(s) /\ PageEnd(s) <= s.cur
      BY <1>0, <1>1, <2>3
  <2>5. ASSUME NEW q PROVE q \in PageTo(s) <=> q \in (s.rcur + 1)..PageEnd(s)
    <3>1. ASSUME q \in PageTo(s) PROVE q \in (s.rcur + 1)..PageEnd(s)
        BY <1>0, <1>1, <2>3, <2>4, <3>1
    <3>2. ASSUME q \in (s.rcur + 1)..PageEnd(s) PROVE q \in PageTo(s)
        BY <2>1, <2>3, <3>2
    <3>3. QED BY <3>1, <3>2
  <2>6. PageTo(s) = (s.rcur + 1)..PageEnd(s)
      BY Zenon, <2>5
  <2>7. QED BY <1>0, <2>4, <2>6
<1>4. QED BY <1>2, <1>3

\* Reading one page of the replay keeps it.
LEMMA ReplayPageKeeps ==
    ASSUME IInv, NEW c \in Clients, ReplayPage(c)
    PROVE  Kept(c)
<1> DEFINE s == sub[c]
<1>1. /\ s.phase = "replay" /\ s \in StreamRec
      /\ UNCHANGED <<log, cursor, hubPC, batch, targets, lost, lastRev, got,
                     snapAt>>
    BY DEF ReplayPage, StreamOnly, clientVars, logVars, IInv, TypeOK,
           ClientType
<1>2. /\ Len(log) \in Nat /\ DOMAIN log = 1..Len(log)
      /\ s.rcur \in Nat /\ s.cur \in Nat /\ s.since \in Nat
    BY <1>1, LogFacts DEF IInv, TypeOK, StreamRec
<1>3. CASE s.rcur >= s.cur
  <2>1. sub'[c] = [s EXCEPT !.phase = "backlog", !.rev = s.cur,
                            !.cur = 0, !.rcur = 0]
      BY ZenonT(30), <1>3 DEF ReplayPage, IInv, TypeOK, ClientType
  <2>2. sub'[c] \in StreamRec
      BY Zenon, <1>1, <1>2, <2>1, ReplayedRec
  <2>3. s.rcur = s.cur
      BY <1>1, <1>2, <1>3 DEF IInv, StreamInv, ReplayInv
  <2>4. TargetInv(c)'
      BY <1>1, <2>1
      DEF StreamRec, IInv, StreamInv, TargetInv, Matches, InRegistry, Computing
  <2>5. ComputingInv(c)'
      BY SMTT(30), <1>1, <2>1
      DEF StreamRec, IInv, StreamInv, ComputingInv, Computing, Done, Matches
  <2>6. ReplayInv(c)' /\ ActiveInv(c)'
    <3>1. /\ sub'[c].phase = "backlog" /\ sub'[c].rev = s.cur
          /\ sub'[c].since = s.since /\ sub'[c].ids = s.ids
          /\ sub'[c].replay = s.replay /\ sub'[c].isSnap = s.isSnap
        BY Zenon, <1>1, <2>1 DEF StreamRec
    <3>2. /\ s.since <= s.cur /\ ~s.isSnap /\ s.cur <= Len(log)
          /\ s.replay = {r \in (s.since + 1)..s.cur : Matches(s, r)}
        BY Zenon, <1>1, <2>3 DEF IInv, StreamInv, ComputingInv, ReplayInv
    <3>3. {r \in (s.since + 1)..s.cur : Matches(s, r)}
            = {r \in (s.since + 1)..s.cur : Matches(s, r)'}
        BY Zenon, <1>1, <3>1 DEF Matches
    <3>4. ReplayInv(c)'
        BY Zenon, <1>1, <3>1, <3>2, <3>3 DEF ReplayInv
    <3>5. QED BY Zenon, <3>1, <3>4 DEF ActiveInv, Active
  <2>7. QED
      BY <1>1, <2>2, <2>4, <2>5, <2>6
      DEF Kept, StreamInv, IInv, TypeOK, ClientType
<1>4. CASE ~(s.rcur >= s.cur) /\ (PageBroken(s) \/ PageShort(s))
  <2>1. sub'[c] = [s EXCEPT !.phase = "snapshot", !.replay = {}]
      BY Zenon, <1>4 DEF ReplayPage, IInv, TypeOK, ClientType
  <2>2. sub'[c] \in StreamRec
      BY Zenon, <1>1, <2>1 DEF StreamRec, Phases
  <2>3. TargetInv(c)'
      BY <1>1, <2>1
      DEF StreamRec, IInv, StreamInv, TargetInv, Matches, InRegistry, Computing
  <2>4. ComputingInv(c)'
      BY <1>1, <2>1
      DEF StreamRec, IInv, StreamInv, ComputingInv, Computing, Done, Matches
  <2>5. ReplayInv(c)' /\ ActiveInv(c)'
      BY <1>1, <2>1
      DEF StreamRec, IInv, StreamInv, ReplayInv, ActiveInv, Active
  <2>6. QED
      BY <1>1, <2>2, <2>3, <2>4, <2>5
      DEF Kept, StreamInv, IInv, TypeOK, ClientType
<1>5. CASE ~(s.rcur >= s.cur) /\ ~(PageBroken(s) \/ PageShort(s))
  <2> DEFINE e == PageEnd(s)
             add == {r \in PageTo(s) : Matches(s, r)}
  <2>1. sub'[c] = [s EXCEPT !.rcur = e, !.replay = s.replay \cup add]
      BY Zenon, <1>5 DEF ReplayPage, IInv, TypeOK, ClientType
  <2>2. s.cur <= Len(log) /\ s.since <= s.rcur
      BY <1>1 DEF IInv, StreamInv, ComputingInv, ReplayInv
  <2>3. /\ e \in Nat /\ s.rcur <= e /\ e <= s.cur
        /\ PageTo(s) = (s.rcur + 1)..e
      BY SMTT(30), <1>1, <1>2, <1>5, <2>2, PageFacts DEF IInv, TypeOK
  <2>4. s.replay \cup add = {r \in (s.since + 1)..e : Matches(s, r)}
    <3>1. s.replay = {r \in (s.since + 1)..s.rcur : Matches(s, r)}
        BY <1>1 DEF IInv, StreamInv, ReplayInv
    <3>2. (s.since + 1)..e = ((s.since + 1)..s.rcur) \cup ((s.rcur + 1)..e)
        BY <1>2, <2>2, <2>3
    <3>3. QED BY SMTT(30), <2>3, <3>1, <3>2
  <2> HIDE DEF e, add
  <2>5. sub'[c] \in StreamRec
    <3>1. s.replay \cup add \in SUBSET Nat
        BY <1>2, <2>3, <2>4
    <3>2. QED BY Zenon, <1>1, <2>1, <2>3, <3>1 DEF StreamRec, Phases
  <2>6. TargetInv(c)'
      BY <1>1, <2>1
      DEF StreamRec, IInv, StreamInv, TargetInv, Matches, InRegistry, Computing
  <2>7. ComputingInv(c)'
      BY SMTT(30), <1>1, <2>1
      DEF StreamRec, IInv, StreamInv, ComputingInv, Computing, Done, Matches
  <2>a. ReplayInv(c)'
      BY SMTT(30), <1>1, <1>2, <2>1, <2>2, <2>3, <2>4
      DEF StreamRec, IInv, StreamInv, ReplayInv, Matches
  <2>b. ActiveInv(c)'
      BY <1>1, <2>1 DEF StreamRec, ActiveInv, Active
  <2>8. ReplayInv(c)' /\ ActiveInv(c)'
      BY <2>a, <2>b
  <2>9. QED
      BY <1>1, <2>5, <2>6, <2>7, <2>8
      DEF Kept, StreamInv, IInv, TypeOK, ClientType
<1>6. QED BY <1>3, <1>4, <1>5

\* Reading the snapshot keeps it.
LEMMA SnapshotReadKeeps ==
    ASSUME IInv, NEW c \in Clients, SnapshotRead(c)
    PROVE  Kept(c)
<1> DEFINE s == sub[c]
<1>1. /\ s.phase = "snapshot" /\ s \in StreamRec /\ UNCHANGED clientVars
      /\ UNCHANGED <<log, cursor, hubPC, batch, lost, lastRev, got, snapAt>>
    BY DEF SnapshotRead, StreamOnly, clientVars, logVars, IInv, TypeOK,
           ClientType
<1>2. /\ Len(log) \in Nat /\ DOMAIN log = 1..Len(log)
      /\ lastRev[c] \in 0..Len(log)
    BY LogFacts DEF IInv, TypeOK, ClientType
<1>3. CASE ~StillBound(s)
    BY <1>1, <1>3, EndingKeeps DEF SnapshotRead, IInv, TypeOK
<1>4. CASE StillBound(s)
  <2>1. /\ sub'[c] = [s EXCEPT !.phase = "backlog", !.isSnap = TRUE,
                               !.rev = Len(log), !.cur = 0, !.rcur = 0]
        /\ targets' = targets
      BY Zenon, <1>4 DEF SnapshotRead, IInv, TypeOK, ClientType, CurrentRevision
  <2>2. sub'[c] \in StreamRec
      BY Zenon, <1>1, <1>2, <2>1, SnapshotRec
  <2>3. TargetInv(c)'
      BY <1>1, <2>1
      DEF StreamRec, IInv, StreamInv, TargetInv, Matches, InRegistry, Computing
  <2>4. ComputingInv(c)'
      BY <1>1, <1>2, <2>1
      DEF StreamRec, IInv, StreamInv, ComputingInv, Computing, Done
  <2>5. ReplayInv(c)' /\ ActiveInv(c)'
      BY <1>1, <1>2, <2>1
      DEF StreamRec, IInv, StreamInv, ReplayInv, ComputingInv, Computing,
          ActiveInv, Active
  <2>6. QED
      BY <1>1, <2>2, <2>3, <2>4, <2>5
      DEF Kept, StreamInv, IInv, TypeOK, ClientType
<1>5. QED BY <1>3, <1>4

\* The library's facts on SubSeq, for revisions.
LEMMA SubSeqFacts ==
    ASSUME NEW p, NEW m \in Int, NEW n \in Int, \A i \in m..n : p[i] \in Nat
    PROVE  /\ SubSeq(p, m, n) \in Seq(Nat)
           /\ Len(SubSeq(p, m, n)) = IF m <= n THEN n - m + 1 ELSE 0
           /\ \A i \in 1..(n - m + 1) : SubSeq(p, m, n)[i] = p[m + i - 1]
    OBVIOUS

\* activate flushes exactly the pending rows above the backlog revision.
LEMMA UncoveredFacts ==
    ASSUME NEW s \in StreamRec, Increasing(s.pending)
    PROVE  /\ Uncovered(s) \in Seq(Nat) /\ Increasing(Uncovered(s))
           /\ \A i \in DOMAIN Uncovered(s) :
                 s.rev < Uncovered(s)[i] /\ Holds(s.pending, Uncovered(s)[i])
           /\ \A r \in Nat : s.rev < r /\ Holds(s.pending, r)
                             => Holds(Uncovered(s), r)
<1>1. PICK p \in Seq(Nat) : p = s.pending
    BY DEF StreamRec
<1>2. PICK n \in Nat : n = Len(p) /\ DOMAIN p = 1..n
    OBVIOUS
<1>3. PICK v \in Nat : v = s.rev
    BY DEF StreamRec
<1>4. Increasing(p) /\ \A i \in 1..n : p[i] \in Nat
    BY <1>1, <1>2
<1>5. PICK k \in Nat :
          /\ k = Covered(s) /\ k <= n /\ (k = n \/ p[k + 1] > v)
          /\ \A j \in 0..n : j = n \/ p[j + 1] > v => k <= j
  <2> DEFINE K == {j \in 0..n : j = n \/ p[j + 1] > v}
  <2>1. K \in SUBSET Nat /\ n \in K
      OBVIOUS
  <2>2. Covered(s) = Min(K)
      BY <1>1, <1>2, <1>3 DEF Covered
  <2>3. PICK k \in K : k = Min(K) /\ \A j \in K : k <= j
      BY Zenon, <2>1, MinNat
  <2>4. k \in Nat /\ k <= n /\ (k = n \/ p[k + 1] > v)
      BY <2>3
  <2>5. ASSUME NEW j \in 0..n, j = n \/ p[j + 1] > v PROVE k <= j
      BY <2>3, <2>5
  <2>6. QED BY Zenon, <2>2, <2>3, <2>4, <2>5
<1>6. \A i \in 1..k : p[i] <= v
  <2>1. SUFFICES ASSUME NEW i \in 1..k, ~(p[i] <= v) PROVE FALSE
      OBVIOUS
  <2>2. i - 1 \in 0..n /\ (i - 1) + 1 = i /\ p[i] \in Nat
      BY <1>4, <1>5
  <2>3. k <= i - 1
      BY <1>5, <2>1, <2>2
  <2>4. QED BY <2>1, <2>3
<1>7. \A i \in (k + 1)..n : p[i] > v
  <2>1. SUFFICES ASSUME NEW i \in (k + 1)..n PROVE p[i] > v
      OBVIOUS
  <2>2. /\ k + 1 \in 1..n /\ p[k + 1] \in Nat /\ p[k + 1] > v
        /\ i \in 1..n /\ p[i] \in Nat
      BY <1>4, <1>5
  <2>3. p[k + 1] <= p[i]
      BY <1>2, <1>4, <2>2 DEF Increasing
  <2>4. QED BY <2>2, <2>3
<1>k. /\ \A i \in 1..(n - k) : i + k \in 1..n /\ i + k \in (k + 1)..n
      /\ \A i, j \in 1..(n - k) : i < j => i + k < j + k
    BY <1>5
<1>8. PICK u \in Seq(Nat) : /\ u = Uncovered(s) /\ DOMAIN u = 1..(n - k)
                           /\ \A i \in 1..(n - k) : u[i] = p[i + k]
  <2>1. Uncovered(s) = SubSeq(p, k + 1, n)
      BY <1>1, <1>2, <1>5 DEF Uncovered
  <2>2. /\ SubSeq(p, k + 1, n) \in Seq(Nat)
        /\ DOMAIN SubSeq(p, k + 1, n) = 1..(n - k)
        /\ \A i \in 1..(n - k) : SubSeq(p, k + 1, n)[i] = p[i + k]
    <3>1. \A i \in (k + 1)..n : p[i] \in Nat
        BY <1>4
    <3>2. /\ SubSeq(p, k + 1, n) \in Seq(Nat)
          /\ Len(SubSeq(p, k + 1, n)) = n - k
          /\ \A i \in 1..(n - k) : SubSeq(p, k + 1, n)[i] = p[(k + 1) + i - 1]
      <4>1. PICK m \in Int : m = k + 1
          OBVIOUS
      <4>2. n \in Int /\ \A i \in m..n : p[i] \in Nat
          BY <3>1, <4>1
      <4>3. /\ SubSeq(p, m, n) \in Seq(Nat)
            /\ Len(SubSeq(p, m, n)) = IF m <= n THEN n - m + 1 ELSE 0
            /\ \A i \in 1..(n - m + 1) : SubSeq(p, m, n)[i] = p[m + i - 1]
          BY Zenon, <4>1, <4>2, SubSeqFacts
      <4>4. n - m + 1 = n - k /\ (~(m <= n) => n - k = 0)
          BY <1>5, <4>1
      <4>5. QED BY <4>1, <4>3, <4>4
    <3>3. \A i \in 1..(n - k) : (k + 1) + i - 1 = i + k
        OBVIOUS
    <3>4. QED BY <3>2, <3>3
  <2>3. QED BY Zenon, <2>1, <2>2
<1>9. Increasing(u)
  <2>1. SUFFICES ASSUME NEW i \in 1..(n - k), NEW j \in 1..(n - k), i < j
                 PROVE  u[i] < u[j]
      BY <1>8 DEF Increasing
  <2>2. i + k \in 1..n /\ j + k \in 1..n /\ i + k < j + k
      BY Zenon, <1>k, <2>1
  <2>3. QED BY Zenon, <1>2, <1>4, <1>8, <2>2 DEF Increasing
<1>10. \A i \in DOMAIN u : v < u[i] /\ Holds(p, u[i])
  <2>1. SUFFICES ASSUME NEW i \in DOMAIN u PROVE v < u[i] /\ Holds(p, u[i])
      OBVIOUS
  <2>2. i + k \in 1..n /\ i + k \in (k + 1)..n /\ u[i] = p[i + k]
      BY Zenon, <1>k, <1>8
  <2>3. QED BY <1>2, <1>4, <1>7, <2>2 DEF Holds
<1>11. ASSUME NEW r \in Nat, v < r, Holds(p, r) PROVE Holds(u, r)
  <2>1. PICK i \in 1..n : p[i] = r
      BY <1>2, <1>11 DEF Holds
  <2>2. i \in (k + 1)..n
      BY SMTT(30), <1>5, <1>6, <1>11, <2>1
  <2>3. i - k \in 1..(n - k) /\ (i - k) + k = i
      BY <1>5, <2>2
  <2>4. QED BY Zenon, <1>8, <2>1, <2>3 DEF Holds
<1>12. QED BY <1>1, <1>3, <1>8, <1>9, <1>10, <1>11

\* Activation, which drops the held rows the backlog covers, keeps it.
LEMMA ActivateKeeps ==
    ASSUME IInv, NEW c \in Clients, Activate(c)
    PROVE  Kept(c)
<1> DEFINE s == sub[c]
           u == Uncovered(s)
           l == IF u = <<>> THEN s.rev ELSE u[Len(u)]
<1>1. /\ s.phase = "backlog" /\ s \in StreamRec /\ UNCHANGED clientVars
      /\ UNCHANGED <<log, cursor, hubPC, batch, lost, lastRev, got, snapAt>>
    BY DEF Activate, StreamOnly, clientVars, logVars, IInv, TypeOK, ClientType
<1>2. /\ Len(log) \in Nat /\ DOMAIN log = 1..Len(log)
      /\ lastRev[c] \in Nat /\ s.rev \in Nat
    BY <1>1, LogFacts DEF IInv, TypeOK, ClientType, StreamRec
<1>3. CASE Len(u) > BufferCap
    BY ZenonT(20), <1>1, <1>3, EndingKeeps DEF Activate, IInv, TypeOK
<1>4. CASE ~(Len(u) > BufferCap)
  <2>1. /\ sub'[c] = [s EXCEPT !.phase = "ready", !.pending = <<>>,
                               !.events = u, !.lastSent = l, !.hb = s.rev,
                               !.since = 0]
        /\ targets' = targets
      BY Zenon, <1>4 DEF Activate, IInv, TypeOK, ClientType
  <2>2. /\ s.since = lastRev[c] /\ Increasing(s.pending)
        /\ \A i \in DOMAIN s.pending : Done(c, s.pending[i])
        /\ \A r \in DOMAIN log :
              s.rev < r /\ Done(c, r) /\ Matches(s, r)
              => Holds(s.pending, r) \/ r \in lost
        /\ s.since <= s.rev /\ s.rev <= Len(log)
        /\ \A r \in s.replay : s.since < r /\ r <= s.rev
    <3>1. /\ s.since = lastRev[c] /\ Increasing(s.pending)
          /\ \A i \in DOMAIN s.pending : Done(c, s.pending[i])
          /\ \A r \in DOMAIN log :
                s.rev < r /\ Done(c, r) /\ Matches(s, r)
                => Holds(s.pending, r) \/ r \in lost
        BY Zenon, <1>1 DEF IInv, StreamInv, ComputingInv, Computing
    <3>2. /\ s.since <= s.rev /\ s.rev <= Len(log)
          /\ \/ s.replay = {}
             \/ s.replay = {r \in (s.since + 1)..s.rev : Matches(s, r)}
        BY Zenon, <1>1 DEF IInv, StreamInv, ReplayInv
    <3>3. s.replay \subseteq (s.since + 1)..s.rev
        BY Zenon, <3>2
    <3>4. \A r \in s.replay : s.since < r /\ r <= s.rev
        BY <1>2, <3>1, <3>3
    <3>5. QED BY Zenon, <3>1, <3>2, <3>4
  <2>3. /\ u \in Seq(Nat) /\ Increasing(u)
        /\ \A i \in DOMAIN u : s.rev < u[i] /\ Holds(s.pending, u[i])
        /\ \A r \in Nat : s.rev < r /\ Holds(s.pending, r) => Holds(u, r)
      BY ZenonT(20), <1>1, <2>2, UncoveredFacts
  <2> HIDE DEF u
  <2>4. \A i \in DOMAIN u : Done(c, u[i])
      BY <2>2, <2>3 DEF Holds
  <2>5. /\ l \in Nat /\ \A i \in DOMAIN u : u[i] <= l
        /\ l = s.rev \/ (s.rev < l /\ Done(c, l))
    <3>1. CASE u = <<>>
        BY <1>2, <3>1
    <3>2. CASE u # <<>>
      <4>1. Len(u) \in DOMAIN u /\ DOMAIN u = 1..Len(u) /\ l = u[Len(u)]
          BY <2>3, <3>2
      <4>2. \A i \in DOMAIN u : u[i] \in Nat /\ (i = Len(u) \/ i < Len(u))
          BY <2>3, <4>1
      <4>3. \A i \in DOMAIN u : u[i] <= l
          BY <2>3, <4>1, <4>2 DEF Increasing
      <4>4. QED BY <2>3, <2>4, <4>1, <4>2, <4>3
    <3>3. QED BY <3>1, <3>2
  <2> HIDE DEF l
  <2>6. sub'[c] \in StreamRec
    <3>1. <<>> \in Seq(Nat) /\ s \in StreamRec /\ u \in Seq(Nat) /\ l \in Nat
          /\ s.rev \in Nat
        BY <1>1, <1>2, <2>3, <2>5
    <3> HIDE DEF s
    <3>2. [s EXCEPT !.phase = "ready", !.pending = <<>>, !.events = u]
             \in StreamRec
        BY <3>1, Zenon DEF StreamRec, Phases
    <3>3. PICK t \in StreamRec :
              t = [s EXCEPT !.phase = "ready", !.pending = <<>>, !.events = u]
        BY <3>2
    <3>4. [t EXCEPT !.lastSent = l, !.hb = s.rev, !.since = 0] \in StreamRec
        BY <3>1, Zenon DEF StreamRec
    <3>5. QED BY <2>1, <3>3, <3>4
  <2>7. TargetInv(c)'
      BY <1>1, <2>1
      DEF StreamRec, IInv, StreamInv, TargetInv, Matches, InRegistry, Computing,
          Active
  <2>8. ComputingInv(c)'
      BY <1>1, <2>1 DEF StreamRec, ComputingInv, Computing
  <2>9. ReplayInv(c)'
      BY <1>1, <2>1 DEF StreamRec, IInv, StreamInv, ReplayInv
  <2>10. ActiveInv(c)'
    <3>1. \A r \in DOMAIN log :
              s.rev < r /\ Done(c, r) /\ Matches(s, r)
              => Holds(u, r) \/ r \in lost
        BY <1>2, <2>2, <2>3
    <3>2. QED
        BY SMTT(30), <1>1, <1>2, <2>1, <2>2, <2>3, <2>4, <2>5, <3>1
        DEF StreamRec, ActiveInv, QueueInv, CompleteInv, Active, Done, Matches
  <2>11. QED
      BY <1>1, <2>6, <2>7, <2>8, <2>9, <2>10
      DEF Kept, StreamInv, IInv, TypeOK, ClientType
<1>5. QED BY <1>3, <1>4

\* Sending a snapshot keeps it.
LEMMA SendSnapshotKeeps ==
    ASSUME IInv, NEW c \in Clients, SendSnapshot(c)
    PROVE  Kept(c)
<1> DEFINE s == sub[c]
<1>1. /\ s.phase = "ready" /\ s.isSnap /\ s \in StreamRec
      /\ sub'[c] = [s EXCEPT !.phase = "live"]
      /\ lastRev'[c] = Max({lastRev[c], s.rev})
      /\ snapAt'[c] = Max({snapAt[c], s.rev})
      /\ UNCHANGED <<log, cursor, hubPC, batch, targets, lost, got>>
    BY DEF SendSnapshot, StreamOnly, logVars, IInv, TypeOK, ClientType
<1>2. /\ Len(log) \in Nat /\ DOMAIN log = 1..Len(log) /\ s.rev \in Nat
      /\ lastRev[c] \in 0..Len(log) /\ snapAt[c] \in 0..Len(log)
    BY <1>1, LogFacts DEF IInv, TypeOK, ClientType, StreamRec
<1>3. /\ s.rev <= Len(log) /\ s.hb = s.rev /\ s.replay = {}
      /\ lastRev[c] <= s.hb
    BY <1>1 DEF IInv, StreamInv, ActiveInv, QueueInv, ReplayInv, Active
<1>4. /\ lastRev'[c] \in 0..Len(log) /\ snapAt'[c] \in 0..Len(log)
      /\ lastRev'[c] = s.rev
  <2>1. lastRev[c] \in Nat /\ snapAt[c] \in Nat
      BY <1>2
  <2>2. /\ Max({lastRev[c], s.rev}) \in {lastRev[c], s.rev}
        /\ s.rev <= Max({lastRev[c], s.rev})
        /\ Max({snapAt[c], s.rev}) \in {snapAt[c], s.rev}
      BY <1>2, <2>1, MaxPair, Zenon
  <2>3. Max({lastRev[c], s.rev}) = s.rev
      BY <1>2, <1>3, <2>1, <2>2
  <2>4. QED BY <1>1, <1>2, <1>3, <2>2, <2>3
<1>5. sub'[c] \in StreamRec
    BY <1>1, PhaseRec DEF Phases
<1>6. TargetInv(c)'
    BY <1>1
    DEF StreamRec, IInv, StreamInv, TargetInv, Matches, InRegistry, Active
<1>7. ComputingInv(c)'
    BY <1>1 DEF StreamRec, ComputingInv, Computing
<1>8. ReplayInv(c)'
    BY <1>1 DEF StreamRec, IInv, StreamInv, ReplayInv
<1>9. ActiveInv(c)'
  <2>1. /\ sub'[c].phase = "live"
        /\ sub'[c].ids = s.ids /\ sub'[c].pending = s.pending
        /\ sub'[c].rev = s.rev /\ sub'[c].hb = s.hb
        /\ sub'[c].replay = s.replay
        /\ sub'[c].events = s.events /\ sub'[c].lastSent = s.lastSent
      BY <1>1 DEF StreamRec
  <2>2. QueueInv(c) /\ CompleteInv(c)
      BY <1>1 DEF IInv, StreamInv, ActiveInv, Active
  <2>3. QueueInv(c)'
      BY <1>1, <1>2, <1>3, <1>4, <2>1, <2>2 DEF QueueInv, Done
  <2>4. CompleteInv(c)'
      BY <1>1, <2>1, <2>2 DEF CompleteInv, Done, Matches
  <2>5. QED BY <2>3, <2>4 DEF ActiveInv
<1>10. QED
    BY <1>1, <1>4, <1>5, <1>6, <1>7, <1>8, <1>9
    DEF Kept, StreamInv, IInv, TypeOK, ClientType

\* An event above the client's revision is applied and becomes its revision.
LEMMA Applies ==
    ASSUME ClientType, LogType, NEW c \in Clients, NEW r \in Nat,
           ClientApplies(c, r), lastRev[c] < r, r <= Len(log)
    PROVE  /\ lastRev'[c] = r /\ got'[c] = got[c] \cup {r} /\ snapAt' = snapAt
           /\ lastRev'[c] \in 0..Len(log) /\ got'[c] \subseteq DOMAIN log
<1>1. /\ lastRev[c] \in Nat /\ Len(log) \in Nat /\ DOMAIN log = 1..Len(log)
      /\ got[c] \subseteq DOMAIN log
    BY LogFacts DEF ClientType
<1>2. /\ Max({lastRev[c], r}) \in {lastRev[c], r}
      /\ r <= Max({lastRev[c], r})
    BY <1>1, MaxPair, Zenon
<1>3. Max({lastRev[c], r}) = r
    BY <1>1, <1>2
<1>4. lastRev'[c] = r /\ got'[c] = got[c] \cup {r} /\ snapAt' = snapAt
    BY <1>3 DEF ClientApplies, ClientType
<1>5. QED BY <1>1, <1>4

\* Sending the next row of a replay keeps it.
LEMMA SendReplayKeeps ==
    ASSUME IInv, NEW c \in Clients, SendReplay(c)
    PROVE  Kept(c)
<1> DEFINE s == sub[c]
<1>1. /\ s.phase = "ready" /\ s \in StreamRec
      /\ UNCHANGED <<log, cursor, hubPC, batch, targets, lost>>
    BY DEF SendReplay, StreamOnly, logVars, IInv, TypeOK, ClientType
<1>2. QueueInv(c) /\ CompleteInv(c) /\ TargetInv(c) /\ ReplayInv(c)
    BY <1>1 DEF IInv, StreamInv, ActiveInv, Active
<1>3. CASE s.replay = {}
  <2>1. sub'[c] = [s EXCEPT !.phase = "live"] /\ UNCHANGED <<lastRev, got, snapAt>>
      BY <1>3 DEF SendReplay, clientVars, IInv, TypeOK, ClientType
  <2>2. sub'[c] \in StreamRec
      BY <1>1, <2>1, PhaseRec DEF Phases
  <2>3. /\ sub'[c].phase = "live"
        /\ sub'[c].ids = s.ids /\ sub'[c].pending = s.pending
        /\ sub'[c].rev = s.rev /\ sub'[c].hb = s.hb
        /\ sub'[c].replay = s.replay /\ sub'[c].isSnap = s.isSnap
        /\ sub'[c].events = s.events /\ sub'[c].lastSent = s.lastSent
      BY ZenonT(20), <1>1, <2>1 DEF StreamRec
  <2>4. TargetInv(c)'
      BY SMTT(30), <1>1, <1>2, <2>3 DEF TargetInv, Matches, InRegistry, Active
  <2>5. ComputingInv(c)' /\ ReplayInv(c)'
      BY Zenon, <1>2, <2>3 DEF ComputingInv, Computing, ReplayInv
  <2>6. QueueInv(c)'
      BY <1>1, <1>2, <1>3, <2>1, <2>3 DEF QueueInv, Done
  <2>7. CompleteInv(c)'
      BY ZenonT(20), <1>1, <1>2, <2>1, <2>3 DEF CompleteInv, Done, Matches
  <2>8. QED
      BY <2>1, <2>2, <2>4, <2>5, <2>6, <2>7
      DEF Kept, StreamInv, ActiveInv, IInv, TypeOK, ClientType
<1>4. CASE s.replay # {}
  <2>0. s.replay \in SUBSET Nat /\ s.rev \in Nat /\ Len(log) \in Nat
      BY <1>1, LogFacts DEF StreamRec, IInv, TypeOK
  <2>1. PICK r \in s.replay :
            /\ sub'[c] = [s EXCEPT !.replay = s.replay \ {r}]
            /\ ClientApplies(c, r) /\ \A q \in s.replay : r <= q
      BY Zenon, <1>4, <2>0, MinNat DEF SendReplay, IInv, TypeOK, ClientType
  <2>2. lastRev[c] < r /\ r <= s.rev /\ r \in Nat /\ r <= Len(log) /\ s.hb = s.rev
      BY <1>1, <1>2, <2>0 DEF QueueInv
  <2>3. /\ lastRev'[c] = r /\ got'[c] = got[c] \cup {r} /\ snapAt' = snapAt
        /\ lastRev'[c] \in 0..Len(log) /\ got'[c] \subseteq DOMAIN log
      BY <2>1, <2>2, Applies DEF IInv, TypeOK
  <2>4. sub'[c] \in StreamRec
      BY ZenonT(30), <1>1, <2>0, <2>1 DEF StreamRec
  <2>5. /\ sub'[c].phase = "ready"
        /\ sub'[c].ids = s.ids /\ sub'[c].pending = s.pending
        /\ sub'[c].rev = s.rev /\ sub'[c].hb = s.hb
        /\ sub'[c].replay = s.replay \ {r} /\ sub'[c].isSnap = s.isSnap
        /\ sub'[c].events = s.events /\ sub'[c].lastSent = s.lastSent
      BY ZenonT(20), <1>1, <2>1 DEF StreamRec
  <2>6. TargetInv(c)'
      BY <1>1, <1>2, <2>5 DEF TargetInv, Matches
  <2>7. ComputingInv(c)' /\ ReplayInv(c)'
      BY Zenon, <1>2, <2>5 DEF ComputingInv, Computing, ReplayInv
  <2>8. QueueInv(c)'
    <3>1. lastRev'[c] <= s.hb
        BY Zenon, <2>2, <2>3
    <3>2. \A q \in s.replay \ {r} : r < q
        BY <2>0, <2>1
    <3>3. \A q \in s.replay \ {r} : lastRev'[c] < q /\ q <= s.rev
        BY Zenon, <1>2, <2>3, <3>2 DEF QueueInv
    <3>4. QED BY ZenonT(30), <1>1, <1>2, <2>5, <3>1, <3>3 DEF QueueInv, Done
  <2>9. CompleteInv(c)'
      BY ZenonT(20), <1>1, <1>2, <2>3, <2>5 DEF CompleteInv, Done, Matches
  <2>10. QED
      BY ZenonT(20), <2>3, <2>4, <2>6, <2>7, <2>8, <2>9
      DEF Kept, StreamInv, ActiveInv, IInv, TypeOK, ClientType
<1>5. QED BY <1>3, <1>4

\* Sending the next queued row keeps it.
LEMMA PumpEventKeeps ==
    ASSUME IInv, NEW c \in Clients, PumpEvent(c)
    PROVE  Kept(c)
<1> DEFINE s == sub[c]
           h == Head(s.events)
<1>1. /\ s.phase = "live" /\ s \in StreamRec /\ s.events # <<>>
      /\ sub'[c] = [s EXCEPT !.events = Tail(s.events), !.hb = h]
      /\ ClientApplies(c, h)
      /\ UNCHANGED <<log, cursor, hubPC, batch, targets, lost>>
    BY DEF PumpEvent, StreamOnly, logVars, IInv, TypeOK, ClientType
<1>2. QueueInv(c) /\ CompleteInv(c) /\ TargetInv(c) /\ ReplayInv(c)
    BY <1>1 DEF IInv, StreamInv, ActiveInv, Active
<1>3. PICK e \in Seq(Nat) : e = s.events /\ e # <<>>
    BY ZenonT(20), <1>1 DEF StreamRec
<1>4. PICK t \in Seq(Nat) : t = Tail(s.events) /\ DOMAIN t = 1..(Len(e) - 1)
                           /\ \A i \in DOMAIN t : t[i] = e[i + 1]
  <2>1. /\ Tail(e) \in Seq(Nat) /\ Len(Tail(e)) = Len(e) - 1
        /\ \A i \in 1..Len(Tail(e)) : Tail(e)[i] = e[i + 1]
      BY <1>3
  <2>2. DOMAIN Tail(e) = 1..(Len(e) - 1)
      BY <2>1
  <2>3. QED BY ZenonT(30), <1>3, <2>1, <2>2
<1>5. /\ 1 \in DOMAIN e /\ DOMAIN e = 1..Len(e) /\ Len(e) \in Nat /\ h = e[1]
      /\ e[1] \in Nat
    BY <1>3
<1>l. \A i \in 1..(Len(e) - 1) : i + 1 \in 1..Len(e) /\ 1 < i + 1
    BY <1>5
<1>6. /\ s.hb < h /\ h <= s.lastSent /\ Done(c, h) /\ h \in Nat
      /\ lastRev[c] <= s.hb /\ s.hb \in Nat /\ lastRev[c] \in Nat
  <2>1. s.hb < h /\ h <= s.lastSent /\ Done(c, h) /\ lastRev[c] <= s.hb
      BY <1>2, <1>3, <1>5 DEF QueueInv
  <2>2. s.hb \in Nat
      BY <1>1 DEF StreamRec
  <2>3. lastRev[c] \in Nat
      BY LogFacts DEF IInv, TypeOK, ClientType
  <2>4. QED BY <1>5, <2>1, <2>2, <2>3
<1>7. h <= Len(log) /\ Len(log) \in Nat
    BY <1>6, DoneInLog, LogFacts DEF IInv, TypeOK
<1>8. /\ lastRev'[c] = h /\ got'[c] = got[c] \cup {h} /\ snapAt' = snapAt
      /\ lastRev'[c] \in 0..Len(log) /\ got'[c] \subseteq DOMAIN log
    BY <1>1, <1>6, <1>7, Applies DEF IInv, TypeOK
<1> HIDE DEF h
<1>9. sub'[c] \in StreamRec
    BY Zenon, <1>1, <1>4, <1>6 DEF StreamRec
<1>10. /\ sub'[c].phase = "live"
       /\ sub'[c].ids = s.ids /\ sub'[c].pending = s.pending
       /\ sub'[c].rev = s.rev /\ sub'[c].hb = h
       /\ sub'[c].replay = s.replay /\ sub'[c].isSnap = s.isSnap
       /\ sub'[c].events = t /\ sub'[c].lastSent = s.lastSent
    BY <1>1, <1>4 DEF StreamRec
<1>11. TargetInv(c)'
    BY <1>1, <1>2, <1>10 DEF TargetInv, Matches
<1>12. ComputingInv(c)' /\ ReplayInv(c)'
    BY Zenon, <1>2, <1>10 DEF ComputingInv, Computing, ReplayInv
<1>13. \A i \in DOMAIN t : i + 1 \in DOMAIN e /\ 1 < i + 1
    BY Zenon, <1>l, <1>4, <1>5
<1>14. QueueInv(c)'
  <2>0. Increasing(e)
      BY <1>2, <1>3 DEF QueueInv
  <2>1. Increasing(t)
    <3>1. SUFFICES ASSUME NEW i \in DOMAIN t, NEW j \in DOMAIN t, i < j
                   PROVE  t[i] < t[j]
        BY DEF Increasing
    <3>2. i + 1 < j + 1
        BY SMTT(30), <1>4, <1>5, <3>1
    <3>3. QED BY <1>4, <1>13, <2>0, <3>2 DEF Increasing
  <2>2. \A i \in DOMAIN t : h < t[i] /\ t[i] <= s.lastSent /\ Done(c, t[i])
      BY ZenonT(30), <1>2, <1>3, <1>4, <1>5, <1>13 DEF QueueInv, Increasing
  <2>3. s.rev <= h /\ s.replay = {}
    <3>1. s.rev <= s.hb /\ s.replay = {}
        BY Zenon, <1>1, <1>2 DEF QueueInv
    <3>2. s.rev \in Nat /\ s.hb \in Nat
        BY Zenon, <1>1 DEF StreamRec
    <3>3. QED BY <1>6, <3>1, <3>2
  <2>4. /\ s.pending = <<>> /\ s.rev <= Len(log) /\ h \in Nat
        /\ s.lastSent = s.rev \/ (s.rev < s.lastSent /\ Done(c, s.lastSent))
      BY SMTT(30), <1>2, <1>6 DEF QueueInv
  <2>5. h <= h
      BY <1>6
  <2>6. QED
      BY Zenon, <1>1, <1>6, <1>7, <1>8, <1>10, <2>1, <2>2, <2>3, <2>4, <2>5
      DEF QueueInv, Done
<1>15. CompleteInv(c)'
  <2>1. \A r : Holds(e, r) => r = h \/ Holds(t, r)
    <3>1. SUFFICES ASSUME NEW i \in DOMAIN e, i # 1 PROVE Holds(t, e[i])
        BY <1>5 DEF Holds
    <3>2. i - 1 \in DOMAIN t /\ (i - 1) + 1 = i
        BY <1>4, <1>5, <3>1
    <3>3. QED BY Zenon, <1>4, <3>2 DEF Holds
  <2>2. QED
      BY Zenon, <1>1, <1>2, <1>3, <1>8, <1>10, <2>1 DEF CompleteInv, Done, Matches
<1>16. QED
    BY Zenon, <1>8, <1>9, <1>10, <1>11, <1>12, <1>14, <1>15
    DEF Kept, StreamInv, ActiveInv, IInv, TypeOK, ClientType

\* A heartbeat, which also moves the client's revision, keeps it.
LEMMA PumpHeartbeatKeeps ==
    ASSUME IInv, NEW c \in Clients, PumpHeartbeat(c)
    PROVE  Kept(c)
<1> DEFINE s == sub[c]
<1>1. /\ s.phase = "live" /\ s \in StreamRec
      /\ UNCHANGED <<log, cursor, hubPC, batch, lost, got, snapAt>>
    BY SMTT(30) DEF PumpHeartbeat, StreamOnly, logVars, IInv, TypeOK, ClientType
<1>2. CASE ~StillBound(s)
    BY <1>1, <1>2, EndingKeeps DEF PumpHeartbeat, clientVars, IInv, TypeOK
<1>3. CASE StillBound(s)
  <2>1. /\ sub' = sub /\ targets' = targets
        /\ lastRev'[c] = Max({lastRev[c], s.hb})
      BY ZenonT(20), <1>3 DEF PumpHeartbeat, IInv, TypeOK, ClientType
  <2>2. StreamInv(c) /\ QueueInv(c) /\ CompleteInv(c)
      BY ZenonT(20), <1>1 DEF IInv, StreamInv, ActiveInv, Active
  <2>3. /\ s.hb \in Nat /\ lastRev[c] \in Nat /\ Len(log) \in Nat
        /\ lastRev[c] <= s.hb /\ s.hb <= Len(log)
      BY <1>1, <2>2, LogFacts DEF QueueInv, StreamRec, IInv, TypeOK, ClientType
  <2>4. Max({lastRev[c], s.hb}) \in {lastRev[c], s.hb} /\ s.hb <= Max({lastRev[c], s.hb})
      BY <2>3, MaxPair, Zenon
  <2>5. lastRev'[c] = s.hb /\ lastRev'[c] \in 0..Len(log)
      BY SMTT(30), <2>1, <2>3, <2>4
  <2>6. TargetInv(c)'
      BY SMTT(30), <1>1, <2>1, <2>2 DEF StreamInv, TargetInv, Matches
  <2>7. ComputingInv(c)' /\ ReplayInv(c)'
      BY ZenonT(30), <1>1, <2>1, <2>2 DEF StreamInv, ComputingInv, Computing, ReplayInv
  <2>8. QueueInv(c)'
    <3>1. s.replay = {}
        BY Zenon, <1>1, <2>2 DEF QueueInv
    <3>a. s.hb <= s.hb
        BY <2>3
    <3>2. QED BY ZenonT(30), <1>1, <2>1, <2>2, <2>5, <3>1, <3>a
              DEF QueueInv, Done
  <2>9. CompleteInv(c)'
      BY Zenon, <1>1, <2>1, <2>2 DEF CompleteInv, Done, Matches
  <2>10. QED
      BY <1>1, <2>1, <2>5, <2>6, <2>7, <2>8, <2>9
      DEF Kept, StreamInv, ActiveInv, IInv, TypeOK, ClientType
<1>4. QED BY <1>2, <1>3

\* Offering a row above everything offered so far keeps the queue in order.
LEMMA AppendRow ==
    ASSUME NEW p \in Seq(Nat), NEW r \in Nat, Increasing(p),
           \A i \in DOMAIN p : p[i] < r
    PROVE  /\ Append(p, r) \in Seq(Nat) /\ Increasing(Append(p, r))
           /\ \A q : Holds(Append(p, r), q) <=> Holds(p, q) \/ q = r
<1>1. PICK n \in Nat : n = Len(p) /\ DOMAIN p = 1..n
    OBVIOUS
<1>2. PICK t \in Seq(Nat) : /\ t = Append(p, r) /\ Len(t) = n + 1
                           /\ DOMAIN t = 1..(n + 1)
                           /\ \A i \in 1..n : t[i] = p[i]
                           /\ t[n + 1] = r
  <2>1. /\ Append(p, r) \in Seq(Nat) /\ Len(Append(p, r)) = n + 1
        /\ \A i \in 1..n : Append(p, r)[i] = p[i]
        /\ Append(p, r)[n + 1] = r
      BY <1>1
  <2>2. DOMAIN Append(p, r) = 1..(n + 1)
      BY <2>1
  <2>3. QED BY Zenon, <2>1, <2>2
<1>3. 1..(n + 1) = (1..n) \cup {n + 1}
    OBVIOUS
<1>4. Increasing(t)
    BY <1>1, <1>2, <1>3 DEF Increasing
<1>5. \A q : Holds(t, q) <=> Holds(p, q) \/ q = r
    BY <1>1, <1>2, <1>3 DEF Holds
<1>6. QED BY <1>2, <1>4, <1>5

\* An offer from dispatch keeps it, full queue or not.
LEMMA DispatchOfferKeeps ==
    ASSUME IInv, NEW c \in Clients, DispatchOffer(c)
    PROVE  Kept(c)
<1> DEFINE s == sub[c]
<1>1. /\ hubPC = "offer" /\ c \in targets /\ targets' = targets \ {c}
      /\ s \in StreamRec /\ OfferTo(c)
      /\ UNCHANGED <<log, cursor, hubPC, batch, lost, lastRev, got, snapAt>>
    BY DEF DispatchOffer, logVars, clientVars, IInv, TypeOK, ClientType
<1>2. PICK r \in DOMAIN log :
          r = Min(batch) /\ r \in Nat /\ cursor < r /\ cursor \in Nat
  <2>1. batch # {}
      BY <1>1 DEF IInv, HubInv
  <2>2. QED BY <2>1, BatchMin, LogFacts DEF IInv, TypeOK, HubInv, HubType
<1>3. \A q : Done(c, q) <=> q <= cursor
    BY <1>1 DEF Done
<1>4. \A q : Done(c, q)' <=> (q <= cursor \/ q = r)
    BY <1>1, <1>2 DEF Done
<1>5. StreamInv(c) /\ s.phase \in InRegistry
    BY SMTT(30), <1>1 DEF IInv, StreamInv, TargetInv
<1>6. TargetInv(c)'
    BY <1>1 DEF TargetInv
<1>7. ASSUME sub'[c] = Closed PROVE Kept(c)
    BY <1>1, <1>7, ClosedType, ClosedInv DEF Kept, IInv, TypeOK, ClientType
<1>8. CASE s.phase \in Computing /\ ~(Len(s.pending) >= BufferCap)
  <2>1. sub'[c] = [s EXCEPT !.pending = Append(s.pending, r)]
      BY Zenon, <1>1, <1>2, <1>8 DEF OfferTo, IInv, TypeOK, ClientType
  <2>2. PICK p \in Seq(Nat) : p = s.pending
      BY <1>1 DEF StreamRec
  <2>3. Increasing(p) /\ \A i \in DOMAIN p : p[i] <= cursor /\ p[i] \in Nat
    <3>1. Increasing(p) /\ \A i \in DOMAIN p : Done(c, p[i])
        BY Zenon, <1>5, <1>8, <2>2 DEF StreamInv, ComputingInv
    <3>2. \A i \in DOMAIN p : p[i] \in Nat
        BY <2>2
    <3>3. QED BY Zenon, <1>3, <3>1, <3>2
  <2>4. \A i \in DOMAIN p : p[i] < r
      BY <1>2, <2>3
  <2>5. PICK t \in Seq(Nat) : /\ t = Append(p, r) /\ Increasing(t)
                             /\ \A q : Holds(t, q) <=> Holds(p, q) \/ q = r
      BY Zenon, <1>2, <2>3, <2>4, AppendRow
  <2>6. sub'[c] \in StreamRec
      BY <1>1, <2>1, <2>2, <2>5, Zenon DEF StreamRec
  <2>7. /\ sub'[c].phase = s.phase
        /\ sub'[c].ids = s.ids /\ sub'[c].pending = t
        /\ sub'[c].rev = s.rev /\ sub'[c].since = s.since
        /\ sub'[c].cur = s.cur /\ sub'[c].rcur = s.rcur
        /\ sub'[c].replay = s.replay /\ sub'[c].isSnap = s.isSnap
        /\ sub'[c].events = s.events
      BY <1>1, <2>1, <2>2, <2>5 DEF StreamRec
  <2>8. \A i \in DOMAIN t : Done(c, t[i])'
    <3>1. \A i \in DOMAIN t : Holds(p, t[i]) \/ t[i] = r
        BY SMTT(30), <2>5 DEF Holds
    <3>2. QED BY <1>4, <2>3, <3>1 DEF Holds
  <2>9. ComputingInv(c)'
    <3>1. s.phase \notin {"off", "bound"}
        BY SMTT(30), <1>8 DEF Computing
    <3>2. s.since = lastRev[c] /\ s.events = <<>>
        BY ZenonT(30), <1>5, <1>8 DEF StreamInv, ComputingInv
    <3>3. s.phase \in {"current", "replay", "snapshot"} =>
            /\ s.cur <= Len(log)
            /\ \A q \in DOMAIN log :
                  s.cur < q /\ Done(c, q)' /\ Matches(s, q)
                  => Holds(t, q) \/ q \in lost
        BY ZenonT(30), <1>3, <1>4, <1>5, <2>2, <2>5 DEF StreamInv, ComputingInv
    <3>4. s.phase = "backlog" =>
            \A q \in DOMAIN log :
                  s.rev < q /\ Done(c, q)' /\ Matches(s, q)
                  => Holds(t, q) \/ q \in lost
        BY ZenonT(20), <1>3, <1>4, <1>5, <2>2, <2>5 DEF StreamInv, ComputingInv
    <3>5. QED
        BY ZenonT(30), <1>1, <2>5, <2>7, <2>8, <3>1, <3>2, <3>3, <3>4
        DEF ComputingInv, Matches
  <2>10. ReplayInv(c)' /\ ActiveInv(c)'
    <3>1. ReplayInv(c)'
      <4>1. \A q : Matches(s, q) <=> Matches(s, q)'
          BY Zenon, <1>1, <2>7 DEF Matches
      <4>2. /\ {q \in (s.since + 1)..s.rcur : Matches(s, q)}
                = {q \in (s.since + 1)..s.rcur : Matches(s, q)}'
            /\ {q \in (s.since + 1)..s.rev : Matches(s, q)}
                = {q \in (s.since + 1)..s.rev : Matches(s, q)}'
          BY Zenon, <2>7, <4>1
      <4>3. QED BY ZenonT(30), <1>1, <1>5, <2>7, <4>2 DEF StreamInv, ReplayInv
    <3>2. s.phase \notin Active
        BY <1>8 DEF Active, Computing
    <3>3. QED BY Zenon, <2>7, <3>1, <3>2 DEF ActiveInv
  <2>11. QED
      BY <1>1, <1>6, <2>6, <2>9, <2>10 DEF Kept, StreamInv, IInv, TypeOK, ClientType
<1>9. ASSUME s.phase \notin Computing
      PROVE  QueueInv(c) /\ CompleteInv(c) /\ ReplayInv(c) /\ s.phase \in Active
    BY <1>5, <1>9 DEF InRegistry, StreamInv, ActiveInv
<1>10. s.rev \in Nat /\ s.lastSent \in Nat
    BY <1>1 DEF StreamRec
<1>11. CASE s.phase \notin Computing /\ r <= s.lastSent
  <2>1. sub' = sub
      BY ZenonT(20), <1>1, <1>2, <1>11 DEF OfferTo
  <2>2. r <= s.rev
      BY SMTT(30), <1>2, <1>3, <1>9, <1>10, <1>11 DEF QueueInv
  <2>3. ComputingInv(c)' /\ ReplayInv(c)'
      BY ZenonT(30), <1>1, <1>9, <1>11, <2>1
      DEF ComputingInv, ReplayInv, Active, Computing
  <2>4. QueueInv(c)'
      BY ZenonT(30), <1>1, <1>3, <1>4, <1>9, <1>11, <2>1 DEF QueueInv
  <2>5. CompleteInv(c)'
    <3>1. SUFFICES ASSUME NEW q \in DOMAIN log,
                          s.rev < q, Done(c, q)', Matches(s, q)
                   PROVE  Holds(s.events, q) \/ q \in got[c] \/ q \in lost
        BY Zenon, <1>1, <2>1 DEF CompleteInv, Matches
    <3>2. q # r
        BY <1>2, <1>10, <2>2, <3>1, LogFacts DEF IInv, TypeOK
    <3>3. Done(c, q)
        BY Zenon, <1>3, <1>4, <3>1, <3>2
    <3>4. QED BY Zenon, <1>9, <1>11, <3>1, <3>3 DEF CompleteInv
  <2>6. QED
      BY <1>1, <1>6, <2>1, <2>3, <2>4, <2>5
      DEF Kept, StreamInv, ActiveInv, IInv, TypeOK, ClientType
<1>12. CASE /\ s.phase \notin Computing
            /\ ~(r <= s.lastSent) /\ ~(Len(s.events) >= BufferCap)
  <2>1. sub'[c] = [s EXCEPT !.events = Append(s.events, r), !.lastSent = r]
      BY Zenon, <1>1, <1>2, <1>12 DEF OfferTo, IInv, TypeOK, ClientType
  <2>2. PICK p \in Seq(Nat) : p = s.events
      BY ZenonT(20), <1>1 DEF StreamRec
  <2>3. /\ Increasing(p)
        /\ \A i \in DOMAIN p : /\ p[i] \in Nat /\ p[i] <= cursor
                               /\ p[i] <= s.lastSent /\ s.hb < p[i]
    <3>1. /\ Increasing(p)
          /\ \A i \in DOMAIN p : Done(c, p[i]) /\ p[i] <= s.lastSent /\ s.hb < p[i]
        BY Zenon, <1>9, <1>12, <2>2 DEF QueueInv
    <3>2. \A i \in DOMAIN p : p[i] \in Nat
        BY <2>2
    <3>3. QED BY Zenon, <1>3, <3>1, <3>2
  <2>4. \A i \in DOMAIN p : p[i] < r
      BY <1>2, <2>3
  <2>5. PICK t \in Seq(Nat) : /\ t = Append(p, r) /\ Increasing(t)
                             /\ \A q : Holds(t, q) <=> Holds(p, q) \/ q = r
      BY ZenonT(30), <1>2, <2>3, <2>4, AppendRow
  <2>6. sub'[c] \in StreamRec
      BY <1>1, <1>2, <2>1, <2>2, <2>5, Zenon DEF StreamRec
  <2>7. /\ sub'[c].phase = s.phase
        /\ sub'[c].ids = s.ids /\ sub'[c].pending = s.pending
        /\ sub'[c].rev = s.rev /\ sub'[c].hb = s.hb
        /\ sub'[c].replay = s.replay /\ sub'[c].isSnap = s.isSnap
        /\ sub'[c].events = t /\ sub'[c].lastSent = r
      BY <1>1, <2>1, <2>2, <2>5 DEF StreamRec
  <2>8. ComputingInv(c)' /\ ReplayInv(c)'
      BY ZenonT(30), <1>1, <1>9, <1>12, <2>7
      DEF ComputingInv, ReplayInv, Active, Computing
  <2>9. s.rev < r /\ s.hb < r /\ s.hb <= r
    <3>1. s.hb \in Nat
        BY SMTT(30), <1>1 DEF StreamRec
    <3>2. s.hb <= s.lastSent /\ (s.rev <= s.hb)
        BY Zenon, <1>9, <1>12 DEF QueueInv
    <3>3. QED BY <1>2, <1>10, <1>12, <3>1, <3>2
  <2>10. \A i \in DOMAIN t : s.hb < t[i] /\ t[i] <= r /\ Done(c, t[i])'
    <3>1. \A i \in DOMAIN t : Holds(p, t[i]) \/ t[i] = r
        BY <2>5 DEF Holds
    <3>2. QED BY SMTT(30), <1>2, <1>4, <2>3, <2>4, <2>9, <3>1 DEF Holds
  <2>11. QueueInv(c)'
      BY ZenonT(30), <1>1, <1>4, <1>9, <1>12, <2>5, <2>7, <2>9, <2>10 DEF QueueInv
  <2>12. CompleteInv(c)'
      BY ZenonT(30), <1>1, <1>3, <1>4, <1>9, <1>12, <2>2, <2>5, <2>7 DEF CompleteInv, Matches
  <2>13. QED
      BY <1>1, <1>6, <2>6, <2>8, <2>11, <2>12
      DEF Kept, StreamInv, ActiveInv, IInv, TypeOK, ClientType
<1>13. QED
  <2>1. CASE \/ s.phase \in Computing /\ Len(s.pending) >= BufferCap
             \/ s.phase \notin Computing /\ ~(r <= s.lastSent)
                /\ Len(s.events) >= BufferCap
    <3>1. sub'[c] = Closed
        BY <1>1, <1>2, <2>1 DEF OfferTo, IInv, TypeOK, ClientType
    <3>2. QED BY <1>7, <3>1
  <2>2. QED BY <1>8, <1>11, <1>12, <2>1

-----------------------------------------------------------------------------
(* The inductive step.                                                     *)

\* Steps that move neither the log nor what the hub has finished with.
LEMMA QuietKeeps ==
    ASSUME LogType, HubType, HubInv, ClientType, NEW c \in Clients, StreamInv(c),
           UNCHANGED <<sub, lastRev, got, targets, log, cursor>>,
           lost \subseteq lost',
           \/ UNCHANGED <<hubPC, batch>>
           \/ hubPC # "offer" /\ hubPC' # "offer"
    PROVE  StreamInv(c)'
<1>1. \A r : Done(c, r)' <=> Done(c, r)
    BY DEF Done
<1>2. TargetInv(c)'
    BY DEF StreamInv, TargetInv, Matches, HubInv
<1>3. Len(log) <= Len(log') /\ Len(log') \in Nat
    BY LogFacts
<1>4. QED BY Zenon, <1>1, <1>2, <1>3, Frame

\* A commit keeps every stream's part of the invariant.
LEMMA CommitKeeps ==
    ASSUME LogType, HubType, HubInv, ClientType, NEW c \in Clients, StreamInv(c),
           NEW n \in Namespaces, Commit(n)
    PROVE  StreamInv(c)'
<1>1. UNCHANGED <<sub, lastRev, got, targets, cursor, hubPC, batch, lost>>
    BY DEF Commit, hubVars, clientVars
<1>2. /\ Len(log') = Len(log) + 1 /\ DOMAIN log' = 1..(Len(log) + 1)
      /\ Len(log) \in Nat /\ DOMAIN log = 1..Len(log)
      /\ \A r \in DOMAIN log : log'[r] = log[r]
    BY DEF Commit, AppendChange, LogType
<1>3. ASSUME Done(c, Len(log) + 1) PROVE FALSE
    BY <1>2, <1>3, DoneInLog
<1>4. \A r : Done(c, r)' <=> Done(c, r)
    BY <1>1 DEF Done
<1>5. \A r \in DOMAIN log' : Done(c, r)' => r \in DOMAIN log
    BY SMTT(30), <1>2, <1>3, <1>4
<1>6. TargetInv(c)'
  <2>1. ASSUME c \in targets PROVE Min(batch) \in DOMAIN log
      BY <2>1, BatchMin DEF HubInv
  <2>2. QED BY <1>1, <1>2, <2>1 DEF StreamInv, TargetInv, Matches
<1>7. Len(log) <= Len(log') /\ Len(log') \in Nat
    BY SMTT(30), <1>2
<1>8. QED BY <1>1, <1>2, <1>4, <1>5, <1>6, <1>7, Frame

\* So does the choice of the streams a row goes to ...
LEMMA DispatchCopyKeeps ==
    ASSUME LogType, HubType, HubInv, ClientType, NEW c \in Clients, StreamInv(c),
           DispatchCopy
    PROVE  StreamInv(c)'
<1>1. /\ UNCHANGED <<sub, lastRev, got, cursor, batch, lost, log>>
      /\ hubPC = "dispatch" /\ hubPC' = "offer"
      /\ c \in targets' <=> /\ sub[c].phase \in InRegistry
                            /\ Matches(sub[c], Min(batch))
    BY DEF DispatchCopy, logVars, clientVars
<1>2. \A r : Done(c, r) <=> r <= cursor
    BY <1>1 DEF Done
<1>3. \A r : Done(c, r)' <=> (r <= cursor \/ (r = Min(batch) /\ c \notin targets'))
    BY <1>1 DEF Done
<1>4. TargetInv(c)'
    BY <1>1 DEF TargetInv, Matches
<1>5. \A r : Matches(sub[c], r)' <=> Matches(sub[c], r)
    BY <1>1 DEF Matches
<1>6. Len(log) <= Len(log') /\ Len(log') \in Nat
    BY <1>1, LogFacts
<1>7. QED BY SMTT(30), <1>1, <1>2, <1>3, <1>4, <1>5, <1>6, Frame

\* ... the move of the cursor past a dispatched row ...
LEMMA DrainAdvanceKeeps ==
    ASSUME LogType, HubType, HubInv, ClientType, NEW c \in Clients, StreamInv(c),
           DrainAdvance
    PROVE  StreamInv(c)'
<1>1. /\ UNCHANGED <<sub, lastRev, got, targets, lost, log>>
      /\ hubPC = "offer" /\ hubPC' # "offer" /\ targets = {}
      /\ cursor' = Min(batch)
    BY DEF DrainAdvance, logVars, clientVars
<1>2. /\ Min(batch) \in batch /\ Min(batch) \in Nat /\ cursor < Min(batch)
      /\ \A b \in batch : Min(batch) <= b
      /\ cursor \in Nat
    BY <1>1, BatchMin, LogFacts DEF HubInv, HubType
<1>3. \A r : Done(c, r) <=> (r <= cursor \/ r = Min(batch))
    BY <1>1 DEF Done
<1>4. \A r : Done(c, r)' <=> r <= Min(batch)
    BY <1>1 DEF Done
<1>5. ASSUME NEW r \in DOMAIN log, r <= Min(batch)
      PROVE  r <= cursor \/ r = Min(batch) \/ r \in lost
  <2>1. r \in Nat
      BY LogFacts
  <2>2. ASSUME cursor < r, r # Min(batch), r \in rows PROVE FALSE
      BY <1>2, <1>5, <2>1, <2>2 DEF HubInv
  <2>3. QED BY <1>2, <2>1, <2>2 DEF HubInv
<1>6. \A r \in Nat : Done(c, r) => Done(c, r)'
    BY <1>2, <1>3, <1>4
<1>7. \A r \in DOMAIN log : Done(c, r)' => Done(c, r) \/ r \in lost
    BY <1>3, <1>4, <1>5
<1>8. TargetInv(c)'
    BY <1>1 DEF TargetInv
<1>9. Len(log) <= Len(log') /\ Len(log') \in Nat
    BY <1>1, LogFacts
<1>10. QED BY <1>1, <1>6, <1>7, <1>8, <1>9, Frame

\* ... and a restart of the server.
LEMMA RestartKeeps ==
    ASSUME NEW c \in Clients, Restart
    PROVE  StreamInv(c)'
<1>1. sub'[c] = Closed /\ c \notin targets'
    BY DEF Restart
<1>2. QED BY <1>1, ClosedInv

\* A step of one stream: its own invariant by the lemma of its action.
LEMMA OwnKeeps ==
    ASSUME IInv, NEW c \in Clients,
           \/ DropExpired(c) \/ Connect(c) \/ Disconnect(c) \/ Stream(c)
           \/ DispatchOffer(c)
    PROVE  Kept(c)
<1>1. CASE DropExpired(c) \/ Disconnect(c)
  <2>1. CloseStream(c) /\ UNCHANGED clientVars
      BY <1>1 DEF DropExpired, Disconnect
  <2>2. QED BY <2>1, EndingKeeps DEF IInv, TypeOK
<1>2. CASE Stream(c)
    BY ZenonT(20), <1>2, RegisterKeeps, ReadCurrentKeeps, CanReplayKeeps,
       CanReplayFailsKeeps, ReplayPageKeeps, SnapshotReadKeeps, ActivateKeeps,
       SendSnapshotKeeps, SendReplayKeeps, PumpEventKeeps, PumpHeartbeatKeeps
    DEF Stream
<1>3. QED BY <1>1, <1>2, ConnectKeeps, DispatchOfferKeeps

\* Every step of a stream keeps that stream's part of the invariant.
LEMMA OwnStep ==
    ASSUME IInv, NEW c \in Clients,
           \/ DropExpired(c) \/ Connect(c) \/ Disconnect(c) \/ Stream(c)
           \/ DispatchOffer(c)
    PROVE  ClientType' /\ \A d \in Clients : StreamInv(d)'
<1>1. Kept(c)
    BY OwnKeeps
<1>2. UNCHANGED <<log, cursor, hubPC, batch, lost>>
  <2>1. CASE DispatchOffer(c)
      BY <2>1 DEF DispatchOffer, logVars
  <2>2. CASE DropExpired(c) \/ Connect(c) \/ Disconnect(c) \/ Stream(c)
      BY ZenonT(20), <2>2, StreamStepFrame DEF StreamStep
  <2>3. QED BY <2>1, <2>2
<1>3. ASSUME NEW d \in Clients, d # c
      PROVE  /\ sub'[d] = sub[d] /\ lastRev'[d] = lastRev[d] /\ got'[d] = got[d]
             /\ d \in targets' <=> d \in targets
    BY SMTT(30), <1>3, OtherStreams DEF IInv, TypeOK
<1>4. ASSUME NEW d \in Clients, d # c PROVE StreamInv(d)'
  <2>1. StreamInv(d) /\ \A r : Done(d, r)' <=> Done(d, r)
      BY ZenonT(20), <1>2, <1>3, <1>4 DEF IInv, Done
  <2>2. TargetInv(d)'
      BY <1>2, <1>3, <1>4, <2>1 DEF StreamInv, TargetInv, Matches
  <2>3. Len(log) <= Len(log') /\ Len(log') \in Nat
      BY <1>2, LogFacts DEF IInv, TypeOK
  <2>4. QED BY ZenonT(30), <1>2, <1>3, <1>4, <2>1, <2>2, <2>3, Frame DEF IInv, TypeOK
<1>5. PICK s, l, g, a : /\ sub' = [sub EXCEPT ![c] = s]
                        /\ lastRev' = [lastRev EXCEPT ![c] = l]
                        /\ got' = [got EXCEPT ![c] = g]
                        /\ snapAt' = [snapAt EXCEPT ![c] = a]
    BY OwnPlace DEF IInv, TypeOK
<1>6. ClientType'
    BY <1>1, <1>2, <1>5 DEF Kept, IInv, TypeOK, ClientType
<1>7. QED BY <1>1, <1>4, <1>6 DEF Kept

\* The inductive invariant holds initially ...
LEMMA IInvInit == Init => IInv
<1> SUFFICES ASSUME Init PROVE IInv
    OBVIOUS
<1>1. TypeOK
    BY TypeInit
<1>2. HubInv
    BY SMTT(30), <1>1, LogFacts DEF Init, LogInit, HubInv, CurrentRevision, TypeOK
<1>3. ASSUME NEW c \in Clients PROVE StreamInv(c)
    BY DEF Init, StreamInv, TargetInv, ComputingInv, ReplayInv, ActiveInv,
           Closed, Computing, Active
<1>4. QED BY <1>1, <1>2, <1>3 DEF IInv

\* ... and every step keeps it.
LEMMA IInvStep == IInv /\ [Next]_vars => IInv'
<1> SUFFICES ASSUME IInv, [Next]_vars PROVE IInv'
    OBVIOUS
<1>1. LogType /\ HubType /\ FlagType /\ ClientType /\ HubInv
      /\ \A c \in Clients : StreamInv(c)
    BY DEF IInv, TypeOK
<1>2. LogType' /\ HubType' /\ FlagType' /\ HubInv'
    BY <1>1, LogTypeStep, HubStep, FlagStep
<1>3. SUFFICES ClientType' /\ \A c \in Clients : StreamInv(c)'
    BY <1>2 DEF IInv, TypeOK
<1>4. ASSUME UNCHANGED <<sub, lastRev, got, snapAt, log>> PROVE ClientType'
    BY <1>1, <1>4 DEF ClientType
<1>5. ASSUME UNCHANGED <<sub, lastRev, got, snapAt, targets, log, cursor>>,
             lost \subseteq lost',
             \/ UNCHANGED <<hubPC, batch>>
             \/ hubPC # "offer" /\ hubPC' # "offer"
      PROVE  ClientType' /\ \A c \in Clients : StreamInv(c)'
    BY <1>1, <1>4, <1>5, QuietKeeps
<1>6. ASSUME NEW n \in Namespaces, Commit(n)
      PROVE  ClientType' /\ \A c \in Clients : StreamInv(c)'
  <2>1. ClientType'
    <3>1. /\ Len(log') = Len(log) + 1 /\ DOMAIN log' = 1..(Len(log) + 1)
          /\ Len(log) \in Nat /\ DOMAIN log = 1..Len(log)
          /\ UNCHANGED <<sub, lastRev, got, snapAt>>
        BY <1>1, <1>6 DEF Commit, AppendChange, LogType, clientVars
    <3>2. 0..Len(log) \subseteq 0..Len(log') /\ DOMAIN log \subseteq DOMAIN log'
        BY <3>1
    <3>3. QED BY <1>1, <3>1, <3>2 DEF ClientType
  <2>2. QED BY <1>1, <1>6, <2>1, CommitKeeps
<1>7. ASSUME NEW n \in Watched, ReplaceNamespace(n)
      PROVE  ClientType' /\ \A c \in Clients : StreamInv(c)'
    BY <1>5, <1>7
    DEF ReplaceNamespace, DeleteNamespace, CreateNamespace, logVars, hubVars,
        clientVars
<1>8. CASE Wake \/ RunWake \/ RunRetry \/ DrainFail
    BY <1>5, <1>8 DEF Wake, RunWake, RunRetry, DrainFail, logVars, clientVars
<1>9. CASE DrainRead
    BY <1>5, <1>9 DEF DrainRead, logVars, clientVars
<1>10. CASE PruneChangeLog
    BY <1>5, <1>10 DEF PruneChangeLog, hubVars, clientVars
<1>11. CASE UNCHANGED vars
    BY <1>5, <1>11 DEF vars
<1>12. CASE Restart
  <2>1. ClientType'
      BY <1>1, <1>12, ClosedType DEF Restart, ClientType, logVars, clientVars
  <2>2. QED BY <1>12, <2>1, RestartKeeps
<1>13. CASE DispatchCopy
    BY SMTT(30), <1>1, <1>4, <1>13, DispatchCopyKeeps
    DEF DispatchCopy, logVars, clientVars
<1>14. CASE DrainAdvance
    BY Zenon, <1>1, <1>4, <1>14, DrainAdvanceKeeps
    DEF DrainAdvance, logVars, clientVars
<1>15. ASSUME NEW c \in Clients, DispatchOffer(c)
       PROVE  ClientType' /\ \A d \in Clients : StreamInv(d)'
    BY <1>15, OwnStep
<1>16. CASE StreamStep
    BY <1>16, OwnStep DEF StreamStep
<1>17. QED
    BY ZenonT(20), <1>6, <1>7, <1>8, <1>9, <1>10, <1>11, <1>12, <1>13, <1>14, <1>15,
       <1>16, NextCases

-----------------------------------------------------------------------------
(* Theorems.                                                               *)

\* The inductive invariant holds throughout: what the hub, a registering stream
\* and an active stream hold at every point of drain, dispatch and Subscribe.
THEOREM Invariance == Spec => []IInv
    BY IInvInit, IInvStep, PTL DEF Spec

\* Every variable of the hub, of its streams and of the clients keeps its
\* type: in particular the cursor never passes the newest revision, and the
\* page being dispatched holds only rows still in the table.
THEOREM TypeCorrect == Spec => []TypeOK
<1>1. IInv => TypeOK
    BY DEF IInv
<1>2. QED BY <1>1, Invariance, PTL

\* Whatever is dispatched while a Subscribe call computes its backlog, the
\* stream's channel holds rows in revision order, above the backlog.
THEOREM DeliveryOrder == Spec => []EventsInOrder
<1>1. ASSUME IInv PROVE EventsInOrder
  <2>1. SUFFICES ASSUME NEW c \in Clients, sub[c].phase \in Active
                 PROVE  /\ \A i \in DOMAIN sub[c].events : sub[c].rev < sub[c].events[i]
                        /\ Increasing(sub[c].events)
      BY DEF EventsInOrder, Increasing
  <2>2. QueueInv(c)
      BY <1>1, <2>1 DEF IInv, StreamInv, ActiveInv
  <2>3. sub[c] \in StreamRec
      BY <1>1 DEF IInv, TypeOK, ClientType
  <2>4. sub[c].rev \in Nat /\ sub[c].hb \in Nat /\ sub[c].events \in Seq(Nat)
      BY <2>3 DEF StreamRec
  <2>5. QED BY <2>2, <2>4 DEF QueueInv
<1>2. QED BY <1>1, Invariance, PTL

\* Neither a heartbeat nor an event ever moves a client's revision past a row
\* its stream still has to send.
THEOREM NoOvertaking == Spec => []NothingOvertaken
<1>1. ASSUME IInv PROVE NothingOvertaken
  <2>1. SUFFICES ASSUME NEW c \in Clients, sub[c].phase \in Active
                 PROVE  /\ \A i \in DOMAIN sub[c].events :
                              lastRev[c] < sub[c].events[i]
                        /\ \A r \in sub[c].replay : lastRev[c] < r
      BY DEF NothingOvertaken, Queued
  <2>2. QueueInv(c)
      BY <1>1, <2>1 DEF IInv, StreamInv, ActiveInv
  <2>3. sub[c] \in StreamRec /\ lastRev[c] \in Nat
      BY <1>1, LogFacts DEF IInv, TypeOK, ClientType
  <2>4. sub[c].hb \in Nat /\ sub[c].events \in Seq(Nat)
      BY <2>3 DEF StreamRec
  <2>5. QED BY <2>2, <2>3, <2>4 DEF QueueInv
<1>2. QED BY <1>1, Invariance, PTL

\* No row falls between a stream's backlog and its live events: registering
\* before reading CurrentRevision is enough, for every page size, buffer size
\* and interleaving with the dispatch goroutine.
THEOREM NoGap == Spec => []LiveComplete
<1>1. ASSUME IInv PROVE LiveComplete
  <2>1. SUFFICES ASSUME NEW c \in Clients, sub[c].phase \in Active,
                        NEW r \in (sub[c].rev + 1)..cursor,
                        Matches(sub[c], r)
                 PROVE  r \in Queued(sub[c]) \cup got[c] \cup lost
      BY ZenonT(20) DEF LiveComplete
  <2>2. CompleteInv(c)
      BY <1>1, <2>1 DEF IInv, StreamInv, ActiveInv
  <2>3. /\ sub[c] \in StreamRec /\ cursor \in 0..Len(log) /\ Len(log) \in Nat
        /\ DOMAIN log = 1..Len(log)
      BY <1>1, LogFacts DEF IInv, TypeOK, ClientType, HubType
  <2>4. sub[c].rev \in Nat
      BY <2>3 DEF StreamRec
  <2>5. r \in DOMAIN log /\ sub[c].rev < r /\ Done(c, r)
      BY <2>1, <2>3, <2>4 DEF Done
  <2>6. QED BY <2>1, <2>2, <2>5 DEF CompleteInv, Holds, Queued
<1>2. QED BY <1>1, Invariance, PTL

\* A replay is used only when it is complete, whatever pruning does between
\* the reads of its pages.
THEOREM ReplayIsExact == Spec => []ReplayExact
<1>1. ASSUME IInv PROVE ReplayExact
    BY ZenonT(20), <1>1 DEF IInv, StreamInv, ReplayInv, ReplayExact
<1>2. QED BY <1>1, Invariance, PTL

===============================================================================
