------------------------- MODULE ReleaseSessionsProofs ------------------------
(***************************************************************************)
(* Proofs about ReleaseSessions for any numbers of releases, resources,    *)
(* sessions and streams and any retention.                                 *)
(*                                                                         *)
(* The argument.  Every change of a session's target is written under a    *)
(* revision that is new at the time (TargetMoves), so a delivery row, and  *)
(* with it an acknowledgement, is at or below its session's target and at  *)
(* the target's revision only if it names the target.  A sequence that was *)
(* recorded is either among the retained events or at or below the         *)
(* watermark (RecordedInv), which is why it is never fresh again.          *)
(***************************************************************************)
EXTENDS ReleaseSessions, TLAPS, FiniteSetTheorems

-----------------------------------------------------------------------------
(* The inductive invariant.                                                *)

\* A session without a row has nothing left of an earlier one.
RowsInv ==
    \A s \in Sessions \ live :
        /\ pin[s] = NoPin /\ conn[s] = NoConn /\ deliv[s] = {}
        /\ eff[s] = NoAck /\ applied[s] = NoAck
        /\ watermark[s] = 0 /\ events[s] = {} /\ considered[s] = {}

\* Targets carry revisions that have been appended.
RevInv == current.act <= rev /\ \A s \in Sessions : pin[s].rev <= rev

\* A connection id is one stream's.
StreamInv ==
    /\ \A st \in open : st.id <= opened
    /\ \A st, other \in open : st.id = other.id => st = other

\* A recorded sequence is retained or at most the watermark.
RecordedInv ==
    \A s \in Sessions : \A a \in considered[s] :
        a \in events[s] \/ a.seq <= watermark[s]

\* The newest release has not been pruned.
CounterInv == counter # 0 => counter \in DOMAIN rels

IInv ==
    /\ TypeOK
    /\ RowsInv /\ RevInv /\ StreamInv /\ RecordedInv /\ CounterInv
    /\ ReferencedReleasesIntact
    /\ RevisionNamesOneTarget
    /\ CaughtUpMeansTarget
    /\ EffectiveIsNewest
    /\ OnePayloadPerSequence
    /\ OpenStreamIsConnected

-----------------------------------------------------------------------------
(* The steps, by what they change.                                         *)

Creates ==
    \E m \in SUBSET Resources, application \in BOOLEAN :
        CreateConfigurationRelease(m, application) /\ UNCHANGED sessionVars

Activates ==
    /\ \E v \in DOMAIN rels : MoveLabels(v)
    /\ rollback' \in {rollback, NoRollback}
    /\ UNCHANGED sessionVars

\* Rollback calls, pruned log rows and stuttering.
Idles ==
    /\ actLog' \subseteq actLog
    /\ rollback' \in {rollback, NoRollback,
                      [from |-> current.v, to |-> previous.v]}
    /\ UNCHANGED <<rev, counter, rels, current, previous, acts, res, sessionVars>>

Changes == ResourceStep /\ UNCHANGED <<trackVars, sessionVars>>

Registers == \E s \in Sessions : RegisterReleaseSession(s)

Opens == \E s \in Sessions : OpenStream(s)

Resolves == \E s \in Sessions : ResolveInstanceRelease(s)

SetsPin == \E s \in Sessions, v \in {0} \cup DOMAIN rels : SetReleasePin(s, v)

Closes == \E st \in open : CloseStream(st)

Acknowledges ==
    \E st \in open :
        \E seq \in SequenceNumbers, d \in deliv[st.s], state \in AckStates :
            Acknowledge(st, [seq |-> seq, rev |-> d.rev, v |-> d.v,
                             act |-> d.act, state |-> state])

PrunesReleases ==
    \E cutoff \in 0..rev : \E oldest :
        \E old \in [Sessions -> 0..cutoff] :
            PruneConfigurationReleases(cutoff, oldest, old)

PrunesSessions == \E gone \in SUBSET live : PruneReleaseSessions(gone)

Step ==
    \/ Creates \/ Activates \/ Idles \/ Changes
    \/ Registers \/ Opens \/ Resolves \/ SetsPin \/ Closes
    \/ Acknowledges \/ Restart \/ PrunesReleases \/ PrunesSessions

\* Every step of the model is one of these.
LEMMA Steps ==
    ASSUME [Next]_vars
    PROVE  Step
<1>0. CASE UNCHANGED vars
  <2>1. UNCHANGED <<rev, counter, rels, current, previous, acts, actLog, res,
                    rollback, sessionVars>>
    BY <1>0 DEF vars, storeVars, trackVars
  <2> QED  BY <2>1 DEF Step, Idles
<1>1. CASE ReleaseStep
  <2>1. CASE Creates  BY <2>1 DEF Step
  <2>2. CASE \E v \in DOMAIN rels :
                ActivateConfigurationRelease(v) /\ UNCHANGED sessionVars
    BY <2>2 DEF Step, Activates, ActivateConfigurationRelease
  <2>3. CASE RollbackRead /\ UNCHANGED sessionVars
    BY <2>3 DEF Step, RollbackRead, Idles
  <2>4. CASE RollbackActivate /\ UNCHANGED sessionVars
    BY <2>4 DEF Step, RollbackActivate, Activates, MoveLabels
  <2>5. CASE RollbackFails /\ UNCHANGED sessionVars
    BY <2>5 DEF Step, RollbackFails, Idles
  <2> QED  BY <1>1, <2>1, <2>2, <2>3, <2>4, <2>5 DEF ReleaseStep, Creates
<1>2. CASE ResourceStep
  <2>1. UNCHANGED <<trackVars, sessionVars>>
    BY <1>2, Zenon DEF ResourceStep, RemoveResource, ReplaceParameter,
                SetSecretVersionState, PurgeSecretVersion
  <2> QED  BY <1>2, <2>1 DEF Changes, Step
<1>3. CASE SessionStep
  BY <1>3, Zenon DEF SessionStep, Step, Registers, Opens, Resolves, SetsPin,
                     Closes, Acknowledges
<1>4. CASE PruneStep
  <2>1. CASE \E a \in actLog :
                PruneActivateRows(a.rev) /\ UNCHANGED sessionVars
    BY <2>1 DEF PruneActivateRows, Idles, Step
  <2> QED
    BY <1>4, <2>1, Zenon DEF PruneStep, PrunesReleases, PrunesSessions, Step
<1> QED  BY <1>0, <1>1, <1>2, <1>3, <1>4 DEF Next

\* What each of them leaves alone.
LEMMA Frame ==
    /\ Creates => UNCHANGED <<rev, current, previous, acts, actLog, res,
                              rollback, sessionVars>>
    /\ Activates => UNCHANGED <<counter, rels, res, sessionVars>>
    /\ Idles => UNCHANGED <<rev, counter, rels, current, previous, acts, res,
                            sessionVars>>
    /\ Changes => UNCHANGED <<trackVars, sessionVars>>
    /\ Registers => UNCHANGED <<storeVars, pin, streamVars, deliv, ackVars>>
    /\ Opens => UNCHANGED <<storeVars, live, pin, deliv, ackVars>>
    /\ Resolves => UNCHANGED <<storeVars, live, pin, streamVars, ackVars>>
    /\ SetsPin => UNCHANGED <<counter, rels, current, previous, acts, actLog,
                              rollback, res, live, streamVars, ackVars>>
    /\ Closes => UNCHANGED <<storeVars, live, pin, opened, deliv, ackVars>>
    /\ Acknowledges => UNCHANGED <<storeVars, live, pin, streamVars, deliv>>
    /\ Restart => UNCHANGED <<rev, counter, rels, current, previous, acts, actLog,
                              res, live, pin, opened, deliv, ackVars>>
    /\ PrunesReleases => UNCHANGED <<rev, counter, current, previous, actLog, res,
                                     rollback, live, pin, streamVars, ackVars>>
    /\ PrunesSessions => UNCHANGED <<storeVars, open, opened>>
<1>1. Creates => UNCHANGED <<rev, current, previous, acts, actLog, res,
                             rollback, sessionVars>>
  BY DEF Creates, CreateConfigurationRelease
<1>2. Activates => UNCHANGED <<counter, rels, res, sessionVars>>
  BY DEF Activates, MoveLabels
<1>3. Idles => UNCHANGED <<rev, counter, rels, current, previous, acts, res,
                           sessionVars>>
  BY DEF Idles
<1>4. Changes => UNCHANGED <<trackVars, sessionVars>>
  BY DEF Changes
<1>5. Registers => UNCHANGED <<storeVars, pin, streamVars, deliv, ackVars>>
  BY DEF Registers, RegisterReleaseSession
<1>6. Opens => UNCHANGED <<storeVars, live, pin, deliv, ackVars>>
  BY DEF Opens, OpenStream
<1>7. Resolves => UNCHANGED <<storeVars, live, pin, streamVars, ackVars>>
  BY DEF Resolves, ResolveInstanceRelease
<1>8. SetsPin => UNCHANGED <<counter, rels, current, previous, acts, actLog,
                             rollback, res, live, streamVars, ackVars>>
  BY DEF SetsPin, SetReleasePin
<1>9. Closes => UNCHANGED <<storeVars, live, pin, opened, deliv, ackVars>>
  BY DEF Closes, CloseStream
<1>10. Acknowledges => UNCHANGED <<storeVars, live, pin, streamVars, deliv>>
  <2>1. SUFFICES ASSUME NEW st, NEW a, Acknowledge(st, a)
                 PROVE  UNCHANGED <<storeVars, live, pin, streamVars, deliv>>
    BY Zenon DEF Acknowledges
  <2> QED  BY <2>1 DEF Acknowledge
<1>11. Restart => UNCHANGED <<rev, counter, rels, current, previous, acts, actLog,
                              res, live, pin, opened, deliv, ackVars>>
  BY DEF Restart
<1>12. PrunesReleases =>
           UNCHANGED <<rev, counter, current, previous, actLog, res, rollback,
                       live, pin, streamVars, ackVars>>
  BY DEF PrunesReleases, PruneConfigurationReleases, PruneReleases
<1>13. PrunesSessions => UNCHANGED <<storeVars, open, opened>>
  BY ZenonT(30) DEF PrunesSessions, PruneReleaseSessions
<1> QED
  BY <1>1, <1>2, <1>3, <1>4, <1>5, <1>6, <1>7, <1>8, <1>9, <1>10, <1>11, <1>12,
     <1>13

-----------------------------------------------------------------------------
(* Types.                                                                  *)

USE DEF Revisions, Versions, SequenceNumbers

\* The release tables keep their types.
LEMMA StoreTypeStep ==
    ASSUME IInv, Step
    PROVE  StoreTypeOK'
<1> USE ReleaseStoreConstants
<1>0. StoreTypeOK  BY DEF IInv, TypeOK
<1>1. CASE Creates
  <2>1. PICK m \in SUBSET Resources :
            /\ counter < MaxVersion /\ counter' = counter + 1
            /\ rels' = [v \in DOMAIN rels \cup {counter + 1} |->
                           IF v = counter + 1 THEN m ELSE rels[v]]
            /\ UNCHANGED <<rev, current, previous, acts, actLog, res, rollback>>
    BY <1>1, Zenon DEF Creates, CreateConfigurationRelease
  <2>2. counter \in Nat /\ DOMAIN rels \subseteq 1..counter
    BY <1>0 DEF StoreTypeOK
  <2>3. DOMAIN rels' \subseteq 1..counter'
    BY <2>1, <2>2
  <2>4. rels' \in [DOMAIN rels' -> SUBSET Resources]
    BY <1>0, <2>1 DEF StoreTypeOK
  <2> QED  BY <1>0, <2>1, <2>3, <2>4 DEF StoreTypeOK
<1>2. CASE Activates
  <2>1. PICK v \in DOMAIN rels : MoveLabels(v)
    BY <1>2 DEF Activates
  <2>2. v \in Versions /\ rev + 1 \in Revisions
    BY <1>0, <2>1 DEF StoreTypeOK, MoveLabels
  <2>3. [rev |-> rev + 1, v |-> v] \in Activation
    BY <2>2 DEF Activation
  <2>4. current' \in Label /\ previous' \in Label
    BY <1>0, <2>1, <2>2 DEF StoreTypeOK, MoveLabels, Label
  <2>5. rollback' \in [from : 0..MaxVersion, to : 0..MaxVersion]
    BY <1>0, <1>2 DEF StoreTypeOK, Activates, NoRollback
  <2> QED
    BY <1>0, <2>1, <2>2, <2>3, <2>4, <2>5 DEF StoreTypeOK, MoveLabels
<1>3. CASE Idles
  <2>1. rollback' \in [from : 0..MaxVersion, to : 0..MaxVersion]
    BY <1>0, <1>3 DEF StoreTypeOK, Idles, NoRollback, Label
  <2> QED  BY <1>0, <1>3, <2>1 DEF StoreTypeOK, Idles
<1>4. CASE Changes
  <2>1. UNCHANGED trackVars  BY <1>4 DEF Changes
  <2>2. res' \in [Resources -> ResourceStates]
    <3>1. \E r \in Resources, x \in ResourceStates : res' = [res EXCEPT ![r] = x]
      BY <1>4 DEF Changes, ResourceStep, RemoveResource, ReplaceParameter,
                  SetSecretVersionState, PurgeSecretVersion, ResourceStates
    <3> QED  BY <1>0, <3>1 DEF StoreTypeOK
  <2> QED  BY <1>0, <2>1, <2>2 DEF StoreTypeOK, trackVars
<1>5. CASE SetsPin
  <2>1. /\ rev < MaxRevision /\ rev' = rev + 1
        /\ UNCHANGED <<counter, rels, current, previous, acts, actLog, rollback,
                       res>>
    BY <1>5 DEF SetsPin, SetReleasePin
  <2> QED  BY <1>0, <2>1 DEF StoreTypeOK
<1>6. CASE Restart
  BY <1>0, <1>6 DEF StoreTypeOK, Restart, NoRollback
<1>7. CASE PrunesReleases
  <2>1. PICK left \in SUBSET DOMAIN rels, kept \in SUBSET acts :
            /\ acts' = kept /\ rels' = [v \in left |-> rels[v]]
            /\ UNCHANGED <<rev, counter, current, previous, actLog, res,
                           rollback>>
    BY Zenon, <1>7
    DEF PrunesReleases, PruneConfigurationReleases, PruneReleases,
                KeptActs, KeptReleases
  <2> QED  BY <1>0, <2>1 DEF StoreTypeOK
<1>8. CASE UNCHANGED storeVars
  BY <1>0, <1>8 DEF StoreTypeOK, storeVars, trackVars
<1> QED
  BY <1>1, <1>2, <1>3, <1>4, <1>5, <1>6, <1>7, <1>8, Frame
  DEF Step, sessionVars, streamVars, ackVars, storeVars, trackVars

TargetKind == [rev : Revisions, v : 0..MaxVersion, act : Revisions]

\* A target is a delivery row, or names no version.
LEMMA TargetType ==
    ASSUME NEW p \in [v : 0..MaxVersion, rev : Revisions], NEW cur \in Label
    PROVE  /\ Target(p, cur) \in TargetKind
           /\ Target(p, cur).v # 0 => Target(p, cur) \in Delivery
  BY ReleaseStoreConstants DEF Target, MaxOf, Label, Delivery, TargetKind

\* So is the target of a session, before a step ...
LEMMA TargetOfType ==
    ASSUME StoreTypeOK, SessionTypeOK, NEW s \in Sessions
    PROVE  /\ TargetOf(s) \in TargetKind
           /\ TargetOf(s).v # 0 => TargetOf(s) \in Delivery
<1>1. pin[s] \in [v : 0..MaxVersion, rev : Revisions] /\ current \in Label
  BY DEF StoreTypeOK, SessionTypeOK
<1> QED  BY <1>1, TargetType DEF TargetOf

\* ... and after it.
LEMMA TargetOfTypeNext ==
    ASSUME StoreTypeOK', SessionTypeOK', NEW s \in Sessions
    PROVE  TargetOf(s)' \in TargetKind
<1>1. pin'[s] \in [v : 0..MaxVersion, rev : Revisions] /\ current' \in Label
  BY DEF StoreTypeOK, SessionTypeOK
<1>2. TargetOf(s)' = Target(pin'[s], current')  BY DEF TargetOf
<1> QED  BY <1>1, <1>2, TargetType

\* The session rows and their deliveries keep their types.
LEMMA SessionTypeStep ==
    ASSUME IInv, Step
    PROVE  SessionTypeOK'
<1> USE ReleaseStoreConstants
<1>0. StoreTypeOK /\ SessionTypeOK  BY DEF IInv, TypeOK
<1>1. CASE UNCHANGED <<live, pin, deliv>>
  BY <1>0, <1>1 DEF SessionTypeOK
<1>2. CASE Registers
  BY <1>0, <1>2 DEF SessionTypeOK, Registers, RegisterReleaseSession
<1>3. CASE Resolves
  <2>1. PICK s \in Sessions : ResolveInstanceRelease(s)
    BY <1>3 DEF Resolves
  <2>2. Delivered(deliv[s], TargetOf(s)) \in SUBSET Delivery
    BY <1>0, TargetOfType DEF SessionTypeOK, Delivered
  <2> QED  BY <1>0, <2>1, <2>2 DEF SessionTypeOK, ResolveInstanceRelease
<1>4. CASE SetsPin
  <2>1. PICK s \in Sessions, v \in {0} \cup DOMAIN rels : SetReleasePin(s, v)
    BY <1>4 DEF SetsPin
  <2> DEFINE p == [v |-> v, rev |-> rev + 1]
  <2>2. p \in [v : 0..MaxVersion, rev : Revisions]
    BY <1>0, <2>1 DEF StoreTypeOK, SetReleasePin
  <2>3. Target(p, current).v # 0 => Target(p, current) \in Delivery
    BY <1>0, <2>2, TargetType DEF StoreTypeOK
  <2>4. Delivered(deliv[s], Target(p, current)) \in SUBSET Delivery
    BY <1>0, <2>3 DEF SessionTypeOK, Delivered
  <2> HIDE DEF p
  <2>5. pin' = [pin EXCEPT ![s] = p] /\ live' = live
        /\ deliv' = [deliv EXCEPT ![s] = Delivered(@, Target(p, current))]
    BY <2>1 DEF SetReleasePin, p
  <2> QED  BY <1>0, <2>2, <2>4, <2>5 DEF SessionTypeOK
<1>5. CASE PrunesReleases
  BY <1>0, <1>5 DEF SessionTypeOK, PrunesReleases, PruneConfigurationReleases,
                    KeptDeliveries
<1>6. CASE PrunesSessions
  BY SMTT(30), <1>0, <1>6
  DEF SessionTypeOK, PrunesSessions, PruneReleaseSessions, NoPin
<1> QED
  BY <1>1, <1>2, <1>3, <1>4, <1>5, <1>6, Frame
  DEF Step, sessionVars, streamVars, ackVars, storeVars, trackVars

\* The streams and connection columns keep their types.
LEMMA StreamTypeStep ==
    ASSUME IInv, Step
    PROVE  StreamTypeOK'
<1> USE ReleaseSessionsConstants
<1>0. StreamTypeOK  BY DEF IInv, TypeOK
<1>1. CASE UNCHANGED streamVars
  BY <1>0, <1>1 DEF StreamTypeOK, streamVars
<1>2. CASE Opens
  <2>1. PICK s \in Sessions : OpenStream(s)
    BY <1>2 DEF Opens
  <2>2. opened + 1 \in 1..MaxConnections
    BY <1>0, <2>1 DEF StreamTypeOK, OpenStream
  <2>3. [s |-> s, id |-> opened + 1] \in Stream
    BY <2>2 DEF Stream
  <2> QED  BY <1>0, <2>1, <2>2, <2>3 DEF StreamTypeOK, OpenStream
<1>3. CASE Closes
  <2>1. PICK st \in open : CloseStream(st)
    BY <1>3 DEF Closes
  <2>2. st \in Stream  BY <1>0 DEF StreamTypeOK
  <2>3. st.s \in Sessions  BY <2>2 DEF Stream
  <2>4. Disconnected(conn[st.s], st.id) \in [up : BOOLEAN, id : 0..MaxConnections]
    BY Zenon, <1>0, <2>3 DEF StreamTypeOK, Disconnected
  <2>5. conn' \in [Sessions -> [up : BOOLEAN, id : 0..MaxConnections]]
    BY <1>0, <2>1, <2>3, <2>4 DEF StreamTypeOK, CloseStream
  <2> QED  BY <1>0, <2>1, <2>5 DEF StreamTypeOK, CloseStream
<1>4. CASE Restart
  BY Zenon, <1>0, <1>4 DEF StreamTypeOK, Restart
<1>5. CASE PrunesSessions
  BY <1>0, <1>5 DEF StreamTypeOK, PrunesSessions, PruneReleaseSessions, NoConn
<1> QED
  BY <1>1, <1>2, <1>3, <1>4, <1>5, Frame
  DEF Step, sessionVars, streamVars, ackVars, storeVars, trackVars

\* What a stream acknowledges is built from a delivery row, so it has its type.
LEMMA AcknowledgedType ==
    ASSUME IInv, Acknowledges
    PROVE  \E st \in open, a \in Ack : Acknowledge(st, a)
<1>0. PICK st \in open :
          \E seq \in SequenceNumbers, d \in deliv[st.s], state \in AckStates :
              Acknowledge(st, [seq |-> seq, rev |-> d.rev, v |-> d.v,
                               act |-> d.act, state |-> state])
  BY Zenon DEF Acknowledges
<1>1. PICK seq \in SequenceNumbers, d \in deliv[st.s], state \in AckStates :
          Acknowledge(st, [seq |-> seq, rev |-> d.rev, v |-> d.v,
                           act |-> d.act, state |-> state])
  BY <1>0
<1>2. d \in Delivery
  <2>1. st.s \in Sessions  BY DEF IInv, TypeOK, StreamTypeOK, Stream
  <2> QED  BY <2>1 DEF IInv, TypeOK, SessionTypeOK
<1>3. [seq |-> seq, rev |-> d.rev, v |-> d.v, act |-> d.act,
       state |-> state] \in Ack
  BY Zenon, <1>2 DEF Ack, Delivery
<1> QED  BY <1>1, <1>3

\* The reducer's columns and events keep their types.
LEMMA AckTypeStep ==
    ASSUME IInv, Step
    PROVE  AckTypeOK'
<1> USE ReleaseSessionsConstants
<1>0. AckTypeOK  BY DEF IInv, TypeOK
<1>1. CASE UNCHANGED ackVars
  BY <1>0, <1>1 DEF AckTypeOK, ackVars
<1>2. CASE Acknowledges
  <2>1. PICK st \in open, a \in Ack : Acknowledge(st, a)
    BY <1>2, AcknowledgedType
  <2>2. eff' \in [Sessions -> Ack \cup {NoAck}]
    BY Zenon, <1>0, <2>1 DEF AckTypeOK, Acknowledge
  <2>3. applied' \in [Sessions -> Ack \cup {NoAck}]
    BY Zenon, <1>0, <2>1 DEF AckTypeOK, Acknowledge
  <2>4. considered' \in [Sessions -> SUBSET Ack]
    BY Zenon, <1>0, <2>1 DEF AckTypeOK, Acknowledge
  <2>5. PICK n \in 0..MaxSequence :
            /\ watermark' = [watermark EXCEPT ![st.s] = n]
            /\ events' = [events EXCEPT ![st.s] =
                             {e \in @ \cup {a} : e.seq > n}]
    BY <2>1, Zenon DEF Acknowledge
  <2>6. watermark' \in [Sessions -> 0..MaxSequence]
    BY Zenon, <1>0, <2>5 DEF AckTypeOK
  <2>7. events' \in [Sessions -> SUBSET Ack]
    BY Zenon, <1>0, <2>1, <2>5 DEF AckTypeOK
  <2> QED  BY <2>2, <2>3, <2>4, <2>6, <2>7 DEF AckTypeOK
<1>3. CASE PrunesSessions
  BY SMTT(30), <1>0, <1>3 DEF AckTypeOK, PrunesSessions, PruneReleaseSessions
<1> QED
  BY <1>1, <1>2, <1>3, Frame
  DEF Step, sessionVars, streamVars, ackVars, storeVars, trackVars

-----------------------------------------------------------------------------
(* Rows, revisions, releases.                                              *)

\* Only rows that exist are written, and a pruned session leaves nothing.
LEMMA RowsStep ==
    ASSUME IInv, Step
    PROVE  RowsInv'
<1>0. TypeOK /\ RowsInv  BY DEF IInv
<1>1. CASE UNCHANGED sessionVars
  BY SMTT(30), <1>0, <1>1 DEF RowsInv, sessionVars, streamVars, ackVars
<1>2. CASE Registers
  BY <1>0, <1>2
  DEF RowsInv, Registers, RegisterReleaseSession, streamVars, ackVars
<1>3. CASE Opens
  BY Zenon, <1>0, <1>3
  DEF RowsInv, Opens, OpenStream, ackVars, TypeOK, StreamTypeOK
<1>4. CASE Resolves
  BY <1>0, <1>4 DEF RowsInv, Resolves, ResolveInstanceRelease, streamVars,
                    ackVars, TypeOK, SessionTypeOK
<1>5. CASE SetsPin
  BY <1>0, <1>5 DEF RowsInv, SetsPin, SetReleasePin, streamVars, ackVars,
                    TypeOK, SessionTypeOK
<1>6. CASE Closes
  BY <1>0, <1>6 DEF RowsInv, Closes, CloseStream, ackVars, TypeOK, StreamTypeOK
<1>7. CASE Restart
  <2>1. [NoConn EXCEPT !.up = FALSE] = NoConn
    <3>1. NoConn \in [up : BOOLEAN, id : {0}] /\ ~NoConn.up
      BY DEF NoConn
    <3>2. [NoConn EXCEPT !.up = FALSE] \in [up : BOOLEAN, id : {0}]
      BY Zenon, <3>1
    <3>3. [NoConn EXCEPT !.up = FALSE].up = FALSE
      BY <3>1
    <3>4. \A x \in [up : BOOLEAN, id : {0}] : x.up = FALSE => x = NoConn
      BY DEF NoConn
    <3> QED  BY <3>2, <3>3, <3>4, Zenon
  <2>2. \A s \in Sessions \ live' : conn'[s] = NoConn
    <3>1. SUFFICES ASSUME NEW s \in Sessions, s \notin live
                   PROVE  conn'[s] = NoConn
      BY <1>7 DEF Restart
    <3>2. conn[s] = NoConn  BY <1>0, <3>1 DEF RowsInv
    <3>3. conn'[s] = [conn[s] EXCEPT !.up = FALSE]  BY <1>7 DEF Restart
    <3> QED  BY <2>1, <3>2, <3>3
  <2> QED  BY <1>0, <1>7, <2>2 DEF RowsInv, Restart, ackVars
<1>8. CASE Acknowledges
  <2>1. PICK st \in open, a \in Ack : Acknowledge(st, a)
    BY <1>8, AcknowledgedType
  <2>2. \A s \in Sessions \ live :
            /\ eff'[s] = eff[s] /\ applied'[s] = applied[s]
            /\ watermark'[s] = watermark[s] /\ events'[s] = events[s]
            /\ considered'[s] = considered[s]
    BY <1>0, <2>1 DEF Acknowledge, TypeOK, AckTypeOK
  <2> QED  BY <1>0, <2>1, <2>2 DEF RowsInv, Acknowledge, streamVars
<1>9. CASE PrunesReleases
  BY <1>0, <1>9 DEF RowsInv, PrunesReleases, PruneConfigurationReleases,
                    KeptDeliveries, streamVars, ackVars
<1>10. CASE PrunesSessions
  BY SMTT(30), <1>0, <1>10 DEF RowsInv, PrunesSessions, PruneReleaseSessions
<1> QED
  BY <1>1, <1>2, <1>3, <1>4, <1>5, <1>6, <1>7, <1>8, <1>9, <1>10, Frame
  DEF Step, sessionVars, streamVars, ackVars, storeVars, trackVars

\* A pin and an activation are written under the revision they append.
LEMMA RevStep ==
    ASSUME IInv, Step
    PROVE  RevInv'
<1> USE ReleaseStoreConstants
<1>0. StoreTypeOK /\ SessionTypeOK /\ RevInv  BY DEF IInv, TypeOK
<1>1. CASE UNCHANGED <<rev, current, pin>>
  BY <1>0, <1>1 DEF RevInv
<1>2. CASE Activates
  BY <1>0, <1>2 DEF RevInv, Activates, MoveLabels, sessionVars, StoreTypeOK,
                    SessionTypeOK, Label
<1>3. CASE SetsPin
  BY <1>0, <1>3 DEF RevInv, SetsPin, SetReleasePin, StoreTypeOK, SessionTypeOK,
                    Label
<1>4. CASE PrunesSessions
  BY SMTT(30), <1>0, <1>4
  DEF RevInv, PrunesSessions, PruneReleaseSessions, NoPin,
                    storeVars, trackVars, StoreTypeOK
<1> QED
  BY <1>1, <1>2, <1>3, <1>4, Frame
  DEF Step, sessionVars, streamVars, ackVars, storeVars, trackVars

\* The newest release has rank 1 or a label, so retention leaves it.
LEMMA CounterStep ==
    ASSUME IInv, Step
    PROVE  CounterInv'
<1> USE ReleaseStoreConstants
<1>0. StoreTypeOK /\ CounterInv  BY DEF IInv, TypeOK
<1>1. CASE UNCHANGED <<counter, rels>>
  BY Zenon, <1>0, <1>1 DEF CounterInv
<1>2. CASE Creates
  BY <1>0, <1>2 DEF CounterInv, Creates, CreateConfigurationRelease
<1>3. CASE PrunesReleases
  <2>1. PICK oldest, kept, pins :
            /\ rels' = [v \in KeptReleases(oldest, kept, pins) |-> rels[v]]
            /\ counter' = counter
    BY <1>3 DEF PrunesReleases, PruneConfigurationReleases, PruneReleases
  <2>2. ASSUME counter # 0, counter \notin Labelled
        PROVE  Rank(counter) = 1
    <3>1. {u \in DOMAIN rels \ Labelled : u >= counter} = {counter}
      BY <1>0, <2>2 DEF StoreTypeOK, CounterInv
    <3> QED  BY Zenon, <3>1, FS_Singleton DEF Rank
  <2>3. counter # 0 => counter \in KeptReleases(oldest, kept, pins)
    BY SMTT(30), <1>0, <2>2 DEF CounterInv, KeptReleases
  <2> QED  BY <2>1, <2>3 DEF CounterInv
<1> QED
  BY <1>1, <1>2, <1>3, Frame
  DEF Step, sessionVars, streamVars, ackVars, storeVars, trackVars

\* Labels and pins only move to releases that validate in the transaction, and
\* the protection check covers them from then on.
LEMMA IntactStep ==
    ASSUME IInv, Step
    PROVE  ReferencedReleasesIntact'
<1> DEFINE Named == Labelled \cup Pins
           Whole == {"enabled", "disabled", "purged"}
<1>0. StoreTypeOK /\ SessionTypeOK /\ RowsInv /\ ReferencedReleasesIntact
  BY DEF IInv, TypeOK
<1>1. \A v \in Named : v \in DOMAIN rels /\ \A r \in rels[v] : res[r] \in Whole
  BY <1>0 DEF ReferencedReleasesIntact
<1>2. SUFFICES \A v \in Named' :
                   v \in DOMAIN rels' /\ \A r \in rels'[v] : res'[r] \in Whole
  BY DEF ReferencedReleasesIntact
<1>3. CASE UNCHANGED <<rels, res>> /\ Named' \subseteq Named
  BY <1>1, <1>3
<1>4. CASE Creates
  <2>1. Named' = Named
    BY <1>4 DEF Creates, CreateConfigurationRelease, Labelled, Pins, sessionVars
  <2>2. \A v \in DOMAIN rels : v \in DOMAIN rels' /\ rels'[v] = rels[v]
    BY SMTT(30), <1>0, <1>4 DEF Creates, CreateConfigurationRelease, StoreTypeOK
  <2>3. res' = res
    BY <1>4 DEF Creates, CreateConfigurationRelease
  <2> QED  BY Zenon, <1>1, <2>1, <2>2, <2>3
<1>5. CASE Activates
  <2>1. PICK v \in DOMAIN rels : MoveLabels(v)
    BY Zenon, <1>5 DEF Activates
  <2>2. Named' \subseteq Named \cup {v}
    BY Zenon, <1>5, <2>1 DEF Activates, MoveLabels, Labelled, Pins, sessionVars
  <2>3. \A r \in rels[v] : res[r] \in Whole
    BY <2>1 DEF MoveLabels, Readable
  <2> QED  BY <1>1, <2>1, <2>2, <2>3 DEF MoveLabels
<1>6. CASE Changes
  <2>1. Named' = Named /\ rels' = rels
    BY <1>6 DEF Changes, Labelled, Pins, trackVars, sessionVars
  <2>2. PICK q \in Resources :
            \/ RemoveResource(q, Pins) \/ ReplaceParameter(q)
            \/ \E state \in {"enabled", "disabled"} :
                  SetSecretVersionState(q, state)
            \/ PurgeSecretVersion(q)
    BY <1>6, Zenon DEF Changes, ResourceStep
  <2>3. SUFFICES ASSUME NEW v \in Named, NEW r \in rels[v]
                 PROVE  res'[r] \in Whole
    BY <1>1, <2>1
  <2>4. v \in DOMAIN rels /\ res[r] \in Whole /\ r \in Resources
    BY <1>0, <1>1 DEF StoreTypeOK
  <2>5. CASE RemoveResource(q, Pins)
    <3>1. r # q
      BY <2>4, <2>5 DEF RemoveResource, Protected
    <3> QED  BY <1>0, <2>4, <2>5, <3>1 DEF RemoveResource, StoreTypeOK
  <2>6. CASE ReplaceParameter(q)
    BY <1>0, <2>4, <2>6 DEF ReplaceParameter, StoreTypeOK
  <2>7. CASE \E state \in {"enabled", "disabled"} :
                SetSecretVersionState(q, state)
    BY <1>0, <2>4, <2>7 DEF SetSecretVersionState, StoreTypeOK
  <2>8. CASE PurgeSecretVersion(q)
    BY <1>0, <2>4, <2>8 DEF PurgeSecretVersion, StoreTypeOK
  <2> QED  BY <2>2, <2>5, <2>6, <2>7, <2>8
<1>7. CASE Registers
  <2>1. UNCHANGED <<rels, res>> /\ Labelled' = Labelled
    BY <1>7
    DEF Registers, RegisterReleaseSession, storeVars, trackVars, Labelled
  <2>2. Pins' \subseteq Pins
    BY <1>0, <1>7 DEF Registers, RegisterReleaseSession, Pins, RowsInv, NoPin
  <2> QED  BY <1>3, <2>1, <2>2
<1>8. CASE SetsPin
  <2>1. PICK s \in Sessions, v \in {0} \cup DOMAIN rels : SetReleasePin(s, v)
    BY <1>8 DEF SetsPin
  <2>2. UNCHANGED <<rels, res>> /\ Labelled' = Labelled
    BY Zenon, <2>1 DEF SetReleasePin, Labelled
  <2>3. Pins' \subseteq Pins \cup ({v} \ {0})
    BY <1>0, <2>1 DEF SetReleasePin, Pins, SessionTypeOK
  <2>4. v # 0 => v \in DOMAIN rels /\ \A r \in rels[v] : res[r] \in Whole
    BY <2>1 DEF SetReleasePin, Readable
  <2> QED  BY <1>1, <2>2, <2>3, <2>4
<1>9. CASE PrunesReleases
  <2>1. PICK oldest, kept :
            rels' = [v \in KeptReleases(oldest, kept, Pins) |-> rels[v]]
    BY <1>9 DEF PrunesReleases, PruneConfigurationReleases, PruneReleases
  <2>2. Named' = Named /\ res' = res
    BY <1>9 DEF PrunesReleases, PruneConfigurationReleases, PruneReleases,
                Labelled, Pins
  <2>3. \A v \in Named : v \in KeptReleases(oldest, kept, Pins)
    BY <1>1 DEF KeptReleases
  <2> QED  BY <1>1, <2>1, <2>2, <2>3
<1>10. CASE PrunesSessions
  <2>1. UNCHANGED <<rels, res>> /\ Labelled' = Labelled
    BY <1>10 DEF PrunesSessions, PruneReleaseSessions, storeVars, trackVars,
                 Labelled
  <2>2. Pins' \subseteq Pins
    BY <1>0, <1>10 DEF PrunesSessions, PruneReleaseSessions, Pins, SessionTypeOK
  <2> QED  BY <1>3, <2>1, <2>2
<1>11. CASE UNCHANGED <<rels, res, current, previous, live, pin>>
  <2>1. Named' = Named  BY ZenonT(30), <1>11 DEF Labelled, Pins
  <2> QED  BY <1>3, <1>11, <2>1
<1> HIDE DEF Named, Whole
<1> QED
  BY <1>4, <1>5, <1>6, <1>7, <1>8, <1>9, <1>10, <1>11, Frame
  DEF Step, sessionVars, streamVars, ackVars, storeVars, trackVars

-----------------------------------------------------------------------------
(* Streams.                                                                *)

\* A connection id is fresh when it is opened, so only its own stream clears it.
LEMMA StreamStep ==
    ASSUME IInv, Step
    PROVE  StreamInv' /\ OpenStreamIsConnected'
<1>0. /\ StreamTypeOK /\ RowsInv
      /\ StreamInv /\ OpenStreamIsConnected
  BY DEF IInv, TypeOK
<1>1. CASE UNCHANGED <<streamVars, live>>
  BY <1>0, <1>1 DEF StreamInv, OpenStreamIsConnected, streamVars
<1>2. CASE Registers
  <2>1. PICK s \in Sessions : RegisterReleaseSession(s)
    BY ZenonT(30), <1>2 DEF Registers
  <2>2. conn[s].id = 0
    BY <1>0, <2>1 DEF RowsInv, RegisterReleaseSession, NoConn
  <2>3. \A st \in open : st.id # 0
    BY <1>0 DEF StreamTypeOK, Stream
  <2>4. UNCHANGED streamVars /\ live' = live \cup {s}
    BY <2>1 DEF RegisterReleaseSession
  <2> QED
    BY <1>0, <2>2, <2>3, <2>4 DEF StreamInv, OpenStreamIsConnected, streamVars
<1>3. CASE Opens
  <2>1. PICK s \in Sessions : OpenStream(s)
    BY <1>3 DEF Opens
  <2> DEFINE new == [s |-> s, id |-> opened + 1]
  <2>2. /\ open' = open \cup {new} /\ opened' = opened + 1 /\ live' = live
        /\ conn' = [conn EXCEPT ![s] = [up |-> TRUE, id |-> opened + 1]]
    BY <2>1 DEF OpenStream
  <2>3. opened \in Nat /\ \A st \in open : st.id \in Nat /\ st.id <= opened
    BY <1>0, ReleaseSessionsConstants DEF StreamTypeOK, Stream, StreamInv
  <2>4. new.id = opened + 1  OBVIOUS
  <2>5. StreamInv'
    BY <1>0, <2>2, <2>3, <2>4 DEF StreamInv
  <2>6. ASSUME NEW st \in open', st.s \in live', conn'[st.s].id = st.id
        PROVE  conn'[st.s].up
    <3>1. CASE st.s = s
      BY <1>0, <2>2, <3>1 DEF StreamTypeOK
    <3>2. CASE st.s # s
      <4>1. st \in open  BY <2>2, <3>2
      <4>2. conn'[st.s] = conn[st.s]
        BY <1>0, <2>2, <3>2, <4>1 DEF StreamTypeOK, Stream
      <4> QED  BY <1>0, <2>2, <2>6, <4>1, <4>2 DEF OpenStreamIsConnected
    <3> QED  BY <3>1, <3>2
  <2> QED  BY <2>5, <2>6 DEF OpenStreamIsConnected
<1>4. CASE Closes
  <2>1. PICK st \in open : CloseStream(st)
    BY <1>4 DEF Closes
  <2>2. open' = open \ {st} /\ opened' = opened /\ live' = live
    BY <2>1 DEF CloseStream
  <2>3. StreamInv'
    BY <1>0, <2>2 DEF StreamInv
  <2>4. ASSUME NEW other \in open', other.s \in live',
               conn'[other.s].id = other.id
        PROVE  conn'[other.s].up
    <3>1. other \in open /\ other.id # st.id
      BY <1>0, <2>2 DEF StreamInv
    <3>2. st.s \in Sessions /\ other.s \in Sessions
      BY <1>0, <3>1 DEF StreamTypeOK, Stream
    <3>3. conn'[other.s] = conn[other.s]
      BY <1>0, <2>1, <2>4, <3>1, <3>2
      DEF CloseStream, Disconnected, StreamTypeOK
    <3> QED  BY <1>0, <2>2, <2>4, <3>1, <3>3 DEF OpenStreamIsConnected
  <2> QED  BY <2>3, <2>4 DEF OpenStreamIsConnected
<1>5. CASE Restart
  BY <1>5 DEF Restart, StreamInv, OpenStreamIsConnected
<1>6. CASE PrunesSessions
  <2>1. PICK gone \in SUBSET live :
            /\ live' = live \ gone /\ open' = open /\ opened' = opened
            /\ conn' = [s \in Sessions |-> IF s \in gone THEN NoConn ELSE conn[s]]
    BY Zenon, <1>6 DEF PrunesSessions, PruneReleaseSessions
  <2>2. \A st \in open : st.s \in Sessions
    BY SMTT(30), <1>0 DEF StreamTypeOK, Stream
  <2> QED  BY Zenon, <1>0, <2>1, <2>2 DEF StreamInv, OpenStreamIsConnected
<1> QED
  BY <1>1, <1>2, <1>3, <1>4, <1>5, <1>6, Frame
  DEF Step, sessionVars, streamVars, ackVars, storeVars, trackVars

-----------------------------------------------------------------------------
(* Targets.                                                                *)

\* A session's target stays, or moves to a revision above all earlier ones.
LEMMA TargetMoves ==
    ASSUME IInv, Step, NEW s \in live, s \in live'
    PROVE  \/ TargetOf(s)' = TargetOf(s)
           \/ TargetOf(s)'.rev > TargetOf(s).rev
<1> USE ReleaseStoreConstants
<1>0. StoreTypeOK /\ SessionTypeOK /\ RevInv /\ s \in Sessions
  BY DEF IInv, TypeOK, SessionTypeOK
<1>1. TargetOf(s).rev \in Int /\ TargetOf(s).rev <= rev
  BY <1>0 DEF StoreTypeOK, SessionTypeOK, RevInv, TargetOf, Target, MaxOf, Label
<1>2. CASE UNCHANGED current /\ pin'[s] = pin[s]
  BY Zenon, <1>2 DEF TargetOf
<1>3. CASE Activates
  <2>1. PICK v \in DOMAIN rels : MoveLabels(v)
    BY <1>3 DEF Activates
  <2>2. pin' = pin /\ rev \in Nat /\ v # 0
        /\ current' = [v |-> v, act |-> rev + 1]
    BY SMTT(30), <1>0, <1>3, <2>1
    DEF Activates, sessionVars, MoveLabels, StoreTypeOK
  <2>3. CASE pin[s].v # 0
    BY <2>2, <2>3 DEF TargetOf, Target
  <2>4. CASE pin[s].v = 0
    <3>1. TargetOf(s)'.rev = MaxOf(pin[s].rev, rev + 1)
      BY <2>2, <2>4 DEF TargetOf, Target
    <3>2. pin[s].rev \in Nat /\ pin[s].rev <= rev
      BY <1>0 DEF SessionTypeOK, RevInv
    <3> QED  BY <1>1, <2>2, <3>1, <3>2 DEF MaxOf
  <2> QED  BY <2>3, <2>4
<1>4. CASE SetsPin
  <2>1. PICK t \in Sessions, v \in {0} \cup DOMAIN rels : SetReleasePin(t, v)
    BY <1>4 DEF SetsPin
  <2>2. current' = current /\ rev \in Nat
        /\ pin' = [pin EXCEPT ![t] = [v |-> v, rev |-> rev + 1]]
    BY <1>0, <2>1 DEF SetReleasePin, StoreTypeOK
  <2>3. CASE t # s
    <3>1. pin'[s] = pin[s]
      BY <1>0, <2>2, <2>3 DEF SessionTypeOK
    <3> QED  BY <1>2, <2>2, <3>1
  <2>4. CASE t = s
    <3>1. pin'[s] = [v |-> v, rev |-> rev + 1]
      BY <1>0, <2>2, <2>4 DEF SessionTypeOK
    <3>2. current.act \in Nat /\ current.act <= rev
      BY SMTT(30), <1>0 DEF StoreTypeOK, Label, RevInv
    <3>3. TargetOf(s)'.rev = rev + 1
      BY SMTT(30), <2>2, <3>1, <3>2 DEF TargetOf, Target, MaxOf
    <3> QED  BY <1>1, <2>2, <3>3
  <2> QED  BY <2>3, <2>4
<1>5. CASE PrunesSessions
  BY <1>0, <1>2, <1>5
  DEF PrunesSessions, PruneReleaseSessions, storeVars, trackVars
<1>6. CASE UNCHANGED <<current, pin>>
  BY <1>2, <1>6
<1> QED
  BY <1>3, <1>4, <1>5, <1>6, Frame
  DEF Step, sessionVars, streamVars, ackVars, storeVars, trackVars

\* What is at or below a target and names it when at its revision.
Fits(x, t) == x.rev <= t.rev /\ (x.rev = t.rev => x = t)

\* What fits a target fits the one the session moves to.
LEMMA FitsMoved ==
    ASSUME NEW x \in TargetKind, NEW t \in TargetKind, NEW u \in TargetKind,
           Fits(x, t), u = t \/ u.rev > t.rev
    PROVE  Fits(x, u)
  BY SMTT(30), ReleaseStoreConstants DEF Fits, TargetKind

\* The rows a live session has after a step are rows it had, or its new
\* target.
LEMMA RowsMove ==
    ASSUME IInv, Step, NEW s \in live', NEW d \in deliv'[s]
    PROVE  s \in live /\ (d \in deliv[s] \/ d = TargetOf(s)')
<1>0. StoreTypeOK /\ SessionTypeOK /\ RowsInv /\ SessionTypeOK'
  BY SessionTypeStep DEF IInv, TypeOK
<1>1. s \in Sessions  BY <1>0 DEF SessionTypeOK
<1>2. CASE UNCHANGED <<live, deliv>>
  BY <1>2
<1>3. CASE Registers
  BY <1>0, <1>1, <1>3 DEF Registers, RegisterReleaseSession, RowsInv
<1>4. CASE Resolves
  BY <1>0, <1>1, <1>4
  DEF Resolves, ResolveInstanceRelease, Delivered, TargetOf, SessionTypeOK,
      storeVars, trackVars
<1>5. CASE SetsPin
  <2>1. PICK t \in Sessions, v \in {0} \cup DOMAIN rels : SetReleasePin(t, v)
    BY <1>5 DEF SetsPin
  <2>2. deliv' = [deliv EXCEPT ![t] = Delivered(@, TargetOf(t)')]
    BY Zenon, <1>0, <2>1 DEF SetReleasePin, SessionTypeOK, TargetOf
  <2> QED  BY <1>0, <1>1, <2>1, <2>2 DEF Delivered, SessionTypeOK, SetReleasePin
<1>6. CASE PrunesReleases
  BY ZenonT(30), <1>1, <1>6
  DEF PrunesReleases, PruneConfigurationReleases, KeptDeliveries
<1>7. CASE PrunesSessions
  BY <1>1, <1>7 DEF PrunesSessions, PruneReleaseSessions
<1> QED
  BY <1>2, <1>3, <1>4, <1>5, <1>6, <1>7, Frame
  DEF Step, sessionVars, streamVars, ackVars, storeVars, trackVars

\* Delivery rows keep fitting the target.
LEMMA OneTargetStep ==
    ASSUME IInv, Step
    PROVE  RevisionNamesOneTarget'
<1>0. StoreTypeOK /\ SessionTypeOK /\ StoreTypeOK' /\ SessionTypeOK'
  BY SessionTypeStep, StoreTypeStep DEF IInv, TypeOK
<1>1. SUFFICES ASSUME NEW s \in live', NEW d \in deliv'[s]
               PROVE  Fits(d, TargetOf(s)')
  BY DEF RevisionNamesOneTarget, Fits
<1>2. s \in live /\ (d \in deliv[s] \/ d = TargetOf(s)')
  BY RowsMove
<1>3. s \in Sessions  BY <1>0 DEF SessionTypeOK
<1>4. TargetOf(s) \in TargetKind  BY <1>0, <1>3, TargetOfType
<1>5. TargetOf(s)' \in TargetKind  BY <1>0, <1>3, TargetOfTypeNext
<1>6. CASE d = TargetOf(s)'
  BY <1>5, <1>6, ReleaseStoreConstants DEF Fits, TargetKind
<1>7. CASE d \in deliv[s]
  <2>1. d \in TargetKind
    BY <1>0, <1>3, <1>7, ReleaseStoreConstants
    DEF SessionTypeOK, Delivery, TargetKind
  <2>2. Fits(d, TargetOf(s))
    BY <1>2, <1>7 DEF IInv, RevisionNamesOneTarget, Fits
  <2>3. TargetOf(s)' = TargetOf(s) \/ TargetOf(s)'.rev > TargetOf(s).rev
    BY Zenon, <1>2, TargetMoves
  <2> QED  BY <1>4, <1>5, <2>1, <2>2, <2>3, FitsMoved
<1> QED  BY <1>2, <1>6, <1>7

Row(a) == [rev |-> a.rev, v |-> a.v, act |-> a.act]

\* What a live session has acknowledged after a step it had acknowledged
\* before, or it is a row that was delivered to it.
LEMMA AcksMove ==
    ASSUME IInv, Step, NEW s \in live', NEW a \in {eff'[s], applied'[s]}
    PROVE  \/ a = NoAck
           \/ s \in live /\ (a \in {eff[s], applied[s]} \/ Row(a) \in deliv[s])
<1>0. SessionTypeOK /\ SessionTypeOK' /\ AckTypeOK /\ RowsInv
  BY SessionTypeStep DEF IInv, TypeOK
<1>1. s \in Sessions  BY <1>0 DEF SessionTypeOK
<1>2. CASE UNCHANGED <<live, ackVars>>
  BY <1>2 DEF ackVars
<1>3. CASE Registers
  BY <1>0, <1>1, <1>3 DEF Registers, RegisterReleaseSession, RowsInv, ackVars
<1>4. CASE Acknowledges
  <2>1. PICK st \in open, b \in Ack : Acknowledge(st, b)
    BY Zenon, <1>4, AcknowledgedType
  <2>2. live' = live /\ Row(b) \in deliv[st.s]
    BY Zenon, <2>1 DEF Acknowledge, Row
  <2>3. eff'[s] = eff[s] \/ (st.s = s /\ eff'[s] = b)
    BY Zenon, <1>0, <1>1, <2>1 DEF Acknowledge, AckTypeOK
  <2>4. applied'[s] = applied[s] \/ (st.s = s /\ applied'[s] = b)
    BY Zenon, <1>0, <1>1, <2>1 DEF Acknowledge, AckTypeOK
  <2> QED  BY <2>2, <2>3, <2>4
<1>5. CASE PrunesSessions
  BY ZenonT(30), <1>1, <1>5 DEF PrunesSessions, PruneReleaseSessions
<1> QED
  BY Zenon, <1>2, <1>3, <1>4, <1>5, Frame
  DEF Step, sessionVars, streamVars, ackVars, storeVars, trackVars

\* Acknowledgements keep fitting the target.
LEMMA CaughtUpStep ==
    ASSUME IInv, Step
    PROVE  CaughtUpMeansTarget'
<1>0. /\ StoreTypeOK /\ SessionTypeOK /\ StoreTypeOK' /\ SessionTypeOK'
      /\ AckTypeOK /\ AckTypeOK'
  BY Zenon, SessionTypeStep, StoreTypeStep, AckTypeStep DEF IInv, TypeOK
<1>1. SUFFICES ASSUME NEW s \in live', NEW a \in {eff'[s], applied'[s]}
               PROVE  a = NoAck \/ Fits(Row(a), TargetOf(s)')
  <2>1. ASSUME NEW s \in live', NEW a \in {eff'[s], applied'[s]},
               a = NoAck \/ Fits(Row(a), TargetOf(s)')
        PROVE  /\ a.rev <= TargetOf(s)'.rev
               /\ a.rev = TargetOf(s)'.rev /\ a # NoAck => Row(a) = TargetOf(s)'
    <3>1. TargetOf(s)'.rev \in Nat
      BY <1>0, TargetOfTypeNext, ReleaseStoreConstants
      DEF SessionTypeOK, TargetKind
    <3> QED  BY <2>1, <3>1 DEF Fits, Row, NoAck
  <2> QED  BY Zenon, <2>1 DEF CaughtUpMeansTarget, Row
<1>2. CASE a = NoAck  BY <1>2
<1>3. CASE /\ s \in live /\ a # NoAck
           /\ a \in {eff[s], applied[s]} \/ Row(a) \in deliv[s]
  <2>1. s \in Sessions  BY Zenon, <1>0 DEF SessionTypeOK
  <2>2. TargetOf(s) \in TargetKind /\ TargetOf(s)' \in TargetKind
    BY <1>0, <2>1, TargetOfType, TargetOfTypeNext
  <2>3. Row(a) \in TargetKind
    <3>1. a \in Ack  BY SMTT(30), <1>0, <1>3, <2>1 DEF AckTypeOK
    <3> QED
      BY <3>1, ReleaseStoreConstants DEF Ack, Row, TargetKind
  <2>4. Fits(Row(a), TargetOf(s))
    <3>1. CASE Row(a) \in deliv[s]
      BY Zenon, <1>3, <3>1 DEF IInv, RevisionNamesOneTarget, Fits
    <3>2. CASE a \in {eff[s], applied[s]}
      BY <1>3, <3>2 DEF IInv, CaughtUpMeansTarget, Fits, Row
    <3> QED  BY <1>3, <3>1, <3>2
  <2>5. TargetOf(s)' = TargetOf(s) \/ TargetOf(s)'.rev > TargetOf(s).rev
    BY <1>3, TargetMoves
  <2> QED  BY <2>2, <2>3, <2>4, <2>5, FitsMoved
<1> QED  BY <1>2, <1>3, AcksMove

-----------------------------------------------------------------------------
(* The reducer.                                                            *)

AtMost(a, b) == a.rev < b.rev \/ (a.rev = b.rev /\ a.seq <= b.seq)

\* Newer and AtMost are the two sides of one total order.
LEMMA OrderOfAcks ==
    ASSUME NEW a \in Ack \cup {NoAck}, NEW b \in Ack \cup {NoAck},
           NEW c \in Ack \cup {NoAck}
    PROVE  /\ AtMost(a, a)
           /\ Newer(a, b) => AtMost(b, a)
           /\ ~Newer(a, b) => AtMost(a, b)
           /\ AtMost(a, b) /\ AtMost(b, c) => AtMost(a, c)
<1>1. \A x \in Ack \cup {NoAck} : x.rev \in Nat /\ x.seq \in Nat
  BY ReleaseStoreConstants, ReleaseSessionsConstants DEF Ack, NoAck
<1>2. /\ a.rev \in Nat /\ a.seq \in Nat /\ b.rev \in Nat /\ b.seq \in Nat
      /\ c.rev \in Nat /\ c.seq \in Nat
  BY ZenonT(30), <1>1
<1> QED  BY <1>2 DEF AtMost, Newer

\* What one accepted acknowledgement does to its session.
LEMMA OneAcknowledgement ==
    ASSUME IInv, NEW st \in open, NEW a \in Ack, Acknowledge(st, a)
    PROVE  LET s == st.s IN
           /\ s \in live /\ live' = live
           /\ Fresh(s, a)
           /\ eff'[s] = IF Newer(a, eff[s]) THEN a ELSE eff[s]
           /\ applied'[s] = IF a.state = "applied" /\ Newer(a, applied[s])
                            THEN a ELSE applied[s]
           /\ considered'[s] = considered[s] \cup {a}
           /\ watermark'[s] >= watermark[s]
           /\ events'[s] = {e \in events[s] \cup {a} : e.seq > watermark'[s]}
           /\ \A t \in Sessions \ {s} :
                 /\ eff'[t] = eff[t] /\ applied'[t] = applied[t]
                 /\ considered'[t] = considered[t]
                 /\ watermark'[t] = watermark[t] /\ events'[t] = events[t]
<1> DEFINE s == st.s
<1>0. AckTypeOK /\ s \in Sessions
  BY ZenonT(30) DEF IInv, TypeOK, StreamTypeOK, Stream
<1>1. /\ s \in live /\ live' = live /\ Fresh(s, a)
      /\ eff' = [eff EXCEPT ![s] = IF Newer(a, @) THEN a ELSE @]
      /\ applied' = [applied EXCEPT ![s] =
                        IF a.state = "applied" /\ Newer(a, @) THEN a ELSE @]
      /\ considered' = [considered EXCEPT ![s] = @ \cup {a}]
  BY Zenon DEF Acknowledge
<1>2. PICK n \in 0..MaxSequence :
          /\ Watermark(watermark[s], events[s] \cup {a}, n)
          /\ watermark' = [watermark EXCEPT ![s] = n]
          /\ events' = [events EXCEPT ![s] = {e \in @ \cup {a} : e.seq > n}]
  BY Zenon DEF Acknowledge
<1> HIDE DEF s
<1>3. n >= watermark[s]
  <2>1. PICK es : Watermark(watermark[s], es, n)  BY <1>2
  <2>2. watermark[s] \in Nat
    BY <1>0, ReleaseSessionsConstants DEF AckTypeOK
  <2>4. CASE \E e \in Expired(es) : n = MaxOf(watermark[s], e.seq)
    BY <2>2, <2>4 DEF MaxOf
  <2> QED  BY <2>1, <2>2, <2>4 DEF Watermark
<1>4. watermark'[s] = n  BY <1>0, <1>2 DEF AckTypeOK
<1>5. events'[s] = {e \in events[s] \cup {a} : e.seq > n}
  BY <1>0, <1>2 DEF AckTypeOK
<1>6. /\ eff'[s] = IF Newer(a, eff[s]) THEN a ELSE eff[s]
      /\ applied'[s] = IF a.state = "applied" /\ Newer(a, applied[s])
                       THEN a ELSE applied[s]
      /\ considered'[s] = considered[s] \cup {a}
  BY <1>0, <1>1 DEF AckTypeOK
<1>7. \A t \in Sessions \ {s} :
          /\ eff'[t] = eff[t] /\ applied'[t] = applied[t]
          /\ considered'[t] = considered[t]
          /\ watermark'[t] = watermark[t] /\ events'[t] = events[t]
  BY <1>0, <1>1, <1>2 DEF AckTypeOK
<1> QED  BY <1>1, <1>3, <1>4, <1>5, <1>6, <1>7 DEF s

\* What holds of a session's effective and last applied acknowledgement, its
\* watermark, its retained events and all it ever recorded.
Reduced(ef, ap, wm, ev, co) ==
    /\ \A a \in co : AtMost(a, ef)
    /\ ef \in co \cup {NoAck}
    /\ \A a \in co : a.state = "applied" => AtMost(a, ap)
    /\ ap \in {a \in co : a.state = "applied"} \cup {NoAck}
    /\ \A a \in co : a \in ev \/ a.seq <= wm
    /\ \A a, b \in co : a.seq = b.seq => a = b

ReducedOf(s) == Reduced(eff[s], applied[s], watermark[s], events[s], considered[s])

\* The invariant says this of every session, with or without a row.
LEMMA AllReduced ==
    ASSUME IInv, NEW s \in Sessions
    PROVE  ReducedOf(s)
<1>1. RowsInv /\ RecordedInv /\ EffectiveIsNewest /\ OnePayloadPerSequence
  BY Zenon DEF IInv
<1>2. CASE s \in live
  <2>1. \A a \in considered[s] : a \in events[s] \/ a.seq <= watermark[s]
    BY Zenon, <1>1 DEF RecordedInv
  <2>2. \A a, b \in considered[s] : a.seq = b.seq => a = b
    BY <1>1, <1>2 DEF OnePayloadPerSequence
  <2> QED
    BY Zenon, <1>1, <1>2, <2>1, <2>2
    DEF EffectiveIsNewest, ReducedOf, Reduced, AtMost
<1>3. CASE s \notin live
  BY Zenon, <1>1, <1>3 DEF RowsInv, ReducedOf, Reduced
<1> QED  BY <1>2, <1>3

\* An accepted acknowledgement keeps it so.
LEMMA ReduceOne ==
    ASSUME IInv, NEW st \in open, NEW a \in Ack, Acknowledge(st, a),
           NEW s \in Sessions, st.s = s
    PROVE  Reduced(eff'[s], applied'[s], watermark'[s], events'[s],
                   considered'[s])
<1>1. PICK ef, ap, wm, ev, co, ef2, ap2, n, ev2, co2 :
          /\ ef = eff[s] /\ ap = applied[s] /\ wm = watermark[s]
          /\ ev = events[s] /\ co = considered[s]
          /\ ef2 = eff'[s] /\ ap2 = applied'[s] /\ n = watermark'[s]
          /\ ev2 = events'[s] /\ co2 = considered'[s]
  BY Zenon
<1>2. /\ n >= wm /\ (\A e \in ev : e.seq # a.seq) /\ a.seq > wm
      /\ ef2 = IF Newer(a, ef) THEN a ELSE ef
      /\ ap2 = IF a.state = "applied" /\ Newer(a, ap) THEN a ELSE ap
      /\ ev2 = {e \in ev \cup {a} : e.seq > n}
      /\ co2 = co \cup {a}
  BY Zenon, <1>1, OneAcknowledgement DEF Fresh
<1>3. Reduced(ef, ap, wm, ev, co)
  BY Zenon, <1>1, AllReduced DEF ReducedOf
<1>4. /\ ef \in Ack \cup {NoAck} /\ ap \in Ack \cup {NoAck}
      /\ ev \in SUBSET Ack /\ co \in SUBSET Ack
  BY Zenon, <1>1 DEF IInv, TypeOK, AckTypeOK
<1>5. wm \in Nat /\ n \in Nat /\ \A x \in Ack : x.seq \in Nat
  <2>1. PICK m \in 0..MaxSequence : watermark' = [watermark EXCEPT ![st.s] = m]
    BY Zenon DEF Acknowledge
  <2> QED
    BY <1>1, <2>1, ReleaseSessionsConstants DEF IInv, TypeOK, AckTypeOK, Ack
<1>6. \A x \in co2 : AtMost(x, ef2)
  <2>1. AtMost(ef, ef2) /\ AtMost(a, ef2) /\ ef2 \in Ack \cup {NoAck}
    BY <1>2, <1>4, OrderOfAcks
  <2>2. ASSUME NEW x \in co PROVE AtMost(x, ef2)
    <3>1. x \in Ack /\ AtMost(x, ef)  BY <1>3, <1>4 DEF Reduced
    <3> QED  BY <1>4, <2>1, <3>1, OrderOfAcks
  <2> QED  BY <1>2, <2>1, <2>2
<1>7. ef2 \in co2 \cup {NoAck}  BY <1>2, <1>3 DEF Reduced
<1>8. \A x \in co2 : x.state = "applied" => AtMost(x, ap2)
  <2>1. /\ AtMost(ap, ap2) /\ (a.state = "applied" => AtMost(a, ap2))
        /\ ap2 \in Ack \cup {NoAck}
    BY <1>2, <1>4, OrderOfAcks
  <2>2. ASSUME NEW x \in co, x.state = "applied" PROVE AtMost(x, ap2)
    <3>1. x \in Ack /\ AtMost(x, ap)  BY <1>3, <1>4, <2>2 DEF Reduced
    <3> QED  BY <1>4, <2>1, <3>1, OrderOfAcks
  <2> QED  BY <1>2, <2>1, <2>2
<1>9. ap2 \in {x \in co2 : x.state = "applied"} \cup {NoAck}
  BY <1>2, <1>3 DEF Reduced
<1>10. \A x \in co2 : x \in ev2 \/ x.seq <= n
  BY <1>2, <1>3, <1>4, <1>5 DEF Reduced
<1>11. \A x \in co : x.seq # a.seq
  BY <1>2, <1>3, <1>4, <1>5 DEF Reduced
<1>12. \A x, y \in co2 : x.seq = y.seq => x = y
  BY <1>2, <1>3, <1>11 DEF Reduced
<1>13. Reduced(ef2, ap2, n, ev2, co2)
  BY <1>6, <1>7, <1>8, <1>9, <1>10, <1>12 DEF Reduced
<1> QED  BY Zenon, <1>1, <1>13

\* The reducer's part of the invariant is kept by every step.
LEMMA ReducedStep ==
    ASSUME IInv, Step
    PROVE  RecordedInv' /\ EffectiveIsNewest' /\ OnePayloadPerSequence'
<1>0. AckTypeOK /\ SessionTypeOK /\ SessionTypeOK'
  BY SessionTypeStep DEF IInv, TypeOK
<1>1. SUFFICES ASSUME NEW s \in Sessions
               PROVE  Reduced(eff'[s], applied'[s], watermark'[s], events'[s],
                              considered'[s])
  <2>1. RecordedInv'  BY Zenon, <1>1 DEF RecordedInv, Reduced
  <2>2. live' \subseteq Sessions  BY Zenon, <1>0 DEF SessionTypeOK
  <2>3. EffectiveIsNewest'
    BY Zenon, <1>1, <2>2 DEF EffectiveIsNewest, Reduced, AtMost
  <2>4. OnePayloadPerSequence'
    BY <1>1, <2>2 DEF OnePayloadPerSequence, Reduced
  <2> QED  BY Zenon, <2>1, <2>3, <2>4
<1>2. ReducedOf(s)  BY Zenon, AllReduced
<1>3. CASE UNCHANGED ackVars
  BY Zenon, <1>2, <1>3 DEF ReducedOf, ackVars
<1>4. CASE Acknowledges
  <2>1. PICK st \in open, a \in Ack : Acknowledge(st, a)
    BY <1>4, AcknowledgedType
  <2>2. st.s \in Sessions  BY ZenonT(30) DEF IInv, TypeOK, StreamTypeOK, Stream
  <2>3. CASE st.s # s
    BY SMTT(30), <1>2, <2>1, <2>3, OneAcknowledgement DEF ReducedOf
  <2>4. CASE st.s = s
    BY ZenonT(30), <2>1, <2>4, ReduceOne
  <2> QED  BY <2>3, <2>4
<1>5. CASE PrunesSessions
  <2>1. PICK gone : PruneReleaseSessions(gone)
    BY Zenon, <1>5 DEF PrunesSessions
  <2>2. CASE s \in gone
    BY ZenonT(30), <2>1, <2>2 DEF PruneReleaseSessions, Reduced
  <2>3. CASE s \notin gone
    BY Zenon, <1>2, <2>1, <2>3 DEF PruneReleaseSessions, ReducedOf
  <2> QED  BY <2>2, <2>3
<1> QED
  BY Zenon, <1>3, <1>4, <1>5, Frame
  DEF Step, sessionVars, streamVars, ackVars, storeVars, trackVars

-----------------------------------------------------------------------------
(* The theorems.                                                           *)

\* The invariant holds in an empty database.
LEMMA IInvInit ==
    ASSUME Init
    PROVE  IInv
<1> USE ReleaseStoreConstants, ReleaseSessionsConstants
        DEF Init, StoreInit, SessionInit, NoLabel, NoPin, NoConn, NoAck
<1>1. StoreTypeOK
  BY SMTT(30) DEF StoreTypeOK, Label, Activation, ResourceStates, NoRollback
<1>2. SessionTypeOK /\ StreamTypeOK
  BY SMTT(30) DEF SessionTypeOK, StreamTypeOK
<1>3. AckTypeOK
  <2>1. 0 \in 0..MaxSequence
    BY SMT
  <2>2. /\ eff \in [Sessions -> Ack \cup {NoAck}] /\ applied \in [Sessions -> Ack \cup {NoAck}]
        /\ events \in [Sessions -> SUBSET Ack] /\ considered \in [Sessions -> SUBSET Ack]
    BY ZenonT(30)
  <2>3. watermark \in [Sessions -> 0..MaxSequence]
    BY <2>1, Zenon
  <2> QED  BY <2>2, <2>3, Zenon DEF AckTypeOK
<1>4. RowsInv
  BY Zenon DEF RowsInv
<1>5. RevInv /\ StreamInv /\ RecordedInv /\ CounterInv
  BY SMTT(30) DEF RevInv, StreamInv, RecordedInv, CounterInv
<1>6. ReferencedReleasesIntact
  BY ZenonT(30) DEF ReferencedReleasesIntact, Labelled, Pins
<1>7. /\ RevisionNamesOneTarget /\ CaughtUpMeansTarget /\ EffectiveIsNewest
      /\ OnePayloadPerSequence /\ OpenStreamIsConnected
  BY DEF RevisionNamesOneTarget, CaughtUpMeansTarget, EffectiveIsNewest,
         OnePayloadPerSequence, OpenStreamIsConnected
<1> QED  BY <1>1, <1>2, <1>3, <1>4, <1>5, <1>6, <1>7, Zenon DEF IInv, TypeOK

\* Every step keeps the invariant.
LEMMA IInvStep ==
    ASSUME IInv, [Next]_vars
    PROVE  IInv'
<1>1. Step  BY Steps
<1> QED
  BY <1>1, StoreTypeStep, SessionTypeStep, StreamTypeStep, AckTypeStep,
     RowsStep, RevStep, CounterStep, IntactStep, StreamStep, OneTargetStep,
     CaughtUpStep, ReducedStep, Zenon
  DEF IInv, TypeOK

\* The invariant holds in every reachable state.
THEOREM Invariance == Spec => []IInv
<1>1. Init => IInv  BY IInvInit
<1>2. IInv /\ [Next]_vars => IInv'  BY IInvStep
<1> QED  BY <1>1, <1>2, PTL DEF Spec

\* Every table of the track and of its sessions keeps its type.
THEOREM Typed == Spec => []TypeOK
<1>1. IInv => TypeOK  BY DEF IInv
<1> QED  BY <1>1, Invariance, PTL

\* No delete, destroy or retention reaches what a label or a pin names, for
\* any number of releases and sessions.
THEOREM Intact == Spec => []ReferencedReleasesIntact
<1>1. IInv => ReferencedReleasesIntact  BY DEF IInv
<1> QED  BY <1>1, Invariance, PTL

\* Retention of at least one version keeps the newest release.
THEOREM NewestKept == Spec => []NewestReleaseKept
<1>1. IInv => NewestReleaseKept
  <2>1. SUFFICES ASSUME IInv PROVE Latest = counter
    BY DEF NewestReleaseKept
  <2>2. /\ counter \in Nat /\ DOMAIN rels \subseteq 1..counter
        /\ counter # 0 => counter \in DOMAIN rels
    BY <2>1, ReleaseStoreConstants DEF IInv, TypeOK, StoreTypeOK, CounterInv
  <2>3. CASE counter = 0
    <3>1. DOMAIN rels = {}  BY SMTT(30), <2>2, <2>3
    <3> QED  BY <2>3, <3>1 DEF Latest
  <2>4. CASE counter # 0
    <3>1. counter \in DOMAIN rels /\ \A v \in DOMAIN rels : counter >= v
      BY <2>2, <2>4
    <3>2. \A v \in DOMAIN rels :
              (\A u \in DOMAIN rels : v >= u) => v = counter
      BY <2>2, <3>1
    <3>3. Max(DOMAIN rels) = counter
      BY <3>1, <3>2 DEF Max
    <3> QED  BY <3>1, <3>3 DEF Latest
  <2> QED  BY <2>3, <2>4
<1> QED  BY <1>1, Invariance, PTL

\* A delivery row at the target's revision is the target, and none is ahead.
THEOREM OneTarget == Spec => []RevisionNamesOneTarget
<1>1. IInv => RevisionNamesOneTarget  BY DEF IInv
<1> QED  BY <1>1, Invariance, PTL

\* An acknowledgement at the target's revision is of the target.
THEOREM CaughtUp == Spec => []CaughtUpMeansTarget
<1>1. IInv => CaughtUpMeansTarget  BY DEF IInv
<1> QED  BY <1>1, Invariance, PTL

\* The reducer's row is the newest of all it recorded, in whatever order the
\* acknowledgements came and however many events were pruned.
THEOREM OrderIndependent == Spec => []EffectiveIsNewest
<1>1. IInv => EffectiveIsNewest  BY DEF IInv
<1> QED  BY <1>1, Invariance, PTL

\* A sequence is never recorded with two payloads.
THEOREM OnePayload == Spec => []OnePayloadPerSequence
<1>1. IInv => OnePayloadPerSequence  BY DEF IInv
<1> QED  BY <1>1, Invariance, PTL

\* The stream that has the session is shown connected.
THEOREM Connected == Spec => []OpenStreamIsConnected
<1>1. IInv => OpenStreamIsConnected  BY DEF IInv
<1> QED  BY <1>1, Invariance, PTL

\* Targets move forward under activations, rollbacks, pins and unpins.
THEOREM Monotone == Spec => TargetMonotone
<1>1. IInv /\ [Next]_vars => TargetAdvances
  <2>1. SUFFICES ASSUME IInv, Step, NEW s \in Sessions, s \in live, s \in live'
                 PROVE  /\ TargetOf(s)'.rev >= TargetOf(s).rev
                        /\ TargetOf(s)'.rev = TargetOf(s).rev =>
                              TargetOf(s)' = TargetOf(s)
    BY Steps DEF TargetAdvances
  <2>2. TargetOf(s)' = TargetOf(s) \/ TargetOf(s)'.rev > TargetOf(s).rev
    BY <2>1, TargetMoves
  <2>3. TargetOf(s).rev \in Int /\ TargetOf(s)'.rev \in Int
    BY <2>1, StoreTypeStep, SessionTypeStep, TargetOfType, TargetOfTypeNext,
       ReleaseStoreConstants
    DEF IInv, TypeOK, TargetKind
  <2> QED  BY <2>2, <2>3
<1>2. IInv /\ [Next]_vars => [TargetAdvances]_vars  BY <1>1
<1> QED  BY <1>2, Invariance, PTL DEF Spec, TargetMonotone

\* Retention keeps the delivery row of a target for as long as it is one.
THEOREM Acknowledgeable == Spec => TargetStaysAcknowledgeable
<1>1. IInv /\ [Next]_vars => TargetRowStays
  <2>1. SUFFICES ASSUME IInv, Step, NEW s \in Sessions, s \in live, s \in live',
                        TargetOf(s) \in deliv[s]
                 PROVE  TargetOf(s) \in deliv'[s]
    BY Steps DEF TargetRowStays
  <2>2. StoreTypeOK /\ SessionTypeOK  BY <2>1 DEF IInv, TypeOK
  <2>3. CASE deliv' = deliv  BY <2>1, <2>3
  <2>4. CASE Resolves
    BY <2>1, <2>2, <2>4
    DEF Resolves, ResolveInstanceRelease, Delivered, SessionTypeOK
  <2>5. CASE SetsPin
    <3>1. PICK t, x : deliv' = [deliv EXCEPT ![t] = Delivered(@, x)]
      BY ZenonT(30), <2>5 DEF SetsPin, SetReleasePin
    <3> QED  BY <2>1, <2>2, <3>1 DEF Delivered, SessionTypeOK
  <2>6. CASE PrunesReleases
    <3>1. PICK old : deliv'[s] = KeptDeliveries(s, old)
      BY Zenon, <2>1, <2>6 DEF PrunesReleases, PruneConfigurationReleases
    <3>2. TargetOf(s).rev \in {current.act, pin[s].rev}
      BY Zenon DEF TargetOf, Target, MaxOf
    <3> QED  BY <2>1, <3>1, <3>2 DEF KeptDeliveries, LabelActs
  <2>7. CASE PrunesSessions
    BY Zenon, <2>1, <2>7 DEF PrunesSessions, PruneReleaseSessions
  <2> QED
    BY Zenon, <2>1, <2>3, <2>4, <2>5, <2>6, <2>7, Frame
    DEF Step, sessionVars, streamVars, ackVars, storeVars, trackVars
<1>2. IInv /\ [Next]_vars => [TargetRowStays]_vars  BY <1>1
<1> QED  BY <1>2, Invariance, PTL DEF Spec, TargetStaysAcknowledgeable
===============================================================================
