--------------------------- MODULE WatchResumeProofs --------------------------
(***************************************************************************)
(* What a client of WatchHub may rely on across streams, incarnations of   *)
(* its namespace, pruning and restarts, for any number of clients and      *)
(* revisions: a second invariant over that of WatchHubProofs.              *)
(*                                                                         *)
(* Rows of one name carry ids that rise with the revision.  So a stream    *)
(* bound to an old incarnation has no row to deliver above the first row   *)
(* of the present one, and its client's revision does not pass that row;   *)
(* unless a row of another watched name carries it past (the run           *)
(* watch_two_namespaces), hence the hypothesis.                            *)
(***************************************************************************)
EXTENDS WatchHubProofs

USE ZenonT(3), SMTT(20)     \* in this order, for a leaf that names no prover

-----------------------------------------------------------------------------
(* The invariant.                                                          *)

\* The client watches at most one namespace.
SoleNamespace == \A m, n \in Watched : m = n

\* AUTOINCREMENT hands out namespace ids in order, and a row gets the id its
\* name has when it is written.
IdInv ==
    /\ \A r \in DOMAIN log :
          /\ log[r].id < nextID
          /\ nsID[log[r].ns] # Absent => log[r].id <= nsID[log[r].ns]
    /\ \A n \in Namespaces : nsID[n] < nextID
    /\ \A q, r \in DOMAIN log :
          q < r /\ log[q].ns = log[r].ns => log[q].id <= log[r].id \/ log[r].id = Legacy

Old(r) == log[r].ns \in Watched /\ log[r].id = Legacy
Loaded == {"backlog", "ready", "live"}

\* Whatever a stream holds are rows of its incarnations.
HeldInv(c) ==
    LET s == sub[c] IN
    /\ \A i \in DOMAIN s.pending : s.pending[i] \in DOMAIN log /\ Matches(s, s.pending[i])
    /\ \A i \in DOMAIN s.events : s.events[i] \in DOMAIN log /\ Matches(s, s.events[i])
    /\ \A r \in s.replay : r \in DOMAIN log /\ Matches(s, r)

\* Rows without an incarnation are below the backlog, and a replay meets none.
OldInv(c) ==
    LET s == sub[c] IN
    \A r \in DOMAIN log : Old(r) =>
        /\ s.phase \in {"current", "replay", "snapshot"} => r <= s.cur
        /\ s.phase \in Loaded => r <= s.rev
        /\ s.phase = "replay" => r <= lastRev[c] \/ s.rcur < r
        /\ s.phase \in Loaded /\ ~s.isSnap => r <= lastRev[c]

\* Up to the backlog the client has what the replay does not still hold, or
\* the snapshot; a heartbeat has nothing newer to tell than that.
SentInv(c) ==
    LET s == sub[c] IN
    /\ s.phase \in Loaded /\ ~s.isSnap =>
          \A r \in DOMAIN log :
              Matches(s, r) /\ r <= s.rev /\ lastRev[c] < r => r \in s.replay
    /\ s.phase = "live" /\ s.isSnap => s.rev <= snapAt[c]
    /\ s.phase = "live" => s.hb = s.rev \/ s.hb = lastRev[c]

\* A row the client relies on, and what accounts for it.
Relied(r) == log[r].ns \in Watched /\ log[r].id \in {nsID[log[r].ns], Legacy}
Accounted(c, r) == r \in got[c] \/ r \in lost \/ r <= snapAt[c]

ResumeInv(c) == \A r \in DOMAIN log : r <= lastRev[c] /\ Relied(r) => Accounted(c, r)

ClientInv(c) == HeldInv(c) /\ OldInv(c) /\ SentInv(c) /\ ResumeInv(c)

RInv == IdInv /\ \A c \in Clients : ClientInv(c)

\* The present incarnation has no row before a row of another one that a
\* stream matches.
LEMMA SameIncarnation ==
    ASSUME SoleNamespace, LogType, IdInv, NEW s \in StreamRec, NEW h \in DOMAIN log, Matches(s, h),
           NEW r \in DOMAIN log, r < h, Relied(r), ~Old(r)
    PROVE  Matches(s, r)
<1>1. log[r].ns \in Watched /\ log[h].ns \in Watched /\ log[r].ns = log[h].ns
    BY DEF SoleNamespace, Matches, Relied
<1>2. log[r] \in Rows /\ log[h] \in Rows
    BY DEF LogType
<1>3. PICK i \in Nat, j \in Nat : i = log[r].id /\ j = log[h].id
    BY <1>2 DEF Rows
<1>4. /\ i = nsID[log[h].ns] /\ i # Legacy /\ j = s.ids[log[h].ns] /\ s.ids[log[h].ns] > 0
    BY <1>1, <1>3 DEF Relied, Old, Matches
<1>5. i <= j \/ j = Legacy
    BY <1>1, <1>3 DEF IdInv
<1>6. j <= i
    BY <1>1, <1>3, <1>4, Zenon DEF IdInv, Absent, Legacy
<1>7. i = j
    BY <1>3, <1>4, <1>5, <1>6 DEF Legacy
<1>8. QED BY <1>1, <1>3, <1>4, <1>7 DEF Matches

\* The numbers of a stream.
LEMMA StreamNumbers ==
    ASSUME TypeOK, NEW c \in Clients
    PROVE  /\ sub[c] \in StreamRec /\ lastRev[c] \in Nat /\ snapAt[c] \in Nat
           /\ lastRev[c] <= Len(log) /\ Len(log) \in Nat /\ DOMAIN log = 1..Len(log)
           /\ sub[c].rev \in Nat /\ sub[c].cur \in Nat /\ sub[c].rcur \in Nat
           /\ sub[c].hb \in Nat /\ sub[c].since \in Nat
    BY LogFacts DEF TypeOK, ClientType, StreamRec

-----------------------------------------------------------------------------
(* Steps that are not the stream's own.                                    *)

\* A log that grows by rows with an incarnation.
Extends ==
    /\ Len(log) <= Len(log') /\ Len(log') \in Nat /\ DOMAIN log' = 1..Len(log')
    /\ \A r \in DOMAIN log : log'[r] = log[r]
    /\ \A r \in DOMAIN log' : r \notin DOMAIN log => log'[r].id # Legacy

\* A stream left alone keeps its part.
LEMMA StreamLeftAlone ==
    ASSUME IInv, NEW c \in Clients, ClientInv(c), Extends,
           sub'[c] = sub[c], lastRev'[c] = lastRev[c], snapAt'[c] = snapAt[c]
    PROVE  HeldInv(c)' /\ OldInv(c)' /\ SentInv(c)'
<1>1. TypeOK /\ StreamInv(c)
    BY DEF IInv
<1>2. \A r \in DOMAIN log : /\ r \in DOMAIN log' /\ (Old(r)' <=> Old(r))
                            /\ (Matches(sub[c], r)' <=> Matches(sub[c], r))
    BY <1>1, StreamNumbers DEF Extends, Old, Matches
<1>3. HeldInv(c)'
    BY <1>2, Zenon DEF ClientInv, HeldInv
<1>4. \A r \in DOMAIN log' : Old(r)' => r \in DOMAIN log
    BY DEF Extends, Old
<1>5. OldInv(c)'
    BY <1>2, <1>4, Zenon DEF ClientInv, OldInv
<1>6. sub[c].phase \in Loaded => sub[c].rev <= Len(log)
    BY <1>1, Zenon DEF StreamInv, ReplayInv, ActiveInv, QueueInv, Active, Loaded
<1>7. ASSUME sub[c].phase \in Loaded
      PROVE  \A r \in DOMAIN log' : r <= sub[c].rev => r \in DOMAIN log
    BY <1>1, <1>6, <1>7, StreamNumbers DEF Extends
<1>8. SentInv(c)'
    BY <1>2, <1>7, Zenon DEF ClientInv, SentInv
<1>9. QED BY <1>3, <1>5, <1>8

\* What accounts for a row stays.
LEMMA ResumeKept ==
    ASSUME IInv, NEW c \in Clients, ResumeInv(c), Extends, lastRev'[c] = lastRev[c],
           got'[c] = got[c], snapAt'[c] = snapAt[c], lost \subseteq lost',
           \A r \in DOMAIN log : Relied(r)' => Relied(r)
    PROVE  ResumeInv(c)'
<1>1. \A r \in DOMAIN log' : r <= lastRev[c] => r \in DOMAIN log
    BY StreamNumbers DEF IInv, Extends
<1>2. QED BY <1>1, Zenon DEF ResumeInv, Accounted

\* Streams that the server closes owe nothing.
LEMMA ClosedClient ==
    ASSUME NEW c \in Clients, sub'[c] = Closed
    PROVE  HeldInv(c)' /\ OldInv(c)' /\ SentInv(c)'
<1>1. /\ sub'[c].phase = "off" /\ sub'[c].pending = <<>> /\ sub'[c].events = <<>>
      /\ sub'[c].replay = {}
    BY DEF Closed
<1>2. QED BY <1>1 DEF HeldInv, OldInv, SentInv, Loaded

\* A commit appends a row of the present incarnation.
LEMMA CommitIds ==
    ASSUME LogType, IdInv, NEW n \in Namespaces, AppendChange(n), UNCHANGED nsVars
    PROVE  Extends /\ IdInv' /\ \A r \in DOMAIN log : Relied(r)' <=> Relied(r)
<1>1. PICK k \in Nat : k = Len(log) /\ DOMAIN log = 1..k
    BY LogFacts, Zenon
<1>2. PICK g : g = [ns |-> n, id |-> nsID[n]]
    BY Zenon
<1>3. g \in Rows /\ g.ns = n /\ g.id = nsID[n] /\ nsID[n] \in Nat /\ nsID[n] # Absent
    BY <1>2 DEF Rows, LogType, AppendChange
<1>4. /\ log' = Append(log, g) /\ log \in Seq(Rows) /\ UNCHANGED <<nsID, nextID>>
    BY <1>2 DEF AppendChange, LogType, nsVars
<1>5. /\ Len(log') = k + 1 /\ DOMAIN log' = 1..(k + 1) /\ log'[k + 1] = g
      /\ \A r \in 1..k : log'[r] = log[r]
    BY <1>1, <1>3, <1>4
<1>6. Extends
    BY <1>1, <1>3, <1>5 DEF Extends, Legacy, Absent
<1>7. \A r \in DOMAIN log : Relied(r)' <=> Relied(r)
    BY <1>1, <1>4, <1>5 DEF Relied
<1>8. nextID \in Nat /\ nsID[n] < nextID
    BY DEF LogType, IdInv
<1>9. ASSUME NEW r \in DOMAIN log'
      PROVE  /\ log'[r].id < nextID
             /\ nsID[log'[r].ns] # Absent => log'[r].id <= nsID[log'[r].ns]
  <2>1. CASE r \in 1..k
      BY <1>1, <1>5, <2>1 DEF IdInv
  <2>2. CASE r = k + 1
      BY <1>3, <1>5, <1>8, <2>2
  <2>3. QED BY <1>1, <1>5, <1>9, <2>1, <2>2
<1>10. ASSUME NEW q \in DOMAIN log', NEW r \in DOMAIN log', q < r, log'[q].ns = log'[r].ns
       PROVE  log'[q].id <= log'[r].id \/ log'[r].id = Legacy
  <2>1. q \in 1..k
      BY <1>1, <1>5, <1>10
  <2>2. CASE r \in 1..k
      BY <1>1, <1>5, <1>10, <2>1, <2>2 DEF IdInv
  <2>3. CASE r = k + 1
    <3>1. log[q].ns = n /\ log'[q] = log[q] /\ log'[r] = g
        BY <1>3, <1>5, <1>10, <2>1, <2>3
    <3>2. log[q].id <= nsID[n]
        BY <1>1, <1>3, <2>1, <3>1 DEF IdInv
    <3>3. QED BY <1>3, <3>1, <3>2
  <2>4. QED BY <1>1, <1>5, <1>10, <2>2, <2>3
<1>11. IdInv'
    BY <1>4, <1>9, <1>10, Zenon DEF IdInv
<1>12. QED BY <1>6, <1>7, <1>11

\* A name that goes or comes back has no rows of its new incarnation yet.
LEMMA ReplaceIds ==
    ASSUME LogType, IdInv, NEW n \in Namespaces, DeleteNamespace(n) \/ CreateNamespace(n)
    PROVE  Extends /\ IdInv' /\ \A r \in DOMAIN log : Relied(r)' => Relied(r)
<1>1. PICK i : /\ nsID' = [nsID EXCEPT ![n] = i] /\ log' = log
               /\ \/ i = Absent /\ nextID' = nextID
                  \/ i = nextID /\ nextID' = nextID + 1
    BY DEF DeleteNamespace, CreateNamespace, logVars
<1>2. /\ nextID \in Nat /\ nsID \in [Namespaces -> Nat] /\ nsID'[n] = i
      /\ \A m \in Namespaces : m # n => nsID'[m] = nsID[m]
    BY <1>1 DEF LogType
<1>3. \A r \in DOMAIN log : log[r].ns \in Namespaces /\ log[r].id \in Nat /\ log[r].id < nextID
  <2>1. \A r \in DOMAIN log : log[r] \in Rows
      BY DEF LogType
  <2>2. QED BY <2>1, Zenon DEF Rows, IdInv
<1>4. Extends
    BY <1>1, LogFacts DEF Extends
<1>5. \A r \in DOMAIN log : Relied(r)' => Relied(r)
    BY <1>1, <1>2, <1>3 DEF Relied, Absent, Legacy
<1>6. \A m \in Namespaces : nsID'[m] < nextID'
  <2>1. nsID[n] < nextID /\ nsID[n] \in Nat
      BY <1>2 DEF IdInv
  <2>2. i < nextID'
      BY <1>1, <1>2, <2>1 DEF Absent
  <2>3. \A m \in Namespaces : nsID[m] \in Nat /\ nsID[m] < nextID
      BY <1>2 DEF IdInv
  <2>4. QED BY <1>1, <1>2, <2>2, <2>3
<1>7. \A r \in DOMAIN log : /\ log[r].id < nextID'
                            /\ nsID'[log[r].ns] # Absent => log[r].id <= nsID'[log[r].ns]
    BY <1>1, <1>2, <1>3 DEF IdInv
<1>8. IdInv'
    BY <1>1, <1>6, <1>7, Zenon DEF IdInv
<1>9. QED BY <1>4, <1>5, <1>8

-----------------------------------------------------------------------------
(* The stream's own steps.                                                 *)

\* What the stream holds, when nothing is added.
LEMMA HeldKept ==
    ASSUME NEW c \in Clients, HeldInv(c), log' = log, sub'[c].ids = sub[c].ids,
           sub'[c].pending \in {sub[c].pending, <<>>}, sub'[c].events = sub[c].events,
           sub'[c].replay \subseteq sub[c].replay
    PROVE  HeldInv(c)'
<1>1. \A r : Matches(sub[c], r)' <=> Matches(sub[c], r)
    BY Zenon DEF Matches
<1>2. DOMAIN <<>> = {}
    OBVIOUS
<1>3. QED BY <1>1, <1>2, Zenon DEF HeldInv

\* The steps from Connect to the choice of a backlog.
LEMMA OpeningClient ==
    ASSUME IInv, NEW c \in Clients, ClientInv(c),
           Connect(c) \/ Register(c) \/ ReadCurrent(c) \/ CanReplay(c) \/ CanReplayFails(c)
    PROVE  HeldInv(c)' /\ OldInv(c)' /\ SentInv(c)'
<1> DEFINE s == sub[c]
<1>1. /\ log' = log /\ UNCHANGED <<lastRev, snapAt>> /\ s \in StreamRec /\ StreamInv(c)
      /\ TypeOK /\ sub \in [Clients -> StreamRec]
    BY Zenon DEF IInv, TypeOK, ClientType, Connect, Register, ReadCurrent, CanReplay, CanReplayFails,
                 StreamOnly, logVars, clientVars
<1>2. CASE Connect(c)
  <2>1. /\ sub'[c].phase = "bound" /\ sub'[c].pending = <<>> /\ sub'[c].events = <<>>
        /\ sub'[c].replay = {}
      BY <1>1, <1>2 DEF Connect, Closed
  <2>2. QED BY <2>1 DEF HeldInv, OldInv, SentInv, Loaded
<1>3. CASE Register(c) /\ sub'[c] = Closed
    BY <1>3, ClosedClient
<1>4. ASSUME NEW ph, sub'[c].phase = ph, ph \notin Loaded,
             sub'[c].ids = s.ids, sub'[c].pending = s.pending, sub'[c].events = s.events,
             sub'[c].replay = s.replay
      PROVE  HeldInv(c)' /\ SentInv(c)'
  <2>1. HeldInv(c)'
      BY <1>1, <1>4, HeldKept DEF ClientInv
  <2>2. SentInv(c)'
      BY <1>4 DEF SentInv, Loaded
  <2>3. QED BY <2>1, <2>2
<1>5. CASE Register(c) /\ sub'[c] # Closed
  <2>1. sub'[c] = [s EXCEPT !.phase = "registered"]
      BY <1>1, <1>5, Zenon DEF Register
  <2>2. /\ sub'[c].phase = "registered" /\ sub'[c].ids = s.ids /\ sub'[c].pending = s.pending
        /\ sub'[c].events = s.events /\ sub'[c].replay = s.replay
      BY <1>1, <2>1 DEF StreamRec
  <2>3. QED BY <1>4, <2>2, Zenon DEF OldInv, Loaded
<1>6. CASE ReadCurrent(c)
  <2>1. sub'[c] = [s EXCEPT !.phase = "current", !.cur = Len(log)]
      BY <1>1, <1>6 DEF ReadCurrent, CurrentRevision
  <2>2. /\ sub'[c].phase = "current" /\ sub'[c].ids = s.ids /\ sub'[c].pending = s.pending
        /\ sub'[c].events = s.events /\ sub'[c].replay = s.replay /\ sub'[c].cur = Len(log)
      BY <1>1, <2>1 DEF StreamRec
  <2>3. \A r \in DOMAIN log : r <= Len(log)
      BY <1>1, StreamNumbers
  <2>4. QED BY <1>1, <1>4, <2>2, <2>3 DEF OldInv, Loaded
<1>7. CASE CanReplay(c) \/ CanReplayFails(c)
  <2>1. PICK ph \in {"replay", "snapshot"}, k \in {s.since, s.rcur} :
            sub'[c] = [s EXCEPT !.phase = ph, !.rcur = k] /\ (ph = "replay" => k = s.since)
    <3>1. CASE CanReplay(c)
        BY <1>1, <3>1, Zenon DEF CanReplay
    <3>2. CASE CanReplayFails(c)
      <4>1. sub'[c] = [s EXCEPT !.phase = "snapshot"]
          BY <1>1, <3>2 DEF CanReplayFails
      <4>2. sub'[c] = [s EXCEPT !.phase = "snapshot", !.rcur = s.rcur]
          BY <1>1, <4>1, Zenon DEF StreamRec
      <4>3. QED BY <4>2
    <3>3. QED BY <1>7, <3>1, <3>2
  <2>2. /\ sub'[c].phase = ph /\ sub'[c].ids = s.ids /\ sub'[c].pending = s.pending
        /\ sub'[c].events = s.events /\ sub'[c].replay = s.replay /\ sub'[c].cur = s.cur
        /\ sub'[c].rcur = k
      BY <1>1, <2>1 DEF StreamRec
  <2>3. s.phase = "current" /\ s.since = lastRev[c]
      BY <1>1, <1>7 DEF CanReplay, CanReplayFails, StreamInv, ComputingInv, Computing
  <2>4. \A r \in DOMAIN log : Old(r) => r <= s.cur
      BY <2>3 DEF ClientInv, OldInv
  <2>5. \A r \in DOMAIN log : r <= lastRev[c] \/ lastRev[c] < r
      BY <1>1, StreamNumbers
  <2>6. \A r \in DOMAIN log' : Old(r)' => r \in DOMAIN log /\ Old(r)
      BY <1>1 DEF Old
  <2>7. ph \notin Loaded
      BY DEF Loaded
  <2>8. OldInv(c)'
      BY <1>1, <2>1, <2>2, <2>3, <2>4, <2>5, <2>6, <2>7 DEF OldInv
  <2>9. QED BY <1>4, <2>2, <2>7, <2>8
<1>8. QED BY <1>2, <1>3, <1>5, <1>6, <1>7

\* A page of the replay: rows without an incarnation break it.
LEMMA ReplayPageClient ==
    ASSUME IInv, NEW c \in Clients, ClientInv(c), ReplayPage(c)
    PROVE  HeldInv(c)' /\ OldInv(c)' /\ SentInv(c)'
<1> DEFINE s == sub[c]
<1>1. /\ log' = log /\ UNCHANGED <<lastRev, snapAt>> /\ s \in StreamRec /\ StreamInv(c)
      /\ TypeOK /\ LogType /\ sub \in [Clients -> StreamRec] /\ s.phase = "replay"
    BY Zenon DEF IInv, TypeOK, ClientType, ReplayPage, StreamOnly, logVars, clientVars
<1>2. /\ s.since = lastRev[c] /\ ~s.isSnap /\ s.rcur <= s.cur /\ s.cur <= Len(log)
      /\ s.replay = {r \in (s.since + 1)..s.rcur : Matches(s, r)}
    BY <1>1, Zenon DEF StreamInv, ReplayInv, ComputingInv, Computing
<1>3. \A r \in DOMAIN log : Old(r) => r <= s.cur /\ (r <= lastRev[c] \/ s.rcur < r)
    BY <1>1 DEF ClientInv, OldInv
<1>4. \A r \in DOMAIN log' : r \in DOMAIN log /\ (Old(r)' <=> Old(r))
    BY <1>1 DEF Old
<1>5. CASE s.rcur >= s.cur
  <2>1. sub'[c] = [s EXCEPT !.phase = "backlog", !.rev = s.cur, !.cur = 0, !.rcur = 0]
      BY <1>1, <1>5, Zenon DEF ReplayPage
  <2>2. /\ sub'[c].phase = "backlog" /\ sub'[c].ids = s.ids /\ sub'[c].pending = s.pending
        /\ sub'[c].events = s.events /\ sub'[c].replay = s.replay /\ sub'[c].rev = s.cur
        /\ sub'[c].isSnap = s.isSnap
      BY <1>1, <2>1, Zenon DEF StreamRec
  <2>3. /\ s.rcur = s.cur /\ s.cur \in Nat /\ lastRev[c] \in Nat
        /\ DOMAIN log = 1..Len(log) /\ Len(log) \in Nat
      BY <1>1, <1>2, <1>5, StreamNumbers
  <2>4. HeldInv(c)'
      BY <1>1, <2>2, HeldKept, Zenon DEF ClientInv
  <2>5. \A r \in DOMAIN log : Old(r) => r <= s.cur /\ r <= lastRev[c]
      BY <1>3, <2>3
  <2>6. OldInv(c)'
      BY <1>1, <1>4, <2>2, <2>5, Zenon DEF OldInv
  <2>7. \A r \in DOMAIN log : Matches(s, r) /\ r <= s.cur /\ lastRev[c] < r => r \in s.replay
      BY <1>2, <2>3
  <2>8. \A r \in DOMAIN log' : Matches(sub[c], r)' => Matches(s, r)
      BY <1>1, <2>2, Zenon DEF Matches
  <2>9. SentInv(c)'
      BY <1>1, <1>4, <2>2, <2>7, <2>8, Zenon DEF SentInv
  <2>10. QED BY <2>4, <2>6, <2>9
<1>6. CASE s.rcur < s.cur /\ (PageBroken(s) \/ PageShort(s))
  <2>1. ~(s.rcur >= s.cur)
      BY <1>1, <1>6, StreamNumbers
  <2>2. sub'[c] = [s EXCEPT !.phase = "snapshot", !.replay = {}]
      BY <1>1, <1>6, <2>1, Zenon DEF ReplayPage
  <2>3. /\ sub'[c].phase = "snapshot" /\ sub'[c].ids = s.ids /\ sub'[c].pending = s.pending
        /\ sub'[c].events = s.events /\ sub'[c].replay = {} /\ sub'[c].cur = s.cur
      BY <1>1, <2>2 DEF StreamRec
  <2>4. HeldInv(c)'
      BY <1>1, <2>3, HeldKept DEF ClientInv
  <2>5. OldInv(c)' /\ SentInv(c)'
      BY <1>3, <1>4, <2>3 DEF OldInv, SentInv, Loaded
  <2>6. QED BY <2>4, <2>5
<1>7. CASE s.rcur < s.cur /\ ~PageBroken(s) /\ ~PageShort(s)
  <2>1. ~(s.rcur >= s.cur)
      BY <1>1, <1>7, StreamNumbers
  <2>2. PICK add : /\ add = {r \in PageTo(s) : Matches(s, r)}
                   /\ sub'[c] = [s EXCEPT !.rcur = PageEnd(s), !.replay = s.replay \cup add]
      BY <1>1, <1>7, <2>1, Zenon DEF ReplayPage
  <2>3. /\ sub'[c].phase = "replay" /\ sub'[c].ids = s.ids /\ sub'[c].pending = s.pending
        /\ sub'[c].events = s.events /\ sub'[c].replay = s.replay \cup add /\ sub'[c].cur = s.cur
        /\ sub'[c].rcur = PageEnd(s)
      BY <1>1, <2>2 DEF StreamRec
  <2>4. PageTo(s) = (s.rcur + 1)..PageEnd(s) /\ PageEnd(s) \in Nat
      BY <1>1, <1>2, <1>7, PageFacts
  <2>5. PageTo(s) \subseteq DOMAIN log
      BY <1>1 DEF PageTo, ListChangesSince, LogType
  <2>6. \A r : Matches(sub[c], r)' <=> Matches(s, r)
      BY <1>1, <2>3, Zenon DEF Matches
  <2>7. HeldInv(c)'
      BY <1>1, <2>2, <2>3, <2>5, <2>6, Zenon DEF ClientInv, HeldInv
  <2>8. \A r \in PageTo(s) : ~Old(r)
      BY <1>7, Zenon DEF PageBroken, Old
  <2>9. \A r \in DOMAIN log : Old(r) => r <= lastRev[c] \/ PageEnd(s) < r
      BY <1>1, <1>3, <2>4, <2>8, StreamNumbers
  <2>10. OldInv(c)' /\ SentInv(c)'
      BY <1>1, <1>3, <1>4, <2>3, <2>9, Zenon DEF OldInv, SentInv, Loaded
  <2>11. QED BY <2>7, <2>10
<1>8. QED BY <1>1, <1>5, <1>6, <1>7, StreamNumbers

\* A snapshot covers all there is.
LEMMA SnapshotReadClient ==
    ASSUME IInv, NEW c \in Clients, ClientInv(c), SnapshotRead(c)
    PROVE  HeldInv(c)' /\ OldInv(c)' /\ SentInv(c)'
<1> DEFINE s == sub[c]
<1>1. /\ log' = log /\ UNCHANGED <<lastRev, snapAt>> /\ s \in StreamRec /\ TypeOK
      /\ sub \in [Clients -> StreamRec]
    BY Zenon DEF IInv, TypeOK, ClientType, SnapshotRead, StreamOnly, logVars, clientVars
<1>2. CASE ~StillBound(s)
  <2>1. sub'[c] = Closed
      BY <1>1, <1>2 DEF SnapshotRead, CloseStream
  <2>2. QED BY <2>1, ClosedClient
<1>3. CASE StillBound(s)
  <2>1. sub'[c] = [s EXCEPT !.phase = "backlog", !.isSnap = TRUE, !.rev = Len(log),
                            !.cur = 0, !.rcur = 0]
      BY <1>1, <1>3, Zenon DEF SnapshotRead, CurrentRevision
  <2>2. /\ sub'[c].phase = "backlog" /\ sub'[c].ids = s.ids /\ sub'[c].pending = s.pending
        /\ sub'[c].events = s.events /\ sub'[c].replay = s.replay /\ sub'[c].rev = Len(log)
        /\ sub'[c].isSnap
      BY <1>1, <2>1, Zenon DEF StreamRec
  <2>3. HeldInv(c)'
      BY <1>1, <2>2, HeldKept DEF ClientInv
  <2>4. \A r \in DOMAIN log : r <= Len(log)
      BY <1>1, StreamNumbers
  <2>5. OldInv(c)' /\ SentInv(c)'
      BY <1>1, <2>2, <2>4, Zenon DEF OldInv, SentInv
  <2>6. QED BY <2>3, <2>5
<1>4. QED BY <1>2, <1>3

\* Activation moves pending rows to the channel.
LEMMA ActivateClient ==
    ASSUME IInv, NEW c \in Clients, ClientInv(c), Activate(c)
    PROVE  HeldInv(c)' /\ OldInv(c)' /\ SentInv(c)'
<1> DEFINE s == sub[c]
           f == Uncovered(s)
           l == IF f = <<>> THEN s.rev ELSE f[Len(f)]
<1>1. /\ log' = log /\ UNCHANGED <<lastRev, snapAt>> /\ s \in StreamRec /\ StreamInv(c)
      /\ s.phase = "backlog" /\ sub \in [Clients -> StreamRec]
    BY Zenon DEF IInv, TypeOK, ClientType, Activate, StreamOnly, logVars, clientVars
<1>2. CASE Len(Uncovered(s)) > BufferCap
  <2>1. sub'[c] = Closed
      BY <1>1, <1>2 DEF Activate, CloseStream
  <2>2. QED BY <2>1, ClosedClient
<1>3. CASE ~(Len(Uncovered(s)) > BufferCap)
  <2>1. sub'[c] = [s EXCEPT !.phase = "ready", !.pending = <<>>, !.events = f,
                            !.lastSent = l, !.hb = s.rev, !.since = 0]
      BY <1>1, <1>3, Zenon DEF Activate
  <2>2. /\ sub'[c].phase = "ready" /\ sub'[c].ids = s.ids /\ sub'[c].pending = <<>>
        /\ sub'[c].events = f /\ sub'[c].replay = s.replay /\ sub'[c].rev = s.rev
        /\ sub'[c].isSnap = s.isSnap
      BY <1>1, <2>1, Zenon DEF StreamRec
  <2>3. \A i \in DOMAIN f : Holds(s.pending, f[i])
      BY <1>1, UncoveredFacts, Zenon DEF StreamInv, ComputingInv, Computing
  <2> HIDE DEF f, l
  <2>4. \A i \in DOMAIN f : f[i] \in DOMAIN log /\ Matches(s, f[i])
      BY <2>3, Zenon DEF ClientInv, HeldInv, Holds
  <2>5. \A r : Matches(sub[c], r)' <=> Matches(s, r)
      BY <1>1, <2>2, Zenon DEF Matches
  <2>6. DOMAIN <<>> = {}
      OBVIOUS
  <2>7. HeldInv(c)'
      BY <1>1, <2>2, <2>4, <2>5, <2>6, Zenon DEF ClientInv, HeldInv
  <2>8. OldInv(c)'
      BY <1>1, <2>2 DEF ClientInv, OldInv, Loaded, Old
  <2>9. SentInv(c)'
    <3>1. "backlog" \in Loaded /\ "ready" # "live"
        BY DEF Loaded
    <3>2. QED BY <1>1, <2>2, <2>5, <3>1, Zenon DEF ClientInv, SentInv
  <2>10. QED BY <2>7, <2>8, <2>9
<1>4. QED BY <1>2, <1>3

\* dispatch offers a stream a row that it matches.
LEMMA OfferClient ==
    ASSUME IInv, NEW c \in Clients, ClientInv(c), DispatchOffer(c)
    PROVE  HeldInv(c)' /\ OldInv(c)' /\ SentInv(c)'
<1> DEFINE s == sub[c]
           m == Min(batch)
<1>1. /\ log' = log /\ UNCHANGED <<lastRev, snapAt>> /\ s \in StreamRec /\ TypeOK
      /\ sub \in [Clients -> StreamRec] /\ hubPC = "offer" /\ c \in targets
    BY Zenon DEF IInv, TypeOK, ClientType, DispatchOffer, logVars, clientVars
<1>2. m \in DOMAIN log /\ m \in Nat /\ Matches(s, m)
  <2>1. batch # {} /\ TargetInv(c)
      BY <1>1 DEF IInv, HubInv, StreamInv
  <2>2. QED BY <1>1, <2>1, BatchMin DEF TargetInv, TypeOK
<1> HIDE DEF m
<1>3. PICK p \in Seq(Nat), e \in Seq(Nat) : p = s.pending /\ e = s.events
    BY <1>1 DEF StreamRec
<1>4. ASSUME NEW q \in Seq(Nat), \A i \in DOMAIN q : q[i] \in DOMAIN log /\ Matches(s, q[i])
      PROVE  \A i \in DOMAIN Append(q, m) :
                 Append(q, m)[i] \in DOMAIN log /\ Matches(s, Append(q, m)[i])
  <2>1. \A i \in DOMAIN Append(q, m) :
            Append(q, m)[i] = m \/ (i \in DOMAIN q /\ Append(q, m)[i] = q[i])
      BY <1>2, <1>4
  <2>2. QED BY <1>2, <1>4, <2>1, Zenon
<1>5. /\ \A i \in DOMAIN p : p[i] \in DOMAIN log /\ Matches(s, p[i])
      /\ \A i \in DOMAIN e : e[i] \in DOMAIN log /\ Matches(s, e[i])
      /\ \A r \in s.replay : r \in DOMAIN log /\ Matches(s, r)
    BY <1>3, Zenon DEF ClientInv, HeldInv
<1>6. \/ sub'[c] = Closed \/ sub'[c] = s
      \/ sub'[c] = [s EXCEPT !.pending = Append(p, m)]
      \/ s.phase \notin Computing /\ sub'[c] = [s EXCEPT !.events = Append(e, m), !.lastSent = m]
    BY <1>1, <1>3, Zenon DEF DispatchOffer, OfferTo, m
<1>7. CASE sub'[c] = Closed
    BY <1>7, ClosedClient
<1>8. CASE sub'[c] = s
  <2>1. Extends
      BY <1>1, StreamNumbers DEF Extends
  <2>2. QED BY <1>1, <1>8, <2>1, StreamLeftAlone
<1>9. ASSUME NEW a, NEW b,
             \A i \in DOMAIN a : a[i] \in DOMAIN log /\ Matches(s, a[i]),
             \A i \in DOMAIN b : b[i] \in DOMAIN log /\ Matches(s, b[i]),
             sub'[c].phase = s.phase, sub'[c].ids = s.ids, sub'[c].pending = a,
             sub'[c].events = b, sub'[c].replay = s.replay, sub'[c].rev = s.rev,
             sub'[c].cur = s.cur, sub'[c].rcur = s.rcur, sub'[c].hb = s.hb,
             sub'[c].isSnap = s.isSnap
      PROVE  HeldInv(c)' /\ OldInv(c)' /\ SentInv(c)'
  <2>1. \A r : Matches(sub[c], r)' <=> Matches(s, r)
      BY <1>1, <1>9, Zenon DEF Matches
  <2>2. HeldInv(c)'
      BY <1>1, <1>5, <1>9, <2>1, Zenon DEF HeldInv
  <2>3. OldInv(c)'
      BY <1>1, <1>9, Zenon DEF ClientInv, OldInv, Old
  <2>4. SentInv(c)'
      BY <1>1, <1>9, <2>1, Zenon DEF ClientInv, SentInv
  <2>5. QED BY <2>2, <2>3, <2>4
<1>10. CASE sub'[c] = [s EXCEPT !.pending = Append(p, m)]
  <2>1. /\ sub'[c].phase = s.phase /\ sub'[c].ids = s.ids /\ sub'[c].pending = Append(p, m)
        /\ sub'[c].events = e /\ sub'[c].replay = s.replay /\ sub'[c].rev = s.rev
        /\ sub'[c].cur = s.cur /\ sub'[c].rcur = s.rcur /\ sub'[c].hb = s.hb
        /\ sub'[c].isSnap = s.isSnap
      BY <1>1, <1>3, <1>10, Zenon DEF StreamRec
  <2>2. \A i \in DOMAIN Append(p, m) :
            Append(p, m)[i] \in DOMAIN log /\ Matches(s, Append(p, m)[i])
      BY <1>4, <1>5
  <2>3. QED BY <1>5, <1>9, <2>1, <2>2, Zenon
<1>11. CASE sub'[c] = [s EXCEPT !.events = Append(e, m), !.lastSent = m]
  <2>1. /\ sub'[c].phase = s.phase /\ sub'[c].ids = s.ids /\ sub'[c].pending = p
        /\ sub'[c].events = Append(e, m) /\ sub'[c].replay = s.replay /\ sub'[c].rev = s.rev
        /\ sub'[c].cur = s.cur /\ sub'[c].rcur = s.rcur /\ sub'[c].hb = s.hb
        /\ sub'[c].isSnap = s.isSnap
      BY <1>1, <1>3, <1>11, Zenon DEF StreamRec
  <2>2. \A i \in DOMAIN Append(e, m) :
            Append(e, m)[i] \in DOMAIN log /\ Matches(s, Append(e, m)[i])
      BY <1>4, <1>5
  <2>3. QED BY <1>5, <1>9, <2>1, <2>2, Zenon
<1>12. QED BY <1>6, <1>7, <1>8, <1>10, <1>11

\* The client applies a snapshot.
LEMMA SendSnapshotClient ==
    ASSUME IInv, NEW c \in Clients, ClientInv(c), SendSnapshot(c)
    PROVE  ClientInv(c)'
<1> DEFINE s == sub[c]
<1>1. /\ s.phase = "ready" /\ s.isSnap /\ s \in StreamRec /\ TypeOK /\ StreamInv(c)
      /\ sub'[c] = [s EXCEPT !.phase = "live"]
      /\ lastRev'[c] = Max({lastRev[c], s.rev}) /\ snapAt'[c] = Max({snapAt[c], s.rev})
      /\ UNCHANGED <<log, lost, got, nsID>>
    BY DEF SendSnapshot, StreamOnly, logVars, nsVars, IInv, TypeOK, ClientType
<1>2. /\ sub'[c].phase = "live" /\ sub'[c].ids = s.ids /\ sub'[c].pending = s.pending
      /\ sub'[c].events = s.events /\ sub'[c].replay = s.replay /\ sub'[c].rev = s.rev
      /\ sub'[c].hb = s.hb /\ sub'[c].isSnap
    BY <1>1, Zenon DEF StreamRec
<1>3. lastRev[c] \in Nat /\ snapAt[c] \in Nat /\ s.rev \in Nat
    BY <1>1, StreamNumbers
<1>4. /\ Max({lastRev[c], s.rev}) \in {lastRev[c], s.rev}
      /\ s.rev <= Max({snapAt[c], s.rev}) /\ snapAt[c] <= Max({snapAt[c], s.rev})
      /\ Max({snapAt[c], s.rev}) \in {snapAt[c], s.rev}
    BY <1>3, MaxPair, Zenon
<1>5. s.hb = s.rev
    BY <1>1 DEF StreamInv, ActiveInv, QueueInv, Active
<1>6. HeldInv(c)'
    BY <1>1, <1>2, HeldKept, Zenon DEF ClientInv
<1>7. OldInv(c)'
    BY <1>1, <1>2, Zenon DEF ClientInv, OldInv, Loaded, Old
<1>8. SentInv(c)'
    BY <1>1, <1>2, <1>4, <1>5, Zenon DEF SentInv
<1>9. ResumeInv(c)'
  <2> SUFFICES ASSUME NEW r \in DOMAIN log, r <= lastRev'[c], Relied(r)
               PROVE  r \in got[c] \/ r \in lost \/ r <= snapAt'[c]
      BY <1>1, Zenon DEF ResumeInv, Relied, Accounted
  <2>1. r \in Nat
      BY <1>1, StreamNumbers
  <2>2. CASE r <= lastRev[c]
      BY <1>1, <1>3, <1>4, <2>1, <2>2 DEF ClientInv, ResumeInv, Accounted
  <2>3. CASE r <= s.rev
      BY <1>1, <1>3, <1>4, <2>1, <2>3
  <2>4. QED BY <1>1, <1>4, <2>2, <2>3
<1>10. QED BY <1>6, <1>7, <1>8, <1>9 DEF ClientInv

\* A row that the stream's own next row would pass over, for the stream in a
\* phase in which it sends.
LEMMA NothingPassed ==
    ASSUME SoleNamespace, IInv, IdInv, NEW c \in Clients, ClientInv(c),
           sub[c].phase \in Active, sub[c].isSnap => sub[c].phase = "live",
           NEW h \in DOMAIN log, Matches(sub[c], h),
           NEW r \in DOMAIN log, r < h, lastRev[c] < r, Relied(r)
    PROVE  \/ r <= snapAt[c] \/ r \in sub[c].replay
           \/ sub[c].rev < r /\ Matches(sub[c], r)
<1>1. /\ TypeOK /\ sub[c].phase \in Loaded
    BY DEF IInv, Active, Loaded
<1>2. /\ r \in Nat /\ lastRev[c] \in Nat /\ sub[c].rev \in Nat /\ snapAt[c] \in Nat
      /\ sub[c] \in StreamRec
    BY <1>1, StreamNumbers
<1>3. CASE sub[c].isSnap /\ r <= sub[c].rev
    BY <1>2, <1>3 DEF ClientInv, SentInv
<1>4. CASE ~sub[c].isSnap \/ sub[c].rev < r
  <2>1. ~Old(r)
      BY <1>1, <1>2, <1>4 DEF ClientInv, OldInv
  <2>2. Matches(sub[c], r)
      BY <1>1, <1>2, <2>1, SameIncarnation, Zenon DEF TypeOK
  <2>3. CASE r <= sub[c].rev
      BY <1>1, <1>2, <1>4, <2>2, <2>3 DEF ClientInv, SentInv
  <2>4. QED BY <1>2, <2>2, <2>3
<1>5. QED BY <1>2, <1>3, <1>4

\* The client applies the next row of a replay.
LEMMA SendReplayClient ==
    ASSUME SoleNamespace, IInv, IdInv, NEW c \in Clients, ClientInv(c), SendReplay(c)
    PROVE  ClientInv(c)'
<1> DEFINE s == sub[c]
<1>1. /\ s.phase = "ready" /\ ~s.isSnap /\ s \in StreamRec /\ TypeOK /\ StreamInv(c)
      /\ UNCHANGED <<log, lost, nsID>>
    BY DEF SendReplay, StreamOnly, logVars, nsVars, IInv, TypeOK, ClientType
<1>2. QueueInv(c)
    BY <1>1 DEF StreamInv, ActiveInv, Active
<1>3. CASE s.replay = {}
  <2>1. sub'[c] = [s EXCEPT !.phase = "live"] /\ UNCHANGED <<lastRev, got, snapAt>>
      BY <1>3 DEF SendReplay, clientVars, IInv, TypeOK, ClientType
  <2>2. /\ sub'[c].phase = "live" /\ sub'[c].ids = s.ids /\ sub'[c].pending = s.pending
        /\ sub'[c].events = s.events /\ sub'[c].replay = s.replay /\ sub'[c].rev = s.rev
        /\ sub'[c].hb = s.hb /\ sub'[c].isSnap = s.isSnap
      BY <1>1, <2>1, Zenon DEF StreamRec
  <2>3. s.hb = s.rev
      BY <1>1, <1>2, Zenon DEF QueueInv
  <2>4. HeldInv(c)'
      BY <1>1, <2>2, HeldKept DEF ClientInv
  <2>5. OldInv(c)'
      BY <1>1, <2>1, <2>2, Zenon DEF ClientInv, OldInv, Loaded, Old
  <2>6. SentInv(c)'
      BY <1>1, <2>1, <2>2, <2>3, Zenon DEF ClientInv, SentInv, Loaded, Matches
  <2>7. ResumeInv(c)'
      BY <1>1, <2>1, Zenon DEF ClientInv, ResumeInv, Relied, Accounted
  <2>8. QED BY <2>4, <2>5, <2>6, <2>7 DEF ClientInv
<1>4. CASE s.replay # {}
  <2>0. s.replay \in SUBSET Nat /\ s.rev \in Nat /\ Len(log) \in Nat /\ lastRev[c] \in Nat
      BY <1>1, LogFacts, StreamNumbers DEF StreamRec
  <2>1. PICK h \in s.replay :
            /\ sub'[c] = [s EXCEPT !.replay = s.replay \ {h}]
            /\ ClientApplies(c, h) /\ \A q \in s.replay : h <= q
      BY Zenon, <1>4, <2>0, MinNat DEF SendReplay, IInv, TypeOK, ClientType
  <2>2. /\ lastRev[c] < h /\ h <= s.rev /\ h \in Nat /\ h <= Len(log)
        /\ h \in DOMAIN log /\ Matches(s, h)
      BY <1>1, <1>2, <2>0 DEF QueueInv, ClientInv, HeldInv
  <2>3. lastRev'[c] = h /\ got'[c] = got[c] \cup {h} /\ snapAt' = snapAt
      BY <1>1, <2>1, <2>2, Applies DEF TypeOK
  <2>4. /\ sub'[c].phase = "ready" /\ sub'[c].ids = s.ids /\ sub'[c].pending = s.pending
        /\ sub'[c].events = s.events /\ sub'[c].replay = s.replay \ {h} /\ sub'[c].rev = s.rev
        /\ sub'[c].isSnap = s.isSnap
      BY ZenonT(20), <1>1, <2>1 DEF StreamRec
  <2>5. HeldInv(c)'
      BY <1>1, <2>4, HeldKept, Zenon DEF ClientInv
  <2>6. \A r \in DOMAIN log : (r <= lastRev[c] => r <= h) /\ (h < r => lastRev[c] < r /\ r # h)
      BY <1>1, <2>0, <2>2, StreamNumbers
  <2>7. OldInv(c)'
      BY <1>1, <2>3, <2>4, <2>6, Zenon DEF ClientInv, OldInv, Loaded, Old
  <2>8. SentInv(c)'
    <3>1. "ready" # "live"
        OBVIOUS
    <3>2. QED BY <1>1, <2>3, <2>4, <2>6, <3>1, Zenon DEF ClientInv, SentInv, Loaded, Matches
  <2>9. ResumeInv(c)'
    <3> SUFFICES ASSUME NEW r \in DOMAIN log, r <= h, Relied(r)
                 PROVE  r \in got[c] \cup {h} \/ r \in lost \/ r <= snapAt[c]
        BY <1>1, <2>3, Zenon DEF ResumeInv, Relied, Accounted
    <3>1. r \in Nat
        BY <1>1, StreamNumbers
    <3>2. CASE r <= lastRev[c]
        BY <3>2 DEF ClientInv, ResumeInv, Accounted
    <3>3. CASE lastRev[c] < r /\ r < h
      <4>1. s.phase \in Active
          BY <1>1 DEF Active
      <4>2. r <= snapAt[c] \/ r \in s.replay \/ s.rev < r
          BY <1>1, <2>2, <3>3, <4>1, NothingPassed
      <4>3. ~(h <= r) /\ ~(s.rev < r)
          BY <2>0, <2>2, <3>1, <3>3
      <4>4. QED BY <2>1, <4>2, <4>3
    <3>4. QED BY <2>0, <2>2, <3>1, <3>2, <3>3
  <2>10. QED BY <2>5, <2>7, <2>8, <2>9 DEF ClientInv
<1>5. QED BY <1>3, <1>4

\* The client applies the next live row.
LEMMA PumpEventClient ==
    ASSUME SoleNamespace, IInv, IdInv, NEW c \in Clients, ClientInv(c), PumpEvent(c)
    PROVE  ClientInv(c)'
<1> DEFINE s == sub[c]
           h == Head(s.events)
<1>1. /\ s.phase = "live" /\ s \in StreamRec /\ s.events # <<>> /\ TypeOK /\ StreamInv(c)
      /\ sub'[c] = [s EXCEPT !.events = Tail(s.events), !.hb = h]
      /\ ClientApplies(c, h) /\ UNCHANGED <<log, lost, nsID>>
    BY DEF PumpEvent, StreamOnly, logVars, nsVars, IInv, TypeOK, ClientType
<1>2. QueueInv(c) /\ CompleteInv(c) /\ LogType /\ HubType /\ HubInv
    BY <1>1 DEF StreamInv, ActiveInv, Active, IInv, TypeOK
<1>3. PICK e \in Seq(Nat) : e = s.events /\ e # <<>>
    BY ZenonT(20), <1>1 DEF StreamRec
<1>4. /\ 1 \in DOMAIN e /\ h = e[1] /\ h \in Nat
      /\ \A i \in DOMAIN e : e[1] = e[i] \/ 1 < i
    BY <1>3
<1>5. PICK t \in Seq(Nat) : /\ t = Tail(s.events)
                           /\ \A i \in DOMAIN t : \E j \in DOMAIN e : t[i] = e[j]
  <2>1. /\ Tail(e) \in Seq(Nat) /\ Len(Tail(e)) = Len(e) - 1 /\ Len(e) \in Nat
        /\ \A i \in 1..Len(Tail(e)) : Tail(e)[i] = e[i + 1]
      BY <1>3
  <2>2. \A i \in DOMAIN Tail(e) : i + 1 \in DOMAIN e /\ Tail(e)[i] = e[i + 1]
      BY <1>3, <2>1
  <2>3. QED BY Zenon, <1>3, <2>1, <2>2
<1>6. /\ s.hb < h /\ lastRev[c] <= s.hb /\ s.rev <= s.hb /\ Done(c, h) /\ s.replay = {}
      /\ h \in DOMAIN log /\ Matches(s, h)
      /\ \A i \in DOMAIN e : e[i] \in DOMAIN log /\ Matches(s, e[i])
  <2>1. s.hb < h /\ lastRev[c] <= s.hb /\ s.rev <= s.hb /\ Done(c, h) /\ s.replay = {}
      BY <1>1, <1>2, <1>3, <1>4 DEF QueueInv
  <2>2. \A i \in DOMAIN e : e[i] \in DOMAIN log /\ Matches(s, e[i])
      BY <1>3, Zenon DEF ClientInv, HeldInv
  <2>3. QED BY <1>4, <2>1, <2>2
<1>7. /\ lastRev[c] \in Nat /\ s.rev \in Nat /\ s.hb \in Nat /\ Len(log) \in Nat
      /\ DOMAIN log = 1..Len(log)
    BY <1>1, StreamNumbers
<1>8. lastRev[c] < h /\ s.rev < h /\ h <= Len(log)
    BY <1>4, <1>6, <1>7
<1>9. lastRev'[c] = h /\ got'[c] = got[c] \cup {h} /\ snapAt' = snapAt
    BY <1>1, <1>2, <1>4, <1>8, Applies DEF TypeOK
<1> HIDE DEF h
<1>10. /\ sub'[c].phase = "live" /\ sub'[c].ids = s.ids /\ sub'[c].pending = s.pending
       /\ sub'[c].events = t /\ sub'[c].replay = s.replay /\ sub'[c].rev = s.rev
       /\ sub'[c].hb = h /\ sub'[c].isSnap = s.isSnap
    BY <1>1, <1>5, Zenon DEF StreamRec
<1>11. \A r : Matches(sub[c], r)' <=> Matches(s, r)
    BY <1>1, <1>10, Zenon DEF Matches
<1>12. HeldInv(c)'
  <2>1. \A i \in DOMAIN t : t[i] \in DOMAIN log /\ Matches(s, t[i])
      BY <1>5, <1>6, Zenon
  <2>2. QED BY <1>1, <1>10, <1>11, <2>1, Zenon DEF ClientInv, HeldInv
<1>13. \A r \in DOMAIN log : (r <= lastRev[c] => r <= h) /\ (h < r => ~(r <= s.rev))
    BY <1>4, <1>7, <1>8
<1>14. OldInv(c)'
    BY <1>1, <1>9, <1>10, <1>13, Zenon DEF ClientInv, OldInv, Loaded, Old
<1>15. SentInv(c)'
    BY <1>1, <1>9, <1>10, <1>13, Zenon DEF ClientInv, SentInv
<1>16. ResumeInv(c)'
  <2> SUFFICES ASSUME NEW r \in DOMAIN log, r <= h, Relied(r)
               PROVE  r \in got[c] \cup {h} \/ r \in lost \/ r <= snapAt[c]
      BY <1>1, <1>9, Zenon DEF ResumeInv, Relied, Accounted
  <2>1. CASE r <= lastRev[c]
      BY <2>1 DEF ClientInv, ResumeInv, Accounted
  <2>2. CASE lastRev[c] < r /\ r < h
    <3>1. s.phase \in Active
        BY <1>1 DEF Active
    <3>2. r <= snapAt[c] \/ (s.rev < r /\ Matches(s, r))
        BY <1>1, <1>6, <2>2, <3>1, NothingPassed
    <3>3. ASSUME s.rev < r, Matches(s, r) PROVE r \in got[c] \/ r \in lost
      <4>1. Done(c, r) \/ r \in lost
        <5>1. CASE h <= cursor
          <6>1. cursor \in Nat
              BY <1>2, <1>7 DEF HubType
          <6>2. r <= cursor
              BY <1>4, <1>7, <2>2, <5>1, <6>1
          <6>3. QED BY <6>2 DEF Done
        <5>2. CASE hubPC = "offer" /\ h = Min(batch)
          <6>1. batch # {}
              BY <1>2, <5>2 DEF HubInv
          <6>2. h \in batch /\ \A b \in batch : h <= b
              BY <1>2, <5>2, <6>1, BatchMin
          <6>3. cursor \in Nat
              BY <1>2, <1>7 DEF HubType
          <6>4. r \notin batch
              BY <1>4, <1>7, <2>2, <6>2
          <6>5. r <= cursor \/ r \in lost
              BY <1>2, <1>4, <1>7, <2>2, <6>2, <6>3, <6>4 DEF HubInv
          <6>6. QED BY <6>5 DEF Done
        <5>3. QED BY <1>6, <5>1, <5>2, Zenon DEF Done
      <4>2. ASSUME Holds(s.events, r) PROVE FALSE
        <5>1. PICK i \in DOMAIN e : e[i] = r
            BY <1>3, <4>2 DEF Holds
        <5>2. e[1] = e[i] \/ e[1] < e[i]
            BY <1>2, <1>3, <1>4, Zenon DEF QueueInv, Increasing
        <5>3. QED BY <1>4, <1>7, <2>2, <5>1, <5>2
      <4>3. QED BY <1>2, <3>3, <4>1, <4>2 DEF CompleteInv
    <3>4. QED BY <3>2, <3>3
  <2>3. QED BY <1>4, <1>7, <2>1, <2>2
<1>17. QED BY <1>12, <1>14, <1>15, <1>16 DEF ClientInv

\* A heartbeat tells a client bound to the present incarnations the revision
\* of its backlog.
LEMMA PumpHeartbeatClient ==
    ASSUME IInv, NEW c \in Clients, ClientInv(c), PumpHeartbeat(c)
    PROVE  ClientInv(c)'
<1> DEFINE s == sub[c]
<1>1. /\ s.phase = "live" /\ s \in StreamRec /\ TypeOK /\ StreamInv(c)
      /\ UNCHANGED <<log, lost, got, snapAt, nsID>> /\ sub \in [Clients -> StreamRec]
    BY SMTT(30) DEF PumpHeartbeat, StreamOnly, logVars, nsVars, IInv, TypeOK, ClientType
<1>2. CASE ~StillBound(s)
  <2>1. sub'[c] = Closed /\ lastRev' = lastRev
      BY <1>1, <1>2 DEF PumpHeartbeat, CloseStream
  <2>2. ResumeInv(c)'
      BY <1>1, <2>1, Zenon DEF ClientInv, ResumeInv, Relied, Accounted
  <2>3. QED BY <2>1, <2>2, ClosedClient DEF ClientInv
<1>3. CASE StillBound(s)
  <2>1. sub' = sub /\ lastRev'[c] = Max({lastRev[c], s.hb})
      BY ZenonT(20), <1>3 DEF PumpHeartbeat, IInv, TypeOK, ClientType
  <2>2. QueueInv(c)
      BY <1>1 DEF StreamInv, ActiveInv, Active
  <2>3. /\ s.hb \in Nat /\ lastRev[c] \in Nat /\ s.rev \in Nat /\ snapAt[c] \in Nat
        /\ lastRev[c] <= s.hb /\ s.replay = {}
      BY <1>1, <2>2, StreamNumbers DEF QueueInv
  <2>4. Max({lastRev[c], s.hb}) \in {lastRev[c], s.hb} /\ s.hb <= Max({lastRev[c], s.hb})
      BY <2>3, MaxPair, Zenon
  <2>5. lastRev'[c] = s.hb
      BY SMTT(30), <2>1, <2>3, <2>4
  <2>6. \A r : Matches(sub[c], r)' <=> Matches(s, r)
      BY <1>1, <2>1, Zenon DEF Matches
  <2>7. HeldInv(c)'
      BY <1>1, <2>1, <2>6, Zenon DEF ClientInv, HeldInv
  <2>8. \A r \in DOMAIN log : (r <= lastRev[c] => r <= s.hb) /\ (s.hb < r => lastRev[c] < r)
      BY <1>1, <2>3, StreamNumbers
  <2>9. OldInv(c)'
      BY <1>1, <2>1, <2>5, <2>8, Zenon DEF ClientInv, OldInv, Loaded, Old
  <2>10. SentInv(c)'
      BY <1>1, <2>1, <2>5, <2>6, <2>8, Zenon DEF ClientInv, SentInv
  <2>11. ResumeInv(c)'
    <3> SUFFICES ASSUME NEW r \in DOMAIN log, r <= s.hb, Relied(r)
                 PROVE  Accounted(c, r)
        BY <1>1, <2>5, Zenon DEF ResumeInv, Relied, Accounted
    <3>1. r \in Nat
        BY <1>1, StreamNumbers
    <3>2. CASE r <= lastRev[c]
        BY <3>2, Zenon DEF ClientInv, ResumeInv
    <3>3. CASE lastRev[c] < r
      <4>1. s.hb = s.rev /\ r <= s.rev
        <5>1. s.hb = s.rev \/ s.hb = lastRev[c]
            BY <1>1, Zenon DEF ClientInv, SentInv
        <5>2. QED BY <2>3, <3>1, <3>3, <5>1
      <4>2. CASE s.isSnap
        <5>1. s.rev <= snapAt[c]
            BY <1>1, <4>2, Zenon DEF ClientInv, SentInv
        <5>2. r <= snapAt[c]
            BY <2>3, <3>1, <4>1, <5>1
        <5>3. QED BY <5>2 DEF Accounted
      <4>3. CASE ~s.isSnap
        <5>1. s.phase \in Loaded
            BY <1>1 DEF Loaded
        <5>2. ~Old(r)
            BY <2>3, <3>1, <3>3, <4>3, <5>1 DEF ClientInv, OldInv
        <5>3. log[r] \in Rows
            BY <1>1 DEF TypeOK, LogType
        <5>4. Matches(s, r)
            BY <1>3, <5>2, <5>3 DEF Matches, Relied, Old, StillBound, Rows, Legacy
        <5>5. r \in s.replay
            BY <3>3, <4>1, <4>3, <5>1, <5>4 DEF ClientInv, SentInv
        <5>6. QED BY <2>3, <5>5
      <4>4. QED BY <4>2, <4>3
    <3>4. QED BY <2>3, <3>1, <3>2, <3>3
  <2>12. QED BY <2>7, <2>9, <2>10, <2>11 DEF ClientInv
<1>4. QED BY <1>2, <1>3

\* A stream's own step: its client still has everything it relies on.
LEMMA OwnClient ==
    ASSUME SoleNamespace, IInv, IdInv, NEW c \in Clients, ClientInv(c),
           \/ DropExpired(c) \/ Connect(c) \/ Disconnect(c) \/ Stream(c) \/ DispatchOffer(c)
    PROVE  ClientInv(c)'
<1>1. ASSUME HeldInv(c)' /\ OldInv(c)' /\ SentInv(c)',
             UNCHANGED <<log, lost, nsID, lastRev, got, snapAt>>
      PROVE  ClientInv(c)'
  <2>1. ResumeInv(c)'
      BY <1>1, Zenon DEF ClientInv, ResumeInv, Relied, Accounted
  <2>2. QED BY <1>1, <2>1 DEF ClientInv
<1>2. CASE DropExpired(c) \/ Disconnect(c)
  <2>1. sub'[c] = Closed /\ UNCHANGED <<log, lost, nsID, lastRev, got, snapAt>>
      BY <1>2 DEF DropExpired, Disconnect, CloseStream, clientVars, StreamOnly, logVars, nsVars,
                  IInv, TypeOK, ClientType
  <2>2. QED BY <1>1, <2>1, ClosedClient
<1>3. CASE DispatchOffer(c)
  <2>1. UNCHANGED <<log, lost, nsID, lastRev, got, snapAt>>
      BY <1>3, Zenon DEF DispatchOffer, clientVars, logVars, nsVars
  <2>2. QED BY <1>1, <1>3, <2>1, OfferClient
<1>4. CASE Connect(c) \/ Register(c) \/ ReadCurrent(c) \/ CanReplay(c) \/ CanReplayFails(c)
  <2>1. UNCHANGED <<log, lost, nsID, lastRev, got, snapAt>>
      BY <1>4, Zenon DEF Connect, Register, ReadCurrent, CanReplay, CanReplayFails, StreamOnly,
                         clientVars, logVars, nsVars
  <2>2. QED BY <1>1, <1>4, <2>1, OpeningClient
<1>5. CASE ReplayPage(c) \/ SnapshotRead(c) \/ Activate(c)
  <2>1. UNCHANGED <<log, lost, nsID, lastRev, got, snapAt>>
      BY <1>5, Zenon DEF ReplayPage, SnapshotRead, Activate, StreamOnly, clientVars, logVars, nsVars
  <2>2. HeldInv(c)' /\ OldInv(c)' /\ SentInv(c)'
      BY <1>5, ReplayPageClient, SnapshotReadClient, ActivateClient
  <2>3. QED BY <1>1, <2>1, <2>2
<1>6. CASE SendSnapshot(c) \/ SendReplay(c) \/ PumpEvent(c) \/ PumpHeartbeat(c)
    BY <1>6, SendSnapshotClient, SendReplayClient, PumpEventClient, PumpHeartbeatClient
<1>7. QED BY <1>2, <1>3, <1>4, <1>5, <1>6 DEF Stream

\* Clients begin with what they have seen.
LEMMA RInvInit == Init => RInv
<1> SUFFICES ASSUME Init PROVE RInv
    OBVIOUS
<1>1. /\ log \in Seq(Rows) /\ nsID = [n \in Namespaces |-> 1] /\ nextID = 2
      /\ \A r \in DOMAIN log : log[r].id < 2
    BY ChangeLogConstants DEF Init, LogInit, FirstFreeID
<1>2. \A r \in DOMAIN log : log[r] \in Rows
    BY <1>1
<1>3. \A r \in DOMAIN log : log[r].ns \in Namespaces /\ log[r].id \in {0, 1}
  <2>1. \A r \in DOMAIN log : log[r].ns \in Namespaces /\ log[r].id \in Nat
      BY <1>2, Zenon DEF Rows
  <2>2. QED BY <1>1, <2>1
<1>4. IdInv
    BY <1>1, <1>3 DEF IdInv, Absent, Legacy
<1>5. ASSUME NEW c \in Clients PROVE ClientInv(c)
  <2>1. /\ sub[c].phase = "off" /\ sub[c].pending = <<>> /\ sub[c].events = <<>>
        /\ sub[c].replay = {} /\ snapAt[c] = lastRev[c]
      BY DEF Init, Closed
  <2>2. HeldInv(c) /\ OldInv(c) /\ SentInv(c)
      BY <2>1 DEF HeldInv, OldInv, SentInv, Loaded
  <2>3. ResumeInv(c)
      BY <2>1 DEF ResumeInv, Accounted
  <2>4. QED BY <2>2, <2>3 DEF ClientInv
<1>6. QED BY <1>4, <1>5 DEF RInv

\* Every step keeps it, in the presence of the first invariant.
LEMMA RInvStep ==
    ASSUME SoleNamespace, IInv, RInv, [Next]_vars
    PROVE  RInv'
<1>1. TypeOK /\ LogType /\ ClientType /\ IdInv /\ \A c \in Clients : ClientInv(c)
    BY DEF IInv, TypeOK, RInv
<1>2. ASSUME log' = log PROVE Extends
    BY <1>1, <1>2, LogFacts DEF Extends
<1>3. ASSUME UNCHANGED <<log, nsID, nextID>> PROVE IdInv' /\ \A r : Relied(r)' <=> Relied(r)
    BY <1>1, <1>3, Zenon DEF IdInv, Relied
<1>4. ASSUME Extends, IdInv', UNCHANGED <<sub, lastRev, got, snapAt>>, lost \subseteq lost',
             \A r \in DOMAIN log : Relied(r)' => Relied(r)
      PROVE  RInv'
  <2>1. ASSUME NEW c \in Clients PROVE ClientInv(c)'
    <3>1. /\ sub'[c] = sub[c] /\ lastRev'[c] = lastRev[c] /\ snapAt'[c] = snapAt[c]
          /\ got'[c] = got[c] /\ ClientInv(c) /\ ResumeInv(c)
        BY <1>1, <1>4, Zenon DEF ClientInv
    <3>2. HeldInv(c)' /\ OldInv(c)' /\ SentInv(c)'
        BY <1>4, <3>1, StreamLeftAlone
    <3>3. ResumeInv(c)'
        BY <1>4, <3>1, ResumeKept
    <3>4. QED BY <3>2, <3>3 DEF ClientInv
  <2>2. QED BY <1>4, <2>1 DEF RInv
<1>5. ASSUME NEW n \in Namespaces, Commit(n) PROVE RInv'
  <2>1. AppendChange(n) /\ UNCHANGED nsVars /\ UNCHANGED <<sub, lastRev, got, snapAt, lost>>
      BY <1>5 DEF Commit, clientVars
  <2>2. Extends /\ IdInv' /\ \A r \in DOMAIN log : Relied(r)' => Relied(r)
      BY <1>1, <2>1, CommitIds
  <2>3. QED BY <1>4, <2>1, <2>2
<1>6. ASSUME NEW n \in Watched, ReplaceNamespace(n) PROVE RInv'
  <2>1. /\ n \in Namespaces /\ (DeleteNamespace(n) \/ CreateNamespace(n))
        /\ UNCHANGED <<sub, lastRev, got, snapAt, lost>>
      BY <1>6, WatchHubConstants DEF ReplaceNamespace, clientVars
  <2>2. Extends /\ IdInv' /\ \A r \in DOMAIN log : Relied(r)' => Relied(r)
      BY <1>1, <2>1, ReplaceIds
  <2>3. QED BY <1>4, <2>1, <2>2
<1>7. ASSUME UNCHANGED <<log, nsID, nextID, sub, lastRev, got, snapAt>>, lost \subseteq lost'
      PROVE  RInv'
    BY <1>2, <1>3, <1>4, <1>7
<1>8. CASE Wake \/ RunWake \/ RunRetry \/ DrainRead \/ DrainFail \/ DispatchCopy \/ DrainAdvance
    BY <1>7, <1>8 DEF Wake, RunWake, RunRetry, DrainRead, DrainFail, DispatchCopy, DrainAdvance,
                      logVars, nsVars, clientVars
<1>9. CASE PruneChangeLog \/ UNCHANGED vars
    BY <1>7, <1>9, Zenon DEF PruneChangeLog, vars, nsVars, clientVars
<1>10. CASE Restart
  <2>1. UNCHANGED <<log, nsID, nextID, lastRev, got, snapAt, lost>>
      BY <1>10 DEF Restart, logVars, nsVars, clientVars
  <2>2. ASSUME NEW c \in Clients PROVE ClientInv(c)'
    <3>1. sub'[c] = Closed
        BY <1>10 DEF Restart
    <3>2. ResumeInv(c)'
        BY <1>1, <2>1, Zenon DEF ClientInv, ResumeInv, Relied, Accounted
    <3>3. QED BY <3>1, <3>2, ClosedClient DEF ClientInv
  <2>3. QED BY <1>3, <2>1, <2>2 DEF RInv
<1>11. ASSUME NEW c \in Clients,
              \/ DropExpired(c) \/ Connect(c) \/ Disconnect(c) \/ Stream(c) \/ DispatchOffer(c)
       PROVE  RInv'
  <2>1. UNCHANGED <<log, nsID, nextID, lost>>
    <3>1. CASE DispatchOffer(c)
        BY <3>1 DEF DispatchOffer, logVars, nsVars
    <3>2. CASE DropExpired(c) \/ Connect(c) \/ Disconnect(c) \/ Stream(c)
        BY ZenonT(20), <3>2, StreamStepFrame DEF StreamStep
    <3>3. QED BY <1>11, <3>1, <3>2
  <2>2. ASSUME NEW d \in Clients, d # c PROVE ClientInv(d)'
    <3>1. sub'[d] = sub[d] /\ lastRev'[d] = lastRev[d] /\ got'[d] = got[d]
        BY <1>1, <1>11, <2>2, OtherStreams
    <3>2. PICK a : snapAt' = [snapAt EXCEPT ![c] = a]
        BY <1>1, <1>11, OwnPlace
    <3>3. snapAt'[d] = snapAt[d]
        BY <1>1, <2>2, <3>2 DEF ClientType
    <3>4. Extends /\ ClientInv(d) /\ ResumeInv(d)
        BY <1>1, <1>2, <2>1 DEF ClientInv
    <3>5. HeldInv(d)' /\ OldInv(d)' /\ SentInv(d)'
        BY <3>1, <3>3, <3>4, StreamLeftAlone
    <3>6. ResumeInv(d)'
        BY <1>3, <2>1, <3>1, <3>3, <3>4, ResumeKept
    <3>7. QED BY <3>5, <3>6 DEF ClientInv
  <2>3. ClientInv(c)'
      BY <1>1, <1>11, OwnClient
  <2>4. QED BY <1>3, <2>1, <2>2, <2>3 DEF RInv
<1>12. CASE StreamStep
    BY <1>11, <1>12 DEF StreamStep
<1>13. QED
    BY ZenonT(20), <1>5, <1>6, <1>8, <1>9, <1>10, <1>11, <1>12, NextCases

\* A client of one namespace that resumes from the revision it has seen has
\* missed nothing: across reconnects, restarts, pruning and the replacement
\* of the namespace it has applied every row of the present incarnation up to
\* that revision, or a snapshot with it (computeBacklog, shouldApply,
\* advanceRev).
THEOREM ResumeMissesNothing ==
    ASSUME SoleNamespace
    PROVE  Spec => []ResumeComplete
<1>1. Init => RInv
    BY RInvInit
<1>2. IInv /\ RInv /\ [Next]_vars => RInv'
    BY RInvStep
<1>3. IInv /\ RInv => ResumeComplete
  <2> SUFFICES ASSUME IInv, RInv, NEW c \in Clients, NEW r \in 1..lastRev[c],
                      log[r].ns \in Watched, log[r].id \in {nsID[log[r].ns], Legacy}
               PROVE  r \in got[c] \cup lost \/ r <= snapAt[c]
      BY Zenon DEF ResumeComplete
  <2>1. r \in DOMAIN log /\ r <= lastRev[c]
      BY StreamNumbers DEF IInv
  <2>2. QED BY <2>1, Zenon DEF RInv, ClientInv, ResumeInv, Relied, Accounted
<1>4. QED BY <1>1, <1>2, <1>3, Invariance, PTL DEF Spec

===============================================================================
