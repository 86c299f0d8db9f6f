-------------------------- MODULE PublicPolicyProofs --------------------------
(***************************************************************************)
(* The safety properties of PublicPolicy, for any number of processes,     *)
(* generations and calls under way.                                        *)
(***************************************************************************)
EXTENDS PublicPolicy, TLAPS

USE ZenonT(3), SMTT(20)     \* in this order, for a leaf that names no prover

\* An attempt runs only where there is no resource, so it cannot bring a second.
AttemptInv == \A r \in Replicas : adapter[r].attempt # "none" => ~adapter[r].resource

\* React renders what the ref holds, or an earlier policy.
ShownInv == page.shown <= page.policy

IInv == TypeOK /\ AttemptInv /\ ResourceClosedOnce /\ RefreshingIsReal /\ ShownInv

\* The steps of one process, and those of one call.
ReplicaStep(r) == Follow(r) \/ Attempt(r) \/ Close(r) \/ CloseTakes(r) \/ CloseEnds(r)
PageStep == Refresh \/ Mount \/ Unmount \/ Render \/ NewInitial \/ Submit

-----------------------------------------------------------------------------
(* Calls.                                                                  *)

\* Moving a call on to another stage changes neither its kind nor whether it is
\* current, and keeps its type.
LEMMA StageMoves ==
    ASSUME NEW c \in Call, NEW s \in {"sent", "starting", "started", "refused"},
           c.stage \in {"sent", "starting", "started", "refused"}
    PROVE  /\ [c EXCEPT !.stage = s] \in Call
           /\ [c EXCEPT !.stage = s].kind = c.kind /\ [c EXCEPT !.stage = s].current = c.current
BY DEF Call

\* An answered call whose headers were read is the same call, reading its body.
LEMMA BodyMoves ==
    ASSUME NEW c \in Call, c.stage = "answered"
    PROVE  /\ [c EXCEPT !.stage = "body"] \in Call
           /\ [c EXCEPT !.stage = "body"].kind = c.kind /\ [c EXCEPT !.stage = "body"].current = c.current
BY DEF Call

\* Aborting the page's current calls (abortActive) leaves calls.
LEMMA SupersededType ==
    ASSUME calls \subseteq Call
    PROVE  Superseded \subseteq Call
<1> SUFFICES ASSUME NEW c \in calls, c.stage \in {"answered", "body"}
             PROVE  [c EXCEPT !.current = FALSE] \in Call
    BY DEF Superseded
<1> QED BY DEF Call

\* calls' holds a current refresh when calls does.
Keeps(c) == c.kind = "refresh" /\ c.current
KeepsRefresh == (\E c \in calls : Keeps(c)) => \E c \in calls' : Keeps(c)

\* A call that only changes its stage leaves the running refresh running.
LEMMA ReplaceKeeps ==
    ASSUME NEW c, NEW d, Replace(c, d), d.kind = c.kind, d.current = c.current
    PROVE  KeepsRefresh
BY DEF Replace, KeepsRefresh, Keeps

\* An attempt that settles for everyone who shares it leaves calls and the running refresh.
LEMMA SettleType ==
    ASSUME calls \subseteq Call, NEW r, NEW s \in {"started", "refused"}, AttemptSettles(r, s)
    PROVE  calls' \subseteq Call /\ KeepsRefresh
<1> DEFINE f(c) == IF c.stage = "starting" /\ c.at = r THEN [c EXCEPT !.stage = s] ELSE c
<1>1. \A c \in calls : f(c) \in Call /\ f(c).kind = c.kind /\ f(c).current = c.current
  BY StageMoves
<1>2. calls' = {f(c) : c \in calls}
  BY DEF AttemptSettles
<1> HIDE DEF f
<1> QED BY <1>1, <1>2 DEF KeepsRefresh, Keeps

\* An answer from the server leaves calls and the running refresh.
LEMMA AnswersType ==
    ASSUME calls \subseteq Call, NEW c \in calls, NEW s \in Statuses, NEW v \in Revisions, Answers(c, s, v)
    PROVE  calls' \subseteq Call /\ KeepsRefresh
<1> DEFINE d == [kind |-> c.kind, current |-> c.current, stage |-> "answered", status |-> s, rev |-> v]
<1>1. d \in Call /\ d.kind = c.kind /\ d.current = c.current
  BY DEF Call
<1>2. Replace(c, d)
  BY DEF Answers
<1> HIDE DEF d
<1>3. KeepsRefresh
  BY <1>1, <1>2, ReplaceKeeps
<1> QED BY <1>1, <1>2, <1>3 DEF Replace

\* What a step of the server's does to the calls.
LEMMA ServerCalls ==
    ASSUME TypeOK,
           \/ Publish
           \/ \E r \in Replicas : ReplicaStep(r)
           \/ \E c \in calls : Serve(c) \/ Lost(c)
    PROVE  calls' \subseteq Call /\ KeepsRefresh /\ page' = page
<1> USE DEF TypeOK
<1>1. CASE calls' = calls /\ page' = page
  BY <1>1 DEF KeepsRefresh
<1>2. ASSUME NEW r \in Replicas, NEW s \in {"started", "refused"}, AttemptSettles(r, s), page' = page
      PROVE  calls' \subseteq Call /\ KeepsRefresh /\ page' = page
  BY <1>2, SettleType
<1>3. CASE Publish
  BY <1>1, <1>3 DEF Publish
<1>4. ASSUME NEW r \in Replicas, ReplicaStep(r)
      PROVE  calls' \subseteq Call /\ KeepsRefresh /\ page' = page
  BY <1>1, <1>2, <1>4
     DEF ReplicaStep, Follow, Attempt, Close, CloseTakes, CloseEnds, Initialized, InitializeFails,
         ResourceUnfit, UnfitClosed, UnfitLeft
<1>5. ASSUME NEW c \in calls, Arrive(c)
      PROVE  calls' \subseteq Call /\ KeepsRefresh /\ page' = page
  <2> DEFINE s == IF Closed(c.at) THEN "refused" ELSE IF adapter[c.at].resource THEN "started" ELSE "starting"
  <2>1. s \in {"sent", "starting", "started", "refused"} /\ c \in Call /\ c.stage = "sent"
    BY <1>5 DEF Arrive
  <2>2. Replace(c, [c EXCEPT !.stage = s]) /\ page' = page
    BY <1>5 DEF Arrive
  <2> HIDE DEF s
  <2>3. /\ [c EXCEPT !.stage = s] \in Call
        /\ [c EXCEPT !.stage = s].kind = c.kind /\ [c EXCEPT !.stage = s].current = c.current
    BY <2>1, StageMoves
  <2>4. KeepsRefresh
    BY <2>2, <2>3, ReplaceKeeps
  <2> QED BY <2>2, <2>3, <2>4 DEF Replace
<1>6. ASSUME NEW c \in calls, Answer(c)
      PROVE  calls' \subseteq Call /\ KeepsRefresh /\ page' = page
  <2> DEFINE v == IF Status(c) \in {"served", "policy_changed"} THEN source[c.at] ELSE 0
  <2>1. c \in Call /\ c.stage \in {"started", "refused"}
    BY <1>6 DEF Answer
  <2>2. c.at \in Replicas /\ c.kind \in {"refresh", "submit"}
    BY <2>1 DEF Call
  <2>3. Status(c) \in Statuses
    BY <2>2 DEF Status, Statuses
  <2>4. v \in Revisions
    BY <2>2, PolicyConstants DEF Revisions
  <2>5. Answers(c, Status(c), v) /\ page' = page
    BY <1>6 DEF Answer
  <2> HIDE DEF v
  <2> QED BY <2>3, <2>4, <2>5, AnswersType
<1>7. ASSUME NEW c \in calls, Lost(c)
      PROVE  calls' \subseteq Call /\ KeepsRefresh /\ page' = page
  BY <1>7, AnswersType, PolicyConstants DEF Lost, Statuses, Revisions
<1> QED BY <1>3, <1>4, <1>5, <1>6, <1>7 DEF Serve

-----------------------------------------------------------------------------
(* The processes.                                                          *)

ServerInv ==
    /\ published \in Revisions /\ source \in [Replicas -> 0..published]
    /\ adapter \in [Replicas -> Adapter] /\ alive \in [Replicas -> Nat]
    /\ disturbed \in 0..MaxDisturbed
    /\ AttemptInv /\ ResourceClosedOnce

\* A process's own steps keep its resource closed once: following the policy, the attempt to
\* initialize, and close.
LEMMA ReplicaServer ==
    ASSUME ServerInv, NEW r \in Replicas, ReplicaStep(r)
    PROVE  ServerInv'
<1> USE PolicyConstants DEF ServerInv, AttemptInv, ResourceClosedOnce, Held, Adapter, Revisions, Disturb
<1>1. CASE Follow(r)
  BY <1>1 DEF Follow
<1>2. CASE Initialized(r)
  BY <1>2 DEF Initialized
<1>3. CASE InitializeFails(r)
  BY <1>3 DEF InitializeFails
<1>4. CASE ResourceUnfit(r)
  BY <1>4 DEF ResourceUnfit
<1>5. CASE UnfitClosed(r)
  BY <1>5 DEF UnfitClosed
<1>6. CASE UnfitLeft(r)
  BY <1>6 DEF UnfitLeft
<1>7. CASE Close(r)
  BY <1>7 DEF Close, Closed
<1>8. CASE CloseTakes(r)
  BY <1>8 DEF CloseTakes, Taken
<1>9. CASE CloseEnds(r)
  BY <1>9 DEF CloseEnds
<1> QED BY <1>1, <1>2, <1>3, <1>4, <1>5, <1>6, <1>7, <1>8, <1>9 DEF ReplicaStep, Attempt

\* Serving, losing or returning a call keeps every process's resource closed once.
LEMMA CallServer ==
    ASSUME ServerInv, calls \subseteq Call, NEW c \in calls, Serve(c) \/ Lost(c) \/ Return(c)
    PROVE  ServerInv'
<1> USE PolicyConstants DEF ServerInv, Disturb
<1>1. CASE UNCHANGED serverVars /\ (UNCHANGED disturbed \/ Disturb)
  BY <1>1 DEF AttemptInv, ResourceClosedOnce, serverVars
<1>2. CASE Arrive(c)
  <2>1. c.at \in Replicas
    BY <1>2 DEF Arrive, Call
  <2>2. CASE adapter' = adapter
    BY <1>2, <2>2 DEF Arrive, AttemptInv, ResourceClosedOnce
  <2>3. CASE /\ ~Closed(c.at) /\ ~adapter[c.at].resource
             /\ adapter' = [adapter EXCEPT ![c.at].attempt = "initializing"]
    BY <1>2, <2>1, <2>3 DEF Arrive, AttemptInv, ResourceClosedOnce, Held, Adapter, Closed
  <2> QED BY <1>2, <2>2, <2>3 DEF Arrive
<1>3. CASE Answer(c) \/ Lost(c)
  BY <1>1, <1>3 DEF Answer, Lost
<1>4. CASE Return(c)
  BY <1>1, <1>4 DEF Return, RefreshReturns, ResponseArrives, BodyArrives, SubmitReturns
<1> QED BY <1>2, <1>3, <1>4 DEF Serve

\* Every step keeps every process's resource closed once.
LEMMA ServerStep ==
    ASSUME ServerInv, calls \subseteq Call, Next
    PROVE  ServerInv'
<1>1. CASE UNCHANGED serverVars /\ (UNCHANGED disturbed \/ Disturb)
  BY <1>1, PolicyConstants DEF ServerInv, Disturb, AttemptInv, ResourceClosedOnce, serverVars
<1>2. CASE Publish
  BY <1>2, PolicyConstants DEF Publish, ServerInv, AttemptInv, ResourceClosedOnce, Revisions
<1>3. CASE PageStep
  BY <1>1, <1>3 DEF PageStep, Refresh, Mount, Unmount, Render, NewInitial, Submit
<1> QED BY <1>2, <1>3, ReplicaServer, CallServer DEF Next, PageStep, ReplicaStep

-----------------------------------------------------------------------------
(* The page.                                                               *)

PageInv == page \in Page /\ calls \subseteq Call /\ RefreshingIsReal /\ ShownInv

\* What a step may do to the policies a page holds and shows.
PageMove ==
    \/ page' = page
    \/ \E m \in BOOLEAN, f \in BOOLEAN, l \in BOOLEAN :
          page' = [page EXCEPT !.mounted = m, !.refreshing = f, !.left = l]
    \/ \E v \in Revisions, f \in BOOLEAN, l \in BOOLEAN : v >= page.policy /\
          page' = [page EXCEPT !.policy = v, !.refreshing = f, !.left = l]
    \/ page' = [page EXCEPT !.shown = page.policy]

\* A move of the page keeps what it shows behind what it knows, and never goes back.
LEMMA PageMoves ==
    ASSUME page \in Page, ShownInv, PageMove
    PROVE  page' \in Page /\ ShownInv' /\ page.shown <= page'.shown
<1>1. page.policy \in Nat /\ page.shown \in Nat /\ page.shown <= page.policy
  BY PolicyConstants DEF Page, ShownInv, Revisions
<1>2. CASE page' = page
  BY <1>1, <1>2 DEF ShownInv
<1>3. ASSUME NEW m \in BOOLEAN, NEW f \in BOOLEAN, NEW l \in BOOLEAN,
             page' = [page EXCEPT !.mounted = m, !.refreshing = f, !.left = l]
      PROVE  page' \in Page /\ page'.policy = page.policy /\ page'.shown = page.shown
  BY <1>3 DEF Page
<1>4. ASSUME NEW v \in Revisions, NEW f \in BOOLEAN, NEW l \in BOOLEAN, v >= page.policy,
             page' = [page EXCEPT !.policy = v, !.refreshing = f, !.left = l]
      PROVE  page' \in Page /\ page'.policy >= page.policy /\ page'.shown = page.shown
             /\ page'.policy \in Nat
  <2>1. page' \in Page /\ page'.policy = v /\ page'.shown = page.shown
    BY <1>4 DEF Page
  <2>2. v \in Nat
    BY PolicyConstants DEF Revisions
  <2> QED BY <1>4, <2>1, <2>2
<1>5. CASE page' = [page EXCEPT !.shown = page.policy]
  <2>1. page' \in Page /\ page'.policy = page.policy /\ page'.shown = page.policy
    BY <1>5 DEF Page
  <2> QED BY <1>1, <2>1 DEF ShownInv
<1>6. ASSUME page' \in Page, page'.policy \in Nat, page'.policy >= page.policy,
             page'.shown = page.shown
      PROVE  ShownInv' /\ page.shown <= page'.shown
  BY <1>1, <1>6 DEF ShownInv
<1>7. page.policy >= page.policy
  BY <1>1
<1> QED BY <1>1, <1>2, <1>3, <1>4, <1>5, <1>6, <1>7 DEF PageMove

\* The end of a refresh or of a submission.
LEMMA CallEnds ==
    ASSUME PageInv, NEW c \in calls, calls' = calls \ {c},
           \/ page' = page /\ ~(Keeps(c) /\ page.mounted)
           \/ \E v \in Revisions : v >= page.policy /\
                 page' = [page EXCEPT !.policy = v, !.refreshing = FALSE, !.left = FALSE]
    PROVE  PageInv' /\ page.shown <= page'.shown
<1>1. page' \in Page /\ ShownInv' /\ page.shown <= page'.shown
  BY PageMoves DEF PageMove, PageInv
<1>2. calls' \subseteq Call
  BY DEF PageInv
<1>3. CASE page' = page /\ ~(Keeps(c) /\ page.mounted)
  <2>1. RefreshingIsReal'
    BY <1>3 DEF PageInv, RefreshingIsReal, Keeps
  <2> QED BY <1>1, <1>2, <2>1 DEF PageInv
<1>4. CASE ~page'.refreshing
  BY <1>1, <1>2, <1>4 DEF PageInv, RefreshingIsReal
<1>5. ASSUME NEW v \in Revisions, page' = [page EXCEPT !.policy = v, !.refreshing = FALSE, !.left = FALSE]
      PROVE  ~page'.refreshing
  BY <1>5 DEF PageInv, Page
<1> QED BY <1>3, <1>4, <1>5

\* Adopting a policy only if it is newer never lowers the page's revision.
LEMMA IfNewerType ==
    ASSUME page \in Page, NEW v \in Revisions
    PROVE  IfNewer(v) \in Revisions /\ IfNewer(v) >= page.policy
BY PolicyConstants DEF IfNewer, Page, Revisions

\* A response the page takes in keeps the page's invariant and what it has shown.
LEMMA ReturnPage ==
    ASSUME PageInv, NEW c \in calls, Return(c)
    PROVE  PageInv' /\ page.shown <= page'.shown
<1> USE DEF PageInv
<1>1. c \in Call /\ page.policy \in Revisions /\ page.policy >= page.policy
  BY PolicyConstants DEF Page, Revisions
<1>2. CASE RefreshReturns(c)
  BY <1>2, CallEnds DEF RefreshReturns, Keeps
<1>3. CASE ResponseArrives(c)
  <2>1. CASE Replace(c, [c EXCEPT !.stage = "body"]) /\ UNCHANGED page
    <3> DEFINE d == [c EXCEPT !.stage = "body"]
    <3>1. d \in Call /\ d.kind = c.kind /\ d.current = c.current
      BY <1>1, <1>3, BodyMoves DEF ResponseArrives, Answered
    <3>2. Replace(c, d)
      BY <2>1
    <3> HIDE DEF d
    <3>3. KeepsRefresh
      BY <3>1, <3>2, ReplaceKeeps
    <3> QED BY <2>1, <3>1, <3>2, <3>3, PolicyConstants
            DEF Replace, KeepsRefresh, Keeps, RefreshingIsReal, ShownInv, Page, Revisions
  <2>2. CASE RefreshEnds(c, page.policy)
    BY <1>1, <2>2, CallEnds DEF RefreshEnds
  <2> QED BY <1>3, <2>1, <2>2 DEF ResponseArrives
<1>4. CASE BodyArrives(c)
  <2>1. c.rev \in Revisions
    BY <1>1 DEF Call
  <2>2. CASE RefreshEnds(c, IfNewer(c.rev))
    BY <2>1, <2>2, CallEnds, IfNewerType DEF RefreshEnds
  <2>3. CASE RefreshEnds(c, page.policy)
    BY <1>1, <2>3, CallEnds DEF RefreshEnds
  <2> QED BY <1>4, <2>2, <2>3 DEF BodyArrives
<1>5. CASE SubmitReturns(c)
  <2>1. ~Keeps(c)
    BY <1>5 DEF SubmitReturns, Keeps
  <2>2. CASE calls' = calls \ {c} /\ UNCHANGED page
    BY <2>1, <2>2, CallEnds
  <2>3. CASE /\ calls' = Superseded \ {c}
             /\ page' = [page EXCEPT !.policy = IfNewer(c.rev), !.refreshing = FALSE, !.left = FALSE]
    <3>1. calls' \subseteq Call
      BY <2>3, SupersededType
    <3>2. IfNewer(c.rev) \in Revisions /\ IfNewer(c.rev) >= page.policy
      BY <1>1, IfNewerType DEF Call
    <3>3. page' \in Page /\ ShownInv' /\ page.shown <= page'.shown
      BY <2>3, <3>2, PageMoves DEF PageMove
    <3>4. ~page'.refreshing
      BY <2>3 DEF Page
    <3> QED BY <3>1, <3>3, <3>4 DEF RefreshingIsReal
  <2> QED BY <1>5, <2>2, <2>3 DEF SubmitReturns, ApplyServerResult
<1> QED BY <1>2, <1>3, <1>4, <1>5 DEF Return

\* The page's refresh flag is raised together with the current refresh call.
LEMMA SendType ==
    ASSUME PageInv, SendRefresh
    PROVE  calls' \subseteq Call /\ \E c \in calls' : c.kind = "refresh" /\ c.current
<1>1. PICK r \in Replicas :
        calls' = Superseded \cup {[kind |-> "refresh", current |-> TRUE, at |-> r, rev |-> page.policy, stage |-> "sent"]}
  BY DEF SendRefresh
<1>2. [kind |-> "refresh", current |-> TRUE, at |-> r, rev |-> page.policy, stage |-> "sent"] \in Call
  BY DEF PageInv, Page, Call
<1>3. calls' \subseteq Call
  BY <1>1, <1>2, SupersededType DEF PageInv
<1> DEFINE n == [kind |-> "refresh", current |-> TRUE, at |-> r, rev |-> page.policy, stage |-> "sent"]
<1>4. n.kind = "refresh" /\ n.current = TRUE
  OBVIOUS
<1>5. n \in calls'
  BY <1>1
<1> HIDE DEF n
<1>6. \E c \in calls' : c.kind = "refresh" /\ c.current
  BY <1>4, <1>5
<1> QED BY <1>3, <1>6

\* The page's own steps keep its invariant and what it has shown.
LEMMA PageStepPage ==
    ASSUME PageInv, source \in [Replicas -> Revisions], PageStep
    PROVE  PageInv' /\ page.shown <= page'.shown
<1> USE DEF PageInv
<1>1. CASE Refresh \/ Mount
  <2>0. page.mounted \in BOOLEAN /\ page.refreshing \in BOOLEAN /\ page.left \in BOOLEAN
    BY DEF Page
  <2>1. CASE SendRefresh /\ \E m \in BOOLEAN, f \in BOOLEAN, l \in BOOLEAN :
                               page' = [page EXCEPT !.mounted = m, !.refreshing = f, !.left = l]
    <3>1. calls' \subseteq Call /\ RefreshingIsReal'
      BY <2>1, SendType DEF RefreshingIsReal
    <3> QED BY <2>1, <3>1, PageMoves DEF PageMove
  <2>2. CASE page' = [page EXCEPT !.mounted = TRUE, !.left = page.refreshing] /\ calls' = calls
    <3>1. page' = [page EXCEPT !.mounted = TRUE, !.refreshing = page.refreshing, !.left = page.refreshing]
      BY <2>2 DEF Page
    <3>2. page'.left = page'.refreshing
      BY <3>1 DEF Page
    <3>3. RefreshingIsReal'
      BY <3>2 DEF RefreshingIsReal
    <3> QED BY <2>0, <2>2, <3>1, <3>3, PageMoves DEF PageMove
  <2>3. CASE Refresh
    <3>1. page' = [page EXCEPT !.refreshing = page.refreshing \/ page.mounted, !.left = page.left /\ ~page.mounted]
      BY <2>3 DEF Refresh
    <3>2. page' = [page EXCEPT !.mounted = page.mounted, !.refreshing = page.refreshing \/ page.mounted,
                               !.left = page.left /\ ~page.mounted]
      BY <3>1 DEF Page
    <3> QED BY <2>0, <2>1, <2>3, <3>2 DEF Refresh
  <2>4. CASE Mount
    BY <2>1, <2>2, <2>4 DEF Mount
  <2> QED BY <1>1, <2>3, <2>4
<1>2. CASE Unmount
  <2>1. calls' \subseteq Call
    BY <1>2, SupersededType DEF Unmount
  <2>2. /\ page' = [page EXCEPT !.mounted = FALSE, !.refreshing = page.refreshing, !.left = page.left]
        /\ page.refreshing \in BOOLEAN /\ page.left \in BOOLEAN
    BY <1>2 DEF Unmount, Page
  <2>3. ~page'.mounted
    BY <2>2 DEF Page
  <2> QED BY <2>1, <2>2, <2>3, PageMoves DEF PageMove, RefreshingIsReal
<1>3. CASE Render
  <2>1. page' = [page EXCEPT !.shown = page.policy] /\ calls' = calls
    BY <1>3 DEF Render
  <2>2. page'.mounted = page.mounted /\ page'.refreshing = page.refreshing /\ page'.left = page.left
    BY <2>1 DEF Page
  <2> QED BY <2>1, <2>2, PageMoves DEF PageMove, RefreshingIsReal
<1>4. CASE NewInitial
  <2>1. PICK v \in Revisions : page' = [page EXCEPT !.policy = IfNewer(v)]
    BY <1>4 DEF NewInitial
  <2>2. IfNewer(v) \in Revisions /\ IfNewer(v) >= page.policy
    BY IfNewerType
  <2>3. /\ page' = [page EXCEPT !.policy = IfNewer(v), !.refreshing = page.refreshing, !.left = page.left]
        /\ page.refreshing \in BOOLEAN /\ page.left \in BOOLEAN
    BY <2>1 DEF Page
  <2>4. /\ page'.mounted = page.mounted /\ page'.refreshing = page.refreshing /\ page'.left = page.left
        /\ calls' = calls
    BY <1>4, <2>1 DEF Page, NewInitial
  <2> QED BY <2>2, <2>3, <2>4, PageMoves DEF PageMove, RefreshingIsReal
<1>5. CASE Submit
  <2>1. PICK r \in Replicas :
          calls' = calls \cup {[kind |-> "submit", current |-> TRUE, at |-> r, rev |-> page.shown, stage |-> "sent"]}
    BY <1>5 DEF Submit
  <2>2. [kind |-> "submit", current |-> TRUE, at |-> r, rev |-> page.shown, stage |-> "sent"] \in Call
    BY DEF Call, Page
  <2>3. calls' \subseteq Call /\ calls \subseteq calls'
    BY <2>1, <2>2
  <2>4. page' = page
    BY <1>5 DEF Submit
  <2> QED BY <2>3, <2>4, PageMoves DEF PageMove, RefreshingIsReal
<1> QED BY <1>1, <1>2, <1>3, <1>4, <1>5 DEF PageStep

\* Every step keeps the page's invariant and what it has shown.
LEMMA PageNext ==
    ASSUME IInv, Next
    PROVE  PageInv' /\ page.shown <= page'.shown
<1>1. PageInv /\ source \in [Replicas -> Revisions] /\ TypeOK
  BY PolicyConstants DEF IInv, PageInv, TypeOK, Revisions
<1>2. CASE \/ Publish
           \/ \E r \in Replicas : ReplicaStep(r)
           \/ \E c \in calls : Serve(c) \/ Lost(c)
  <2>1. calls' \subseteq Call /\ KeepsRefresh /\ page' = page
    BY <1>1, <1>2, ServerCalls
  <2> QED BY <1>1, <2>1, PolicyConstants DEF PageInv, KeepsRefresh, Keeps, RefreshingIsReal, ShownInv, Page, Revisions
<1>3. CASE PageStep
  BY <1>1, <1>3, PageStepPage
<1>4. CASE \E c \in calls : Return(c)
  BY <1>1, <1>4, ReturnPage
<1> QED BY <1>2, <1>3, <1>4 DEF Next, PageStep, ReplicaStep

-----------------------------------------------------------------------------
(* The invariant and the theorems.                                         *)

\* The inductive invariant holds before the first request.
LEMMA IInvInit == Init => IInv
BY PolicyConstants
   DEF Init, IInv, TypeOK, AttemptInv, ResourceClosedOnce, RefreshingIsReal, ShownInv, Held, Adapter, Page, Revisions

\* Every step keeps the inductive invariant.
LEMMA IInvStep == IInv /\ [Next]_vars => IInv'
<1> SUFFICES ASSUME IInv, [Next]_vars PROVE IInv'
    OBVIOUS
<1>1. CASE Next
  <2>1. ServerInv /\ calls \subseteq Call
    BY DEF IInv, TypeOK, ServerInv
  <2> QED BY <1>1, <2>1, ServerStep, PageNext DEF ServerInv, PageInv, IInv, TypeOK
<1>2. CASE UNCHANGED vars
  BY <1>2 DEF vars, serverVars, IInv, TypeOK, AttemptInv, ResourceClosedOnce, RefreshingIsReal, ShownInv
<1> QED BY <1>1, <1>2

\* The inductive invariant of the public API and the page that polls it.
LEMMA Invariant == Spec => []IInv
<1> QED BY IInvInit, IInvStep, PTL DEF Spec

\* Every variable keeps its type in every behaviour.
THEOREM TypeCorrect == Spec => []TypeOK
<1>1. IInv => TypeOK
  BY DEF IInv
<1> QED BY <1>1, Invariant, PTL

\* However start, its failures and close overlap in any number of processes, each
\* resource is closed exactly once (createNextKms).
THEOREM ClosedOnce == Spec => []ResourceClosedOnce
<1>1. IInv => ResourceClosedOnce
  BY DEF IInv
<1> QED BY <1>1, Invariant, PTL

\* However many refreshes are superseded or cut off, a page shows one that has no
\* end to wait for only when it was mounted again without refreshOnMount over the
\* display of a refresh its cleanup cut off (refresh, applyServerResult, the effects).
THEOREM RefreshReal == Spec => []RefreshingIsReal
<1>1. IInv => RefreshingIsReal
  BY DEF IInv
<1> QED BY <1>1, Invariant, PTL

\* No answer of any process in any order takes a page back to an older policy
\* (installIfNewer).
THEOREM NeverBack == Spec => PolicyNeverBack
<1>1. IInv /\ [Next]_vars => [page.shown <= page'.shown]_vars
  BY PageNext
<1> QED BY <1>1, Invariant, PTL DEF Spec, PolicyNeverBack
===============================================================================
