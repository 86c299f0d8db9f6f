----------------------------- MODULE PublicPolicy -----------------------------
(***************************************************************************)
(* A policy published to browsers: the Next.js adapter of each server      *)
(* process (next/server.ts) over its policy publisher (publishing.ts), and *)
(* the hook that keeps a page's copy fresh (next/client.tsx).              *)
(*                                                                         *)
(* The processes sit behind one address and follow the policy at their own *)
(* pace, so two answers may come from different generations in any order.  *)
(* A step is the code between two awaits.                                  *)
(***************************************************************************)
EXTENDS Integers, FiniteSets

CONSTANTS
    Replicas,       \* the server processes
    Stopped,        \* those that are shut down at some time
    MaxRevision,    \* bound on the generations of the policy
    MaxRefreshes,   \* bound on the refreshes in flight, superseded ones included
    MaxDisturbed    \* bound on failing initializations, lost calls and remounts

ASSUME PolicyConstants ==
    Replicas # {} /\ Stopped \subseteq Replicas /\ MaxRevision \in Nat \ {0} /\ MaxRefreshes \in Nat /\ MaxDisturbed \in Nat

VARIABLES
    published,  \* the newest generation
    source,     \* per process: the generation its source holds, 0 before any
    adapter,    \* per process: what createNextKms keeps
    alive,      \* per process: resources initialize returned whose close has not ended
    page,       \* the hook's refs and state
    calls,      \* refreshes and submissions under way
    disturbed   \* how much has gone wrong so far

serverVars == <<published, source, adapter, alive>>
vars == <<serverVars, page, calls, disturbed>>

Revisions == 0..MaxRevision
Statuses == {"unavailable", "not_modified", "served", "valid", "policy_changed"}

\* A call under way with the revision it names, then its answer.  current: its
\* sequence is still requestSequenceRef's.
Call == [kind : {"refresh", "submit"}, current : BOOLEAN, at : Replicas, rev : Revisions,
         stage : {"sent", "starting", "started", "refused"}]
        \cup [kind : {"refresh", "submit"}, current : BOOLEAN, stage : {"answered", "body"},
              status : Statuses, rev : Revisions]

\* attempt is startAttempt, resource stands for resource and publisher, closing
\* is how far close is.
Adapter == [attempt : {"none", "initializing", "failing"}, resource : BOOLEAN,
            closing : {"open", "waiting", "closing", "closed"}]

\* left is history: the page was mounted without refreshOnMount over a display
\* that was left behind, and no refresh has replaced it since.
Page == [mounted : BOOLEAN, policy : Revisions, shown : Revisions, refreshing : BOOLEAN, left : BOOLEAN]

\* The page was rendered by a server that had the first generation.
Init ==
    /\ published = 1
    /\ source = [r \in Replicas |-> 0]
    /\ adapter = [r \in Replicas |-> [attempt |-> "none", resource |-> FALSE, closing |-> "open"]]
    /\ alive = [r \in Replicas |-> 0]
    /\ page = [mounted |-> FALSE, policy |-> 1, shown |-> 1, refreshing |-> FALSE, left |-> FALSE]
    /\ calls = {}
    /\ disturbed = 0

Disturb == disturbed < MaxDisturbed /\ disturbed' = disturbed + 1

Closed(r) == adapter[r].closing # "open"

Replace(c, d) == calls' = (calls \ {c}) \cup {d}

-----------------------------------------------------------------------------
(* The policy and its sources (external).                                  *)

Publish ==
    /\ published < MaxRevision /\ published' = published + 1
    /\ UNCHANGED <<source, adapter, alive, page, calls, disturbed>>

Follow(r) ==
    /\ adapter[r].resource /\ source[r] < published
    /\ source' = [source EXCEPT ![r] = published]
    /\ UNCHANGED <<published, adapter, alive, page, calls, disturbed>>

-----------------------------------------------------------------------------
(* createNextKms.                                                          *)

\* The attempt settles for everyone who shares it.
AttemptSettles(r, stage) ==
    calls' = {IF c.stage = "starting" /\ c.at = r THEN [c EXCEPT !.stage = stage] ELSE c : c \in calls}

\* initialize has returned a resource.  One that comes after close is left to
\* it, and whoever waited is refused.
Initialized(r) ==
    /\ adapter[r].attempt = "initializing"
    /\ adapter' = [adapter EXCEPT ![r].attempt = "none", ![r].resource = TRUE]
    /\ alive' = [alive EXCEPT ![r] = @ + 1]
    /\ \E v \in source[r]..published : source' = [source EXCEPT ![r] = v]
    /\ AttemptSettles(r, IF Closed(r) THEN "refused" ELSE "started")
    /\ UNCHANGED <<published, page, disturbed>>

\* initialize throws; close aborts its signal.
InitializeFails(r) ==
    /\ adapter[r].attempt = "initializing"
    /\ IF Closed(r) THEN UNCHANGED disturbed ELSE Disturb
    /\ adapter' = [adapter EXCEPT ![r].attempt = "none"]
    /\ AttemptSettles(r, "refused")
    /\ UNCHANGED <<published, source, alive, page>>

\* What initialize returned is no resource, or no publisher can be made of it:
\* the attempt closes it.
ResourceUnfit(r) ==
    /\ adapter[r].attempt = "initializing" /\ Disturb
    /\ adapter' = [adapter EXCEPT ![r].attempt = "failing"]
    /\ alive' = [alive EXCEPT ![r] = @ + 1]
    /\ UNCHANGED <<published, source, page, calls>>

\* Mutation of UnfitClosed: a closed adapter leaves the attempt to close.
UnfitClosedOpen(r) ==
    /\ adapter[r].attempt = "failing" /\ ~Closed(r)
    /\ adapter' = [adapter EXCEPT ![r].attempt = "none"]
    /\ alive' = [alive EXCEPT ![r] = @ - 1]
    /\ AttemptSettles(r, "refused")
    /\ UNCHANGED <<published, source, page, disturbed>>

UnfitClosed(r) ==
    /\ adapter[r].attempt = "failing"
    /\ adapter' = [adapter EXCEPT ![r].attempt = "none"]
    /\ alive' = [alive EXCEPT ![r] = @ - 1]
    /\ AttemptSettles(r, "refused")
    /\ UNCHANGED <<published, source, page, disturbed>>

\* A resource a publisher cannot be made of, after close: left to it.
UnfitLeft(r) ==
    /\ adapter[r].attempt = "initializing" /\ Closed(r) /\ Disturb
    /\ adapter' = [adapter EXCEPT ![r].attempt = "none", ![r].resource = TRUE]
    /\ alive' = [alive EXCEPT ![r] = @ + 1]
    /\ AttemptSettles(r, "refused")
    /\ UNCHANGED <<published, source, page>>

\* close, called by the application or by a signal's handler.
Close(r) ==
    /\ r \in Stopped /\ ~Closed(r)
    /\ adapter' = [adapter EXCEPT ![r].closing = "waiting"]
    /\ UNCHANGED <<published, source, alive, page, calls, disturbed>>

\* What close has to wait for: the end of the resource's own close, if there is one.
Taken(r) == IF adapter[r].resource THEN "closing" ELSE "closed"

\* Mutation of CloseTakes: the attempt under way is not waited for.
CloseTakesNow(r) ==
    /\ adapter[r].closing = "waiting"
    /\ adapter' = [adapter EXCEPT ![r].resource = FALSE, ![r].closing = Taken(r)]
    /\ UNCHANGED <<published, source, alive, page, calls, disturbed>>

\* Mutation of CloseTakes: it is not asked whether there is something to close.
CloseTakesAlways(r) ==
    /\ adapter[r].closing = "waiting" /\ adapter[r].attempt = "none"
    /\ adapter' = [adapter EXCEPT ![r].resource = FALSE, ![r].closing = "closed"]
    /\ alive' = [alive EXCEPT ![r] = @ - 1]
    /\ UNCHANGED <<published, source, page, calls, disturbed>>

\* finish, once the attempt has settled: take the resource and call its close.
CloseTakes(r) ==
    /\ adapter[r].closing = "waiting" /\ adapter[r].attempt = "none"
    /\ adapter' = [adapter EXCEPT ![r].resource = FALSE, ![r].closing = Taken(r)]
    /\ UNCHANGED <<published, source, alive, page, calls, disturbed>>

CloseEnds(r) ==
    /\ adapter[r].closing = "closing"
    /\ adapter' = [adapter EXCEPT ![r].closing = "closed"]
    /\ alive' = [alive EXCEPT ![r] = @ - 1]
    /\ UNCHANGED <<published, source, page, calls, disturbed>>

-----------------------------------------------------------------------------
(* The route handler and the form's action.                                *)

\* activePublisher calls start: refused when closed, nothing to wait for with a
\* resource, else the attempt under way or a new one.
Arrive(c) ==
    LET a == adapter[c.at] IN
    /\ c.stage = "sent"
    /\ Replace(c, [c EXCEPT !.stage = IF Closed(c.at) THEN "refused"
                                      ELSE IF a.resource THEN "started" ELSE "starting"])
    /\ adapter' = IF Closed(c.at) \/ a.resource \/ a.attempt # "none" THEN adapter
                  ELSE [adapter EXCEPT ![c.at].attempt = "initializing"]
    /\ UNCHANGED <<published, source, alive, page, disturbed>>

\* createPublicConfigGET compares the validator; validate compares the revision
\* the form was filled in under.  Both read one snapshot.
Status(c) ==
    CASE c.stage = "refused" \/ Closed(c.at) \/ source[c.at] = 0 -> "unavailable"
      [] c.kind = "refresh" -> IF c.rev = source[c.at] THEN "not_modified" ELSE "served"
      [] c.kind = "submit" -> IF c.rev = source[c.at] THEN "valid" ELSE "policy_changed"

Answers(c, status, v) ==
    Replace(c, [kind |-> c.kind, current |-> c.current, stage |-> "answered", status |-> status, rev |-> v])

Answer(c) ==
    /\ c.stage \in {"started", "refused"}
    /\ Answers(c, Status(c), IF Status(c) \in {"served", "policy_changed"} THEN source[c.at] ELSE 0)
    /\ UNCHANGED <<serverVars, page, disturbed>>

\* The call is lost on its way there or back.
Lost(c) ==
    /\ c.stage \in {"sent", "started"} /\ Disturb
    /\ Answers(c, "unavailable", 0)
    /\ UNCHANGED <<serverVars, page>>

-----------------------------------------------------------------------------
(* usePublicConfig.                                                        *)

\* Mutation of IfNewer: whatever came last.
IfNewerAlways(v) == v

\* installIfNewer
IfNewer(v) == IF v > page.policy THEN v ELSE page.policy

\* The sequence moves on and the controller aborts: what remains of a refresh is
\* the continuation of an answer that is already there.
Superseded ==
    {c \in calls : c.kind = "submit"} \cup
    {[c EXCEPT !.current = FALSE] : c \in {d \in calls : d.kind = "refresh" /\ d.stage \in {"answered", "body"}}}

\* refresh: on mount, on focus, on navigation or by the application.
SendRefresh ==
    \E r \in Replicas :
        calls' = Superseded \cup
                   {[kind |-> "refresh", current |-> TRUE, at |-> r, rev |-> page.policy,
                     stage |-> "sent"]}

Refresh ==
    /\ Cardinality({c \in calls : c.kind = "refresh"}) < MaxRefreshes
    /\ SendRefresh
    /\ page' = [page EXCEPT !.refreshing = @ \/ page.mounted, !.left = @ /\ ~page.mounted]
    /\ UNCHANGED <<serverVars, disturbed>>

\* The effects run; the one that refreshes does so only with refreshOnMount.
Mount ==
    /\ ~page.mounted
    /\ \/ /\ SendRefresh
          /\ page' = [page EXCEPT !.mounted = TRUE, !.refreshing = TRUE, !.left = FALSE]
       \/ /\ page' = [page EXCEPT !.mounted = TRUE, !.left = page.refreshing]
          /\ UNCHANGED calls
    /\ UNCHANGED <<serverVars, disturbed>>

\* The effects are cleaned up; the state is kept for another mount, isRefreshing
\* included: the refresh that is cut off skips its finally.
Unmount ==
    /\ page.mounted /\ Disturb
    /\ page' = [page EXCEPT !.mounted = FALSE]
    /\ calls' = Superseded
    /\ UNCHANGED serverVars

\* React commits the state.
Render ==
    /\ page.shown # page.policy
    /\ page' = [page EXCEPT !.shown = page.policy]
    /\ UNCHANGED <<serverVars, calls, disturbed>>

\* The server component renders the page anew, perhaps in a process that lags.
NewInitial ==
    /\ \E r \in Replicas : /\ adapter[r].resource /\ source[r] # 0
                           /\ page' = [page EXCEPT !.policy = IfNewer(source[r])]
    /\ UNCHANGED <<serverVars, calls, disturbed>>

\* The continuation of a refresh that another step has superseded, or that
\* finds the page unmounted.
RefreshReturns(c) ==
    /\ c.kind = "refresh"
    /\ c.stage \in {"answered", "body"}
    /\ ~c.current \/ ~page.mounted
    /\ calls' = calls \ {c}
    /\ UNCHANGED <<serverVars, page, disturbed>>

Answered(c, kind) == c.kind = kind /\ c.current /\ page.mounted /\ c.stage = "answered"

\* The end of a refresh: its result, then finally.
RefreshEnds(c, policy) ==
    /\ calls' = calls \ {c}
    /\ page' = [page EXCEPT !.policy = policy, !.refreshing = FALSE, !.left = FALSE]

ResponseArrives(c) ==
    /\ Answered(c, "refresh")
    /\ \/ c.status = "served" /\ Replace(c, [c EXCEPT !.stage = "body"]) /\ UNCHANGED page
       \/ c.status \in {"not_modified", "unavailable"} /\ RefreshEnds(c, page.policy)
    /\ UNCHANGED <<serverVars, disturbed>>

BodyArrives(c) ==
    /\ c.stage = "body" /\ c.current /\ page.mounted
    /\ \/ RefreshEnds(c, IfNewer(c.rev)) /\ UNCHANGED disturbed
       \/ RefreshEnds(c, page.policy) /\ Disturb
    /\ UNCHANGED serverVars

\* The user submits the form as rendered, again and again.
Submit ==
    /\ page.mounted
    /\ \A c \in calls : c.kind # "submit"
    /\ \E r \in Replicas :
          calls' = calls \cup {[kind |-> "submit", current |-> TRUE, at |-> r, rev |-> page.shown,
                                stage |-> "sent"]}
    /\ UNCHANGED <<serverVars, page, disturbed>>

\* Mutation of ApplyServerResult: the refresh it supersedes stays on display.
ApplyServerResultOnly(c) ==
    /\ c.status = "policy_changed" /\ page.mounted
    /\ IF c.rev > page.policy
       THEN /\ calls' = Superseded \ {c}
            /\ page' = [page EXCEPT !.policy = IfNewer(c.rev)]
       ELSE calls' = calls \ {c} /\ UNCHANGED page

\* Mutation of ApplyServerResult: the policy is left to the next refresh.
ApplyServerResultLater(c) ==
    /\ c.status = "policy_changed" /\ page.mounted
    /\ calls' = calls \ {c} /\ UNCHANGED page

\* applyServerResult: a newer policy is installed and supersedes a refresh.
ApplyServerResult(c) ==
    /\ c.status = "policy_changed" /\ page.mounted
    /\ IF c.rev > page.policy
       THEN /\ calls' = Superseded \ {c}
            /\ page' = [page EXCEPT !.policy = IfNewer(c.rev), !.refreshing = FALSE, !.left = FALSE]
       ELSE calls' = calls \ {c} /\ UNCHANGED page

SubmitReturns(c) ==
    /\ c.kind = "submit" /\ c.stage = "answered"
    /\ \/ ApplyServerResult(c)
       \/ /\ c.status # "policy_changed" \/ ~page.mounted
          /\ calls' = calls \ {c} /\ UNCHANGED page
    /\ UNCHANGED <<serverVars, disturbed>>

-----------------------------------------------------------------------------
Attempt(r) == Initialized(r) \/ InitializeFails(r) \/ ResourceUnfit(r) \/ UnfitClosed(r) \/ UnfitLeft(r)
Serve(c) == Arrive(c) \/ Answer(c)
Return(c) == RefreshReturns(c) \/ ResponseArrives(c) \/ BodyArrives(c) \/ SubmitReturns(c)

Next ==
    \/ Publish \/ Refresh \/ Mount \/ Unmount \/ Render \/ NewInitial \/ Submit
    \/ \E r \in Replicas : Follow(r) \/ Attempt(r) \/ Close(r) \/ CloseTakes(r) \/ CloseEnds(r)
    \/ \E c \in calls : Serve(c) \/ Lost(c) \/ Return(c)

Spec == Init /\ [][Next]_vars

\* Attempts, closes and submissions come to an end, sources catch up, React
\* renders, a page comes back and its user does not give up.  Nothing is asked of
\* a refresh.
FairSpec ==
    /\ Spec
    /\ \A r \in Replicas : WF_vars(Follow(r)) /\ WF_vars(Attempt(r))
    /\ \A r \in Stopped : WF_vars(CloseTakes(r) \/ CloseEnds(r))
    /\ WF_vars(Mount) /\ WF_vars(Render) /\ WF_vars(Submit)
    /\ WF_vars(\E c \in calls : c.kind = "submit" /\ (Serve(c) \/ Return(c)))

-----------------------------------------------------------------------------
(* Properties.                                                             *)

\* Every variable keeps its type.
TypeOK ==
    /\ published \in Revisions /\ source \in [Replicas -> 0..published]
    /\ adapter \in [Replicas -> Adapter] /\ alive \in [Replicas -> Nat]
    /\ page \in Page /\ calls \subseteq Call
    /\ disturbed \in 0..MaxDisturbed

Held(b) == IF b THEN 1 ELSE 0

\* Every resource initialize returned is closed exactly once, however a failing
\* attempt and close overlap: as long as it lives exactly one of the adapter, the
\* attempt that gives it up and close holds it, and once close has taken over no
\* other comes (createNextKms' closed and startAttempt).
ResourceClosedOnce ==
    \A r \in Replicas :
        /\ alive[r] = Held(adapter[r].resource) + Held(adapter[r].attempt = "failing")
                      + Held(adapter[r].closing = "closing")
        /\ adapter[r].closing \in {"closing", "closed"} =>
              ~adapter[r].resource /\ adapter[r].attempt = "none"

\* A page that shows a refresh under way has one under way whose end will be
\* taken, whatever was superseded, unmounted or overtaken by a form's result
\* (requestSequenceRef and the finally of refresh).  The one exception is a page
\* mounted again without refreshOnMount: it keeps the display its cleanup left.
RefreshingIsReal ==
    page.mounted /\ page.refreshing =>
        \/ \E c \in calls : c.kind = "refresh" /\ c.current
        \/ page.left

\* The policy a user sees never goes back, though refreshes, form results and
\* new server renderings come from processes that lag (installIfNewer).
PolicyNeverBack == [][page.shown <= page'.shown]_vars

\* A close comes to its end, also when it meets an initialization or the
\* cleanup of a failed one (close awaits startAttempt).
CloseSettles == \A r \in Replicas : Closed(r) ~> adapter[r].closing = "closed"

\* Someone who resubmits is accepted in the end: policy_changed brings the policy
\* the form is to be filled in under, without a reload.  Unless a process closes.
SubmissionAccepted ==
    []<>(\/ \E r \in Replicas : Closed(r)
         \/ \E c \in calls : c.stage = "answered" /\ c.status = "valid")
===============================================================================
