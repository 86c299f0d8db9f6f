------------------------------ MODULE NodeWatch ------------------------------
(***************************************************************************)
(* The TypeScript client's shared watch: SubscriptionManager (watch.ts),   *)
(* the declarative parameters registered with it (values.ts), and the read *)
(* cache it invalidates (cache.ts, client.ts).                             *)
(*                                                                         *)
(* The process is single threaded: a step is the code between two awaits.  *)
(* What interleaves is the stream's session, the reconciliation pass, the  *)
(* point reads, the application and the writers on the server.             *)
(*                                                                         *)
(* The server appears by its contract: a snapshot or every later change of *)
(* the subscribed namespaces in order, and heartbeats that overtake        *)
(* nothing.  WatchHub establishes it for namespaces that live on and for   *)
(* rows that are dispatched before they are pruned (its LiveComplete       *)
(* excepts the rows it calls lost); only under that premise do             *)
(* NeverBehindStream and CacheNotBehind speak of the server's store.       *)
(***************************************************************************)
EXTENDS Integers, Sequences, FiniteSets, FiniteSetsExt

CONSTANTS
    Namespaces,     \* namespaces that may be watched
    Keys,           \* keys in each of them
    Values,         \* parameter values
    Absent,         \* no value
    Fields,         \* ParameterValue declarations of the application
    Defaulted,      \* those with a configured default
    Default,        \* that default
    Watchers,       \* watchNamespace registrations
    MaxRevision,    \* bound on the writes
    MaxDisturbed    \* bound on failing calls, breaking streams and new watches

ASSUME WatchConstants ==
    /\ Absent \notin Values \cup Namespaces \cup (Namespaces \X Keys)
    /\ Default \notin Values /\ Default # Absent
    /\ Defaulted \subseteq Fields
    /\ IsFiniteSet(Fields) /\ IsFiniteSet(Watchers) /\ Fields \cap Watchers = {}
    /\ MaxRevision \in Nat /\ MaxDisturbed \in Nat

\* A generation is only ever compared with the current one, so what captured it
\* keeps whether the scope is still the one it saw.
VARIABLES
    log,        \* the server's changes: revision r is position r
    known,      \* #known
    handlers,   \* #parameterHandlers
    refs,       \* #namespaceRefCounts; #namespaces are those above 0
    watching,   \* #watchers: the namespace of each, or none
    due,        \* #namespaceGeneration > #snapshotGeneration
    revision,   \* #lastRevision
    run,        \* where #run is, or how far close is
    restart,    \* #restartRequested
    session,    \* the stream of #runSession
    pass,       \* the reconciliation pass under way
    fields,     \* the ParameterValues
    cache,      \* the cached current value of a path
    calls,      \* the fetchParameter call each declaration has in flight
    put,        \* the own write: putParameter or deleteParameter
    disturbed   \* how much has gone against the client so far

clientVars == <<known, handlers, refs, watching, due, revision>>
loopVars == <<run, restart, session>>
readVars == <<cache, calls, put>>
vars == <<log, clientVars, loopVars, pass, fields, readVars, disturbed>>

Paths == Namespaces \X Keys
NamespaceOf(p) == p[1]
In(namespaces) == {p \in Paths : NamespaceOf(p) \in namespaces}

Unknown == [value |-> Absent, revision |-> -1]
NoSession == [namespaces |-> {}, scoped |-> FALSE, full |-> FALSE, fresh |-> FALSE, since |-> 0]
NoPass == [on |-> FALSE, scoped |-> FALSE, fence |-> 0, paths |-> {}, todo |-> {}, current |-> Absent,
           left |-> {}, present |-> {}, listed |-> {}, since |-> 0]
NoCall == [path |-> Absent, current |-> FALSE, since |-> 0]
NoPut == [path |-> Absent, at |-> 0, returned |-> FALSE]
NewField == [path |-> Absent, phase |-> "new", value |-> Absent, disposed |-> FALSE]

Init ==
    /\ log = <<>>
    /\ known = [p \in Paths |-> Unknown]
    /\ handlers = [p \in Paths |-> {}]
    /\ refs = [n \in Namespaces |-> 0]
    /\ watching = [w \in Watchers |-> Absent]
    /\ due = FALSE /\ revision = 0
    /\ run = "off" /\ restart = FALSE /\ session = NoSession
    /\ pass = NoPass
    /\ fields = [f \in Fields |-> NewField]
    /\ cache = [p \in Paths |-> Absent]
    /\ calls = [s \in Fields |-> NoCall]
    /\ put = NoPut
    /\ disturbed = 0

-----------------------------------------------------------------------------
(* The server: the change log, and the store as the log's reading.         *)

\* What the store holds after revision r: a write of a parameter and the append
\* of its change are one transaction.
StoreAt(p, r) ==
    LET changes == {i \in 1..r : log[i].path = p}
    IN  IF changes = {} THEN Absent ELSE log[Max(changes)].value

Store(p) == StoreAt(p, Len(log))

\* A put appends a version even when the value is the same; there is nothing to
\* delete where there is no value.
Accepts(p, v) == v # Absent \/ Store(p) # Absent

Commit(p, v) ==
    /\ Len(log) < MaxRevision
    /\ Accepts(p, v)
    /\ log' = Append(log, [path |-> p, value |-> v])

Write ==
    /\ \E p \in Paths, v \in Values \cup {Absent} : Commit(p, v)
    /\ UNCHANGED <<clientVars, loopVars, pass, fields, readVars, disturbed>>

\* A request that left at revision since is answered from the store of some
\* moment up to the arrival of the answer.
ReadAt(since) == since..Len(log)

Closed == run \in {"closing", "closed"}

Disturb == disturbed < MaxDisturbed /\ disturbed' = disturbed + 1

-----------------------------------------------------------------------------
(* The read cache: an invalidation drops the entry and makes every read of *)
(* the path that is in flight unable to fill it.                           *)

Invalidate(paths) ==
    /\ cache' = [p \in Paths |-> IF p \in paths THEN Absent ELSE cache[p]]
    /\ calls' = [s \in Fields |-> IF calls[s].path \in paths
                                 THEN [calls[s] EXCEPT !.current = FALSE]
                                 ELSE calls[s]]

BeginRead(s, p) == calls' = [calls EXCEPT ![s] = [path |-> p, current |-> TRUE, since |-> Len(log)]]

\* The answer of a read: cached unless an invalidation came in between.  A
\* path without a value is an error, and is not cached.
FinishRead(s, v) ==
    /\ calls' = [calls EXCEPT ![s] = NoCall]
    /\ cache' = IF calls[s].current /\ v # Absent THEN [cache EXCEPT ![calls[s].path] = v] ELSE cache

Expire ==
    /\ \E p \in Paths : /\ cache[p] # Absent
                        /\ cache' = [cache EXCEPT ![p] = Absent]
    /\ UNCHANGED <<log, clientVars, loopVars, pass, fields, calls, put, disturbed>>

\* putParameter and deleteParameter: the server commits, then the answer
\* invalidates the path.
SendPut ==
    /\ put = NoPut
    /\ \E p \in Paths, v \in Values \cup {Absent} :
          /\ Commit(p, v)
          /\ put' = [path |-> p, at |-> Len(log) + 1, returned |-> FALSE]
    /\ UNCHANGED <<clientVars, loopVars, pass, fields, cache, calls, disturbed>>

\* Mutation of PutReturns: the entry is dropped, a read under way may still fill it.
PutReturnsDropping ==
    /\ put # NoPut /\ ~put.returned
    /\ cache' = [cache EXCEPT ![put.path] = Absent]
    /\ put' = [put EXCEPT !.returned = TRUE]
    /\ UNCHANGED <<log, clientVars, loopVars, pass, fields, calls, disturbed>>

PutReturns ==
    /\ put # NoPut /\ ~put.returned
    /\ Invalidate({put.path})
    /\ put' = [put EXCEPT !.returned = TRUE]
    /\ UNCHANGED <<log, clientVars, loopVars, pass, fields, disturbed>>

-----------------------------------------------------------------------------
(* The run loop.                                                           *)

Scope(counts) == {n \in Namespaces : counts[n] > 0}

\* The top of #run's loop, up to the registration request of #runSession.
Turn(counts, full) ==
    IF Scope(counts) = {}
    THEN /\ run' = "idle" /\ session' = NoSession
         /\ UNCHANGED restart
    ELSE /\ run' = "session" /\ restart' = FALSE
         /\ session' = [namespaces |-> Scope(counts), scoped |-> TRUE, full |-> full,
                        fresh |-> TRUE, since |-> Len(log)]

Wake ==
    /\ run = "idle" /\ Scope(refs) # {}
    /\ Turn(refs, due)
    /\ UNCHANGED <<log, clientVars, pass, fields, readVars, disturbed>>

BackoffEnds ==
    /\ run = "backoff"
    /\ Turn(refs, due)
    /\ UNCHANGED <<log, clientVars, pass, fields, readVars, disturbed>>

\* The stream breaks, or its scope has changed: the next event or the aborted
\* controller ends it, and a requested restart needs no backoff.
SessionBreaks ==
    /\ run = "session" /\ ~restart /\ Disturb
    /\ run' = "backoff" /\ session' = NoSession
    /\ UNCHANGED <<log, clientVars, restart, pass, fields, readVars>>

SessionRestarts ==
    /\ run = "session" /\ restart
    /\ Turn(refs, due)
    /\ UNCHANGED <<log, clientVars, pass, fields, readVars, disturbed>>

\* #scopeChanged, when changed: no capture made before it is current any more.
ScopeChanged(changed) ==
    /\ due' = (due \/ changed)
    /\ pass' = [pass EXCEPT !.scoped = @ /\ ~changed]

\* #retainNamespace, ensureStarted, and #restart for a manager that runs.
Retain(n) ==
    LET first == refs[n] = 0
    IN  /\ refs' = [refs EXCEPT ![n] = @ + 1]
        /\ ScopeChanged(first)
        /\ IF run = "off" THEN Turn(refs', TRUE)
           ELSE /\ restart' = (restart \/ first)
                /\ session' = [session EXCEPT !.scoped = @ /\ ~first]
                /\ UNCHANGED run

\* #releaseNamespace and #restart; rows are those left if the namespace stays.
Release(n, rows) ==
    LET last == refs[n] = 1
    IN  /\ refs' = [refs EXCEPT ![n] = @ - 1]
        /\ known' = [p \in Paths |-> IF last /\ NamespaceOf(p) = n THEN Unknown ELSE rows[p]]
        /\ ScopeChanged(last)
        /\ restart' = (restart \/ last)
        /\ session' = [session EXCEPT !.scoped = @ /\ ~last]

Watch(w) ==
    /\ watching[w] = Absent /\ ~Closed /\ Disturb
    /\ \E n \in Namespaces :
          /\ watching' = [watching EXCEPT ![w] = n]
          /\ Retain(n)
    /\ UNCHANGED <<log, known, handlers, revision, fields, readVars>>

StopWatch(w) ==
    /\ watching[w] # Absent
    /\ Release(watching[w], known)
    /\ watching' = [watching EXCEPT ![w] = Absent]
    /\ UNCHANGED <<log, handlers, revision, run, fields, readVars, disturbed>>

\* close: assertOpen refuses what comes later, the watches end, and the root
\* controller aborts the loops and the calls.  The code then awaits both loops;
\* here they end at once, and CloseEnds is what follows the await.  A page or event
\* whose continuation was already due may still be installed in between: CloseEnds
\* clears it with the rest.
Close ==
    /\ ~Closed
    /\ run' = "closing" /\ session' = NoSession /\ pass' = NoPass
    /\ watching' = [w \in Watchers |-> Absent]
    /\ refs' = [n \in Namespaces |-> refs[n] - Cardinality({w \in Watchers : watching[w] = n})]
    /\ due' = (due \/ Scope(refs') # Scope(refs))
    /\ restart' = (restart \/ Scope(refs') # Scope(refs))
    /\ known' = [p \in Paths |-> IF refs'[NamespaceOf(p)] = 0 THEN Unknown ELSE known[p]]
    /\ UNCHANGED <<log, handlers, revision, fields, readVars, disturbed>>

\* The loops have ended: the rest of stop, and the cache is cleared.
CloseEnds ==
    /\ run = "closing" /\ run' = "closed"
    /\ known' = [p \in Paths |-> Unknown]
    /\ handlers' = [p \in Paths |-> {}]
    /\ refs' = [n \in Namespaces |-> 0]
    /\ Invalidate(Paths)
    /\ UNCHANGED <<log, watching, due, revision, restart, session, pass, fields, put, disturbed>>

-----------------------------------------------------------------------------
(* Values.                                                                 *)

\* ParameterValue.applyUpdate: a deletion leaves the last value in place
\* unless there is a default.
AppliedUpdate(x, v) ==
    IF fields[x].disposed \/ (v = Absent /\ x \notin Defaulted) THEN fields[x]
    ELSE [fields[x] EXCEPT !.value = IF v = Absent THEN Default ELSE v]

\* Mutation of AllowsWrite: a listing is compared with the path's revision only.
AllowsWriteUnfenced(p, r, reconcile) ==
    IF reconcile THEN known[p].revision <= r
    ELSE known[p] = Unknown \/ r = 0 \/ r > known[p].revision

\* revisionAllowsWrite and the fence in front of it.
AllowsWrite(p, r, reconcile) ==
    IF reconcile THEN r >= revision /\ known[p].revision <= r
    ELSE known[p] = Unknown \/ r = 0 \/ r > known[p].revision

Changes(p, v) == IF v # Absent THEN known[p].value # v ELSE known[p].value # Absent

\* #setValue for each path of news.  Paths do not meet in it, so one step does
\* for the loops that call it.
SetValues(news, r, reconcile, invalidated) ==
    LET hit     == {p \in DOMAIN news : AllowsWrite(p, r, reconcile)}
        changed == {p \in hit : Changes(p, news[p])}
    IN  /\ known' = [p \in Paths |->
                       IF p \notin hit THEN known[p]
                       ELSE IF news[p] = Absent /\ handlers[p] = {} THEN Unknown
                       ELSE [value    |-> news[p],
                             revision |-> Max({r, known[p].revision})]]
        /\ Invalidate(changed \cup invalidated)
        /\ fields' = [x \in Fields |->
                        IF fields[x].path \in changed /\ x \in handlers[fields[x].path]
                        THEN AppliedUpdate(x, news[fields[x].path])
                        ELSE fields[x]]

\* An event is for this session only while the scope is the one it asked for.
Live == run = "session" /\ session.scoped

\* The server begins with a snapshot when it is asked for one, when there is no
\* revision to resume from or when that revision is no longer in its log.
Resumes == ~session.fresh \/ ~(session.full \/ revision = 0)

ApplySnapshot ==
    /\ Live /\ session.fresh
    /\ \E r \in ReadAt(session.since) :
          LET scope == In(session.namespaces)
              there == {p \in scope : StoreAt(p, r) # Absent}
              gone  == {p \in scope \ there : known[p].value # Absent}
          IN  /\ SetValues([p \in there \cup gone |-> StoreAt(p, r)], r, FALSE, scope)
              /\ revision' = Max({revision, r})
    /\ due' = (due /\ ~session.full)
    /\ session' = [session EXCEPT !.fresh = FALSE]
    /\ UNCHANGED <<log, handlers, refs, watching, run, restart, pass, put, disturbed>>

\* Changes the server has yet to deliver: the session starts at #lastRevision
\* and every event moves it, so #shouldApply lets all of them through.
Ahead == {i \in revision + 1..Len(log) : log[i].path \in In(session.namespaces)}

ApplyChange ==
    /\ Live /\ Resumes /\ Ahead # {}
    /\ LET i == Min(Ahead)
           p == log[i].path
       IN  /\ SetValues([x \in {p} |-> log[i].value], i, FALSE,
                        IF log[i].value = Absent THEN {p} ELSE {})
           /\ revision' = i
    /\ session' = [session EXCEPT !.fresh = FALSE]
    /\ UNCHANGED <<log, handlers, refs, watching, due, run, restart, pass, put, disturbed>>

\* Mutation of Heartbeat: the next revision is taken for the last one.
HeartbeatAhead ==
    /\ Live /\ Resumes
    /\ \E r \in revision + 1..Len(log) :
          /\ \A i \in Ahead : r < i
          /\ revision' = r + 1
    /\ session' = [session EXCEPT !.fresh = FALSE]
    /\ UNCHANGED <<log, known, handlers, refs, watching, due, run, restart, pass,
                   fields, readVars, disturbed>>

Heartbeat ==
    /\ Live /\ Resumes
    /\ \E r \in revision + 1..Len(log) :
          /\ \A i \in Ahead : r < i
          /\ revision' = r
    /\ session' = [session EXCEPT !.fresh = FALSE]
    /\ UNCHANGED <<log, known, handlers, refs, watching, due, run, restart, pass,
                   fields, readVars, disturbed>>

-----------------------------------------------------------------------------
(* Reconciliation: list every namespace of the scope, page by page, and    *)
(* take what is missing for deleted, unless the scope or the stream has    *)
(* moved meanwhile.                                                        *)

StartPass ==
    /\ ~pass.on /\ Scope(refs) # {} /\ ~Closed
    /\ pass' = [NoPass EXCEPT !.on = TRUE, !.scoped = TRUE, !.fence = revision,
                              !.paths = {p \in Paths : known[p].value # Absent},
                              !.todo = Scope(refs)]
    /\ UNCHANGED <<log, clientVars, loopVars, fields, readVars, disturbed>>

\* The request for the first page of a namespace.
ListNamespace ==
    /\ pass.on /\ pass.current = Absent
    /\ \E n \in pass.todo :
          pass' = [pass EXCEPT !.current = n, !.todo = @ \ {n}, !.left = In({n}), !.since = Len(log)]
    /\ UNCHANGED <<log, clientVars, loopVars, fields, readVars, disturbed>>

\* The listing of the namespace ends early: its scope is gone, a page fails, or
\* there are more pages than are read.
Unlisted == [pass EXCEPT !.current = Absent, !.left = {}, !.since = 0]

PageFails ==
    /\ pass.on /\ pass.current # Absent /\ Disturb
    /\ pass' = Unlisted
    /\ UNCHANGED <<log, clientVars, loopVars, fields, readVars>>

PageTooLate ==
    /\ pass.on /\ pass.current # Absent /\ ~pass.scoped
    /\ pass' = Unlisted
    /\ UNCHANGED <<log, clientVars, loopVars, fields, readVars, disturbed>>

\* A page arrives; the last one completes the namespace.
PageArrives ==
    /\ pass.on /\ pass.current # Absent /\ pass.scoped
    /\ \E r \in ReadAt(pass.since), page \in SUBSET pass.left \ {{}} :
          LET there == {p \in page : StoreAt(p, r) # Absent}
              whole == page = pass.left
          IN  /\ SetValues([p \in there |-> StoreAt(p, r)], pass.fence, TRUE, {})
              /\ pass' = [pass EXCEPT !.present = @ \cup there,
                                      !.left = @ \ page,
                                      !.listed = IF whole THEN @ \cup {pass.current} ELSE @,
                                      !.current = IF whole THEN Absent ELSE @,
                                      !.since = IF whole THEN 0 ELSE Len(log)]
    /\ UNCHANGED <<log, handlers, refs, watching, due, revision, loopVars, put, disturbed>>

PassMoved == ~pass.scoped \/ pass.fence # revision

FinishPass ==
    /\ pass.on /\ pass.current = Absent /\ pass.todo = {}
    /\ IF PassMoved THEN UNCHANGED <<known, fields, cache, calls>>
       ELSE SetValues([p \in (pass.paths \ pass.present) \cap In(pass.listed \cap Scope(refs)) |-> Absent],
                      pass.fence, TRUE, {})
    /\ pass' = NoPass
    /\ UNCHANGED <<log, handlers, refs, watching, due, revision, loopVars, put, disturbed>>

-----------------------------------------------------------------------------
(* ParameterValue: init reads, then registers; dispose may come at any     *)
(* time and waits for an init under way.                                   *)

InitField(x) ==
    /\ fields[x].phase = "new" /\ ~Closed
    /\ \E p \in IF fields[x].path = Absent THEN Paths ELSE {fields[x].path} :
          IF cache[p] # Absent
          THEN /\ fields' = [fields EXCEPT ![x].path = p, ![x].phase = "resolving",
                                           ![x].value = cache[p]]
               /\ UNCHANGED calls
          ELSE /\ fields' = [fields EXCEPT ![x].path = p, ![x].phase = "reading"]
               /\ BeginRead(x, p)
    /\ UNCHANGED <<log, clientVars, loopVars, pass, cache, put, disturbed>>

FieldRead(x) ==
    /\ fields[x].phase = "reading"
    /\ \E r \in ReadAt(calls[x].since) :
          LET v == StoreAt(fields[x].path, r)
              w == IF v = Absent /\ x \in Defaulted THEN Default ELSE v
          IN  /\ FinishRead(x, v)
              /\ fields' = [fields EXCEPT ![x].phase = IF w = Absent THEN "new" ELSE "resolving",
                                          ![x].value = IF w = Absent THEN @ ELSE w]
    /\ UNCHANGED <<log, clientVars, loopVars, pass, put, disturbed>>

\* The same read for its own sake, through getParameter.
GetParameter(x) ==
    /\ fields[x].phase = "reading"
    /\ \E r \in ReadAt(calls[x].since) : FinishRead(x, StoreAt(fields[x].path, r))
    /\ fields' = [fields EXCEPT ![x].phase = "new"]
    /\ UNCHANGED <<log, clientVars, loopVars, pass, put, disturbed>>

\* Any other error of the read: init fails, or takes the default where the client
\* was built with fallbackToDefaultsOnError.
FieldReadFails(x) ==
    /\ fields[x].phase = "reading"
    /\ IF Closed THEN UNCHANGED disturbed ELSE Disturb
    /\ calls' = [calls EXCEPT ![x] = NoCall]
    /\ \/ fields' = [fields EXCEPT ![x].phase = "new"]
       \/ /\ x \in Defaulted
          /\ fields' = [fields EXCEPT ![x].phase = "resolving", ![x].value = Default]
    /\ UNCHANGED <<log, clientVars, loopVars, pass, cache, put>>

\* Mutation of Register: the value that was read stays.
RegisterAsRead(x) ==
    LET p == fields[x].path
    IN  /\ fields[x].phase = "resolving" /\ ~Closed
        /\ known' = IF known[p] = Unknown
                    THEN [known EXCEPT ![p] = [value |-> fields[x].value, revision |-> 0]]
                    ELSE known
        /\ fields' = [fields EXCEPT ![x].phase = "registered"]
        /\ handlers' = [handlers EXCEPT ![p] = @ \cup {x}]
        /\ Retain(NamespaceOf(p))
        /\ UNCHANGED <<log, watching, revision, readVars, disturbed>>

\* registerParameter: a path the manager knows corrects the value that was read,
\* and a path it does not know starts from it.
Register(x) ==
    LET p == fields[x].path
    IN  /\ fields[x].phase = "resolving" /\ ~Closed
        /\ known' = IF known[p] = Unknown
                    THEN [known EXCEPT ![p] = [value |-> fields[x].value, revision |-> 0]]
                    ELSE known
        /\ fields' = [fields EXCEPT ![x] =
                        [(IF known[p] = Unknown THEN @ ELSE AppliedUpdate(x, known[p].value))
                            EXCEPT !.phase = "registered"]]
        /\ handlers' = [handlers EXCEPT ![p] = @ \cup {x}]
        /\ Retain(NamespaceOf(p))
        /\ UNCHANGED <<log, watching, revision, readVars, disturbed>>

RegisterRefused(x) ==
    /\ fields[x].phase = "resolving" /\ Closed
    /\ fields' = [fields EXCEPT ![x].phase = "new", ![x].value = Absent]
    /\ UNCHANGED <<log, clientVars, loopVars, pass, readVars, disturbed>>

\* Mutation of Unregister: the row of a deleted path stays.
UnregisterKeepsRow(x) ==
    LET p == fields[x].path
    IN  /\ handlers' = [handlers EXCEPT ![p] = @ \ {x}]
        /\ Release(NamespaceOf(p), known)
        /\ fields' = [fields EXCEPT ![x].phase = "closed"]
        /\ UNCHANGED <<log, watching, revision, run, readVars, disturbed>>

Unregister(x) ==
    LET p == fields[x].path
    IN  /\ handlers' = [handlers EXCEPT ![p] = @ \ {x}]
        /\ Release(NamespaceOf(p),
                IF handlers[p] = {x} /\ known[p].value = Absent
                THEN [known EXCEPT ![p] = Unknown] ELSE known)
        /\ fields' = [fields EXCEPT ![x].phase = "closed"]
        /\ UNCHANGED <<log, watching, revision, run, readVars, disturbed>>

Settle(x) ==
    /\ fields[x].phase = "registered" /\ ~fields[x].disposed
    /\ fields' = [fields EXCEPT ![x].phase = "live"]
    /\ UNCHANGED <<log, clientVars, loopVars, pass, readVars, disturbed>>

\* A field disposed of during its init unsubscribes when the registration
\* returns, another one at once.
Unsubscribe(x) ==
    /\ fields[x].phase \in {"registered", "live"} /\ fields[x].disposed
    /\ IF run = "closed" THEN /\ fields' = [fields EXCEPT ![x].phase = "closed"]
                              /\ UNCHANGED <<log, clientVars, loopVars, pass, readVars, disturbed>>
       ELSE Unregister(x)

Dispose(x) ==
    /\ ~fields[x].disposed
    /\ fields' = [fields EXCEPT ![x].disposed = TRUE]
    /\ UNCHANGED <<log, clientVars, loopVars, pass, readVars, disturbed>>

-----------------------------------------------------------------------------
Loop == Wake \/ BackoffEnds \/ SessionRestarts \/ ApplySnapshot \/ ApplyChange
Pass == StartPass \/ ListNamespace \/ PageTooLate \/ PageArrives \/ FinishPass
FieldStep(x) == FieldRead(x) \/ Register(x) \/ RegisterRefused(x) \/ Settle(x) \/ Unsubscribe(x)

Next ==
    \/ Write \/ SendPut \/ PutReturns \/ Expire
    \/ Loop \/ Heartbeat \/ SessionBreaks \/ Close \/ CloseEnds
    \/ \E w \in Watchers : Watch(w) \/ StopWatch(w)
    \/ Pass \/ PageFails
    \/ \E x \in Fields : FieldStep(x) \/ InitField(x) \/ GetParameter(x) \/ FieldReadFails(x) \/ Dispose(x)

Spec == Init /\ [][Next]_vars

\* The loops and calls go on; nothing is assumed of the application, of the
\* writers or of when a stream breaks; disturbances are bounded.
FairSpec ==
    /\ Spec
    /\ WF_vars(Wake) /\ WF_vars(BackoffEnds) /\ WF_vars(SessionRestarts)
    /\ WF_vars(ApplySnapshot) /\ WF_vars(ApplyChange)
    /\ WF_vars(Pass)
    /\ \A x \in Fields : WF_vars(FieldStep(x))

-----------------------------------------------------------------------------
Row == [value : Values \cup {Absent, Default}, revision : -1..MaxRevision]

\* Every variable keeps its type.
TypeOK ==
    /\ log \in Seq([path : Paths, value : Values \cup {Absent}])
    /\ known \in [Paths -> Row] /\ handlers \in [Paths -> SUBSET Fields]
    /\ refs \in [Namespaces -> Nat] /\ watching \in [Watchers -> Namespaces \cup {Absent}]
    /\ due \in BOOLEAN /\ revision \in 0..Len(log)
    /\ run \in {"off", "idle", "session", "backoff", "closing", "closed"} /\ restart \in BOOLEAN
    /\ session \in [namespaces : SUBSET Namespaces, scoped : BOOLEAN, full : BOOLEAN,
                    fresh : BOOLEAN, since : 0..Len(log)]
    /\ pass \in [on : BOOLEAN, scoped : BOOLEAN, fence : 0..revision, paths : SUBSET Paths,
                 todo : SUBSET Namespaces, current : Namespaces \cup {Absent}, left : SUBSET Paths,
                 present : SUBSET Paths, listed : SUBSET Namespaces, since : 0..Len(log)]
    /\ fields \in [Fields -> [path : Paths \cup {Absent}, value : Values \cup {Absent, Default},
                              phase : {"new", "reading", "resolving", "registered", "live", "closed"},
                              disposed : BOOLEAN]]
    /\ cache \in [Paths -> Values \cup {Absent}]
    /\ calls \in [Fields -> [path : Paths \cup {Absent}, current : BOOLEAN, since : 0..Len(log)]]
    /\ put \in [path : Paths \cup {Absent}, at : 0..Len(log), returned : BOOLEAN]
    /\ disturbed \in 0..MaxDisturbed

\* p had value v at some time at or after revision r.
HeldSince(p, v, r) == \E i \in r..Len(log) : StoreAt(p, i) = v

\* What the manager tells handlers is never older than the revision it
\* reports and resumes from (#setValue, revisionAllowsWrite): neither a
\* reconciliation page that was read before a change arrived, nor a snapshot, nor a
\* path that left and re-entered the scope brings a value back that was gone by then.
\* Excepted is a value a new registration brought along, at revision 0.
NeverBehindStream ==
    \A p \in Paths : known[p].revision > 0 => HeldSince(p, known[p].value, revision)

\* A cached parameter of a namespace under watch is never older than the
\* revision the stream has reached, nor anywhere older than an own write that
\* has returned: a read overtaken by an invalidation may not fill the cache
\* (ReadCache#isCurrent).
CacheNotBehind ==
    \A p \in Paths : cache[p] # Absent =>
        /\ (put.returned /\ put.path = p) => HeldSince(p, cache[p], put.at)
        /\ (~due /\ refs[NamespaceOf(p)] > 0) => HeldSince(p, cache[p], revision)

Holders(n) == {w \in Watchers : watching[w] = n} \cup
              {x \in Fields : fields[x].path # Absent /\ x \in handlers[fields[x].path] /\
                              NamespaceOf(fields[x].path) = n}

\* Nothing outlives its registration: each namespace is retained by exactly its
\* watchers and handlers, rows are kept only for namespaces in scope and
\* tombstones only for paths with a handler (#releaseNamespace, #setValue), and a
\* field that was disposed of, even during its own init, ends without a handler.
\* A closed client keeps nothing, also not what a read brings that was under way.
NothingLeaks ==
    /\ \A n \in Namespaces : refs[n] = Cardinality(Holders(n))
    /\ \A p \in Paths : known[p] # Unknown =>
          refs[NamespaceOf(p)] > 0 /\ (known[p].value # Absent \/ handlers[p] # {})
    /\ run = "closed" => \A p \in Paths : known[p] = Unknown /\ handlers[p] = {} /\ cache[p] = Absent
    /\ \A x \in Fields : fields[x].phase \in {"new", "closed"} => \A p \in Paths : x \notin handlers[p]

\* Once writes and scope changes stop, every live parameter shows what the
\* server stores, or its default for a deleted one: also when its deletion was
\* applied between the first read and the registration, where only a
\* reconciliation pass can tell, and when the first read failed and the default
\* stood in for it.  A parameter that was disposed of, whatever its init was
\* awaiting then, has unsubscribed (#disposeAfterInitialization).
FieldsFollow ==
    <>[]\A x \in Fields :
        /\ ~Closed /\ fields[x].phase = "live" /\ ~fields[x].disposed =>
              /\ Store(fields[x].path) # Absent => fields[x].value = Store(fields[x].path)
              /\ (Store(fields[x].path) = Absent /\ x \in Defaulted) => fields[x].value = Default
        /\ fields[x].disposed => \A p \in Paths : x \notin handlers[p]
=============================================================================
