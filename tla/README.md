# A TLA+ model of the KMS

This directory specifies the parts of the key management server, its Go and
TypeScript clients and its web console whose correctness depends on the order of
things: many goroutines and processes over one SQLite database, streams that are
cut and resumed, promises that settle in any order, pruning, restarts, retries.
Every module is translated from the code; `PROJECT.json` gives the lines each
definition stands for.

## The system

One server process owns a SQLite database.  Each storage method is one
transaction, hence one atomic step.  Around it:

| part | state | operations |
| --- | --- | --- |
| change log (`internal/storage/changelog.go`, `store.go`) | rows with AUTOINCREMENT revisions, each with a namespace name and incarnation id | append in a write transaction, page, oldest, current, prune |
| namespaces (`storage/namespaces.go`) | name to incarnation id | create, delete, bind a context to an id |
| parameters, secrets, releases (`storage/*.go`, `core/*.go`) | versions, labels, states, pins | put, delete, create version, promote, destroy, publish, activate, pin |
| watch hub (`internal/watch`) | dispatch cursor, registry, per-stream queues | wake, drain, dispatch, drop, prune, subscribe |
| watch transport (`server/grpcserver/watch.go`) | the stream's last sent revision | send backlog, pump, heartbeat and reauthorize |
| release watch and sessions (`watch/releases.go`, `storage/release_sessions.go`) | pins, targets, acknowledgements, connection ids | register, resolve, pin, connect, acknowledge, prune |
| Go client (`sdk/go/kmsclient`) | last revision, known values, loader queues | run, reconnect, apply, reconcile, load and acknowledge releases |
| TypeScript client (`sdk/typescript/src`: `watch.ts`, `values.ts`, `cache.ts`) | known values, handlers, scopes, fields, read cache | subscribe, apply, reconcile, register, dispose, read, write, close |
| TypeScript loader and manager (`releases/loader.ts`, `configstore/manager.ts`) | active candidate, outbox, reported divergences | run, offer, prepare, commit, acknowledge, report |
| Next.js adapter and hook (`publishing.ts`, `next/server.ts`, `next/client.tsx`) | resource, closing, a page's policy and its requests | start, close, serve, validate, refresh, apply a form's result |
| ship dialog and shipping (`frontend/components/ship`, `core/application_ship.go`) | rows, opt-ins, preview, attempt; versions, releases | compose, preview, ship, check; write, create, activate |
| crypto, CA, policy, rate limit, audit | keys, rules, buckets, audit rows | rotate, issue, match, take/refund, append/archive |

What makes it hard: registration, backlog reads, dispatch and pruning run
concurrently and none holds a lock across another; a client's resume point is a
single revision while its namespaces have separate lifetimes; wakes are
coalesced and reads fail; a process restart forgets all streams; a heartbeat
carries a revision that the client believes.  The TypeScript code has no threads,
but what it read before an await may be stale after it.

What the system owes its users: no change is skipped or delivered behind the
client's revision, a resumed client has everything below the revision it
resumes from, a committed change reaches live streams, and a stream does not
outlive the incarnation it was authorized for.  A process runs the release it is
shown to run; an operator ships what the preview showed; a page never goes back to
an older policy.

## Modules

| module | models |
| --- | --- |
| `ChangeLog` | the change log and the namespace table |
| `WatchHub` (extends `ChangeLog`) | hub, transport and the client's revision bookkeeping, composed |
| `WatchHubProofs` | inductive invariant and theorems for `WatchHub`, within a stream |
| `WatchResumeProofs` (extends `WatchHubProofs`) | what a client has across streams: a second invariant and `ResumeComplete` |
| `MCWatchHub` | instances of `WatchHub` for TLC |
| `ReleaseStore` | configuration releases: versions, labels, activations, rollback, protection of what they name, retention |
| `ReleaseSessions` (extends `ReleaseStore`) | the server's release sessions: pins, targets, deliveries, streams, acknowledgements |
| `ReleaseSessionsProofs` | inductive invariant and theorems for `ReleaseSessions` |
| `ReleaseRollout` (extends `ReleaseSessions`, instantiates `LoaderContract`) | one Go release loader composed with the server's streams and the sessions |
| `NodeLoader` (extends `ReleaseRollout`) | the TypeScript loader and configuration manager against the same server |
| `LoaderContract` | what a loader promises, whichever SDK it comes from |
| `ReleaseClients` (extends `NodeLoader`) | a process of either SDK; refinement and liveness |
| `ReleaseClientsProofs` | its inductive invariant, what steps do to the tables, the main loop and the wire, and the theorems |
| `NodeWatch` | the TypeScript client's shared watch, declarative parameters and read cache |
| `MCNodeWatch` | its instance for TLC: symmetric namespaces and values |
| `NodeWatchSteps`, `NodeWatchProofs` | its inductive invariant, the stream, the pass, registrations, fields and reads, and the theorems |
| `PublicPolicy` | processes that publish a policy, and a page that follows it |
| `PublicPolicyProofs` | inductive invariant and theorems for `PublicPolicy` |
| `ShipFlow` | the console's ship dialog composed with the server's shipping |
| `ShipFlowProofs` | its inductive invariant, the server's steps, the dialog's steps, and the theorems |

### ChangeLog

`log` is every row ever appended, so a revision is a position and is never
reused; `rows` is what pruning has left.  `ListChangesSince` returns a page as
the set of its revisions.  `KeptRows(aged)` is PruneChangeLog: ages are wall
clock stamps, so any set of rows may be past the window.  What a row says is left
out, because delivery never looks at it.

### WatchHub

Writers: `Commit`, then `Wake`.  The dispatch goroutine: `RunWake` or
`RunRetry`, `DrainRead` or `DrainFail`, `DispatchCopy`, one `DispatchOffer` per
subscriber in the copy, `DrainAdvance`; in its select also `PruneChangeLog` and
`DropExpired`.  A Subscribe call: `Connect` (authorize, bind incarnations),
`Register`, `ReadCurrent`, `CanReplay`, `ReplayPage` once per page or
`SnapshotRead`, `Activate`, then `SendSnapshot`/`SendReplay`, `PumpEvent`,
`PumpHeartbeat`; `Disconnect` at any point.  Each is a separate step because
each is a separate transaction or critical section in the code.  `Restart`
loses all memory state.  `got`, `snapAt` and `lost` are history variables: what
a client applied, the newest snapshot it applied, and rows pruned before the
hub dispatched them.

### ReleaseStore and ReleaseSessions

One release name; the names of an application do not share state.  `rels` maps a
version to the resources its manifest names, `res` says what has become of each
named resource version, `current` and `previous` are the labels with the revision
of the activation that moved them.  `acts` are the activation rows kept in the
release history and `actLog` those in the change log: retention prunes them
separately.  `counter` is the version counter, which pruning never resets.  A rollback
is two steps, `RollbackRead` and `RollbackActivate`, because `core/releases.go`
reads the labels in one transaction and activates in another.  The protection of a
manifest's resources (`Protected`) is the EXISTS over labelled and pinned
versions that every destructive parameter and secret method runs.

A session has a `pin`, delivery rows `deliv`, a connection `conn` fenced by an id, and
the reducer's state `eff`, `applied`, `events` and `watermark`.  `TargetOf` is the
target the resolver computes: the pin when there is one, else the current
label, under the larger of the two revisions.  `considered` is history: every
acknowledgement the reducer accepted.  `open` are the server's stream handlers;
they outlive a reconnect, so several may be open for one session and the oldest may
close last.

### ReleaseRollout

The Go loader of session `Self`.  Run's goroutine: `Start`, `ReadInitial`,
`TakeCandidate`, `Reconcile` and `TakeFresh` (the ticker's read and its use are
two steps), `TakeResult`.  The candidate's goroutine: `Resolve`, `Prepare`,
`CheckActive`, `Commit`, or `Rejects` at any stage; it may outlive its cancellation.
The watch goroutine: `WatchSession` (connects and replays every
pending acknowledgement), `SendPendingAcks`, `Receive`, `LoseStream`.  The
server's stream handlers: `SendTarget`, `ServeAck`, `EndStream`.  `Operate` is every
action of the modules below that changes what the loader sees.

### NodeLoader, ReleaseClients and LoaderContract

`NodeLoader` keeps the variables and the server of `ReleaseRollout` and replaces the
client.  Where the Go loader has one loop that owns its state, this one has promise
continuations that each call `Offer`: `ReceiveEvent`, `ReconcileReads` then
`ReconcileOffers`, and for a candidate that failed at startup `StartupReads`,
`StartupOffers` or `StartupGivesUp`.  The candidate's chain is `ResolveCandidate`,
with the manager's `startup` captured before its await, `PrepareSnapshot` (after it:
restart-bound fields, divergence report),
`ActiveAnswers` or `ActiveFails`, `CommitPrepared`, or `CandidateFails`, then
`CandidateSettles`.  `WatchRelease`, `SendAck` and `StreamEnds` are the watch loop
and the flushes, `StopRun` and `RunEnds` the way out.  Which releases
diverge from the source defaults (`Divergent`) or differ in a restart-bound field
(`Cold`) are constants.  An event may be received while the initial flush is still
under way: the code lets both run, the model also lets them overlap where
one call happens to be the later.

`ReleaseClients` is a process that uses one of the two loaders.  `KeepsContract` is
the refinement: with `shown` mapped to what the server's reducer holds as applied,
every behaviour is one of `LoaderContract`, where the application is handed targets of
rising revisions and the server shows only what was handed over.

### NodeWatch

`known`, `handlers`, `refs`, `watching`, `revision` are the fields of
SubscriptionManager; a captured generation is kept as whether it is still the
current one.  The session: `Wake`, `ApplySnapshot`, `ApplyChange`, `Heartbeat`,
`SessionRestarts`, `SessionBreaks`, `BackoffEnds`.  A reconciliation pass:
`StartPass`, `ListNamespace`, one `PageArrives`, `PageTooLate` or `PageFails` per page,
`FinishPass` for what was absent.  A declared parameter: `InitField`, `FieldRead`,
`Register` or `RegisterRefused`, `Settle`, `Dispose`, `Unsubscribe`.  Reads and own
writes with the cache: `GetParameter`, `SendPut`, `PutReturns`, `Expire`.  A read that
fails may be answered by the configured default, as `fallbackToDefaultsOnError` allows
(`FieldReadFails`).  A call reads the server at some time between its start and its end
(`ReadAt`).  The server appears by its contract, which `WatchHub` establishes for
namespaces that live on and rows that are dispatched before they are pruned: `Ahead` has
every change of the subscribed namespaces, also what `WatchHub` would call `lost`.  What
is said here of rows and cache is said under that premise.  `Close` ends the session
and the pass at once, where the code aborts both and awaits them; what a continuation
that was already due still installs is cleared with the rest.

Two things a reader may stumble on hold in the model as in the code.  A pass installs what
a page holds under the revision at which the pass began, so a row may be newer than its
label; it is never older.  A field that registers after the deletion of its
path was applied starts from the value it read, at revision 0; only the next
pass tells it (`FieldsFollow`).

### PublicPolicy

One record per server process for createNextKms (`attempt`, `resource`, `closing`), one
for the hook's refs and state (`page`), and the calls under way.  `source` lets every
process follow the published policy at its own pace.  `Attempt` is start and its
failures, `Close`, `CloseTakes` and `CloseEnds` are close up to each of its awaits;
`alive` counts the resources that initialize returned and nobody has finished closing.
A page is mounted with or without a refresh (`refreshOnMount`).  Without one, after an
unmount that cut a refresh off, `isRefreshing` stays set with nothing under way until
another refresh or a form's result clears it; `left` is history and marks that
display, and `RefreshingIsReal` excepts it and nothing else.
`Arrive` and `Answer` are the route handler and the validation of a form at a
revision.  The hook: `Mount`, `Unmount`, `Refresh`, `Render`, `NewInitial`,
`RefreshReturns`, `ResponseArrives`, `BodyArrives`, `Submit`, `SubmitReturns`.  A
revision stands for its entity tag.

### ShipFlow

The dialog's state is `form`; `loads`, `dry` and `check` are its requests.  Composing is
`Open`, `AddRow`, `PrefillArrives`, `EditRow`, `RemoveRow`, `ToggleOptIn`, `EditAlias`,
`Close`; previewing `RunPreview`, `DryRunServed`, `PreviewArrives`, `PreviewFails`;
shipping `Ship`, `ShipResponds`, `ShipLost`, `BackToCompose`, `CheckAttempt`,
`AttemptChecked`.  On the server a request is a job: `Preflight`, one `WriteValue` or
`CallFails` per edited alias, `CreateRelease`, `ActivateRelease`, of which each may fail
likewise; `JobStops` is the process dying between two of them.  Others act between any
two steps (`OtherWrites`,
`OtherShips`, `OtherActivates`, `FitnessChanges`).  A job's `shown` is history: what the
dialog showed of each alias when Ship was pressed.

## Runs

| run | instance | shows |
| --- | --- | --- |
| `watch_stream` | one client, a namespace that may be deleted and recreated, up to 4 revisions, pages of 2, buffer of 2, replay of at most 3, databases that start with two rows, none, one or both of them from before the migration | order, no overtaking, no gap, exact replay, complete resume, also across incarnations |
| `watch_live` | fairness, pages and buffer of 1, two revisions | delivery, and the end of stale streams |
| `watch_two_namespaces` | two watched namespaces | refuted: see Findings |
| `watch_replay_loop` | retain one row, pages of 1 | refuted: see Findings |
| `release_track` | a parameter and a secret, two releases, three activations or pins, two sequence numbers, retention of one version and one event | referenced releases stay whole, the newest release stays, one target per revision, targets move forward and stay acknowledgeable, the reducer keeps the newest, no number gets two payloads |
| `release_rollback` | three versions, five activations | refuted: see Findings |
| `release_clients` | fairness, a process of either SDK, two versions of which one is divergent and cold, any two disturbances | both loaders implement `LoaderContract`; no cold swap, every divergence reported, an open newest stream shows as connected; the process ends up running its target and is shown as applied |
| `node_loader_startup` | the TypeScript loader, three disturbances | refuted: see Findings |
| `node_watch` | two namespaces, two values, a field, a watcher, two writes, one disturbance | rows and cache are never behind the stream, nothing leaks |
| `node_watch_follows` | fairness, one namespace, a field with a default | live fields end up showing what is stored, disposed ones are unsubscribed |
| `public_policy` | fairness, two processes of which one is shut down, two policies, two refreshes in flight, one disturbance | resources are closed once and close ends, a page never goes back, a shown refresh is real or left over from before a remount without refresh, resubmitting succeeds |
| `ship_flow` | a parameter and a secret, two attempts, any two disturbances | what is shipped was shown, nothing is reverted unseen, a rollout is the attempt's own, refused means unwritten, previews come |

In `watch_stream` a client may resume from any revision the database has.  A replay of
three rows takes two pages, and pruning can take the last row between them; two rows are
dispatched, which a buffer of two could hold in the wrong order, and one of them can be
new after a reconnect.  `watch_live` starts from a database without rows, with pages and
a buffer of 1, which overflows before and after activation: a stream that lost an entry
there instead of ending would never deliver it.  That a hole, rather than a missing end,
shows only in the second page of a replay would take a fifth revision, and overflow in
`watch_stream` a third dispatched row; there the proofs of `ReplayExact` and `LiveComplete`
stand alone.  Streams of different clients
meet only in the registry copy that dispatch walks; one client is enough for TLC
and the proofs cover any number.

A release needs two versions for a label to move and a pin to differ from it, a
third revision for a superseded target to be acknowledged late.  In
`ReleaseRollout` one budget, `MaxDisturbances`, bounds everything that goes against
the loader: a target that moves, a call that fails, a stream that breaks, a server that
restarts.  The other bounds follow from it (`RolloutConstants`), so they never cut a
behaviour short.  A message for a stream the client has left is dropped at
once, since nobody reads it.  `NodeWatch`, `PublicPolicy` and `ShipFlow` have the same
kind of budget (`MaxDisturbed`).  Two writes let a value change between a read and its use
and then change again; two processes are what an answer from a lagging one
takes; two attempts let the first's outcome be unknown while the second runs.

Some combinations are left to the proofs, because the instance that has them does not end
in minutes: in `release_track`, where every acknowledgement says applied, a newest event
that is not the newest applied one; a clean release after a
divergent one in `release_clients`, which has two versions of which the second is
divergent and cold, and in `ship_flow`, with one parameter, a write that fails after
another one succeeded.

`node_watch` and `node_watch_follows` may stop when the client is closed and the
writes are used up, so they do not check for deadlock.

Fairness in `FairSpec`: a writer that committed goes on to call `Wake`; the
goroutines take their next step; the select takes a ready wake or retry in the
end.  Reading the log may fail, but is retried every second, so it is assumed
not to fail for ever (strong fairness of `DrainRead`).  Nothing is assumed of
clients, pruning or new commits.  `ClientFairness` assumes that every goroutine of the
Go loader, or every promise continuation of the TypeScript one, and every open stream
handler keeps running, that a select takes a case that is ready again and again (strong
fairness), and that tickers fire.  Nothing is assumed of operators or of when a stream
breaks.  `NodeWatch`'s `FairSpec` lets the session loop, passes and a field's
own steps go on.  `PublicPolicy`'s assumes that calls and continuations return, that a source
catches up, that React renders and remounts, and that the user resubmits; nothing is
assumed of refreshes being started.  `ShipFlow` states safety only.

## Findings

* `watch_two_namespaces`: the resume revision is one number per stream.  While a
  client watches w and v, w is deleted, recreated and written at revision r; the
  live stream does not deliver r (its incarnation differs) but delivers a later
  event of v.  The client reconnects above r, and no replay returns to it.
  plan.md:1558 promises "the missed changes or a snapshot"; the client's
  periodic reconcile repairs it minutes later.
* `watch_replay_loop`: `replayEntries` leaves its inner loop at the first entry
  above `current` before the contiguity check.  If the rows up to `current` were
  pruned meanwhile and a full page of newer rows exists, the cursor stays and the
  same page is read again, although hub.go:603 says a gap at the tail ends in a
  snapshot.
* `release_rollback`: docs/http-api.md:697 says a rollback "re-activates the release
  name's `previous`" version.  The call reads both labels
  in one transaction and activates the previous version it read in another, which
  compares only `current` with what was read (`core/releases.go:676`).  If others
  activate in between and end on the same current version, the rollback activates a
  version that is no longer labelled `previous`.
* `node_loader_startup`: docs/configuration-releases.md:388 says "Startup fails until
  an initial release is successfully applied".  The TypeScript loader ends its run
  for a candidate that failed at startup after two awaits (`releases/loader.ts:406`), in
  which a newer release may have been offered and committed: a process that runs a
  release is then stopped by the error of an older one.

## Proofs

`WatchHubProofs` proves for all constants `Spec => []P` for `TypeOK`,
`EventsInOrder`, `NothingOvertaken`, `LiveComplete` and `ReplayExact`.  The
assumptions are those of the modules: page and buffer sizes are positive, and the
rows found in a database carry incarnation ids that were given out.  `ResumeComplete`
is proved where one namespace is watched (below).

None of these is inductive.  The argument is about rows that are *done* for a
stream: at or below the cursor, or the row being dispatched once the stream is no
longer among the targets left (`Done`).  From the moment a stream is registered,
every done row that matches it and lies above the revision it has read is in its
pending list (`ComputingInv`); after activation it is queued or was applied
(`CompleteInv`).  `TargetInv` ties the targets to the registry, `HubInv` the page
being dispatched to the cursor: the page is what lies directly above the cursor in
the log, except for rows that are lost.  `QueueInv` orders the client's revision,
the last sent revision, the queue and the last queued revision, which is why a
heartbeat cannot overtake an entry; `ReplayInv` says a replay under way holds
exactly the rows up to its own cursor, because the contiguity check rejects every
page with a hole.  `IInv` is their conjunction with `TypeOK`.  `IInvInit` and
`IInvStep` show it inductive, action by action; steps of other streams and of
writers go through one frame lemma (`Frame`).

`ResumeComplete` spans streams: what a client got before it reconnected, possibly
before the name was deleted and recreated or the server restarted, has to fit what
the next stream starts from.  `ResumeMissesNothing` proves it under the hypothesis
`SoleNamespace`; with two watched names it is false, which is the finding
`watch_two_namespaces`.  `RInv` is a second invariant over `IInv`.  Its core is
`IdInv`: in the log the rows of one name carry ids that rise with the revision, as
AUTOINCREMENT hands them out, and none is above the present one.  So below a row
that a stream may deliver there is no row of a later incarnation that the stream
would skip (`SameIncarnation`), and with one name nothing else moves the client's
revision (`NothingPassed`).  `HeldInv` says a stream holds rows of its
incarnations only; `OldInv` that rows from before the migration, which have no
incarnation, lie below every backlog and force a snapshot rather than a replay;
`SentInv` that up to the backlog the client has what the replay does not still
hold, and that a heartbeat tells no more.

`ReleaseSessionsProofs` proves every safety property of `ReleaseSessions` that a
passing run checks: `TypeOK`, `ReferencedReleasesIntact`, `NewestReleaseKept`,
`RevisionNamesOneTarget`, `CaughtUpMeansTarget`, `EffectiveIsNewest`,
`OnePayloadPerSequence`, `OpenStreamIsConnected`, `TargetMonotone` and
`TargetStaysAcknowledgeable`.  Assumed of the constants: retention keeps at least
one version and one event, and "applied" is an acknowledgement state.  The steps
are first grouped by what they change (`Steps`, `Frame`).  The invariant adds
four facts the properties leave out: a session without a row has nothing left of
an earlier one (`RowsInv`), targets carry appended revisions (`RevInv`), connection
ids are one stream's (`StreamInv`), and a recorded sequence is retained or at most
the watermark (`RecordedInv`).  From `RevInv` a target that moves gets a revision above
all earlier ones (`TargetMoves`), so delivery rows and acknowledgements that
fitted the old target fit the new one (`FitsMoved`).  `RecordedInv` makes a fresh
sequence new among everything recorded, whatever was pruned; with the total order
of `OrderOfAcks` the reducer keeps the newest (`ReduceOne`).  `CounterInv` says the
newest release is there: it has rank 1 among the unlabelled ones or a label.

`ReleaseClientsProofs` proves of a process of either SDK, for any number of releases,
revisions, streams and disturbances, that it keeps the loader contract
(`ContractKept`: `ClientSpec => KeepsContract`, a refinement), and `NeverColdSwapped`,
`DivergenceReported` and `FailsOnlyWithoutSession`.  Assumed are the modules' named
assumptions on the constants.  The contract has two parts.
Commit rises in revision: `OrderInv` says the call in flight is for the latest
candidate or was cancelled for it, and that what was committed is older than a call
that has not committed and than a candidate to be retried.  And the server shows
nothing as applied that was not committed before: `AppliedInv` says so of every
acknowledgement wherever it is, retained, in the Node loader's flush, in a stream's
queue or recorded (`Sent`).  Both need that a revision is one target.  `SeenInv` says it
of all targets the process, the wire and the tables hold (`Seen`); it is
kept because a target that moves gets a revision above all of them.
`SequenceInv`, that a sequence number is one acknowledgement, is what makes the
server's reducer accept every replay, so that the loader fails for good only with its
session gone.  `ManagedInv` is the manager's part: a candidate past its prepare needs
no restart and its divergence is reported.  The steps are grouped by what they do to
the tables, to the main loop and to the wire, so that
the two loaders share one argument.  The refinement
is then shown step by step: a Commit step is the contract's commit, a recorded
acknowledgement its report, and every other step a stutter.

`PublicPolicyProofs` proves `TypeOK`, `ResourceClosedOnce`, `RefreshingIsReal` and
`PolicyNeverBack` for any number of processes, generations and calls.  Two facts make
them inductive: an attempt to start runs only where there is no resource
(`AttemptInv`), and what is rendered is what the ref holds or older (`ShownInv`).

`NodeWatchProofs` proves every safety property of `NodeWatch`: `TypeOK`,
`NeverBehindStream`, `CacheNotBehind` and `NothingLeaks`, for any number of
namespaces, keys, fields, watchers, writes and disturbances.  Assumed of the constants
(`WatchConstants`): fields and watchers are finite and distinct, and the markers for
"no value" and "the default" are not values.  `LoopInv` and `PassInv` tie what a session
and a pass captured to the client's scope: as long as neither is out of date, the
session streams exactly the retained namespaces and the pass lists only those, and
what a pass has listed and not found was absent at or after its fence.  So a step that
moves the revision passes over no change that a row depends on, and a page writes only
at the revision at which its pass began, having been read later.  The hard part is the
cache.  A change that brings the value a row already shows invalidates nothing
(`watch.ts` compares values), so a cached value need not have been read after the
revision.  `Moment` names why it is nevertheless current: for every followed path there
is a moment at or after the revision at which the path held its row's value or none
(`MomentInv`), and what the cache holds or a read may still bring held at or after
such a moment (`CacheInv`, `ReadInv`, through `Current`).  `RefInv` counts: the
references of a namespace are the cardinality of its watchers and handlers, where
`FieldInv` says which fields are handlers; `RowInv` and `ClosedInv` say what goes
with the last of them.  `NodeWatchSteps` has the invariant, the operators and
the steps of server, loop, stream and pass; `NodeWatchProofs` registrations, fields,
reads, own writes and close.

`ShipFlowProofs` proves every safety property of `ShipFlow`: `TypeOK`,
`ShippedAsShown`, `RolloutIsOurs`, `RefusedWroteNothing`, `PreviewComing` and the
action property `NothingReverted`, for any contract with at least one alias (the
server refuses an empty one, `application_ship.go:79`) and any bounds.  Versions,
releases and activations are only appended (`Grows`), and what a step appends is
under one attempt's number or 0 (`Authored`); so what was once true of something
stored stays true.  `RunningOK` follows a request: what it sends agrees alias by
alias with what the dialog showed (`AliasOK`), and its release pins that (`PinOK`).
It is true when Ship is pressed because `PreviewInv` ties the frozen changes to the preview and
`RowsInv` says a version to reuse holds the row's value; that, after an
attempt that failed late, rests on `AwaitInv`: the rows of an awaited request hold
what it writes.  `Quiet` and `WroteOK` say under which numbers nothing is stored
yet.  Attempts' numbers are unique among requests (`JobInv`), which with the
compare-and-set gives `NothingReverted`.

Only model-checked: everything with liveness, which the prover does not reach
(`EventuallyDelivered`, `StaleStreamCloses`, `RolloutConverges`, `FieldsFollow`,
`CloseSettles`, `SubmissionAccepted`).  Every other property that a passing run
checks is a theorem.

## Not modelled

`PROJECT.json` lists every part with the reason.  In short:

* Release modules: configuration schemas and their validation (they decide whether a
  create call is refused), acknowledgements of clients without sessions, the
  cancellation of the Go Run by its caller, callbacks that panic or throw from Commit
  or Abort (they end the run), a permission that is withdrawn for good while a loader runs
  (it ends the run as the loss of the session does), status and statistics, `onCandidateRejected`.
* Release watch without sessions: latest-only, it re-reads the active release.
* `NodeWatch`: change events of secrets, the queue that hands callbacks to the
  application, fields pinned by the process environment, status, and the cap of a pass
  at 100 pages.  The Go client's manager has the same design with locks; its locking is
  not modelled, nor are the Python clients.
* `PublicPolicy`: the projection to JSON, the text of headers and entity tags,
  telemetry, and the error shown after a failing refresh.
* `ShipFlow`: the page's overview is taken to be up to date; missing secrets, the
  typed confirmation for production and the discard prompts only disable buttons.
  Others append versions and do not delete parameters, so no version number comes
  back, and the namespace lives on while a request executes: one recreated meanwhile
  refuses a later write as aborted, which the dialog shows as refused although values
  were written before.  The
  dialog offers to retry an activation only for an answer without violations, and this
  server's `release_created_not_activated` always carries them.  The rollback dialog
  sends one request, whose race on the server is `release_rollback`; the rollout panel
  displays a feed.
* The rest of the console: pages and forms that each issue one request at a time over
  the HTTP API, and generated protocol code.  They are most of the repository's
  TypeScript by lines and hold no protocol state of their own.
* Secrets' version marks, binding keys, key rotation, applications and defaults: each is
  one transaction, which nothing interleaves with.
* Audit archiving and the certificate authority are file and library I/O; the rate
  limiter computes with floating-point time; ciphers, transport conversion, the command
  line, code generation and metrics have no protocol to check.
