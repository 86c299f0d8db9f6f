------------------------------- MODULE ShipFlow -------------------------------
(***************************************************************************)
(* Shipping a change from the console: the ship dialog (ShipModal.tsx over *)
(* ship/model.ts), and the server's one-shot write, create and activate    *)
(* (application_ship.go) that executes its requests, one transaction at a  *)
(* time, while other operators write and activate.                         *)
(*                                                                         *)
(* A step of the console is the code between two awaits.  Changing the     *)
(* environment is closing and opening: both reset the form and drop what   *)
(* is under way.  A value, a version's content, is one of a few names;     *)
(* whether entries meet the contract and are readable is one flag, fit.    *)
(* The overview the page hands to the dialog is taken to be up to date,    *)
(* and the namespace to live on while a request executes: one recreated    *)
(* meanwhile would refuse a later write as aborted, which the dialog shows *)
(* as refused although earlier values of the request were written.         *)
(***************************************************************************)
EXTENDS Integers, Sequences

CONSTANTS
    Parameters,     \* the contract's parameter aliases, numbered in its order
    Secrets,        \* its secret aliases: pinned, never typed
    MaxAttempts,    \* bound on the times Ship is pressed
    MaxDisturbed    \* bound on what others do and what is lost

ASSUME ShipConstants ==
    /\ Parameters \subseteq Nat /\ Secrets \subseteq Nat /\ Parameters \cap Secrets = {}
    /\ Parameters \cup Secrets # {}    \* nothing is shipped without a contract
    /\ MaxAttempts \in Nat /\ MaxDisturbed \in Nat

Contract == Parameters \cup Secrets
Values == {"old", "theirs", "mine"}

VARIABLES
    store,      \* per alias: its versions, each with its value and its writer
    releases,   \* the track's releases: pins, and the attempt its metadata names
    history,    \* its activations; the last one is the active one
    fit,        \* whether entries are readable and meet the contract
    jobs,       \* ship requests under way on the server
    form,       \* the ship dialog's state
    loads,      \* reads of current values for new rows
    dry,        \* the dry run under way
    check,      \* whether the active release is being read, and since when
    attempts,   \* how often Ship was pressed
    disturbed   \* how much others did and was lost

serverVars == <<store, releases, history, fit>>
formVars == <<form, loads, dry, check>>
vars == <<serverVars, jobs, formVars, attempts, disturbed>>

\* A change of an alias, as the form builds it and a request carries it.
Keep == [kind |-> "keep"]
Current == [kind |-> "current"]
Pin(v) == [kind |-> "version", version |-> v]
Edit(x) == [kind |-> "value", value |-> x]

\* A row: the value its editor shows, and the version it reuses, 0 for none.
Absent == [kind |-> "absent"]
Loading == [kind |-> "loading"]
LoadError == [kind |-> "error"]
Row(x, v) == [kind |-> "row", value |-> x, reuse |-> v]

NoPreview == [valid |-> FALSE]
FailedPreview == [valid |-> FALSE, failed |-> TRUE]
NoCall == [stage |-> "none"]
NoActivation == [version |-> 0]

Active == IF history = <<>> THEN 0 ELSE history[Len(history)].version
Newest(a) == Len(store[a])

Disturb == disturbed < MaxDisturbed /\ disturbed' = disturbed + 1

-----------------------------------------------------------------------------
(* The form.                                                               *)

\* resetFor: no row, since every alias has a value; shipping the environment
\* ticks what has moved past the active pins, editing one alias ticks nothing.
Fresh(optIns) ==
    [open |-> TRUE, phase |-> "compose", rows |-> [a \in Contract |-> Absent], optIns |-> optIns,
     preview |-> NoPreview, key |-> <<>>, frozen |-> <<>>, loading |-> FALSE,
     attempt |-> 0, wrote |-> FALSE, activation |-> NoActivation]

\* buildChanges
Changes ==
    [a \in Contract |->
        IF form.rows[a].kind = "row"
        THEN IF form.rows[a].reuse # 0 THEN Pin(form.rows[a].reuse) ELSE Edit(form.rows[a].value)
        ELSE IF a \in form.optIns THEN Current ELSE Keep]

Empty(changes) == \A a \in Contract : changes[a] = Keep

\* Mutation of Freeze: labels are left to be resolved again.
FreezeLater(changes, preview) == changes

\* freezePreviewChanges
Freeze(changes, preview) ==
    [a \in Contract |->
        IF changes[a] = Current \/ (changes[a] = Keep /\ preview.base = 0)
        THEN Pin(preview.pins[a]) ELSE changes[a]]

Composing == form.open /\ form.phase = "compose"
RowsParse == \A a \in Contract : form.rows[a].kind \in {"absent", "row"}
CanPreview == RowsParse /\ (history # <<>> => ~Empty(Changes))
CanShip ==
    /\ Composing /\ RowsParse /\ form.preview.valid /\ form.key = Changes /\ ~form.loading
    /\ history # <<>> => ~Empty(form.frozen)

-----------------------------------------------------------------------------
(* Others, and the page around the dialog.                                 *)

\* The aliases whose current version is not the active release's pin.
Drift == {a \in Contract : Active # 0 /\ Newest(a) # releases[Active].pins[a]}

Init ==
    /\ store = [a \in Contract |-> <<[value |-> "old", by |-> 0]>>]
    /\ \/ releases = <<>> /\ history = <<>>
       \/ /\ releases = <<[pins |-> [a \in Contract |-> 1], op |-> 0]>>
          /\ history = <<[version |-> 1, previous |-> 0, by |-> 0]>>
    /\ fit = TRUE
    /\ form = [Fresh({}) EXCEPT !.open = FALSE]
    /\ jobs = {} /\ loads = {} /\ dry = NoCall /\ check = NoCall
    /\ attempts = 0 /\ disturbed = 0

Activated(version, by) == Append(history, [version |-> version, previous |-> Active, by |-> by])

\* Others add versions.  They do not delete an alias and write it anew, which the
\* store allows as long as no release it protects pins the alias (ReleaseStore).
OtherWrites(a) ==
    /\ Disturb
    /\ store' = [store EXCEPT ![a] = Append(@, [value |-> "theirs", by |-> 0])]
    /\ UNCHANGED <<releases, history, fit, jobs, formVars, attempts>>

OtherShips ==
    /\ Disturb
    /\ releases' = Append(releases, [pins |-> [a \in Contract |-> Newest(a)], op |-> 0])
    /\ history' = Activated(Len(releases'), 0)
    /\ UNCHANGED <<store, fit, jobs, formVars, attempts>>

OtherActivates(v) ==
    /\ v # Active /\ Disturb
    /\ history' = Activated(v, 0)
    /\ UNCHANGED <<store, releases, fit, jobs, formVars, attempts>>

\* A secret is disabled or enabled, or the contract changes.
FitnessChanges ==
    /\ Disturb
    /\ fit' = ~fit
    /\ UNCHANGED <<store, releases, history, jobs, formVars, attempts>>

-----------------------------------------------------------------------------
(* Composing.                                                              *)

\* Open on the environment, with what has moved ticked, or on one alias.
Open ==
    /\ ~form.open
    /\ \E optIns \in {{}, Drift} : form' = Fresh(optIns)
    /\ UNCHANGED <<serverVars, jobs, loads, dry, check, attempts, disturbed>>

\* Closing bumps the load generation and aborts the dry run: their answers are
\* dropped.  Not while shipping, nor from under the rollback dialog.
Close ==
    /\ form.open /\ form.phase # "shipping"
    /\ form' = [Fresh({}) EXCEPT !.open = FALSE]
    /\ loads' = {} /\ dry' = NoCall /\ check' = NoCall
    /\ UNCHANGED <<serverVars, jobs, attempts, disturbed>>

\* A row for a, with the read that prefills it.
WithRow(f, a) ==
    /\ form' = [f EXCEPT !.rows[a] = Loading, !.optIns = @ \ {a}]
    /\ loads' = loads \cup {[alias |-> a, since |-> Newest(a)]}

\* Add change, or Retry loading.
AddRow(a) ==
    /\ Composing /\ form.rows[a] \in {Absent, LoadError}
    /\ WithRow(form, a)
    /\ UNCHANGED <<serverVars, jobs, dry, check, attempts, disturbed>>

RemoveRow(a) ==
    /\ Composing /\ form.rows[a] # Absent
    /\ form' = [form EXCEPT !.rows[a] = Absent]
    /\ UNCHANGED <<serverVars, jobs, loads, dry, check, attempts, disturbed>>

\* The answer to a read made at some time since it was sent; dropped unless the
\* row still waits for one.
PrefillArrives(l) ==
    LET Patch(row) ==
            form' = IF form.rows[l.alias] = Loading THEN [form EXCEPT !.rows[l.alias] = row] ELSE form
    IN
    /\ loads' = loads \ {l}
    /\ \/ \E v \in l.since..Newest(l.alias) : Patch(Row(store[l.alias][v].value, 0)) /\ UNCHANGED disturbed
       \/ Patch(LoadError) /\ Disturb
    /\ UNCHANGED <<serverVars, jobs, dry, check, attempts>>

\* patchRow, with the patches of the row's editor: typing, Revert and Edit value
\* all end the reuse of a written version.
EditRow(a, x) ==
    /\ Composing /\ form.rows[a].kind = "row"
    /\ form.rows[a] # Row(x, 0)
    /\ form' = [form EXCEPT !.rows[a] = Row(x, 0)]
    /\ UNCHANGED <<serverVars, jobs, loads, dry, check, attempts, disturbed>>

ToggleOptIn(a) ==
    /\ Composing /\ a \in Drift /\ form.rows[a] = Absent
    /\ form' = [form EXCEPT !.optIns = IF a \in @ THEN @ \ {a} ELSE @ \cup {a}]
    /\ UNCHANGED <<serverVars, jobs, loads, dry, check, attempts, disturbed>>

\* runPreview: by the debounced effect when the form has changed, or by Refresh,
\* which waits for the run under way.  A run it overtakes is no longer current; the
\* last preview stays on display, for nothing but display.
RunPreview ==
    /\ Composing /\ CanPreview
    /\ form.key # Changes \/ ~form.loading
    /\ form' = [form EXCEPT !.key = Changes, !.loading = TRUE, !.preview = NoPreview, !.frozen = <<>>]
    /\ dry' = [stage |-> "sent", changes |-> Changes]
    /\ UNCHANGED <<serverVars, jobs, loads, check, attempts, disturbed>>

PreviewArrives ==
    /\ dry.stage = "answered"
    /\ form' = [form EXCEPT !.preview = dry.preview, !.loading = FALSE,
                            !.frozen = IF dry.preview.valid THEN Freeze(dry.changes, dry.preview)
                                       ELSE dry.changes]
    /\ dry' = NoCall
    /\ UNCHANGED <<serverVars, jobs, loads, check, attempts, disturbed>>

PreviewFails ==
    /\ \/ dry.stage = "refused" /\ UNCHANGED disturbed
       \/ dry.stage \in {"sent", "answered"} /\ Disturb
    /\ form' = [form EXCEPT !.preview = FailedPreview, !.loading = FALSE]
    /\ dry' = NoCall
    /\ UNCHANGED <<serverVars, jobs, loads, check, attempts>>

-----------------------------------------------------------------------------
(* ShipApplicationChange.                                                  *)

\* An empty change set is for a first release only.
Acceptable(changes) == Empty(changes) => releases = <<>>

\* buildShipPlan and the resolution of its selectors: what each alias would pin.
Planned(changes, base) ==
    [a \in Contract |->
        CASE changes[a].kind = "value" -> Newest(a) + 1
          [] changes[a].kind = "version" -> changes[a].version
          [] changes[a] = Keep /\ base # 0 -> releases[base].pins[a]
          [] OTHER -> Newest(a)]

DryRunServed ==
    /\ dry.stage = "sent"
    /\ dry' = IF Acceptable(dry.changes)
              THEN [stage |-> "answered", changes |-> dry.changes,
                    preview |-> [valid |-> fit, base |-> Active, pins |-> Planned(dry.changes, Active)]]
              ELSE [stage |-> "refused"]
    /\ UNCHANGED <<serverVars, jobs, form, loads, check, attempts, disturbed>>

Moves(j, k) == jobs' = (jobs \ {j}) \cup {k}

\* The response, with what was written and what was activated at which revision.
Responds(j, status, activation) ==
    Moves(j, [op |-> j.op, stage |-> "done", status |-> status, written |-> j.written,
              activation |-> activation])

ToWrite(j) == {a \in Contract : j.changes[a].kind = "value" /\ j.written[a] = 0}

Preflight(j) ==
    /\ j.stage = "preflight"
    /\ CASE ~Acceptable(j.changes) -> Responds(j, "failed", NoActivation)
         [] Acceptable(j.changes) /\ j.expected # Active -> Responds(j, "refused", NoActivation)
         [] Acceptable(j.changes) /\ j.expected = Active /\ ~fit -> Responds(j, "rejected", NoActivation)
         [] OTHER -> Moves(j, [j EXCEPT !.stage = "execute"])
    /\ UNCHANGED <<serverVars, formVars, attempts, disturbed>>

\* PutParameter for the next edited alias.
WriteValue(j) ==
    /\ j.stage = "execute"
    /\ \E a \in ToWrite(j) :
          /\ \A b \in ToWrite(j) : a <= b
          /\ store' = [store EXCEPT ![a] = Append(@, [value |-> j.changes[a].value, by |-> j.op])]
          /\ Moves(j, [j EXCEPT !.written[a] = Newest(a) + 1])
    /\ UNCHANGED <<releases, history, fit, formVars, attempts, disturbed>>

\* Mutation of CreateRelease: the predicted versions are pinned.
CreateReleasePredicted(j) ==
    /\ j.stage = "execute" /\ ToWrite(j) = {}
    /\ IF Acceptable(j.changes) /\ fit
       THEN /\ releases' = Append(releases, [pins |-> Planned(j.changes, j.expected), op |-> j.op])
            /\ Moves(j, [j EXCEPT !.stage = "activate", !.release = Len(releases')])
       ELSE /\ Responds(j, IF Acceptable(j.changes) THEN "failed" ELSE "refused", NoActivation)
            /\ UNCHANGED releases
    /\ UNCHANGED <<store, history, fit, formVars, attempts, disturbed>>

\* Mutation of CreateRelease: an unfit candidate is answered as the preflight does.
CreateReleaseRejects(j) ==
    /\ j.stage = "execute" /\ ToWrite(j) = {}
    /\ IF Acceptable(j.changes) /\ fit
       THEN /\ releases' = Append(releases,
                  [pins |-> [a \in Contract |-> IF j.written[a] # 0 THEN j.written[a]
                                                ELSE Planned(j.changes, j.expected)[a]],
                   op |-> j.op])
            /\ Moves(j, [j EXCEPT !.stage = "activate", !.release = Len(releases')])
       ELSE /\ Responds(j, IF Acceptable(j.changes) THEN "rejected" ELSE "refused", NoActivation)
            /\ UNCHANGED releases
    /\ UNCHANGED <<store, history, fit, formVars, attempts, disturbed>>

\* CreateConfigurationRelease resolves the selectors again; RequireFirst when the
\* change set is empty.
CreateRelease(j) ==
    /\ j.stage = "execute" /\ ToWrite(j) = {}
    /\ IF Acceptable(j.changes) /\ fit
       THEN /\ releases' = Append(releases,
                  [pins |-> [a \in Contract |-> IF j.written[a] # 0 THEN j.written[a]
                                                ELSE Planned(j.changes, j.expected)[a]],
                   op |-> j.op])
            /\ Moves(j, [j EXCEPT !.stage = "activate", !.release = Len(releases')])
       ELSE /\ Responds(j, IF Acceptable(j.changes) THEN "failed" ELSE "refused", NoActivation)
            /\ UNCHANGED releases
    /\ UNCHANGED <<store, history, fit, formVars, attempts, disturbed>>

\* Mutation of ActivateRelease: nothing is compared.
ActivateReleaseAnyway(j) ==
    /\ j.stage = "activate"
    /\ history' = Activated(j.release, j.op)
    /\ Responds(j, "activated", [version |-> j.release, revision |-> Len(history'), previous |-> Active])
    /\ UNCHANGED <<store, releases, fit, formVars, attempts, disturbed>>

\* ActivateConfigurationRelease validates, then compares and sets.
ActivateRelease(j) ==
    /\ j.stage = "activate"
    /\ CASE ~fit -> Responds(j, "created", NoActivation) /\ UNCHANGED history
         [] fit /\ Active # j.expected -> Responds(j, "conflict", NoActivation) /\ UNCHANGED history
         [] OTHER ->
              /\ history' = Activated(j.release, j.op)
              /\ Responds(j, "activated", [version |-> j.release, revision |-> Len(history'), previous |-> Active])
    /\ UNCHANGED <<store, releases, fit, formVars, attempts, disturbed>>

\* A write, the creation or the activation fails in another way: what was done
\* before it stays, the answer is an error that does not tell.
CallFails(j) ==
    /\ j.stage \in {"execute", "activate"} /\ Disturb
    /\ Responds(j, "failed", NoActivation)
    /\ UNCHANGED <<serverVars, formVars, attempts>>

\* The process stops, and with it the request.
JobStops(j) ==
    /\ j.stage # "done" /\ Disturb
    /\ jobs' = jobs \ {j}
    /\ UNCHANGED <<serverVars, formVars, attempts>>

-----------------------------------------------------------------------------
(* ship and its outcomes.                                                  *)

\* What the dialog shows of an alias when Ship is pressed: the value in its
\* editor, or the version in the preview.
Shown == [a \in Contract |-> IF form.rows[a].kind = "row" THEN Edit(form.rows[a].value)
                             ELSE Pin(form.preview.pins[a])]

Ship ==
    LET op == attempts + 1 IN
    /\ CanShip /\ op <= MaxAttempts /\ attempts' = op
    /\ form' = [form EXCEPT !.phase = "shipping", !.attempt = op]
    /\ jobs' = jobs \cup {[op |-> op, stage |-> "preflight", changes |-> form.frozen,
                           expected |-> form.preview.base,
                           written |-> [a \in Contract |-> 0], release |-> 0, shown |-> Shown]}
    /\ UNCHANGED <<serverVars, loads, dry, check, disturbed>>

\* Nothing but closing leads back from a rollout or an unknown outcome to the form.
Left(phase, activation) == [Fresh({}) EXCEPT !.phase = phase, !.attempt = form.attempt, !.activation = activation]

\* reuseWrittenVersions
Reused(written) ==
    [a \in Contract |-> IF form.rows[a].kind = "row" /\ written[a] # 0
                        THEN [form.rows[a] EXCEPT !.reuse = written[a]] ELSE form.rows[a]]

Awaited(j) == form.phase = "shipping" /\ form.attempt = j.op

ShipResponds(j) ==
    /\ j.stage = "done"
    /\ jobs' = jobs \ {j}
    /\ form' = IF ~Awaited(j) THEN form
               ELSE CASE j.status = "refused" -> [form EXCEPT !.phase = "conflict", !.wrote = FALSE]
                      [] j.status = "failed" -> [form EXCEPT !.phase = "compose"]
                      [] j.status = "rejected" -> [form EXCEPT !.phase = "rejected", !.wrote = FALSE]
                      [] j.status \in {"created", "conflict"} ->
                           [form EXCEPT !.phase = j.status, !.rows = Reused(j.written), !.wrote = TRUE]
                      [] j.status = "activated" ->
                           Left("rollout", j.activation)
    /\ UNCHANGED <<serverVars, loads, dry, check, attempts, disturbed>>

\* The connection is lost, the process has stopped or the error is the server's
\* own: outcomeMayBeUnknown.  The request may still be executed.
ShipLost ==
    /\ form.phase = "shipping"
    /\ IF \E j \in jobs : j.op = form.attempt THEN Disturb ELSE UNCHANGED disturbed
    /\ form' = Left("uncertain", NoActivation)
    /\ UNCHANGED <<serverVars, jobs, loads, dry, check, attempts>>

\* Mutation of Recomposed: the preview's key is kept.
RecomposedKeyed == [form EXCEPT !.phase = "compose", !.preview = NoPreview, !.frozen = <<>>]

\* backToCompose
Recomposed == [form EXCEPT !.phase = "compose", !.preview = NoPreview, !.key = <<>>, !.frozen = <<>>]

\* Edit changes, Fix and retry, or the conflict's re-preview.
BackToCompose ==
    /\ form.phase \in {"rejected", "created", "conflict"}
    /\ form' = Recomposed
    /\ UNCHANGED <<serverVars, jobs, loads, dry, check, attempts, disturbed>>

\* editAlias, on a violation: back, with a row for the alias.
EditAlias(a) ==
    /\ form.phase \in {"rejected", "created"} /\ form.rows[a] = Absent
    /\ WithRow(Recomposed, a)
    /\ UNCHANGED <<serverVars, jobs, dry, check, attempts, disturbed>>

\* checkAttempt reads the active release, at some time since it was sent.
CheckAttempt ==
    /\ form.phase = "uncertain" /\ check = NoCall
    /\ check' = [stage |-> "sent", since |-> Len(history)]
    /\ UNCHANGED <<serverVars, jobs, form, loads, dry, attempts, disturbed>>

\* Mutation of Tagged: whatever is active is taken for the attempt's.
TaggedAny(version) == version # 0

\* ship_operation_id
Tagged(version) == releases[version].op = form.attempt

AttemptChecked ==
    /\ check.stage = "sent"
    /\ check' = NoCall
    /\ \E r \in check.since..Len(history) :
          form' = IF r # 0 /\ Tagged(history[r].version)
                  THEN Left("rollout", [version |-> history[r].version, revision |-> r,
                                       previous |-> history[r].previous])
                  ELSE form
    /\ UNCHANGED <<serverVars, jobs, loads, dry, attempts, disturbed>>

-----------------------------------------------------------------------------
Others ==
    \/ OtherShips \/ FitnessChanges
    \/ \E a \in Contract : OtherWrites(a)
    \/ \E v \in 1..Len(releases) : OtherActivates(v)

Compose ==
    \/ Open \/ Close \/ RunPreview \/ PreviewArrives \/ PreviewFails
    \/ \E a \in Parameters : AddRow(a) \/ RemoveRow(a) \/ \E x \in {"old", "mine"} : EditRow(a, x)
    \/ \E a \in Contract : ToggleOptIn(a)
    \/ \E l \in loads : PrefillArrives(l)
Serve(j) == Preflight(j) \/ WriteValue(j) \/ CreateRelease(j) \/ ActivateRelease(j)
Outcome ==
    \/ Ship \/ ShipLost \/ BackToCompose \/ (\E a \in Parameters : EditAlias(a))
    \/ CheckAttempt \/ AttemptChecked

Next ==
    \/ Others \/ Compose \/ DryRunServed \/ Outcome
    \/ \E j \in jobs : Serve(j) \/ CallFails(j) \/ JobStops(j) \/ ShipResponds(j)

Spec == Init /\ [][Next]_vars

-----------------------------------------------------------------------------
(* Properties.                                                             *)

ChangeType(a) == {Keep, Current} \cup {Pin(v) : v \in 1..Newest(a)} \cup {Edit(x) : x \in Values}
RowType(a) ==
    IF a \in Secrets THEN {Absent}
    ELSE {Absent, Loading, LoadError} \cup {Row(x, v) : x \in Values, v \in 0..Newest(a)}

\* Types: pins, reused versions and activated releases exist.
TypeOK ==
    /\ \A a \in Contract : \A v \in 1..Newest(a) : store[a][v] \in [value : Values, by : 0..MaxAttempts]
    /\ \A v \in 1..Len(releases) :
          /\ releases[v].op \in 0..attempts
          /\ \A a \in Contract : releases[v].pins[a] \in 1..Newest(a)
    /\ \A r \in 1..Len(history) :
          history[r].version \in 1..Len(releases) /\ history[r].previous \in 0..Len(releases)
    /\ \A j \in jobs : j.stage # "done" =>
          /\ j.expected \in 0..Len(releases) /\ j.release \in 0..Len(releases)
          /\ \A a \in Contract : j.changes[a] \in ChangeType(a) /\ j.written[a] \in 0..Newest(a)
    /\ \A a \in Contract : form.rows[a] \in RowType(a)
    /\ form.optIns \subseteq Contract /\ form.attempt \in 0..attempts /\ attempts \in 0..MaxAttempts
    /\ disturbed \in 0..MaxDisturbed

\* What a release of an attempt holds is what the dialog showed when Ship was
\* pressed, whatever others write and activate between the preview, the preflight
\* and the writes, and also when it reuses what an attempt that failed has
\* written (freezePreviewChanges, reuseWrittenVersions, buildShipPlan).  As long as
\* nobody deletes an alias and numbers its versions anew.
ShippedAsShown ==
    \A j \in jobs : j.stage = "activate" =>
        \A a \in Contract :
            LET pin == releases[j.release].pins[a]
            IN  IF j.shown[a].kind = "value" THEN store[a][pin].value = j.shown[a].value
                ELSE pin = j.shown[a].version

\* A rollout is shown only for an activation that took place of a release of the
\* attempt, also when the answer was lost and the outcome was looked up later
\* (ship, checkAttempt).
RolloutIsOurs ==
    form.phase = "rollout" =>
        LET a == form.activation IN
        /\ releases[a.version].op = form.attempt
        /\ a.revision \in 1..Len(history)
        /\ history[a.revision].version = a.version /\ history[a.revision].previous = a.previous

\* An attempt the dialog reports as refused or rejected before writing has written
\* no version and created no release.
RefusedWroteNothing ==
    form.phase \in {"conflict", "rejected"} /\ ~form.wrote =>
        /\ \A a \in Contract : \A v \in 1..Newest(a) : store[a][v].by # form.attempt
        /\ \A v \in 1..Len(releases) : releases[v].op # form.attempt

\* A form that can be previewed and has no preview has one coming: the effect is
\* to fire, or the run under way is the one it waits for.  An outcome that sends
\* the form back never leaves it waiting (previewKey, previewLoading).
PreviewComing ==
    /\ form.loading <=> dry # NoCall
    /\ Composing /\ CanPreview /\ form.preview = NoPreview => form.key # Changes \/ form.loading

\* An activation by an attempt leaves every alias the form did not touch at the
\* pin of the release that was active until then: nothing another operator has
\* activated is reverted unseen (the compare-and-set on the preview's base).
NothingReverted ==
    [][\A j \in jobs :
          j.stage = "activate" /\ Active # 0 /\ Len(history') > Len(history) /\ history'[Len(history')].by = j.op =>
              \A a \in Contract : j.changes[a] = Keep => releases[j.release].pins[a] = releases[Active].pins[a]]_vars
===============================================================================
