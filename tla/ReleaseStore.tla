----------------------------- MODULE ReleaseStore -----------------------------
(***************************************************************************)
(* The tables of one configuration release track (a namespace incarnation, *)
(* a release name and a schema version) in internal/storage/releases.go,   *)
(* and the resource versions its releases name.                            *)
(*                                                                         *)
(* A release is an immutable manifest of resource versions.  The labels    *)
(* current and previous point at releases; moving current appends a change *)
(* log row and an activation row under the same revision.  Tracks share    *)
(* nothing but the revision counter, so one track stands for all, and the  *)
(* rows of other resources, which only widen the gaps between the track's  *)
(* revisions, are left out.  Every storage method is one transaction,      *)
(* hence one step; a call that ends in an error changes nothing.           *)
(***************************************************************************)
EXTENDS Integers, FiniteSetsExt

CONSTANTS
    Params, Secrets,  \* the parameter and secret versions releases may name
    RetainVersions,   \* watch.release_retain_versions
    MaxVersion,       \* model bound: releases created
    MaxRevision       \* model bound: revisions appended

Resources == Params \cup Secrets

ASSUME ReleaseStoreConstants ==
    /\ RetainVersions \in Nat \ {0}
    /\ MaxVersion \in Nat
    /\ MaxRevision \in Nat

VARIABLES
    rev,      \* the newest revision of the change log
    counter,  \* configuration_release_counters.last_version
    rels,     \* the release rows: the manifest of each version that has one
    current,  \* the label rows, version 0 where there is none
    previous,
    acts,     \* configuration_release_activations
    actLog,   \* the activate rows left in the change log
    res,      \* the state of each resource version
    rollback  \* what a RollbackConfigurationRelease call has read

trackVars == <<rev, counter, rels, current, previous, acts, actLog, rollback>>
storeVars == <<trackVars, res>>

Versions == 1..MaxVersion
Revisions == 0..MaxRevision
Label == [v : 0..MaxVersion, act : Revisions]
Activation == [rev : Revisions, v : Versions]

NoLabel == [v |-> 0, act |-> 0]
NoRollback == [from |-> 0, to |-> 0]

\* disabled also stands for expired: neither can be read, both can be
\* destroyed.  replaced: the parameter was deleted and a new one has reached
\* the same version number with another value.
ResourceStates ==
    {"enabled", "disabled", "destroyed", "purged", "deleted", "replaced"}

StoreInit ==
    /\ rev = 0 /\ counter = 0
    /\ rels = [v \in {} |-> {}]
    /\ current = NoLabel /\ previous = NoLabel
    /\ acts = {} /\ actLog = {}
    /\ res = [r \in Resources |-> "enabled"]
    /\ rollback = NoRollback

StoreTypeOK ==
    /\ rev \in Revisions /\ counter \in 0..MaxVersion
    /\ DOMAIN rels \subseteq 1..counter
    /\ rels \in [DOMAIN rels -> SUBSET Resources]
    /\ current \in Label /\ previous \in Label
    /\ acts \subseteq Activation /\ actLog \subseteq Activation
    /\ res \in [Resources -> ResourceStates]
    /\ rollback \in [from : 0..MaxVersion, to : 0..MaxVersion]

-----------------------------------------------------------------------------
\* Mutation of Readable: a parameter is looked up by name and version only.
ReadableByVersion(m) ==
    \A r \in m : res[r] = "enabled" \/ (r \in Params /\ res[r] = "replaced")

\* validateReleasePinsTx: every entry of the manifest is the version it was
\* pinned as (a parameter by digest) and can be read.
Readable(m) == \A r \in m : res[r] = "enabled"

Labelled == {current.v, previous.v} \ {0}

\* findProtectedReleaseReference: some release that a label or a session pin
\* names has the resource in its manifest.
Protected(r, pins) ==
    \E v \in Labelled \cup pins : v \in DOMAIN rels /\ r \in rels[v]

\* getConfigurationRelease(version 0) orders by version and takes the newest.
Latest == IF DOMAIN rels = {} THEN 0 ELSE Max(DOMAIN rels)

\* sameCanonicalRelease, of the newest release and a manifest.
SameAsLatest(m) == Latest # 0 /\ rels[Latest] = m

-----------------------------------------------------------------------------
(* Releases and labels.                                                    *)

\* Mutation of CreateConfigurationRelease: the counter is not stored.
CreateUncounted(m, application) ==
    /\ counter < MaxVersion
    /\ application => Readable(m) /\ ~SameAsLatest(m)
    /\ rels' = [v \in DOMAIN rels \cup {counter + 1} |->
                    IF v = counter + 1 THEN m ELSE rels[v]]
    /\ UNCHANGED <<rev, counter, current, previous, acts, actLog, res, rollback>>

\* createConfigurationRelease.  An ordinary create stores the versions its
\* caller resolved before the transaction, whatever became of them since; a
\* create from an application plan checks them again and changes nothing when
\* the newest release has the same manifest.
CreateConfigurationRelease(m, application) ==
    /\ counter < MaxVersion
    /\ application => Readable(m) /\ ~SameAsLatest(m)
    /\ counter' = counter + 1
    /\ rels' = [v \in DOMAIN rels \cup {counter + 1} |->
                    IF v = counter + 1 THEN m ELSE rels[v]]
    /\ UNCHANGED <<rev, current, previous, acts, actLog, res, rollback>>

\* ActivateConfigurationRelease in storage, when it changes something: the
\* release exists, its pins validate inside the transaction, and it is not
\* current already.
MoveLabels(v) ==
    /\ v \in DOMAIN rels
    /\ Readable(rels[v])
    /\ v # current.v
    /\ rev < MaxRevision
    /\ rev' = rev + 1
    /\ acts' = acts \cup {[rev |-> rev + 1, v |-> v]}
    /\ actLog' = actLog \cup {[rev |-> rev + 1, v |-> v]}
    /\ previous' = IF current.v = 0 THEN previous ELSE current
    /\ current' = [v |-> v, act |-> rev + 1]
    /\ UNCHANGED <<counter, rels, res>>

ActivateConfigurationRelease(v) == MoveLabels(v) /\ UNCHANGED rollback

\* RollbackConfigurationRelease reads the labels ...
RollbackRead ==
    /\ rollback = NoRollback
    /\ current.v # 0 /\ previous.v # 0
    /\ rollback' = [from |-> current.v, to |-> previous.v]
    /\ UNCHANGED <<rev, counter, rels, current, previous, acts, actLog, res>>

\* ... and activates the previous version it read if current is still the
\* version it read.
RollbackActivate ==
    /\ rollback # NoRollback
    /\ current.v = rollback.from
    /\ MoveLabels(rollback.to)
    /\ rollback' = NoRollback

\* The compare-and-swap or the validation failed, or the call was cancelled.
RollbackFails ==
    /\ rollback # NoRollback
    /\ rollback' = NoRollback
    /\ UNCHANGED <<rev, counter, rels, current, previous, acts, actLog, res>>

-----------------------------------------------------------------------------
(* The resource versions.  pins is the set of versions sessions pin.       *)

\* deleteParameterTx, deleteSecretTx and destroySecretVersionTx.
RemoveResource(r, pins) ==
    /\ ~Protected(r, pins)
    /\ \/ /\ res[r] # "deleted"
          /\ res' = [res EXCEPT ![r] = "deleted"]
       \/ /\ r \in Secrets /\ res[r] \in {"enabled", "disabled"}
          /\ res' = [res EXCEPT ![r] = "destroyed"]
    /\ UNCHANGED trackVars

\* putParameterWithModeTx after a delete numbers the versions from 1 again;
\* CreateSecretVersion's high-water mark keeps a secret from doing so.
ReplaceParameter(r) ==
    /\ r \in Params /\ res[r] = "deleted"
    /\ res' = [res EXCEPT ![r] = "replaced"]
    /\ UNCHANGED trackVars

\* SetSecretVersionState; disabling also stands for expiry.
SetSecretVersionState(r, state) ==
    /\ r \in Secrets
    /\ state \in {"enabled", "disabled"} /\ res[r] \in {"enabled", "disabled"}
    /\ res' = [res EXCEPT ![r] = state]
    /\ UNCHANGED trackVars

\* purgeSecretVersions: the emergency erasure asks no release.
PurgeSecretVersion(r) ==
    /\ r \in Secrets /\ res[r] \in {"enabled", "disabled"}
    /\ res' = [res EXCEPT ![r] = "purged"]
    /\ UNCHANGED trackVars

-----------------------------------------------------------------------------
(* Retention.                                                              *)

\* PruneChangeLog, as far as the activate rows go.
PruneActivateRows(cutoff) ==
    /\ actLog' = {a \in actLog : a.rev > cutoff}
    /\ UNCHANGED <<rev, counter, rels, current, previous, acts, res, rollback>>

LabelActs == {current.act, previous.act}

\* The activations PruneConfigurationReleases leaves: the newer ones and the
\* two the labels carry.
KeptActs(cutoff) == {a \in acts : a.rev > cutoff \/ a.rev \in LabelActs}

\* ROW_NUMBER() over the versions without a label, newest first.
Rank(v) == Cardinality({u \in DOMAIN rels \ Labelled : u >= v})

\* Mutation of KeptReleases: an off-by-one on the rank.
KeptReleasesBelow(oldest, kept, pins) ==
    {v \in DOMAIN rels :
        \/ v > oldest
        \/ v \in Labelled \cup pins
        \/ Rank(v) < RetainVersions
        \/ \E a \in kept \cup actLog : a.v = v}

\* The releases it leaves: the newer ones, those a label or a pin names, the
\* newest RetainVersions without a label, and those an activation row or an
\* activate row of the change log still names.
KeptReleases(oldest, kept, pins) ==
    {v \in DOMAIN rels :
        \/ v > oldest
        \/ v \in Labelled \cup pins
        \/ Rank(v) <= RetainVersions
        \/ \E a \in kept \cup actLog : a.v = v}

\* cutoff and oldest say how far back the retention window reaches, among the
\* revisions and among the versions.
PruneReleases(cutoff, oldest, pins) ==
    LET kept == KeptActs(cutoff)
        left == KeptReleases(oldest, kept, pins)
    IN  /\ acts' = kept
        /\ rels' = [v \in left |-> rels[v]]
        /\ UNCHANGED <<rev, counter, current, previous, actLog, res, rollback>>
===============================================================================
