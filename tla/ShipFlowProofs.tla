----------------------------- MODULE ShipFlowProofs -----------------------------
(***************************************************************************)
(* ShipFlow's safety properties, for any contract, any number of attempts  *)
(* and of disturbances: the invariant behind them, that the server keeps   *)
(* its part of it and the dialog its own, and what follows from it.        *)
(*                                                                         *)
(* Versions, releases and activations are only ever appended, so what a    *)
(* request, a preview or the form once found to be true of them stays      *)
(* true.  The invariant follows a request from the form's preview to the   *)
(* release it activates, and says of every attempt's number who may still  *)
(* write under it.                                                         *)
(***************************************************************************)
EXTENDS ShipFlow, TLAPS

USE ZenonT(3), SMTT(20)     \* in this order, for a leaf that names no prover

Change == {Keep, Current} \cup {Pin(v) : v \in Nat} \cup {Edit(x) : x \in Values}
RowSet == {Absent, Loading, LoadError} \cup {Row(x, v) : x \in Values, v \in Nat}
Phases == {"compose", "shipping", "conflict", "rejected", "created", "rollout", "uncertain"}
Preview == [valid : BOOLEAN, base : Nat, pins : [Contract -> Nat]]
Activation == {NoActivation} \cup [version : Nat, revision : Nat, previous : Nat]

Form ==
    [open : BOOLEAN, phase : Phases, rows : [Contract -> RowSet], optIns : SUBSET Contract,
     preview : {NoPreview, FailedPreview} \cup Preview,
     key : {<<>>} \cup [Contract -> Change], frozen : {<<>>} \cup [Contract -> Change],
     loading : BOOLEAN, attempt : Nat, wrote : BOOLEAN, activation : Activation]

Running ==
    [op : Nat, stage : {"preflight", "execute", "activate"}, changes : [Contract -> Change],
     expected : Nat, written : [Contract -> Nat], release : Nat, shown : [Contract -> Change]]

Done ==
    [op : Nat, stage : {"done"}, status : {"failed", "refused", "rejected", "created", "conflict", "activated"},
     written : [Contract -> Nat], activation : Activation]

Dry ==
    {NoCall, [stage |-> "refused"]} \cup [stage : {"sent"}, changes : [Contract -> Change]]
      \cup [stage : {"answered"}, changes : [Contract -> Change], preview : Preview]

\* What is stored, and that every pin and every activation names something stored.
ServerInv ==
    /\ store \in [Contract -> Seq([value : Values, by : Nat])]
    /\ \A a \in Contract : Newest(a) >= 1 /\ \A v \in 1..Newest(a) : store[a][v].by <= attempts
    /\ releases \in Seq([pins : [Contract -> Nat], op : Nat])
    /\ \A v \in 1..Len(releases) :
          releases[v].op <= attempts /\ \A a \in Contract : releases[v].pins[a] \in 1..Newest(a)
    /\ history \in Seq([version : Nat, previous : Nat, by : Nat])
    /\ \A r \in 1..Len(history) :
          history[r].version \in 1..Len(releases) /\ history[r].previous \in 0..Len(releases)
    /\ fit \in BOOLEAN /\ attempts \in 0..MaxAttempts /\ disturbed \in 0..MaxDisturbed

\* Nothing is stored under an attempt's number.
Unreleased(op) == \A v \in 1..Len(releases) : releases[v].op # op
Quiet(op) ==
    /\ \A a \in Contract : \A v \in 1..Newest(a) : store[a][v].by # op
    /\ Unreleased(op)

\* A request under way: its changes name what is stored, and agree with what the
\* dialog showed; what it has written holds the values it was to write; and its
\* release pins them.
AliasOK(j, a) ==
    /\ j.changes[a] \in ChangeType(a) /\ j.written[a] \in 0..Newest(a)
    /\ j.changes[a].kind = "value" => j.shown[a] = j.changes[a]
    /\ j.changes[a].kind = "version" =>
          \/ j.shown[a] = j.changes[a]
          \/ j.shown[a].kind = "value" /\ store[a][j.changes[a].version].value = j.shown[a].value
    /\ j.changes[a] # Current
    /\ j.changes[a] = Keep => j.expected # 0 /\ j.shown[a] = Pin(releases[j.expected].pins[a])
    /\ j.written[a] # 0 => j.changes[a].kind = "value" /\ store[a][j.written[a]].value = j.changes[a].value

PinOK(j, a) ==
    LET pin == releases[j.release].pins[a] IN
    /\ j.changes[a].kind = "value" => j.written[a] # 0 /\ pin = j.written[a]
    /\ j.changes[a].kind = "version" => pin = j.changes[a].version
    /\ j.changes[a] = Keep => pin = releases[j.expected].pins[a]

RunningOK(j) ==
    /\ j \in Running /\ j.expected \in 0..Len(releases) /\ j.release \in 0..Len(releases)
    /\ \A a \in Contract : AliasOK(j, a)
    /\ j.stage = "activate" =>
          j.release # 0 /\ releases[j.release].op = j.op /\ \A a \in Contract : PinOK(j, a)

\* A request that was answered: an activation it names took place.
TookPlace(op, x) ==
    /\ x.version \in 1..Len(releases) /\ releases[x.version].op = op
    /\ x.revision \in 1..Len(history)
    /\ history[x.revision].version = x.version /\ history[x.revision].previous = x.previous

DoneOK(j) ==
    /\ j \in Done /\ \A a \in Contract : j.written[a] \in 0..Newest(a)
    /\ j.status = "activated" => TookPlace(j.op, j.activation)

\* What a request has stored by now under its attempt's number.
WroteOK(j) ==
    /\ j.stage = "preflight" => Quiet(j.op) /\ \A a \in Contract : j.written[a] = 0
    /\ j.stage = "execute" =>
         /\ Unreleased(j.op)
         /\ \A a \in Contract : \A v \in 1..Newest(a) : store[a][v].by = j.op => j.changes[a].kind = "value"
    /\ j.stage = "done" /\ j.status \in {"refused", "rejected"} => Quiet(j.op)

JobOK(j) ==
    /\ j.op \in 1..attempts
    /\ j.stage # "done" => RunningOK(j)
    /\ j.stage = "done" => DoneOK(j)
    /\ WroteOK(j)

JobInv ==
    /\ \A j \in jobs : JobOK(j)
    /\ \A j, k \in jobs : j.op = k.op => j = k

\* A preview p of changes ch: what labels meant when it was made.
PreviewOK(ch, p) ==
    p.valid =>
        /\ p \in Preview /\ p.base \in 0..Len(releases)
        /\ \A a \in Contract :
              /\ ch[a] = Current \/ (ch[a] = Keep /\ p.base = 0) => p.pins[a] \in 1..Newest(a)
              /\ ch[a] = Keep /\ p.base # 0 => p.pins[a] = releases[p.base].pins[a]

ChangesOK(ch) == ch \in [Contract -> Change] /\ \A a \in Contract : ch[a] \in ChangeType(a)

\* The form's rows: a version to reuse holds the row's value.
RowsInv ==
    \A a \in Contract :
        /\ form.rows[a] \in RowType(a)
        /\ form.rows[a].kind = "row" /\ form.rows[a].reuse # 0 =>
              store[a][form.rows[a].reuse].value = form.rows[a].value

\* The form's preview, and the dry run that is to replace it.
PreviewInv ==
    /\ dry \in Dry /\ (form.loading <=> dry # NoCall)
    /\ form.loading => Composing
    /\ dry.stage \in {"sent", "answered"} => ChangesOK(dry.changes) /\ dry.changes = form.key
    /\ dry.stage = "answered" => PreviewOK(dry.changes, dry.preview)
    /\ form.preview.valid =>
          ChangesOK(form.key) /\ PreviewOK(form.key, form.preview) /\ form.frozen = Freeze(form.key, form.preview)
    /\ form.preview = NoPreview => form.key = <<>> \/ form.loading

\* The dialog's phases: a check is made only of an unknown outcome, the rows of a
\* request that is awaited hold what it writes, and what the dialog says of an
\* attempt is so.
PhaseInv ==
    /\ form.attempt <= attempts
    /\ form.phase # "compose" => form.open
    /\ \A l \in loads : l \in [alias : Parameters, since : Nat] /\ l.since \in 1..Newest(l.alias)
    /\ check \in {NoCall} \cup [stage : {"sent"}, since : 0..Len(history)]
    /\ check # NoCall => form.phase = "uncertain"
    /\ form.phase = "rollout" => TookPlace(form.attempt, form.activation)
    /\ form.phase \in {"conflict", "rejected"} /\ ~form.wrote =>
          form.attempt # 0 /\ Quiet(form.attempt) /\ \A j \in jobs : j.op # form.attempt

AwaitInv ==
    form.phase = "shipping" =>
        /\ RowsParse
        /\ \A j \in jobs : j.op = form.attempt =>
              \A a \in Contract :
                  /\ j.written[a] # 0 =>
                       form.rows[a].kind = "row" /\ store[a][j.written[a]].value = form.rows[a].value
                  /\ j.stage # "done" /\ j.changes[a].kind = "value" =>
                       form.rows[a].kind = "row" /\ form.rows[a].value = j.changes[a].value

IInv ==
    /\ ServerInv /\ JobInv
    /\ form \in Form /\ RowsInv /\ PreviewInv /\ PhaseInv /\ AwaitInv

-----------------------------------------------------------------------------
(* What steps do to what is stored.                                        *)

\* op writes a version, creates a release, activates one, or does nothing here.
Creates(op) ==
    \E pins \in [Contract -> Nat] :
        /\ \A a \in Contract : pins[a] \in 1..Newest(a)
        /\ releases' = Append(releases, [pins |-> pins, op |-> op])
        /\ history' = history \/ history' = Activated(Len(releases) + 1, op)
        /\ store' = store

Writes(op) ==
    /\ \E a \in Contract, x \in Values : store' = [store EXCEPT ![a] = Append(@, [value |-> x, by |-> op])]
    /\ UNCHANGED <<releases, history>>

Activates(op) ==
    /\ \E v \in 1..Len(releases) : history' = Activated(v, op)
    /\ UNCHANGED <<store, releases>>

ServerDoes(op) == Creates(op) \/ Writes(op) \/ Activates(op) \/ UNCHANGED <<store, releases, history>>

\* Nothing stored changes, and what is new is op's.
Grows ==
    /\ \A a \in Contract :
          Newest(a)' >= Newest(a) /\ \A v \in 1..Newest(a) : store'[a][v] = store[a][v]
    /\ Len(releases') >= Len(releases) /\ \A v \in 1..Len(releases) : releases'[v] = releases[v]
    /\ Len(history') >= Len(history) /\ \A r \in 1..Len(history) : history'[r] = history[r]
    /\ attempts' >= attempts

Authored(op) ==
    /\ \A a \in Contract : \A v \in 1..Newest(a)' : v \in 1..Newest(a) \/ store'[a][v].by = op
    /\ \A v \in 1..Len(releases') : v \in 1..Len(releases) \/ releases'[v].op = op

\* The elements of a sequence over S are in S.
LEMMA Elements ==
    ASSUME NEW S, NEW q \in Seq(S)
    PROVE  Len(q) \in Nat /\ \A v \in 1..Len(q) : q[v] \in S
OBVIOUS

\* What is stored, with the numbers that count and name it.
LEMMA Stored ==
    ASSUME ServerInv
    PROVE  /\ \A a \in Contract : store[a] \in Seq([value : Values, by : Nat]) /\ Newest(a) \in Nat
           /\ \A a \in Contract : \A v \in 1..Newest(a) :
                 store[a][v] \in [value : Values, by : Nat] /\ store[a][v].by \in Nat
           /\ \A v \in 1..Len(releases) :
                 releases[v] \in [pins : [Contract -> Nat], op : Nat] /\ releases[v].op \in Nat
           /\ Len(releases) \in Nat /\ Len(history) \in Nat
           /\ attempts \in Nat /\ MaxAttempts \in Nat /\ disturbed \in Nat /\ MaxDisturbed \in Nat
<1>1. store \in [Contract -> Seq([value : Values, by : Nat])]
  BY Zenon DEF ServerInv
<1>2. ASSUME NEW a \in Contract PROVE store[a] \in Seq([value : Values, by : Nat]) /\ Newest(a) \in Nat
  <2>1. store[a] \in Seq([value : Values, by : Nat])
    BY <1>1, Zenon
  <2>2. Len(store[a]) \in Nat
    BY <2>1, Elements
  <2> QED BY <2>1, <2>2 DEF Newest
<1>3. \A a \in Contract : \A v \in 1..Newest(a) : store[a][v] \in [value : Values, by : Nat]
  BY <1>2, Elements, Zenon DEF Newest
<1>4. releases \in Seq([pins : [Contract -> Nat], op : Nat])
  BY DEF ServerInv
<1>5. Len(releases) \in Nat /\ \A v \in 1..Len(releases) : releases[v] \in [pins : [Contract -> Nat], op : Nat]
  BY <1>4, Elements, Zenon
<1>6. /\ Len(history) \in Nat
      /\ attempts \in Nat /\ MaxAttempts \in Nat /\ disturbed \in Nat /\ MaxDisturbed \in Nat
  BY ShipConstants DEF ServerInv
<1> QED BY <1>2, <1>3, <1>5, <1>6, Zenon

\* The active release is one of the track's.
LEMMA ActiveType ==
    ASSUME ServerInv
    PROVE  Active \in 0..Len(releases) /\ (Active = 0 <=> history = <<>>)
<1>1. Len(releases) \in Nat /\ Len(history) \in Nat
  BY DEF ServerInv
<1>2. CASE history = <<>>
  BY <1>1, <1>2 DEF Active
<1>3. CASE history # <<>>
  <2>1. Len(history) \in 1..Len(history)
    BY <1>1, <1>3 DEF ServerInv
  <2>2. history[Len(history)].version \in 1..Len(releases)
    BY <2>1 DEF ServerInv
  <2> QED BY <1>1, <1>3, <2>2 DEF Active
<1> QED BY <1>2, <1>3

\* Appending an activation of a release there is keeps the history's type.
LEMMA HistoryGrows ==
    ASSUME ServerInv, NEW n \in Nat, Len(releases) <= n, NEW v \in 1..n, NEW op \in Nat,
           history' = Activated(v, op)
    PROVE  /\ history' \in Seq([version : Nat, previous : Nat, by : Nat])
           /\ Len(history') = Len(history) + 1
           /\ \A r \in 1..Len(history) : history'[r] = history[r]
           /\ history'[Len(history) + 1] = [version |-> v, previous |-> Active, by |-> op]
           /\ \A r \in 1..Len(history') : history'[r].version \in 1..n /\ history'[r].previous \in 0..n
<1>1. history \in Seq([version : Nat, previous : Nat, by : Nat]) /\ Len(releases) \in Nat
  BY DEF ServerInv
<1> DEFINE h == [version |-> v, previous |-> Active, by |-> op]
<1>2. h \in [version : Nat, previous : Nat, by : Nat] /\ Active \in 0..Len(releases)
  BY <1>1, ActiveType
<1>3. history' = Append(history, h)
  BY DEF Activated
<1> HIDE DEF h
<1>4. /\ history' \in Seq([version : Nat, previous : Nat, by : Nat])
      /\ Len(history') = Len(history) + 1 /\ Len(history) \in Nat
      /\ \A r \in 1..Len(history) : history'[r] = history[r]
      /\ history'[Len(history) + 1] = h
  BY <1>1, <1>2, <1>3
<1>5. h.version \in 1..n /\ h.previous \in 0..n
  BY <1>1, <1>2 DEF h
<1>6. \A r \in 1..Len(history) : history[r].version \in 1..n /\ history[r].previous \in 0..n
  BY <1>1 DEF ServerInv
<1>7. \A r \in 1..Len(history') : r \in 1..Len(history) \/ r = Len(history) + 1
  BY <1>4
<1>8. \A r \in 1..Len(history') : history'[r].version \in 1..n /\ history'[r].previous \in 0..n
  BY <1>4, <1>5, <1>6, <1>7, Zenon
<1> QED BY <1>4, <1>8 DEF h

\* Whatever an author does to the store, it only appends, under its own number.
LEMMA ServerKept ==
    ASSUME ServerInv, NEW op \in 0..attempts, ServerDoes(op),
           attempts' = attempts, fit' \in BOOLEAN, disturbed' \in 0..MaxDisturbed
    PROVE  ServerInv' /\ Grows /\ Authored(op)
<1>0. /\ store \in [Contract -> Seq([value : Values, by : Nat])]
      /\ releases \in Seq([pins : [Contract -> Nat], op : Nat])
      /\ history \in Seq([version : Nat, previous : Nat, by : Nat])
      /\ Len(releases) \in Nat /\ Len(history) \in Nat /\ attempts \in Nat
      /\ \A a \in Contract : Newest(a) \in Nat
  BY Stored, Zenon DEF ServerInv
<1>1. CASE Writes(op)
  <2>1. PICK b \in Contract, x \in Values : store' = [store EXCEPT ![b] = Append(@, [value |-> x, by |-> op])]
    BY <1>1, Zenon DEF Writes
  <2> DEFINE e == [value |-> x, by |-> op]
  <2>2. e \in [value : Values, by : Nat] /\ e.by = op
    BY <1>0
  <2>3. store' = [store EXCEPT ![b] = Append(store[b], e)]
    BY <2>1
  <2> HIDE DEF e
  <2>4. /\ Append(store[b], e) \in Seq([value : Values, by : Nat])
        /\ Len(Append(store[b], e)) = Len(store[b]) + 1 /\ Len(store[b]) \in Nat
        /\ \A v \in 1..Len(store[b]) : Append(store[b], e)[v] = store[b][v]
        /\ Append(store[b], e)[Len(store[b]) + 1] = e
    <3>1. store[b] \in Seq([value : Values, by : Nat])
      BY <1>0, Zenon
    <3> HIDE <1>0
    <3> QED BY <2>2, <3>1
  <2>5. store' \in [Contract -> Seq([value : Values, by : Nat])]
    BY <1>0, <2>3, <2>4, Zenon
  <2>6. /\ store'[b] = Append(store[b], e)
        /\ \A a \in Contract \ {b} : store'[a] = store[a]
    BY <1>0, <2>3
  <2>7. \A a \in Contract : /\ Newest(a)' >= Newest(a)
                            /\ \A v \in 1..Newest(a) : store'[a][v] = store[a][v]
                            /\ \A v \in 1..Newest(a)' : v \in 1..Newest(a) \/ store'[a][v] = e
    <3> TAKE a \in Contract
    <3>1. CASE a = b
      <4>1. \A v \in 1..Len(store[b]) + 1 : v \in 1..Len(store[b]) \/ v = Len(store[b]) + 1
        BY <2>4
      <4> QED BY <2>4, <2>6, <3>1, <4>1 DEF Newest
    <3>2. CASE a # b
      BY <1>0, <2>6, <3>2 DEF Newest
    <3> QED BY <3>1, <3>2
  <2>8. UNCHANGED <<releases, history>>
    BY <1>1 DEF Writes
  <2>9. Grows /\ Authored(op)
    BY <1>0, <2>2, <2>7, <2>8 DEF Grows, Authored
  <2>10. \A a \in Contract : Newest(a)' \in Nat
    BY <2>5 DEF Newest
  <2>11. \A a \in Contract : Newest(a)' >= 1 /\ \A v \in 1..Newest(a)' : store'[a][v].by <= attempts
    <3>1. \A a \in Contract : Newest(a) >= 1 /\ \A v \in 1..Newest(a) : store[a][v].by <= attempts
      BY DEF ServerInv
    <3> TAKE a \in Contract
    <3>2. Newest(a)' >= 1
      BY <1>0, <2>7, <2>10, <3>1
    <3>3. ASSUME NEW v \in 1..Newest(a)' PROVE store'[a][v].by <= attempts
      <4>1. CASE v \in 1..Newest(a)
        BY <2>7, <3>1, <4>1
      <4>2. CASE store'[a][v] = e
        BY <1>0, <2>2, <4>2
      <4> QED BY <2>7, <4>1, <4>2
    <3> QED BY <3>2, <3>3
  <2>12. \A v \in 1..Len(releases) : \A a \in Contract : releases[v].pins[a] \in 1..Newest(a)'
    <3>1. \A v \in 1..Len(releases) : \A a \in Contract : releases[v].pins[a] \in 1..Newest(a)
      BY DEF ServerInv
    <3> TAKE v \in 1..Len(releases)
    <3> TAKE a \in Contract
    <3>2. releases[v].pins[a] \in 1..Newest(a) /\ Newest(a) \in Nat /\ Newest(a)' \in Nat /\ Newest(a)' >= Newest(a)
      BY <1>0, <2>7, <2>10, <3>1
    <3> QED BY <3>2
  <2> QED BY <2>5, <2>8, <2>9, <2>11, <2>12, Zenon DEF ServerInv
<1>2. CASE Creates(op)
  <2>1. PICK pins \in [Contract -> Nat] :
           /\ \A a \in Contract : pins[a] \in 1..Newest(a)
           /\ releases' = Append(releases, [pins |-> pins, op |-> op])
           /\ history' = history \/ history' = Activated(Len(releases) + 1, op)
           /\ store' = store
    BY <1>2 DEF Creates
  <2> DEFINE e == [pins |-> pins, op |-> op]
  <2>2. e \in [pins : [Contract -> Nat], op : Nat] /\ e.op = op /\ \A a \in Contract : e.pins[a] \in 1..Newest(a)
    BY <1>0, <2>1
  <2>3. releases' = Append(releases, e)
    BY <2>1
  <2> HIDE DEF e
  <2>4. /\ releases' \in Seq([pins : [Contract -> Nat], op : Nat])
        /\ Len(releases') = Len(releases) + 1
        /\ \A v \in 1..Len(releases) : releases'[v] = releases[v]
        /\ \A v \in 1..Len(releases') : v \in 1..Len(releases) \/ releases'[v] = e
    <3>1. /\ releases' \in Seq([pins : [Contract -> Nat], op : Nat])
          /\ Len(releases') = Len(releases) + 1
          /\ \A v \in 1..Len(releases) : releases'[v] = releases[v]
          /\ releases'[Len(releases) + 1] = e
      BY <1>0, <2>2, <2>3
    <3>2. \A v \in 1..Len(releases') : v \in 1..Len(releases) \/ v = Len(releases) + 1
      BY <1>0, <3>1
    <3> QED BY <3>1, <3>2
  <2>5. /\ history' \in Seq([version : Nat, previous : Nat, by : Nat])
        /\ Len(history') >= Len(history)
        /\ \A r \in 1..Len(history) : history'[r] = history[r]
        /\ \A r \in 1..Len(history') :
              history'[r].version \in 1..Len(releases') /\ history'[r].previous \in 0..Len(releases')
    <3>1. CASE history' = history
      <4>1. \A k \in 1..Len(history) : history[k].version \in 1..Len(releases) /\ history[k].previous \in 0..Len(releases)
        BY DEF ServerInv
      <4>2. \A k \in 0..Len(releases) : k \in 0..Len(releases')
        BY <1>0, <2>4
      <4>3. \A k \in 1..Len(releases) : k \in 1..Len(releases')
        BY <1>0, <2>4
      <4> QED BY <1>0, <3>1, <4>1, <4>2, <4>3
    <3>2. CASE history' = Activated(Len(releases) + 1, op)
      <4>1. Len(releases') \in Nat /\ Len(releases) <= Len(releases') /\ Len(releases) + 1 \in 1..Len(releases')
            /\ op \in Nat
        BY <1>0, <2>4
      <4>2. /\ history' \in Seq([version : Nat, previous : Nat, by : Nat])
            /\ Len(history') = Len(history) + 1
            /\ \A k \in 1..Len(history) : history'[k] = history[k]
            /\ \A k \in 1..Len(history') :
                  history'[k].version \in 1..Len(releases') /\ history'[k].previous \in 0..Len(releases')
        BY <3>2, <4>1, HistoryGrows, Zenon
      <4> QED BY <1>0, <4>2
    <3> QED BY <2>1, <3>1, <3>2
  <2>6. \A a \in Contract : Newest(a)' = Newest(a)
    BY <2>1 DEF Newest
  <2>7. Grows /\ Authored(op)
    <3>1. Len(releases') >= Len(releases) /\ attempts' >= attempts /\ \A a \in Contract : Newest(a)' >= Newest(a)
      BY <1>0, <2>4, <2>6
    <3>2. \A v \in 1..Len(releases') : v \in 1..Len(releases) \/ releases'[v].op = op
      BY <2>2, <2>4
    <3> QED BY <2>1, <2>4, <2>5, <2>6, <3>1, <3>2 DEF Grows, Authored
  <2>8. \A v \in 1..Len(releases') :
           releases'[v].op <= attempts /\ \A a \in Contract : releases'[v].pins[a] \in 1..Newest(a)
    <3> TAKE v \in 1..Len(releases')
    <3>1. CASE v \in 1..Len(releases)
      BY <2>4, <3>1, Zenon DEF ServerInv
    <3>2. CASE releases'[v] = e
      BY <1>0, <2>2, <3>2
    <3> QED BY <2>4, <3>1, <3>2
  <2> QED BY <2>1, <2>4, <2>5, <2>6, <2>7, <2>8, Zenon DEF ServerInv
<1>3. CASE Activates(op)
  <2>1. PICK v \in 1..Len(releases) : history' = Activated(v, op)
    BY <1>3 DEF Activates
  <2>2. UNCHANGED <<store, releases>>
    BY <1>3 DEF Activates
  <2>3. /\ history' \in Seq([version : Nat, previous : Nat, by : Nat])
        /\ Len(history') = Len(history) + 1
        /\ \A r \in 1..Len(history) : history'[r] = history[r]
        /\ \A r \in 1..Len(history') :
              history'[r].version \in 1..Len(releases) /\ history'[r].previous \in 0..Len(releases)
    <3>1. Len(releases) \in Nat /\ Len(releases) <= Len(releases) /\ op \in Nat
      BY <1>0
    <3> QED BY <2>1, <3>1, HistoryGrows, Zenon
  <2>4. \A a \in Contract : Newest(a)' = Newest(a)
    BY <2>2 DEF Newest
  <2>5. Grows /\ Authored(op)
    BY <1>0, <2>2, <2>3, <2>4 DEF Grows, Authored
  <2> QED BY <2>2, <2>3, <2>4, <2>5, Zenon DEF ServerInv
<1>4. CASE UNCHANGED <<store, releases, history>>
  <2>1. \A a \in Contract : Newest(a)' = Newest(a)
    BY <1>4 DEF Newest
  <2>2. Grows /\ Authored(op)
    BY <1>0, <1>4, <2>1 DEF Grows, Authored
  <2> QED BY <1>4, <2>1, <2>2, Zenon DEF ServerInv
<1> QED BY <1>1, <1>2, <1>3, <1>4 DEF ServerDoes

\* Pressing Ship stores nothing and takes the next number.
LEMMA ServerWaits ==
    ASSUME ServerInv, UNCHANGED <<serverVars, disturbed>>, attempts' = attempts + 1, attempts' <= MaxAttempts
    PROVE  ServerInv' /\ Grows /\ \A op : Authored(op)
<1>1. \A a \in Contract : Newest(a)' = Newest(a)
  BY DEF Newest, serverVars
<1>2. Grows /\ \A op : Authored(op)
  BY <1>1, Stored DEF Grows, Authored, serverVars
<1>3. /\ \A a \in Contract : \A v \in 1..Newest(a) : store[a][v].by <= attempts'
      /\ \A v \in 1..Len(releases) : releases[v].op <= attempts'
  <2>1. ASSUME NEW n \in Nat, n <= attempts PROVE n <= attempts'
    BY Stored, <2>1
  <2>2. /\ \A a \in Contract : \A v \in 1..Newest(a) : store[a][v].by <= attempts
        /\ \A v \in 1..Len(releases) : releases[v].op <= attempts
    BY DEF ServerInv
  <2> QED BY <2>1, <2>2, Stored
<1>4. attempts' \in 0..MaxAttempts
  BY Stored
<1> QED BY <1>1, <1>2, <1>3, <1>4, Zenon DEF ServerInv, serverVars

-----------------------------------------------------------------------------
(* What was true of things stored stays true.                              *)

\* What a change in a request or a row of the form is, by its kind.
LEMMA ChangeKinds ==
    ASSUME NEW a \in Contract, NEW c \in ChangeType(a)
    PROVE  /\ c.kind \in {"keep", "current", "version", "value"}
           /\ c.kind = "keep" <=> c = Keep
           /\ c.kind = "current" <=> c = Current
           /\ c.kind = "version" => c.version \in 1..Newest(a) /\ c = Pin(c.version)
           /\ c.kind = "value" => c.value \in Values /\ c = Edit(c.value)
<1> USE DEF Keep, Current, Pin, Edit
<1>1. CASE c = Keep
  BY <1>1
<1>2. CASE c = Current
  BY <1>2
<1>3. CASE \E v \in 1..Newest(a) : c = Pin(v)
  BY <1>3
<1>4. CASE \E x \in Values : c = Edit(x)
  BY <1>4
<1> QED BY <1>1, <1>2, <1>3, <1>4 DEF ChangeType

\* What names something stored goes on naming it.
LEMMA NamesStay ==
    ASSUME ServerInv, ServerInv', Grows
    PROVE  /\ \A a \in Contract : \A v \in 0..Newest(a) : v \in 0..Newest(a)'
           /\ \A a \in Contract : \A v \in 1..Newest(a) : v \in 1..Newest(a)'
           /\ \A v \in 0..Len(releases) : v \in 0..Len(releases')
           /\ \A v \in 1..Len(releases) : v \in 1..Len(releases')
           /\ \A r \in 0..Len(history) : r \in 0..Len(history')
           /\ \A r \in 1..Len(history) : r \in 1..Len(history')
<1>1. Len(releases) \in Nat /\ Len(history) \in Nat /\ \A a \in Contract : Newest(a) \in Nat
  BY Stored
<1>2. Len(releases') \in Nat /\ Len(history') \in Nat /\ \A a \in Contract : Newest(a)' \in Nat
  <2>1. history' \in Seq([version : Nat, previous : Nat, by : Nat])
        /\ releases' \in Seq([pins : [Contract -> Nat], op : Nat])
        /\ store' \in [Contract -> Seq([value : Values, by : Nat])]
    BY Zenon DEF ServerInv
  <2>2. ASSUME NEW a \in Contract PROVE Newest(a)' \in Nat
    <3>1. store'[a] \in Seq([value : Values, by : Nat])
      BY <2>1, Zenon
    <3> QED BY <3>1, Elements DEF Newest
  <2>3. Len(releases') \in Nat /\ Len(history') \in Nat
    BY <2>1, Elements, Zenon
  <2> QED BY <2>2, <2>3
<1> QED BY <1>1, <1>2 DEF Grows

\* The types of changes and rows only grow.
LEMMA TypesStay ==
    ASSUME ServerInv, ServerInv', Grows, NEW a \in Contract
    PROVE  /\ \A c \in ChangeType(a) : c \in ChangeType(a)'
           /\ \A w \in RowType(a) : w \in RowType(a)'
<1>1. \A v \in 1..Newest(a) : v \in 1..Newest(a)'
  BY NamesStay
<1>2. \A v \in 0..Newest(a) : v \in 0..Newest(a)'
  BY NamesStay
<1>3. \A c \in ChangeType(a) : c \in ChangeType(a)'
  BY <1>1 DEF ChangeType
<1>4. \A w \in RowType(a) : w \in RowType(a)'
  BY <1>2 DEF RowType
<1> QED BY <1>3, <1>4

\* What is nobody's but op's to store stays unstored under other numbers.
LEMMA QuietStays ==
    ASSUME ServerInv, Grows, NEW op, Authored(op), NEW q, q # op
    PROVE  /\ Quiet(q) => Quiet(q)'
           /\ Unreleased(q) => Unreleased(q)'
<1>1. Unreleased(q) => Unreleased(q)'
  BY DEF Unreleased, Grows, Authored
<1>2. ASSUME Quiet(q) PROVE \A a \in Contract : \A v \in 1..Newest(a)' : store'[a][v].by # q
  <2> TAKE a \in Contract
  <2> TAKE v \in 1..Newest(a)'
  <2>1. CASE v \in 1..Newest(a)
    BY <1>2, <2>1 DEF Quiet, Grows
  <2>2. CASE store'[a][v].by = op
    BY <2>2
  <2> QED BY <2>1, <2>2 DEF Authored
<1> QED BY <1>1, <1>2 DEF Quiet

\* An activation that took place has taken place.
LEMMA TookPlaceStays ==
    ASSUME ServerInv, ServerInv', Grows, NEW op, NEW x, TookPlace(op, x)
    PROVE  TookPlace(op, x)'
BY NamesStay DEF TookPlace, Grows

\* What a request has found, written and created is as it was.
LEMMA RunningStays ==
    ASSUME ServerInv, ServerInv', Grows, NEW j, RunningOK(j)
    PROVE  RunningOK(j)'
<1>1. /\ j \in Running /\ j.expected \in 0..Len(releases) /\ j.release \in 0..Len(releases)
      /\ Len(releases) \in Nat
  BY Stored DEF RunningOK
<1>2. j.expected # 0 => releases'[j.expected] = releases[j.expected]
  BY <1>1 DEF Grows
<1>3. j.release # 0 => releases'[j.release] = releases[j.release]
  BY <1>1 DEF Grows
<1>4. ASSUME NEW a \in Contract PROVE AliasOK(j, a)'
  <2>1. AliasOK(j, a)
    BY DEF RunningOK
  <2>2. j.changes[a] \in ChangeType(a)' /\ j.written[a] \in 0..Newest(a)'
    BY <2>1, TypesStay, NamesStay DEF AliasOK
  <2>3. j.changes[a].kind = "version" => store'[a][j.changes[a].version] = store[a][j.changes[a].version]
    BY <2>1, ChangeKinds DEF AliasOK, Grows
  <2>4. j.written[a] # 0 => store'[a][j.written[a]] = store[a][j.written[a]]
    <3>1. j.written[a] \in 0..Newest(a) /\ Newest(a) \in Nat
      BY <2>1, Stored DEF AliasOK
    <3>2. j.written[a] # 0 => j.written[a] \in 1..Newest(a)
      BY <3>1
    <3> QED BY <3>2 DEF Grows
  <2> QED BY <1>2, <2>1, <2>2, <2>3, <2>4 DEF AliasOK
<1>5. ASSUME j.stage = "activate"
      PROVE  j.release # 0 /\ releases'[j.release].op = j.op /\ \A a \in Contract : PinOK(j, a)'
  <2>1. j.release # 0 /\ releases[j.release].op = j.op
    BY <1>5 DEF RunningOK
  <2>2. ASSUME NEW a \in Contract PROVE PinOK(j, a)'
    <3>1. PinOK(j, a) /\ AliasOK(j, a)
      BY <1>5 DEF RunningOK
    <3> QED BY <1>2, <1>3, <2>1, <3>1 DEF PinOK, AliasOK
  <2> QED BY <1>3, <2>1, <2>2
<1>6. j.expected \in 0..Len(releases') /\ j.release \in 0..Len(releases')
  BY <1>1, NamesStay
<1> QED BY <1>1, <1>4, <1>5, <1>6 DEF RunningOK

\* The same of a request that was answered.
LEMMA DoneStays ==
    ASSUME ServerInv, ServerInv', Grows, NEW j, DoneOK(j)
    PROVE  DoneOK(j)'
BY NamesStay, TookPlaceStays DEF DoneOK

\* A step of another author keeps a request as it was found.
LEMMA JobStays ==
    ASSUME ServerInv, ServerInv', Grows, NEW op, Authored(op), NEW j, JobOK(j), j.op # op
    PROVE  JobOK(j)'
<1>1. j.op \in 1..attempts'
  <2>1. attempts \in Nat /\ attempts' \in Nat /\ attempts' >= attempts
    BY Stored, ShipConstants DEF ServerInv, Grows
  <2> QED BY <2>1 DEF JobOK
<1>2. j.stage # "done" => RunningOK(j)'
  BY RunningStays DEF JobOK
<1>3. j.stage = "done" => DoneOK(j)'
  BY DoneStays DEF JobOK
<1>4. WroteOK(j)'
  <2>1. WroteOK(j)
    BY DEF JobOK
  <2>2. /\ j.stage = "preflight" => Quiet(j.op)' /\ \A a \in Contract : j.written[a] = 0
        /\ j.stage = "execute" => Unreleased(j.op)'
        /\ j.stage = "done" /\ j.status \in {"refused", "rejected"} => Quiet(j.op)'
    BY <2>1, QuietStays DEF WroteOK
  <2>3. ASSUME j.stage = "execute", NEW a \in Contract, NEW v \in 1..Newest(a)', store'[a][v].by = j.op
        PROVE  j.changes[a].kind = "value"
    <3>1. v \in 1..Newest(a) /\ store'[a][v] = store[a][v]
      BY <2>3 DEF Grows, Authored
    <3> QED BY <2>1, <2>3, <3>1 DEF WroteOK
  <2> QED BY <2>2, <2>3 DEF WroteOK
<1> QED BY <1>1, <1>2, <1>3, <1>4 DEF JobOK

-----------------------------------------------------------------------------
(* ShipApplicationChange, step by step.                                    *)

\* k goes on with what j has under way: it gives up none of j's changes, and what it has
\* written is what j was to write.
CarriesOn(j, k) ==
    /\ \A a \in Contract : k.written[a] # 0 =>
          \/ k.written[a] = j.written[a]
          \/ j.changes[a].kind = "value" /\ store'[a][k.written[a]].value = j.changes[a].value
    /\ k.stage # "done" => k.changes = j.changes

Serves(j) ==
    /\ ServerInv' /\ Grows /\ Authored(j.op) /\ UNCHANGED <<formVars, attempts>>
    /\ j.stage # "done"
    /\ \E k : Moves(j, k) /\ k.op = j.op /\ JobOK(k)' /\ CarriesOn(j, k)

Answer(j, s, x) == [op |-> j.op, stage |-> "done", status |-> s, written |-> j.written, activation |-> x]

\* An answer says what the request has written, and is right about what it says.
LEMMA Answering ==
    ASSUME ServerInv, ServerInv', Grows, UNCHANGED attempts, NEW j, JobOK(j), j.stage # "done",
           NEW s \in {"failed", "refused", "rejected", "created", "conflict", "activated"},
           NEW x \in Activation,
           s \in {"refused", "rejected"} => Quiet(j.op)', s = "activated" => TookPlace(j.op, x)'
    PROVE  JobOK(Answer(j, s, x))' /\ Answer(j, s, x).op = j.op /\ CarriesOn(j, Answer(j, s, x))
<1> DEFINE k == Answer(j, s, x)
<1>1. j \in Running /\ j.op \in 1..attempts /\ \A a \in Contract : j.written[a] \in 0..Newest(a)'
  <2>1. RunningOK(j) /\ RunningOK(j)'
    BY RunningStays DEF JobOK
  <2> QED BY <2>1 DEF RunningOK, AliasOK, JobOK
<1>2. /\ k.op = j.op /\ k.stage = "done" /\ k.status = s /\ k.written = j.written /\ k.activation = x
      /\ k \in Done
  BY <1>1 DEF Answer, Running, Done
<1> HIDE DEF k
<1>3. DoneOK(k)'
  BY <1>1, <1>2 DEF DoneOK
<1>4. WroteOK(k)'
  BY <1>2 DEF WroteOK
<1>5. CarriesOn(j, k)
  BY <1>2 DEF CarriesOn
<1> QED BY <1>1, <1>2, <1>3, <1>4, <1>5 DEF JobOK, k

\* The preflight writes nothing: it answers, or lets the request go on.
LEMMA PreflightServes ==
    ASSUME ServerInv, JobInv, NEW j \in jobs, Preflight(j)
    PROVE  Serves(j)
<1>1. j.stage = "preflight" /\ UNCHANGED <<serverVars, formVars, attempts, disturbed>>
  BY DEF Preflight
<1>2. JobOK(j)
  BY DEF JobInv
<1>3. ServerInv' /\ Grows /\ Authored(j.op)
  <2>1. j.op \in 0..attempts /\ ServerDoes(j.op) /\ fit' \in BOOLEAN /\ disturbed' \in 0..MaxDisturbed
    BY <1>1, <1>2 DEF ServerDoes, serverVars, JobOK, ServerInv
  <2> QED BY <1>1, <2>1, ServerKept
<1>4. Quiet(j.op) /\ Quiet(j.op)'
  <2>1. Quiet(j.op)
    BY <1>1, <1>2 DEF JobOK, WroteOK
  <2>2. \A a \in Contract : Newest(a)' = Newest(a)
    BY <1>1 DEF Newest, serverVars
  <2> QED BY <1>1, <2>1, <2>2 DEF Quiet, Unreleased, serverVars
<1>5. NoActivation \in Activation
  BY DEF Activation
<1>6. CASE \E s \in {"failed", "refused", "rejected"} : Responds(j, s, NoActivation)
  <2>1. PICK s \in {"failed", "refused", "rejected"} : Responds(j, s, NoActivation)
    BY <1>6
  <2>2. Moves(j, Answer(j, s, NoActivation))
    BY <2>1 DEF Responds, Answer
  <2>3. JobOK(Answer(j, s, NoActivation))' /\ Answer(j, s, NoActivation).op = j.op
        /\ CarriesOn(j, Answer(j, s, NoActivation))
    BY <1>1, <1>2, <1>3, <1>4, <1>5, Answering
  <2> QED BY <1>1, <1>3, <2>2, <2>3 DEF Serves
<1>7. CASE Moves(j, [j EXCEPT !.stage = "execute"])
  <2> DEFINE k == [j EXCEPT !.stage = "execute"]
  <2>1. RunningOK(j)' /\ j \in Running
    BY <1>1, <1>2, <1>3, RunningStays DEF JobOK, RunningOK
  <2>2. /\ k \in Running /\ k.op = j.op /\ k.stage = "execute" /\ k.changes = j.changes
        /\ k.written = j.written /\ k.expected = j.expected /\ k.release = j.release /\ k.shown = j.shown
    BY <2>1 DEF Running
  <2> HIDE DEF k
  <2>3. RunningOK(k)'
    BY <2>1, <2>2 DEF RunningOK, AliasOK
  <2>4. WroteOK(k)'
    BY <1>4, <2>2 DEF WroteOK, Quiet
  <2>5. JobOK(k)' /\ CarriesOn(j, k)
    BY <1>1, <1>2, <2>2, <2>3, <2>4 DEF JobOK, CarriesOn
  <2> QED BY <1>1, <1>3, <1>7, <2>2, <2>5, Zenon DEF Serves, k
<1> QED BY <1>6, <1>7 DEF Preflight

\* Writing a value appends it under the attempt's number, and the request remembers
\* the version.
LEMMA WriteServes ==
    ASSUME ServerInv, JobInv, NEW j \in jobs, WriteValue(j)
    PROVE  Serves(j)
<1>1. PICK a \in ToWrite(j) :
         /\ store' = [store EXCEPT ![a] = Append(@, [value |-> j.changes[a].value, by |-> j.op])]
         /\ Moves(j, [j EXCEPT !.written[a] = Newest(a) + 1])
  BY Zenon DEF WriteValue
<1>2. /\ j.stage = "execute" /\ UNCHANGED <<releases, history, fit, formVars, attempts, disturbed>>
      /\ a \in Contract /\ j.changes[a].kind = "value"
  BY <1>1 DEF WriteValue, ToWrite
<1>3. JobOK(j) /\ RunningOK(j) /\ WroteOK(j) /\ j \in Running /\ AliasOK(j, a)
  BY <1>2 DEF JobInv, JobOK, RunningOK
<1>4. j.changes[a].value \in Values
  BY <1>2, <1>3, ChangeKinds DEF AliasOK
<1>5. ServerInv' /\ Grows /\ Authored(j.op)
  <2>1. Writes(j.op)
    BY <1>1, <1>2, <1>4, Zenon DEF Writes
  <2>2. j.op \in 0..attempts /\ ServerDoes(j.op) /\ fit' \in BOOLEAN /\ disturbed' \in 0..MaxDisturbed
    BY <1>2, <1>3, <2>1 DEF ServerDoes, JobOK, ServerInv
  <2> QED BY <1>2, <2>2, ServerKept
<1>0. PICK n : n = Newest(a) + 1
  OBVIOUS
<1> DEFINE k == [j EXCEPT !.written[a] = n]
           e == [value |-> j.changes[a].value, by |-> j.op]
<1>6. Newest(a) \in Nat /\ n \in 1..Newest(a)' /\ Newest(a)' = n /\ store'[a][n] = e
      /\ \A b \in Contract \ {a} : store'[b] = store[b]
  <2>1. store[a] \in Seq([value : Values, by : Nat]) /\ e \in [value : Values, by : Nat] /\ Newest(a) \in Nat
    BY <1>2, <1>3, <1>4, Stored, Zenon DEF Running
  <2>2. store'[a] = Append(store[a], e) /\ \A b \in Contract \ {a} : store'[b] = store[b]
    BY <1>1, <1>2 DEF ServerInv
  <2> HIDE DEF e
  <2>3. Len(store'[a]) = Len(store[a]) + 1 /\ store'[a][Len(store[a]) + 1] = e
    BY <2>1, <2>2
  <2> QED BY <1>0, <2>1, <2>2, <2>3 DEF Newest
<1>7. /\ k \in Running /\ k.op = j.op /\ k.stage = "execute" /\ k.changes = j.changes
      /\ k.expected = j.expected /\ k.release = j.release /\ k.shown = j.shown
      /\ k.written[a] = n /\ \A b \in Contract \ {a} : k.written[b] = j.written[b]
  BY <1>2, <1>3, <1>6 DEF Running
<1>8. Moves(j, k)
  BY <1>0, <1>1
<1>9. store'[a][n].value = j.changes[a].value /\ n # 0
  BY <1>6
<1>10. RunningOK(j)'
  BY <1>3, <1>5, RunningStays
<1> HIDE DEF k, e
<1>11. ASSUME NEW b \in Contract PROVE AliasOK(k, b)'
  <2>1. AliasOK(j, b)'
    BY <1>10 DEF RunningOK
  <2>2. CASE b = a
    BY <1>2, <1>6, <1>7, <1>9, <2>1, <2>2 DEF AliasOK
  <2>3. CASE b # a
    BY <1>7, <2>1, <2>3 DEF AliasOK
  <2> QED BY <2>2, <2>3
<1>12. RunningOK(k)'
  BY <1>7, <1>10, <1>11 DEF RunningOK
<1>13. WroteOK(k)'
  <2>1. Unreleased(k.op)'
    BY <1>2, <1>3, <1>7 DEF WroteOK, Unreleased
  <2>2. ASSUME NEW b \in Contract, NEW v \in 1..Newest(b)', store'[b][v].by = k.op
        PROVE  k.changes[b].kind = "value"
    <3>1. CASE b = a
      BY <1>2, <1>7, <3>1
    <3>2. CASE b # a
      <4>1. v \in 1..Newest(b) /\ store[b][v].by = j.op
        BY <1>6, <1>7, <2>2, <3>2 DEF Newest
      <4> QED BY <1>2, <1>3, <1>7, <4>1 DEF WroteOK
    <3> QED BY <3>1, <3>2
  <2> QED BY <1>7, <2>1, <2>2 DEF WroteOK
<1>14. CarriesOn(j, k)
  BY <1>2, <1>7, <1>9 DEF CarriesOn
<1>15. JobOK(k)'
  BY <1>2, <1>3, <1>7, <1>12, <1>13 DEF JobOK
<1> QED BY <1>2, <1>5, <1>7, <1>8, <1>14, <1>15 DEF Serves

\* A write, a creation or an activation that fails is answered with what was written before.
LEMMA CallFailsServes ==
    ASSUME ServerInv, JobInv, NEW j \in jobs, CallFails(j)
    PROVE  Serves(j)
<1>1. j.stage # "done" /\ Disturb /\ UNCHANGED <<serverVars, formVars, attempts>> /\ JobOK(j)
  BY DEF CallFails, JobInv
<1>2. ServerInv' /\ Grows /\ Authored(j.op)
  <2>1. disturbed' \in 0..MaxDisturbed
    BY <1>1, Stored DEF Disturb
  <2>2. j.op \in 0..attempts /\ ServerDoes(j.op) /\ fit' \in BOOLEAN
    BY <1>1 DEF ServerDoes, serverVars, JobOK, ServerInv
  <2> QED BY <1>1, <2>1, <2>2, ServerKept
<1>3. NoActivation \in Activation /\ Moves(j, Answer(j, "failed", NoActivation))
  BY DEF Activation, CallFails, Responds, Answer
<1>4. JobOK(Answer(j, "failed", NoActivation))' /\ Answer(j, "failed", NoActivation).op = j.op
      /\ CarriesOn(j, Answer(j, "failed", NoActivation))
  BY <1>1, <1>2, <1>3, Answering
<1> QED BY <1>1, <1>2, <1>3, <1>4 DEF Serves

\* A release pins what was written, what was named, and what is kept.
LEMMA CreateServes ==
    ASSUME ServerInv, JobInv, NEW j \in jobs, CreateRelease(j)
    PROVE  Serves(j)
<1>1. /\ j.stage = "execute" /\ ToWrite(j) = {} /\ UNCHANGED <<store, history, fit, formVars, attempts, disturbed>>
      /\ JobOK(j) /\ RunningOK(j) /\ WroteOK(j) /\ j \in Running
  BY DEF CreateRelease, JobInv, JobOK, RunningOK
<1>2. j.op \in 0..attempts /\ fit' \in BOOLEAN /\ disturbed' \in 0..MaxDisturbed
  BY <1>1 DEF JobOK, ServerInv
<1>3. CASE Acceptable(j.changes) /\ fit
  <2>1. PICK pins : pins = [a \in Contract |-> IF j.written[a] # 0 THEN j.written[a]
                                              ELSE Planned(j.changes, j.expected)[a]]
    BY Zenon
  <2>2. PICK n : n = Len(releases')
    BY Zenon
  <2> DEFINE k == [j EXCEPT !.stage = "activate", !.release = n]
  <2>3. releases' = Append(releases, [pins |-> pins, op |-> j.op]) /\ Moves(j, k)
    BY <1>3, <2>1, <2>2 DEF CreateRelease
  <2>4. ASSUME NEW a \in Contract
        PROVE  /\ pins[a] \in 1..Newest(a)
               /\ j.changes[a].kind = "value" => j.written[a] # 0 /\ pins[a] = j.written[a]
               /\ j.changes[a].kind = "version" => pins[a] = j.changes[a].version
               /\ j.changes[a] = Keep => pins[a] = releases[j.expected].pins[a]
    <3>1. AliasOK(j, a) /\ Newest(a) \in Nat
      BY <1>1, Stored DEF RunningOK
    <3>2. /\ j.changes[a].kind \in {"keep", "current", "version", "value"}
          /\ j.changes[a].kind = "keep" <=> j.changes[a] = Keep
          /\ j.changes[a].kind = "current" <=> j.changes[a] = Current
          /\ j.changes[a].kind = "version" => j.changes[a].version \in 1..Newest(a)
      BY <3>1, ChangeKinds DEF AliasOK
    <3>3. pins[a] = IF j.written[a] # 0 THEN j.written[a] ELSE Planned(j.changes, j.expected)[a]
      BY <2>1
    <3>4. CASE j.changes[a].kind = "value"
      <4>1. j.written[a] # 0 /\ j.written[a] \in 0..Newest(a)
        BY <1>1, <3>1, <3>4 DEF ToWrite, AliasOK
      <4>2. j.changes[a] # Keep
        BY <3>2, <3>4
      <4> QED BY <3>1, <3>3, <3>4, <4>1, <4>2
    <3>5. CASE j.changes[a].kind = "version"
      <4>1. j.written[a] = 0 /\ j.changes[a] # Keep
        BY <3>1, <3>2, <3>5 DEF AliasOK
      <4>2. Planned(j.changes, j.expected)[a] = j.changes[a].version
        BY <3>5, <4>1 DEF Planned
      <4> QED BY <3>2, <3>3, <3>5, <4>1, <4>2
    <3>6. CASE j.changes[a].kind = "keep"
      <4>1. j.written[a] = 0 /\ j.changes[a] = Keep /\ j.expected # 0 /\ j.expected \in 0..Len(releases)
        BY <1>1, <3>1, <3>2, <3>6 DEF AliasOK, RunningOK
      <4>2. j.expected \in 1..Len(releases)
        BY <4>1, Stored
      <4>3. Planned(j.changes, j.expected)[a] = releases[j.expected].pins[a]
        BY <3>6, <4>1 DEF Planned
      <4>4. releases[j.expected].pins[a] \in 1..Newest(a)
        BY <4>2 DEF ServerInv
      <4> QED BY <3>3, <3>6, <4>1, <4>3, <4>4
    <3> QED BY <3>1, <3>2, <3>4, <3>5, <3>6 DEF AliasOK
  <2>5. pins \in [Contract -> Nat]
    <3>1. \A a \in Contract : pins[a] \in Nat
      BY <2>4, Stored
    <3> QED BY <2>1, <3>1
  <2>6. Creates(j.op)
    BY <1>1, <2>3, <2>4, <2>5, Zenon DEF Creates
  <2>7. ServerInv' /\ Grows /\ Authored(j.op)
    BY <1>1, <1>2, <2>6, ServerKept DEF ServerDoes
  <2>8. n = Len(releases) + 1 /\ n \in 1..Len(releases') /\ n # 0 /\ n \in Nat
        /\ releases'[n].pins = pins /\ releases'[n].op = j.op
    <3>1. releases \in Seq([pins : [Contract -> Nat], op : Nat]) /\ Len(releases) \in Nat
      BY Stored DEF ServerInv
    <3> DEFINE e == [pins |-> pins, op |-> j.op]
    <3>2. e.pins = pins /\ e.op = j.op /\ e \in [pins : [Contract -> Nat], op : Nat]
      BY <1>1, <2>5 DEF Running
    <3>3. releases' = Append(releases, e)
      BY <2>3
    <3> HIDE DEF e
    <3>4. Len(releases') = Len(releases) + 1 /\ releases'[Len(releases) + 1] = e
      BY <3>1, <3>2, <3>3
    <3> QED BY <2>2, <3>1, <3>2, <3>4
  <2>9. /\ k \in Running /\ k.op = j.op /\ k.stage = "activate" /\ k.changes = j.changes
        /\ k.written = j.written /\ k.expected = j.expected /\ k.release = n /\ k.shown = j.shown
    BY <1>1, <2>8, Zenon DEF Running
  <2> HIDE DEF k
  <2>10. RunningOK(j)'
    BY <1>1, <2>7, RunningStays
  <2>11. ASSUME NEW a \in Contract PROVE AliasOK(k, a)' /\ PinOK(k, a)'
    <3>1. AliasOK(j, a) /\ AliasOK(j, a)'
      BY <1>1, <2>10 DEF RunningOK
    <3>2. AliasOK(k, a)'
      BY <2>9, <3>1 DEF AliasOK
    <3>3. j.changes[a] = Keep => releases'[j.expected].pins[a] = releases[j.expected].pins[a]
      <4>1. j.expected \in 0..Len(releases) /\ Len(releases) \in Nat
        BY <1>1, Stored DEF RunningOK
      <4>2. j.changes[a] = Keep => j.expected # 0
        BY <3>1 DEF AliasOK
      <4>3. j.changes[a] = Keep => j.expected \in 1..Len(releases)
        BY <4>1, <4>2
      <4> QED BY <2>7, <4>3 DEF Grows
    <3>4. PinOK(k, a)'
      BY <2>4, <2>8, <2>9, <3>3 DEF PinOK
    <3> QED BY <3>2, <3>4
  <2>12. n \in 0..Len(releases')
    BY <2>8
  <2>13. RunningOK(k)'
    BY <2>8, <2>9, <2>10, <2>11, <2>12 DEF RunningOK
  <2>14. WroteOK(k)' /\ CarriesOn(j, k)
    BY <2>9 DEF WroteOK, CarriesOn
  <2>15. JobOK(k)'
    BY <1>1, <2>9, <2>13, <2>14 DEF JobOK
  <2> QED BY <1>1, <2>3, <2>7, <2>9, <2>14, <2>15, Zenon DEF Serves, k
<1>4. CASE ~(Acceptable(j.changes) /\ fit)
  <2>1. PICK s : s = IF Acceptable(j.changes) THEN "failed" ELSE "refused"
    OBVIOUS
  <2>2. s \in {"failed", "refused"} /\ UNCHANGED releases /\ Responds(j, s, NoActivation)
    BY <1>4, <2>1 DEF CreateRelease
  <2>3. ServerInv' /\ Grows /\ Authored(j.op)
    BY <1>1, <1>2, <2>2, ServerKept DEF ServerDoes
  <2>4. s = "refused" => Quiet(j.op)'
    <3> SUFFICES ASSUME s = "refused" PROVE Quiet(j.op)'
      OBVIOUS
    <3>1. \A a \in Contract : j.changes[a] = Keep
      BY <2>1 DEF Acceptable, Empty
    <3>2. Unreleased(j.op) /\ \A a \in Contract : \A v \in 1..Newest(a) : store[a][v].by # j.op
      BY <1>1, <3>1 DEF WroteOK, Keep
    <3>3. \A a \in Contract : Newest(a)' = Newest(a)
      BY <1>1 DEF Newest
    <3> QED BY <1>1, <2>2, <3>2, <3>3 DEF Quiet, Unreleased
  <2>5. NoActivation \in Activation /\ Moves(j, Answer(j, s, NoActivation))
    BY <2>2 DEF Activation, Responds, Answer
  <2>6. JobOK(Answer(j, s, NoActivation))' /\ Answer(j, s, NoActivation).op = j.op
        /\ CarriesOn(j, Answer(j, s, NoActivation))
    BY <1>1, <2>2, <2>3, <2>4, <2>5, Answering
  <2> QED BY <1>1, <2>3, <2>5, <2>6 DEF Serves
<1> QED BY <1>3, <1>4

\* An activation is answered with the revision it took place at.
LEMMA ActivateServes ==
    ASSUME ServerInv, JobInv, NEW j \in jobs, ActivateRelease(j)
    PROVE  Serves(j) /\ (history' = history \/ (history' = Activated(j.release, j.op) /\ Active = j.expected))
<1>1. /\ j.stage = "activate" /\ UNCHANGED <<store, releases, fit, formVars, attempts, disturbed>>
      /\ JobOK(j) /\ RunningOK(j) /\ j \in Running
  BY DEF ActivateRelease, JobInv, JobOK, RunningOK
<1>2. j.op \in 0..attempts /\ fit' \in BOOLEAN /\ disturbed' \in 0..MaxDisturbed
  BY <1>1 DEF JobOK, ServerInv
<1>3. CASE \E s \in {"created", "conflict"} : Responds(j, s, NoActivation) /\ UNCHANGED history
  <2>1. PICK s \in {"created", "conflict"} : Responds(j, s, NoActivation) /\ UNCHANGED history
    BY <1>3
  <2>2. ServerInv' /\ Grows /\ Authored(j.op)
    BY <1>1, <1>2, <2>1, ServerKept DEF ServerDoes
  <2>3. NoActivation \in Activation /\ Moves(j, Answer(j, s, NoActivation))
    BY <2>1 DEF Activation, Responds, Answer
  <2>4. JobOK(Answer(j, s, NoActivation))' /\ Answer(j, s, NoActivation).op = j.op
        /\ CarriesOn(j, Answer(j, s, NoActivation))
    BY <1>1, <2>2, <2>3, Answering
  <2> QED BY <1>1, <2>1, <2>2, <2>3, <2>4 DEF Serves
<1>4. CASE /\ Active = j.expected /\ history' = Activated(j.release, j.op)
           /\ Responds(j, "activated", [version |-> j.release, revision |-> Len(history'), previous |-> Active])
  <2>1. PICK x : x = [version |-> j.release, revision |-> Len(history'), previous |-> Active]
    BY Zenon
  <2>2. j.release \in 1..Len(releases) /\ releases[j.release].op = j.op
    BY <1>1, Stored DEF RunningOK
  <2>3. ServerInv' /\ Grows /\ Authored(j.op)
    BY <1>1, <1>2, <1>4, <2>2, ServerKept DEF ServerDoes, Activates
  <2>4. /\ Len(history') = Len(history) + 1 /\ Len(history) \in Nat
        /\ history'[Len(history) + 1] = [version |-> j.release, previous |-> Active, by |-> j.op]
    <3>1. Len(releases) \in Nat /\ Len(releases) <= Len(releases) /\ j.op \in Nat /\ Len(history) \in Nat
      BY <1>1, Stored DEF Running
    <3> QED BY <1>4, <2>2, <3>1, HistoryGrows
  <2>5. TookPlace(j.op, x)' /\ x \in Activation
    <3>1. x.version = j.release /\ x.revision = Len(history) + 1 /\ x.previous = Active
      BY <2>1, <2>4
    <3>2. history'[x.revision].version = j.release /\ history'[x.revision].previous = Active
      BY <2>4, <3>1
    <3>3. x.revision \in 1..Len(history')
      BY <2>4, <3>1
    <3>4. x \in [version : Nat, revision : Nat, previous : Nat]
      BY <1>1, <2>1, <2>4, ActiveType, Stored DEF Running
    <3> QED BY <1>1, <2>2, <3>1, <3>2, <3>3, <3>4 DEF TookPlace, Activation
  <2>6. Moves(j, Answer(j, "activated", x))
    BY <1>4, <2>1 DEF Responds, Answer
  <2>7. JobOK(Answer(j, "activated", x))' /\ Answer(j, "activated", x).op = j.op
        /\ CarriesOn(j, Answer(j, "activated", x))
    BY <1>1, <2>3, <2>5, Answering
  <2> QED BY <1>1, <1>4, <2>3, <2>6, <2>7 DEF Serves
<1> QED BY <1>3, <1>4 DEF ActivateRelease

-----------------------------------------------------------------------------
(* Requests and the form when others move.                                 *)

\* Requests that nothing is stored for keep what they have found.
LEMMA JobsStay ==
    ASSUME ServerInv, ServerInv', Grows, Authored(0), JobInv, jobs' \subseteq jobs
    PROVE  JobInv'
<1>1. ASSUME NEW j \in jobs' PROVE JobOK(j)'
  <2>1. JobOK(j) /\ j.op # 0
    BY DEF JobInv, JobOK
  <2> QED BY <2>1, JobStays
<1> QED BY <1>1 DEF JobInv

\* A request that is served leaves the others as they are.
LEMMA ServesOne ==
    ASSUME ServerInv, JobInv, NEW j \in jobs, Serves(j)
    PROVE  JobInv' /\ \A k \in jobs' : \E i \in jobs : k.op = i.op
<1>1. ServerInv' /\ Grows /\ Authored(j.op)
  BY DEF Serves
<1>2. PICK k : Moves(j, k) /\ k.op = j.op /\ JobOK(k)'
  BY DEF Serves
<1>3. \A i \in jobs' : i = k \/ (i \in jobs /\ i # j)
  BY <1>2 DEF Moves
<1>4. ASSUME NEW i \in jobs, i # j PROVE JobOK(i)'
  <2>1. JobOK(i) /\ i.op # j.op
    BY <1>4 DEF JobInv
  <2> QED BY <1>1, <2>1, JobStays
<1>5. ASSUME NEW i \in jobs', NEW l \in jobs', i.op = l.op PROVE i = l
  BY <1>2, <1>3, <1>5 DEF JobInv
<1> QED BY <1>2, <1>3, <1>4, <1>5 DEF JobInv

\* What a request carried is found as it was.
LEMMA ChangesStay ==
    ASSUME ServerInv, ServerInv', Grows, NEW ch, ChangesOK(ch)
    PROVE  ChangesOK(ch)'
BY TypesStay DEF ChangesOK

\* A preview stays right about what the labels meant.
LEMMA PreviewStays ==
    ASSUME ServerInv, ServerInv', Grows, NEW ch, NEW p, PreviewOK(ch, p)
    PROVE  PreviewOK(ch, p)'
<1> SUFFICES ASSUME p.valid PROVE PreviewOK(ch, p)'
  BY DEF PreviewOK
<1>1. p \in Preview /\ p.base \in 0..Len(releases) /\ Len(releases) \in Nat
  BY Stored DEF PreviewOK
<1>2. p.base # 0 => releases'[p.base] = releases[p.base]
  BY <1>1 DEF Grows
<1>3. p.base \in 0..Len(releases')
  BY <1>1, NamesStay
<1>4. ASSUME NEW a \in Contract
      PROVE  /\ ch[a] = Current \/ (ch[a] = Keep /\ p.base = 0) => p.pins[a] \in 1..Newest(a)'
             /\ ch[a] = Keep /\ p.base # 0 => p.pins[a] = releases'[p.base].pins[a]
  BY <1>2, NamesStay DEF PreviewOK
<1> QED BY <1>1, <1>3, <1>4 DEF PreviewOK

\* What the form holds of the store stays so when others store more.
LEMMA RowsStay ==
    ASSUME ServerInv, ServerInv', Grows, form \in Form, RowsInv, form' = form
    PROVE  RowsInv'
<1> SUFFICES ASSUME NEW a \in Contract
             PROVE  /\ form.rows[a] \in RowType(a)'
                    /\ form.rows[a].kind = "row" /\ form.rows[a].reuse # 0 =>
                          store'[a][form.rows[a].reuse].value = form.rows[a].value
  BY DEF RowsInv
<1>1. form.rows[a] \in RowType(a) /\ Newest(a) \in Nat
  BY Stored DEF RowsInv
<1>2. form.rows[a].kind = "row" /\ form.rows[a].reuse # 0 => form.rows[a].reuse \in 1..Newest(a)
  BY <1>1 DEF RowType, Absent, Loading, LoadError, Row
<1>3. form.rows[a].kind = "row" /\ form.rows[a].reuse # 0 =>
         store'[a][form.rows[a].reuse] = store[a][form.rows[a].reuse]
  BY <1>2 DEF Grows
<1> QED BY <1>1, <1>3, TypesStay DEF RowsInv

\* The same of the preview and the dry run.
LEMMA PreviewInvStays ==
    ASSUME ServerInv, ServerInv', Grows, PreviewInv, UNCHANGED formVars
    PROVE  PreviewInv'
<1>0. form' = form /\ dry' = dry
  BY DEF formVars
<1>1. dry.stage \in {"sent", "answered"} => ChangesOK(dry.changes)' /\ dry.changes = form.key
  <2>1. ASSUME ChangesOK(dry.changes) PROVE ChangesOK(dry.changes)'
    <3>1. PICK ch : ch = dry.changes
      OBVIOUS
    <3>2. ChangesOK(ch)'
      BY <2>1, <3>1, ChangesStay
    <3> QED BY <1>0, <3>1, <3>2 DEF ChangesOK
  <2> QED BY <2>1 DEF PreviewInv
<1>2. dry.stage = "answered" => PreviewOK(dry.changes, dry.preview)'
  <2>1. ASSUME PreviewOK(dry.changes, dry.preview) PROVE PreviewOK(dry.changes, dry.preview)'
    <3>1. PICK ch : ch = dry.changes
      OBVIOUS
    <3>2. PICK p : p = dry.preview
      OBVIOUS
    <3>3. PreviewOK(ch, p)'
      BY <2>1, <3>1, <3>2, PreviewStays
    <3> QED BY <1>0, <3>1, <3>2, <3>3 DEF PreviewOK
  <2> QED BY <2>1 DEF PreviewInv
<1>3. form.preview.valid => ChangesOK(form.key)' /\ PreviewOK(form.key, form.preview)'
  <2>1. ASSUME ChangesOK(form.key), PreviewOK(form.key, form.preview)
        PROVE  ChangesOK(form.key)' /\ PreviewOK(form.key, form.preview)'
    <3>1. PICK ch : ch = form.key
      OBVIOUS
    <3>2. PICK p : p = form.preview
      OBVIOUS
    <3>3. PreviewOK(ch, p)' /\ ChangesOK(ch)'
      BY <2>1, <3>1, <3>2, PreviewStays, ChangesStay
    <3> QED BY <1>0, <3>1, <3>2, <3>3 DEF PreviewOK, ChangesOK
  <2> QED BY <2>1 DEF PreviewInv
<1> QED BY <1>0, <1>1, <1>2, <1>3 DEF PreviewInv, Composing, Freeze

\* And of the phases: nobody else stores under an attempt's number.
LEMMA PhaseStays ==
    ASSUME ServerInv, ServerInv', Grows, JobInv, PhaseInv, form \in Form, UNCHANGED formVars, attempts' = attempts,
           NEW op, Authored(op), op = 0 \/ \E j \in jobs : op = j.op,
           \A k \in jobs' : \E i \in jobs : k.op = i.op
    PROVE  PhaseInv'
<1>0. form' = form /\ loads' = loads /\ check' = check
  BY DEF formVars
<1>1. \A l \in loads : l \in [alias : Parameters, since : Nat] /\ l.since \in 1..Newest(l.alias)'
  BY NamesStay DEF PhaseInv, Contract
<1>2. check \in {NoCall} \cup [stage : {"sent"}, since : 0..Len(history')]
  <2>1. ASSUME NEW c \in [stage : {"sent"}, since : 0..Len(history)]
        PROVE  c \in [stage : {"sent"}, since : 0..Len(history')]
    BY NamesStay
  <2> QED BY <2>1 DEF PhaseInv
<1>3. form.phase = "rollout" => TookPlace(form.attempt, form.activation)'
  <2>1. ASSUME TookPlace(form.attempt, form.activation) PROVE TookPlace(form.attempt, form.activation)'
    <3>1. PICK n : n = form.attempt
      OBVIOUS
    <3>2. PICK x : x = form.activation
      OBVIOUS
    <3>3. TookPlace(n, x)'
      BY <2>1, <3>1, <3>2, TookPlaceStays
    <3> QED BY <1>0, <3>1, <3>2, <3>3 DEF TookPlace
  <2> QED BY <2>1 DEF PhaseInv
<1>4. form.phase \in {"conflict", "rejected"} /\ ~form.wrote =>
         form.attempt # 0 /\ Quiet(form.attempt)' /\ \A j \in jobs' : j.op # form.attempt
  <2> SUFFICES ASSUME form.phase \in {"conflict", "rejected"}, ~form.wrote
               PROVE  form.attempt # 0 /\ Quiet(form.attempt)' /\ \A j \in jobs' : j.op # form.attempt
    OBVIOUS
  <2>1. form.attempt # 0 /\ Quiet(form.attempt) /\ \A j \in jobs : j.op # form.attempt
    BY DEF PhaseInv
  <2>2. PICK n : n = form.attempt
    OBVIOUS
  <2>3. Quiet(n)'
    BY <2>1, <2>2, QuietStays
  <2>4. \A j \in jobs' : j.op # form.attempt
    BY <2>1
  <2> QED BY <1>0, <2>1, <2>2, <2>3, <2>4 DEF Quiet, Unreleased
<1> QED BY <1>0, <1>1, <1>2, <1>3, <1>4 DEF PhaseInv

\* The rows of an awaited request hold what it goes on to write.
LEMMA AwaitStays ==
    ASSUME ServerInv, ServerInv', Grows, JobInv, AwaitInv, UNCHANGED formVars, jobs' \subseteq jobs
    PROVE  AwaitInv'
<1>0. form' = form
  BY DEF formVars
<1>1. \A j \in jobs : \A a \in Contract : j.written[a] # 0 => j.written[a] \in 1..Newest(a)
  <2> TAKE j \in jobs
  <2> TAKE a \in Contract
  <2>1. j.written[a] \in 0..Newest(a) /\ Newest(a) \in Nat
    BY Stored DEF JobInv, JobOK, RunningOK, DoneOK, AliasOK
  <2> QED BY <2>1
<1> QED BY <1>0, <1>1 DEF AwaitInv, RowsParse, Grows

\* Also when it is the request itself that moves.
LEMMA AwaitServes ==
    ASSUME ServerInv, JobInv, AwaitInv, NEW j \in jobs, Serves(j)
    PROVE  AwaitInv'
<1>0. form' = form /\ ServerInv' /\ Grows /\ UNCHANGED formVars /\ j.stage # "done"
  BY DEF Serves, formVars
<1>1. PICK k : Moves(j, k) /\ k.op = j.op /\ CarriesOn(j, k)
  BY DEF Serves
<1>2. \A i \in jobs' : i = k \/ i \in jobs
  BY <1>1 DEF Moves
<1>3. \A i \in jobs : \A a \in Contract : i.written[a] # 0 => store'[a][i.written[a]] = store[a][i.written[a]]
  <2> TAKE i \in jobs
  <2> TAKE a \in Contract
  <2>1. i.written[a] \in 0..Newest(a) /\ Newest(a) \in Nat
    BY Stored DEF JobInv, JobOK, RunningOK, DoneOK, AliasOK
  <2>2. i.written[a] # 0 => i.written[a] \in 1..Newest(a)
    BY <2>1
  <2> QED BY <1>0, <2>2 DEF Grows
<1> SUFFICES ASSUME form.phase = "shipping", NEW i \in jobs', i.op = form.attempt, NEW a \in Contract
             PROVE  /\ i.written[a] # 0 =>
                         form.rows[a].kind = "row" /\ store'[a][i.written[a]].value = form.rows[a].value
                    /\ i.stage # "done" /\ i.changes[a].kind = "value" =>
                         form.rows[a].kind = "row" /\ form.rows[a].value = i.changes[a].value
  BY <1>0 DEF AwaitInv, RowsParse
<1>4. CASE i \in jobs
  BY <1>3, <1>4 DEF AwaitInv
<1>5. CASE i = k
  <2>1. /\ j.written[a] # 0 => form.rows[a].kind = "row" /\ store[a][j.written[a]].value = form.rows[a].value
        /\ j.changes[a].kind = "value" => form.rows[a].kind = "row" /\ form.rows[a].value = j.changes[a].value
    BY <1>0, <1>1, <1>5 DEF AwaitInv
  <2> QED BY <1>1, <1>3, <1>5, <2>1 DEF CarriesOn
<1> QED BY <1>2, <1>4, <1>5

-----------------------------------------------------------------------------
(* The form's own steps.                                                   *)

Idle == UNCHANGED <<serverVars, attempts>> /\ disturbed' \in 0..MaxDisturbed

\* While the server is left alone everything stored is what it was.
LEMMA IdleServer ==
    ASSUME ServerInv, JobInv, Idle
    PROVE  /\ ServerInv' /\ Grows /\ Authored(0) /\ (jobs' \subseteq jobs => JobInv')
           /\ \A a \in Contract : Newest(a)' = Newest(a)
<1>1. ServerInv' /\ Grows /\ Authored(0)
  <2>1. 0 \in 0..attempts /\ ServerDoes(0) /\ attempts' = attempts /\ fit' \in BOOLEAN
    BY Stored DEF Idle, ServerDoes, serverVars, ServerInv
  <2> QED BY <2>1, ServerKept DEF Idle
<1>2. \A a \in Contract : Newest(a)' = Newest(a)
  BY DEF Idle, serverVars, Newest
<1> QED BY <1>1, <1>2, JobsStay

\* What a row of the form is, by its kind.
LEMMA RowKinds ==
    ASSUME NEW a \in Contract, NEW w \in RowType(a)
    PROVE  /\ w \in RowSet /\ w.kind \in {"absent", "loading", "error", "row"}
           /\ w.kind = "row" => /\ a \in Parameters /\ w = Row(w.value, w.reuse)
                                /\ w.value \in Values /\ w.reuse \in 0..Newest(a) /\ w.reuse \in Nat
           /\ w = Loading => w.kind = "loading"
<1> USE DEF Absent, Loading, LoadError, Row
<1>1. CASE w \in {Absent, Loading, LoadError}
  BY <1>1 DEF RowSet
<1>2. CASE a \in Parameters /\ \E x \in Values, v \in 0..Newest(a) : w = Row(x, v)
  <2>1. PICK x \in Values, v \in 0..Newest(a) : w = Row(x, v)
    BY <1>2
  <2>2. v \in Nat
    OBVIOUS
  <2>3. w \in RowSet
    BY <2>1, <2>2 DEF RowSet
  <2> QED BY <1>2, <2>1, <2>2, <2>3
<1>3. a \notin Secrets => a \in Parameters
  BY DEF Contract
<1> QED BY <1>1, <1>2, <1>3 DEF RowType

\* A form of which only rows and opt-ins change.
SameButRows ==
    /\ form'.open = form.open /\ form'.phase = form.phase /\ form'.preview = form.preview
    /\ form'.key = form.key /\ form'.frozen = form.frozen /\ form'.loading = form.loading
    /\ form'.attempt = form.attempt /\ form'.wrote = form.wrote /\ form'.activation = form.activation

LoadsOK == \A l \in loads : l \in [alias : Parameters, since : Nat] /\ l.since \in 1..Newest(l.alias)

\* Rows may change in any phase but while shipping.
LEMMA RowsChange ==
    ASSUME ServerInv, JobInv, PreviewInv, PhaseInv, AwaitInv, Idle, SameButRows, LoadsOK',
           UNCHANGED <<dry, check, jobs>>, form.phase = "shipping" => form'.rows = form.rows
    PROVE  PreviewInv' /\ PhaseInv' /\ AwaitInv'
<1>1. /\ \A a \in Contract : Newest(a)' = Newest(a)
      /\ releases' = releases /\ history' = history /\ store' = store /\ attempts' = attempts
  BY IdleServer DEF Idle, serverVars
<1>2. \A a \in Contract : ChangeType(a)' = ChangeType(a)
  BY <1>1 DEF ChangeType
<1>3. PreviewInv'
  <2>1. ChangesOK(form.key)' <=> ChangesOK(form.key)
    BY <1>2 DEF SameButRows, ChangesOK
  <2>2. PreviewOK(form.key, form.preview)' <=> PreviewOK(form.key, form.preview)
    BY <1>1 DEF SameButRows, PreviewOK
  <2>3. Freeze(form.key, form.preview)' = Freeze(form.key, form.preview)
    BY DEF SameButRows, Freeze
  <2>4. ChangesOK(dry.changes)' <=> ChangesOK(dry.changes)
    BY <1>2 DEF ChangesOK
  <2>5. PreviewOK(dry.changes, dry.preview)' <=> PreviewOK(dry.changes, dry.preview)
    BY <1>1 DEF PreviewOK
  <2> QED BY <2>1, <2>2, <2>3, <2>4, <2>5 DEF PreviewInv, SameButRows, Composing
<1>4. PhaseInv'
  BY <1>1 DEF PhaseInv, LoadsOK, SameButRows, TookPlace, Quiet, Unreleased
<1>5. AwaitInv'
  BY <1>1 DEF AwaitInv, SameButRows, RowsParse
<1> QED BY <1>3, <1>4, <1>5

\* A form that starts over has no preview, and none is under way.
LEMMA StartsOver ==
    ASSUME dry' = NoCall, form'.loading = FALSE, form'.preview = NoPreview, form'.key = <<>>
    PROVE  PreviewInv'
<1>1. dry' \in Dry /\ dry'.stage = "none" /\ form'.preview.valid = FALSE
  BY DEF Dry, NoCall, NoPreview
<1> QED BY <1>1 DEF PreviewInv

\* resetFor leaves an empty form.
LEMMA FreshForm ==
    ASSUME NEW o \in SUBSET Contract
    PROVE  /\ Fresh(o) \in Form /\ [Fresh(o) EXCEPT !.open = FALSE] \in Form
           /\ Fresh(o).rows = [a \in Contract |-> Absent]
<1>1. [a \in Contract |-> Absent] \in [Contract -> RowSet] /\ NoActivation \in Activation
  BY DEF RowSet, Activation
<1> QED BY <1>1, Zenon DEF Fresh, Form, Phases

\* Empty rows are rows.
LEMMA NoRows ==
    ASSUME form'.rows = [a \in Contract |-> Absent]
    PROVE  RowsInv'
<1>1. \A a \in Contract : Absent \in RowType(a)'
  BY DEF RowType
<1> QED BY <1>1 DEF RowsInv, Absent

\* While the dialog is not composing no dry run is under way.
LEMMA NoDryRun ==
    ASSUME PreviewInv, PhaseInv, form \in Form, ~form.open \/ form.phase # "compose"
    PROVE  dry = NoCall /\ form.loading = FALSE
<1>1. form.loading \in BOOLEAN
  BY DEF Form
<1> QED BY <1>1 DEF PreviewInv, Composing

FormInv == form \in Form /\ RowsInv /\ PreviewInv /\ PhaseInv /\ AwaitInv

\* Opening and closing the dialog: what was under way is dropped.
LEMMA OpenClose ==
    ASSUME IInv, Open \/ Close
    PROVE  FormInv' /\ Idle /\ jobs' = jobs
<1> USE DEF IInv
<1>1. Idle /\ jobs' = jobs
  BY DEF Open, Close, Idle, ServerInv
<1>2. PICK o \in SUBSET Contract : form' \in {Fresh(o), [Fresh(o) EXCEPT !.open = FALSE]}
  BY DEF Open, Close, Drift
<1>3. form' \in Form /\ form'.rows = [a \in Contract |-> Absent]
  <2>1. [Fresh(o) EXCEPT !.open = FALSE].rows = Fresh(o).rows
    BY DEF Fresh
  <2> QED BY <1>2, <2>1, FreshForm, Zenon
<1>4. /\ form'.loading = FALSE /\ form'.preview = NoPreview /\ form'.key = <<>> /\ form'.phase = "compose"
      /\ form'.attempt = 0
  BY <1>2 DEF Fresh
<1>5. dry' = NoCall /\ check' = NoCall /\ loads' \in {loads, {}}
  <2>1. CASE Open
    <3>1. dry = NoCall /\ check = NoCall
      BY <2>1, NoDryRun, Zenon DEF Open, PhaseInv
    <3> QED BY <2>1, <3>1 DEF Open
  <2>2. CASE Close
    BY <2>2 DEF Close
  <2> QED BY <2>1, <2>2
<1>6. PhaseInv'
  <2>1. LoadsOK'
    BY <1>1, <1>5, IdleServer DEF LoadsOK, PhaseInv, Contract
  <2>2. form'.attempt <= attempts'
    BY <1>1, <1>4, Stored DEF Idle
  <2> QED BY <1>4, <1>5, <2>1, <2>2 DEF PhaseInv, LoadsOK
<1>7. AwaitInv'
  BY <1>4 DEF AwaitInv
<1> QED BY <1>1, <1>3, <1>4, <1>5, <1>6, <1>7, NoRows, StartsOver, Zenon DEF FormInv

\* The loads of a form that reads one more alias.
LEMMA LoadsStay ==
    ASSUME ServerInv, JobInv, PhaseInv, Idle,
           \A l \in loads' : l \in loads \/ \E a \in Parameters : l = [alias |-> a, since |-> Newest(a)]
    PROVE  LoadsOK'
<1>1. \A a \in Contract : Newest(a)' = Newest(a) /\ Newest(a) \in Nat /\ Newest(a) >= 1
  BY IdleServer, Stored, Zenon DEF ServerInv
<1>2. \A a \in Parameters : a \in Contract
  BY DEF Contract
<1>3. ASSUME NEW a \in Parameters, NEW l, l = [alias |-> a, since |-> Newest(a)]
      PROVE  l \in [alias : Parameters, since : Nat] /\ l.since \in 1..Newest(l.alias)'
  BY <1>1, <1>2, <1>3
<1>4. ASSUME NEW l \in loads
      PROVE  l \in [alias : Parameters, since : Nat] /\ l.since \in 1..Newest(l.alias)'
  BY <1>1, <1>2 DEF PhaseInv
<1> QED BY <1>3, <1>4 DEF LoadsOK

\* One row of the form changes.
LEMMA RowChanges ==
    ASSUME IInv, Idle, NEW a \in Contract, NEW w \in RowType(a), NEW o \in SUBSET Contract,
           form' = [form EXCEPT !.rows[a] = w, !.optIns = o],
           w.kind = "row" => w.reuse = 0, form.phase # "shipping",
           UNCHANGED <<dry, check, jobs>>, LoadsOK'
    PROVE  FormInv'
<1> USE DEF IInv
<1>1. w \in RowSet
  BY RowKinds
<1>2. form.rows \in [Contract -> RowSet]
  BY DEF Form
<1>3. form' \in Form /\ SameButRows
  BY <1>1, <1>2, Zenon DEF Form, SameButRows
<1>4. form'.rows = [form.rows EXCEPT ![a] = w]
  BY <1>2 DEF Form
<1>5. \A b \in Contract : form'.rows[b] = IF b = a THEN w ELSE form.rows[b]
  BY <1>2, <1>4
<1>6. RowsInv'
  <2>1. \A b \in Contract : Newest(b)' = Newest(b) /\ store' = store
    BY IdleServer DEF Idle, serverVars
  <2>2. \A b \in Contract : RowType(b)' = RowType(b)
    BY <2>1 DEF RowType
  <2> QED BY <1>5, <2>1, <2>2 DEF RowsInv
<1> QED BY <1>3, <1>6, RowsChange DEF FormInv

\* Adding, removing and editing rows, and ticking aliases.
LEMMA RowSteps ==
    ASSUME IInv,
           \/ \E a \in Parameters : AddRow(a) \/ RemoveRow(a) \/ \E x \in {"old", "mine"} : EditRow(a, x)
           \/ \E a \in Contract : ToggleOptIn(a)
    PROVE  FormInv' /\ Idle /\ jobs' = jobs
<1> USE DEF IInv
<1>0. /\ \A a \in Parameters : a \in Contract /\ a \notin Secrets
      /\ \A a \in Contract : form.rows[a] \in RowType(a)
      /\ form.optIns \in SUBSET Contract
  BY ShipConstants DEF Contract, RowsInv, Form
<1>1. CASE \E a \in Parameters : AddRow(a)
  <2>1. PICK a \in Parameters : AddRow(a)
    BY <1>1
  <2>2. Idle /\ UNCHANGED <<dry, check, jobs>> /\ form.phase # "shipping"
    BY <2>1 DEF AddRow, Idle, ServerInv, Composing
  <2>3. form' = [form EXCEPT !.rows[a] = Loading, !.optIns = form.optIns \ {a}]
        /\ form.optIns \ {a} \in SUBSET Contract
        /\ loads' = loads \cup {[alias |-> a, since |-> Newest(a)]}
    BY <1>0, <2>1, Zenon DEF AddRow, WithRow
  <2>4. LoadsOK'
    BY <2>2, <2>3, LoadsStay
  <2>5. Loading \in RowType(a) /\ Loading.kind # "row"
    BY <1>0 DEF RowType, Loading
  <2> QED BY <1>0, <2>2, <2>3, <2>4, <2>5, RowChanges, Zenon
<1>2. CASE \E a \in Parameters : RemoveRow(a)
  <2>1. PICK a \in Parameters : RemoveRow(a)
    BY <1>2
  <2>2. Idle /\ UNCHANGED <<dry, check, jobs, loads>> /\ form.phase # "shipping"
    BY <2>1 DEF RemoveRow, Idle, ServerInv, Composing
  <2>3. form' = [form EXCEPT !.rows[a] = Absent, !.optIns = form.optIns]
    BY <2>1, Zenon DEF RemoveRow, Form
  <2>4. LoadsOK'
    BY <2>2, LoadsStay
  <2>5. Absent \in RowType(a) /\ Absent.kind # "row"
    BY <1>0 DEF RowType, Absent
  <2> QED BY <1>0, <2>2, <2>3, <2>4, <2>5, RowChanges, Zenon
<1>3. CASE \E a \in Parameters : \E x \in {"old", "mine"} : EditRow(a, x)
  <2>1. PICK a \in Parameters, x \in {"old", "mine"} : EditRow(a, x)
    BY <1>3
  <2>2. Idle /\ UNCHANGED <<dry, check, jobs, loads>> /\ form.phase # "shipping"
    BY <2>1 DEF EditRow, Idle, ServerInv, Composing
  <2>3. form' = [form EXCEPT !.rows[a] = Row(x, 0), !.optIns = form.optIns]
    BY <2>1, Zenon DEF EditRow, Form
  <2>4. LoadsOK'
    BY <2>2, LoadsStay
  <2>5. Row(x, 0) \in RowType(a) /\ Row(x, 0).reuse = 0
    <3>1. 0 \in 0..Newest(a) /\ x \in Values
      BY <1>0, Stored DEF Values
    <3> QED BY <1>0, <3>1 DEF RowType, Row
  <2> QED BY <1>0, <2>2, <2>3, <2>4, <2>5, RowChanges, Zenon
<1>4. CASE \E a \in Contract : ToggleOptIn(a)
  <2>1. PICK a \in Contract : ToggleOptIn(a)
    BY <1>4
  <2>2. Idle /\ UNCHANGED <<dry, check, jobs, loads>> /\ form.phase # "shipping" /\ form.rows[a] = Absent
    BY <2>1 DEF ToggleOptIn, Idle, ServerInv, Composing
  <2>3. PICK o \in SUBSET Contract : form' = [form EXCEPT !.optIns = o]
    BY <1>0, <2>1, Zenon DEF ToggleOptIn
  <2>4. form' = [form EXCEPT !.rows[a] = Absent, !.optIns = o]
    <3>1. form.rows \in [Contract -> RowSet]
      BY DEF Form
    <3>2. [form.rows EXCEPT ![a] = Absent] = form.rows
      BY <2>2, <3>1
    <3> QED BY <2>3, <3>2, Zenon DEF Form
  <2>5. LoadsOK'
    BY <2>2, LoadsStay
  <2>6. Absent \in RowType(a) /\ Absent.kind # "row"
    BY DEF RowType, Absent
  <2> QED BY <2>2, <2>4, <2>5, <2>6, RowChanges, Zenon
<1> QED BY <1>1, <1>2, <1>3, <1>4

\* A read for a row is answered.
LEMMA Prefills ==
    ASSUME IInv, NEW l \in loads, PrefillArrives(l)
    PROVE  FormInv' /\ Idle /\ jobs' = jobs
<1> USE DEF IInv
<1>1. Idle /\ UNCHANGED <<dry, check, jobs>>
  <2>1. disturbed' \in 0..MaxDisturbed
    BY ShipConstants DEF PrefillArrives, Disturb, ServerInv
  <2> QED BY <2>1 DEF PrefillArrives, Idle
<1>2. l.alias \in Parameters /\ l.alias \in Contract /\ l.alias \notin Secrets /\ l.since \in 1..Newest(l.alias)
      /\ Newest(l.alias) \in Nat
  BY ShipConstants, Stored, Zenon DEF PhaseInv, Contract
<1>3. LoadsOK'
  BY <1>1, LoadsStay DEF PrefillArrives
<1>4. CASE form.rows[l.alias] # Loading
  <2>1. form' = form
    BY <1>4 DEF PrefillArrives
  <2>2. RowsInv'
    BY <1>1, <2>1, IdleServer, RowsStay
  <2> QED BY <1>1, <1>3, <2>1, <2>2, RowsChange DEF FormInv, SameButRows
<1>5. CASE form.rows[l.alias] = Loading
  <2>1. form.phase # "shipping"
    BY <1>2, <1>5 DEF AwaitInv, RowsParse, Loading
  <2>2. PICK w : form' = [form EXCEPT !.rows[l.alias] = w]
                 /\ (w = LoadError \/ \E v \in l.since..Newest(l.alias) : w = Row(store[l.alias][v].value, 0))
    BY <1>5 DEF PrefillArrives
  <2>3. w \in RowType(l.alias) /\ (w.kind = "row" => w.reuse = 0)
    <3>1. CASE w = LoadError
      BY <1>2, <3>1 DEF RowType, LoadError
    <3>2. CASE \E v \in l.since..Newest(l.alias) : w = Row(store[l.alias][v].value, 0)
      <4>1. PICK v \in l.since..Newest(l.alias) : w = Row(store[l.alias][v].value, 0)
        BY <3>2
      <4>2. v \in 1..Newest(l.alias) /\ 0 \in 0..Newest(l.alias)
        BY <1>2
      <4>3. store[l.alias][v].value \in Values
        BY <1>2, <4>2, Stored
      <4> QED BY <1>2, <4>1, <4>2, <4>3 DEF RowType, Row
    <3> QED BY <2>2, <3>1, <3>2
  <2>4. form' = [form EXCEPT !.rows[l.alias] = w, !.optIns = form.optIns] /\ form.optIns \in SUBSET Contract
    BY <2>2, Zenon DEF Form
  <2> QED BY <1>1, <1>2, <1>3, <2>1, <2>3, <2>4, RowChanges, Zenon
<1> QED BY <1>4, <1>5

\* A step of the preview alone.
LEMMA PreviewOnly ==
    ASSUME IInv, Idle, UNCHANGED <<jobs, loads, check>>,
           form'.open = form.open, form'.phase = form.phase, form'.rows = form.rows, form'.attempt = form.attempt,
           form'.wrote = form.wrote, form'.activation = form.activation
    PROVE  RowsInv' /\ PhaseInv' /\ AwaitInv'
<1> USE DEF IInv
<1>1. /\ \A a \in Contract : Newest(a)' = Newest(a)
      /\ releases' = releases /\ history' = history /\ store' = store /\ attempts' = attempts
  BY IdleServer DEF Idle, serverVars
<1>2. RowsInv'
  <2>1. \A a \in Contract : RowType(a)' = RowType(a)
    BY <1>1 DEF RowType
  <2> QED BY <1>1, <2>1 DEF RowsInv
<1>3. PhaseInv'
  BY <1>1 DEF PhaseInv, TookPlace, Quiet, Unreleased, Contract
<1>4. AwaitInv'
  <2>1. RowsParse' <=> RowsParse
    BY DEF RowsParse
  <2> QED BY <1>1, <2>1 DEF AwaitInv
<1> QED BY <1>2, <1>3, <1>4

\* The changes the form builds name what is stored.
LEMMA ChangesBuilt ==
    ASSUME ServerInv, form \in Form, RowsInv
    PROVE  ChangesOK(Changes) /\ Changes # <<>>
<1>1. ASSUME NEW a \in Contract PROVE Changes[a] \in ChangeType(a) /\ Changes[a] \in Change
  <2>1. /\ form.rows[a] \in RowType(a) /\ Newest(a) \in Nat
    BY Stored DEF RowsInv
  <2>2. CASE form.rows[a].kind = "row" /\ form.rows[a].reuse # 0
    <3>1. form.rows[a].reuse \in 1..Newest(a) /\ form.rows[a].reuse \in Nat
      BY <2>1, <2>2, RowKinds
    <3>2. Changes[a] = Pin(form.rows[a].reuse)
      BY <2>2 DEF Changes
    <3> QED BY <3>1, <3>2 DEF ChangeType, Change
  <2>3. CASE form.rows[a].kind = "row" /\ form.rows[a].reuse = 0
    <3>1. form.rows[a].value \in Values
      BY <2>1, <2>3, RowKinds
    <3>2. Changes[a] = Edit(form.rows[a].value)
      BY <2>3 DEF Changes
    <3> QED BY <3>1, <3>2 DEF ChangeType, Change
  <2>4. CASE form.rows[a].kind # "row"
    BY <2>4 DEF Changes, ChangeType, Change
  <2> QED BY <2>2, <2>3, <2>4
<1>2. Changes \in [Contract -> Change]
  BY <1>1 DEF Changes
<1>3. Changes # <<>>
  <2>1. DOMAIN Changes = Contract
    BY DEF Changes
  <2>2. Contract # {} /\ DOMAIN <<>> = {}
    BY ShipConstants DEF Contract
  <2> QED BY <2>1, <2>2
<1> QED BY <1>1, <1>2, <1>3 DEF ChangesOK

\* runPreview sends the form's changes and waits.
LEMMA Previews ==
    ASSUME IInv, RunPreview
    PROVE  FormInv' /\ Idle /\ jobs' = jobs
<1> USE DEF IInv
<1>1. Idle /\ UNCHANGED <<jobs, loads, check>> /\ Composing
  BY DEF RunPreview, Idle, ServerInv
<1>2. ChangesOK(Changes)
  BY ChangesBuilt
<1>3. PICK ch : ch = Changes
  OBVIOUS
<1>4. /\ form' = [form EXCEPT !.key = ch, !.loading = TRUE, !.preview = NoPreview, !.frozen = <<>>]
      /\ dry' = [stage |-> "sent", changes |-> ch]
  BY <1>3 DEF RunPreview
<1>5. form' \in Form
  BY <1>2, <1>3, <1>4, Zenon DEF Form, ChangesOK
<1>6. RowsInv' /\ PhaseInv' /\ AwaitInv'
  BY <1>1, <1>4, PreviewOnly DEF Form
<1>7. PreviewInv'
  <2>1. dry' \in Dry /\ dry' # NoCall /\ dry'.stage = "sent" /\ dry'.changes = ch
    BY <1>2, <1>3, <1>4 DEF Dry, ChangesOK, NoCall
  <2>2. form'.loading = TRUE /\ form'.key = ch /\ form'.preview = NoPreview /\ Composing'
    BY <1>1, <1>4 DEF Form, Composing
  <2>3. ChangesOK(ch)'
    BY <1>1, <1>2, <1>3, IdleServer, ChangesStay
  <2>4. form'.preview.valid = FALSE
    BY <2>2 DEF NoPreview
  <2>5. ChangesOK(dry.changes)'
    BY <2>1, <2>3 DEF ChangesOK
  <2> QED BY <2>1, <2>2, <2>4, <2>5 DEF PreviewInv
<1> QED BY <1>1, <1>5, <1>6, <1>7 DEF FormInv

\* What a dry run plans: a label pins the current version, and what is kept
\* what the base pins.
LEMMA Plans ==
    ASSUME ServerInv, NEW ch, ChangesOK(ch), NEW base \in 0..Len(releases)
    PROVE  /\ Planned(ch, base) \in [Contract -> Nat]
           /\ \A a \in Contract :
                 /\ ch[a] = Current \/ (ch[a] = Keep /\ base = 0) => Planned(ch, base)[a] = Newest(a)
                 /\ ch[a] = Keep /\ base # 0 => Planned(ch, base)[a] = releases[base].pins[a]
<1>0. \A a \in Contract : Planned(ch, base)[a] =
         CASE ch[a].kind = "value" -> Newest(a) + 1
           [] ch[a].kind = "version" -> ch[a].version
           [] ch[a] = Keep /\ base # 0 -> releases[base].pins[a]
           [] OTHER -> Newest(a)
  BY DEF Planned
<1>1. ASSUME NEW a \in Contract
      PROVE  /\ Planned(ch, base)[a] \in Nat
             /\ ch[a] = Current \/ (ch[a] = Keep /\ base = 0) => Planned(ch, base)[a] = Newest(a)
             /\ ch[a] = Keep /\ base # 0 => Planned(ch, base)[a] = releases[base].pins[a]
  <2>1. ch[a] \in ChangeType(a) /\ Newest(a) \in Nat /\ Len(releases) \in Nat
    BY Stored DEF ChangesOK
  <2>2. base # 0 => base \in 1..Len(releases)
    BY <2>1
  <2>3. base # 0 => releases[base].pins[a] \in Nat
    BY <2>2, Stored
  <2>4. CASE ch[a].kind = "value"
    <3>1. ch[a] # Current /\ ch[a] # Keep /\ ch[a].kind # "version"
      BY <2>4 DEF Current, Keep
    <3> QED BY <1>0, <2>1, <2>4, <3>1
  <2>5. CASE ch[a].kind = "version"
    <3>1. ch[a] # Current /\ ch[a] # Keep /\ ch[a].kind # "value" /\ ch[a].version \in Nat
      BY <2>1, <2>5, ChangeKinds DEF Current, Keep
    <3> QED BY <1>0, <2>1, <2>5, <3>1
  <2>6. CASE ch[a] = Keep
    <3>1. ch[a].kind # "version" /\ ch[a].kind # "value" /\ ch[a] # Current
      BY <2>6 DEF Keep, Current
    <3> QED BY <1>0, <2>1, <2>3, <2>6, <3>1
  <2>7. CASE ch[a] = Current
    <3>1. ch[a].kind # "version" /\ ch[a].kind # "value" /\ ch[a] # Keep
      BY <2>7 DEF Keep, Current
    <3> QED BY <1>0, <2>1, <2>7, <3>1
  <2> QED BY <2>1, <2>4, <2>5, <2>6, <2>7, ChangeKinds
<1>2. DOMAIN Planned(ch, base) = Contract /\ Planned(ch, base) = [a \in Contract |-> Planned(ch, base)[a]]
  BY DEF Planned
<1>3. Planned(ch, base) \in [Contract -> Nat]
  BY <1>1, <1>2
<1> QED BY <1>1, <1>3

\* The server answers a dry run.
LEMMA DryRuns ==
    ASSUME IInv, DryRunServed
    PROVE  FormInv' /\ Idle /\ jobs' = jobs
<1> USE DEF IInv
<1>1. Idle /\ UNCHANGED <<jobs, loads, check>> /\ form' = form /\ dry.stage = "sent"
  BY DEF DryRunServed, Idle, ServerInv
<1>2. RowsInv' /\ PhaseInv' /\ AwaitInv'
  BY <1>1, PreviewOnly
<1>3. PICK ch : ch = dry.changes
  OBVIOUS
<1>4. ChangesOK(ch) /\ ch = form.key /\ dry # NoCall /\ form.loading
  BY <1>1, <1>3 DEF PreviewInv, NoCall
<1>5. PICK p : p = [valid |-> fit, base |-> Active, pins |-> Planned(ch, Active)]
  BY Zenon
<1>6. p \in Preview /\ PreviewOK(ch, p)
  <2>1. Active \in 0..Len(releases) /\ Len(releases) \in Nat /\ Active \in Nat
    BY ActiveType, Stored
  <2>2. PICK b \in 0..Len(releases) : b = Active
    BY <2>1
  <2>3. Planned(ch, b) \in [Contract -> Nat]
    BY <1>4, Plans
  <2>4. p \in Preview /\ p.base = b /\ p.pins = Planned(ch, b)
    BY <1>5, <2>1, <2>2, <2>3 DEF Preview, ServerInv
  <2>5. ASSUME NEW a \in Contract PROVE Newest(a) \in 1..Newest(a)
    <3>1. Newest(a) \in Nat /\ Newest(a) >= 1
      BY Stored, Zenon DEF ServerInv
    <3> QED BY <3>1
  <2> QED BY <1>4, <2>4, <2>5, Plans DEF PreviewOK
<1>7. dry' \in {[stage |-> "answered", changes |-> ch, preview |-> p], [stage |-> "refused"]}
  BY <1>3, <1>5 DEF DryRunServed
<1>8. ChangesOK(ch)' /\ PreviewOK(ch, p)'
  BY <1>1, <1>4, <1>6, IdleServer, ChangesStay, PreviewStays
<1>9. /\ dry' \in Dry /\ dry' # NoCall /\ dry'.stage # "sent"
      /\ dry'.stage = "answered" => dry'.changes = ch /\ dry'.preview = p
  <2>1. ch \in [Contract -> Change] /\ p \in Preview
    BY <1>4, <1>6 DEF ChangesOK
  <2>2. CASE dry' = [stage |-> "answered", changes |-> ch, preview |-> p]
    BY <2>1, <2>2 DEF Dry, NoCall
  <2>3. CASE dry' = [stage |-> "refused"]
    BY <2>3 DEF Dry, NoCall
  <2> QED BY <1>7, <2>2, <2>3
<1>10. dry'.stage = "answered" => ChangesOK(dry.changes)' /\ PreviewOK(dry.changes, dry.preview)'
  BY <1>8, <1>9 DEF ChangesOK, PreviewOK
<1>11. form.preview.valid =>
          ChangesOK(form.key)' /\ PreviewOK(form.key, form.preview)' /\ form.frozen = Freeze(form.key, form.preview)
  <2>1. form.preview.valid => PreviewOK(ch, form.preview) /\ form.frozen = Freeze(form.key, form.preview)
    BY <1>4 DEF PreviewInv
  <2>2. PICK q : q = form.preview
    OBVIOUS
  <2>3. form.preview.valid => PreviewOK(ch, q)'
    BY <1>1, <2>1, <2>2, IdleServer, PreviewStays
  <2> QED BY <1>1, <1>4, <1>8, <2>1, <2>2, <2>3 DEF ChangesOK, PreviewOK
<1>12. PreviewInv'
  <2>1. Freeze(form.key, form.preview)' = Freeze(form.key, form.preview)
    BY <1>1 DEF Freeze
  <2>2. form.loading => Composing'
    BY <1>1 DEF PreviewInv, Composing
  <2> QED BY <1>1, <1>4, <1>9, <1>10, <1>11, <2>1, <2>2 DEF PreviewInv
<1> QED BY <1>1, <1>2, <1>12 DEF FormInv

\* A frozen change set is a change set.
LEMMA Frozen ==
    ASSUME NEW ch \in [Contract -> Change], NEW p \in Preview
    PROVE  Freeze(ch, p) \in [Contract -> Change]
<1>1. ASSUME NEW a \in Contract PROVE Pin(p.pins[a]) \in Change
  BY DEF Preview, Change
<1> QED BY <1>1 DEF Freeze

\* The answer to the dry run under way, or its failure, ends the waiting.
LEMMA PreviewEnds ==
    ASSUME IInv, PreviewArrives \/ PreviewFails
    PROVE  FormInv' /\ Idle /\ jobs' = jobs
<1> USE DEF IInv
<1>1. Idle /\ UNCHANGED <<jobs, loads, check>> /\ dry' = NoCall
  <2>1. disturbed' \in 0..MaxDisturbed
    BY ShipConstants DEF PreviewArrives, PreviewFails, Disturb, ServerInv
  <2> QED BY <2>1 DEF PreviewArrives, PreviewFails, Idle
<1>2. CASE PreviewFails
  <2>1. form' = [form EXCEPT !.preview = FailedPreview, !.loading = FALSE]
    BY <1>2 DEF PreviewFails
  <2>2. form' \in Form
    BY <2>1, Zenon DEF Form
  <2>3. RowsInv' /\ PhaseInv' /\ AwaitInv'
    BY <1>1, <2>1, PreviewOnly DEF Form
  <2>4. /\ form'.preview = FailedPreview /\ form'.loading = FALSE /\ dry'.stage = "none" /\ dry' \in Dry
        /\ FailedPreview.valid = FALSE /\ FailedPreview # NoPreview
    <3>1. DOMAIN FailedPreview # DOMAIN NoPreview
      BY DEF FailedPreview, NoPreview
    <3>2. FailedPreview # NoPreview
      BY <3>1
    <3> QED BY <1>1, <2>1, <3>2 DEF Form, NoCall, Dry, FailedPreview
  <2>5. PreviewInv'
    BY <1>1, <2>4 DEF PreviewInv
  <2> QED BY <1>1, <2>2, <2>3, <2>5 DEF FormInv
<1>3. CASE PreviewArrives
  <2>1. PICK ch, p : ch = dry.changes /\ p = dry.preview
    OBVIOUS
  <2>2. dry.stage = "answered" /\ ChangesOK(ch) /\ PreviewOK(ch, p) /\ ch = form.key /\ p \in Preview
        /\ ch \in [Contract -> Change]
    BY <1>3, <2>1 DEF PreviewArrives, PreviewInv, Dry, NoCall, ChangesOK
  <2>3. form' = [form EXCEPT !.preview = p, !.loading = FALSE,
                             !.frozen = IF p.valid THEN Freeze(ch, p) ELSE ch]
    BY <1>3, <2>1 DEF PreviewArrives
  <2>4. form' \in Form
    BY <2>2, <2>3, Frozen, Zenon DEF Form
  <2>5. RowsInv' /\ PhaseInv' /\ AwaitInv'
    BY <1>1, <2>3, PreviewOnly DEF Form
  <2>6. /\ form'.preview = p /\ form'.loading = FALSE /\ form'.key = ch
        /\ p.valid => form'.frozen = Freeze(ch, p)
    BY <2>2, <2>3 DEF Form
  <2>7. p # NoPreview
    <3>1. DOMAIN p # DOMAIN NoPreview
      BY <2>2 DEF Preview, NoPreview
    <3> QED BY <3>1
  <2>8. ChangesOK(ch)' /\ PreviewOK(ch, p)'
    BY <1>1, <2>2, IdleServer, ChangesStay, PreviewStays
  <2>9. ChangesOK(form.key)' /\ PreviewOK(form.key, form.preview)'
    BY <2>6, <2>8 DEF ChangesOK, PreviewOK
  <2>10. p.valid => form'.frozen = Freeze(form.key, form.preview)'
    BY <2>6 DEF Freeze
  <2>11. dry' \in Dry /\ dry'.stage = "none"
    BY <1>1 DEF Dry, NoCall
  <2>12. PreviewInv'
    BY <1>1, <2>6, <2>7, <2>9, <2>10, <2>11 DEF PreviewInv
  <2> QED BY <1>1, <2>4, <2>5, <2>12 DEF FormInv
<1> QED BY <1>2, <1>3

-----------------------------------------------------------------------------
(* The outcomes of an attempt.                                             *)

\* The form is left for a rollout or an unknown outcome.
LEMMA Leaves ==
    ASSUME IInv, Idle, NEW x \in Activation, NEW ph \in {"rollout", "uncertain"}, form' = Left(ph, x),
           form.phase # "compose", UNCHANGED <<loads, dry>>, check' = NoCall,
           ph = "rollout" => TookPlace(form.attempt, x)
    PROVE  FormInv'
<1> USE DEF IInv
<1>1. dry' = NoCall
  BY NoDryRun
<1>2. /\ form' = [Fresh({}) EXCEPT !.phase = ph, !.attempt = form.attempt, !.activation = x]
      /\ Fresh({}) \in Form /\ Fresh({}).rows = [a \in Contract |-> Absent]
  BY FreshForm, Zenon DEF Left
<1>3. /\ form'.rows = [a \in Contract |-> Absent] /\ form'.loading = FALSE /\ form'.preview = NoPreview
      /\ form'.key = <<>> /\ form'.phase = ph /\ form'.attempt = form.attempt /\ form'.activation = x
      /\ form'.open = TRUE
  BY <1>2 DEF Fresh
<1>4. form' \in Form
  BY <1>2, Zenon DEF Form, Phases
<1>5. /\ \A a \in Contract : Newest(a)' = Newest(a)
      /\ releases' = releases /\ history' = history /\ store' = store /\ attempts' = attempts
  BY IdleServer DEF Idle, serverVars
<1>6. PhaseInv'
  <2>1. LoadsOK'
    BY LoadsStay
  <2>2. ph = "rollout" => TookPlace(form.attempt, form.activation)'
    BY <1>3, <1>5 DEF TookPlace
  <2> QED BY <1>3, <1>5, <2>1, <2>2 DEF PhaseInv, LoadsOK
<1>7. AwaitInv'
  BY <1>3 DEF AwaitInv
<1> QED BY <1>1, <1>3, <1>4, <1>6, <1>7, StartsOver, NoRows, Zenon DEF FormInv

\* The answer to a request is lost.
LEMMA Loses ==
    ASSUME IInv, ShipLost
    PROVE  FormInv' /\ Idle /\ jobs' = jobs
<1> USE DEF IInv
<1>1. Idle /\ UNCHANGED <<jobs, loads, dry, check>> /\ form.phase = "shipping"
  <2>1. disturbed' \in 0..MaxDisturbed
    BY ShipConstants DEF ShipLost, Disturb, ServerInv
  <2> QED BY <2>1 DEF ShipLost, Idle
<1>2. form' = Left("uncertain", NoActivation) /\ NoActivation \in Activation
  BY DEF ShipLost, Activation
<1>3. check' = NoCall
  BY <1>1 DEF PhaseInv
<1> QED BY <1>1, <1>2, <1>3, Leaves

\* backToCompose drops the preview.
LEMMA Recomposes ==
    ASSUME IInv, Idle, form.phase \in {"rejected", "created", "conflict"}, UNCHANGED <<dry, check>>,
           form' \in Form, RowsInv', LoadsOK', form'.phase = "compose", form'.preview = NoPreview,
           form'.key = <<>>, form'.loading = form.loading, form'.attempt = form.attempt
    PROVE  FormInv'
<1> USE DEF IInv
<1>1. dry' = NoCall /\ form'.loading = FALSE /\ check' = NoCall
  BY NoDryRun, Zenon DEF PhaseInv
<1>2. PhaseInv'
  BY <1>1 DEF PhaseInv, LoadsOK, Idle
<1>3. AwaitInv'
  BY DEF AwaitInv
<1> QED BY <1>1, <1>2, <1>3, StartsOver, Zenon DEF FormInv

\* Edit changes, Fix and retry, or the conflict's re-preview.
LEMMA GoesBack ==
    ASSUME IInv, BackToCompose
    PROVE  FormInv' /\ Idle /\ jobs' = jobs
<1> USE DEF IInv
<1>1. Idle /\ UNCHANGED <<jobs, loads, dry, check>> /\ form.phase \in {"rejected", "created", "conflict"}
  BY DEF BackToCompose, Idle, ServerInv
<1>2. form' = [form EXCEPT !.phase = "compose", !.preview = NoPreview, !.key = <<>>, !.frozen = <<>>]
  BY DEF BackToCompose, Recomposed
<1>3. form' \in Form
  BY <1>2, Zenon DEF Form, Phases
<1>4. /\ form'.phase = "compose" /\ form'.preview = NoPreview /\ form'.key = <<>>
      /\ form'.loading = form.loading /\ form'.attempt = form.attempt /\ form'.rows = form.rows
  BY <1>2 DEF Form
<1>5. RowsInv'
  <2>1. \A a \in Contract : RowType(a)' = RowType(a)
    BY <1>1, IdleServer DEF RowType
  <2> QED BY <1>1, <1>4, <2>1 DEF RowsInv, Idle, serverVars
<1>6. LoadsOK'
  BY <1>1, LoadsStay
<1> QED BY <1>1, <1>3, <1>4, <1>5, <1>6, Recomposes

\* editAlias: back, with a row for the alias of a violation.
LEMMA EditsAlias ==
    ASSUME IInv, NEW a \in Parameters, EditAlias(a)
    PROVE  FormInv' /\ Idle /\ jobs' = jobs
<1> USE DEF IInv
<1>1. Idle /\ UNCHANGED <<jobs, dry, check>> /\ form.phase \in {"rejected", "created"}
      /\ a \in Contract /\ a \notin Secrets
  BY ShipConstants DEF EditAlias, Idle, ServerInv, Contract
<1>2. /\ form' = [Recomposed EXCEPT !.rows[a] = Loading, !.optIns = @ \ {a}]
      /\ loads' = loads \cup {[alias |-> a, since |-> Newest(a)]}
  BY DEF EditAlias, WithRow
<1>3. Recomposed \in Form /\ Recomposed.rows = form.rows /\ Recomposed.optIns = form.optIns
      /\ Recomposed.phase = "compose" /\ Recomposed.preview = NoPreview /\ Recomposed.key = <<>>
      /\ Recomposed.loading = form.loading /\ Recomposed.attempt = form.attempt
  BY Zenon DEF Recomposed, Form, Phases
<1>4. /\ form'.phase = "compose" /\ form'.preview = NoPreview /\ form'.key = <<>>
      /\ form'.loading = form.loading /\ form'.attempt = form.attempt
      /\ form'.rows = [form.rows EXCEPT ![a] = Loading]
  BY <1>2, <1>3 DEF Form
<1>5. form' \in Form
  <2>1. form.rows \in [Contract -> RowSet] /\ Loading \in RowSet /\ form.optIns \ {a} \in SUBSET Contract
    BY DEF Form, RowSet
  <2>2. [form.rows EXCEPT ![a] = Loading] \in [Contract -> RowSet]
    BY <2>1, Zenon
  <2> QED BY <1>2, <1>3, <2>1, <2>2, Zenon DEF Form
<1>6. RowsInv'
  <2>1. \A b \in Contract : RowType(b)' = RowType(b)
    BY <1>1, IdleServer DEF RowType
  <2>2. Loading \in RowType(a) /\ Loading.kind # "row"
    BY <1>1 DEF RowType, Loading
  <2>3. \A b \in Contract : form'.rows[b] = IF b = a THEN Loading ELSE form.rows[b]
    BY <1>4 DEF Form
  <2>4. store' = store
    BY <1>1 DEF Idle, serverVars
  <2> QED BY <2>1, <2>2, <2>3, <2>4 DEF RowsInv
<1>7. LoadsOK'
  BY <1>1, <1>2, LoadsStay
<1> QED BY <1>1, <1>4, <1>5, <1>6, <1>7, Recomposes

\* A check of an unknown outcome that leaves the dialog as it is.
LEMMA ChecksOnly ==
    ASSUME IInv, Idle, UNCHANGED <<form, dry, jobs, loads>>, form.phase = "uncertain",
           check' \in {NoCall} \cup [stage : {"sent"}, since : 0..Len(history)]
    PROVE  FormInv'
<1> USE DEF IInv
<1>1. /\ \A a \in Contract : Newest(a)' = Newest(a)
      /\ releases' = releases /\ history' = history /\ store' = store /\ attempts' = attempts
  BY IdleServer DEF Idle, serverVars
<1>2. \A a \in Contract : ChangeType(a)' = ChangeType(a)
  BY <1>1 DEF ChangeType
<1>3. PreviewInv'
  BY <1>1, <1>2 DEF PreviewInv, ChangesOK, PreviewOK, Composing, Freeze
<1>4. PhaseInv'
  <2>1. LoadsOK'
    BY LoadsStay
  <2> QED BY <1>1, <2>1 DEF PhaseInv, LoadsOK
<1>5. AwaitInv'
  BY DEF AwaitInv
<1>6. RowsInv'
  BY IdleServer, RowsStay
<1> QED BY <1>3, <1>4, <1>5, <1>6 DEF FormInv

\* checkAttempt takes for the attempt's only an activation that took place of a
\* release that names it.
LEMMA Checks ==
    ASSUME IInv, CheckAttempt \/ AttemptChecked
    PROVE  FormInv' /\ Idle /\ jobs' = jobs
<1> USE DEF IInv
<1>1. Idle /\ UNCHANGED <<jobs, loads, dry>>
  BY DEF CheckAttempt, AttemptChecked, Idle, ServerInv
<1>2. Len(history) \in Nat
  BY Stored
<1>3. CASE CheckAttempt
  <2>1. check' = [stage |-> "sent", since |-> Len(history)] /\ form' = form /\ form.phase = "uncertain"
    BY <1>3 DEF CheckAttempt
  <2>2. check' \in [stage : {"sent"}, since : 0..Len(history)]
    BY <1>2, <2>1
  <2> QED BY <1>1, <2>1, <2>2, ChecksOnly
<1>4. CASE AttemptChecked
  <2>1. check' = NoCall /\ check.stage = "sent"
    BY <1>4 DEF AttemptChecked
  <2>2. form.phase = "uncertain" /\ check.since \in 0..Len(history)
    BY <2>1 DEF PhaseInv, NoCall
  <2>3. PICK r \in check.since..Len(history) :
          form' = IF r # 0 /\ Tagged(history[r].version)
                  THEN Left("rollout", [version |-> history[r].version, revision |-> r,
                                       previous |-> history[r].previous])
                  ELSE form
    BY <1>4 DEF AttemptChecked
  <2>4. CASE ~(r # 0 /\ Tagged(history[r].version))
    BY <1>1, <2>1, <2>2, <2>3, <2>4, ChecksOnly
  <2>5. CASE r # 0 /\ Tagged(history[r].version)
    <3>1. r \in 1..Len(history) /\ r \in Nat
      BY <1>2, <2>2, <2>5
    <3>2. history[r].version \in 1..Len(releases) /\ history[r].previous \in 0..Len(releases) /\ Len(releases) \in Nat
      BY <3>1, Stored DEF ServerInv
    <3>3. PICK x : x = [version |-> history[r].version, revision |-> r, previous |-> history[r].previous]
      BY Zenon
    <3>4. x \in Activation
      BY <3>1, <3>2, <3>3 DEF Activation
    <3>5. TookPlace(form.attempt, x)
      BY <2>5, <3>1, <3>2, <3>3 DEF TookPlace, Tagged
    <3> QED BY <1>1, <2>1, <2>2, <2>3, <2>5, <3>3, <3>4, <3>5, Leaves
  <2> QED BY <2>4, <2>5
<1> QED BY <1>3, <1>4

\* The dialog goes on from the answer to the request it awaits.
LEMMA GoesOn ==
    ASSUME IInv, Idle, form.phase = "shipping", UNCHANGED <<loads, dry, check>>,
           NEW ph \in {"compose", "conflict", "rejected", "created"}, NEW w \in BOOLEAN,
           NEW rows \in [Contract -> RowSet],
           form' = [form EXCEPT !.phase = ph, !.rows = rows, !.wrote = w], RowsInv',
           ph \in {"conflict", "rejected"} /\ ~w =>
               form.attempt # 0 /\ Quiet(form.attempt) /\ \A j \in jobs' : j.op # form.attempt
    PROVE  FormInv'
<1> USE DEF IInv
<1>1. dry = NoCall /\ form.loading = FALSE /\ check = NoCall
  BY NoDryRun, Zenon DEF PhaseInv
<1>2. form' \in Form
  BY Zenon DEF Form, Phases
<1>3. /\ form'.open = form.open /\ form'.phase = ph /\ form'.preview = form.preview /\ form'.key = form.key
      /\ form'.frozen = form.frozen /\ form'.loading = form.loading /\ form'.attempt = form.attempt
      /\ form'.wrote = w
  BY DEF Form
<1>4. /\ \A a \in Contract : Newest(a)' = Newest(a)
      /\ releases' = releases /\ history' = history /\ store' = store /\ attempts' = attempts
  BY IdleServer DEF Idle, serverVars
<1>5. PreviewInv'
  <2>1. \A a \in Contract : ChangeType(a)' = ChangeType(a)
    BY <1>4 DEF ChangeType
  <2> QED BY <1>1, <1>3, <1>4, <2>1 DEF PreviewInv, ChangesOK, PreviewOK, Freeze
<1>6. PhaseInv'
  <2>1. LoadsOK'
    BY LoadsStay
  <2>2. Quiet(form.attempt) => Quiet(form.attempt)'
    BY <1>3, <1>4 DEF Quiet, Unreleased
  <2> QED BY <1>1, <1>3, <1>4, <2>1, <2>2 DEF PhaseInv, LoadsOK
<1>7. AwaitInv'
  BY <1>3 DEF AwaitInv
<1> QED BY <1>2, <1>5, <1>6, <1>7 DEF FormInv

\* reuseWrittenVersions: a version an attempt wrote holds the value of its row.
LEMMA Reuses ==
    ASSUME IInv, NEW j \in jobs, j.stage = "done", Awaited(j)
    PROVE  /\ Reused(j.written) \in [Contract -> RowSet]
           /\ \A a \in Contract :
                 /\ Reused(j.written)[a] \in RowType(a)
                 /\ Reused(j.written)[a].kind = "row" /\ Reused(j.written)[a].reuse # 0 =>
                       store[a][Reused(j.written)[a].reuse].value = Reused(j.written)[a].value
<1> USE DEF IInv
<1>1. ASSUME NEW a \in Contract
      PROVE  /\ Reused(j.written)[a] \in RowType(a)
             /\ Reused(j.written)[a].kind = "row" /\ Reused(j.written)[a].reuse # 0 =>
                   store[a][Reused(j.written)[a].reuse].value = Reused(j.written)[a].value
  <2>1. /\ Reused(j.written)[a] = IF form.rows[a].kind = "row" /\ j.written[a] # 0
                                  THEN [form.rows[a] EXCEPT !.reuse = j.written[a]] ELSE form.rows[a]
        /\ form.rows[a] \in RowType(a)
        /\ j.written[a] \in 0..Newest(a) /\ Newest(a) \in Nat
        /\ j.op = form.attempt /\ form.phase = "shipping"
    BY Stored DEF Reused, RowsInv, JobInv, JobOK, DoneOK, Awaited
  <2>2. CASE form.rows[a].kind = "row" /\ j.written[a] # 0
    <3>1. PICK x, n : x = form.rows[a].value /\ n = j.written[a]
      OBVIOUS
    <3>2. x \in Values /\ form.rows[a] = Row(x, form.rows[a].reuse) /\ a \in Parameters
      BY <2>1, <2>2, <3>1, RowKinds
    <3>3. Reused(j.written)[a] = Row(x, n)
      BY <2>1, <2>2, <3>1, <3>2 DEF Row
    <3>4. Row(x, n) \in RowType(a)
      BY <2>1, <3>1, <3>2, ShipConstants DEF RowType
    <3>5. store[a][n].value = x
      BY <2>1, <2>2, <3>1 DEF AwaitInv
    <3> QED BY <3>3, <3>4, <3>5 DEF Row
  <2>3. CASE ~(form.rows[a].kind = "row" /\ j.written[a] # 0)
    <3>1. Reused(j.written)[a] = form.rows[a]
      BY <2>1, <2>3
    <3> QED BY <2>1, <3>1, Zenon DEF RowsInv
  <2> QED BY <2>2, <2>3
<1>2. Reused(j.written) = [a \in Contract |-> Reused(j.written)[a]]
  BY DEF Reused
<1>3. \A a \in Contract : Reused(j.written)[a] \in RowSet
  BY <1>1, RowKinds
<1> QED BY <1>1, <1>2, <1>3

\* A request is answered.
LEMMA Responded ==
    ASSUME IInv, NEW j \in jobs, ShipResponds(j)
    PROVE  FormInv' /\ Idle /\ jobs' \subseteq jobs
<1> USE DEF IInv
<1>1. Idle /\ UNCHANGED <<loads, dry, check>> /\ jobs' = jobs \ {j} /\ j.stage = "done"
  BY DEF ShipResponds, Idle, ServerInv
<1>2. ServerInv' /\ Grows /\ Authored(0) /\ JobInv' /\ \A a \in Contract : Newest(a)' = Newest(a)
  BY <1>1, IdleServer
<1>3. CASE ~Awaited(j)
  <2>1. form' = form
    BY <1>3 DEF ShipResponds
  <2>2. UNCHANGED formVars /\ attempts' = attempts /\ jobs' \subseteq jobs
    BY <1>1, <2>1 DEF formVars, Idle
  <2>3. PhaseInv'
    BY <1>2, <2>2, PhaseStays
  <2>4. PreviewInv' /\ RowsInv' /\ AwaitInv'
    BY <1>2, <2>1, <2>2, PreviewInvStays, RowsStay, AwaitStays
  <2> QED BY <1>1, <2>1, <2>3, <2>4 DEF FormInv
<1>4. CASE Awaited(j)
  <2>0. /\ form.phase = "shipping" /\ form.attempt = j.op /\ check' = NoCall /\ DoneOK(j) /\ WroteOK(j)
        /\ j.op # 0 /\ \A k \in jobs' : k.op # j.op
    BY <1>1, <1>4 DEF Awaited, PhaseInv, JobInv, JobOK
  <2>1. form' = CASE j.status = "refused" -> [form EXCEPT !.phase = "conflict", !.wrote = FALSE]
                  [] j.status = "failed" -> [form EXCEPT !.phase = "compose"]
                  [] j.status = "rejected" -> [form EXCEPT !.phase = "rejected", !.wrote = FALSE]
                  [] j.status \in {"created", "conflict"} ->
                       [form EXCEPT !.phase = j.status, !.rows = Reused(j.written), !.wrote = TRUE]
                  [] j.status = "activated" -> Left("rollout", j.activation)
    BY <1>4, Zenon DEF ShipResponds
  <2>2. j.status \in {"failed", "refused", "rejected", "created", "conflict", "activated"} /\ j.activation \in Activation
    BY <2>0 DEF DoneOK, Done
  <2>3. form.rows \in [Contract -> RowSet] /\ form.wrote \in BOOLEAN
    BY DEF Form
  <2>4. form'.rows = form.rows => RowsInv'
    <3>1. \A a \in Contract : RowType(a)' = RowType(a)
      BY <1>2 DEF RowType
    <3> QED BY <1>1, <3>1 DEF RowsInv, Idle, serverVars
  <2>5. CASE j.status = "activated"
    <3>1. form' = Left("rollout", j.activation)
      BY <2>1, <2>5
    <3>2. TookPlace(form.attempt, j.activation)
      BY <2>0, <2>5 DEF DoneOK
    <3> QED BY <1>1, <2>0, <2>2, <3>1, <3>2, Leaves
  <2>6. CASE j.status \in {"created", "conflict"}
    <3>1. form' = [form EXCEPT !.phase = j.status, !.rows = Reused(j.written), !.wrote = TRUE]
      BY <2>1, <2>6
    <3>2. PICK rows : rows = Reused(j.written)
      OBVIOUS
    <3>3. rows \in [Contract -> RowSet] /\ form'.rows = rows
      BY <1>1, <1>4, <3>1, <3>2, Reuses DEF Form
    <3>4. RowsInv'
      <4>1. \A a \in Contract : RowType(a)' = RowType(a)
        BY <1>2 DEF RowType
      <4>2. store' = store
        BY <1>1 DEF Idle, serverVars
      <4>3. \A a \in Contract : rows[a] \in RowType(a) /\
               (rows[a].kind = "row" /\ rows[a].reuse # 0 => store[a][rows[a].reuse].value = rows[a].value)
        BY <1>1, <1>4, <3>2, Reuses
      <4> QED BY <3>3, <4>1, <4>2, <4>3 DEF RowsInv
    <3> QED BY <1>1, <2>0, <2>6, <3>1, <3>2, <3>3, <3>4, GoesOn, Zenon
  <2>7. CASE j.status = "failed"
    <3>1. form' = [form EXCEPT !.phase = "compose", !.rows = form.rows, !.wrote = form.wrote]
      BY <2>1, <2>7, Zenon DEF Form
    <3>2. RowsInv'
      BY <2>4, <3>1 DEF Form
    <3> QED BY <1>1, <2>0, <2>3, <3>1, <3>2, GoesOn, Zenon
  <2>8. CASE j.status \in {"refused", "rejected"}
    <3>1. PICK ph \in {"conflict", "rejected"} :
             form' = [form EXCEPT !.phase = ph, !.rows = form.rows, !.wrote = FALSE]
      BY <2>1, <2>8, Zenon DEF Form
    <3>2. RowsInv'
      BY <2>4, <3>1 DEF Form
    <3>3. Quiet(form.attempt) /\ form.attempt # 0
      BY <1>1, <2>0, <2>8 DEF WroteOK
    <3> QED BY <1>1, <2>0, <2>3, <3>1, <3>2, <3>3, GoesOn, Zenon
  <2> QED BY <1>1, <2>2, <2>5, <2>6, <2>7, <2>8
<1> QED BY <1>1, <1>3, <1>4

\* What Ship sends for an alias: with every label resolved it says what the dialog shows.
LEMMA SendsShown ==
    ASSUME IInv, CanShip, NEW a \in Contract
    PROVE  LET c == form.frozen[a] IN
           /\ c \in ChangeType(a) /\ c \in Change /\ Shown[a] \in Change /\ c # Current
           /\ c.kind = "value" => /\ Shown[a] = c /\ form.rows[a].kind = "row"
                                  /\ form.rows[a].value = c.value
           /\ c.kind = "version" =>
                 \/ Shown[a] = c
                 \/ Shown[a].kind = "value" /\ store[a][c.version].value = Shown[a].value
           /\ c = Keep => form.preview.base # 0 /\ Shown[a] = Pin(releases[form.preview.base].pins[a])
<1> USE DEF IInv
<1>1. /\ form.preview.valid /\ PreviewOK(Changes, form.preview) /\ form.preview \in Preview
      /\ form.frozen = Freeze(Changes, form.preview)
  BY DEF CanShip, PreviewInv, PreviewOK
<1>2. /\ form.rows[a] \in RowType(a) /\ Newest(a) \in Nat
      /\ form.preview.pins[a] \in Nat /\ Changes[a] \in ChangeType(a) /\ Changes[a] \in Change
  BY <1>1, Stored, ChangesBuilt DEF RowsInv, Preview, ChangesOK
<1>3. /\ form.frozen[a] = IF Changes[a] = Current \/ (Changes[a] = Keep /\ form.preview.base = 0)
                          THEN Pin(form.preview.pins[a]) ELSE Changes[a]
      /\ Changes[a] = IF form.rows[a].kind = "row"
                      THEN IF form.rows[a].reuse # 0 THEN Pin(form.rows[a].reuse) ELSE Edit(form.rows[a].value)
                      ELSE IF a \in form.optIns THEN Current ELSE Keep
      /\ Shown[a] = IF form.rows[a].kind = "row" THEN Edit(form.rows[a].value) ELSE Pin(form.preview.pins[a])
  BY <1>1, Zenon DEF Freeze, Changes, Shown
<1>4. CASE form.rows[a].kind = "row"
  <2>1. form.rows[a].value \in Values /\ form.rows[a].reuse \in 0..Newest(a) /\ form.rows[a].reuse \in Nat
    BY <1>2, <1>4, RowKinds
  <2>2. PICK x, v : x = form.rows[a].value /\ v = form.rows[a].reuse
    OBVIOUS
  <2>3. Shown[a] = Edit(x) /\ Edit(x) \in Change /\ Edit(x).kind = "value" /\ Edit(x).value = x
    BY <1>3, <1>4, <2>1, <2>2 DEF Change, Edit
  <2>4. CASE v # 0
    <3>1. Changes[a] = Pin(v) /\ Pin(v).kind = "version" /\ Pin(v).version = v /\ Pin(v) # Current /\ Pin(v) # Keep
      BY <1>3, <1>4, <2>2, <2>4 DEF Pin, Current, Keep
    <3>2. form.frozen[a] = Pin(v)
      BY <1>3, <3>1
    <3>3. store[a][v].value = x
      BY <1>4, <2>2, <2>4 DEF RowsInv
    <3> QED BY <1>2, <2>3, <3>1, <3>2, <3>3
  <2>5. CASE v = 0
    <3>1. Changes[a] = Edit(x) /\ Edit(x) # Current /\ Edit(x) # Keep
      BY <1>3, <1>4, <2>2, <2>5 DEF Edit, Current, Keep
    <3>2. form.frozen[a] = Edit(x)
      BY <1>3, <3>1
    <3> QED BY <1>2, <1>4, <2>2, <2>3, <3>1, <3>2
  <2> QED BY <2>4, <2>5
<1>5. CASE form.rows[a].kind # "row"
  <2>1. PICK n \in Nat : n = form.preview.pins[a]
    BY <1>2
  <2>2. /\ Shown[a] = Pin(n) /\ Pin(n) \in Change /\ Pin(n).kind = "version" /\ Pin(n) # Current /\ Pin(n) # Keep
        /\ Changes[a] \in {Current, Keep} /\ Current # Keep
        /\ Keep.kind = "keep"
    BY <1>3, <1>5, <2>1 DEF Change, Pin, Current, Keep
  <2>3. CASE Changes[a] = Current \/ (Changes[a] = Keep /\ form.preview.base = 0)
    <3>1. form.frozen[a] = Pin(n) /\ n \in 1..Newest(a)
      BY <1>1, <1>3, <2>1, <2>3 DEF PreviewOK
    <3>2. Pin(n) \in ChangeType(a)
      BY <3>1 DEF ChangeType
    <3> QED BY <2>2, <3>1, <3>2
  <2>4. CASE Changes[a] = Keep /\ form.preview.base # 0
    <3>1. form.frozen[a] = Keep /\ n = releases[form.preview.base].pins[a]
      BY <1>1, <1>3, <2>1, <2>2, <2>4 DEF PreviewOK
    <3> QED BY <1>2, <2>2, <2>4, <3>1
  <2> QED BY <2>2, <2>3, <2>4
<1> QED BY <1>4, <1>5

\* The request Ship sends is as requests are.
LEMMA Sends ==
    ASSUME IInv, CanShip, UNCHANGED <<serverVars, disturbed>>, attempts' = attempts + 1, attempts' <= MaxAttempts,
           NEW k, k = [op |-> attempts + 1, stage |-> "preflight", changes |-> form.frozen,
                       expected |-> form.preview.base,
                       written |-> [a \in Contract |-> 0], release |-> 0, shown |-> Shown]
    PROVE  JobOK(k)'
<1> USE DEF IInv
<1>1. /\ k.op = attempts + 1 /\ k.stage = "preflight" /\ k.changes = form.frozen
      /\ k.expected = form.preview.base /\ k.release = 0 /\ k.shown = Shown
      /\ k.written = [a \in Contract |-> 0] /\ \A a \in Contract : k.written[a] = 0
  OBVIOUS
<1>2. /\ store' = store /\ releases' = releases /\ history' = history /\ attempts \in Nat
      /\ \A a \in Contract : Newest(a)' = Newest(a) /\ Newest(a) \in Nat
  BY Stored, ShipConstants DEF serverVars, Newest, ServerInv
<1>3. \A a \in Contract : ChangeType(a)' = ChangeType(a)
  BY <1>2 DEF ChangeType
<1>4. /\ form.preview.base \in 0..Len(releases) /\ form.preview.base \in Nat /\ Len(releases) \in Nat
      /\ form.frozen = Freeze(Changes, form.preview)
  BY Stored DEF CanShip, PreviewInv, PreviewOK, Preview
<1>5. form.frozen \in [Contract -> Change] /\ Shown \in [Contract -> Change]
  <2>1. form.frozen = [a \in Contract |-> form.frozen[a]] /\ Shown = [a \in Contract |-> Shown[a]]
    BY <1>4 DEF Freeze, Shown
  <2>2. \A a \in Contract : form.frozen[a] \in Change /\ Shown[a] \in Change
    BY SendsShown
  <2> QED BY <2>1, <2>2
<1>6. k \in Running
  <2>0. attempts + 1 \in Nat /\ [a \in Contract |-> 0] \in [Contract -> Nat]
    BY <1>2
  <2>1. PICK n, b, ch, sh, w :
          n = attempts + 1 /\ b = form.preview.base /\ ch = form.frozen /\ sh = Shown
          /\ w = [a \in Contract |-> 0]
    OBVIOUS
  <2>2. k = [op |-> n, stage |-> "preflight", changes |-> ch, expected |-> b, written |-> w, release |-> 0,
             shown |-> sh]
    BY <2>1
  <2>3. n \in Nat /\ b \in Nat /\ ch \in [Contract -> Change] /\ sh \in [Contract -> Change]
        /\ w \in [Contract -> Nat]
    BY <1>4, <1>5, <2>0, <2>1
  <2> QED BY <2>2, <2>3 DEF Running
<1>7. ASSUME NEW a \in Contract PROVE AliasOK(k, a)'
  <2>1. PICK c, s, b : c = form.frozen[a] /\ s = Shown[a] /\ b = form.preview.base
    OBVIOUS
  <2>2. /\ c \in ChangeType(a) /\ c # Current
        /\ c.kind = "value" => s = c
        /\ c.kind = "version" => s = c \/ (s.kind = "value" /\ store[a][c.version].value = s.value)
        /\ c = Keep => b # 0 /\ s = Pin(releases[b].pins[a])
    BY <2>1, SendsShown, Zenon
  <2>3. k.changes[a] = c /\ k.shown[a] = s /\ k.expected = b /\ k.written[a] = 0
    BY <1>1, <2>1, Zenon
  <2>4. 0 \in 0..Newest(a)'
    BY <1>2
  <2> QED BY <1>2, <1>3, <2>2, <2>3, <2>4 DEF AliasOK
<1>8. RunningOK(k)'
  BY <1>1, <1>2, <1>4, <1>6, <1>7 DEF RunningOK
<1>9. WroteOK(k)'
  <2>1. Quiet(k.op)'
    <3>1. ASSUME NEW a \in Contract, NEW v \in 1..Newest(a) PROVE store[a][v].by # attempts + 1
      <4>1. store[a][v].by \in Nat
        BY Stored
      <4>2. store[a][v].by <= attempts
        BY DEF ServerInv
      <4> QED BY <1>2, <4>1, <4>2
    <3>2. ASSUME NEW v \in 1..Len(releases) PROVE releases[v].op # attempts + 1
      <4>1. releases[v].op \in Nat
        BY Stored
      <4>2. releases[v].op <= attempts
        BY DEF ServerInv
      <4> QED BY <1>2, <4>1, <4>2
    <3> QED BY <1>1, <1>2, <3>1, <3>2 DEF Quiet, Unreleased
  <2> QED BY <1>1, <2>1 DEF WroteOK
<1>10. k.op \in 1..attempts'
  BY <1>1, <1>2
<1> QED BY <1>1, <1>8, <1>9, <1>10 DEF JobOK

\* Ship is pressed.
LEMMA Ships ==
    ASSUME IInv, Ship
    PROVE  IInv'
<1> USE DEF IInv
<1>1. PICK k : k = [op |-> attempts + 1, stage |-> "preflight", changes |-> form.frozen,
                    expected |-> form.preview.base,
                    written |-> [a \in Contract |-> 0], release |-> 0, shown |-> Shown]
  BY Zenon
<1>2. /\ CanShip /\ attempts' = attempts + 1 /\ attempts' <= MaxAttempts
      /\ form' = [form EXCEPT !.phase = "shipping", !.attempt = attempts + 1]
      /\ jobs' = jobs \cup {k} /\ UNCHANGED <<serverVars, loads, dry, check, disturbed>>
  BY <1>1 DEF Ship
<1>3. ServerInv' /\ Grows /\ Authored(0)
  BY <1>2, ServerWaits
<1>4. JobOK(k)' /\ k.op = attempts + 1
  BY <1>1, <1>2, Sends
<1>5. attempts \in Nat /\ \A j \in jobs : j.op \in 1..attempts /\ JobOK(j) /\ j.op # 0
  <2>1. attempts \in Nat
    BY ShipConstants DEF ServerInv
  <2>2. \A j \in jobs : j.op \in 1..attempts /\ JobOK(j)
    BY DEF JobInv, JobOK
  <2> QED BY <2>1, <2>2
<1>6. JobInv'
  <2>1. \A j \in jobs : JobOK(j)'
    BY <1>3, <1>5, JobStays
  <2>2. \A j \in jobs : j.op # k.op
    BY <1>4, <1>5
  <2> QED BY <1>2, <1>4, <2>1, <2>2 DEF JobInv
<1>7. form' \in Form
  <2>1. PICK n \in Nat : n = attempts + 1
    BY <1>5
  <2> QED BY <1>2, <2>1, Zenon DEF Form, Phases
<1>8. /\ form'.open = form.open /\ form'.phase = "shipping" /\ form'.rows = form.rows /\ form'.preview = form.preview
      /\ form'.key = form.key /\ form'.frozen = form.frozen /\ form'.loading = form.loading
      /\ form'.attempt = attempts + 1
  BY <1>2 DEF Form
<1>9. /\ store' = store /\ releases' = releases /\ history' = history
      /\ \A a \in Contract : Newest(a)' = Newest(a)
  BY <1>2 DEF serverVars, Newest
<1>10. /\ form.loading = FALSE /\ dry = NoCall /\ check = NoCall /\ form.open /\ RowsParse
  BY <1>2 DEF CanShip, Composing, PhaseInv, PreviewInv, Form
<1>11. RowsInv'
  <2>1. \A a \in Contract : RowType(a)' = RowType(a)
    BY <1>9 DEF RowType
  <2> QED BY <1>8, <1>9, <2>1 DEF RowsInv
<1>12. PreviewInv'
  <2>1. \A a \in Contract : ChangeType(a)' = ChangeType(a)
    BY <1>9 DEF ChangeType
  <2> QED BY <1>2, <1>8, <1>9, <1>10, <2>1 DEF PreviewInv, ChangesOK, PreviewOK, Freeze
<1>13. PhaseInv'
  <2>1. \A l \in loads : l \in [alias : Parameters, since : Nat] /\ l.since \in 1..Newest(l.alias)'
    BY <1>9 DEF PhaseInv, Contract
  <2> QED BY <1>2, <1>5, <1>8, <1>10, <2>1 DEF PhaseInv
<1>14. AwaitInv'
  <2>1. RowsParse'
    BY <1>8, <1>10 DEF RowsParse
  <2>2. ASSUME NEW j \in jobs', j.op = attempts + 1 PROVE j = k
    BY <1>2, <1>5, <2>2
  <2>3. ASSUME NEW a \in Contract
        PROVE  /\ k.written[a] = 0
               /\ k.changes[a].kind = "value" => form.rows[a].kind = "row" /\ form.rows[a].value = k.changes[a].value
    BY <1>1, <1>2, SendsShown
  <2> QED BY <1>8, <2>1, <2>2, <2>3 DEF AwaitInv
<1> QED BY <1>3, <1>6, <1>7, <1>11, <1>12, <1>13, <1>14

-----------------------------------------------------------------------------
(* The induction.                                                          *)

\* A step of others leaves the form and the requests what they were.
LEMMA Untouched ==
    ASSUME IInv, ServerInv', Grows, Authored(0), UNCHANGED <<formVars, attempts>>, jobs' \subseteq jobs
    PROVE  IInv'
<1> USE DEF IInv
<1>1. JobInv'
  BY JobsStay
<1>2. form' = form
  BY DEF formVars
<1>3. PhaseInv'
  BY PhaseStays
<1>4. PreviewInv' /\ RowsInv' /\ AwaitInv'
  BY <1>2, PreviewInvStays, RowsStay, AwaitStays
<1> QED BY <1>1, <1>2, <1>3, <1>4

\* A step of the server for a request keeps the invariant.
LEMMA ServedKeeps ==
    ASSUME IInv, NEW j \in jobs, Serves(j)
    PROVE  IInv'
<1> USE DEF IInv
<1>1. /\ ServerInv' /\ Grows /\ Authored(j.op) /\ UNCHANGED formVars /\ attempts' = attempts /\ form' = form
  BY DEF Serves, formVars
<1>2. JobInv' /\ \A k \in jobs' : \E i \in jobs : k.op = i.op
  BY ServesOne
<1>3. PhaseInv'
  BY <1>1, <1>2, PhaseStays
<1>4. PreviewInv' /\ RowsInv' /\ AwaitInv'
  BY <1>1, PreviewInvStays, RowsStay, AwaitServes
<1> QED BY <1>1, <1>2, <1>3, <1>4

\* A step of the form keeps the invariant.
LEMMA FormKeeps ==
    ASSUME IInv, FormInv', Idle, jobs' \subseteq jobs
    PROVE  IInv'
BY IdleServer DEF IInv, FormInv

\* What others do to the store and the releases.
LEMMA OthersServe ==
    ASSUME IInv, Others
    PROVE  /\ ServerInv' /\ Grows /\ Authored(0) /\ UNCHANGED <<jobs, formVars, attempts>>
           /\ history' = history \/ \E n \in Nat :
                 Len(releases) <= n /\ \E v \in 1..n : history' = Activated(v, 0)
<1> USE DEF IInv
<1>1. UNCHANGED <<jobs, formVars, attempts>> /\ disturbed' \in 0..MaxDisturbed /\ fit' \in BOOLEAN
  <2>1. UNCHANGED <<jobs, formVars, attempts>> /\ Disturb /\ (fit' = fit \/ fit' = ~fit)
    BY Zenon DEF Others, OtherShips, FitnessChanges, OtherWrites, OtherActivates
  <2>2. disturbed' \in 0..MaxDisturbed
    BY <2>1, ShipConstants DEF Disturb, ServerInv
  <2>3. fit' \in BOOLEAN
    BY <2>1, Zenon DEF ServerInv
  <2> QED BY <2>1, <2>2, <2>3
<1>2. 0 \in 0..attempts
  BY Stored
<1>3. ServerDoes(0) /\ (history' = history \/ \E n \in Nat :
                           Len(releases) <= n /\ \E v \in 1..n : history' = Activated(v, 0))
  <2>1. CASE OtherShips
    <3>1. PICK pins : pins = [a \in Contract |-> Newest(a)]
      BY Zenon
    <3>2. pins \in [Contract -> Nat] /\ \A a \in Contract : pins[a] = Newest(a) /\ Newest(a) \in Nat /\ Newest(a) >= 1
      BY <3>1, Stored, Zenon DEF ServerInv
    <3>3. \A a \in Contract : pins[a] \in 1..Newest(a)
      BY <3>2
    <3>4. releases' = Append(releases, [pins |-> pins, op |-> 0]) /\ store' = store
          /\ history' = Activated(Len(releases'), 0)
      BY <2>1, <3>1 DEF OtherShips
    <3>5. Len(releases') = Len(releases) + 1 /\ Len(releases) \in Nat
      <4>1. releases \in Seq([pins : [Contract -> Nat], op : Nat]) /\ Len(releases) \in Nat
        BY Stored DEF ServerInv
      <4>2. PICK r : r = [pins |-> pins, op |-> 0]
        BY Zenon
      <4>3. Len(Append(releases, r)) = Len(releases) + 1
        BY <4>1
      <4> QED BY <3>4, <4>1, <4>2, <4>3
    <3>6. Creates(0)
      BY <3>2, <3>3, <3>4, <3>5, Zenon DEF Creates
    <3>7. Len(releases') \in 1..Len(releases') /\ Len(releases') \in Nat /\ Len(releases) <= Len(releases')
      BY <3>5
    <3> QED BY <3>4, <3>6, <3>7 DEF ServerDoes
  <2>2. CASE FitnessChanges
    BY <2>2 DEF FitnessChanges, ServerDoes
  <2>3. CASE \E a \in Contract : OtherWrites(a)
    <3>1. "theirs" \in Values
      BY DEF Values
    <3>2. Writes(0) /\ history' = history
      BY <2>3, <3>1, Zenon DEF OtherWrites, Writes
    <3> QED BY <3>2 DEF ServerDoes
  <2>4. CASE \E v \in 1..Len(releases) : OtherActivates(v)
    <3>1. PICK v \in 1..Len(releases) : history' = Activated(v, 0) /\ UNCHANGED <<store, releases>>
      BY <2>4 DEF OtherActivates
    <3>2. Activates(0) /\ Len(releases) \in Nat /\ Len(releases) <= Len(releases)
      BY <3>1, Stored DEF Activates
    <3> QED BY <3>1, <3>2 DEF ServerDoes
  <2> QED BY <2>1, <2>2, <2>3, <2>4 DEF Others
<1> QED BY <1>1, <1>2, <1>3, ServerKept

\* The steps of the form that leave the server alone.
LEMMA FormSteps ==
    ASSUME IInv, Compose \/ DryRunServed \/ (Outcome /\ ~Ship)
    PROVE  FormInv' /\ Idle /\ jobs' = jobs
<1>1. CASE Compose
  BY <1>1, OpenClose, RowSteps, Prefills, Previews, PreviewEnds DEF Compose
<1>2. CASE Outcome /\ ~Ship
  BY <1>2, Loses, GoesBack, EditsAlias, Checks DEF Outcome
<1> QED BY <1>1, <1>2, DryRuns

\* The invariant holds at first.
LEMMA IInvInit ==
    ASSUME Init
    PROVE  IInv
<1>1. ASSUME NEW a \in Contract
      PROVE  /\ store[a] = <<[value |-> "old", by |-> 0]>> /\ Newest(a) = 1
             /\ store[a] \in Seq([value : Values, by : Nat])
             /\ \A v \in 1..Newest(a) : store[a][v].by = 0
  <2>1. store[a] = <<[value |-> "old", by |-> 0]>>
    BY DEF Init
  <2>2. [value |-> "old", by |-> 0] \in [value : Values, by : Nat]
    BY DEF Values
  <2>3. PICK e \in [value : Values, by : Nat] : e = [value |-> "old", by |-> 0]
    BY <2>2, Zenon
  <2>4. store[a] = <<e>> /\ e.by = 0
    BY <2>1, <2>3
  <2>5. Len(<<e>>) = 1 /\ <<e>> \in Seq([value : Values, by : Nat]) /\ <<e>>[1] = e
    OBVIOUS
  <2> QED BY <2>1, <2>4, <2>5 DEF Newest
<1>2. store \in [Contract -> Seq([value : Values, by : Nat])]
  BY <1>1 DEF Init
<1>3. /\ releases \in Seq([pins : [Contract -> Nat], op : Nat])
      /\ \A v \in 1..Len(releases) : releases[v].op = 0 /\ \A a \in Contract : releases[v].pins[a] = 1
      /\ history \in Seq([version : Nat, previous : Nat, by : Nat])
      /\ \A r \in 1..Len(history) : history[r].version \in 1..Len(releases) /\ history[r].previous \in 0..Len(releases)
  <2>1. CASE releases = <<>> /\ history = <<>>
    BY <2>1
  <2>2. CASE /\ releases = <<[pins |-> [a \in Contract |-> 1], op |-> 0]>>
             /\ history = <<[version |-> 1, previous |-> 0, by |-> 0]>>
    <3>1. PICK e \in [pins : [Contract -> Nat], op : Nat] : e = [pins |-> [a \in Contract |-> 1], op |-> 0]
      BY Zenon
    <3>2. PICK h \in [version : Nat, previous : Nat, by : Nat] : h = [version |-> 1, previous |-> 0, by |-> 0]
      BY Zenon
    <3>3. releases = <<e>> /\ history = <<h>> /\ e.op = 0 /\ (\A a \in Contract : e.pins[a] = 1)
          /\ h.version = 1 /\ h.previous = 0
      BY <2>2, <3>1, <3>2
    <3>4. Len(<<e>>) = 1 /\ <<e>>[1] = e /\ Len(<<h>>) = 1 /\ <<h>>[1] = h
          /\ <<e>> \in Seq([pins : [Contract -> Nat], op : Nat])
          /\ <<h>> \in Seq([version : Nat, previous : Nat, by : Nat])
      OBVIOUS
    <3> QED BY <3>3, <3>4
  <2> QED BY <2>1, <2>2 DEF Init
<1>4. attempts = 0 /\ disturbed = 0 /\ fit = TRUE /\ jobs = {} /\ loads = {} /\ dry = NoCall /\ check = NoCall
      /\ form = [Fresh({}) EXCEPT !.open = FALSE]
  BY DEF Init
<1>5. ServerInv
  <2>1. \A a \in Contract : Newest(a) >= 1 /\ \A v \in 1..Newest(a) : store[a][v].by <= attempts
    BY <1>1, <1>4
  <2>2. \A v \in 1..Len(releases) :
           releases[v].op <= attempts /\ \A a \in Contract : releases[v].pins[a] \in 1..Newest(a)
    BY <1>1, <1>3, <1>4
  <2>3. attempts \in 0..MaxAttempts /\ disturbed \in 0..MaxDisturbed
    BY <1>4, ShipConstants
  <2> QED BY <1>2, <1>3, <1>4, <2>1, <2>2, <2>3, Zenon DEF ServerInv
<1>6. JobInv
  BY <1>4 DEF JobInv
<1>7. form \in Form
  BY <1>4, FreshForm
<1>8. /\ form.rows = [a \in Contract |-> Absent] /\ form.loading = FALSE /\ form.preview = NoPreview
      /\ form.key = <<>> /\ form.phase = "compose" /\ form.attempt = 0
  BY <1>4 DEF Fresh
<1>9. RowsInv
  BY <1>8 DEF RowsInv, RowType, Absent
<1>10. PreviewInv
  <2>1. dry \in Dry /\ dry.stage = "none" /\ form.preview.valid = FALSE
    BY <1>4, <1>8 DEF Dry, NoCall, NoPreview
  <2> QED BY <1>4, <1>8, <2>1 DEF PreviewInv
<1>11. PhaseInv /\ AwaitInv
  BY <1>4, <1>8 DEF PhaseInv, AwaitInv
<1> QED BY <1>5, <1>6, <1>7, <1>9, <1>10, <1>11 DEF IInv

\* Every step keeps the invariant.
LEMMA IInvStep ==
    ASSUME IInv, [Next]_vars
    PROVE  IInv'
<1>1. CASE Others
  BY <1>1, OthersServe, Untouched
<1>2. CASE Compose \/ DryRunServed \/ (Outcome /\ ~Ship)
  <2>1. FormInv' /\ Idle /\ jobs' \subseteq jobs
    BY <1>2, FormSteps
  <2> QED BY <2>1, FormKeeps
<1>3. CASE Ship
  BY <1>3, Ships
<1>4. ASSUME NEW j \in jobs, Serve(j) \/ CallFails(j) PROVE IInv'
  <2>1. Serves(j)
    BY <1>4, PreflightServes, WriteServes, CreateServes, ActivateServes, CallFailsServes DEF Serve, IInv
  <2> QED BY <2>1, ServedKeeps
<1>5. ASSUME NEW j \in jobs, JobStops(j) PROVE IInv'
  <2>1. Idle /\ jobs' \subseteq jobs /\ UNCHANGED <<formVars, attempts>>
    BY <1>5, ShipConstants DEF JobStops, Idle, Disturb, IInv, ServerInv
  <2>2. ServerInv' /\ Grows /\ Authored(0)
    BY <2>1, IdleServer DEF IInv
  <2> QED BY <2>1, <2>2, Untouched
<1>6. ASSUME NEW j \in jobs, ShipResponds(j) PROVE IInv'
  BY <1>6, Responded, FormKeeps
<1>7. CASE UNCHANGED vars
  <2>1. Idle /\ jobs' \subseteq jobs /\ UNCHANGED <<formVars, attempts>>
    BY <1>7 DEF vars, Idle, IInv, ServerInv
  <2>2. ServerInv' /\ Grows /\ Authored(0)
    BY <2>1, IdleServer DEF IInv
  <2> QED BY <2>1, <2>2, Untouched
<1> QED BY <1>1, <1>2, <1>3, <1>4, <1>5, <1>6, <1>7 DEF Next

\* The invariant, for any contract and any bounds.
THEOREM Invariance == Spec => []IInv
<1>1. Init => IInv
  BY IInvInit
<1>2. IInv /\ [Next]_vars => IInv'
  BY IInvStep
<1> QED BY <1>1, <1>2, PTL DEF Spec

-----------------------------------------------------------------------------
(* What follows from it.                                                   *)

\* Pins, reused versions and activated releases exist.
THEOREM Types == Spec => []TypeOK
<1>1. ASSUME IInv PROVE TypeOK
  <2> USE <1>1 DEF IInv
  <2>0. attempts \in 0..MaxAttempts /\ attempts \in Nat /\ MaxAttempts \in Nat /\ disturbed \in 0..MaxDisturbed
    BY ShipConstants DEF ServerInv
  <2>1. ASSUME NEW a \in Contract, NEW v \in 1..Newest(a)
        PROVE  store[a][v] \in [value : Values, by : 0..MaxAttempts]
    <3>1. store[a][v] \in [value : Values, by : Nat] /\ store[a][v].by \in Nat /\ store[a][v].by <= attempts
      BY Stored, Zenon DEF ServerInv
    <3>2. store[a][v].by \in 0..MaxAttempts
      BY <2>0, <3>1
    <3> QED BY <3>1, <3>2
  <2>2. ASSUME NEW v \in 1..Len(releases)
        PROVE  releases[v].op \in 0..attempts /\ \A a \in Contract : releases[v].pins[a] \in 1..Newest(a)
    <3>1. releases[v].op \in Nat /\ releases[v].op <= attempts
      BY Stored, Zenon DEF ServerInv
    <3>2. \A a \in Contract : releases[v].pins[a] \in 1..Newest(a)
      BY DEF ServerInv
    <3> QED BY <2>0, <3>1, <3>2
  <2>3. \A r \in 1..Len(history) :
           history[r].version \in 1..Len(releases) /\ history[r].previous \in 0..Len(releases)
    BY DEF ServerInv
  <2>4. \A j \in jobs : j.stage # "done" =>
           /\ j.expected \in 0..Len(releases) /\ j.release \in 0..Len(releases)
           /\ \A a \in Contract : j.changes[a] \in ChangeType(a) /\ j.written[a] \in 0..Newest(a)
    BY DEF JobInv, JobOK, RunningOK, AliasOK
  <2>5. (\A a \in Contract : form.rows[a] \in RowType(a)) /\ form.optIns \subseteq Contract
    BY DEF RowsInv, Form
  <2>6. form.attempt \in 0..attempts
    <3>1. form.attempt \in Nat /\ form.attempt <= attempts
      BY DEF Form, PhaseInv
    <3> QED BY <2>0, <3>1
  <2> QED BY <2>0, <2>1, <2>2, <2>3, <2>4, <2>5, <2>6 DEF TypeOK
<1> QED BY <1>1, Invariance, PTL

\* Whatever others write and activate meanwhile, the release an attempt creates
\* holds what the dialog showed when Ship was pressed.
THEOREM AsShown == Spec => []ShippedAsShown
<1>1. ASSUME IInv PROVE ShippedAsShown
  <2> SUFFICES ASSUME NEW j \in jobs, j.stage = "activate", NEW a \in Contract
               PROVE  LET pin == releases[j.release].pins[a]
                      IN  IF j.shown[a].kind = "value" THEN store[a][pin].value = j.shown[a].value
                          ELSE pin = j.shown[a].version
    BY DEF ShippedAsShown
  <2>1. AliasOK(j, a) /\ PinOK(j, a) /\ j.changes[a] \in ChangeType(a)
    BY <1>1, Zenon DEF IInv, JobInv, JobOK, RunningOK, AliasOK
  <2>2. CASE j.changes[a].kind = "value"
    BY <2>1, <2>2 DEF AliasOK, PinOK
  <2>3. CASE j.changes[a].kind = "version"
    BY <2>1, <2>3 DEF AliasOK, PinOK
  <2>4. CASE j.changes[a] = Keep
    <3>1. PICK n : n = releases[j.expected].pins[a]
      OBVIOUS
    <3>2. j.shown[a] = Pin(n) /\ releases[j.release].pins[a] = n
      BY <2>1, <2>4, <3>1 DEF AliasOK, PinOK
    <3>3. Pin(n).kind = "version" /\ Pin(n).version = n
      BY DEF Pin
    <3> QED BY <3>2, <3>3
  <2>5. j.changes[a].kind = "value" \/ j.changes[a].kind = "version" \/ j.changes[a] = Keep
    BY <2>1, ChangeKinds DEF AliasOK
  <2> QED BY <2>2, <2>3, <2>4, <2>5
<1> QED BY <1>1, Invariance, PTL

\* A rollout is shown only for an activation that took place of a release of the
\* attempt, answered or looked up.
THEOREM OurRollout == Spec => []RolloutIsOurs
<1>1. IInv => RolloutIsOurs
  BY Zenon DEF IInv, PhaseInv, TookPlace, RolloutIsOurs
<1> QED BY <1>1, Invariance, PTL

\* Of an attempt reported as refused or rejected before writing nothing is stored.
THEOREM WroteNothing == Spec => []RefusedWroteNothing
<1>1. IInv => RefusedWroteNothing
  BY DEF IInv, PhaseInv, Quiet, Unreleased, RefusedWroteNothing
<1> QED BY <1>1, Invariance, PTL

\* The form is never left waiting for a preview that nobody runs.
THEOREM NeverStuckWaiting == Spec => []PreviewComing
<1>1. ASSUME IInv PROVE PreviewComing
  <2>1. Changes # <<>>
    BY <1>1, ChangesBuilt DEF IInv
  <2> QED BY <1>1, <2>1 DEF IInv, PreviewInv, PreviewComing
<1> QED BY <1>1, Invariance, PTL

\* A step that activates is another operator's, or that of the one request of its
\* attempt, on the base it was previewed on.
LEMMA Activating ==
    ASSUME IInv, [Next]_vars
    PROVE  \/ history' = history
           \/ \E n \in Nat : Len(releases) <= n /\ \E v \in 1..n : history' = Activated(v, 0)
           \/ \E k \in jobs : /\ k.stage = "activate" /\ history' = Activated(k.release, k.op)
                              /\ Active = k.expected
<1>1. CASE Others
  BY <1>1, OthersServe
<1>2. CASE Compose \/ DryRunServed \/ (Outcome /\ ~Ship)
  BY <1>2, FormSteps DEF Idle, serverVars
<1>3. CASE Ship
  BY <1>3 DEF Ship, serverVars
<1>4. ASSUME NEW k \in jobs, Preflight(k) \/ WriteValue(k) \/ CreateRelease(k) \/ CallFails(k) \/ JobStops(k)
                              \/ ShipResponds(k)
      PROVE  history' = history
  BY <1>4 DEF Preflight, WriteValue, CreateRelease, CallFails, JobStops, ShipResponds, serverVars
<1>5. ASSUME NEW k \in jobs, ActivateRelease(k)
      PROVE  history' = history \/ (/\ k.stage = "activate" /\ history' = Activated(k.release, k.op)
                                    /\ Active = k.expected)
  BY <1>5, ActivateServes DEF IInv, ActivateRelease
<1>6. CASE UNCHANGED vars
  BY <1>6 DEF vars, serverVars
<1> QED BY <1>1, <1>2, <1>3, <1>4, <1>5, <1>6 DEF Next, Serve

\* The activation of an attempt leaves what the form did not touch at the pins
\* that were active until then.
THEOREM Preserving == Spec => NothingReverted
<1>1. ASSUME IInv, [Next]_vars, NEW j \in jobs, j.stage = "activate", Active # 0, Len(history') > Len(history),
             history'[Len(history')].by = j.op, NEW a \in Contract, j.changes[a] = Keep
      PROVE  releases[j.release].pins[a] = releases[Active].pins[a]
  <2> USE <1>1 DEF IInv
  <2>1. JobOK(j) /\ j.op # 0 /\ PinOK(j, a)
    BY DEF JobInv, JobOK, RunningOK
  <2>2. Len(history) \in Nat /\ Len(releases) \in Nat
    BY Stored
  <2>3. history' # history
    BY <2>2
  <2>4. ASSUME NEW n \in Nat, Len(releases) <= n, NEW v \in 1..n, history' = Activated(v, 0) PROVE FALSE
    <3>1. Len(history') = Len(history) + 1 /\ history'[Len(history) + 1] = [version |-> v, previous |-> Active, by |-> 0]
      BY <2>4, HistoryGrows
    <3> QED BY <2>1, <3>1
  <2>5. ASSUME NEW k \in jobs, k.stage = "activate", history' = Activated(k.release, k.op), Active = k.expected
        PROVE  releases[j.release].pins[a] = releases[Active].pins[a]
    <3>1. k.release \in 1..Len(releases) /\ k.op \in Nat
      <4>1. k \in Running /\ k.release \in 0..Len(releases) /\ k.release # 0
        BY <2>5 DEF JobInv, JobOK, RunningOK
      <4> QED BY <2>2, <4>1 DEF Running
    <3>2. PICK v, op : v = k.release /\ op = k.op
      OBVIOUS
    <3>3. Len(history') = Len(history) + 1
          /\ history'[Len(history) + 1] = [version |-> v, previous |-> Active, by |-> op]
      <4>1. v \in 1..Len(releases) /\ op \in Nat /\ history' = Activated(v, op) /\ Len(releases) <= Len(releases)
        BY <2>2, <2>5, <3>1, <3>2
      <4> QED BY <2>2, <4>1, HistoryGrows, Zenon
    <3>4. k = j
      BY <3>2, <3>3 DEF JobInv
    <3> QED BY <2>1, <2>5, <3>4 DEF PinOK
  <2> QED BY <2>3, <2>4, <2>5, Activating
<1>2. IInv /\ [Next]_vars =>
        [\A j \in jobs :
          j.stage = "activate" /\ Active # 0 /\ Len(history') > Len(history) /\ history'[Len(history')].by = j.op =>
              \A a \in Contract : j.changes[a] = Keep => releases[j.release].pins[a] = releases[Active].pins[a]]_vars
  BY <1>1
<1> QED BY <1>2, Invariance, PTL DEF Spec, NothingReverted
=================================================================================
