---------------------------- MODULE NodeWatchSteps ----------------------------
(***************************************************************************)
(* The inductive invariant of NodeWatch, for any number of namespaces,     *)
(* keys, fields and watchers and any number of writes and disturbances;    *)
(* and that the server, the stream and the reconciliation pass keep it.    *)
(*                                                                         *)
(* The argument.  The stream's scope is the set of retained namespaces, so *)
(* a heartbeat or a change that moves the revision has passed over nothing *)
(* a row or a cached value could depend on.  A page only writes while the  *)
(* revision is the one at which its pass began, and it was read later.  A  *)
(* change that brings the value a row already shows invalidates nothing;   *)
(* Current says why this is right: the row got that value from the store   *)
(* at or after the revision, dropping all that was read before it.         *)
(***************************************************************************)
EXTENDS NodeWatch, TLAPS, WellFoundedInduction

USE ZenonT(3), SMTT(20)     \* in this order, for a leaf that names no prover

-----------------------------------------------------------------------------
(* The inductive invariant.                                                *)

Entry == [path : Paths, value : Values \cup {Absent}]
Phases == {"new", "reading", "resolving", "registered", "live", "closed"}
FieldType == [path : Paths \cup {Absent}, value : Values \cup {Absent, Default},
              phase : Phases, disposed : BOOLEAN]
CallType == [path : Paths \cup {Absent}, current : BOOLEAN, since : 0..Len(log)]

\* TypeOK in the parts that change together.
LogT == log \in Seq(Entry) /\ Len(log) <= MaxRevision
RegistryT == /\ handlers \in [Paths -> SUBSET Fields] /\ refs \in [Namespaces -> Nat]
             /\ watching \in [Watchers -> Namespaces \cup {Absent}]
RowT == known \in [Paths -> Row] /\ due \in BOOLEAN /\ revision \in 0..Len(log)
LoopT == /\ run \in {"off", "idle", "session", "backoff", "closing", "closed"} /\ restart \in BOOLEAN
         /\ session \in [namespaces : SUBSET Namespaces, scoped : BOOLEAN, full : BOOLEAN,
                         fresh : BOOLEAN, since : 0..Len(log)]
PassT == pass \in [on : BOOLEAN, scoped : BOOLEAN, fence : 0..revision, paths : SUBSET Paths,
                   todo : SUBSET Namespaces, current : Namespaces \cup {Absent}, left : SUBSET Paths,
                   present : SUBSET Paths, listed : SUBSET Namespaces, since : 0..Len(log)]
FieldT == fields \in [Fields -> FieldType]
ReadT == /\ cache \in [Paths -> Values \cup {Absent}] /\ calls \in [Fields -> CallType]
         /\ put \in [path : Paths \cup {Absent}, at : 0..Len(log), returned : BOOLEAN]
CountT == disturbed \in 0..MaxDisturbed

\* A field is a handler from its registration to its end; only a field that
\* reads has a call.
FieldInv ==
    \A x \in Fields :
        /\ fields[x].phase # "new" => fields[x].path # Absent
        /\ fields[x].phase = "reading" => calls[x].path = fields[x].path
        /\ fields[x].phase = "resolving" => fields[x].value # Absent
        /\ \A p \in Paths : x \in handlers[p] <=>
              /\ fields[x].path = p /\ fields[x].phase \in {"registered", "live"}
              /\ run # "closed"

WatchersOf(n) == {w \in Watchers : watching[w] = n}
HandlersOf(n) == {x \in Fields : \E p \in Paths : NamespaceOf(p) = n /\ x \in handlers[p]}

\* A namespace is retained once for each of its watchers and handlers.
RefInv == \A n \in Namespaces : refs[n] = Cardinality(WatchersOf(n) \cup HandlersOf(n))

\* A session or a pass in scope has the client's scope; close ends both.
LoopInv ==
    /\ session.scoped => session.namespaces = Scope(refs)
    /\ session.fresh => revision <= session.since
    /\ Closed => /\ ~pass.on /\ ~pass.scoped /\ ~session.scoped
                 /\ \A w \in Watchers : watching[w] = Absent

\* A pass in scope lists retained namespaces, and what it has listed and not
\* found was absent at or after its fence.
PassInv ==
    /\ pass.current # Absent => pass.fence <= pass.since
    /\ pass.scoped => /\ pass.todo \subseteq Scope(refs)
                      /\ pass.current # Absent => pass.current \in Scope(refs)
    /\ pass.left \subseteq In({pass.current})
    /\ \A p \in (In(pass.listed) \cup (In({pass.current}) \ pass.left)) \ pass.present :
          HeldSince(p, Absent, pass.fence)

\* A row is no newer than the revision, of a retained namespace, and a tombstone
\* only while someone handles the path.
RowInv ==
    \A p \in Paths :
        /\ known[p].revision <= revision
        /\ known[p] # Unknown => /\ refs[NamespaceOf(p)] > 0
                                 /\ known[p].value # Absent \/ handlers[p] # {}

\* After close no row, no cached value and no read that may fill the cache is left.
ClosedInv ==
    run = "closed" => /\ \A p \in Paths : known[p] = Unknown /\ cache[p] = Absent
                      /\ \A x \in Fields : ~calls[x].current

\* The client has caught up and follows the namespace of p.
Followed(p) == ~due /\ refs[NamespaceOf(p)] > 0

\* k is a moment at or after the revision at which p had the value of its row,
\* or none.
Moment(p, k) == k \in revision..Len(log) /\ StoreAt(p, k) \in {Absent, known[p].value}

\* A value that p had at or after such a moment.
Current(p, v) == \E k \in Nat : Moment(p, k) /\ HeldSince(p, v, k)

\* Every followed path has such a moment.
MomentInv == \A p \in Paths : Followed(p) => \E k \in Nat : Moment(p, k)

\* What a read that may still fill the cache can bring.
ReadInv ==
    \A x \in Fields : calls[x].current =>
        /\ calls[x].path # Absent
        /\ put.returned /\ put.path = calls[x].path => put.at <= calls[x].since
        /\ Followed(calls[x].path) => \A r \in calls[x].since..Len(log) :
              StoreAt(calls[x].path, r) # Absent => Current(calls[x].path, StoreAt(calls[x].path, r))

\* What the cache holds is not older than the own put and the followed stream.
CacheInv ==
    \A p \in Paths : cache[p] # Absent =>
        /\ put.returned /\ put.path = p => HeldSince(p, cache[p], put.at)
        /\ Followed(p) => Current(p, cache[p])

TypeInv == /\ LogT /\ RegistryT /\ RowT /\ LoopT /\ PassT /\ FieldT /\ ReadT /\ CountT

IInv == /\ TypeInv
        /\ FieldInv /\ RefInv /\ LoopInv /\ PassInv /\ RowInv /\ ClosedInv
        /\ NeverBehindStream /\ MomentInv /\ ReadInv /\ CacheInv

-----------------------------------------------------------------------------
(* Lemmas about the operators.                                             *)

\* A nonempty set of naturals has its least element as Min.
LEMMA MinNat ==
    ASSUME NEW S \in SUBSET Nat, S # {}
    PROVE  Min(S) \in S /\ \A y \in S : Min(S) <= y
<1>1. PICK x \in S : \A y \in S : ~(<<y, x>> \in OpToRel(<, Nat))
    BY Zenon, NatLessThanWellFounded, WFMin
<1>2. \A y \in S : ~(y < x)
    BY <1>1, Zenon DEF OpToRel
<1>3. \A y \in S : x <= y
    BY <1>2
<1>4. QED BY Zenon, <1>3 DEF Min

\* A nonempty set of naturals up to a bound has its greatest element as Max.
LEMMA MaxNat ==
    ASSUME NEW b \in Nat, NEW S \in SUBSET (0..b), S # {}
    PROVE  Max(S) \in S /\ \A y \in S : y <= Max(S)
<1> DEFINE T == {i \in 0..b : b - i \in S}
<1>1. T \in SUBSET Nat /\ T # {}
  <2>1. PICK y \in S : TRUE
      BY Zenon
  <2>2. b - y \in 0..b /\ b - (b - y) = y
      BY <2>1
  <2>3. QED BY <2>1, <2>2
<1>2. Min(T) \in T /\ \A y \in T : Min(T) <= y
    BY <1>1, MinNat
<1>3. PICK m : m = Min(T)
    OBVIOUS
<1>4. m \in 0..b /\ b - m \in S /\ \A y \in T : m <= y
    BY <1>2, <1>3
<1>5. ASSUME NEW y \in S PROVE b - m >= y
  <2>1. b - y \in T
      BY <1>5
  <2>2. QED BY <1>4, <2>1
<1>6. \E x \in S : \A y \in S : x >= y
    BY <1>4, <1>5
<1>7. QED
  <2>1. Max(S) \in S /\ \A y \in S : Max(S) >= y
      BY <1>6, Zenon DEF Max
  <2>2. QED BY <2>1

\* Max of two integers is the larger of the two.
LEMMA MaxPair ==
    ASSUME NEW a \in Int, NEW b \in Int
    PROVE  Max({a, b}) = IF a <= b THEN b ELSE a
<1>1. \E x \in {a, b} : \A y \in {a, b} : x >= y
    OBVIOUS
<1>2. Max({a, b}) \in {a, b} /\ \A y \in {a, b} : Max({a, b}) >= y
    BY <1>1, Zenon DEF Max
<1>3. QED BY <1>2

\* The elements of the log.
LEMMA Elements ==
    ASSUME LogT
    PROVE  /\ Len(log) \in Nat /\ DOMAIN log = 1..Len(log)
           /\ \A i \in 1..Len(log) : log[i] \in Entry /\ log[i].path \in Paths
                                     /\ log[i].value \in Values \cup {Absent}
<1>1. log \in Seq(Entry)
    BY DEF LogT
<1>2. Len(log) \in Nat /\ DOMAIN log = 1..Len(log)
    BY <1>1
<1>3. \A i \in 1..Len(log) : log[i] \in Entry
    BY <1>1
<1>4. \A e \in Entry : e.path \in Paths /\ e.value \in Values \cup {Absent}
    BY DEF Entry
<1>5. QED BY <1>2, <1>3, <1>4

\* The store between two changes of a path is the same.
LEMMA StoreSame ==
    ASSUME LogT, NEW p \in Paths, NEW a \in Nat, NEW b \in Nat, a <= b, b <= Len(log),
           \A i \in a + 1..b : log[i].path # p
    PROVE  StoreAt(p, a) = StoreAt(p, b)
<1>1. {i \in 1..a : log[i].path = p} = {i \in 1..b : log[i].path = p}
  <2>1. ASSUME NEW i \in 1..b, log[i].path = p PROVE i \in 1..a
      BY <2>1
  <2>2. ASSUME NEW i \in 1..a PROVE i \in 1..b
      OBVIOUS
  <2>3. QED BY <2>1, <2>2
<1>2. QED BY <1>1, Zenon DEF StoreAt

\* A change is what the store holds at its revision.
LEMMA StoreHere ==
    ASSUME LogT, NEW i \in 1..Len(log)
    PROVE  StoreAt(log[i].path, i) = log[i].value
<1> DEFINE S == {j \in 1..i : log[j].path = log[i].path}
<1>1. Len(log) \in Nat
    BY Elements
<1>2. i \in S /\ S \in SUBSET (0..i) /\ i \in Nat
    BY <1>1
<1>3. S \in SUBSET (1..i)
    BY Zenon
<1>4. PICK m : m = Max(S) /\ m \in S /\ \A y \in S : y <= m
  <2> HIDE DEF S
  <2>1. QED BY <1>2, MaxNat, Zenon
<1>5. m \in 1..i /\ i <= m
    BY <1>2, <1>3, <1>4
<1>6. m = i
    BY <1>2, <1>5
<1>7. S # {} /\ log[Max(S)].value = log[i].value
    BY <1>2, <1>4, <1>6
<1>8. QED BY <1>7, Zenon DEF StoreAt

\* The store holds values, and nothing before the first change.
LEMMA StoreType ==
    ASSUME LogT, NEW p \in Paths, NEW r \in 0..Len(log)
    PROVE  StoreAt(p, r) \in Values \cup {Absent}
<1> DEFINE S == {j \in 1..r : log[j].path = p}
<1>1. Len(log) \in Nat /\ r \in Nat /\ S \in SUBSET (0..r)
    BY Elements
<1>2. CASE S = {}
    BY <1>2, Zenon DEF StoreAt
<1>3. CASE S # {}
  <2>1. S \in SUBSET (1..r)
      BY Zenon
  <2>2. PICK m : m = Max(S) /\ m \in S
    <3> HIDE DEF S
    <3>1. QED BY <1>1, <1>3, MaxNat, Zenon
  <2>3. m \in 1..Len(log)
      BY <1>1, <2>1, <2>2
  <2>4. log[m].value \in Values \cup {Absent}
      BY <2>3, Elements
  <2>5. QED BY <1>3, <2>2, <2>4, Zenon DEF StoreAt
<1>4. QED BY <1>2, <1>3

\* Before the first write nothing is stored.
LEMMA StoreNone ==
    ASSUME NEW p
    PROVE  StoreAt(p, 0) = Absent
<1>1. {i \in 1..0 : log[i].path = p} = {}
    OBVIOUS
<1>2. QED BY <1>1, Zenon DEF StoreAt

\* A step leaves the store of the past as it was.
Grown == /\ LogT' /\ Len(log) <= Len(log')
         /\ \A p \in Paths : \A r \in 0..Len(log) : StoreAt(p, r)' = StoreAt(p, r)

\* Without a write the store and its past stay what they are.
LEMMA SameLog ==
    ASSUME LogT, log' = log
    PROVE  /\ Grown
           /\ \A p, r : StoreAt(p, r)' = StoreAt(p, r)
           /\ \A p, v, r : HeldSince(p, v, r)' <=> HeldSince(p, v, r)
<1>1. \A p, r : StoreAt(p, r)' = StoreAt(p, r)
    BY Zenon DEF StoreAt
<1>2. \A p, v, r : HeldSince(p, v, r)' <=> HeldSince(p, v, r)
    BY <1>1, Zenon DEF HeldSince
<1>3. LogT' /\ Len(log) <= Len(log')
    BY Elements DEF LogT
<1>4. QED BY <1>1, <1>2, <1>3, Zenon DEF Grown

\* A write appends one change.
LEMMA CommitGrows ==
    ASSUME LogT, NEW p \in Paths, NEW v \in Values \cup {Absent}, Commit(p, v)
    PROVE  Grown /\ Len(log') = Len(log) + 1
<1> DEFINE e == [path |-> p, value |-> v]
<1>1. e \in Entry /\ log' = Append(log, e) /\ Len(log) < MaxRevision /\ MaxRevision \in Nat
    BY WatchConstants DEF Commit, Entry
<1>2. log \in Seq(Entry) /\ Len(log) \in Nat
    BY DEF LogT
<1>3. /\ log' \in Seq(Entry) /\ Len(log') = Len(log) + 1
      /\ \A i \in 1..Len(log) : log'[i] = log[i]
  <2> HIDE DEF e
  <2>1. QED BY <1>1, <1>2
<1>4. LogT' /\ Len(log) <= Len(log')
    BY <1>1, <1>2, <1>3 DEF LogT
<1>5. ASSUME NEW q \in Paths, NEW r \in 0..Len(log)
      PROVE  StoreAt(q, r)' = StoreAt(q, r)
  <2> DEFINE S == {i \in 1..r : log[i].path = q}
  <2>1. \A i \in 1..r : log'[i] = log[i]
      BY <1>2, <1>3
  <2>2. {i \in 1..r : log'[i].path = q} = S
      BY <2>1
  <2>3. CASE S = {}
      BY <2>2, <2>3, Zenon DEF StoreAt
  <2>4. CASE S # {}
    <3>1. S \in SUBSET (0..r) /\ r \in Nat
        BY <1>2
    <3>2. S \in SUBSET (1..r)
        BY Zenon
    <3>3. Max(S) \in S
      <4> HIDE DEF S
      <4>1. QED BY <2>4, <3>1, MaxNat, Zenon
    <3>4. log'[Max(S)] = log[Max(S)]
      <4> HIDE DEF S
      <4>1. QED BY <2>1, <3>2, <3>3, Zenon
    <3>5. StoreAt(q, r)' = log'[Max(S)].value
        BY <2>2, <2>4, Zenon DEF StoreAt
    <3>6. StoreAt(q, r) = log[Max(S)].value
        BY <2>4, Zenon DEF StoreAt
    <3>7. QED BY <3>4, <3>5, <3>6, Zenon
  <2>5. QED BY <2>3, <2>4, Zenon
<1>6. QED BY <1>3, <1>4, <1>5, Zenon DEF Grown

\* What was held since r is held since r in a longer log, and since any
\* earlier revision.
LEMMA HeldGrown ==
    ASSUME LogT, Grown, NEW p \in Paths, NEW v, NEW r \in Nat, HeldSince(p, v, r)
    PROVE  HeldSince(p, v, r)'
<1>1. PICK i \in r..Len(log) : StoreAt(p, i) = v
    BY Zenon DEF HeldSince
<1>2. Len(log) \in Nat /\ Len(log') \in Nat /\ Len(log) <= Len(log')
    BY Elements DEF Grown, LogT
<1>3. i \in 0..Len(log) /\ i \in r..Len(log')
    BY <1>1, <1>2
<1>4. StoreAt(p, i)' = v
    BY <1>1, <1>3, Zenon DEF Grown
<1>5. QED BY <1>3, <1>4, Zenon DEF HeldSince

\* A value held at or after k is held at or after anything before k.
LEMMA HeldEarlier ==
    ASSUME NEW p, NEW v, NEW k \in Nat, NEW r \in Nat, r <= k, LogT, HeldSince(p, v, k)
    PROVE  HeldSince(p, v, r)
<1>1. PICK i \in k..Len(log) : StoreAt(p, i) = v
    BY Zenon DEF HeldSince
<1>2. i \in r..Len(log)
    BY <1>1, Elements
<1>3. QED BY <1>1, <1>2, Zenon DEF HeldSince

\* What is stored at a revision has been held since it.
LEMMA HeldHere ==
    ASSUME LogT, NEW p, NEW r \in Nat, NEW i \in r..Len(log)
    PROVE  HeldSince(p, StoreAt(p, i), r)
BY Zenon DEF HeldSince

\* Without a change in between, what was held since k is held since b.
LEMMA HeldForward ==
    ASSUME LogT, NEW p \in Paths, NEW v, NEW k \in Nat, NEW b \in Nat, k <= b, b <= Len(log),
           \A i \in k + 1..b : log[i].path # p, HeldSince(p, v, k)
    PROVE  HeldSince(p, v, b)
<1>0. Len(log) \in Nat
    BY Elements
<1>1. PICK i \in k..Len(log) : StoreAt(p, i) = v
    BY Zenon DEF HeldSince
<1>2. CASE b <= i
  <2>1. i \in b..Len(log)
      BY <1>0, <1>1, <1>2
  <2>2. QED BY <1>1, <2>1, Zenon DEF HeldSince
<1>3. CASE i <= b
  <2>1. i \in Nat /\ \A j \in i + 1..b : log[j].path # p
      BY <1>0, <1>1
  <2>2. StoreAt(p, i) = StoreAt(p, b)
      BY <1>3, <2>1, StoreSame, Zenon
  <2>3. b \in b..Len(log)
      BY <1>0
  <2>4. QED BY <1>1, <2>2, <2>3, Zenon DEF HeldSince
<1>4. QED BY <1>0, <1>1, <1>2, <1>3

\* A step keeps what the cache may hold for a path.
HasMoment(p) == \E k \in Nat : Moment(p, k)
Carries(p) == /\ HasMoment(p) => HasMoment(p)'
              /\ \A v : v # Absent /\ Current(p, v) => Current(p, v)'

\* Where the revision stays, the row stays or gets its first value.
LEMMA CarriedRow ==
    ASSUME LogT, RowT, Grown, NEW p \in Paths, revision' = revision,
           known[p].value \in {Absent, known'[p].value}
    PROVE  Carries(p)
<1>1. Len(log) \in Nat /\ Len(log') \in Nat /\ Len(log) <= Len(log') /\ revision \in Nat
    BY Elements DEF Grown, LogT, RowT
<1>2. ASSUME NEW k \in Nat, Moment(p, k) PROVE Moment(p, k)'
  <2>1. k \in revision..Len(log) /\ StoreAt(p, k) \in {Absent, known[p].value}
      BY <1>2, Zenon DEF Moment
  <2>2. k \in 0..Len(log) /\ k \in revision'..Len(log')
      BY <1>1, <2>1
  <2>3. StoreAt(p, k)' = StoreAt(p, k)
      BY <2>2, Zenon DEF Grown
  <2>4. StoreAt(p, k)' \in {Absent, known'[p].value}
      BY <2>1, <2>3, Zenon
  <2>5. QED BY <2>2, <2>4, Zenon DEF Moment
<1>3. HasMoment(p) => HasMoment(p)'
    BY <1>2, Zenon DEF HasMoment
<1>4. ASSUME NEW v, Current(p, v) PROVE Current(p, v)'
  <2>1. PICK k \in Nat : Moment(p, k) /\ HeldSince(p, v, k)
      BY <1>4, Zenon DEF Current
  <2>2. Moment(p, k)' /\ HeldSince(p, v, k)'
      BY <1>2, <2>1, HeldGrown, Zenon
  <2>3. QED BY <2>2, Zenon DEF Current
<1>5. QED BY <1>3, <1>4, Zenon DEF Carries

\* Where the revision moves over changes of other paths, the row stays.
LEMMA CarriedOver ==
    ASSUME LogT, RowT, NEW p \in Paths, NEW b \in revision..Len(log), revision' = b,
           \A i \in revision + 1..b : log[i].path # p,
           known[p].value = known'[p].value, log' = log
    PROVE  Carries(p)
<1>1. Len(log) \in Nat /\ revision \in Nat /\ b \in Nat /\ revision <= b /\ b <= Len(log)
    BY Elements DEF RowT
<1>2. ASSUME NEW k \in Nat, Moment(p, k)
      PROVE  \E j \in Nat : /\ Moment(p, j)'
                            /\ \A v : HeldSince(p, v, k) => HeldSince(p, v, j)'
  <2>1. k \in revision..Len(log) /\ StoreAt(p, k) \in {Absent, known[p].value}
      BY <1>2, Zenon DEF Moment
  <2>2. CASE b <= k
    <3>1. k \in revision'..Len(log')
        BY <1>1, <2>1, <2>2
    <3>2. Moment(p, k)'
        BY <2>1, <3>1, SameLog, Zenon DEF Moment
    <3>3. QED BY <3>2, SameLog, Zenon
  <2>3. CASE k <= b
    <3>1. \A i \in k + 1..b : log[i].path # p
        BY <1>1, <2>1
    <3>2. StoreAt(p, k) = StoreAt(p, b)
        BY <1>1, <2>3, <3>1, StoreSame, Zenon
    <3>3. b \in revision'..Len(log')
        BY <1>1
    <3>4. Moment(p, b)'
        BY <2>1, <3>2, <3>3, SameLog, Zenon DEF Moment
    <3>5. \A v : HeldSince(p, v, k) => HeldSince(p, v, b)
        BY <1>1, <2>3, <3>1, HeldForward, Zenon
    <3>6. QED BY <1>1, <3>4, <3>5, SameLog, Zenon
  <2>4. QED BY <1>1, <2>1, <2>2, <2>3
<1>3. HasMoment(p) => HasMoment(p)'
    BY <1>2, Zenon DEF HasMoment
<1>4. ASSUME NEW v, Current(p, v) PROVE Current(p, v)'
    BY <1>2, <1>4, Zenon DEF Current
<1>5. QED BY <1>3, <1>4, Zenon DEF Carries

\* A change that brings the value its row shows already.
LEMMA CarriedChange ==
    ASSUME LogT, RowT, NEW i \in revision + 1..Len(log), revision' = i, NEW p \in Paths,
           log[i].path = p, log[i].value # Absent, known[p].value = log[i].value,
           \A j \in revision + 1..i - 1 : log[j].path # p,
           known'[p].value = known[p].value, log' = log
    PROVE  Carries(p)
<1>1. Len(log) \in Nat /\ revision \in Nat /\ i \in Nat /\ revision < i /\ i <= Len(log)
    BY Elements DEF RowT
<1>2. StoreAt(p, i) = known[p].value /\ i \in 1..Len(log)
    BY <1>1, StoreHere
<1>3. i \in revision'..Len(log') /\ StoreAt(p, i)' = known'[p].value
    BY <1>1, <1>2, SameLog
<1>4. Moment(p, i)'
    BY <1>3, Zenon DEF Moment
<1>5. ASSUME NEW v, v # Absent, Current(p, v) PROVE Current(p, v)'
  <2>1. PICK k \in Nat : Moment(p, k) /\ HeldSince(p, v, k)
      BY <1>5, Zenon DEF Current
  <2>2. k \in revision..Len(log) /\ StoreAt(p, k) \in {Absent, known[p].value}
      BY <2>1, Zenon DEF Moment
  <2>3. PICK j \in k..Len(log) : StoreAt(p, j) = v
      BY <2>1, Zenon DEF HeldSince
  <2>4. CASE i <= k
    <3>1. k \in revision'..Len(log')
        BY <1>1, <2>2, <2>4
    <3>2. Moment(p, k)'
        BY <2>2, <3>1, SameLog, Zenon DEF Moment
    <3>3. QED BY <2>1, <3>2, SameLog, Zenon DEF Current
  <2>5. CASE k < i /\ i <= j
    <3>1. j \in i..Len(log)
        BY <1>1, <2>3, <2>5
    <3>2. HeldSince(p, v, i)
        BY <2>3, <3>1, Zenon DEF HeldSince
    <3>3. QED BY <1>1, <1>4, <3>2, SameLog, Zenon DEF Current
  <2>6. CASE j < i
    <3>1. k \in Nat /\ j \in Nat /\ k <= j /\ j <= Len(log) /\ revision <= k
        BY <1>1, <2>2, <2>3
    <3>2. \A m \in k + 1..j : log[m].path # p
        BY <1>1, <2>6, <3>1
    <3>3. StoreAt(p, k) = v
        BY <2>3, <3>1, <3>2, StoreSame, Zenon
    <3>4. v = StoreAt(p, i)
        BY <1>2, <1>5, <2>2, <3>3, Zenon
    <3>5. i \in i..Len(log)
        BY <1>1
    <3>6. HeldSince(p, v, i)
        BY <3>4, <3>5, Zenon DEF HeldSince
    <3>7. QED BY <1>1, <1>4, <3>6, SameLog, Zenon DEF Current
  <2>7. QED BY <1>1, <2>2, <2>3, <2>4, <2>5, <2>6
<1>6. QED BY <1>1, <1>4, <1>5, Zenon DEF Carries, HasMoment

\* A moment covers whatever the store holds now.
LEMMA MomentCovers ==
    ASSUME LogT', RowT', NEW p \in Paths, HasMoment(p)'
    PROVE  Current(p, StoreAt(p, Len(log)))'
<1>1. PICK k \in Nat : Moment(p, k)'
    BY Zenon DEF HasMoment
<1>2. k \in revision'..Len(log') /\ revision' \in Nat /\ Len(log') \in Nat
    BY <1>1 DEF Moment, LogT, RowT
<1>3. Len(log') \in k..Len(log')
    BY <1>2
<1>4. HeldSince(p, StoreAt(p, Len(log)), k)'
    BY <1>3, Zenon DEF HeldSince
<1>5. QED BY <1>1, <1>4, Zenon DEF Current

-----------------------------------------------------------------------------
(* What a step may do to the reads, the cache and the rows.                *)

\* The step forgets the cached value of p and every read of p that may fill it.
Dropped(p) == /\ cache'[p] = Absent
              /\ \A x \in Fields : calls'[x].current => calls'[x].path # p

\* The step leaves a followed path a moment, and what was read of it current or forgotten.
KeptFresh == \A p \in Paths : Followed(p)' =>
                 HasMoment(p)' /\ (Dropped(p) \/ (Followed(p) /\ Carries(p)))

\* A call that may fill the cache was there before or begins now.
CallsKept ==
    \A x \in Fields : calls'[x].current =>
        \/ /\ calls[x].current
           /\ calls'[x].path = calls[x].path /\ calls'[x].since = calls[x].since
        \/ log' = log /\ calls'[x].path \in Paths /\ calls'[x].since = Len(log)

\* A cached value was there before or is what such a call has read.
CacheKept ==
    \A p \in Paths : \/ cache'[p] \in {Absent, cache[p]}
                     \/ /\ log' = log
                        /\ \E x \in Fields : /\ calls[x].current /\ calls[x].path = p
                                             /\ \E r \in calls[x].since..Len(log) :
                                                   cache'[p] = StoreAt(p, r)

\* The step leaves the put alone or forgets what was read of its path.
PutKept ==
    put'.returned => put' = put \/ \A p \in Paths : put'.path = p => Dropped(p)

\* Rows that stay fresh have their moment.
LEMMA MomentsKept ==
    ASSUME KeptFresh
    PROVE  MomentInv'
BY Zenon DEF KeptFresh, MomentInv, HasMoment

\* What a read may bring stays current while rows, calls and the put are kept.
LEMMA ReadsKept ==
    ASSUME IInv, Grown, Len(log') \in {Len(log), Len(log) + 1}, LogT', RowT', ReadT',
           KeptFresh, CallsKept, PutKept
    PROVE  ReadInv'
<1> SUFFICES ASSUME NEW x \in Fields, calls'[x].current
             PROVE  /\ calls'[x].path # Absent
                    /\ put'.returned /\ put'.path = calls'[x].path => put'.at <= calls'[x].since
                    /\ (Followed(calls[x].path) => \A r \in calls[x].since..Len(log) :
                          StoreAt(calls[x].path, r) # Absent =>
                             Current(calls[x].path, StoreAt(calls[x].path, r)))'
    BY Zenon DEF ReadInv
<1>1. PICK p, s : p = calls'[x].path /\ s = calls'[x].since
    BY Zenon
<1>2. calls[x].path \in Paths \cup {Absent} /\ calls[x].since \in Nat
    BY DEF IInv, TypeInv, ReadT, CallType
<1>3. \/ calls[x].current /\ p = calls[x].path /\ s = calls[x].since
      \/ log' = log /\ p \in Paths /\ s = Len(log)
    BY <1>1, Zenon DEF CallsKept
<1>4. calls[x].current => calls[x].path \in Paths
    BY <1>2, Zenon DEF IInv, ReadInv
<1>5. p \in Paths /\ p # Absent
    BY <1>3, <1>4, WatchConstants, Zenon DEF Paths
<1>6. Len(log) \in Nat /\ Len(log') \in Nat
    BY Elements DEF IInv, TypeInv, LogT
<1>7. s \in Nat
    BY <1>2, <1>3, <1>6
<1>8. put'.returned /\ put'.path = p => put'.at <= s
  <2> SUFFICES ASSUME put'.returned, put'.path = p PROVE put'.at <= s
      BY Zenon
  <2>1. ~Dropped(p)
      BY <1>1, Zenon DEF Dropped
  <2>2. put' = put
      BY <1>5, <2>1, Zenon DEF PutKept
  <2>3. CASE calls[x].current /\ p = calls[x].path /\ s = calls[x].since
      BY <2>2, <2>3, Zenon DEF IInv, ReadInv
  <2>4. CASE s = Len(log)
    <3>1. put.at <= Len(log)
        BY <1>6 DEF IInv, TypeInv, ReadT
    <3>2. QED BY <2>2, <2>4, <3>1
  <2>5. QED BY <1>3, <2>3, <2>4, Zenon
<1>9. ASSUME Followed(p)', NEW r \in s..Len(log'), StoreAt(p, r)' # Absent
      PROVE  Current(p, StoreAt(p, r))'
  <2>1. HasMoment(p)' /\ Followed(p) /\ Carries(p)
      BY <1>1, <1>5, <1>9, Zenon DEF KeptFresh, Dropped
  <2>2. CASE r = Len(log')
    <3>1. Current(p, StoreAt(p, Len(log)))'
        BY <1>5, <2>1, MomentCovers, Zenon
    <3>2. QED BY <2>2, <3>1, Zenon
  <2>3. CASE r # Len(log')
    <3>1. r \in 0..Len(log) /\ r \in s..Len(log) /\ (log' = log => s # Len(log))
        BY <1>6, <1>7, <1>9, <2>3
    <3>2. calls[x].current /\ p = calls[x].path /\ s = calls[x].since
        BY <1>3, <3>1, Zenon
    <3>3. StoreAt(p, r)' = StoreAt(p, r)
        BY <1>5, <3>1, Zenon DEF Grown
    <3>4. Current(p, StoreAt(p, r))
        BY <1>9, <2>1, <3>1, <3>2, <3>3, Zenon DEF IInv, ReadInv
    <3>5. PICK v : v = StoreAt(p, r)
        BY Zenon
    <3>6. Current(p, v)' /\ v = StoreAt(p, r)'
        BY <1>9, <2>1, <3>3, <3>4, <3>5, Zenon DEF Carries
    <3>7. QED BY <3>6, Zenon
  <2>4. QED BY <2>2, <2>3, Zenon
<1>10. QED BY <1>1, <1>5, <1>8, <1>9, Zenon

\* A cached value the step keeps stays as good as it was.
LEMMA CacheStays ==
    ASSUME IInv, Grown, KeptFresh, CacheKept, PutKept, NEW p \in Paths, cache'[p] # Absent
    PROVE  /\ put'.returned /\ put'.path = p => HeldSince(p, cache[p], put.at)'
           /\ Followed(p)' => Current(p, cache[p])'
<1>1. PICK v : v = cache'[p]
    BY Zenon
<1>2. LogT /\ Len(log) \in Nat
    BY Elements, Zenon DEF IInv, TypeInv
<1>3. ~Dropped(p)
    BY Zenon DEF Dropped
<1>4. CASE v = cache[p]
  <2>1. put'.returned /\ put'.path = p => HeldSince(p, v, put.at)'
    <3> SUFFICES ASSUME put'.returned, put'.path = p PROVE HeldSince(p, v, put.at)'
        BY Zenon
    <3>1. put' = put
        BY <1>3, Zenon DEF PutKept
    <3>2. HeldSince(p, v, put.at) /\ put.at \in Nat
      <4>1. HeldSince(p, v, put.at)
          BY <1>1, <1>4, <3>1, Zenon DEF IInv, CacheInv
      <4>2. put.at \in Nat
          BY <1>2 DEF IInv, TypeInv, ReadT
      <4>3. QED BY <4>1, <4>2
    <3>3. PICK a \in Nat : a = put.at
        BY <3>2, Zenon
    <3>4. HeldSince(p, v, a)'
        BY <1>2, <3>2, <3>3, HeldGrown, Zenon
    <3>5. QED BY <3>1, <3>3, <3>4, Zenon
  <2>2. Followed(p)' => Current(p, v)'
      BY <1>1, <1>3, <1>4, Zenon DEF KeptFresh, Carries, IInv, CacheInv
  <2>3. QED BY <1>1, <2>1, <2>2, Zenon
<1>5. CASE v # cache[p]
  <2>1. PICK x \in Fields : /\ log' = log /\ calls[x].current /\ calls[x].path = p
                            /\ \E r \in calls[x].since..Len(log) : v = StoreAt(p, r)
      BY <1>1, <1>5, Zenon DEF CacheKept
  <2>0. PICK r \in calls[x].since..Len(log) : v = StoreAt(p, r)
      BY <2>1, Zenon
  <2>2. calls[x].since \in Nat /\ r \in Nat
      BY <1>2, <2>1 DEF IInv, TypeInv, ReadT, CallType
  <2>3. put'.returned /\ put'.path = p => HeldSince(p, v, put.at)'
    <3> SUFFICES ASSUME put'.returned, put'.path = p PROVE HeldSince(p, v, put.at)'
        BY Zenon
    <3>1. put' = put
        BY <1>3, Zenon DEF PutKept
    <3>2. put.at <= calls[x].since
        BY <2>1, <3>1, Zenon DEF IInv, ReadInv
    <3>3. PICK a : a = put.at
        BY Zenon
    <3>4. a \in Nat
        BY <1>2, <3>3 DEF IInv, TypeInv, ReadT
    <3>5. r \in a..Len(log)
        BY <1>2, <2>0, <2>2, <3>2, <3>3, <3>4
    <3>6. HeldSince(p, v, a)
        BY <2>0, <3>5, Zenon DEF HeldSince
    <3>7. QED BY <1>2, <2>1, <3>1, <3>3, <3>6, SameLog, Zenon
  <2>4. Followed(p)' => Current(p, v)'
    <3> SUFFICES ASSUME Followed(p)' PROVE Current(p, v)'
        BY Zenon
    <3>1. Followed(p) /\ Carries(p)
        BY <1>3, Zenon DEF KeptFresh
    <3>2. Current(p, v)
        BY <1>1, <2>0, <2>1, <3>1, Zenon DEF IInv, ReadInv
    <3>3. QED BY <1>1, <3>1, <3>2, Zenon DEF Carries
  <2>5. QED BY <1>1, <2>3, <2>4, Zenon
<1>6. QED BY <1>4, <1>5, Zenon

\* The steps that leave the rows and the registry alone, or only take from them.
LEMMA FreshKept ==
    ASSUME IInv, Grown, revision' = revision,
           \A p \in Paths : Followed(p)' => Followed(p) /\ known[p].value \in {Absent, known'[p].value}
    PROVE  KeptFresh
<1> SUFFICES ASSUME NEW p \in Paths, Followed(p)' PROVE HasMoment(p)' /\ Followed(p) /\ Carries(p)
    BY Zenon DEF KeptFresh
<1>1. Followed(p) /\ known[p].value \in {Absent, known'[p].value}
    BY Zenon
<1>2. Carries(p)
    BY <1>1, CarriedRow, Zenon DEF IInv, TypeInv
<1>3. HasMoment(p)
    BY <1>1, Zenon DEF IInv, MomentInv, HasMoment
<1>4. QED BY <1>1, <1>2, <1>3, Zenon DEF Carries

\* Rows that are kept or dropped stay ahead of a revision that does not move.
LEMMA StreamKept ==
    ASSUME IInv, Grown, revision' = revision,
           \A p \in Paths : known'[p].revision > 0 => known'[p] = known[p]
    PROVE  NeverBehindStream'
<1> SUFFICES ASSUME NEW p \in Paths, known'[p].revision > 0
             PROVE  HeldSince(p, known[p].value, revision)'
    BY Zenon DEF NeverBehindStream
<1>1. known'[p] = known[p] /\ LogT
    BY Zenon DEF IInv, TypeInv
<1>2. PICK v, r : v = known[p].value /\ r = revision
    BY Zenon
<1>3. HeldSince(p, v, r)
    BY <1>1, <1>2, Zenon DEF IInv, NeverBehindStream
<1>4. r \in Nat
    BY <1>2, Elements DEF IInv, TypeInv, RowT
<1>5. HeldSince(p, v, r)'
    BY <1>1, <1>3, <1>4, HeldGrown, Zenon
<1>6. QED BY <1>1, <1>2, <1>5, Zenon

-----------------------------------------------------------------------------
(* What a step leaves alone keeps its part of the invariant.               *)

\* The revision, the length of the log and their bound are naturals in order.
LEMMA Numbers ==
    ASSUME IInv
    PROVE  /\ LogT /\ Len(log) \in Nat /\ revision \in Nat /\ revision <= Len(log)
           /\ MaxRevision \in Nat /\ Len(log) <= MaxRevision
BY Elements, WatchConstants DEF IInv, TypeInv, LogT, RowT

\* The frame of the registrations and their counts.
LEMMA SameRegistry ==
    ASSUME IInv, UNCHANGED <<handlers, refs, watching>>
    PROVE  RegistryT' /\ RefInv'
<1>1. RegistryT'
    BY Zenon DEF IInv, TypeInv, RegistryT
<1>2. \A n : (WatchersOf(n) \cup HandlersOf(n))' = WatchersOf(n) \cup HandlersOf(n)
    BY Zenon DEF WatchersOf, HandlersOf
<1>3. RefInv'
    BY <1>2, Zenon DEF IInv, RefInv
<1>4. QED BY <1>1, <1>3

\* The frame of the rows.
LEMMA SameRows ==
    ASSUME IInv, Grown, UNCHANGED <<known, due, revision>>
    PROVE  RowT'
<1>1. Len(log') \in Nat /\ Len(log) <= Len(log')
    BY DEF Grown, LogT
<1>2. revision' \in 0..Len(log')
    BY <1>1, Numbers
<1>3. QED BY <1>2, Zenon DEF IInv, TypeInv, RowT

\* The frame of the loop and its session.
LEMMA SameLoop ==
    ASSUME IInv, Grown, UNCHANGED <<run, restart, session>>
    PROVE  LoopT'
<1>1. Len(log') \in Nat /\ Len(log) <= Len(log') /\ Len(log) \in Nat
    BY Numbers DEF Grown, LogT
<1>2. 0..Len(log) \subseteq 0..Len(log')
    BY <1>1
<1>3. QED BY <1>2 DEF IInv, TypeInv, LoopT

\* The frame of a pass; the revision may rise over its fence.
LEMMA SamePass ==
    ASSUME IInv, Grown, revision' \in Nat, revision <= revision', pass' = pass
    PROVE  PassT'
<1>1. Len(log') \in Nat /\ Len(log) <= Len(log') /\ Len(log) \in Nat /\ revision \in Nat
    BY Numbers DEF Grown, LogT
<1>2. 0..Len(log) \subseteq 0..Len(log') /\ 0..revision \subseteq 0..revision'
    BY <1>1
<1>3. QED BY <1>2 DEF IInv, TypeInv, PassT

\* The frame of the fields.
LEMMA SameFields ==
    ASSUME IInv, fields' = fields
    PROVE  FieldT'
BY Zenon DEF IInv, TypeInv, FieldT, FieldType

\* The frame of the cache, the reads and the put.
LEMMA SameReads ==
    ASSUME IInv, Grown, UNCHANGED <<cache, calls, put>>
    PROVE  ReadT' /\ CallsKept /\ CacheKept /\ PutKept
<1>1. Len(log') \in Nat /\ Len(log) <= Len(log') /\ Len(log) \in Nat
    BY Numbers DEF Grown, LogT
<1>2. 0..Len(log) \subseteq 0..Len(log')
    BY <1>1
<1>3. calls \in [Fields -> CallType]'
    BY <1>2 DEF IInv, TypeInv, ReadT, CallType
<1>4. put \in [path : Paths \cup {Absent}, at : 0..Len(log'), returned : BOOLEAN]
    BY <1>2 DEF IInv, TypeInv, ReadT
<1>5. ReadT'
    BY <1>3, <1>4, Zenon DEF IInv, TypeInv, ReadT
<1>6. CallsKept /\ CacheKept /\ PutKept
    BY Zenon DEF CallsKept, CacheKept, PutKept
<1>7. QED BY <1>5, <1>6

\* The frame of the count of disturbances.
LEMMA SameCount ==
    ASSUME IInv, disturbed' = disturbed
    PROVE  CountT'
BY Zenon DEF IInv, TypeInv, CountT

\* A disturbance stays within the bound.
LEMMA Disturbed ==
    ASSUME IInv, Disturb
    PROVE  CountT'
BY WatchConstants DEF IInv, TypeInv, CountT, Disturb

\* Fields, their calls and handlers untouched agree as before.
LEMMA SameFieldInv ==
    ASSUME IInv, UNCHANGED <<fields, calls, handlers>>, run # "closed" <=> run' # "closed"
    PROVE  FieldInv'
BY Zenon DEF IInv, FieldInv

\* A session untouched keeps its scope; a pass may only end or lose its own.
LEMMA SameLoopInv ==
    ASSUME IInv, UNCHANGED <<session, refs, watching, revision>>, Closed <=> Closed',
           pass'.on => pass.on, pass'.scoped => pass.scoped
    PROVE  LoopInv'
BY Zenon DEF IInv, LoopInv, Scope

\* A pass untouched stays true of a log that grows.
LEMMA SamePassInv ==
    ASSUME IInv, Grown, UNCHANGED <<pass, refs>>
    PROVE  PassInv'
<1>1. /\ (pass.current # Absent => pass.fence <= pass.since)'
      /\ (pass.scoped => /\ pass.todo \subseteq Scope(refs)
                         /\ pass.current # Absent => pass.current \in Scope(refs))'
      /\ (pass.left \subseteq In({pass.current}))'
    BY Zenon DEF IInv, PassInv, Scope, In
<1>2. ASSUME NEW p \in (In(pass.listed) \cup (In({pass.current}) \ pass.left)) \ pass.present
      PROVE  HeldSince(p, Absent, pass.fence)'
  <2>1. PICK f : f = pass.fence
      BY Zenon
  <2>2. f \in Nat /\ p \in Paths
      BY <2>1, Numbers DEF IInv, TypeInv, PassT, In
  <2>3. HeldSince(p, Absent, f)
      BY <2>1, Zenon DEF IInv, PassInv
  <2>4. HeldSince(p, Absent, f)'
      BY <2>2, <2>3, HeldGrown, Numbers, Zenon
  <2>5. QED BY <2>1, <2>4, Zenon
<1>3. QED BY <1>1, <1>2, Zenon DEF PassInv, In

\* Rows, counts and handlers untouched agree as before.
LEMMA SameRowInv ==
    ASSUME IInv, UNCHANGED <<known, revision, refs, handlers>>
    PROVE  RowInv'
BY Zenon DEF IInv, RowInv, Unknown

\* Rows untouched stay fresh and never behind.
LEMMA SameFresh ==
    ASSUME IInv, Grown, UNCHANGED <<known, due, revision, refs>>
    PROVE  KeptFresh /\ NeverBehindStream'
<1>1. \A p \in Paths : Followed(p)' => Followed(p) /\ known[p].value \in {Absent, known'[p].value}
    BY Zenon DEF Followed
<1>2. QED BY <1>1, FreshKept, StreamKept, Zenon

\* What close has emptied stays empty.
LEMMA SameClosed ==
    ASSUME IInv, UNCHANGED <<known, cache, calls>>, run' = "closed" => run = "closed"
    PROVE  ClosedInv'
BY Zenon DEF IInv, ClosedInv, Unknown

\* The parts together.
LEMMA Assemble ==
    ASSUME IInv, Grown, Len(log') \in {Len(log), Len(log) + 1},
           RegistryT', RowT', LoopT', PassT', FieldT', ReadT', CountT',
           FieldInv', RefInv', LoopInv', PassInv', RowInv', ClosedInv', NeverBehindStream',
           KeptFresh, CallsKept, CacheKept, PutKept
    PROVE  IInv'
<1>1. LogT'
    BY Zenon DEF Grown
<1>2. ReadInv'
    BY <1>1, ReadsKept, Zenon
<1>3. CacheInv'
    BY CacheStays, Zenon DEF CacheInv
<1>4. QED BY <1>1, <1>2, <1>3, MomentsKept, Zenon DEF IInv, TypeInv

-----------------------------------------------------------------------------
(* The server and the cache.                                               *)

\* A write by anyone else on the server.
LEMMA WriteStep ==
    ASSUME IInv, Write
    PROVE  IInv'
<1>1. PICK p \in Paths, v \in Values \cup {Absent} : Commit(p, v)
    BY Zenon DEF Write
<1>2. UNCHANGED <<clientVars, loopVars, pass, fields, readVars, disturbed>>
    BY Zenon DEF Write
<1> USE <1>2 DEF clientVars, loopVars, readVars
<1>3. Grown /\ Len(log') \in {Len(log), Len(log) + 1}
    BY <1>1, CommitGrows, Numbers, Zenon
<1>4. revision' \in Nat /\ revision <= revision'
    BY Numbers
<1>5. RegistryT' /\ RefInv' /\ FieldT' /\ CountT' /\ FieldInv' /\ RowInv' /\ ClosedInv'
    BY SameRegistry, SameFields, SameCount, SameFieldInv, SameRowInv, SameClosed, Zenon
<1>6. RowT' /\ LoopT' /\ PassT' /\ PassInv'
    BY <1>3, <1>4, SameRows, SameLoop, SamePass, SamePassInv, Zenon
<1>7. LoopInv'
    BY SameLoopInv, Zenon DEF Closed
<1>8. ReadT' /\ CallsKept /\ CacheKept /\ PutKept /\ KeptFresh /\ NeverBehindStream'
    BY <1>3, SameReads, SameFresh, Zenon
<1>9. QED BY <1>3, <1>5, <1>6, <1>7, <1>8, Assemble, Zenon

\* putParameter has written on the server and not returned yet.
LEMMA SendPutStep ==
    ASSUME IInv, SendPut
    PROVE  IInv'
<1>1. PICK p \in Paths, v \in Values \cup {Absent} :
          Commit(p, v) /\ put' = [path |-> p, at |-> Len(log) + 1, returned |-> FALSE]
    BY Zenon DEF SendPut
<1>2. UNCHANGED <<clientVars, loopVars, pass, fields, cache, calls, disturbed>>
    BY Zenon DEF SendPut
<1> USE <1>2 DEF clientVars, loopVars, readVars
<1>3. Grown /\ Len(log') = Len(log) + 1 /\ Len(log') \in {Len(log), Len(log) + 1}
    BY <1>1, CommitGrows, Numbers, Zenon
<1>4. revision' \in Nat /\ revision <= revision'
    BY Numbers
<1>5. RegistryT' /\ RefInv' /\ FieldT' /\ CountT' /\ FieldInv' /\ RowInv' /\ ClosedInv'
    BY SameRegistry, SameFields, SameCount, SameFieldInv, SameRowInv, SameClosed, Zenon
<1>6. RowT' /\ LoopT' /\ PassT' /\ PassInv'
    BY <1>3, <1>4, SameRows, SameLoop, SamePass, SamePassInv, Zenon
<1>7. LoopInv'
    BY SameLoopInv, Zenon DEF Closed
<1>8. KeptFresh /\ NeverBehindStream'
    BY <1>3, SameFresh, Zenon
<1>9. CallsKept /\ CacheKept
    BY Zenon DEF CallsKept, CacheKept
<1>10. ~put'.returned /\ PutKept
    BY <1>1 DEF PutKept
<1>11. ReadT'
  <2>1. 0..Len(log) \subseteq 0..Len(log') /\ Len(log) + 1 \in 0..Len(log')
      BY <1>3, Numbers
  <2>2. calls' \in [Fields -> CallType]'
      BY <2>1 DEF IInv, TypeInv, ReadT, CallType
  <2>3. put' \in [path : Paths \cup {Absent}, at : 0..Len(log'), returned : BOOLEAN]
      BY <1>1, <2>1
  <2>4. QED BY <2>2, <2>3, Zenon DEF IInv, TypeInv, ReadT
<1>12. QED BY <1>3, <1>5, <1>6, <1>7, <1>8, <1>9, <1>10, <1>11, Assemble, Zenon

\* An invalidation drops the entries and the fills under way, and adds nothing.
LEMMA Invalidated ==
    ASSUME IInv, log' = log, NEW S, Invalidate(S)
    PROVE  /\ cache' \in [Paths -> Values \cup {Absent}] /\ calls' \in [Fields -> CallType]'
           /\ \A x \in Fields : /\ calls'[x].path = calls[x].path /\ calls'[x].since = calls[x].since
                                /\ calls'[x].current => calls[x].current
           /\ \A p \in Paths : p \in S => Dropped(p)
           /\ CallsKept /\ CacheKept
<1>1. cache \in [Paths -> Values \cup {Absent}] /\ calls \in [Fields -> CallType]
    BY Zenon DEF IInv, TypeInv, ReadT
<1>2. CallType' = CallType
    BY Zenon DEF CallType
<1>3. \A p \in Paths : cache'[p] = IF p \in S THEN Absent ELSE cache[p]
    BY Zenon DEF Invalidate
<1>4. \A x \in Fields : calls'[x] = IF calls[x].path \in S
                                   THEN [calls[x] EXCEPT !.current = FALSE] ELSE calls[x]
    BY Zenon DEF Invalidate
<1>5. cache' \in [Paths -> Values \cup {Absent}]
    BY <1>1 DEF Invalidate
<1>6. ASSUME NEW x \in Fields
      PROVE  /\ calls'[x] \in CallType
             /\ calls'[x].path = calls[x].path /\ calls'[x].since = calls[x].since
             /\ calls[x].path \in S => ~calls'[x].current
             /\ calls'[x].current => calls[x].current
  <2>1. CASE calls[x].path \in S
    <3>1. PICK c : c = calls[x] /\ c \in CallType
        BY <1>1, Zenon
    <3>2. calls'[x] = [c EXCEPT !.current = FALSE]
        BY <1>4, <2>1, <3>1, Zenon
    <3>3. /\ calls'[x] \in CallType /\ calls'[x].path = c.path /\ calls'[x].since = c.since
          /\ calls'[x].current = FALSE
        BY <3>1, <3>2, Zenon DEF CallType
    <3>4. QED BY <3>1, <3>3, Zenon
  <2>2. CASE calls[x].path \notin S
      BY <1>1, <1>4, <2>2, Zenon
  <2>3. QED BY <2>1, <2>2
<1>7. calls' = [x \in Fields |-> calls'[x]]
    BY Zenon DEF Invalidate
<1>8. calls' \in [Fields -> CallType]'
    BY <1>2, <1>6, <1>7, Zenon
<1>9. \A p \in Paths : p \in S => Dropped(p)
    BY <1>3, <1>6, Zenon DEF Dropped
<1>10. CallsKept /\ CacheKept
    BY <1>3, <1>6, Zenon DEF CallsKept, CacheKept
<1>11. QED BY <1>5, <1>6, <1>8, <1>9, <1>10

\* putParameter returns, forgetting what was cached meanwhile.
LEMMA PutReturnsStep ==
    ASSUME IInv, PutReturns
    PROVE  IInv'
<1>1. /\ Invalidate({put.path}) /\ put' = [put EXCEPT !.returned = TRUE]
      /\ UNCHANGED <<log, clientVars, loopVars, pass, fields, disturbed>>
    BY Zenon DEF PutReturns
<1> USE <1>1 DEF clientVars, loopVars
<1>2. Grown /\ Len(log') \in {Len(log), Len(log) + 1} /\ revision' \in Nat /\ revision <= revision'
    BY SameLog, Numbers
<1>3. RegistryT' /\ RefInv' /\ FieldT' /\ CountT' /\ RowInv'
    BY SameRegistry, SameFields, SameCount, SameRowInv, Zenon
<1>4. RowT' /\ LoopT' /\ PassT' /\ PassInv' /\ KeptFresh /\ NeverBehindStream'
    BY <1>2, SameRows, SameLoop, SamePass, SamePassInv, SameFresh, Zenon
<1>5. LoopInv'
    BY SameLoopInv, Zenon DEF Closed
<1>6. /\ cache' \in [Paths -> Values \cup {Absent}] /\ calls' \in [Fields -> CallType]'
      /\ \A x \in Fields : calls'[x].path = calls[x].path /\ (calls'[x].current => calls[x].current)
      /\ \A p \in Paths : p \in {put.path} => Dropped(p)
      /\ CallsKept /\ CacheKept
    BY Invalidated
<1>7. put \in [path : Paths \cup {Absent}, at : 0..Len(log), returned : BOOLEAN]
    BY Zenon DEF IInv, TypeInv, ReadT
<1>8. put' \in [path : Paths \cup {Absent}, at : 0..Len(log'), returned : BOOLEAN] /\ put'.path = put.path
  <2>1. PICK c : c = put /\ c \in [path : Paths \cup {Absent}, at : 0..Len(log), returned : BOOLEAN]
      BY <1>7, Zenon
  <2>2. put' = [c EXCEPT !.returned = TRUE]
      BY <2>1, Zenon
  <2>3. put' \in [path : Paths \cup {Absent}, at : 0..Len(log), returned : BOOLEAN] /\ put'.path = c.path
      BY <2>1, <2>2, Zenon
  <2>4. QED BY <2>1, <2>3, Zenon
<1>9. ReadT' /\ PutKept
    BY <1>6, <1>8, Zenon DEF ReadT, PutKept
<1>10. FieldInv'
    BY <1>6, Zenon DEF IInv, FieldInv
<1>11. ClosedInv'
    BY <1>6, Zenon DEF IInv, ClosedInv, CacheKept, Unknown
<1>12. QED BY <1>2, <1>3, <1>4, <1>5, <1>6, <1>9, <1>10, <1>11, Assemble, Zenon

\* A cached value expires.
LEMMA ExpireStep ==
    ASSUME IInv, Expire
    PROVE  IInv'
<1>1. PICK p \in Paths : cache' = [cache EXCEPT ![p] = Absent]
    BY Zenon DEF Expire
<1>2. UNCHANGED <<log, clientVars, loopVars, pass, fields, calls, put, disturbed>>
    BY Zenon DEF Expire
<1> USE <1>2 DEF clientVars, loopVars
<1>3. Grown /\ Len(log') \in {Len(log), Len(log) + 1} /\ revision' \in Nat /\ revision <= revision'
    BY SameLog, Numbers
<1>4. RegistryT' /\ RefInv' /\ FieldT' /\ CountT' /\ RowInv' /\ FieldInv'
    BY SameRegistry, SameFields, SameCount, SameRowInv, SameFieldInv, Zenon
<1>5. RowT' /\ LoopT' /\ PassT' /\ PassInv' /\ KeptFresh /\ NeverBehindStream'
    BY <1>3, SameRows, SameLoop, SamePass, SamePassInv, SameFresh, Zenon
<1>6. LoopInv'
    BY SameLoopInv, Zenon DEF Closed
<1>7. cache \in [Paths -> Values \cup {Absent}]
    BY Zenon DEF IInv, TypeInv, ReadT
<1>8. cache' \in [Paths -> Values \cup {Absent}] /\ \A q \in Paths : cache'[q] \in {Absent, cache[q]}
    BY <1>1, <1>7
<1>9. ReadT' /\ CallsKept /\ CacheKept /\ PutKept
    BY <1>8, Zenon DEF IInv, TypeInv, ReadT, CallType, CallsKept, CacheKept, PutKept
<1>10. ClosedInv'
    BY <1>8, Zenon DEF IInv, ClosedInv, Unknown
<1>11. QED BY <1>3, <1>4, <1>5, <1>6, <1>9, <1>10, Assemble, Zenon

-----------------------------------------------------------------------------
(* The run loop.                                                           *)

SessionType == [namespaces : SUBSET Namespaces, scoped : BOOLEAN, full : BOOLEAN,
                fresh : BOOLEAN, since : 0..Len(log)]

\* A new session asks for the scope and starts no earlier than the revision.
LEMMA Turned ==
    ASSUME IInv, log' = log, NEW counts, NEW full \in BOOLEAN, Turn(counts, full)
    PROVE  /\ LoopT' /\ run' \in {"idle", "session"}
           /\ session'.scoped => session'.namespaces = Scope(counts)
           /\ session'.fresh => session'.since = Len(log)
<1>1. 0 \in 0..Len(log) /\ Len(log) \in 0..Len(log)
    BY Numbers
<1>2. Scope(counts) \in SUBSET Namespaces
    BY Zenon DEF Scope
<1>3. restart \in BOOLEAN
    BY Zenon DEF IInv, TypeInv, LoopT
<1>4. CASE Scope(counts) = {}
  <2>1. run' = "idle" /\ session' = NoSession /\ restart' = restart
      BY <1>4, Zenon DEF Turn
  <2>2. session' \in SessionType /\ session'.scoped = FALSE /\ session'.fresh = FALSE
      BY <1>1, <2>1, Zenon DEF NoSession, SessionType
  <2>3. QED BY <1>3, <2>1, <2>2, Zenon DEF LoopT, SessionType
<1>5. CASE Scope(counts) # {}
  <2>1. /\ run' = "session" /\ restart' = FALSE
        /\ session' = [namespaces |-> Scope(counts), scoped |-> TRUE, full |-> full,
                       fresh |-> TRUE, since |-> Len(log)]
      BY <1>5, Zenon DEF Turn
  <2>2. PICK N : N = Scope(counts)
      BY Zenon
  <2>3. /\ session' \in SessionType /\ session'.namespaces = N /\ session'.since = Len(log)
      BY <1>1, <1>2, <2>1, <2>2, Zenon DEF SessionType
  <2>4. QED BY <2>1, <2>2, <2>3, Zenon DEF LoopT, SessionType
<1>6. QED BY <1>4, <1>5

LoopTurn == Wake \/ BackoffEnds \/ SessionBreaks \/ SessionRestarts

\* The turns of the loop that touch no row.
LEMMA LoopTurnStep ==
    ASSUME IInv, LoopTurn
    PROVE  IInv'
<1>1. /\ UNCHANGED <<log, clientVars, pass, fields, readVars>>
      /\ disturbed' = disturbed \/ Disturb
      /\ run \in {"idle", "backoff", "session"}
      /\ \/ Turn(refs, due)
         \/ run' = "backoff" /\ session' = NoSession /\ restart' = restart
  <2>1. CASE Wake
      BY <2>1 DEF Wake
  <2>2. CASE BackoffEnds
      BY <2>2 DEF BackoffEnds
  <2>3. CASE SessionRestarts
      BY <2>3 DEF SessionRestarts
  <2>4. CASE SessionBreaks
      BY <2>4, Zenon DEF SessionBreaks
  <2>5. QED BY <2>1, <2>2, <2>3, <2>4, Zenon DEF LoopTurn
<1> USE <1>1 DEF clientVars, readVars
<1>2. Grown /\ Len(log') \in {Len(log), Len(log) + 1} /\ revision' \in Nat /\ revision <= revision'
    BY SameLog, Numbers
<1>3. run # "closed" /\ run' # "closed" /\ ~Closed'
    BY DEF Turn, Closed
<1>4. /\ LoopT'
      /\ session'.scoped => session'.namespaces = Scope(refs)
      /\ session'.fresh => revision <= session'.since
  <2>1. CASE Turn(refs, due)
    <3>1. PICK c, f : c = refs /\ f = due
        BY Zenon
    <3>2. Turn(c, f) /\ f \in BOOLEAN
        BY <2>1, <3>1, Zenon DEF IInv, TypeInv, RowT
    <3>3. /\ LoopT'
          /\ session'.scoped => session'.namespaces = Scope(c)
          /\ session'.fresh => session'.since = Len(log)
        BY <3>2, Turned, Zenon
    <3>4. session'.fresh => revision <= session'.since
        BY <3>3, Numbers
    <3>5. QED BY <3>1, <3>3, <3>4, Zenon
  <2>2. CASE run' = "backoff" /\ session' = NoSession /\ restart' = restart
    <3>1. 0 \in 0..Len(log)
        BY Numbers
    <3>2. NoSession \in SessionType /\ NoSession.scoped = FALSE /\ NoSession.fresh = FALSE
        BY <3>1, Zenon DEF NoSession, SessionType
    <3>3. QED BY <2>2, <3>2, Zenon DEF IInv, TypeInv, LoopT, SessionType
  <2>3. QED BY <2>1, <2>2
<1>5. LoopInv'
    BY <1>3, <1>4, Zenon DEF LoopInv, Scope
<1>6. RegistryT' /\ RefInv' /\ FieldT' /\ CountT' /\ RowInv' /\ FieldInv' /\ ClosedInv'
    BY <1>3, SameRegistry, SameFields, SameCount, Disturbed, SameRowInv, SameFieldInv, SameClosed, Zenon
<1>7. RowT' /\ PassT' /\ PassInv' /\ KeptFresh /\ NeverBehindStream'
    BY <1>2, SameRows, SamePass, SamePassInv, SameFresh, Zenon
<1>8. ReadT' /\ CallsKept /\ CacheKept /\ PutKept
    BY <1>2, SameReads, Zenon
<1>9. QED BY <1>2, <1>4, <1>5, <1>6, <1>7, <1>8, Assemble, Zenon

-----------------------------------------------------------------------------
(* The reconciliation pass, as far as it writes nothing.                   *)

PassType == [on : BOOLEAN, scoped : BOOLEAN, fence : 0..revision, paths : SUBSET Paths,
             todo : SUBSET Namespaces, current : Namespaces \cup {Absent}, left : SUBSET Paths,
             present : SUBSET Paths, listed : SUBSET Namespaces, since : 0..Len(log)]

\* Nothing is listed in a pass that lists no namespace.
LEMMA NoneListed == In({}) = {} /\ In({Absent}) = {}
BY WatchConstants DEF In, Paths, NamespaceOf

\* A pass with its fence kept looks back as far as before.
LEMMA PassHeld ==
    ASSUME IInv, log' = log, pass'.fence = pass.fence, NEW p, NEW v
    PROVE  HeldSince(p, v, pass.fence)' <=> HeldSince(p, v, pass.fence)
<1>1. PICK f : f = pass.fence
    BY Zenon
<1>2. HeldSince(p, v, f)' <=> HeldSince(p, v, f)
    BY SameLog, Numbers, Zenon
<1>3. QED BY <1>1, <1>2, Zenon

\* No pass lists nothing.
LEMMA NoPassOK ==
    ASSUME IInv, log' = log, revision' \in Nat, pass' = NoPass
    PROVE  PassT' /\ PassInv' /\ pass'.on = FALSE /\ pass'.scoped = FALSE
<1>1. 0 \in 0..Len(log) /\ 0 \in 0..revision'
    BY Numbers
<1>2. PassT'
    BY <1>1, Zenon DEF PassT, NoPass
<1>3. /\ pass'.on = FALSE /\ pass'.scoped = FALSE /\ pass'.current = Absent /\ pass'.left = {}
      /\ pass'.listed = {}
    BY Zenon DEF NoPass
<1>4. In({}) = {} /\ In({Absent}) = {}
    BY NoneListed
<1>5. PassInv'
    BY <1>3, <1>4, Zenon DEF PassInv, In
<1>6. QED BY <1>2, <1>3, <1>5, Zenon

PassQuiet == StartPass \/ ListNamespace \/ PageFails \/ PageTooLate

\* A pass begins with nothing listed and the present revision as its fence.
LEMMA StartPassOK ==
    ASSUME IInv, StartPass
    PROVE  PassT' /\ PassInv'
<1>1. /\ pass' = [NoPass EXCEPT !.on = TRUE, !.scoped = TRUE, !.fence = revision,
                                !.paths = {p \in Paths : known[p].value # Absent},
                                !.todo = Scope(refs)]
      /\ log' = log /\ revision' = revision /\ refs' = refs
    BY Zenon DEF StartPass, clientVars
<1>2. PICK P, N, r : P = {p \in Paths : known[p].value # Absent} /\ N = Scope(refs) /\ r = revision
    BY Zenon
<1>3. P \in SUBSET Paths /\ N \in SUBSET Namespaces /\ r \in 0..revision /\ 0 \in 0..Len(log)
    BY <1>2, Numbers DEF Scope
<1>4. pass' = [on |-> TRUE, scoped |-> TRUE, fence |-> r, paths |-> P, todo |-> N, current |-> Absent,
               left |-> {}, present |-> {}, listed |-> {}, since |-> 0]
    BY <1>1, <1>2, Zenon DEF NoPass
<1>5. PassT'
  <2>1. [on |-> TRUE, scoped |-> TRUE, fence |-> r, paths |-> P, todo |-> N, current |-> Absent,
         left |-> {}, present |-> {}, listed |-> {}, since |-> 0] \in PassType
      BY <1>3, Zenon DEF PassType
  <2>2. QED BY <1>1, <1>4, <2>1, Zenon DEF PassT, PassType
<1>6. /\ pass'.current = Absent /\ pass'.left = {} /\ pass'.listed = {} /\ pass'.todo = N
    BY <1>4, Zenon
<1>7. In({}) = {} /\ In({Absent}) = {}
    BY NoneListed
<1>8. PassInv'
    BY <1>1, <1>2, <1>6, <1>7, Zenon DEF PassInv, In, Scope
<1>9. QED BY <1>5, <1>8

\* A listing begins at the present length of the log, after the fence.
LEMMA ListNamespaceOK ==
    ASSUME IInv, ListNamespace
    PROVE  PassT' /\ PassInv' /\ pass'.on = pass.on /\ pass'.scoped = pass.scoped
<1>1. PICK n \in pass.todo : pass' = [pass EXCEPT !.current = n, !.todo = @ \ {n},
                                               !.left = In({n}), !.since = Len(log)]
    BY Zenon DEF ListNamespace
<1>2. log' = log /\ revision' = revision /\ refs' = refs /\ pass.current = Absent
    BY Zenon DEF ListNamespace, clientVars
<1>3. pass \in PassType
    BY Zenon DEF IInv, TypeInv, PassT, PassType
<1>4. n \in Namespaces /\ In({n}) \in SUBSET Paths /\ pass.todo \ {n} \in SUBSET Namespaces
    BY <1>1, <1>3, Zenon DEF PassType, In
<1>5. Len(log) \in 0..Len(log) /\ pass.fence <= Len(log)
    BY <1>3, Numbers DEF PassType
<1>6. pass' \in PassType
  <2>1. PICK l, t, s : l = In({n}) /\ t = pass.todo \ {n} /\ s = Len(log)
      BY Zenon
  <2>2. pass' = [pass EXCEPT !.current = n, !.todo = t, !.left = l, !.since = s]
      BY <1>1, <2>1, Zenon
  <2>3. QED BY <1>3, <1>4, <1>5, <2>1, <2>2, Zenon DEF PassType
<1>7. PassT'
    BY <1>2, <1>6, Zenon DEF PassT, PassType
<1>8. /\ pass'.current = n /\ pass'.left = In({n}) /\ pass'.todo = pass.todo \ {n}
      /\ pass'.since = Len(log) /\ pass'.fence = pass.fence /\ pass'.scoped = pass.scoped
      /\ pass'.listed = pass.listed /\ pass'.present = pass.present /\ pass'.on = pass.on
    BY <1>1, <1>3, Zenon DEF PassType
<1>9. ASSUME NEW p \in (In(pass'.listed) \cup (In({pass'.current}) \ pass'.left)) \ pass'.present
      PROVE  HeldSince(p, Absent, pass.fence)'
  <2>1. p \in In(pass.listed) \ pass.present
      BY <1>8, <1>9, Zenon
  <2>2. HeldSince(p, Absent, pass.fence)
      BY <2>1, Zenon DEF IInv, PassInv
  <2>3. QED BY <2>2, PassHeld, <1>2, <1>8, Zenon
<1>10. (pass.left \subseteq In({pass.current}))'
    BY <1>8, Zenon DEF In
<1>11. PassInv'
    BY <1>1, <1>2, <1>5, <1>8, <1>9, <1>10, Zenon DEF PassInv, IInv, In, Scope
<1>12. QED BY <1>7, <1>8, <1>11, Zenon

\* A namespace given up is not among the listed.
LEMMA UnlistedOK ==
    ASSUME IInv, pass' = Unlisted, UNCHANGED <<log, revision, refs>>
    PROVE  PassT' /\ PassInv' /\ pass'.on = pass.on /\ pass'.scoped = pass.scoped
<1>1. pass \in PassType
    BY Zenon DEF IInv, TypeInv, PassT, PassType
<1>2. 0 \in 0..Len(log)
    BY Numbers
<1>3. pass' \in PassType
    BY <1>1, <1>2, Zenon DEF PassType, Unlisted
<1>4. PassT'
    BY <1>3, Zenon DEF PassT, PassType
<1>5. /\ pass'.current = Absent /\ pass'.left = {} /\ pass'.todo = pass.todo
      /\ pass'.fence = pass.fence /\ pass'.scoped = pass.scoped
      /\ pass'.listed = pass.listed /\ pass'.present = pass.present /\ pass'.on = pass.on
    BY <1>1, Zenon DEF PassType, Unlisted
<1>6. ASSUME NEW p \in (In(pass'.listed) \cup (In({pass'.current}) \ pass'.left)) \ pass'.present
      PROVE  HeldSince(p, Absent, pass.fence)'
  <2>1. p \in In(pass.listed) \ pass.present
      BY <1>5, <1>6, NoneListed, Zenon
  <2>2. HeldSince(p, Absent, pass.fence)
      BY <2>1, Zenon DEF IInv, PassInv
  <2>3. QED BY <2>2, PassHeld, <1>5, Zenon
<1>11. PassInv'
    BY <1>5, <1>6, Zenon DEF PassInv, IInv, In, Scope
<1>12. QED BY <1>4, <1>5, <1>11, Zenon

\* The steps of a pass that touch no row.
LEMMA PassQuietStep ==
    ASSUME IInv, PassQuiet
    PROVE  IInv'
<1>1. /\ UNCHANGED <<log, clientVars, loopVars, fields, readVars>>
      /\ disturbed' = disturbed \/ Disturb
      /\ StartPass \/ ListNamespace \/ pass' = Unlisted
      /\ StartPass => ~Closed
  <2>1. CASE StartPass
      BY <2>1, Zenon DEF StartPass
  <2>2. CASE ListNamespace
      BY <2>2, Zenon DEF ListNamespace, StartPass
  <2>3. CASE PageFails
      BY <2>3, Zenon DEF PageFails, StartPass
  <2>4. CASE PageTooLate
      BY <2>4, Zenon DEF PageTooLate, StartPass
  <2>5. QED BY <2>1, <2>2, <2>3, <2>4, Zenon DEF PassQuiet
<1> USE <1>1 DEF clientVars, loopVars, readVars
<1>2. Grown /\ Len(log') \in {Len(log), Len(log) + 1}
    BY SameLog, Numbers
<1>3. PassT' /\ PassInv' /\ (StartPass \/ (pass'.on = pass.on /\ pass'.scoped = pass.scoped))
    BY StartPassOK, ListNamespaceOK, UnlistedOK, Zenon
<1>4. LoopInv'
    BY <1>3, Zenon DEF IInv, LoopInv, Scope, Closed
<1>5. RegistryT' /\ RefInv' /\ FieldT' /\ CountT' /\ RowInv' /\ FieldInv' /\ ClosedInv'
    BY SameRegistry, SameFields, SameCount, Disturbed, SameRowInv, SameFieldInv, SameClosed, Zenon
<1>6. RowT' /\ LoopT' /\ KeptFresh /\ NeverBehindStream'
    BY <1>2, SameRows, SameLoop, SameFresh, Zenon
<1>7. ReadT' /\ CallsKept /\ CacheKept /\ PutKept
    BY <1>2, SameReads, Zenon
<1>8. QED BY <1>2, <1>3, <1>4, <1>5, <1>6, <1>7, Assemble, Zenon

-----------------------------------------------------------------------------
(* #setValue.                                                              *)

Wrote(news, r, reconcile, p) == p \in DOMAIN news /\ AllowsWrite(p, r, reconcile)

\* What setValue leaves in a row.
LEMMA RowsSet ==
    ASSUME IInv, log' = log, NEW news, NEW r \in Nat, r <= Len(log), NEW reconcile, NEW S,
           DOMAIN news \subseteq Paths, \A p \in DOMAIN news : news[p] \in Values \cup {Absent},
           SetValues(news, r, reconcile, S)
    PROVE  /\ known' \in [Paths -> Row]
           /\ \A p \in Paths :
                 /\ ~Wrote(news, r, reconcile, p) => known'[p] = known[p]
                 /\ Wrote(news, r, reconcile, p) =>
                       /\ known'[p].value = news[p]
                       /\ known'[p].revision <= r \/ known'[p].revision <= known[p].revision
                       /\ known'[p] # Unknown => news[p] # Absent \/ handlers[p] # {}
<1>1. \A p \in Paths : known'[p] =
          IF ~Wrote(news, r, reconcile, p) THEN known[p]
          ELSE IF news[p] = Absent /\ handlers[p] = {} THEN Unknown
          ELSE [value |-> news[p], revision |-> Max({r, known[p].revision})]
    BY Zenon DEF SetValues, Wrote
<1>2. known' = [p \in Paths |-> known'[p]]
    BY Zenon DEF SetValues
<1>3. ASSUME NEW p \in Paths
      PROVE  /\ known'[p] \in Row
             /\ ~Wrote(news, r, reconcile, p) => known'[p] = known[p]
             /\ Wrote(news, r, reconcile, p) =>
                   /\ known'[p].value = news[p]
                   /\ known'[p].revision <= r \/ known'[p].revision <= known[p].revision
                   /\ known'[p] # Unknown => news[p] # Absent \/ handlers[p] # {}
  <2>1. known[p] \in Row
      BY Zenon DEF IInv, TypeInv, RowT
  <2>2. known[p].revision \in Int /\ known[p].revision <= MaxRevision /\ -1 <= known[p].revision
      BY <2>1, Numbers DEF Row
  <2>3. CASE ~Wrote(news, r, reconcile, p)
      BY <1>1, <2>1, <2>3, Zenon
  <2>4. CASE Wrote(news, r, reconcile, p)
    <3>1. CASE news[p] = Absent /\ handlers[p] = {}
      <4>1. known'[p] = Unknown
          BY <1>1, <2>4, <3>1, Zenon
      <4>2. -1 \in -1..MaxRevision /\ -1 <= r
          BY Numbers
      <4>3. Unknown \in Row /\ Unknown.value = Absent /\ Unknown.revision = -1
          BY <4>2, Zenon DEF Unknown, Row
      <4>4. QED BY <2>4, <3>1, <4>1, <4>2, <4>3, Zenon
    <3>2. CASE ~(news[p] = Absent /\ handlers[p] = {})
      <4>1. PICK m : m = Max({r, known[p].revision})
          BY Zenon
      <4>2. m = r \/ m = known[p].revision
        <5>1. r \in Int /\ known[p].revision \in Int
            BY <2>2
        <5>2. Max({r, known[p].revision}) =
                  IF r <= known[p].revision THEN known[p].revision ELSE r
            BY <5>1, MaxPair
        <5>3. QED BY <4>1, <5>2
      <4>3. m \in -1..MaxRevision /\ (m <= r \/ m <= known[p].revision)
          BY <2>2, <4>2, Numbers
      <4>4. known'[p] = [value |-> news[p], revision |-> m]
          BY <1>1, <2>4, <3>2, <4>1, Zenon
      <4>5. news[p] \in Values \cup {Absent, Default}
          BY <2>4, Zenon DEF Wrote
      <4>6. PICK v : v = news[p]
          BY Zenon
      <4>7. known'[p] \in Row /\ known'[p].value = v /\ known'[p].revision = m
        <5>1. known'[p] = [value |-> v, revision |-> m] /\ v \in Values \cup {Absent, Default}
            BY <4>4, <4>5, <4>6, Zenon
        <5>2. [value |-> v, revision |-> m] \in Row
            BY <4>3, <5>1 DEF Row
        <5>3. QED BY <5>1, <5>2
      <4>8. QED BY <2>4, <3>2, <4>3, <4>6, <4>7, Zenon
    <3>3. QED BY <3>1, <3>2, Zenon
  <2>5. QED BY <2>3, <2>4, Zenon
<1>4. QED BY <1>2, <1>3, Zenon

\* The invalidation of what changes, and the fields that are told.
LEMMA ReadsSet ==
    ASSUME IInv, log' = log, put' = put, NEW news, NEW r, NEW reconcile, NEW S,
           SetValues(news, r, reconcile, S)
    PROVE  /\ ReadT' /\ CallsKept /\ CacheKept /\ PutKept
           /\ \A x \in Fields : calls'[x].path = calls[x].path
           /\ \A p \in Paths : p \in S => Dropped(p)
           /\ \A p \in Paths : Wrote(news, r, reconcile, p) /\ news[p] # known[p].value => Dropped(p)
<1> DEFINE hit     == {p \in DOMAIN news : AllowsWrite(p, r, reconcile)}
           changed == {p \in hit : Changes(p, news[p])}
<1>1. Invalidate(changed \cup S)
    BY Zenon DEF SetValues
<1>2. PICK T : T = changed \cup S
    BY Zenon
<1>3. Invalidate(T)
    BY <1>1, <1>2, Zenon
<1>4. /\ cache' \in [Paths -> Values \cup {Absent}] /\ calls' \in [Fields -> CallType]'
      /\ \A x \in Fields : calls'[x].path = calls[x].path
      /\ \A p \in Paths : p \in T => Dropped(p)
      /\ CallsKept /\ CacheKept
    BY <1>3, Invalidated
<1>5. put' \in [path : Paths \cup {Absent}, at : 0..Len(log'), returned : BOOLEAN] /\ PutKept
    BY Zenon DEF IInv, TypeInv, ReadT, PutKept
<1>6. ReadT'
    BY <1>4, <1>5, Zenon DEF ReadT
<1>7. ASSUME NEW p \in Paths, Wrote(news, r, reconcile, p), news[p] # known[p].value
      PROVE  p \in T
  <2>1. Changes(p, news[p])
      BY <1>7, Zenon DEF Changes
  <2>2. QED BY <1>2, <1>7, <2>1, Zenon DEF Wrote
<1>8. \A p \in Paths : p \in S => p \in T
    BY <1>2, Zenon
<1>9. QED BY <1>4, <1>5, <1>6, <1>7, <1>8, Zenon

\* A field that is told of a value changes nothing else.
LEMMA Applied ==
    ASSUME IInv, NEW x \in Fields, NEW v \in Values \cup {Absent, Default}
    PROVE  /\ AppliedUpdate(x, v) \in FieldType
           /\ AppliedUpdate(x, v).path = fields[x].path
           /\ AppliedUpdate(x, v).phase = fields[x].phase
           /\ AppliedUpdate(x, v).disposed = fields[x].disposed
           /\ fields[x].value # Absent => AppliedUpdate(x, v).value # Absent
<1>1. PICK f : f = fields[x] /\ f \in FieldType
    BY Zenon DEF IInv, TypeInv, FieldT
<1>2. CASE f.disposed \/ (v = Absent /\ x \notin Defaulted)
    BY <1>1, <1>2, Zenon DEF AppliedUpdate
<1>3. CASE ~(f.disposed \/ (v = Absent /\ x \notin Defaulted))
  <2>1. PICK u : u = IF v = Absent THEN Default ELSE v
      BY Zenon
  <2>2. u \in Values \cup {Absent, Default} /\ u # Absent
      BY <2>1, WatchConstants, Zenon
  <2>3. AppliedUpdate(x, v) = [f EXCEPT !.value = u]
      BY <1>1, <1>3, <2>1, Zenon DEF AppliedUpdate
  <2>4. PICK g : g = [f EXCEPT !.value = u]
      BY Zenon
  <2>5. g \in FieldType /\ g.path = f.path /\ g.phase = f.phase /\ g.disposed = f.disposed /\ g.value = u
      BY <1>1, <2>2, <2>4, Zenon DEF FieldType
  <2>6. QED BY <1>1, <2>2, <2>3, <2>4, <2>5, Zenon
<1>4. QED BY <1>2, <1>3, Zenon

\* The handlers #setValue calls change the value of a registered field only.
LEMMA FieldsSet ==
    ASSUME IInv, NEW news, NEW r, NEW reconcile, NEW S,
           \A p \in DOMAIN news : news[p] \in Values \cup {Absent},
           SetValues(news, r, reconcile, S), UNCHANGED <<handlers, run>>,
           \A x \in Fields : calls'[x].path = calls[x].path
    PROVE  FieldT' /\ FieldInv'
<1> DEFINE hit     == {p \in DOMAIN news : AllowsWrite(p, r, reconcile)}
           changed == {p \in hit : Changes(p, news[p])}
<1>1. /\ fields' = [x \in Fields |-> fields'[x]]
      /\ \A x \in Fields : fields'[x] =
            IF fields[x].path \in changed /\ x \in handlers[fields[x].path]
            THEN AppliedUpdate(x, news[fields[x].path]) ELSE fields[x]
    BY Zenon DEF SetValues
<1>2. ASSUME NEW x \in Fields
      PROVE  /\ fields'[x] \in FieldType
             /\ fields'[x].path = fields[x].path /\ fields'[x].phase = fields[x].phase
             /\ fields[x].value # Absent => fields'[x].value # Absent
  <2>1. fields[x] \in FieldType
      BY Zenon DEF IInv, TypeInv, FieldT
  <2>2. CASE fields[x].path \in changed
    <3>1. PICK v : v = news[fields[x].path]
        BY Zenon
    <3>2. v \in Values \cup {Absent, Default}
        BY <2>2, <3>1, Zenon
    <3>3. fields'[x] = AppliedUpdate(x, v) \/ fields'[x] = fields[x]
        BY <1>1, <3>1, Zenon
    <3>4. QED BY <2>1, <3>2, <3>3, Applied, Zenon
  <2>3. CASE fields[x].path \notin changed
      BY <1>1, <2>1, <2>3, Zenon
  <2>4. QED BY <2>2, <2>3, Zenon
<1>3. FieldT'
    BY <1>1, <1>2, Zenon DEF FieldT, FieldType
<1>4. FieldInv'
    BY <1>2, Zenon DEF IInv, FieldInv
<1>5. QED BY <1>3, <1>4

-----------------------------------------------------------------------------
(* The events of the stream.                                               *)

\* What every write of rows keeps.
LEMMA SetKeeps ==
    ASSUME IInv, UNCHANGED <<log, handlers, refs, watching, run, put>>, run # "closed",
           NEW news, NEW r \in Nat, r <= Len(log), NEW reconcile, NEW S,
           DOMAIN news \subseteq Paths,
           \A p \in DOMAIN news : /\ news[p] \in Values \cup {Absent}
                                  /\ refs[NamespaceOf(p)] > 0,
           SetValues(news, r, reconcile, S),
           revision' \in Nat, revision' <= Len(log), r <= revision', revision <= revision',
           due' \in BOOLEAN
    PROVE  /\ RegistryT' /\ RefInv' /\ RowT' /\ FieldT' /\ FieldInv' /\ RowInv' /\ ClosedInv'
           /\ ReadT' /\ CallsKept /\ CacheKept /\ PutKept
<1>1. RegistryT' /\ RefInv'
    BY SameRegistry, Zenon
<1>2. /\ ReadT' /\ CallsKept /\ CacheKept /\ PutKept
      /\ \A x \in Fields : calls'[x].path = calls[x].path
    BY ReadsSet, Zenon
<1>3. FieldT' /\ FieldInv'
    BY <1>2, FieldsSet, Zenon
<1>4. /\ known' \in [Paths -> Row]
      /\ \A p \in Paths :
            /\ ~Wrote(news, r, reconcile, p) => known'[p] = known[p]
            /\ Wrote(news, r, reconcile, p) =>
                  /\ known'[p].value = news[p]
                  /\ known'[p].revision <= r \/ known'[p].revision <= known[p].revision
                  /\ known'[p] # Unknown => news[p] # Absent \/ handlers[p] # {}
  <2>1. \A p \in DOMAIN news : news[p] \in Values \cup {Absent}
      BY Zenon
  <2>2. QED BY <2>1, RowsSet, Zenon
<1>5. RowT'
  <2>1. revision' \in 0..Len(log')
      BY Numbers
  <2>2. QED BY <1>4, <2>1, Zenon DEF RowT
<1>6. ASSUME NEW p \in Paths
      PROVE  /\ known'[p].revision <= revision'
             /\ known'[p] # Unknown => /\ refs'[NamespaceOf(p)] > 0
                                       /\ known'[p].value # Absent \/ handlers'[p] # {}
  <2>1. known[p].revision \in Int /\ known'[p].revision \in Int /\ revision \in Nat
      BY <1>4, Numbers DEF IInv, TypeInv, RowT, Row
  <2>2. known[p].revision <= revision
      BY Zenon DEF IInv, RowInv
  <2>3. known'[p].revision <= revision'
    <3>1. \/ known'[p] = known[p]
          \/ known'[p].revision <= r \/ known'[p].revision <= known[p].revision
        BY <1>4, Zenon
    <3>2. QED BY <2>1, <2>2, <3>1
  <2>4. known'[p] # Unknown => /\ refs'[NamespaceOf(p)] > 0
                               /\ known'[p].value # Absent \/ handlers'[p] # {}
    <3>1. CASE Wrote(news, r, reconcile, p)
        BY <1>4, <3>1, Zenon DEF Wrote
    <3>2. CASE ~Wrote(news, r, reconcile, p)
        BY <1>4, <3>2, Zenon DEF IInv, RowInv
    <3>3. QED BY <3>1, <3>2, Zenon
  <2>5. QED BY <2>3, <2>4, Zenon
<1>7. RowInv'
    BY <1>6, Zenon DEF RowInv, Unknown
<1>8. ClosedInv'
    BY Zenon DEF ClosedInv
<1>9. QED BY <1>1, <1>2, <1>3, <1>5, <1>7, <1>8, Zenon

\* An event ends the wait for the first one and leaves the scope as it is.
LEMMA SessionFed ==
    ASSUME IInv, session' = [session EXCEPT !.fresh = FALSE],
           UNCHANGED <<log, refs, watching, run, restart, pass>>
    PROVE  LoopT' /\ LoopInv'
<1>1. session \in SessionType
    BY Zenon DEF IInv, TypeInv, LoopT, SessionType
<1>2. /\ session' \in SessionType /\ session'.fresh = FALSE
      /\ session'.scoped = session.scoped /\ session'.namespaces = session.namespaces
    BY <1>1, Zenon DEF SessionType
<1>3. LoopT'
    BY <1>2, Zenon DEF IInv, TypeInv, LoopT, SessionType
<1>4. LoopInv'
    BY <1>2, Zenon DEF IInv, LoopInv, Scope, Closed
<1>5. QED BY <1>3, <1>4

\* A live session has the scope the client has.
LEMMA InScope ==
    ASSUME IInv, Live, NEW p \in Paths
    PROVE  /\ refs[NamespaceOf(p)] > 0 <=> p \in In(session.namespaces)
           /\ known[p].revision > 0 => p \in In(session.namespaces)
           /\ known[p] # Unknown => p \in In(session.namespaces)
<1>1. session.namespaces = Scope(refs) /\ NamespaceOf(p) \in Namespaces
    BY DEF IInv, LoopInv, Live, Paths, NamespaceOf
<1>2. refs[NamespaceOf(p)] > 0 <=> p \in In(session.namespaces)
    BY <1>1, Zenon DEF Scope, In
<1>3. known[p] # Unknown => refs[NamespaceOf(p)] > 0
    BY Zenon DEF IInv, RowInv
<1>4. known[p].revision > 0 => known[p] # Unknown
    BY DEF Unknown
<1>5. QED BY <1>2, <1>3, <1>4, Zenon

\* A heartbeat moves the revision over what the scope does not contain.
LEMMA HeartbeatStep ==
    ASSUME IInv, Heartbeat
    PROVE  IInv'
<1>1. /\ Live /\ session' = [session EXCEPT !.fresh = FALSE]
      /\ UNCHANGED <<log, known, handlers, refs, watching, due, run, restart, pass,
                     fields, readVars, disturbed>>
    BY Zenon DEF Heartbeat
<1>2. PICK r \in revision + 1..Len(log) : (\A i \in Ahead : r < i) /\ revision' = r
    BY Zenon DEF Heartbeat
<1> USE <1>1 DEF readVars
<1>3. Grown /\ Len(log') \in {Len(log), Len(log) + 1}
    BY SameLog, Numbers
<1>4. revision' \in Nat /\ revision <= revision' /\ r \in revision..Len(log) /\ revision' \in 0..Len(log')
    BY <1>2, Numbers
<1>5. ASSUME NEW p \in In(session.namespaces), NEW i \in revision + 1..r
      PROVE  log[i].path # p
  <2>1. i \in revision + 1..Len(log) /\ ~(r < i)
      BY <1>2, <1>5, Numbers
  <2>2. i \notin Ahead
      BY <1>2, <2>1, Zenon
  <2>3. QED BY <1>5, <2>1, <2>2, Zenon DEF Ahead
<1>6. LoopT' /\ LoopInv'
    BY SessionFed, Zenon
<1>7. RegistryT' /\ RefInv' /\ FieldT' /\ CountT' /\ FieldInv' /\ ClosedInv'
    BY SameRegistry, SameFields, SameCount, SameFieldInv, SameClosed, Zenon
<1>8. PassT' /\ PassInv' /\ ReadT' /\ CallsKept /\ CacheKept /\ PutKept
    BY <1>3, <1>4, SamePass, SamePassInv, SameReads, Zenon
<1>9. RowT'
    BY <1>4, Zenon DEF IInv, TypeInv, RowT
<1>10. RowInv'
  <2>1. \A p \in Paths : known[p].revision \in Int /\ known[p].revision <= revision
      BY DEF IInv, RowInv, TypeInv, RowT, Row
  <2>2. \A p \in Paths : known'[p].revision <= revision'
      BY <1>4, <2>1, Numbers
  <2>3. QED BY <2>2, Zenon DEF IInv, RowInv, Unknown
<1>11. KeptFresh
  <2> SUFFICES ASSUME NEW p \in Paths, Followed(p)' PROVE HasMoment(p)' /\ Followed(p) /\ Carries(p)
      BY Zenon DEF KeptFresh
  <2>1. Followed(p) /\ p \in In(session.namespaces)
      BY InScope, Zenon DEF Followed
  <2>2. \A i \in revision + 1..r : log[i].path # p
      BY <1>5, <2>1, Zenon
  <2>3. Carries(p)
      BY <1>2, <1>4, <2>2, CarriedOver, Zenon DEF IInv, TypeInv
  <2>4. HasMoment(p)
      BY <2>1, Zenon DEF IInv, MomentInv, HasMoment
  <2>5. QED BY <2>1, <2>3, <2>4, Zenon DEF Carries
<1>12. NeverBehindStream'
  <2> SUFFICES ASSUME NEW p \in Paths, known[p].revision > 0
               PROVE  HeldSince(p, known[p].value, revision)'
      BY Zenon DEF NeverBehindStream
  <2>1. PICK v, k : v = known[p].value /\ k = revision
      BY Zenon
  <2>2. HeldSince(p, v, k)
      BY <2>1, Zenon DEF IInv, NeverBehindStream
  <2>3. p \in In(session.namespaces)
      BY InScope, Zenon
  <2>4. \A i \in k + 1..r : log[i].path # p
      BY <1>5, <2>1, <2>3, Zenon
  <2>5. k \in Nat /\ r \in Nat /\ k <= r /\ r <= Len(log)
      BY <1>4, <2>1, Numbers
  <2>6. HeldSince(p, v, r)
      BY <2>2, <2>4, <2>5, HeldForward, Numbers, Zenon
  <2>7. HeldSince(p, v, r)'
      BY <2>6, SameLog, Numbers, Zenon
  <2>8. QED BY <1>2, <2>1, <2>7, Zenon
<1>13. QED BY <1>3, <1>6, <1>7, <1>8, <1>9, <1>10, <1>11, <1>12, Assemble, Zenon

\* The least change ahead is the next one for every path in scope.
LEMMA NextAhead ==
    ASSUME IInv, Ahead # {}, NEW i, i = Min(Ahead)
    PROVE  /\ i \in revision + 1..Len(log) /\ log[i].path \in In(session.namespaces)
           /\ \A p \in In(session.namespaces) : \A j \in revision + 1..i - 1 : log[j].path # p
<1>1. Ahead \in SUBSET (revision + 1..Len(log)) /\ Ahead \in SUBSET Nat
    BY Numbers DEF Ahead
<1>2. i \in Ahead /\ \A j \in Ahead : i <= j
    BY <1>1, MinNat, Zenon
<1>3. i \in revision + 1..Len(log) /\ log[i].path \in In(session.namespaces)
    BY <1>2, Zenon DEF Ahead
<1>4. ASSUME NEW p \in In(session.namespaces), NEW j \in revision + 1..i - 1
      PROVE  log[j].path # p
  <2>1. j \in revision + 1..Len(log) /\ ~(i <= j)
      BY <1>3, Numbers
  <2>2. j \notin Ahead
      BY <1>2, <2>1, Zenon
  <2>3. QED BY <2>1, <2>2, Zenon DEF Ahead
<1>5. QED BY <1>3, <1>4, Zenon

\* A change moves the revision and gives its path its value.
LEMMA ApplyChangeStep ==
    ASSUME IInv, ApplyChange
    PROVE  IInv'
<1>1. /\ Live /\ Ahead # {} /\ session' = [session EXCEPT !.fresh = FALSE]
      /\ UNCHANGED <<log, handlers, refs, watching, due, run, restart, pass, put, disturbed>>
    BY Zenon DEF ApplyChange
<1> USE <1>1
<1>2. PICK i : i = Min(Ahead)
    BY Zenon
<1>3. PICK p : p = log[i].path
    BY Zenon
<1>4. PICK v : v = log[i].value
    BY Zenon
<1>5. PICK S : S = IF v = Absent THEN {p} ELSE {}
    BY Zenon
<1>6. PICK news : news = [x \in {p} |-> v]
    BY Zenon
<1>7. SetValues(news, i, FALSE, S) /\ revision' = i
    BY <1>2, <1>3, <1>4, <1>5, <1>6, Zenon DEF ApplyChange
<1>8. /\ i \in revision + 1..Len(log) /\ p \in In(session.namespaces)
      /\ \A q \in In(session.namespaces) : \A j \in revision + 1..i - 1 : log[j].path # q
    BY <1>2, <1>3, NextAhead, Zenon
<1>9. /\ i \in Nat /\ i <= Len(log) /\ i \in 1..Len(log) /\ revision <= i /\ i \in revision..Len(log)
      /\ i # 0 /\ revision < i
    BY <1>8, Numbers
<1>10. p \in Paths /\ v \in Values \cup {Absent}
    BY <1>3, <1>4, <1>9, Elements, Numbers, Zenon
<1>11. DOMAIN news = {p} /\ news[p] = v
    BY <1>6, Zenon
<1>12. refs[NamespaceOf(p)] > 0
    BY <1>8, <1>10, InScope, Zenon
<1>13. /\ DOMAIN news \subseteq Paths
       /\ \A q \in DOMAIN news : news[q] \in Values \cup {Absent} /\ refs[NamespaceOf(q)] > 0
    BY <1>10, <1>11, <1>12, Zenon
<1>14. run # "closed" /\ due' \in BOOLEAN
    BY DEF Live, IInv, TypeInv, RowT
<1>15. /\ RegistryT' /\ RefInv' /\ RowT' /\ FieldT' /\ FieldInv' /\ RowInv' /\ ClosedInv'
       /\ ReadT' /\ CallsKept /\ CacheKept /\ PutKept
  <2>1. i <= revision' /\ revision <= revision' /\ revision' \in Nat /\ revision' <= Len(log)
      BY <1>7, <1>9
  <2>2. QED BY <1>7, <1>9, <1>13, <1>14, <2>1, SetKeeps, Zenon
<1>16. Grown /\ Len(log') \in {Len(log), Len(log) + 1} /\ LoopT' /\ LoopInv' /\ CountT'
    BY SameLog, Numbers, SessionFed, SameCount, Zenon
<1>17. PassT' /\ PassInv'
    BY <1>7, <1>9, <1>16, SamePass, SamePassInv, Zenon
<1>18. Wrote(news, i, FALSE, p)
  <2>1. known[p].revision \in Int /\ known[p].revision <= revision
      BY <1>10 DEF IInv, RowInv, TypeInv, RowT, Row
  <2>2. i > known[p].revision
      BY <1>9, <2>1, Numbers
  <2>3. QED BY <1>11, <2>2, Zenon DEF Wrote, AllowsWrite
<1>19. /\ known'[p].value = v
       /\ \A q \in Paths : q # p => known'[q] = known[q]
  <2>1. \A q \in Paths : /\ ~Wrote(news, i, FALSE, q) => known'[q] = known[q]
                         /\ Wrote(news, i, FALSE, q) => known'[q].value = news[q]
      BY <1>7, <1>9, <1>13, RowsSet, Zenon
  <2>2. QED BY <1>10, <1>11, <1>18, <2>1, Zenon DEF Wrote
<1>20. StoreAt(p, i) = v
    BY <1>3, <1>4, <1>9, StoreHere, Numbers, Zenon
<1>21. ASSUME NEW q \in In(session.namespaces), q # p
       PROVE  \A j \in revision + 1..i : log[j].path # q
  <2>1. \A j \in revision + 1..i : j \in revision + 1..i - 1 \/ j = i
      BY <1>9, Numbers
  <2>2. QED BY <1>3, <1>8, <1>21, <2>1, Zenon
<1>22. KeptFresh
  <2> SUFFICES ASSUME NEW q \in Paths, Followed(q)'
               PROVE  HasMoment(q)' /\ (Dropped(q) \/ (Followed(q) /\ Carries(q)))
      BY Zenon DEF KeptFresh
  <2>1. Followed(q) /\ q \in In(session.namespaces)
      BY InScope, Zenon DEF Followed
  <2>2. CASE q # p
    <3>1. Carries(q)
        BY <1>7, <1>9, <1>19, <1>21, <2>1, <2>2, CarriedOver, Zenon DEF IInv, TypeInv
    <3>2. HasMoment(q)
        BY <2>1, Zenon DEF IInv, MomentInv, HasMoment
    <3>3. QED BY <2>1, <3>1, <3>2, Zenon DEF Carries
  <2>3. CASE q = p
    <3>1. HasMoment(p)'
      <4>1. i \in revision'..Len(log')
          BY <1>7, <1>9
      <4>2. StoreAt(p, i)' = known'[p].value
          BY <1>19, <1>20, SameLog, Numbers, Zenon
      <4>3. QED BY <1>9, <4>1, <4>2, Zenon DEF HasMoment, Moment
    <3>2. CASE v = Absent \/ v # known[p].value
      <4>1. \A x \in Paths : x \in S => Dropped(x)
          BY <1>7, ReadsSet, Zenon
      <4>2. \A x \in Paths : Wrote(news, i, FALSE, x) /\ news[x] # known[x].value => Dropped(x)
          BY <1>7, ReadsSet, Zenon
      <4>3. Dropped(p)
          BY <1>5, <1>10, <1>11, <1>18, <3>2, <4>1, <4>2, Zenon
      <4>4. QED BY <2>3, <3>1, <4>3, Zenon
    <3>3. CASE v # Absent /\ v = known[p].value
      <4>1. \A j \in revision + 1..i - 1 : log[j].path # p
          BY <1>8, Zenon
      <4>2. Carries(p)
          BY <1>3, <1>4, <1>7, <1>8, <1>10, <1>19, <3>3, <4>1, CarriedChange, Zenon DEF IInv, TypeInv
      <4>3. QED BY <2>1, <2>3, <3>1, <4>2, Zenon
    <3>4. QED BY <3>2, <3>3, Zenon
  <2>4. QED BY <2>2, <2>3, Zenon
<1>23. NeverBehindStream'
  <2> SUFFICES ASSUME NEW q \in Paths, known'[q].revision > 0
               PROVE  HeldSince(q, known[q].value, revision)'
      BY Zenon DEF NeverBehindStream
  <2>1. PICK u, k : u = known'[q].value /\ k = revision
      BY Zenon
  <2>2. HeldSince(q, u, i)
    <3>1. CASE q = p
      <4>1. i \in i..Len(log)
          BY <1>9
      <4>2. QED BY <1>19, <1>20, <2>1, <3>1, <4>1, Zenon DEF HeldSince
    <3>2. CASE q # p
      <4>1. known'[q] = known[q]
          BY <1>19, <3>2, Zenon
      <4>2. HeldSince(q, u, k)
          BY <2>1, <4>1, Zenon DEF IInv, NeverBehindStream
      <4>3. q \in In(session.namespaces)
          BY <4>1, InScope, Zenon
      <4>4. \A j \in k + 1..i : log[j].path # q
          BY <1>21, <2>1, <3>2, <4>3, Zenon
      <4>5. k \in Nat /\ k <= i
          BY <1>9, <2>1, Numbers
      <4>6. QED BY <1>9, <4>2, <4>4, <4>5, HeldForward, Numbers, Zenon
    <3>3. QED BY <3>1, <3>2, Zenon
  <2>3. HeldSince(q, u, i)'
      BY <2>2, SameLog, Numbers, Zenon
  <2>4. QED BY <1>7, <2>1, <2>3, Zenon
<1>24. QED BY <1>15, <1>16, <1>17, <1>22, <1>23, Assemble, Zenon

\* After a snapshot every row in scope shows what its path had at or after it.
LEMMA SnapshotRows ==
    ASSUME IInv, Live, log' = log, NEW r \in Nat, r <= Len(log), revision <= r, NEW news,
           DOMAIN news \subseteq In(session.namespaces),
           \A p \in DOMAIN news : news[p] = StoreAt(p, r) /\ news[p] \in Values \cup {Absent},
           \A p \in In(session.namespaces) :
               p \notin DOMAIN news => StoreAt(p, r) = Absent /\ known[p].value = Absent,
           NEW S, SetValues(news, r, FALSE, S), NEW p \in In(session.namespaces)
    PROVE  HeldSince(p, known'[p].value, r)
<1>1. p \in Paths /\ DOMAIN news \subseteq Paths /\ r \in r..Len(log)
    BY Numbers DEF In
<1>2. \A q \in DOMAIN news : news[q] \in Values \cup {Absent}
    BY Zenon
<1>3. /\ ~Wrote(news, r, FALSE, p) => known'[p] = known[p]
      /\ Wrote(news, r, FALSE, p) => known'[p].value = news[p]
    BY <1>1, <1>2, RowsSet, Zenon
<1>4. CASE p \notin DOMAIN news \/ Wrote(news, r, FALSE, p)
  <2>1. StoreAt(p, r) = known'[p].value
      BY <1>3, <1>4, Zenon DEF Wrote
  <2>2. QED BY <1>1, <2>1, Zenon DEF HeldSince
<1>5. CASE p \in DOMAIN news /\ ~Wrote(news, r, FALSE, p)
  <2>1. known'[p] = known[p] /\ ~AllowsWrite(p, r, FALSE)
      BY <1>3, <1>5, Zenon DEF Wrote
  <2>2. r # 0 /\ ~(r > known[p].revision)
      BY <2>1, Zenon DEF AllowsWrite
  <2>3. known[p].revision \in Int /\ known[p].revision <= revision
      BY <1>1 DEF IInv, RowInv, TypeInv, RowT, Row
  <2>4. r = revision /\ known[p].revision > 0
      BY <2>2, <2>3, Numbers
  <2>5. HeldSince(p, known[p].value, revision)
      BY <1>1, <2>4, Zenon DEF IInv, NeverBehindStream
  <2>6. QED BY <2>1, <2>4, <2>5, Zenon
<1>6. QED BY <1>4, <1>5, Zenon

\* A snapshot moves the revision and replaces the rows in scope.
LEMMA ApplySnapshotStep ==
    ASSUME IInv, ApplySnapshot
    PROVE  IInv'
<1>1. /\ Live /\ session.fresh /\ session' = [session EXCEPT !.fresh = FALSE]
      /\ due' = (due /\ ~session.full)
      /\ UNCHANGED <<log, handlers, refs, watching, run, restart, pass, put, disturbed>>
    BY Zenon DEF ApplySnapshot
<1> USE <1>1
<1> DEFINE scope == In(session.namespaces)
<1>2. PICK r \in ReadAt(session.since) :
         LET there == {p \in scope : StoreAt(p, r) # Absent}
             gone  == {p \in scope \ there : known[p].value # Absent}
         IN  /\ SetValues([p \in there \cup gone |-> StoreAt(p, r)], r, FALSE, scope)
             /\ revision' = Max({revision, r})
    BY Zenon DEF ApplySnapshot
<1>3. PICK D : D = {p \in scope : StoreAt(p, r) # Absent} \cup
                   {p \in scope \ {p \in scope : StoreAt(p, r) # Absent} : known[p].value # Absent}
    BY Zenon
<1>4. PICK news : news = [p \in D |-> StoreAt(p, r)]
    BY Zenon
<1>5. PICK S : S = scope
    BY Zenon
<1>6. SetValues(news, r, FALSE, S)
    BY <1>2, <1>3, <1>4, <1>5, Zenon
<1>7. /\ session.since \in Nat /\ revision <= session.since /\ r \in Nat /\ revision <= r
      /\ r <= Len(log) /\ r \in 0..Len(log)
  <2>1. session.since \in Nat /\ revision <= session.since
      BY Numbers DEF IInv, TypeInv, LoopT, LoopInv
  <2>2. QED BY <1>2, <2>1, Numbers DEF ReadAt
<1>8. revision' = r
  <2>1. Max({revision, r}) = r
      BY <1>7, Numbers, MaxPair
  <2>2. QED BY <1>2, <2>1, Zenon
<1>9. scope \subseteq Paths /\ D \subseteq scope
    BY <1>3, Zenon DEF In
<1>10. \A p \in scope : p \notin D => StoreAt(p, r) = Absent /\ known[p].value = Absent
    BY <1>3, Zenon
<1>11. \A p \in scope : StoreAt(p, r) \in Values \cup {Absent}
    BY <1>7, <1>9, StoreType, Numbers, Zenon
<1>12. DOMAIN news = D /\ \A p \in D : news[p] = StoreAt(p, r)
    BY <1>4, Zenon
<1>13. /\ DOMAIN news \subseteq Paths
       /\ \A p \in DOMAIN news : news[p] \in Values \cup {Absent} /\ refs[NamespaceOf(p)] > 0
  <2>1. \A p \in scope : refs[NamespaceOf(p)] > 0
      BY <1>9, InScope, Zenon
  <2>2. QED BY <1>9, <1>11, <1>12, <2>1, Zenon
<1> HIDE DEF scope
<1>14. \A p \in scope : HeldSince(p, known'[p].value, r)
    BY <1>6, <1>7, <1>9, <1>10, <1>12, <1>13, SnapshotRows, Zenon DEF scope
<1>15. run # "closed" /\ due' \in BOOLEAN
    BY DEF Live
<1>16. /\ RegistryT' /\ RefInv' /\ RowT' /\ FieldT' /\ FieldInv' /\ RowInv' /\ ClosedInv'
       /\ ReadT' /\ CallsKept /\ CacheKept /\ PutKept
  <2>1. r <= revision' /\ revision <= revision' /\ revision' \in Nat /\ revision' <= Len(log)
      BY <1>7, <1>8
  <2>2. QED BY <1>6, <1>7, <1>13, <1>15, <2>1, SetKeeps, Zenon
<1>17. Grown /\ Len(log') \in {Len(log), Len(log) + 1} /\ LoopT' /\ LoopInv' /\ CountT'
    BY SameLog, Numbers, SessionFed, SameCount, Zenon
<1>18. PassT' /\ PassInv'
    BY <1>7, <1>8, <1>17, SamePass, SamePassInv, Zenon
<1>19. ASSUME NEW p \in scope
       PROVE  HeldSince(p, known[p].value, revision)'
  <2>1. PICK v : v = known'[p].value
      BY Zenon
  <2>2. HeldSince(p, v, r)'
      BY <1>14, <2>1, SameLog, Numbers, Zenon
  <2>3. QED BY <1>8, <2>1, <2>2, Zenon
<1>20. KeptFresh
  <2> SUFFICES ASSUME NEW p \in Paths, Followed(p)' PROVE HasMoment(p)' /\ Dropped(p)
      BY Zenon DEF KeptFresh
  <2>1. p \in scope
      BY InScope, Zenon DEF Followed, scope
  <2>2. Dropped(p)
      BY <1>5, <1>6, <2>1, ReadsSet, Zenon
  <2>3. PICK j \in revision'..Len(log') : StoreAt(p, j)' = known'[p].value
      BY <1>19, <2>1, Zenon DEF HeldSince
  <2>4. j \in Nat
      BY <1>7, <1>8, <2>3, Numbers
  <2>5. HasMoment(p)'
      BY <2>3, <2>4, Zenon DEF HasMoment, Moment
  <2>6. QED BY <2>2, <2>5
<1>21. NeverBehindStream'
  <2> SUFFICES ASSUME NEW p \in Paths, known'[p].revision > 0
               PROVE  HeldSince(p, known[p].value, revision)'
      BY Zenon DEF NeverBehindStream
  <2>1. p \in scope
    <3>1. CASE p \notin scope
      <4>1. ~Wrote(news, r, FALSE, p)
          BY <1>9, <1>12, <3>1, Zenon DEF Wrote
      <4>2. known'[p] = known[p]
        <5>1. \A q \in DOMAIN news : news[q] \in Values \cup {Absent}
            BY <1>13, Zenon
        <5>2. QED BY <1>6, <1>7, <1>13, <4>1, <5>1, RowsSet, Zenon
      <4>3. QED BY <4>2, InScope, Zenon DEF scope
    <3>2. QED BY <3>1, Zenon
  <2>2. QED BY <1>19, <2>1, Zenon
<1>22. QED BY <1>16, <1>17, <1>18, <1>20, <1>21, Assemble, Zenon

-----------------------------------------------------------------------------
(* The reconciliation pass, where it writes.                               *)

\* What a listing writes, it read at or after the revision.
LEMMA Reconciled ==
    ASSUME IInv, pass.on, UNCHANGED <<log, handlers, refs, watching, due, revision, loopVars, put>>,
           NEW news, SetValues(news, pass.fence, TRUE, {}), DOMAIN news \subseteq Paths,
           \A p \in DOMAIN news : /\ news[p] \in Values \cup {Absent} /\ refs[NamespaceOf(p)] > 0
                                  /\ pass.fence = revision => HeldSince(p, news[p], revision)
    PROVE  /\ RegistryT' /\ RefInv' /\ RowT' /\ FieldT' /\ FieldInv' /\ RowInv' /\ ClosedInv'
           /\ ReadT' /\ CallsKept /\ CacheKept /\ PutKept
           /\ KeptFresh /\ NeverBehindStream'
<1> USE DEF loopVars
<1>1. PICK f, S : f = pass.fence /\ S = {}
    BY Zenon
<1>2. f \in Nat /\ f <= revision /\ f <= Len(log) /\ revision' \in Nat /\ f <= revision'
      /\ revision <= revision' /\ revision' <= Len(log)
    BY <1>1, Numbers DEF IInv, TypeInv, PassT
<1>3. SetValues(news, f, TRUE, S)
    BY <1>1, Zenon
<1>4. run # "closed" /\ due' \in BOOLEAN
    BY DEF IInv, LoopInv, Closed, TypeInv, RowT
<1>5. \A p \in DOMAIN news : news[p] \in Values \cup {Absent} /\ refs[NamespaceOf(p)] > 0
    BY Zenon
<1>6. \A p \in DOMAIN news : news[p] \in Values \cup {Absent}
    BY Zenon
<1>7. /\ RegistryT' /\ RefInv' /\ RowT' /\ FieldT' /\ FieldInv' /\ RowInv' /\ ClosedInv'
      /\ ReadT' /\ CallsKept /\ CacheKept /\ PutKept
    BY <1>2, <1>3, <1>4, <1>5, SetKeeps, Zenon
<1>8. \A p \in Paths : /\ ~Wrote(news, f, TRUE, p) => known'[p] = known[p]
                       /\ Wrote(news, f, TRUE, p) => known'[p].value = news[p]
    BY <1>2, <1>3, <1>6, RowsSet, Zenon
<1>9. ASSUME NEW p \in Paths, Wrote(news, f, TRUE, p)
      PROVE  HeldSince(p, known'[p].value, revision)
  <2>1. p \in DOMAIN news /\ f >= revision
      BY <1>9, Zenon DEF Wrote, AllowsWrite
  <2>2. f = revision
      BY <1>2, <2>1, Numbers
  <2>3. QED BY <1>1, <1>8, <1>9, <2>1, <2>2, Zenon
<1>10. Grown
    BY SameLog, Numbers, Zenon
<1>11. KeptFresh
  <2> SUFFICES ASSUME NEW p \in Paths, Followed(p)'
               PROVE  HasMoment(p)' /\ (Dropped(p) \/ (Followed(p) /\ Carries(p)))
      BY Zenon DEF KeptFresh
  <2>1. Followed(p) /\ HasMoment(p)
      BY Zenon DEF Followed, IInv, MomentInv, HasMoment
  <2>2. CASE known'[p].value = known[p].value
    <3>1. Carries(p)
        BY <1>10, <2>2, CarriedRow, Zenon DEF IInv, TypeInv
    <3>2. QED BY <2>1, <3>1, Zenon DEF Carries
  <2>3. CASE known'[p].value # known[p].value
    <3>1. Wrote(news, f, TRUE, p) /\ news[p] # known[p].value
        BY <1>8, <2>3, Zenon
    <3>2. Dropped(p)
        BY <1>3, <3>1, ReadsSet, Zenon
    <3>3. PICK j \in revision..Len(log) : StoreAt(p, j) = known'[p].value
        BY <1>9, <3>1, Zenon DEF HeldSince
    <3>4. j \in Nat /\ StoreAt(p, j)' = known'[p].value
        BY <3>3, Numbers, SameLog
    <3>5. HasMoment(p)'
        BY <3>3, <3>4, Zenon DEF HasMoment, Moment
    <3>6. QED BY <3>2, <3>5
  <2>4. QED BY <2>2, <2>3, Zenon
<1>12. NeverBehindStream'
  <2> SUFFICES ASSUME NEW p \in Paths, known'[p].revision > 0
               PROVE  HeldSince(p, known[p].value, revision)'
      BY Zenon DEF NeverBehindStream
  <2>1. PICK v, k : v = known'[p].value /\ k = revision
      BY Zenon
  <2>2. HeldSince(p, v, k)
    <3>1. CASE Wrote(news, f, TRUE, p)
        BY <1>9, <2>1, <3>1, Zenon
    <3>2. CASE ~Wrote(news, f, TRUE, p)
        BY <1>8, <2>1, <3>2, Zenon DEF IInv, NeverBehindStream
    <3>3. QED BY <3>1, <3>2, Zenon
  <2>3. HeldSince(p, v, k)'
      BY <2>2, SameLog, Numbers, Zenon
  <2>4. QED BY <2>1, <2>3, Zenon
<1>13. QED BY <1>7, <1>11, <1>12

\* A page takes its paths off what is left, and those it does not have were
\* absent when it was read.
LEMMA PageListed ==
    ASSUME IInv, pass.on, pass.current # Absent, UNCHANGED <<log, revision, refs>>,
           NEW r \in Nat, pass.fence <= r, r <= Len(log),
           NEW page \in SUBSET pass.left, NEW there \in SUBSET page,
           \A p \in page \ there : StoreAt(p, r) = Absent,
           pass' = [pass EXCEPT !.present = @ \cup there,
                                !.left = @ \ page,
                                !.listed = IF page = pass.left THEN @ \cup {pass.current} ELSE @,
                                !.current = IF page = pass.left THEN Absent ELSE @,
                                !.since = IF page = pass.left THEN 0 ELSE Len(log)]
    PROVE  PassT' /\ PassInv' /\ pass'.on = pass.on /\ pass'.scoped = pass.scoped
<1>1. pass \in PassType
    BY Zenon DEF IInv, TypeInv, PassT, PassType
<1>2. PICK pr, lf, ls, cu, si :
          /\ pr = pass.present \cup there /\ lf = pass.left \ page
          /\ ls = (IF page = pass.left THEN pass.listed \cup {pass.current} ELSE pass.listed)
          /\ cu = (IF page = pass.left THEN Absent ELSE pass.current)
          /\ si = (IF page = pass.left THEN 0 ELSE Len(log))
    BY Zenon
<1>3. pass.left \in SUBSET Paths /\ pass.current \in Namespaces /\ pass.fence \in Nat
      /\ pass.fence <= Len(log) /\ pass.listed \in SUBSET Namespaces /\ pass.present \in SUBSET Paths
    BY <1>1, Numbers DEF PassType
<1>4. pr \in SUBSET Paths /\ lf \in SUBSET Paths /\ ls \in SUBSET Namespaces
      /\ cu \in Namespaces \cup {Absent}
    BY <1>2, <1>3, Zenon
<1>5. si \in 0..Len(log) /\ (cu # Absent => pass.fence <= si)
    BY <1>2, <1>3, Numbers
<1>6. pass' = [pass EXCEPT !.present = pr, !.left = lf, !.listed = ls, !.current = cu, !.since = si]
    BY <1>2, Zenon
<1>7. pass' \in PassType
    BY <1>1, <1>4, <1>5, <1>6, Zenon DEF PassType
<1>8. /\ pass'.current = cu /\ pass'.left = lf /\ pass'.todo = pass.todo
      /\ pass'.since = si /\ pass'.fence = pass.fence /\ pass'.scoped = pass.scoped
      /\ pass'.listed = ls /\ pass'.present = pr /\ pass'.on = pass.on
    BY <1>1, <1>6, Zenon DEF PassType
<1>9. PassT'
    BY <1>7, Zenon DEF PassT, PassType
<1>10. lf \subseteq In({cu})
  <2>1. CASE page = pass.left
      BY <1>2, <2>1, Zenon
  <2>2. CASE page # pass.left
      BY <1>2, <2>2, Zenon DEF IInv, PassInv
  <2>3. QED BY <2>1, <2>2, Zenon
<1>11. ASSUME NEW p \in (In(ls) \cup (In({cu}) \ lf)) \ pr
       PROVE  HeldSince(p, Absent, pass.fence)'
  <2>1. CASE p \in page
    <3>1. StoreAt(p, r) = Absent
        BY <1>2, <1>11, <2>1, Zenon
    <3>2. r \in pass.fence..Len(log)
        BY <1>3, Numbers
    <3>3. HeldSince(p, Absent, pass.fence)
        BY <3>1, <3>2, Zenon DEF HeldSince
    <3>4. QED BY <1>8, <3>3, PassHeld, Zenon
  <2>2. CASE p \notin page
    <3>1. p \in (In(pass.listed) \cup (In({pass.current}) \ pass.left)) \ pass.present
      <4>1. CASE page = pass.left
        <5>1. In({Absent}) = {}
            BY NoneListed
        <5>2. p \in In(pass.listed \cup {pass.current})
            BY <1>2, <1>11, <4>1, <5>1, Zenon
        <5>3. p \in In(pass.listed) \/ p \in In({pass.current})
            BY <5>2, Zenon DEF In
        <5>4. QED BY <1>2, <1>11, <2>2, <4>1, <5>3, Zenon
      <4>2. CASE page # pass.left
          BY <1>2, <1>11, <2>2, <4>2, Zenon
      <4>3. QED BY <4>1, <4>2, Zenon
    <3>2. HeldSince(p, Absent, pass.fence)
        BY <3>1, Zenon DEF IInv, PassInv
    <3>3. QED BY <1>8, <3>2, PassHeld, Zenon
  <2>3. QED BY <2>1, <2>2, Zenon
<1>12. pass'.scoped => /\ pass'.todo \subseteq Scope(refs)
                       /\ pass'.current # Absent => pass'.current \in Scope(refs)
    BY <1>2, <1>8, Zenon DEF IInv, PassInv
<1>13. PassInv'
    BY <1>5, <1>8, <1>10, <1>11, <1>12, Zenon DEF PassInv, In, Scope
<1>14. QED BY <1>8, <1>9, <1>13, Zenon

\* A page gives its paths their values while its fence is the revision.
LEMMA PageArrivesStep ==
    ASSUME IInv, PageArrives
    PROVE  IInv'
<1>1. /\ pass.on /\ pass.current # Absent /\ pass.scoped
      /\ UNCHANGED <<log, handlers, refs, watching, due, revision, loopVars, put, disturbed>>
    BY Zenon DEF PageArrives
<1> USE <1>1
<1>2. PICK r \in ReadAt(pass.since), page \in SUBSET pass.left \ {{}} :
          LET there == {p \in page : StoreAt(p, r) # Absent}
              whole == page = pass.left
          IN  /\ SetValues([p \in there |-> StoreAt(p, r)], pass.fence, TRUE, {})
              /\ pass' = [pass EXCEPT !.present = @ \cup there,
                                      !.left = @ \ page,
                                      !.listed = IF whole THEN @ \cup {pass.current} ELSE @,
                                      !.current = IF whole THEN Absent ELSE @,
                                      !.since = IF whole THEN 0 ELSE Len(log)]
    BY Zenon DEF PageArrives
<1>3. PICK there : there = {p \in page : StoreAt(p, r) # Absent}
    BY Zenon
<1>4. PICK news : news = [p \in there |-> StoreAt(p, r)]
    BY Zenon
<1>5. /\ SetValues(news, pass.fence, TRUE, {})
      /\ pass' = [pass EXCEPT !.present = @ \cup there,
                              !.left = @ \ page,
                              !.listed = IF page = pass.left THEN @ \cup {pass.current} ELSE @,
                              !.current = IF page = pass.left THEN Absent ELSE @,
                              !.since = IF page = pass.left THEN 0 ELSE Len(log)]
    BY <1>2, <1>3, <1>4, Zenon
<1>6. r \in Nat /\ pass.fence \in Nat /\ pass.fence <= r /\ r <= Len(log) /\ r \in 0..Len(log)
      /\ r \in pass.fence..Len(log)
  <2>1. pass.since \in Nat /\ pass.fence \in Nat /\ pass.fence <= pass.since
      BY Numbers DEF IInv, TypeInv, PassT, PassInv
  <2>2. QED BY <1>2, <2>1, Numbers DEF ReadAt
<1>7. page \in SUBSET pass.left /\ there \in SUBSET page /\ \A p \in page \ there : StoreAt(p, r) = Absent
    BY <1>2, <1>3, Zenon
<1>8. ASSUME NEW p \in page PROVE p \in Paths /\ refs[NamespaceOf(p)] > 0
  <2>1. pass.current \in Scope(refs) /\ p \in In({pass.current})
      BY <1>7, Zenon DEF IInv, PassInv
  <2>2. QED BY <2>1, Zenon DEF In, Scope
<1>9. PassT' /\ PassInv' /\ pass'.on = pass.on /\ pass'.scoped = pass.scoped
    BY <1>5, <1>6, <1>7, PageListed, Zenon
<1>10. DOMAIN news = there /\ \A p \in there : news[p] = StoreAt(p, r)
    BY <1>4, Zenon
<1>11. \A p \in there : StoreAt(p, r) \in Values \cup {Absent} /\ HeldSince(p, StoreAt(p, r), pass.fence)
    BY <1>6, <1>7, <1>8, StoreType, HeldHere, Numbers, Zenon
<1>12. /\ DOMAIN news \subseteq Paths
       /\ \A p \in DOMAIN news : /\ news[p] \in Values \cup {Absent} /\ refs[NamespaceOf(p)] > 0
                                 /\ pass.fence = revision => HeldSince(p, news[p], revision)
    BY <1>7, <1>8, <1>10, <1>11, Zenon
<1>13. /\ RegistryT' /\ RefInv' /\ RowT' /\ FieldT' /\ FieldInv' /\ RowInv' /\ ClosedInv'
       /\ ReadT' /\ CallsKept /\ CacheKept /\ PutKept /\ KeptFresh /\ NeverBehindStream'
    BY <1>5, <1>12, Reconciled, Zenon
<1>14. Grown /\ Len(log') \in {Len(log), Len(log) + 1} /\ CountT'
    BY SameLog, Numbers, SameCount, Zenon
<1>15. LoopT' /\ LoopInv'
    BY <1>9, <1>14, SameLoop, SameLoopInv, Zenon DEF loopVars, Closed
<1>16. QED BY <1>9, <1>13, <1>14, <1>15, Assemble, Zenon

\* The end of a pass drops what it has not found.
LEMMA FinishPassStep ==
    ASSUME IInv, FinishPass
    PROVE  IInv'
<1>1. /\ pass.on /\ pass.current = Absent /\ pass' = NoPass
      /\ UNCHANGED <<log, handlers, refs, watching, due, revision, loopVars, put, disturbed>>
    BY Zenon DEF FinishPass
<1> USE <1>1
<1>2. Grown /\ Len(log') \in {Len(log), Len(log) + 1} /\ CountT' /\ revision' \in Nat
    BY SameLog, Numbers, SameCount
<1>3. PassT' /\ PassInv' /\ ~pass'.on /\ ~pass'.scoped
    BY <1>2, NoPassOK, Zenon
<1>4. LoopT' /\ LoopInv'
    BY <1>2, <1>3, SameLoop, SameLoopInv, Zenon DEF loopVars, Closed
<1>5. CASE PassMoved
  <2>1. UNCHANGED <<known, fields, cache, calls>>
      BY <1>5, Zenon DEF FinishPass
  <2>2. RegistryT' /\ RefInv' /\ FieldT' /\ RowInv' /\ FieldInv' /\ ClosedInv'
      BY <2>1, SameRegistry, SameFields, SameRowInv, SameFieldInv, SameClosed, Zenon DEF loopVars
  <2>3. RowT' /\ KeptFresh /\ NeverBehindStream' /\ ReadT' /\ CallsKept /\ CacheKept /\ PutKept
      BY <1>2, <2>1, SameRows, SameFresh, SameReads, Zenon
  <2>4. QED BY <1>2, <1>3, <1>4, <2>2, <2>3, Assemble, Zenon
<1>6. CASE ~PassMoved
  <2>1. PICK D : D = (pass.paths \ pass.present) \cap In(pass.listed \cap Scope(refs))
      BY Zenon
  <2>2. PICK news : news = [p \in D |-> Absent]
      BY Zenon
  <2>3. SetValues(news, pass.fence, TRUE, {})
      BY <1>6, <2>1, <2>2, Zenon DEF FinishPass
  <2>4. DOMAIN news = D /\ \A p \in D : news[p] = Absent
      BY <2>2, Zenon
  <2>5. ASSUME NEW p \in D
        PROVE  p \in Paths /\ refs[NamespaceOf(p)] > 0 /\ HeldSince(p, Absent, pass.fence)
    <3>1. p \in In(pass.listed) \ pass.present /\ p \in Paths /\ NamespaceOf(p) \in Scope(refs)
        BY <2>1, <2>5, Zenon DEF In
    <3>2. QED BY <3>1, Zenon DEF IInv, PassInv, Scope
  <2>6. /\ DOMAIN news \subseteq Paths
        /\ \A p \in DOMAIN news : /\ news[p] \in Values \cup {Absent} /\ refs[NamespaceOf(p)] > 0
                                  /\ pass.fence = revision => HeldSince(p, news[p], revision)
      BY <2>4, <2>5, Zenon
  <2>7. /\ RegistryT' /\ RefInv' /\ RowT' /\ FieldT' /\ FieldInv' /\ RowInv' /\ ClosedInv'
        /\ ReadT' /\ CallsKept /\ CacheKept /\ PutKept /\ KeptFresh /\ NeverBehindStream'
      BY <2>3, <2>6, Reconciled, Zenon
  <2>8. QED BY <1>2, <1>3, <1>4, <2>7, Assemble, Zenon
<1>7. QED BY <1>5, <1>6, Zenon
=============================================================================
