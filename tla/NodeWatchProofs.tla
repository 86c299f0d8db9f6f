---------------------------- MODULE NodeWatchProofs ---------------------------
(***************************************************************************)
(* NodeWatch's safety properties: watchers, fields, reads and close keep   *)
(* the invariant of NodeWatchSteps, and what follows from it.              *)
(***************************************************************************)
EXTENDS NodeWatchSteps, FiniteSetTheorems

USE ZenonT(3), SMTT(20)     \* in this order, for a leaf that names no prover

-----------------------------------------------------------------------------
(* Registration.                                                           *)

Retainers(n) == WatchersOf(n) \cup HandlersOf(n)

\* The watchers and the handlers of a namespace are finite and disjoint.
LEMMA FiniteRetainers ==
    ASSUME NEW n
    PROVE  /\ IsFiniteSet(WatchersOf(n)) /\ IsFiniteSet(HandlersOf(n)) /\ IsFiniteSet(Retainers(n))
           /\ WatchersOf(n) \cap HandlersOf(n) = {}
<1>1. WatchersOf(n) \in SUBSET Watchers /\ HandlersOf(n) \in SUBSET Fields
    BY Zenon DEF WatchersOf, HandlersOf
<1>2. IsFiniteSet(WatchersOf(n)) /\ IsFiniteSet(HandlersOf(n))
    BY <1>1, FS_Subset, WatchConstants, Zenon
<1>3. IsFiniteSet(Retainers(n))
    BY <1>2, FS_Union, Zenon DEF Retainers
<1>4. QED BY <1>1, <1>2, <1>3, WatchConstants, Zenon

\* One more registration counts one more, and one less.
LEMMA RetainCounts ==
    ASSUME IInv, NEW n \in Namespaces, refs' = [refs EXCEPT ![n] = @ + 1],
           NEW a, a \notin Retainers(n), Retainers(n)' = Retainers(n) \cup {a},
           \A m \in Namespaces \ {n} : Retainers(m)' = Retainers(m)
    PROVE  refs' \in [Namespaces -> Nat] /\ RefInv'
<1>1. refs \in [Namespaces -> Nat] /\ \A m \in Namespaces : refs[m] = Cardinality(Retainers(m))
    BY Zenon DEF IInv, TypeInv, RegistryT, RefInv, Retainers
<1>2. refs' \in [Namespaces -> Nat] /\ refs'[n] = refs[n] + 1
      /\ \A m \in Namespaces \ {n} : refs'[m] = refs[m]
    BY <1>1
<1>3. Cardinality(Retainers(n)') = Cardinality(Retainers(n)) + 1
    BY FiniteRetainers, FS_AddElement, Zenon
<1>4. \A m \in Namespaces : refs'[m] = Cardinality(Retainers(m)')
    BY <1>1, <1>2, <1>3, Zenon
<1>5. QED BY <1>2, <1>4, Zenon DEF RefInv, Retainers

\* One holder less takes the count of one namespace down by one, and not below zero.
LEMMA ReleaseCounts ==
    ASSUME IInv, NEW n \in Namespaces, refs' = [refs EXCEPT ![n] = @ - 1],
           NEW a \in Retainers(n), Retainers(n)' = Retainers(n) \ {a},
           \A m \in Namespaces \ {n} : Retainers(m)' = Retainers(m)
    PROVE  refs' \in [Namespaces -> Nat] /\ RefInv' /\ refs[n] > 0
<1>1. refs \in [Namespaces -> Nat] /\ \A m \in Namespaces : refs[m] = Cardinality(Retainers(m))
    BY Zenon DEF IInv, TypeInv, RegistryT, RefInv, Retainers
<1>2. Cardinality(Retainers(n)') = Cardinality(Retainers(n)) - 1
    BY FiniteRetainers, FS_RemoveElement, Zenon
<1>3. refs[n] # 0
  <2>1. Retainers(n) # {}
      BY Zenon
  <2>2. Cardinality(Retainers(n)) # 0
      BY <2>1, FiniteRetainers, FS_EmptySet, Zenon
  <2>3. QED BY <1>1, <2>2, Zenon
<1>4. /\ refs' \in [Namespaces -> Nat] /\ refs[n] > 0 /\ refs'[n] = refs[n] - 1
      /\ \A m \in Namespaces \ {n} : refs'[m] = refs[m]
  <2>1. refs[n] \in Nat /\ refs[n] > 0 /\ refs[n] - 1 \in Nat
      BY <1>1, <1>3
  <2>2. QED BY <1>1, <2>1
<1>5. \A m \in Namespaces : refs'[m] = Cardinality(Retainers(m)')
    BY <1>1, <1>2, <1>4, Zenon
<1>6. QED BY <1>4, <1>5, Zenon DEF RefInv, Retainers

\* A pass or a session survives a registration that leaves the scope as it is;
\* otherwise its capture is stale from now on.
LEMMA Rescoped ==
    ASSUME IInv, UNCHANGED <<log, revision>>, NEW changed \in BOOLEAN,
           ~changed => Scope(refs)' = Scope(refs), ScopeChanged(changed)
    PROVE  /\ PassT' /\ PassInv' /\ due' \in BOOLEAN /\ pass'.on = pass.on
           /\ pass'.scoped => pass.scoped
<1>1. pass \in PassType /\ due \in BOOLEAN
    BY Zenon DEF IInv, TypeInv, PassT, PassType, RowT
<1>2. PICK b : b = (pass.scoped /\ ~changed)
    BY Zenon
<1>3. pass' = [pass EXCEPT !.scoped = b] /\ b \in BOOLEAN /\ due' \in BOOLEAN
    BY <1>2, Zenon DEF ScopeChanged
<1>4. pass' \in PassType
    BY <1>1, <1>3, Zenon DEF PassType
<1>5. /\ pass'.current = pass.current /\ pass'.left = pass.left /\ pass'.todo = pass.todo
      /\ pass'.since = pass.since /\ pass'.fence = pass.fence /\ pass'.scoped = b
      /\ pass'.listed = pass.listed /\ pass'.present = pass.present /\ pass'.on = pass.on
    BY <1>1, <1>3, Zenon DEF PassType
<1>6. PassT'
    BY <1>4, Zenon DEF PassT, PassType
<1>7. \A p : HeldSince(p, Absent, pass.fence)' <=> HeldSince(p, Absent, pass.fence)
    BY <1>5, PassHeld, Zenon
<1>8. PassInv'
    BY <1>2, <1>5, <1>7, Zenon DEF PassInv, IInv, In
<1>9. QED BY <1>2, <1>3, <1>5, <1>6, <1>8, Zenon

\* A session whose scope has changed is out of scope.
LEMMA SessionRescoped ==
    ASSUME IInv, UNCHANGED <<log, revision, run>>, NEW changed \in BOOLEAN,
           ~changed => Scope(refs)' = Scope(refs), restart' = (restart \/ changed),
           session' = [session EXCEPT !.scoped = @ /\ ~changed],
           pass'.on = pass.on, pass'.scoped => pass.scoped,
           Closed => \A w \in Watchers : watching'[w] = Absent
    PROVE  LoopT' /\ LoopInv'
<1>1. session \in SessionType /\ restart \in BOOLEAN
    BY Zenon DEF IInv, TypeInv, LoopT, SessionType
<1>2. PICK b : b = (session.scoped /\ ~changed)
    BY Zenon
<1>3. session' = [session EXCEPT !.scoped = b] /\ b \in BOOLEAN /\ restart' \in BOOLEAN
    BY <1>2, Zenon
<1>4. session' \in SessionType
    BY <1>1, <1>3, Zenon DEF SessionType
<1>5. /\ session'.namespaces = session.namespaces /\ session'.fresh = session.fresh
      /\ session'.since = session.since /\ session'.scoped = b
    BY <1>1, <1>3, Zenon DEF SessionType
<1>6. LoopT'
    BY <1>3, <1>4, Zenon DEF IInv, TypeInv, LoopT, SessionType
<1>7. LoopInv'
    BY <1>2, <1>5, Zenon DEF LoopInv, IInv, Closed
<1>8. QED BY <1>6, <1>7

\* #retainNamespace.
LEMMA Retained ==
    ASSUME IInv, ~Closed, UNCHANGED <<log, revision>>, NEW n \in Namespaces, Retain(n)
    PROVE  /\ LoopT' /\ LoopInv' /\ PassT' /\ PassInv' /\ due' \in BOOLEAN
           /\ run # "closed" /\ run' # "closed" /\ refs' = [refs EXCEPT ![n] = @ + 1]
           /\ refs'[n] > 0 /\ \A m \in Namespaces : refs[m] > 0 => refs'[m] > 0
           /\ \A p \in Paths : Followed(p)' => Followed(p)
<1>1. refs \in [Namespaces -> Nat]
    BY Zenon DEF IInv, TypeInv, RegistryT
<1>2. PICK first : first = (refs[n] = 0)
    BY Zenon
<1>3. /\ first \in BOOLEAN /\ refs' = [refs EXCEPT ![n] = @ + 1] /\ ScopeChanged(first)
      /\ IF run = "off" THEN Turn(refs', TRUE)
         ELSE /\ restart' = (restart \/ first)
              /\ session' = [session EXCEPT !.scoped = @ /\ ~first]
              /\ run' = run
    BY <1>2, Zenon DEF Retain
<1>4. /\ refs'[n] > 0 /\ \A m \in Namespaces : refs[m] > 0 => refs'[m] > 0
      /\ \A m \in Namespaces : refs'[m] > 0 => refs[m] > 0 \/ (m = n /\ refs[n] = 0)
    BY <1>1, <1>3
<1>5. ~first => Scope(refs)' = Scope(refs)
  <2> SUFFICES ASSUME ~first PROVE Scope(refs)' = Scope(refs)
      BY Zenon
  <2>1. \A m \in Namespaces : refs'[m] > 0 <=> refs[m] > 0
      BY <1>2, <1>4, Zenon
  <2>2. QED BY <2>1, Zenon DEF Scope
<1>6. /\ PassT' /\ PassInv' /\ due' \in BOOLEAN /\ pass'.on = pass.on
      /\ pass'.scoped => pass.scoped
    BY <1>3, <1>5, Rescoped, Zenon
<1>7. LoopT' /\ LoopInv' /\ run' # "closed"
  <2>1. CASE run = "off"
    <3>1. PICK c, t : c = refs' /\ t = TRUE
        BY Zenon
    <3>2. Turn(c, t) /\ t \in BOOLEAN
        BY <1>3, <2>1, <3>1, Zenon
    <3>3. /\ LoopT' /\ run' \in {"idle", "session"}
          /\ session'.scoped => session'.namespaces = Scope(c)
          /\ session'.fresh => session'.since = Len(log)
        BY <3>2, Turned, Zenon
    <3>4. run' # "closed" /\ ~Closed'
        BY <3>3 DEF Closed
    <3>5. session'.fresh => revision' <= session'.since
        BY <3>3, Numbers
    <3>6. QED BY <3>1, <3>3, <3>4, <3>5, Zenon DEF LoopInv
  <2>2. CASE run # "off"
    <3>1. LoopT' /\ LoopInv'
        BY <1>3, <1>5, <1>6, <2>2, SessionRescoped, Zenon
    <3>2. run' # "closed"
        BY <1>3, <2>2 DEF Closed
    <3>3. QED BY <3>1, <3>2
  <2>3. QED BY <2>1, <2>2, Zenon
<1>8. ASSUME NEW p \in Paths, Followed(p)' PROVE Followed(p)
  <2>1. NamespaceOf(p) \in Namespaces
      BY DEF Paths, NamespaceOf
  <2>2. ~due /\ ~first
      BY <1>3, <1>8, Zenon DEF Followed, ScopeChanged
  <2>3. refs[NamespaceOf(p)] > 0
      BY <1>2, <1>4, <1>8, <2>1, <2>2, Zenon DEF Followed
  <2>4. QED BY <2>2, <2>3, Zenon DEF Followed
<1>9. run # "closed"
    BY DEF Closed
<1>10. QED BY <1>3, <1>4, <1>6, <1>7, <1>8, <1>9, Zenon

\* #releaseNamespace.
LEMMA Released ==
    ASSUME IInv, UNCHANGED <<log, revision, run>>, NEW n \in Namespaces, refs[n] > 0, NEW rows,
           Release(n, rows), rows \in [Paths -> Row], Closed => \A w \in Watchers : watching'[w] = Absent,
           \A p \in Paths : rows[p] \in {known[p], Unknown}
    PROVE  /\ LoopT' /\ LoopInv' /\ PassT' /\ PassInv' /\ RowT'
           /\ \A p \in Paths : /\ Followed(p)' => Followed(p) /\ known'[p] = rows[p]
                               /\ known'[p] \in {rows[p], Unknown}
                               /\ known'[p] # Unknown => refs'[NamespaceOf(p)] > 0
<1>1. refs \in [Namespaces -> Nat]
    BY Zenon DEF IInv, TypeInv, RegistryT
<1>2. PICK last : last = (refs[n] = 1)
    BY Zenon
<1>3. /\ last \in BOOLEAN /\ refs' = [refs EXCEPT ![n] = @ - 1] /\ ScopeChanged(last)
      /\ known' = [p \in Paths |-> IF last /\ NamespaceOf(p) = n THEN Unknown ELSE rows[p]]
      /\ restart' = (restart \/ last)
      /\ session' = [session EXCEPT !.scoped = @ /\ ~last]
    BY <1>2, Zenon DEF Release
<1>4. /\ \A m \in Namespaces : refs'[m] > 0 => refs[m] > 0
      /\ \A m \in Namespaces : refs[m] > 0 => refs'[m] > 0 \/ (m = n /\ refs[n] = 1)
    BY <1>1, <1>3
<1>5. ~last => Scope(refs)' = Scope(refs)
  <2> SUFFICES ASSUME ~last PROVE Scope(refs)' = Scope(refs)
      BY Zenon
  <2>1. \A m \in Namespaces : refs'[m] > 0 <=> refs[m] > 0
      BY <1>2, <1>4, Zenon
  <2>2. QED BY <2>1, Zenon DEF Scope
<1>6. /\ PassT' /\ PassInv' /\ due' \in BOOLEAN /\ pass'.on = pass.on
      /\ pass'.scoped => pass.scoped
    BY <1>3, <1>5, Rescoped, Zenon
<1>7. LoopT' /\ LoopInv'
    BY <1>3, <1>5, <1>6, SessionRescoped, Zenon
<1>8. ASSUME NEW p \in Paths
      PROVE  /\ Followed(p)' => Followed(p) /\ known'[p] = rows[p]
             /\ known'[p] \in {rows[p], Unknown}
             /\ known'[p] # Unknown => refs'[NamespaceOf(p)] > 0
  <2>1. NamespaceOf(p) \in Namespaces
      BY DEF Paths, NamespaceOf
  <2>2. known'[p] = IF last /\ NamespaceOf(p) = n THEN Unknown ELSE rows[p]
      BY <1>3, Zenon
  <2>3. Followed(p)' => Followed(p) /\ ~last
      BY <1>3, <1>4, <2>1, Zenon DEF Followed, ScopeChanged
  <2>4. known'[p] # Unknown => refs[NamespaceOf(p)] > 0 /\ ~(last /\ NamespaceOf(p) = n)
      BY <2>2, Zenon DEF IInv, RowInv
  <2>5. QED BY <1>2, <1>4, <2>1, <2>2, <2>3, <2>4, Zenon
<1>9. RowT'
  <2>1. Unknown \in Row
    <3>1. -1 \in -1..MaxRevision
        BY WatchConstants
    <3>2. QED BY <3>1, Zenon DEF Unknown, Row
  <2>2. \A p \in Paths : (IF last /\ NamespaceOf(p) = n THEN Unknown ELSE rows[p]) \in Row
      BY <2>1, Zenon
  <2>3. known' \in [Paths -> Row]
      BY <1>3, <2>2, Zenon
  <2>4. QED BY <1>6, <2>3, Zenon DEF IInv, TypeInv, RowT
<1>10. QED BY <1>6, <1>7, <1>8, <1>9, Zenon

\* watch retains its namespace.
LEMMA WatchStep ==
    ASSUME IInv, NEW w \in Watchers, Watch(w)
    PROVE  IInv'
<1>1. /\ watching[w] = Absent /\ ~Closed /\ Disturb
      /\ UNCHANGED <<log, known, handlers, revision, fields, readVars>>
    BY Zenon DEF Watch
<1> USE <1>1 DEF readVars
<1>2. PICK n \in Namespaces : watching' = [watching EXCEPT ![w] = n] /\ Retain(n)
    BY Zenon DEF Watch
<1>3. Grown /\ Len(log') \in {Len(log), Len(log) + 1}
    BY SameLog, Numbers
<1>4. /\ LoopT' /\ LoopInv' /\ PassT' /\ PassInv' /\ due' \in BOOLEAN
      /\ run # "closed" /\ run' # "closed" /\ refs' = [refs EXCEPT ![n] = @ + 1]
      /\ refs'[n] > 0 /\ \A m \in Namespaces : refs[m] > 0 => refs'[m] > 0
      /\ \A p \in Paths : Followed(p)' => Followed(p)
    BY <1>2, Retained, Zenon
<1>5. watching \in [Watchers -> Namespaces \cup {Absent}]
    BY Zenon DEF IInv, TypeInv, RegistryT
<1>6. /\ watching' \in [Watchers -> Namespaces \cup {Absent}] /\ watching'[w] = n
      /\ \A v \in Watchers : v # w => watching'[v] = watching[v]
    BY <1>2, <1>5, Zenon
<1>7. w \notin Retainers(n) /\ Absent \notin Namespaces
    BY WatchConstants, Zenon DEF Retainers, WatchersOf, HandlersOf
<1>8. Retainers(n)' = Retainers(n) \cup {w}
  <2>1. WatchersOf(n)' = WatchersOf(n) \cup {w} /\ HandlersOf(n)' = HandlersOf(n)
      BY <1>6, Zenon DEF WatchersOf, HandlersOf
  <2>2. QED BY <2>1, Zenon DEF Retainers
<1>9. \A m \in Namespaces \ {n} : Retainers(m)' = Retainers(m)
  <2> SUFFICES ASSUME NEW m \in Namespaces \ {n} PROVE Retainers(m)' = Retainers(m)
      BY Zenon
  <2>1. WatchersOf(m)' = WatchersOf(m) /\ HandlersOf(m)' = HandlersOf(m)
      BY <1>6, <1>7, Zenon DEF WatchersOf, HandlersOf
  <2>2. QED BY <2>1, Zenon DEF Retainers
<1>10. refs' \in [Namespaces -> Nat] /\ RefInv'
    BY <1>4, <1>7, <1>8, <1>9, RetainCounts, Zenon
<1>11. RegistryT'
    BY <1>6, <1>10, Zenon DEF IInv, TypeInv, RegistryT
<1>12. RowT' /\ FieldT' /\ FieldInv' /\ CountT'
    BY <1>4, SameFields, SameFieldInv, Disturbed, Zenon DEF IInv, TypeInv, RowT
<1>13. RowInv' /\ ClosedInv'
  <2>1. \A p \in Paths : NamespaceOf(p) \in Namespaces
      BY DEF Paths, NamespaceOf
  <2>2. QED BY <1>4, <2>1, Zenon DEF IInv, RowInv, ClosedInv, Unknown
<1>14. ReadT' /\ CallsKept /\ CacheKept /\ PutKept
    BY <1>3, SameReads, Zenon
<1>15. KeptFresh /\ NeverBehindStream'
    BY <1>3, <1>4, FreshKept, StreamKept, Zenon
<1>16. QED BY <1>3, <1>4, <1>10, <1>11, <1>12, <1>13, <1>14, <1>15, Assemble, Zenon

\* Stopping a watch releases its namespace.
LEMMA StopWatchStep ==
    ASSUME IInv, NEW w \in Watchers, StopWatch(w)
    PROVE  IInv'
<1>1. /\ watching[w] # Absent /\ watching' = [watching EXCEPT ![w] = Absent]
      /\ UNCHANGED <<log, handlers, revision, run, fields, readVars, disturbed>>
    BY Zenon DEF StopWatch
<1> USE <1>1 DEF readVars
<1>2. watching \in [Watchers -> Namespaces \cup {Absent}] /\ known \in [Paths -> Row]
    BY Zenon DEF IInv, TypeInv, RegistryT, RowT
<1>3. PICK n \in Namespaces : n = watching[w]
    BY <1>2, Zenon
<1>4. PICK rows : rows = known
    BY Zenon
<1>5. Release(n, rows)
    BY <1>3, <1>4, Zenon DEF StopWatch
<1>6. /\ watching' \in [Watchers -> Namespaces \cup {Absent}] /\ watching'[w] = Absent
      /\ \A v \in Watchers : v # w => watching'[v] = watching[v]
    BY <1>2, Zenon
<1>7. w \in Retainers(n) /\ Absent \notin Namespaces /\ w \notin Fields
    BY <1>3, WatchConstants, Zenon DEF Retainers, WatchersOf
<1>8. Retainers(n)' = Retainers(n) \ {w}
  <2>1. WatchersOf(n)' = WatchersOf(n) \ {w} /\ HandlersOf(n)' = HandlersOf(n) /\ w \notin HandlersOf(n)
      BY <1>6, <1>7, Zenon DEF WatchersOf, HandlersOf
  <2>2. QED BY <2>1, Zenon DEF Retainers
<1>9. \A m \in Namespaces \ {n} : Retainers(m)' = Retainers(m)
  <2> SUFFICES ASSUME NEW m \in Namespaces \ {n} PROVE Retainers(m)' = Retainers(m)
      BY Zenon
  <2>1. WatchersOf(m)' = WatchersOf(m) /\ HandlersOf(m)' = HandlersOf(m)
      BY <1>3, <1>6, <1>7, Zenon DEF WatchersOf, HandlersOf
  <2>2. QED BY <2>1, Zenon DEF Retainers
<1>10. refs' \in [Namespaces -> Nat] /\ RefInv' /\ refs[n] > 0
  <2>1. refs' = [refs EXCEPT ![n] = @ - 1]
      BY <1>5, Zenon DEF Release
  <2>2. QED BY <1>7, <1>8, <1>9, <2>1, ReleaseCounts, Zenon
<1>11. ~Closed
    BY Zenon DEF IInv, LoopInv
<1>12. /\ LoopT' /\ LoopInv' /\ PassT' /\ PassInv' /\ RowT'
       /\ \A p \in Paths : /\ Followed(p)' => Followed(p) /\ known'[p] = rows[p]
                           /\ known'[p] \in {rows[p], Unknown}
                           /\ known'[p] # Unknown => refs'[NamespaceOf(p)] > 0
  <2>1. \A p \in Paths : rows[p] \in {known[p], Unknown}
      BY <1>4, Zenon
  <2>2. QED BY <1>2, <1>4, <1>5, <1>10, <1>11, <2>1, Released, Zenon
<1>13. Grown /\ Len(log') \in {Len(log), Len(log) + 1} /\ revision \in Nat /\ Unknown.revision = -1
    BY SameLog, Numbers DEF Unknown
<1>14. RegistryT' /\ FieldT' /\ CountT' /\ ReadT' /\ CallsKept /\ CacheKept /\ PutKept
    BY <1>6, <1>10, <1>13, SameFields, SameCount, SameReads, Zenon DEF IInv, TypeInv, RegistryT
<1>15. RowInv' /\ ClosedInv' /\ KeptFresh /\ NeverBehindStream' /\ FieldInv'
  <2>1. \A p \in Paths : known'[p] \in {known[p], Unknown}
      BY <1>4, <1>12, Zenon
  <2>2. \A p \in Paths : known'[p].revision <= revision' /\ (known'[p].revision > 0 => known'[p] = known[p])
    <3>1. -1 <= revision /\ ~(-1 > 0)
        BY <1>13
    <3>2. QED BY <1>13, <2>1, <3>1, Zenon DEF IInv, RowInv
  <2>3. RowInv'
      BY <1>12, <2>1, <2>2, Zenon DEF IInv, RowInv, Unknown
  <2>4. ClosedInv'
      BY <1>11 DEF ClosedInv, Closed
  <2>5. KeptFresh
      BY <1>4, <1>12, <1>13, FreshKept, Zenon
  <2>6. NeverBehindStream'
      BY <1>13, <2>2, StreamKept, Zenon
  <2>7. FieldInv'
      BY SameFieldInv, Zenon
  <2>8. QED BY <2>3, <2>4, <2>5, <2>6, <2>7
<1>16. QED BY <1>10, <1>12, <1>13, <1>14, <1>15, Assemble, Zenon

\* close stops the watchers, the session and the pass.
LEMMA CloseStep ==
    ASSUME IInv, Close
    PROVE  IInv'
<1>1. /\ ~Closed /\ run' = "closing" /\ session' = NoSession /\ pass' = NoPass
      /\ watching' = [w \in Watchers |-> Absent]
      /\ refs' = [n \in Namespaces |-> refs[n] - Cardinality({w \in Watchers : watching[w] = n})]
      /\ due' = (due \/ Scope(refs') # Scope(refs))
      /\ restart' = (restart \/ Scope(refs') # Scope(refs))
      /\ known' = [p \in Paths |-> IF refs'[NamespaceOf(p)] = 0 THEN Unknown ELSE known[p]]
      /\ UNCHANGED <<log, handlers, revision, fields, readVars, disturbed>>
    BY Zenon DEF Close
<1> USE <1>1 DEF readVars
<1>2. /\ Grown /\ Len(log') \in {Len(log), Len(log) + 1} /\ revision' \in Nat /\ revision \in Nat
      /\ Unknown.revision = -1 /\ Absent \notin Namespaces /\ 0 \in 0..Len(log) /\ -1 \in -1..MaxRevision
    BY SameLog, Numbers, WatchConstants DEF Unknown
<1>3. PassT' /\ PassInv' /\ ~pass'.on /\ ~pass'.scoped
    BY <1>2, NoPassOK, Zenon
<1>4. refs' \in [Namespaces -> Nat] /\ RefInv' /\ \A n \in Namespaces : refs'[n] <= refs[n] /\ refs[n] \in Nat
  <2>1. ASSUME NEW n \in Namespaces
        PROVE  /\ refs'[n] = Cardinality(Retainers(n)') /\ refs'[n] \in Nat
               /\ refs'[n] <= refs[n] /\ refs[n] \in Nat
    <3>1. PICK W, H : W = WatchersOf(n) /\ H = HandlersOf(n)
        BY Zenon
    <3>2. IsFiniteSet(W) /\ IsFiniteSet(H) /\ W \cap H = {}
        BY <3>1, FiniteRetainers, Zenon
    <3>3. Cardinality(W) \in Nat /\ Cardinality(H) \in Nat
        BY <3>2, FS_CardinalityType, Zenon
    <3>4. Cardinality(W \cup H) = Cardinality(W) + Cardinality(H) - 0
      <4>1. Cardinality(W \cup H) = Cardinality(W) + Cardinality(H) - Cardinality(W \cap H)
          BY <3>2, FS_Union
      <4>2. Cardinality(W \cap H) = 0
          BY <3>2, FS_EmptySet, Zenon
      <4>3. QED BY <4>1, <4>2, Zenon
    <3>5. refs[n] = Cardinality(W \cup H) /\ refs'[n] = refs[n] - Cardinality(W)
      <4>1. refs[n] = Cardinality(W \cup H)
          BY <3>1, Zenon DEF IInv, RefInv
      <4>2. refs'[n] = refs[n] - Cardinality(W)
          BY <3>1, Zenon DEF WatchersOf
      <4>3. QED BY <4>1, <4>2
    <3>6. Retainers(n)' = H
      <4>1. HandlersOf(n)' = H
          BY <3>1, Zenon DEF HandlersOf
      <4>2. WatchersOf(n)' = {}
          BY <1>2, Zenon DEF WatchersOf
      <4>3. QED BY <4>1, <4>2, Zenon DEF Retainers
    <3>7. refs'[n] = Cardinality(H) /\ refs'[n] <= refs[n] /\ refs[n] \in Nat
        BY <3>3, <3>4, <3>5
    <3>8. QED BY <3>3, <3>6, <3>7, Zenon
  <2>2. refs' = [n \in Namespaces |-> refs'[n]]
      BY Zenon
  <2>3. refs' \in [Namespaces -> Nat]
      BY <2>1, <2>2, Zenon
  <2>4. QED BY <2>1, <2>3, Zenon DEF RefInv, Retainers
<1>5. LoopT' /\ LoopInv'
  <2>1. NoSession \in SessionType /\ NoSession.scoped = FALSE /\ NoSession.fresh = FALSE
      BY <1>2, Zenon DEF NoSession, SessionType
  <2>2. restart' \in BOOLEAN
      BY Zenon
  <2>3. LoopT'
      BY <2>1, <2>2, Zenon DEF LoopT, SessionType
  <2>4. LoopInv'
      BY <1>3, <2>1, Zenon DEF LoopInv
  <2>5. QED BY <2>3, <2>4
<1>6. ASSUME NEW p \in Paths
      PROVE  /\ Followed(p)' => Followed(p) /\ known'[p] = known[p]
             /\ known'[p] \in {known[p], Unknown}
             /\ known'[p] # Unknown => refs'[NamespaceOf(p)] > 0
  <2>1. NamespaceOf(p) \in Namespaces
      BY DEF Paths, NamespaceOf
  <2>2. PICK m : m = NamespaceOf(p)
      BY Zenon
  <2>3. refs'[m] \in Nat /\ refs[m] \in Nat /\ refs'[m] <= refs[m]
      BY <1>4, <2>1, <2>2, Zenon
  <2>4. (refs'[m] > 0 => refs[m] > 0 /\ refs'[m] # 0) /\ (refs'[m] # 0 => refs'[m] > 0)
      BY <2>3
  <2>5. known'[p] = IF refs'[m] = 0 THEN Unknown ELSE known[p]
      BY <2>2, Zenon
  <2>6. Followed(p)' => Followed(p) /\ known'[p] = known[p]
      BY <2>2, <2>4, <2>5, Zenon DEF Followed
  <2>7. QED BY <2>2, <2>4, <2>5, <2>6, Zenon
<1>7. RegistryT' /\ FieldT' /\ CountT' /\ ReadT' /\ CallsKept /\ CacheKept /\ PutKept
  <2>1. watching' \in [Watchers -> Namespaces \cup {Absent}]
      BY Zenon
  <2>2. QED BY <1>2, <1>4, <2>1, SameFields, SameCount, SameReads, Zenon DEF IInv, TypeInv, RegistryT
<1>8. RowT'
  <2>1. Unknown \in Row /\ known \in [Paths -> Row]
      BY <1>2, Zenon DEF Unknown, Row, IInv, TypeInv, RowT
  <2>2. \A p \in Paths : known'[p] \in Row
      BY <1>6, <2>1, Zenon
  <2>3. known' \in [Paths -> Row]
      BY <2>2, Zenon
  <2>4. due' \in BOOLEAN
      BY Zenon
  <2>5. QED BY <2>3, <2>4, Zenon DEF IInv, TypeInv, RowT
<1>9. \A p \in Paths : known'[p].revision <= revision' /\ (known'[p].revision > 0 => known'[p] = known[p])
  <2>1. -1 <= revision /\ ~(-1 > 0)
      BY <1>2
  <2>2. QED BY <1>2, <1>6, <2>1, Zenon DEF IInv, RowInv
<1>10. RowInv'
    BY <1>6, <1>9, Zenon DEF IInv, RowInv, Unknown
<1>11. ClosedInv' /\ KeptFresh /\ NeverBehindStream'
  <2>1. ClosedInv'
      BY DEF ClosedInv
  <2>2. KeptFresh /\ NeverBehindStream'
      BY <1>2, <1>6, <1>9, FreshKept, StreamKept, Zenon
  <2>3. QED BY <2>1, <2>2
<1>12. FieldInv'
  <2>1. run # "closed" /\ run' # "closed"
      BY DEF Closed
  <2>2. QED BY <2>1, SameFieldInv, Zenon
<1>13. QED BY <1>2, <1>3, <1>4, <1>5, <1>7, <1>8, <1>10, <1>11, <1>12, Assemble, Zenon

\* The end of the loop empties rows, handlers and cache.
LEMMA CloseEndsStep ==
    ASSUME IInv, CloseEnds
    PROVE  IInv'
<1>1. /\ run = "closing" /\ run' = "closed" /\ known' = [p \in Paths |-> Unknown]
      /\ handlers' = [p \in Paths |-> {}] /\ refs' = [n \in Namespaces |-> 0]
      /\ UNCHANGED <<log, watching, due, revision, restart, session, pass, fields, put, disturbed>>
    BY Zenon DEF CloseEnds
<1> USE <1>1
<1>2. /\ Grown /\ Len(log') \in {Len(log), Len(log) + 1} /\ revision' \in Nat /\ revision <= revision'
      /\ Unknown.revision = -1 /\ Absent \notin Namespaces /\ -1 \in -1..MaxRevision
      /\ -1 <= revision /\ ~(-1 > 0) /\ ~(0 > 0) /\ 0 \in Nat
    BY SameLog, Numbers, WatchConstants DEF Unknown
<1>3. Closed /\ Closed' /\ ~session.scoped /\ ~pass.scoped /\ \A w \in Watchers : watching[w] = Absent
    BY Zenon DEF Closed, IInv, LoopInv
<1>4. PICK S : S = Paths
    BY Zenon
<1>5. Invalidate(S)
    BY <1>4, Zenon DEF CloseEnds
<1>6. /\ cache' \in [Paths -> Values \cup {Absent}] /\ calls' \in [Fields -> CallType]'
      /\ \A x \in Fields : /\ calls'[x].path = calls[x].path
                           /\ calls'[x].current => calls[x].current
      /\ \A p \in Paths : Dropped(p)
      /\ CallsKept /\ CacheKept
    BY <1>4, <1>5, Invalidated, Zenon
<1>7. ReadT' /\ PutKept
    BY <1>6, Zenon DEF IInv, TypeInv, ReadT, PutKept
<1>8. RegistryT' /\ RefInv'
  <2>1. refs' \in [Namespaces -> Nat] /\ handlers' \in [Paths -> SUBSET Fields]
      BY <1>2, Zenon
  <2>2. \A n \in Namespaces : WatchersOf(n)' = {} /\ HandlersOf(n)' = {}
      BY <1>2, <1>3, Zenon DEF WatchersOf, HandlersOf
  <2>3. {} \cup {} = {} /\ Cardinality({}) = 0
      BY FS_EmptySet, Zenon
  <2>4. \A n \in Namespaces : (WatchersOf(n) \cup HandlersOf(n))' = {}
      BY <2>2, <2>3, Zenon
  <2>5. RefInv'
      BY <2>3, <2>4, Zenon DEF RefInv
  <2>6. QED BY <2>1, <2>5, Zenon DEF IInv, TypeInv, RegistryT
<1>9. LoopT' /\ FieldT' /\ CountT' /\ PassT'
  <2>1. LoopT'
      BY Zenon DEF IInv, TypeInv, LoopT
  <2>2. QED BY <1>2, <2>1, SameFields, SameCount, SamePass, Zenon
<1>10. RowT'
  <2>1. Unknown \in Row
      BY <1>2, Zenon DEF Unknown, Row
  <2>2. known' \in [Paths -> Row]
      BY <2>1, Zenon
  <2>3. QED BY <2>2, Zenon DEF IInv, TypeInv, RowT
<1>11. LoopInv'
    BY <1>3, Zenon DEF LoopInv, IInv
<1>12. PassInv'
  <2>1. \A p : HeldSince(p, Absent, pass.fence)' <=> HeldSince(p, Absent, pass.fence)
      BY PassHeld, Zenon
  <2>2. QED BY <1>3, <2>1, Zenon DEF PassInv, IInv, In
<1>13. \A p \in Paths : known'[p] = Unknown /\ known'[p].revision = -1 /\ handlers'[p] = {}
    BY <1>2, Zenon
<1>14. FieldInv'
    BY <1>6, <1>13, Zenon DEF IInv, FieldInv
<1>15. RowInv'
    BY <1>2, <1>13, Zenon DEF RowInv, Unknown
<1>16. ClosedInv'
  <2>1. ASSUME NEW x \in Fields, calls'[x].current PROVE FALSE
    <3>1. calls[x].current /\ calls[x].path # Absent
        BY <1>6, <2>1, Zenon DEF IInv, ReadInv
    <3>2. calls[x].path \in Paths
        BY <3>1 DEF IInv, TypeInv, ReadT, CallType
    <3>3. QED BY <1>6, <2>1, <3>2, Zenon DEF Dropped
  <2>2. QED BY <1>6, <1>13, <2>1, Zenon DEF ClosedInv, Dropped, Unknown
<1>17. KeptFresh /\ NeverBehindStream'
  <2>1. \A p \in Paths : refs'[NamespaceOf(p)] = 0
      BY DEF Paths, NamespaceOf
  <2>2. QED BY <1>2, <1>13, <2>1, Zenon DEF KeptFresh, Followed, NeverBehindStream
<1>18. QED BY <1>2, <1>6, <1>7, <1>8, <1>9, <1>10, <1>11, <1>12, <1>14, <1>15, <1>16, <1>17, Assemble, Zenon

\* A field that is not registered has no handler and retains nothing.
LEMMA Registered ==
    ASSUME IInv, NEW x \in Fields
    PROVE  /\ fields[x] \in FieldType /\ x \notin Watchers
           /\ fields[x].phase # "new" => fields[x].path \in Paths
           /\ fields[x].phase \notin {"registered", "live"} =>
                 (\A p \in Paths : x \notin handlers[p]) /\ \A n : x \notin Retainers(n)
<1>1. fields[x] \in FieldType
    BY Zenon DEF IInv, TypeInv, FieldT
<1>2. fields[x].path \in Paths \cup {Absent}
    BY <1>1 DEF FieldType
<1>3. fields[x].phase # "new" => fields[x].path \in Paths
    BY <1>2, Zenon DEF IInv, FieldInv
<1>4. fields[x].phase \notin {"registered", "live"} => \A p \in Paths : x \notin handlers[p]
    BY Zenon DEF IInv, FieldInv
<1>5. x \notin Watchers
    BY WatchConstants, Zenon
<1>6. QED BY <1>1, <1>3, <1>4, <1>5, Zenon DEF Retainers, WatchersOf, HandlersOf

\* A field registers its handler and retains the namespace.
LEMMA RegisterStep ==
    ASSUME IInv, NEW x \in Fields, Register(x)
    PROVE  IInv'
<1>1. PICK p : p = fields[x].path
    BY Zenon
<1>2. /\ fields[x].phase = "resolving" /\ ~Closed
      /\ known' = IF known[p] = Unknown
                  THEN [known EXCEPT ![p] = [value |-> fields[x].value, revision |-> 0]]
                  ELSE known
      /\ fields' = [fields EXCEPT ![x] =
                      [(IF known[p] = Unknown THEN fields[x] ELSE AppliedUpdate(x, known[p].value))
                          EXCEPT !.phase = "registered"]]
      /\ handlers' = [handlers EXCEPT ![p] = @ \cup {x}]
      /\ Retain(NamespaceOf(p))
      /\ UNCHANGED <<log, watching, revision, readVars, disturbed>>
    BY <1>1, Zenon DEF Register
<1> USE <1>2 DEF readVars
<1>3. /\ fields[x] \in FieldType /\ x \notin Watchers /\ p \in Paths
      /\ \A q \in Paths : x \notin handlers[q]
      /\ \A n : x \notin Retainers(n)
  <2>1. "resolving" # "new" /\ "resolving" \notin {"registered", "live"}
      OBVIOUS
  <2>2. QED BY <1>1, <2>1, Registered, Zenon
<1>4. NamespaceOf(p) \in Namespaces
    BY <1>3 DEF Paths, NamespaceOf
<1>5. PICK n \in Namespaces : n = NamespaceOf(p)
    BY <1>4, Zenon
<1>6. /\ LoopT' /\ LoopInv' /\ PassT' /\ PassInv' /\ due' \in BOOLEAN
      /\ run # "closed" /\ run' # "closed" /\ refs' = [refs EXCEPT ![n] = @ + 1]
      /\ refs'[n] > 0 /\ \A m \in Namespaces : refs[m] > 0 => refs'[m] > 0
      /\ \A q \in Paths : Followed(q)' => Followed(q)
  <2>1. Retain(n)
      BY <1>5, Zenon
  <2>2. QED BY <2>1, Retained, Zenon
<1>7. /\ Grown /\ Len(log') \in {Len(log), Len(log) + 1} /\ 0 \in -1..MaxRevision /\ 0 <= revision
      /\ ~(0 > 0)
    BY SameLog, Numbers
<1>8. /\ handlers' \in [Paths -> SUBSET Fields] /\ handlers'[p] = handlers[p] \cup {x}
      /\ \A q \in Paths : q # p => handlers'[q] = handlers[q]
  <2>1. handlers \in [Paths -> SUBSET Fields]
      BY Zenon DEF IInv, TypeInv, RegistryT
  <2>2. handlers[p] \cup {x} \in SUBSET Fields
      BY <1>3, <2>1, Zenon
  <2>3. QED BY <1>3, <2>1, <2>2, Zenon
<1>9. refs' \in [Namespaces -> Nat] /\ RefInv'
  <2>1. HandlersOf(n)' = HandlersOf(n) \cup {x}
      BY <1>3, <1>5, <1>8, Zenon DEF HandlersOf
  <2>2. WatchersOf(n)' = WatchersOf(n)
      BY Zenon DEF WatchersOf
  <2>3. Retainers(n)' = Retainers(n) \cup {x}
      BY <2>1, <2>2, Zenon DEF Retainers
  <2>4. ASSUME NEW m \in Namespaces \ {n} PROVE Retainers(m)' = Retainers(m)
    <3>1. \A q \in Paths : NamespaceOf(q) = m => handlers'[q] = handlers[q]
        BY <1>5, <1>8, Zenon
    <3>2. HandlersOf(m)' = HandlersOf(m) /\ WatchersOf(m)' = WatchersOf(m)
        BY <3>1, Zenon DEF HandlersOf, WatchersOf
    <3>3. QED BY <3>2, Zenon DEF Retainers
  <2>5. QED BY <1>3, <1>6, <2>3, <2>4, RetainCounts, Zenon
<1>10. RegistryT'
    BY <1>8, <1>9, Zenon DEF IInv, TypeInv, RegistryT
<1>11. PICK v : v = fields[x].value
    BY Zenon
<1>12. v \in Values \cup {Absent, Default} /\ v # Absent
  <2>1. v # Absent
      BY <1>11, Zenon DEF IInv, FieldInv
  <2>2. QED BY <1>3, <1>11, <2>1 DEF FieldType
<1>13. PICK row : row = [value |-> v, revision |-> 0]
    BY Zenon
<1>14. row \in Row /\ row.value = v /\ row.revision = 0
    BY <1>7, <1>12, <1>13, Zenon DEF Row
<1>15. known \in [Paths -> Row]
    BY Zenon DEF IInv, TypeInv, RowT
<1>16. /\ known' \in [Paths -> Row] /\ \A q \in Paths : q # p => known'[q] = known[q]
       /\ known[p] = Unknown => known'[p] = row
       /\ known[p] # Unknown => known'[p] = known[p]
  <2>1. CASE known[p] = Unknown
    <3>1. known' = [known EXCEPT ![p] = row]
        BY <1>11, <1>13, <2>1, Zenon
    <3>2. QED BY <1>3, <1>14, <1>15, <2>1, <3>1, Zenon
  <2>2. CASE known[p] # Unknown
      BY <1>15, <2>2, Zenon
  <2>3. QED BY <2>1, <2>2, Zenon
<1>17. RowT'
    BY <1>6, <1>16, Zenon DEF IInv, TypeInv, RowT
<1>18. RowInv'
  <2>1. ASSUME NEW q \in Paths
        PROVE  /\ known'[q].revision <= revision
               /\ known'[q] # Unknown => /\ refs'[NamespaceOf(q)] > 0
                                         /\ known'[q].value # Absent \/ handlers'[q] # {}
    <3>1. NamespaceOf(q) \in Namespaces
        BY DEF Paths, NamespaceOf
    <3>2. handlers[q] \subseteq handlers'[q]
        BY <1>8, Zenon
    <3>3. CASE known'[q] = known[q]
        BY <1>6, <3>1, <3>2, <3>3, Zenon DEF IInv, RowInv
    <3>4. CASE known'[q] # known[q]
        BY <1>5, <1>6, <1>7, <1>12, <1>14, <1>16, <3>4, Zenon
    <3>5. QED BY <3>3, <3>4, Zenon
  <2>2. QED BY <2>1, Zenon DEF RowInv, Unknown
<1>19. KeptFresh
  <2>1. \A q \in Paths : known[q].value \in {Absent, known'[q].value}
    <3>1. Unknown.value = Absent
        BY DEF Unknown
    <3>2. QED BY <1>16, <3>1, Zenon
  <2>2. QED BY <1>6, <1>7, <2>1, FreshKept, Zenon
<1>20. NeverBehindStream'
  <2>1. \A q \in Paths : known'[q].revision > 0 => known'[q] = known[q]
      BY <1>7, <1>14, <1>16, Zenon
  <2>2. QED BY <1>7, <2>1, StreamKept, Zenon
<1>21. PICK g : g = fields'[x]
    BY Zenon
<1>22. g \in FieldType /\ g.path = p /\ g.phase = "registered"
  <2>1. PICK h : h = IF known[p] = Unknown THEN fields[x] ELSE AppliedUpdate(x, known[p].value)
      BY Zenon
  <2>2. h \in FieldType /\ h.path = p
    <3>1. CASE known[p] = Unknown
        BY <1>1, <1>3, <2>1, <3>1, Zenon
    <3>2. CASE known[p] # Unknown
      <4>1. PICK u : u = known[p].value
          BY Zenon
      <4>2. u \in Values \cup {Absent, Default}
          BY <1>3, <1>15, <4>1 DEF Row
      <4>3. QED BY <1>1, <2>1, <3>2, <4>1, <4>2, Applied, Zenon
    <3>3. QED BY <3>1, <3>2, Zenon
  <2>3. g = [h EXCEPT !.phase = "registered"]
      BY <1>21, <2>1, Zenon DEF IInv, TypeInv, FieldT
  <2>4. "registered" \in Phases
      BY Zenon DEF Phases
  <2>5. QED BY <2>2, <2>3, <2>4, Zenon DEF FieldType
<1>23. /\ fields' = [fields EXCEPT ![x] = g] /\ fields \in [Fields -> FieldType]
       /\ \A y \in Fields : y # x => fields'[y] = fields[y]
    BY <1>21, Zenon DEF IInv, TypeInv, FieldT
<1>24. FieldT'
  <2>1. fields' \in [Fields -> FieldType]
      BY <1>22, <1>23, Zenon
  <2>2. QED BY <2>1, Zenon DEF FieldT, FieldType
<1>25. FieldInv'
  <2>1. ASSUME NEW y \in Fields, y # x
        PROVE  /\ fields'[y] = fields[y] /\ \A q \in Paths : y \in handlers'[q] <=> y \in handlers[q]
      BY <1>8, <1>23, <2>1, Zenon
  <2>2. p # Absent
      BY <1>3, WatchConstants, Zenon DEF Paths
  <2>3. \A q \in Paths : x \in handlers'[q] <=> q = p
      BY <1>3, <1>8, Zenon
  <2>4. "registered" \notin {"reading", "resolving"} /\ "registered" \in {"registered", "live"}
      OBVIOUS
  <2>5. ASSUME NEW y \in Fields
        PROVE  /\ fields'[y].phase # "new" => fields'[y].path # Absent
               /\ fields'[y].phase = "reading" => calls'[y].path = fields'[y].path
               /\ fields'[y].phase = "resolving" => fields'[y].value # Absent
               /\ \A q \in Paths : y \in handlers'[q] <=>
                     /\ fields'[y].path = q /\ fields'[y].phase \in {"registered", "live"}
                     /\ run' # "closed"
    <3>1. CASE y = x
        BY <1>6, <1>21, <1>22, <2>2, <2>3, <2>4, <3>1, Zenon
    <3>2. CASE y # x
      <4>1. fields'[y] = fields[y] /\ calls'[y] = calls[y]
          BY <2>1, <3>2, Zenon
      <4>2. \A q \in Paths : y \in handlers'[q] <=> y \in handlers[q]
          BY <2>1, <3>2, Zenon
      <4>3. /\ fields[y].phase # "new" => fields[y].path # Absent
            /\ fields[y].phase = "reading" => calls[y].path = fields[y].path
            /\ fields[y].phase = "resolving" => fields[y].value # Absent
            /\ \A q \in Paths : y \in handlers[q] <=>
                  /\ fields[y].path = q /\ fields[y].phase \in {"registered", "live"}
                  /\ run # "closed"
          BY Zenon DEF IInv, FieldInv
      <4>4. QED BY <1>6, <4>1, <4>2, <4>3, Zenon
    <3>3. QED BY <3>1, <3>2, Zenon
  <2>6. QED BY <2>5, Zenon DEF FieldInv
<1>26. CountT' /\ ReadT' /\ CallsKept /\ CacheKept /\ PutKept /\ ClosedInv'
    BY <1>6, <1>7, SameCount, SameReads, Zenon DEF ClosedInv
<1>27. QED BY <1>6, <1>7, <1>9, <1>10, <1>17, <1>18, <1>19, <1>20, <1>24, <1>25, <1>26, Assemble, Zenon

\* A field takes its handler away and releases the namespace.
LEMMA UnregisterStep ==
    ASSUME IInv, NEW x \in Fields, fields[x].phase \in {"registered", "live"}, run # "closed",
           Unregister(x)
    PROVE  IInv'
<1>1. PICK p : p = fields[x].path
    BY Zenon
<1>2. PICK rows : rows = IF handlers[p] = {x} /\ known[p].value = Absent
                         THEN [known EXCEPT ![p] = Unknown] ELSE known
    BY Zenon
<1>3. /\ handlers' = [handlers EXCEPT ![p] = @ \ {x}]
      /\ Release(NamespaceOf(p), rows)
      /\ fields' = [fields EXCEPT ![x].phase = "closed"]
      /\ UNCHANGED <<log, watching, revision, run, readVars, disturbed>>
    BY <1>1, <1>2, Zenon DEF Unregister
<1> USE <1>3 DEF readVars
<1>4. /\ fields[x] \in FieldType /\ x \notin Watchers /\ p \in Paths /\ x \in handlers[p]
      /\ \A q \in Paths : q # p => x \notin handlers[q]
  <2>1. fields[x].phase # "new"
      OBVIOUS
  <2>2. fields[x] \in FieldType /\ x \notin Watchers /\ p \in Paths
      BY <1>1, <2>1, Registered, Zenon
  <2>3. QED BY <1>1, <2>2, Zenon DEF IInv, FieldInv
<1>5. NamespaceOf(p) \in Namespaces
    BY <1>4 DEF Paths, NamespaceOf
<1>6. PICK n \in Namespaces : n = NamespaceOf(p)
    BY <1>5, Zenon
<1>7. Release(n, rows) /\ refs' = [refs EXCEPT ![n] = @ - 1]
    BY <1>6, Zenon DEF Release
<1>8. /\ handlers' \in [Paths -> SUBSET Fields] /\ handlers'[p] = handlers[p] \ {x}
      /\ \A q \in Paths : q # p => handlers'[q] = handlers[q]
  <2>1. handlers \in [Paths -> SUBSET Fields]
      BY Zenon DEF IInv, TypeInv, RegistryT
  <2>2. handlers[p] \ {x} \in SUBSET Fields
      BY <1>4, <2>1, Zenon
  <2>3. QED BY <1>4, <2>1, <2>2, Zenon
<1>9. refs' \in [Namespaces -> Nat] /\ RefInv' /\ refs[n] > 0
  <2>1. HandlersOf(n)' = HandlersOf(n) \ {x} /\ x \in HandlersOf(n)
      BY <1>4, <1>6, <1>8, Zenon DEF HandlersOf
  <2>2. WatchersOf(n)' = WatchersOf(n) /\ x \notin WatchersOf(n)
      BY <1>4, Zenon DEF WatchersOf
  <2>3. Retainers(n)' = Retainers(n) \ {x} /\ x \in Retainers(n)
      BY <2>1, <2>2, Zenon DEF Retainers
  <2>4. ASSUME NEW m \in Namespaces \ {n} PROVE Retainers(m)' = Retainers(m)
    <3>1. \A q \in Paths : NamespaceOf(q) = m => handlers'[q] = handlers[q]
        BY <1>6, <1>8, Zenon
    <3>2. HandlersOf(m)' = HandlersOf(m) /\ WatchersOf(m)' = WatchersOf(m)
        BY <3>1, Zenon DEF HandlersOf, WatchersOf
    <3>3. QED BY <3>2, Zenon DEF Retainers
  <2>5. QED BY <1>7, <2>3, <2>4, ReleaseCounts, Zenon
<1>10. RegistryT'
    BY <1>8, <1>9, Zenon DEF IInv, TypeInv, RegistryT
<1>11. known \in [Paths -> Row] /\ Unknown \in Row
  <2>1. -1 \in -1..MaxRevision
      BY Numbers
  <2>2. QED BY <2>1, Zenon DEF IInv, TypeInv, RowT, Unknown, Row
<1>12. /\ rows \in [Paths -> Row] /\ \A q \in Paths : q # p => rows[q] = known[q]
       /\ rows[p] = known[p] \/ (rows[p] = Unknown /\ known[p].value = Absent)
       /\ handlers[p] = {x} /\ known[p].value = Absent => rows[p] = Unknown
    BY <1>2, <1>4, <1>11, Zenon
<1>13. /\ LoopT' /\ LoopInv' /\ PassT' /\ PassInv' /\ RowT'
       /\ \A q \in Paths : /\ Followed(q)' => Followed(q) /\ known'[q] = rows[q]
                           /\ known'[q] \in {rows[q], Unknown}
                           /\ known'[q] # Unknown => refs'[NamespaceOf(q)] > 0
  <2>1. \A q \in Paths : rows[q] \in {known[q], Unknown}
      BY <1>12, Zenon
  <2>2. Closed => \A w \in Watchers : watching'[w] = Absent
      BY Zenon DEF IInv, LoopInv
  <2>3. QED BY <1>7, <1>9, <1>12, <2>1, <2>2, Released, Zenon
<1>14. /\ Grown /\ Len(log') \in {Len(log), Len(log) + 1} /\ Unknown.revision = -1
       /\ -1 <= revision /\ ~(-1 > 0) /\ Unknown.value = Absent
    BY SameLog, Numbers DEF Unknown
<1>15. \A q \in Paths : known'[q] = known[q] \/ known'[q] = Unknown
    BY <1>12, <1>13, Zenon
<1>16. RowInv'
  <2>1. ASSUME NEW q \in Paths
        PROVE  /\ known'[q].revision <= revision
               /\ known'[q] # Unknown => /\ refs'[NamespaceOf(q)] > 0
                                         /\ known'[q].value # Absent \/ handlers'[q] # {}
    <3>1. CASE known'[q] = Unknown
        BY <1>14, <3>1, Zenon
    <3>2. CASE known'[q] # Unknown
      <4>1. known'[q] = known[q] /\ rows[q] # Unknown
          BY <1>13, <1>15, <3>2, Zenon
      <4>2. known[q].value # Absent \/ handlers'[q] # {}
        <5>1. CASE q = p
            BY <1>4, <1>8, <1>12, <4>1, <5>1, Zenon
        <5>2. CASE q # p
            BY <1>8, <3>2, <4>1, <5>2, Zenon DEF IInv, RowInv
        <5>3. QED BY <5>1, <5>2, Zenon
      <4>3. known[q].revision <= revision
          BY Zenon DEF IInv, RowInv
      <4>4. QED BY <1>13, <4>1, <4>2, <4>3, Zenon
    <3>3. QED BY <3>1, <3>2, Zenon
  <2>2. QED BY <2>1, Zenon DEF RowInv, Unknown
<1>17. KeptFresh
  <2>1. \A q \in Paths : Followed(q)' => Followed(q) /\ known[q].value \in {Absent, known'[q].value}
      BY <1>12, <1>13, Zenon
  <2>2. QED BY <1>14, <2>1, FreshKept, Zenon
<1>18. NeverBehindStream'
  <2>1. \A q \in Paths : known'[q].revision > 0 => known'[q] = known[q]
      BY <1>14, <1>15, Zenon
  <2>2. QED BY <1>14, <2>1, StreamKept, Zenon
<1>19. PICK g : g = [fields[x] EXCEPT !.phase = "closed"]
    BY Zenon
<1>20. g \in FieldType /\ g.path = p /\ g.phase = "closed"
  <2>1. "closed" \in Phases
      BY Zenon DEF Phases
  <2>2. QED BY <1>1, <1>4, <1>19, <2>1, Zenon DEF FieldType
<1>21. /\ fields' = [fields EXCEPT ![x] = g] /\ fields \in [Fields -> FieldType] /\ fields'[x] = g
       /\ \A y \in Fields : y # x => fields'[y] = fields[y]
    BY <1>19, Zenon DEF IInv, TypeInv, FieldT
<1>22. FieldT'
  <2>1. fields' \in [Fields -> FieldType]
      BY <1>20, <1>21, Zenon
  <2>2. QED BY <2>1, Zenon DEF FieldT, FieldType
<1>23. FieldInv'
  <2>1. "closed" \notin {"reading", "resolving", "registered", "live"} /\ p # Absent
    <3>1. p # Absent
        BY <1>4, WatchConstants, Zenon DEF Paths
    <3>2. QED BY <3>1
  <2>2. \A q \in Paths : x \notin handlers'[q]
      BY <1>4, <1>8, Zenon
  <2>3. ASSUME NEW y \in Fields
        PROVE  /\ fields'[y].phase # "new" => fields'[y].path # Absent
               /\ fields'[y].phase = "reading" => calls'[y].path = fields'[y].path
               /\ fields'[y].phase = "resolving" => fields'[y].value # Absent
               /\ \A q \in Paths : y \in handlers'[q] <=>
                     /\ fields'[y].path = q /\ fields'[y].phase \in {"registered", "live"}
                     /\ run' # "closed"
    <3>1. CASE y = x
        BY <1>20, <1>21, <2>1, <2>2, <3>1, Zenon
    <3>2. CASE y # x
      <4>1. fields'[y] = fields[y] /\ calls'[y] = calls[y]
          BY <1>21, <3>2, Zenon
      <4>2. \A q \in Paths : y \in handlers'[q] <=> y \in handlers[q]
          BY <1>8, <3>2, Zenon
      <4>3. /\ fields[y].phase # "new" => fields[y].path # Absent
            /\ fields[y].phase = "reading" => calls[y].path = fields[y].path
            /\ fields[y].phase = "resolving" => fields[y].value # Absent
            /\ \A q \in Paths : y \in handlers[q] <=>
                  /\ fields[y].path = q /\ fields[y].phase \in {"registered", "live"}
                  /\ run # "closed"
          BY Zenon DEF IInv, FieldInv
      <4>4. QED BY <4>1, <4>2, <4>3, Zenon
    <3>3. QED BY <3>1, <3>2, Zenon
  <2>4. QED BY <2>3, Zenon DEF FieldInv
<1>24. CountT' /\ ReadT' /\ CallsKept /\ CacheKept /\ PutKept /\ ClosedInv'
    BY <1>14, SameCount, SameReads, Zenon DEF ClosedInv
<1>25. QED BY <1>9, <1>10, <1>13, <1>14, <1>16, <1>17, <1>18, <1>22, <1>23, <1>24, Assemble, Zenon

-----------------------------------------------------------------------------
(* The fields, as far as the registry stays as it is.                      *)

\* A step that changes one field, its call and the cache under the rules above.
LEMMA FieldChanged ==
    ASSUME IInv, NEW x \in Fields, UNCHANGED <<log, clientVars, loopVars, pass, put>>,
           disturbed' = disturbed \/ Disturb,
           NEW g \in FieldType, fields' = [fields EXCEPT ![x] = g],
           g.phase # "new" => g.path # Absent,
           g.phase = "reading" => calls'[x].path = g.path,
           g.phase = "resolving" => g.value # Absent,
           \A q \in Paths : x \in handlers[q] <=>
               g.path = q /\ g.phase \in {"registered", "live"} /\ run # "closed",
           \A y \in Fields : y # x => calls'[y] = calls[y],
           run = "closed" => cache' = cache /\ ~calls'[x].current,
           cache' \in [Paths -> Values \cup {Absent}], calls' \in [Fields -> CallType],
           CallsKept, CacheKept
    PROVE  IInv'
<1> USE DEF clientVars, loopVars
<1>1. Grown /\ Len(log') \in {Len(log), Len(log) + 1} /\ revision' \in Nat /\ revision <= revision'
    BY SameLog, Numbers
<1>2. /\ fields \in [Fields -> FieldType] /\ fields'[x] = g
      /\ \A y \in Fields : y # x => fields'[y] = fields[y]
    BY Zenon DEF IInv, TypeInv, FieldT
<1>3. FieldT'
  <2>1. fields' \in [Fields -> FieldType]
      BY <1>2, Zenon
  <2>2. QED BY <2>1, Zenon DEF FieldT, FieldType
<1>4. FieldInv'
  <2>1. ASSUME NEW y \in Fields
        PROVE  /\ fields'[y].phase # "new" => fields'[y].path # Absent
               /\ fields'[y].phase = "reading" => calls'[y].path = fields'[y].path
               /\ fields'[y].phase = "resolving" => fields'[y].value # Absent
               /\ \A q \in Paths : y \in handlers'[q] <=>
                     /\ fields'[y].path = q /\ fields'[y].phase \in {"registered", "live"}
                     /\ run' # "closed"
    <3>1. CASE y = x
        BY <1>2, <3>1, Zenon
    <3>2. CASE y # x
      <4>1. fields'[y] = fields[y] /\ calls'[y] = calls[y]
          BY <1>2, <3>2, Zenon
      <4>2. handlers' = handlers /\ run' = run
          BY Zenon
      <4>3. /\ fields[y].phase # "new" => fields[y].path # Absent
            /\ fields[y].phase = "reading" => calls[y].path = fields[y].path
            /\ fields[y].phase = "resolving" => fields[y].value # Absent
            /\ \A q \in Paths : y \in handlers[q] <=>
                  /\ fields[y].path = q /\ fields[y].phase \in {"registered", "live"}
                  /\ run # "closed"
          BY Zenon DEF IInv, FieldInv
      <4>4. QED BY <4>1, <4>2, <4>3
    <3>3. QED BY <3>1, <3>2, Zenon
  <2>2. QED BY <2>1, Zenon DEF FieldInv
<1>5. ClosedInv'
  <2> SUFFICES ASSUME run = "closed"
               PROVE  /\ \A p \in Paths : known[p] = Unknown /\ cache'[p] = Absent
                      /\ \A y \in Fields : ~calls'[y].current
      BY Zenon DEF ClosedInv, Unknown
  <2>1. \A y \in Fields : y = x \/ calls'[y] = calls[y]
      BY Zenon
  <2>2. QED BY <2>1, Zenon DEF IInv, ClosedInv
<1>6. RegistryT' /\ RefInv' /\ CountT' /\ RowInv'
    BY SameRegistry, SameCount, Disturbed, SameRowInv, Zenon
<1>7. RowT' /\ LoopT' /\ PassT' /\ PassInv' /\ KeptFresh /\ NeverBehindStream'
    BY <1>1, SameRows, SameLoop, SamePass, SamePassInv, SameFresh, Zenon
<1>8. LoopInv'
    BY SameLoopInv, Zenon DEF Closed
<1>9. ReadT' /\ PutKept
    BY Zenon DEF IInv, TypeInv, ReadT, PutKept, CallType
<1>10. QED BY <1>1, <1>3, <1>4, <1>5, <1>6, <1>7, <1>8, <1>9, Assemble, Zenon

\* The steps that touch neither the cache nor a call.
LEMMA FieldOnly ==
    ASSUME IInv, NEW x \in Fields, UNCHANGED <<log, clientVars, loopVars, pass, readVars, disturbed>>,
           NEW g \in FieldType, fields' = [fields EXCEPT ![x] = g],
           g.phase # "new" => g.path # Absent,
           g.phase = "reading" => calls[x].path = g.path,
           g.phase = "resolving" => g.value # Absent,
           \A q \in Paths : x \in handlers[q] <=>
               g.path = q /\ g.phase \in {"registered", "live"} /\ run # "closed"
    PROVE  IInv'
<1> USE DEF readVars
<1>1. /\ cache' \in [Paths -> Values \cup {Absent}] /\ calls' \in [Fields -> CallType]
      /\ CallsKept /\ CacheKept
    BY Zenon DEF IInv, TypeInv, ReadT, CallsKept, CacheKept
<1>2. run = "closed" => ~calls'[x].current
    BY Zenon DEF IInv, ClosedInv
<1>3. QED BY <1>1, <1>2, FieldChanged, Zenon

\* The steps of a field that touch neither handlers nor cache.
LEMMA FieldOnlySteps ==
    ASSUME IInv, NEW x \in Fields,
           RegisterRefused(x) \/ Settle(x) \/ Dispose(x)
              \/ (Unsubscribe(x) /\ run = "closed")
    PROVE  IInv'
<1>1. PICK f : f = fields[x] /\ f \in FieldType
    BY Registered, Zenon
<1>2. /\ f.phase # "new" => f.path # Absent
      /\ f.phase = "reading" => calls[x].path = f.path
      /\ f.phase = "resolving" => f.value # Absent
      /\ \A q \in Paths : x \in handlers[q] <=>
            f.path = q /\ f.phase \in {"registered", "live"} /\ run # "closed"
    BY <1>1, Zenon DEF IInv, FieldInv
<1>3. "new" \in Phases /\ "live" \in Phases /\ "closed" \in Phases
    BY Zenon DEF Phases
<1>4. fields \in [Fields -> FieldType]
    BY Zenon DEF IInv, TypeInv, FieldT
<1>5. CASE RegisterRefused(x)
  <2>1. /\ f.phase = "resolving" /\ UNCHANGED <<log, clientVars, loopVars, pass, readVars, disturbed>>
        /\ fields' = [fields EXCEPT ![x].phase = "new", ![x].value = Absent]
      BY <1>1, <1>5, Zenon DEF RegisterRefused
  <2>2. PICK g : g = [f EXCEPT !.phase = "new", !.value = Absent]
      BY Zenon
  <2>3. fields' = [fields EXCEPT ![x] = g]
      BY <1>1, <1>4, <2>1, <2>2, Zenon
  <2>4. g \in FieldType /\ g.phase = "new" /\ g.path = f.path
      BY <1>1, <1>3, <2>2, Zenon DEF FieldType
  <2>5. "new" \notin {"reading", "resolving", "registered", "live"}
        /\ "resolving" \notin {"registered", "live"}
      OBVIOUS
  <2>6. QED BY <1>2, <2>1, <2>3, <2>4, <2>5, FieldOnly, Zenon
<1>6. CASE Settle(x)
  <2>1. /\ f.phase = "registered" /\ UNCHANGED <<log, clientVars, loopVars, pass, readVars, disturbed>>
        /\ fields' = [fields EXCEPT ![x].phase = "live"]
      BY <1>1, <1>6, Zenon DEF Settle
  <2>2. PICK g : g = [f EXCEPT !.phase = "live"]
      BY Zenon
  <2>3. fields' = [fields EXCEPT ![x] = g]
      BY <1>1, <1>4, <2>1, <2>2, Zenon
  <2>4. g \in FieldType /\ g.phase = "live" /\ g.path = f.path
      BY <1>1, <1>3, <2>2, Zenon DEF FieldType
  <2>5. "live" \notin {"reading", "resolving"} /\ "registered" # "new"
      OBVIOUS
  <2>6. \A q \in Paths : x \in handlers[q] <=> f.path = q /\ run # "closed"
      BY <1>2, <2>1, Zenon
  <2>7. /\ g.phase # "new" => g.path # Absent
        /\ g.phase = "reading" => calls[x].path = g.path
        /\ g.phase = "resolving" => g.value # Absent
        /\ \A q \in Paths : x \in handlers[q] <=>
              g.path = q /\ g.phase \in {"registered", "live"} /\ run # "closed"
      BY <1>2, <2>1, <2>4, <2>5, <2>6
  <2>8. UNCHANGED <<log, clientVars, loopVars, pass, readVars, disturbed>> /\ g \in FieldType
      BY <2>1, <2>4, Zenon
  <2>9. QED BY <2>3, <2>7, <2>8, FieldOnly, Zenon
<1>7. CASE Dispose(x)
  <2>1. /\ UNCHANGED <<log, clientVars, loopVars, pass, readVars, disturbed>>
        /\ fields' = [fields EXCEPT ![x].disposed = TRUE]
      BY <1>1, <1>7, Zenon DEF Dispose
  <2>2. PICK g : g = [f EXCEPT !.disposed = TRUE]
      BY Zenon
  <2>3. fields' = [fields EXCEPT ![x] = g]
      BY <1>1, <1>4, <2>1, <2>2, Zenon
  <2>4. g \in FieldType /\ g.phase = f.phase /\ g.path = f.path /\ g.value = f.value
      BY <1>1, <2>2, Zenon DEF FieldType
  <2>5. PICK ph, pa, va : /\ ph = f.phase /\ pa = f.path /\ va = f.value
                          /\ ph = g.phase /\ pa = g.path /\ va = g.value
      BY <2>4, Zenon
  <2>6. /\ ph # "new" => pa # Absent
        /\ ph = "reading" => calls[x].path = pa
        /\ ph = "resolving" => va # Absent
        /\ \A q \in Paths : x \in handlers[q] <=>
              pa = q /\ ph \in {"registered", "live"} /\ run # "closed"
      BY <1>2, <2>5, Zenon
  <2>7. /\ g.phase # "new" => g.path # Absent
        /\ g.phase = "reading" => calls[x].path = g.path
        /\ g.phase = "resolving" => g.value # Absent
        /\ \A q \in Paths : x \in handlers[q] <=>
              g.path = q /\ g.phase \in {"registered", "live"} /\ run # "closed"
      BY <2>5, <2>6, Zenon
  <2>8. QED BY <2>1, <2>3, <2>4, <2>7, FieldOnly, Zenon
<1>8. CASE Unsubscribe(x) /\ run = "closed"
  <2>1. /\ f.phase \in {"registered", "live"}
        /\ UNCHANGED <<log, clientVars, loopVars, pass, readVars, disturbed>>
        /\ fields' = [fields EXCEPT ![x].phase = "closed"]
      BY <1>1, <1>8, Zenon DEF Unsubscribe
  <2>2. PICK g : g = [f EXCEPT !.phase = "closed"]
      BY Zenon
  <2>3. fields' = [fields EXCEPT ![x] = g]
      BY <1>1, <1>4, <2>1, <2>2, Zenon
  <2>4. g \in FieldType /\ g.phase = "closed" /\ g.path = f.path
      BY <1>1, <1>3, <2>2, Zenon DEF FieldType
  <2>5. "closed" \notin {"reading", "resolving", "registered", "live"} /\ f.phase # "new"
      BY <2>1
  <2>6. QED BY <1>2, <1>8, <2>1, <2>3, <2>4, <2>5, FieldOnly, Zenon
<1>9. QED BY <1>5, <1>6, <1>7, <1>8, Zenon

\* A field takes its first value from the cache or begins to read it.
LEMMA InitFieldStep ==
    ASSUME IInv, NEW x \in Fields, InitField(x)
    PROVE  IInv'
<1>1. /\ fields[x].phase = "new" /\ ~Closed
      /\ UNCHANGED <<log, clientVars, loopVars, pass, cache, put, disturbed>>
    BY Zenon DEF InitField
<1>2. PICK p \in IF fields[x].path = Absent THEN Paths ELSE {fields[x].path} :
          IF cache[p] # Absent
          THEN /\ fields' = [fields EXCEPT ![x].path = p, ![x].phase = "resolving",
                                           ![x].value = cache[p]]
               /\ calls' = calls
          ELSE /\ fields' = [fields EXCEPT ![x].path = p, ![x].phase = "reading"]
               /\ BeginRead(x, p)
    BY Zenon DEF InitField
<1> USE <1>1
<1>3. PICK f : f = fields[x] /\ f \in FieldType
    BY Registered, Zenon
<1>4. p \in Paths /\ p # Absent
  <2>1. f.path \in Paths \cup {Absent}
      BY <1>3, Zenon DEF FieldType
  <2>2. p \in Paths
      BY <1>2, <1>3, <2>1, Zenon
  <2>3. QED BY <2>2, WatchConstants, Zenon DEF Paths
<1>5. /\ fields \in [Fields -> FieldType] /\ cache \in [Paths -> Values \cup {Absent}]
      /\ calls \in [Fields -> CallType]
    BY Zenon DEF IInv, TypeInv, FieldT, ReadT
<1>6. "resolving" \in Phases /\ "reading" \in Phases
    BY Zenon DEF Phases
<1>7. /\ "resolving" \notin {"new", "reading", "registered", "live"}
      /\ "reading" \notin {"new", "resolving", "registered", "live"}
      /\ "new" \notin {"registered", "live"} /\ run # "closed"
    BY DEF Closed
<1>8. \A q \in Paths : x \notin handlers[q]
    BY <1>7, Registered, Zenon
<1>9. CacheKept
    BY Zenon DEF CacheKept
<1>10. CASE cache[p] # Absent
  <2>1. PICK v : v = cache[p]
      BY Zenon
  <2>2. v \in Values \cup {Absent, Default} /\ v # Absent
      BY <1>4, <1>5, <1>10, <2>1, Zenon
  <2>3. PICK g : g = [f EXCEPT !.path = p, !.phase = "resolving", !.value = v]
      BY Zenon
  <2>4. fields' = [fields EXCEPT ![x] = g] /\ calls' = calls
      BY <1>2, <1>3, <1>5, <1>10, <2>1, <2>3, Zenon
  <2>5. g \in FieldType /\ g.phase = "resolving" /\ g.path = p /\ g.value = v
      BY <1>3, <1>4, <1>6, <2>2, <2>3, Zenon DEF FieldType
  <2>6. CallsKept
      BY <2>4, Zenon DEF CallsKept
  <2>7. QED BY <1>4, <1>5, <1>7, <1>8, <1>9, <2>2, <2>4, <2>5, <2>6, FieldChanged, Zenon
<1>11. CASE cache[p] = Absent
  <2>1. PICK g : g = [f EXCEPT !.path = p, !.phase = "reading"]
      BY Zenon
  <2>2. fields' = [fields EXCEPT ![x] = g] /\ BeginRead(x, p)
      BY <1>2, <1>3, <1>5, <1>11, <2>1, Zenon
  <2>3. g \in FieldType /\ g.phase = "reading" /\ g.path = p
      BY <1>3, <1>4, <1>6, <2>1, Zenon DEF FieldType
  <2>4. PICK s : s = Len(log)
      BY Zenon
  <2>5. PICK c : c = [path |-> p, current |-> TRUE, since |-> s]
      BY Zenon
  <2>6. calls' = [calls EXCEPT ![x] = c]
      BY <2>2, <2>4, <2>5, Zenon DEF BeginRead
  <2>7. s \in 0..Len(log)
      BY <2>4, Numbers
  <2>8. c \in CallType /\ c.path = p /\ c.since = s
      BY <1>4, <2>5, <2>7, Zenon DEF CallType
  <2>9. /\ calls' \in [Fields -> CallType] /\ calls'[x] = c
        /\ \A y \in Fields : y # x => calls'[y] = calls[y]
      BY <1>5, <2>6, <2>8, Zenon
  <2>10. CallsKept
    <3>1. \A y \in Fields : calls'[y].current =>
              \/ calls'[y] = calls[y]
              \/ calls'[y].path \in Paths /\ calls'[y].since = Len(log)
        BY <1>4, <2>4, <2>8, <2>9, Zenon
    <3>2. QED BY <3>1, Zenon DEF CallsKept
  <2>11. QED BY <1>4, <1>5, <1>7, <1>8, <1>9, <2>2, <2>3, <2>8, <2>9, <2>10, FieldChanged, Zenon
<1>12. QED BY <1>10, <1>11, Zenon

\* An answer fills the cache with what the path had since the call began, if
\* no invalidation came in between.
LEMMA ReadFinished ==
    ASSUME IInv, NEW x \in Fields, log' = log, fields[x].phase = "reading",
           NEW r \in ReadAt(calls[x].since), FinishRead(x, StoreAt(fields[x].path, r))
    PROVE  /\ cache' \in [Paths -> Values \cup {Absent}] /\ calls' \in [Fields -> CallType]
           /\ CallsKept /\ CacheKept
           /\ \A y \in Fields : y # x => calls'[y] = calls[y]
           /\ run = "closed" => cache' = cache /\ ~calls'[x].current
<1>1. PICK p, v, c : p = fields[x].path /\ v = StoreAt(p, r) /\ c = calls[x]
    BY Zenon
<1>2. /\ calls' = [calls EXCEPT ![x] = NoCall]
      /\ cache' = IF c.current /\ v # Absent THEN [cache EXCEPT ![c.path] = v] ELSE cache
    BY <1>1, Zenon DEF FinishRead
<1>3. /\ cache \in [Paths -> Values \cup {Absent}] /\ calls \in [Fields -> CallType] /\ c \in CallType
    BY <1>1, Zenon DEF IInv, TypeInv, ReadT
<1>4. p \in Paths /\ c.path = p
  <2>1. "reading" # "new"
      OBVIOUS
  <2>2. QED BY <1>1, <2>1, Registered, Zenon DEF IInv, FieldInv
<1>5. r \in c.since..Len(log) /\ r \in 0..Len(log) /\ 0 \in 0..Len(log)
  <2>1. c.since \in Nat
      BY <1>3, Numbers DEF CallType
  <2>2. QED BY <1>1, <2>1, Numbers DEF ReadAt
<1>6. v \in Values \cup {Absent}
    BY <1>1, <1>4, <1>5, StoreType, Numbers, Zenon
<1>7. NoCall \in CallType /\ NoCall.current = FALSE
    BY <1>5, Zenon DEF NoCall, CallType
<1>8. /\ calls' \in [Fields -> CallType] /\ calls'[x] = NoCall
      /\ \A y \in Fields : y # x => calls'[y] = calls[y]
    BY <1>2, <1>3, <1>7, Zenon
<1>9. CallsKept
  <2>1. \A y \in Fields : calls'[y].current => calls'[y] = calls[y]
      BY <1>7, <1>8, Zenon
  <2>2. QED BY <2>1, Zenon DEF CallsKept
<1>10. /\ cache' \in [Paths -> Values \cup {Absent}]
       /\ \A q \in Paths : cache'[q] = cache[q] \/ (q = p /\ c.current /\ cache'[q] = v)
       /\ ~c.current => cache' = cache
    BY <1>2, <1>3, <1>4, <1>6, Zenon
<1>11. CacheKept
  <2>1. ASSUME NEW q \in Paths, cache'[q] # cache[q]
        PROVE  \E y \in Fields : /\ calls[y].current /\ calls[y].path = q
                                 /\ \E s \in calls[y].since..Len(log) : cache'[q] = StoreAt(q, s)
      BY <1>1, <1>4, <1>5, <1>10, <2>1, Zenon
  <2>2. QED BY <2>1, Zenon DEF CacheKept
<1>12. run = "closed" => cache' = cache /\ ~calls'[x].current
    BY <1>1, <1>7, <1>8, <1>10, Zenon DEF IInv, ClosedInv
<1>13. QED BY <1>8, <1>9, <1>10, <1>11, <1>12, Zenon

\* A read of a field or of the application ends, with or without an answer.
LEMMA FieldReadSteps ==
    ASSUME IInv, NEW x \in Fields, FieldRead(x) \/ GetParameter(x) \/ FieldReadFails(x)
    PROVE  IInv'
<1>1. /\ fields[x].phase = "reading"
      /\ UNCHANGED <<log, clientVars, loopVars, pass, put>>
      /\ disturbed' = disturbed \/ Disturb
  <2>1. CASE FieldRead(x)
      BY <2>1, Zenon DEF FieldRead
  <2>2. CASE GetParameter(x)
      BY <2>2, Zenon DEF GetParameter
  <2>3. CASE FieldReadFails(x)
      BY <2>3, Zenon DEF FieldReadFails
  <2>4. QED BY <2>1, <2>2, <2>3, Zenon
<1> USE <1>1
<1>2. PICK f : f = fields[x] /\ f \in FieldType
    BY Registered, Zenon
<1>3. fields \in [Fields -> FieldType] /\ "new" \in Phases /\ "resolving" \in Phases
    BY Zenon DEF IInv, TypeInv, FieldT, Phases
<1>4. /\ "new" \notin {"reading", "resolving", "registered", "live"}
      /\ "resolving" \notin {"new", "reading", "registered", "live"}
      /\ "reading" \notin {"new", "registered", "live"}
    OBVIOUS
<1>5. f.path \in Paths /\ f.path # Absent /\ \A q \in Paths : x \notin handlers[q]
  <2>1. f.path \in Paths
      BY <1>2, <1>4, Registered, Zenon
  <2>2. QED BY <1>2, <1>4, <2>1, Registered, WatchConstants, Zenon DEF Paths
\* The field goes back to new, or has a value and may register.
<1>6. ASSUME NEW g, fields' = [fields EXCEPT ![x] = g], g \in FieldType, g.path = f.path,
             g.phase = "new" \/ (g.phase = "resolving" /\ g.value # Absent),
             cache' \in [Paths -> Values \cup {Absent}], calls' \in [Fields -> CallType],
             CallsKept, CacheKept, \A y \in Fields : y # x => calls'[y] = calls[y],
             run = "closed" => cache' = cache /\ ~calls'[x].current
      PROVE  IInv'
  <2>1. /\ g.phase # "new" => g.path # Absent
        /\ g.phase = "reading" => calls'[x].path = g.path
        /\ g.phase = "resolving" => g.value # Absent
        /\ \A q \in Paths : x \in handlers[q] <=>
              g.path = q /\ g.phase \in {"registered", "live"} /\ run # "closed"
      BY <1>4, <1>5, <1>6, Zenon
  <2>2. QED BY <1>6, <2>1, FieldChanged, Zenon
<1>7. PICK back : back = [f EXCEPT !.phase = "new"]
    BY Zenon
<1>8. back \in FieldType /\ back.path = f.path /\ back.phase = "new"
    BY <1>2, <1>3, <1>7, Zenon DEF FieldType
<1>9. CASE FieldRead(x)
  <2>1. PICK r \in ReadAt(calls[x].since) :
           LET v == StoreAt(fields[x].path, r)
               w == IF v = Absent /\ x \in Defaulted THEN Default ELSE v
           IN  /\ FinishRead(x, v)
               /\ fields' = [fields EXCEPT ![x].phase = IF w = Absent THEN "new" ELSE "resolving",
                                           ![x].value = IF w = Absent THEN @ ELSE w]
      BY <1>9, Zenon DEF FieldRead
  <2>2. PICK v : v = StoreAt(fields[x].path, r)
      BY Zenon
  <2>3. PICK w : w = IF v = Absent /\ x \in Defaulted THEN Default ELSE v
      BY Zenon
  <2>4. /\ FinishRead(x, StoreAt(fields[x].path, r))
        /\ fields' = [fields EXCEPT ![x].phase = IF w = Absent THEN "new" ELSE "resolving",
                                    ![x].value = IF w = Absent THEN @ ELSE w]
      BY <2>1, <2>2, <2>3, Zenon
  <2>5. w \in Values \cup {Absent, Default}
    <3>1. r \in 0..Len(log)
      <4>1. calls[x].since \in Nat
          BY Numbers DEF IInv, TypeInv, ReadT, CallType
      <4>2. QED BY <2>1, <4>1, Numbers DEF ReadAt
    <3>2. v \in Values \cup {Absent}
        BY <1>2, <1>5, <2>2, <3>1, StoreType, Numbers, Zenon
    <3>3. QED BY <2>3, <3>2, Zenon
  <2>6. PICK ph, u : ph = (IF w = Absent THEN "new" ELSE "resolving")
                        /\ u = (IF w = Absent THEN f.value ELSE w)
      BY Zenon
  <2>7. PICK g : g = [f EXCEPT !.phase = ph, !.value = u]
      BY Zenon
  <2>8. fields' = [fields EXCEPT ![x] = g]
      BY <1>2, <1>3, <2>4, <2>6, <2>7, Zenon
  <2>9. f.value \in Values \cup {Absent, Default}
      BY <1>2, Zenon DEF FieldType
  <2>10. /\ ph \in Phases /\ u \in Values \cup {Absent, Default}
         /\ ph = "new" \/ (ph = "resolving" /\ u # Absent)
      BY <1>3, <2>5, <2>6, <2>9, Zenon
  <2>11. g \in FieldType /\ g.path = f.path /\ g.phase = ph /\ g.value = u
      BY <1>2, <2>7, <2>10, Zenon DEF FieldType
  <2>12. QED BY <1>6, <2>1, <2>4, <2>8, <2>10, <2>11, ReadFinished, Zenon
<1>10. CASE GetParameter(x)
  <2>1. PICK r \in ReadAt(calls[x].since) : FinishRead(x, StoreAt(fields[x].path, r))
      BY <1>10, Zenon DEF GetParameter
  <2>2. fields' = [fields EXCEPT ![x] = back]
      BY <1>2, <1>3, <1>7, <1>10, Zenon DEF GetParameter
  <2>3. QED BY <1>6, <1>8, <2>1, <2>2, ReadFinished, Zenon
<1>11. CASE FieldReadFails(x)
  <2>1. calls' = [calls EXCEPT ![x] = NoCall] /\ cache' = cache
      BY <1>11, Zenon DEF FieldReadFails
  <2>2. cache \in [Paths -> Values \cup {Absent}] /\ calls \in [Fields -> CallType] /\ 0 \in 0..Len(log)
      BY Numbers DEF IInv, TypeInv, ReadT
  <2>3. NoCall \in CallType /\ NoCall.current = FALSE
      BY <2>2, Zenon DEF NoCall, CallType
  <2>4. /\ calls' \in [Fields -> CallType] /\ calls'[x] = NoCall
        /\ \A y \in Fields : y # x => calls'[y] = calls[y]
      BY <2>1, <2>2, <2>3, Zenon
  <2>5. \A y \in Fields : calls'[y].current => calls'[y] = calls[y]
      BY <2>3, <2>4, Zenon
  <2>6. CallsKept /\ CacheKept
      BY <2>1, <2>5, Zenon DEF CallsKept, CacheKept
  <2>7. CASE fields' = [fields EXCEPT ![x].phase = "new"]
    <3>1. fields' = [fields EXCEPT ![x] = back]
        BY <1>2, <1>3, <1>7, <2>7, Zenon
    <3>2. QED BY <1>6, <1>8, <2>1, <2>2, <2>3, <2>4, <2>6, <3>1, Zenon
  <2>8. CASE fields' = [fields EXCEPT ![x].phase = "resolving", ![x].value = Default]
    <3>1. PICK g : g = [f EXCEPT !.phase = "resolving", !.value = Default]
        BY Zenon
    <3>2. fields' = [fields EXCEPT ![x] = g]
        BY <1>2, <1>3, <2>8, <3>1, Zenon
    <3>3. /\ g \in FieldType /\ g.path = f.path
          /\ g.phase = "resolving" /\ g.value = Default
        BY <1>2, <1>3, <3>1, Zenon DEF FieldType
    <3>4. g.value # Absent
        BY <3>3, WatchConstants, Zenon
    <3>5. QED BY <1>6, <2>1, <2>2, <2>3, <2>4, <2>6, <3>2, <3>3, <3>4, Zenon
  <2>9. QED BY <1>11, <2>7, <2>8, Zenon DEF FieldReadFails
<1>12. QED BY <1>9, <1>10, <1>11, Zenon

-----------------------------------------------------------------------------
(* The invariant and what follows from it.                                 *)

\* The client starts with nothing retained, known or cached.
LEMMA IInvInit ==
    ASSUME Init
    PROVE  IInv
<1> USE DEF Init
<1>1. /\ Len(log) = 0 /\ log \in Seq(Entry) /\ MaxRevision \in Nat /\ MaxDisturbed \in Nat
      /\ 0 \in 0..0 /\ 0 <= MaxRevision /\ -1 \in -1..MaxRevision /\ 0 \in 0..MaxDisturbed /\ 0 \in Nat
    BY WatchConstants
<1>2. LogT /\ CountT
    BY <1>1, Zenon DEF LogT, CountT
<1>3. RegistryT
    BY <1>1, Zenon DEF RegistryT
<1>4. RowT
  <2>1. Unknown \in Row
      BY <1>1, Zenon DEF Unknown, Row
  <2>2. known \in [Paths -> Row]
      BY <2>1, Zenon
  <2>3. QED BY <1>1, <2>2, Zenon DEF RowT
<1>5. LoopT /\ session.scoped = FALSE /\ session.fresh = FALSE
    BY <1>1, Zenon DEF LoopT, NoSession
<1>6. PassT /\ pass.on = FALSE /\ pass.scoped = FALSE /\ pass.current = Absent
      /\ pass.left = {} /\ pass.listed = {}
    BY <1>1, Zenon DEF PassT, NoPass
<1>7. FieldT
  <2>1. NewField \in FieldType
      BY Zenon DEF NewField, FieldType, Phases
  <2>2. QED BY <2>1, Zenon DEF FieldT
<1>8. ReadT /\ put.returned = FALSE
  <2>1. NoCall \in CallType /\ NoPut \in [path : Paths \cup {Absent}, at : 0..Len(log), returned : BOOLEAN]
        /\ NoPut.returned = FALSE
      BY <1>1, Zenon DEF NoCall, CallType, NoPut
  <2>2. calls \in [Fields -> CallType] /\ cache \in [Paths -> Values \cup {Absent}]
      BY <2>1, Zenon
  <2>3. QED BY <2>1, <2>2, Zenon DEF ReadT
<1>9. FieldInv
  <2>1. NewField.phase = "new" /\ "new" \notin {"reading", "resolving", "registered", "live"}
      BY DEF NewField
  <2>2. \A x \in Fields : fields[x].phase = "new" /\ \A p \in Paths : x \notin handlers[p]
      BY <2>1, Zenon
  <2>3. QED BY <2>1, <2>2, Zenon DEF FieldInv
<1>10. RefInv
  <2>1. Absent \notin Namespaces
      BY WatchConstants, Zenon
  <2>2. \A n \in Namespaces : WatchersOf(n) = {} /\ HandlersOf(n) = {}
      BY <2>1, Zenon DEF WatchersOf, HandlersOf
  <2>3. {} \cup {} = {} /\ Cardinality({}) = 0
      BY FS_EmptySet, Zenon
  <2>4. QED BY <2>2, <2>3, Zenon DEF RefInv
<1>11. ~Closed /\ LoopInv /\ ClosedInv
  <2>1. ~Closed /\ run # "closed"
      BY DEF Closed
  <2>2. QED BY <1>5, <2>1, Zenon DEF LoopInv, ClosedInv
<1>12. PassInv
    BY <1>6, NoneListed, Zenon DEF PassInv
<1>13. \A p \in Paths : known[p] = Unknown /\ known[p].revision = -1
    BY DEF Unknown
<1>14. RowInv /\ NeverBehindStream
  <2>1. -1 <= 0 /\ ~(-1 > 0)
      OBVIOUS
  <2>2. QED BY <1>13, <2>1, Zenon DEF RowInv, NeverBehindStream
<1>15. \A p \in Paths : ~Followed(p)
  <2>1. \A p \in Paths : NamespaceOf(p) \in Namespaces
      BY DEF Paths, NamespaceOf
  <2>2. ~(0 > 0)
      OBVIOUS
  <2>3. QED BY <2>1, <2>2, Zenon DEF Followed
<1>16. MomentInv /\ CacheInv
    BY <1>15, Zenon DEF MomentInv, CacheInv
<1>17. ReadInv
  <2>1. \A x \in Fields : calls[x].current = FALSE
      BY Zenon DEF NoCall
  <2>2. QED BY <2>1, Zenon DEF ReadInv
<1>18. QED BY <1>2, <1>3, <1>4, <1>5, <1>6, <1>7, <1>8, <1>9, <1>10, <1>11, <1>12, <1>14, <1>16, <1>17,
              Zenon DEF IInv, TypeInv

\* Nothing happens.
LEMMA StutterStep ==
    ASSUME IInv, UNCHANGED vars
    PROVE  IInv'
<1> USE DEF vars, clientVars, loopVars, readVars
<1>1. Grown /\ Len(log') \in {Len(log), Len(log) + 1} /\ revision' \in Nat /\ revision <= revision'
    BY SameLog, Numbers
<1>2. RegistryT' /\ RefInv' /\ FieldT' /\ CountT' /\ FieldInv' /\ RowInv' /\ ClosedInv'
    BY SameRegistry, SameFields, SameCount, SameFieldInv, SameRowInv, SameClosed, Zenon
<1>3. RowT' /\ LoopT' /\ PassT' /\ PassInv' /\ KeptFresh /\ NeverBehindStream'
    BY <1>1, SameRows, SameLoop, SamePass, SamePassInv, SameFresh, Zenon
<1>4. LoopInv' /\ ReadT' /\ CallsKept /\ CacheKept /\ PutKept
    BY <1>1, SameLoopInv, SameReads, Zenon DEF Closed
<1>5. QED BY <1>1, <1>2, <1>3, <1>4, Assemble, Zenon

\* Every step keeps the invariant.
LEMMA IInvStep ==
    ASSUME IInv, [Next]_vars
    PROVE  IInv'
<1>1. CASE Write \/ SendPut \/ PutReturns \/ Expire
    BY <1>1, WriteStep, SendPutStep, PutReturnsStep, ExpireStep, Zenon
<1>2. CASE Loop \/ Heartbeat \/ SessionBreaks \/ Close \/ CloseEnds
    BY <1>2, LoopTurnStep, ApplySnapshotStep, ApplyChangeStep, HeartbeatStep, CloseStep, CloseEndsStep,
       Zenon DEF Loop, LoopTurn
<1>3. ASSUME NEW w \in Watchers, Watch(w) \/ StopWatch(w) PROVE IInv'
    BY <1>3, WatchStep, StopWatchStep, Zenon
<1>4. CASE Pass \/ PageFails
    BY <1>4, PassQuietStep, PageArrivesStep, FinishPassStep, Zenon DEF Pass, PassQuiet
<1>5. ASSUME NEW x \in Fields,
             FieldStep(x) \/ InitField(x) \/ GetParameter(x) \/ FieldReadFails(x) \/ Dispose(x)
      PROVE  IInv'
  <2>1. CASE Unsubscribe(x)
    <3>1. CASE run = "closed"
        BY <2>1, <3>1, FieldOnlySteps, Zenon
    <3>2. CASE run # "closed"
      <4>1. fields[x].phase \in {"registered", "live"} /\ Unregister(x)
          BY <2>1, <3>2, Zenon DEF Unsubscribe
      <4>2. QED BY <3>2, <4>1, UnregisterStep, Zenon
    <3>3. QED BY <3>1, <3>2, Zenon
  <2>2. CASE FieldRead(x) \/ GetParameter(x) \/ FieldReadFails(x)
      BY <2>2, FieldReadSteps, Zenon
  <2>3. CASE Register(x) \/ InitField(x)
      BY <2>3, RegisterStep, InitFieldStep, Zenon
  <2>4. CASE RegisterRefused(x) \/ Settle(x) \/ Dispose(x)
      BY <2>4, FieldOnlySteps, Zenon
  <2>5. QED BY <1>5, <2>1, <2>2, <2>3, <2>4, Zenon DEF FieldStep
<1>6. CASE UNCHANGED vars
    BY <1>6, StutterStep, Zenon
<1>7. QED BY <1>1, <1>2, <1>3, <1>4, <1>5, <1>6, Zenon DEF Next

\* The inductive invariant holds in every behaviour of the client, the server
\* and the application (SubscriptionManager, ParameterValue, ReadCache).
THEOREM Invariance == Spec => []IInv
<1>1. Init => IInv
    BY IInvInit
<1>2. IInv /\ [Next]_vars => IInv'
    BY IInvStep
<1>3. QED BY <1>1, <1>2, PTL DEF Spec

\* Every variable keeps its type: also no count of #namespaceRefCounts ever
\* goes below zero, and no captured revision runs ahead of the server.
THEOREM TypeCorrect == Spec => []TypeOK
<1>1. IInv => TypeOK
    BY Zenon DEF IInv, TypeInv, LogT, RegistryT, RowT, LoopT, PassT, FieldT, ReadT, CountT, TypeOK,
                 Entry, FieldType, Phases, CallType
<1>2. QED BY <1>1, Invariance, PTL

\* What #setValue has given a handler is never older than #lastRevision, for
\* any interleaving of stream, reconciliation, registrations and writes.
THEOREM RowsNeverBehind == Spec => []NeverBehindStream
<1>1. IInv => NeverBehindStream
    BY DEF IInv
<1>2. QED BY <1>1, Invariance, PTL

\* What ReadCache serves for a watched namespace is never older than
\* #lastRevision, and never older than an own putParameter that has returned.
THEOREM CacheNeverBehind == Spec => []CacheNotBehind
<1>1. ASSUME IInv PROVE CacheNotBehind
  <2> SUFFICES ASSUME NEW p \in Paths, cache[p] # Absent
               PROVE  /\ (put.returned /\ put.path = p) => HeldSince(p, cache[p], put.at)
                      /\ (~due /\ refs[NamespaceOf(p)] > 0) => HeldSince(p, cache[p], revision)
      BY Zenon DEF CacheNotBehind
  <2>1. (put.returned /\ put.path = p) => HeldSince(p, cache[p], put.at)
      BY <1>1, Zenon DEF IInv, CacheInv
  <2>2. ASSUME ~due, refs[NamespaceOf(p)] > 0 PROVE HeldSince(p, cache[p], revision)
    <3>1. PICK k \in Nat : Moment(p, k) /\ HeldSince(p, cache[p], k)
        BY <1>1, <2>2, Zenon DEF IInv, CacheInv, Followed, Current
    <3>2. k \in revision..Len(log)
        BY <3>1, Zenon DEF Moment
    <3>3. revision \in Nat /\ revision <= k /\ LogT
        BY <1>1, <3>2, Numbers
    <3>4. QED BY <3>1, <3>3, HeldEarlier, Zenon
  <2>3. QED BY <2>1, <2>2, Zenon
<1>2. QED BY <1>1, Invariance, PTL

\* #namespaceRefCounts counts the watchers and handlers there are, rows and
\* tombstones go with the last of them, and stop leaves nothing behind.
THEOREM NoLeaks == Spec => []NothingLeaks
<1>1. ASSUME IInv PROVE NothingLeaks
  <2>1. ASSUME NEW n \in Namespaces PROVE refs[n] = Cardinality(Holders(n))
    <3>1. \A x \in Fields : fields[x].path \in Paths \cup {Absent}
        BY <1>1, Zenon DEF IInv, TypeInv, FieldT, FieldType
    <3>2. \A p \in Paths : p # Absent
        BY WatchConstants, Zenon DEF Paths
    <3>3. HandlersOf(n) = {x \in Fields : fields[x].path # Absent /\ x \in handlers[fields[x].path] /\
                                          NamespaceOf(fields[x].path) = n}
        BY <1>1, <3>1, <3>2, Zenon DEF HandlersOf, IInv, FieldInv
    <3>4. Holders(n) = WatchersOf(n) \cup HandlersOf(n)
        BY <3>3, Zenon DEF Holders, WatchersOf
    <3>5. QED BY <1>1, <3>4, Zenon DEF IInv, RefInv
  <2>2. \A p \in Paths : known[p] # Unknown =>
            refs[NamespaceOf(p)] > 0 /\ (known[p].value # Absent \/ handlers[p] # {})
      BY <1>1, Zenon DEF IInv, RowInv
  <2>3. run = "closed" => \A p \in Paths : known[p] = Unknown /\ handlers[p] = {} /\ cache[p] = Absent
    <3>1. \A p \in Paths : handlers[p] \in SUBSET Fields
        BY <1>1, Zenon DEF IInv, TypeInv, RegistryT
    <3>2. run = "closed" => \A p \in Paths : handlers[p] = {}
        BY <1>1, <3>1, Zenon DEF IInv, FieldInv
    <3>3. QED BY <1>1, <3>2, Zenon DEF IInv, ClosedInv
  <2>4. \A x \in Fields : fields[x].phase \in {"new", "closed"} => \A p \in Paths : x \notin handlers[p]
    <3>1. "new" \notin {"registered", "live"} /\ "closed" \notin {"registered", "live"}
        OBVIOUS
    <3>2. QED BY <1>1, <3>1, Zenon DEF IInv, FieldInv
  <2>5. QED BY <2>1, <2>2, <2>3, <2>4, Zenon DEF NothingLeaks
<1>2. QED BY <1>1, Invariance, PTL
=============================================================================
