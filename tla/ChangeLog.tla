------------------------------ MODULE ChangeLog ------------------------------
(***************************************************************************)
(* The change log and the namespace table of internal/storage.             *)
(*                                                                         *)
(* Every write transaction that touches a parameter, a secret or a release *)
(* appends one row whose revision is SQLite's AUTOINCREMENT key, so a      *)
(* revision is a position of the sequence log and is never reused; pruning *)
(* only takes revisions out of rows.  A row carries the namespace name it  *)
(* was written under and the immutable id of the namespace incarnation.    *)
(* What the row says (key, value, change type) is left out: delivery never *)
(* looks at it.  Each storage method is one SQLite transaction, hence one  *)
(* atomic step.                                                            *)
(***************************************************************************)
EXTENDS Integers, Sequences, FiniteSetsExt

CONSTANTS
    Namespaces,     \* the env/app names
    RetainRows,     \* watch.retain_rows
    MaxRevision,    \* model bound: commits stop at this revision
    MaxNamespaceID, \* model bound: namespaces are not recreated past this id
    Histories       \* the logs a database may be opened with

\* namespaceModel's primary key; 0 in a row marks one written before rows
\* carried an incarnation, and 0 in nsID a name that has no row.
Legacy == 0
Absent == 0

Rows == [ns : Namespaces, id : Nat]

\* The id the next CreateNamespace gets when the database is opened.
FirstFreeID == 2

ASSUME ChangeLogConstants ==
    /\ RetainRows \in Nat \ {0}
    /\ MaxRevision \in Nat
    /\ MaxNamespaceID \in Nat
    /\ Histories \subseteq Seq(Rows)
    /\ \A h \in Histories : \A r \in DOMAIN h : h[r].id < FirstFreeID

VARIABLES
    log,    \* every row ever appended, by revision
    rows,   \* the revisions PruneChangeLog has left in the table
    nsID,   \* the current incarnation of each name, or Absent
    nextID  \* the id the next CreateNamespace gets

logVars == <<log, rows>>
nsVars == <<nsID, nextID>>

CurrentRevision == Len(log)

\* SELECT COALESCE(MIN(revision), 0)
OldestRetainedRevision ==
    IF rows = {} THEN 0 ELSE Min(rows)

\* The revisions ListChangesSince(since, limit) returns.  They are read in
\* ascending order, so the set determines the page.
ListChangesSince(since, limit) ==
    {r \in rows : r > since
                  /\ Cardinality({q \in rows : since < q /\ q < r}) < limit}

LogInit ==
    /\ log \in Histories
    /\ rows = DOMAIN log
    /\ nsID = [n \in Namespaces |-> 1]
    /\ nextID = FirstFreeID

\* appendChange inside a committed write transaction on namespace n.
AppendChange(n) ==
    /\ Len(log) < MaxRevision
    /\ nsID[n] # Absent
    /\ log' = Append(log, [ns |-> n, id |-> nsID[n]])
    /\ rows' = rows \cup {Len(log) + 1}

\* PruneChangeLog: aged is the rows whose created_at is past the retention
\* window (wall-clock stamps, so any set of rows); the count policy deletes
\* the rows below the RetainRows-th newest.
KeptRows(aged) ==
    {r \in rows \ aged : Cardinality({q \in rows : q >= r}) <= RetainRows}

\* DeleteNamespace: the emptiness checks concern tables this module leaves
\* out, so it may succeed whenever the name exists.  No row is appended.
DeleteNamespace(n) ==
    /\ nsID[n] # Absent
    /\ nextID <= MaxNamespaceID
    /\ nsID' = [nsID EXCEPT ![n] = Absent]
    /\ UNCHANGED <<nextID, logVars>>

CreateNamespace(n) ==
    /\ nsID[n] = Absent
    /\ nextID <= MaxNamespaceID
    /\ nsID' = [nsID EXCEPT ![n] = nextID]
    /\ nextID' = nextID + 1
    /\ UNCHANGED logVars
==============================================================================
