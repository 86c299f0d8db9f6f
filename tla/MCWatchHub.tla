------------------------------ MODULE MCWatchHub ------------------------------
(* Small instances of WatchHub for TLC.                                     *)
EXTENDS WatchHub

CONSTANTS w, v   \* namespace names

\* A database created by this build.
Fresh == {<<>>}

\* Databases with two rows, some written before rows carried an incarnation.
LegacyRow == [ns |-> w, id |-> Legacy]
BoundRow == [ns |-> w, id |-> 1]
Existing == {<<LegacyRow, LegacyRow>>, <<LegacyRow, BoundRow>>, <<BoundRow, BoundRow>>}
===============================================================================
