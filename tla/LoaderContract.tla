---------------------------- MODULE LoaderContract ----------------------------
(***************************************************************************)
(* What a release loader promises, whichever SDK it comes from: the        *)
(* application is handed targets of rising revisions, one Commit at a      *)
(* time, and the server comes to show as applied only what the application *)
(* was handed before.                                                      *)
(***************************************************************************)
EXTENDS Integers, Sequences

VARIABLES
    committed,  \* the targets handed to the application, in order
    shown       \* the targets the server shows as applied

Init ==
    /\ committed = <<>>
    /\ shown = {}

Commit ==
    /\ Len(committed') = Len(committed) + 1
    /\ LET c == committed'[Len(committed')]
       IN  /\ committed' = Append(committed, c)
           /\ \A k \in DOMAIN committed : committed[k].rev < c.rev
    /\ UNCHANGED shown

\* News reaches the server, or is forgotten there.
Report ==
    /\ shown' \subseteq {committed[k] : k \in DOMAIN committed}
    /\ UNCHANGED committed

Next == Commit \/ Report

Spec == Init /\ [][Next]_<<committed, shown>>
===============================================================================
