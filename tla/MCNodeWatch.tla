---------------------------- MODULE MCNodeWatch ----------------------------
(* NodeWatch for TLC: values are interchangeable, and so are namespaces.    *)
EXTENDS NodeWatch, TLC

Symmetry == Permutations(Values) \cup Permutations(Namespaces)
=============================================================================
