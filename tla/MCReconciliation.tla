--------------------------- MODULE MCReconciliation ---------------------------
(***************************************************************************)
(* Instances of Reconciliation for TLC: the shapes of the tree.            *)
(***************************************************************************)
EXTENDS Reconciliation, TLC

\* A file in the root and one in a directory.
Branch == "a" :> Top @@ "d" :> Top @@ "b" :> "d"

\* A file in a directory.
Stem == "d" :> Top @@ "b" :> "d"

\* Two files in the root.
Flat == "a" :> Top @@ "b" :> Top
=============================================================================
