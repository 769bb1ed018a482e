------------------------------ MODULE MCLibrary ------------------------------
(***************************************************************************)
(* The instance of Library for TLC: a directory inside another with a file *)
(* in it, and two libraries.                                               *)
(***************************************************************************)
EXTENDS Library, TLC

Parent == <<"a">>
Child  == <<"a", "b">>

Directories == {Parent, Child}
FilePaths == "f" :> <<"a", "b", "f">>
ViewPaths == "v" :> Child \o <<"c">>

BothLinked  == "l1" :> "linked" @@ "l2" :> "linked"
FirstHybrid == "l1" :> "hybrid" @@ "l2" :> "linked"

\* The first library has a root for the child, and a view in it.
Rooted == [modes |-> BothLinked, roots |-> Child :> "l1",
           views |-> "v" :> [root |-> Child, relative |-> <<"c">>],
           plans |-> << >>, commands |-> 1]

\* Nobody has a root yet, and a user of each library has planned one.
Planned == [modes |-> BothLinked, roots |-> << >>, views |-> << >>,
            plans |-> << [lib |-> "l1", dir |-> Parent], [lib |-> "l2", dir |-> Child] >>,
            commands |-> 0]

\* The first library takes uploads.
Hybrid == [modes |-> FirstHybrid, roots |-> << >>, views |-> << >>, plans |-> << >>,
           commands |-> 0]

AllStarts == {Rooted, Planned, Hybrid}
=============================================================================
