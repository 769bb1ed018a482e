-------------------------- MODULE MCMaterialization --------------------------
(***************************************************************************)
(* Instances of Materialization for TLC.  A power cut that loses nothing   *)
(* is a restart of the process that, besides, leaves everything on disk;   *)
(* so the instance that watches durability restarts by power cuts alone.   *)
(* It also leaves out a synchronisation that fails: the worker's retry     *)
(* does not repeat it, which is how storage_restart loses the bytes.       *)
(***************************************************************************)
EXTENDS Materialization

\* Every way to disturb the process or to end it with the machine.
StoreFaults == {"power", "sweep", "finish", "root", "outside", "io"}

\* One restart of the process on a machine that stays up.
RestartFault == {"restart"}

\* One sweep of retention that removes the copy and does not commit.
SweepFault == {"sweep"}
=============================================================================
