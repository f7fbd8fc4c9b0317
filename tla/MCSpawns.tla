------------------------------ MODULE MCSpawns ------------------------------
(***************************************************************************)
(* A small instance of Spawns: two spawns where one may run at a time, one *)
(* termination, one restart of the beacon.                                 *)
(***************************************************************************)
EXTENDS Spawns, TLC
=============================================================================
