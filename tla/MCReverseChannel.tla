-------------------------- MODULE MCReverseChannel --------------------------
(***************************************************************************)
(* A small instance of ReverseChannel: one beacon (beacons share nothing   *)
(* but the map, whose entries are separate) and one command.  Three        *)
(* sockets: one open, one whose end the coordinator has not seen yet, one  *)
(* being dialled.  The run that checks liveness uses no symmetry.          *)
(***************************************************************************)
EXTENDS ReverseChannel, TLC

Symmetry == Permutations(Socket)
=============================================================================
