-------------------------- MODULE MCSwarmSessions --------------------------
(***************************************************************************)
(* A small instance of SwarmSessions: one session (rows do not touch each  *)
(* other), two pipelines that may claim it at once, two of each way to end *)
(* it, and a clock that moves between any two steps.  Only safety is       *)
(* checked, so the claims are symmetric.                                   *)
(***************************************************************************)
EXTENDS SwarmSessions, TLC

MCStaleAfter == 0
MCMaxTime == 2
MCMaxEnds == 2
Symmetry == Permutations(Claim)
=============================================================================
