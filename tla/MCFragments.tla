---------------------------- MODULE MCFragments ----------------------------
(***************************************************************************)
(* Fragments with one agent, a reserved id and another, and two pulls that *)
(* may overlap.                                                            *)
(***************************************************************************)
EXTENDS Fragments
=============================================================================
