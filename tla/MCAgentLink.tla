---------------------------- MODULE MCAgentLink ----------------------------
(***************************************************************************)
(* AgentLink on a small instance.  MCAgentLink.cfg has a recycle, which    *)
(* leaves more than one socket open; MCLinkReachable.cfg only a lost       *)
(* connection.                                                             *)
(***************************************************************************)
EXTENDS AgentLink
=============================================================================
