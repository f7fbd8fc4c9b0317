----------------------------- MODULE MCTurnLoop -----------------------------
(***************************************************************************)
(* A small instance of TurnLoop: two tools, so that a call can be repeated *)
(* or not; every threshold at the least value that keeps its stages apart, *)
(* one tier without silent retries; a host that wires every callback (the  *)
(* terminal), one that wires none (ephemeral-conversation.ts).             *)
(***************************************************************************)
EXTENDS TurnLoop, TLC

MCHintAfter == [t \in Tier |-> IF t = "reasoning" THEN 0 ELSE 1]
MCMaxHints == [t \in Tier |-> IF t = "empty" THEN 2 ELSE 1]
MCHosts == {{}, Question}
=============================================================================
