---------------------------- MODULE SpawnTrigger ----------------------------
(***************************************************************************)
(* What ADR 177 promises of a session-end trigger: it asks a beacon once   *)
(* over the reverse channel and, when the channel fails it, once over      *)
(* HTTP; each request spawns one agent or none, perhaps after everybody    *)
(* gave up waiting.  A trigger whose command was answered does not ask     *)
(* again: it has no second agent, and none at all after a refusal.  (That  *)
(* it has one after a good answer is not promised: a beacon at its limit   *)
(* of spawns gives that answer too.)                                       *)
(***************************************************************************)
EXTENDS Naturals

CONSTANT Trigger

VARIABLES
    state,      \* unsent, asked, retrying, confirmed, refused or settled
    agents      \* agents spawned for it

vars == <<state, agents>>

Init ==
    /\ state = [t \in Trigger |-> "unsent"]
    /\ agents = [t \in Trigger |-> 0]

\* Requests whose effect the trigger may never hear of
Requests(t) == CASE state[t] \in {"asked", "retrying"} -> 1
                 [] state[t] = "settled" -> 2
                 [] OTHER -> 0

Becomes(t, s) == state' = [state EXCEPT ![t] = s] /\ UNCHANGED agents

\* The command, or HTTP at once when the beacon is not connected
Ask(t) == state[t] = "unsent" /\ (Becomes(t, "asked") \/ Becomes(t, "retrying"))

Retry(t) == state[t] = "asked" /\ Becomes(t, "retrying")

Confirm(t) == state[t] = "asked" /\ Becomes(t, "confirmed")

Refuse(t) == state[t] = "asked" /\ agents[t] = 0 /\ Becomes(t, "refused")

Spawn(t) ==
    /\ agents[t] < Requests(t)
    /\ agents' = [agents EXCEPT ![t] = @ + 1]
    /\ UNCHANGED state

Fallback(t) ==
    /\ state[t] = "retrying"
    /\ state' = [state EXCEPT ![t] = "settled"]
    /\ agents' = agents \/ agents' = [agents EXCEPT ![t] = @ + 1]

\* The coordinator restarts: nobody waits any more.
Restart ==
    /\ state' = [t \in Trigger |-> IF state[t] \in {"asked", "retrying"} THEN "settled"
                                  ELSE state[t]]
    /\ UNCHANGED agents

Next ==
    \/ \E t \in Trigger : \/ Ask(t) \/ Retry(t) \/ Confirm(t) \/ Refuse(t)
                          \/ Spawn(t) \/ Fallback(t)
    \/ Restart

Spec == Init /\ [][Next]_vars
=============================================================================
