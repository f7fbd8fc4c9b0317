---------------------------- MODULE DurableQueue ----------------------------
(***************************************************************************)
(* What ADR 151 promises of a write handed to the beacon: it is kept until *)
(* it was delivered, or was tried often enough, and then it is forgotten   *)
(* for good.  Deliveries may be repeated, and may come late.               *)
(***************************************************************************)
EXTENDS Naturals

CONSTANTS Item, Enough

VARIABLES
    state,      \* of each item: absent, then queued, then gone
    delivered,  \* items that were delivered at least once
    tries       \* deliveries that failed while the item was queued

vars == <<state, delivered, tries>>

Init ==
    /\ state = [i \in Item |-> "absent"]
    /\ delivered = {}
    /\ tries = [i \in Item |-> 0]

Put(i) ==
    /\ state[i] = "absent"
    /\ state' = [state EXCEPT ![i] = "queued"]
    /\ UNCHANGED <<delivered, tries>>

Deliver(i) ==
    /\ state[i] # "absent"
    /\ delivered' = delivered \cup {i}
    /\ UNCHANGED <<state, tries>>

Fail(i) ==
    /\ state[i] = "queued"
    /\ tries' = [tries EXCEPT ![i] = @ + 1]
    /\ UNCHANGED <<state, delivered>>

Forget(i) ==
    /\ state[i] = "queued"
    /\ i \in delivered \/ tries[i] >= Enough
    /\ state' = [state EXCEPT ![i] = "gone"]
    /\ UNCHANGED <<delivered, tries>>

Next == \E i \in Item : Put(i) \/ Deliver(i) \/ Fail(i) \/ Forget(i)

Spec == Init /\ [][Next]_vars
=============================================================================
