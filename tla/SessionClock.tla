---------------------------- MODULE SessionClock ----------------------------
(***************************************************************************)
(* What ADR 269 promises of a session's duration: the clock of a session   *)
(* starts once, stops once, at the time it is stopped, and is never        *)
(* restarted or stamped again.                                             *)
(***************************************************************************)
EXTENDS Integers

CONSTANTS Session, MaxTime

VARIABLES now, clock, stoppedAt

vars == <<now, clock, stoppedAt>>

Init ==
    /\ now = 1
    /\ clock = [s \in Session |-> "unset"]
    /\ stoppedAt = [s \in Session |-> 0]

Start(s) ==
    /\ clock[s] = "unset"
    /\ clock' = [clock EXCEPT ![s] = "running"]
    /\ UNCHANGED <<now, stoppedAt>>

Stop(s) ==
    /\ clock[s] = "running"
    /\ clock' = [clock EXCEPT ![s] = "stopped"]
    /\ stoppedAt' = [stoppedAt EXCEPT ![s] = now]
    /\ UNCHANGED now

Tick ==
    /\ now < MaxTime
    /\ now' = now + 1
    /\ UNCHANGED <<clock, stoppedAt>>

Next == Tick \/ \E s \in Session : Start(s) \/ Stop(s)

Spec == Init /\ [][Next]_vars
=============================================================================
