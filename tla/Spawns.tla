------------------------------- MODULE Spawns -------------------------------
(***************************************************************************)
(* The agents a beacon spawns: the row of each spawn, its process, and what *)
(* the beacon knows of it.  Rows are written by the spawner, by the events *)
(* of its children, by a timer, by the agent's registration, by requests   *)
(* to terminate and by the reconciliation after a restart; all but the     *)
(* first may decide on what they read before an await.                     *)
(*                                                                         *)
(* Sources: drone-swarm-common/src/spawner.ts and process-lookup.ts,       *)
(* drone-beacon/src/db/spawns.ts, db/agents.ts, routes/spawn-handlers.ts,  *)
(* routes/agents.ts and spawn-reconcile.ts.                                *)
(*                                                                         *)
(* Ids of spawns are never reused (a second INSERT fails), and the agent   *)
(* of a spawn is named after it here.  Agents that recycle their session   *)
(* have a second id, which no row of spawns names.                         *)
(***************************************************************************)
EXTENDS Naturals, FiniteSets

CONSTANTS
    Spawn,
    Termination,    \* requests to terminate (bound: so many at a time)
    MaxConcurrent,  \* maxConcurrentSpawns
    MaxRestarts     \* bound

ASSUME SpawnsAssumption ==
    /\ IsFiniteSet(Spawn) /\ IsFiniteSet(Termination)
    /\ MaxConcurrent \in Nat /\ MaxRestarts \in Nat

VARIABLES
    rows,           \* table spawns
    process,        \* the agents' processes
    activeSpawns,
    registered,     \* agent_sessions
    connections,    \* agents with a socket
    posting,        \* POST /agents under way
    reconcile,      \* reconcileSpawnRows
    termination,    \* handleTerminateSpawn
    asked,          \* spawns somebody asked to terminate
    end,            \* how the end of a spawn was last recorded
    restarts

spawns_vars == <<rows, process, activeSpawns, registered, connections, posting,
                 reconcile, termination, asked, end, restarts>>

Row == [status : {"none", "spawning", "running", "failed", "terminated"}, agent : BOOLEAN]

\* What ps says: the spawns whose processes it lists, or that it failed
Listing == [available : BOOLEAN, seen : SUBSET Spawn]
NoListing == [available |-> FALSE, seen |-> {}]

Reconcile == [pc : {"due", "looking", "looked", "done"}, candidates : SUBSET Spawn,
              processes : Listing]

\* spawn: the one to terminate, as a set of at most one
\* lookup: what findPidBySpawnId returned
Ladder == [pc : {"idle", "closing", "looking", "looked", "exiting"}, spawn : SUBSET Spawn,
           lookup : {"found", "absent", "unavailable"}]

IdleLadder == [pc |-> "idle", spawn |-> {}, lookup |-> "unavailable"]
DueReconcile == [pc |-> "due", candidates |-> {}, processes |-> NoListing]

SpawnsTypeOK ==
    /\ rows \in [Spawn -> Row]
    /\ process \in [Spawn -> {"none", "failing", "booting", "up", "leaving", "dead"}]
    /\ activeSpawns \subseteq Spawn
    /\ registered \subseteq Spawn
    /\ connections \subseteq Spawn
    /\ posting \subseteq Spawn
    /\ reconcile \in Reconcile
    /\ termination \in [Termination -> Ladder]
    /\ asked \subseteq Spawn
    /\ end \in [Spawn -> {"none", "left", "gone"}]
    /\ restarts \in 0..MaxRestarts

NoRow == [status |-> "none", agent |-> FALSE]

SpawnsInit ==
    /\ rows = [s \in Spawn |-> NoRow]
    /\ process = [s \in Spawn |-> "none"]
    /\ activeSpawns = {}
    /\ registered = {}
    /\ connections = {}
    /\ posting = {}
    /\ reconcile = DueReconcile
    /\ termination = [t \in Termination |-> IdleLadder]
    /\ asked = {}
    /\ end = [s \in Spawn |-> "none"]
    /\ restarts = 0

LiveRow(s) == rows[s].status \in {"spawning", "running"}
Alive(s) == process[s] \in {"booting", "up", "leaving"}

\* updateSpawnStatus with agent_id left alone, and with agent_id = NULL
SetStatus(s, status) == rows' = [rows EXCEPT ![s].status = status]
SetGone(s, status) ==
    /\ rows' = [rows EXCEPT ![s] = [status |-> status, agent |-> FALSE]]
    /\ end' = [end EXCEPT ![s] = "gone"]

\* The ends that handleTerminateSpawn records by itself leave agent_id alone.
SetLeft(s, status) ==
    /\ SetStatus(s, status)
    /\ end' = [end EXCEPT ![s] = IF @ = "gone" THEN @ ELSE "left"]

\* What `ps` may return: it fails, or lists what is alive.
Listings == {NoListing, [available |-> TRUE, seen |-> {s \in Spawn : Alive(s)}]}

Unregister(gone) == registered' = registered \ gone

-----------------------------------------------------------------------------
\* Mutant of SpawnAgent: the agent is linked when it registers.
SpawnAgentUnlinked(s) ==
    /\ rows[s] = NoRow
    /\ Cardinality(activeSpawns) < MaxConcurrent
    /\ rows' = [rows EXCEPT ![s] = [status |-> "spawning", agent |-> FALSE]]
    /\ process' \in {[process EXCEPT ![s] = p] : p \in {"booting", "failing"}}
    /\ activeSpawns' = activeSpawns \cup {s}
    /\ UNCHANGED <<registered, connections, posting, reconcile, termination, asked,
                   end, restarts>>

\* handleSpawnAgent: the row, then the process, tracked and timed
SpawnAgent(s) ==
    /\ rows[s] = NoRow
    /\ Cardinality(activeSpawns) < MaxConcurrent
    /\ rows' = [rows EXCEPT ![s] = [status |-> "spawning", agent |-> TRUE]]
    /\ process' \in {[process EXCEPT ![s] = p] : p \in {"booting", "failing"}}
    /\ activeSpawns' = activeSpawns \cup {s}
    /\ UNCHANGED <<registered, connections, posting, reconcile, termination, asked,
                   end, restarts>>

\* spawn() throws: the catch block inserts the id again, and fails.
SpawnThrows(s) ==
    /\ rows[s] = NoRow
    /\ Cardinality(activeSpawns) < MaxConcurrent
    /\ rows' = [rows EXCEPT ![s] = [status |-> "spawning", agent |-> TRUE]]
    /\ UNCHANGED <<process, activeSpawns, registered, connections, posting,
                   reconcile, termination, asked, end, restarts>>

\* The limit is reached: the catch block records a failed spawn.
SpawnRefused(s) ==
    /\ rows[s] = NoRow
    /\ Cardinality(activeSpawns) >= MaxConcurrent
    /\ SetGone(s, "failed")
    /\ UNCHANGED <<process, activeSpawns, registered, connections, posting,
                   reconcile, termination, asked, restarts>>

\* The child is gone, one way or the other.
Untrack(s) ==
    /\ Unregister({s})
    /\ activeSpawns' = activeSpawns \ {s}

\* Mutant of ChildExit: the row keeps its agent.
ChildExitKeepsAgent(s) ==
    /\ s \in activeSpawns
    /\ process[s] = "dead"
    /\ SetStatus(s, "terminated")
    /\ end' = [end EXCEPT ![s] = "gone"]
    /\ Untrack(s)
    /\ UNCHANGED <<process, connections, posting, reconcile, termination, asked, restarts>>

\* childProcess.on('exit')
ChildExit(s) ==
    /\ s \in activeSpawns
    /\ process[s] = "dead"
    /\ SetGone(s, "terminated")
    /\ Untrack(s)
    /\ UNCHANGED <<process, connections, posting, reconcile, termination, asked, restarts>>

\* childProcess.on('error'): the process could not be started.
ChildError(s) ==
    /\ s \in activeSpawns
    /\ process[s] = "failing"
    /\ process' = [process EXCEPT ![s] = "none"]
    /\ SetGone(s, "failed")
    /\ Untrack(s)
    /\ UNCHANGED <<connections, posting, reconcile, termination, asked, restarts>>

\* Mutant of SpawnTimeout: a child that is up is left alone.
SpawnTimeoutSparesUp(s) ==
    /\ s \in activeSpawns
    /\ rows[s].status = "spawning"
    /\ process[s] # "up"
    /\ SetGone(s, "failed")
    /\ UNCHANGED <<process, activeSpawns, registered, connections, posting, reconcile,
                   termination, asked, restarts>>

\* The agent did not connect in time; its process is left to run.  A timer that
\* finds the row settled does nothing, so the timers are not kept as state.
SpawnTimeout(s) ==
    /\ s \in activeSpawns
    /\ rows[s].status = "spawning"
    /\ SetGone(s, "failed")
    /\ UNCHANGED <<process, activeSpawns, registered, connections, posting, reconcile,
                   termination, asked, restarts>>

-----------------------------------------------------------------------------
\* The agent starts and posts itself to the beacon.
Announce(s) ==
    /\ process[s] = "booting"
    /\ process' = [process EXCEPT ![s] = "up"]
    /\ posting' = posting \cup {s}
    /\ UNCHANGED <<rows, activeSpawns, registered, connections, reconcile,
                   termination, asked, end, restarts>>

\* POST /agents, handled perhaps after its sender died
Register(s) ==
    /\ s \in posting
    /\ posting' = posting \ {s}
    /\ registered' = registered \cup {s}
    /\ IF rows[s].agent THEN SetStatus(s, "running") ELSE UNCHANGED rows
    /\ UNCHANGED <<process, activeSpawns, connections, reconcile, termination, asked,
                   end, restarts>>

\* The agent's socket, and its closing for any reason
Connect(s) ==
    /\ process[s] = "up"
    /\ s \in registered \ (connections \cup posting)
    /\ connections' = connections \cup {s}
    /\ UNCHANGED <<rows, process, activeSpawns, registered, posting, reconcile,
                   termination, asked, end, restarts>>

Disconnect(s) ==
    /\ s \in connections
    /\ connections' = connections \ {s}
    /\ UNCHANGED <<rows, process, activeSpawns, registered, posting, reconcile,
                   termination, asked, end, restarts>>

\* onShutdown: DELETE /agents/:id
Depart(s) ==
    /\ process[s] = "up"
    /\ process' = [process EXCEPT ![s] = "leaving"]
    /\ Unregister({s})
    /\ UNCHANGED <<rows, activeSpawns, connections, posting, reconcile,
                   termination, asked, end, restarts>>

Dies(s) ==
    /\ Alive(s)
    /\ process' = [process EXCEPT ![s] = "dead"]
    /\ UNCHANGED <<rows, activeSpawns, registered, connections, posting,
                   reconcile, termination, asked, end, restarts>>

-----------------------------------------------------------------------------
\* handleTerminateSpawn: stage 1 when the agent is connected
Terminate(t, s) ==
    /\ termination[t].pc = "idle"
    /\ LiveRow(s)
    /\ asked' = asked \cup {s}
    /\ termination' = [termination EXCEPT ![t] =
                         [IdleLadder EXCEPT !.spawn = {s},
                            !.pc = IF s \in connections THEN "closing" ELSE "looking"]]
    /\ UNCHANGED <<rows, process, activeSpawns, registered, connections, posting,
                   reconcile, end, restarts>>

Answer(t) == termination' = [termination EXCEPT ![t] = IdleLadder]

\* waitForAgentDisconnect: the agent's socket closed in time
Disconnected(t, s) ==
    /\ termination[t].pc = "closing"
    /\ termination[t].spawn = {s}
    /\ s \notin connections
    /\ SetLeft(s, "terminated")
    /\ Answer(t)
    /\ UNCHANGED <<process, activeSpawns, registered, connections, posting,
                   reconcile, asked, restarts>>

\* ... or not
GraceOver(t) ==
    /\ termination[t].pc = "closing"
    /\ termination[t].spawn \subseteq connections
    /\ termination' = [termination EXCEPT ![t].pc = "looking"]
    /\ UNCHANGED <<rows, process, activeSpawns, registered, connections, posting,
                   reconcile, asked, end, restarts>>

\* findPidBySpawnId
Look(t) ==
    /\ termination[t].pc = "looking"
    /\ \E listing \in Listings :
           termination' = [termination EXCEPT ![t] = [@ EXCEPT !.pc = "looked",
                             !.lookup = IF ~listing.available THEN "unavailable"
                                        ELSE IF termination[t].spawn \subseteq listing.seen THEN "found"
                                        ELSE "absent"]]
    /\ UNCHANGED <<rows, process, activeSpawns, registered, connections, posting,
                   reconcile, asked, end, restarts>>

\* Found: SIGTERM.  Not found: the row is downgraded, unless the agent is
\* connected or nobody could look.
Decide(t, s) ==
    LET lookup == termination[t].lookup IN
    /\ termination[t].pc = "looked"
    /\ termination[t].spawn = {s}
    /\ \/ /\ lookup = "found"
          /\ termination' = [termination EXCEPT ![t].pc = "exiting"]
          /\ UNCHANGED <<rows, end>>
       \/ /\ lookup # "found"
          /\ IF lookup = "absent" /\ s \notin connections
             THEN SetGone(s, "terminated") ELSE UNCHANGED <<rows, end>>
          /\ Answer(t)
    /\ UNCHANGED <<process, activeSpawns, registered, connections, posting,
                   reconcile, asked, restarts>>

\* Mutant of Exited: a status the readers of the row do not know.
ExitedKilled(t, s) ==
    /\ termination[t].pc = "exiting"
    /\ termination[t].spawn = {s}
    /\ SetLeft(s, "killed")
    /\ process' = [process EXCEPT ![s] = IF Alive(s) THEN "dead" ELSE @]
    /\ Answer(t)
    /\ UNCHANGED <<activeSpawns, registered, connections, posting, reconcile,
                   asked, restarts>>

\* waitForPidExit: the process is gone, or is killed.
Exited(t, s) ==
    /\ termination[t].pc = "exiting"
    /\ termination[t].spawn = {s}
    /\ SetLeft(s, "terminated")
    /\ process' = [process EXCEPT ![s] = IF Alive(s) THEN "dead" ELSE @]
    /\ Answer(t)
    /\ UNCHANGED <<activeSpawns, registered, connections, posting, reconcile,
                   asked, restarts>>

-----------------------------------------------------------------------------
\* reconcileSpawnRows, once after each start
ReconcileReads ==
    LET candidates == {s \in Spawn : LiveRow(s)} IN
    /\ reconcile.pc = "due"
    /\ reconcile' = [reconcile EXCEPT !.candidates = candidates,
                                      !.pc = IF candidates = {} THEN "done" ELSE "looking"]
    /\ UNCHANGED <<rows, process, activeSpawns, registered, connections, posting,
                   termination, asked, end, restarts>>

ReconcileLooks ==
    /\ reconcile.pc = "looking"
    /\ \E listing \in Listings :
           reconcile' = [reconcile EXCEPT !.pc = "looked", !.processes = listing]
    /\ UNCHANGED <<rows, process, activeSpawns, registered, connections, posting,
                   termination, asked, end, restarts>>

\* heard: the registered agents whose last heartbeat is less than 45 s old,
\* which may be any of them
Reachable(s, heard) == s \in connections \/ s \in heard

Downgrade(gone) ==
    /\ reconcile.pc = "looked"
    /\ rows' = [s \in Spawn |->
                  IF s \in gone THEN [status |-> "terminated", agent |-> FALSE] ELSE rows[s]]
    /\ Unregister(gone)
    /\ end' = [s \in Spawn |-> IF s \in gone THEN "gone" ELSE end[s]]
    /\ reconcile' = [DueReconcile EXCEPT !.pc = "done"]
    /\ UNCHANGED <<process, activeSpawns, connections, posting, termination, asked,
                   restarts>>

\* Mutant of ReconcileDowngrades: the rows are read after the processes.
ReconcileDowngradesLate ==
    /\ reconcile.processes.available
    /\ \E heard \in SUBSET registered :
           Downgrade({s \in Spawn : LiveRow(s) /\ ~Reachable(s, heard)
                                     /\ s \notin reconcile.processes.seen})

\* Neither reachable nor listed; nothing when nobody could look.
ReconcileDowngrades ==
    \E heard \in SUBSET registered :
        Downgrade({s \in reconcile.candidates :
                     reconcile.processes.available /\ ~Reachable(s, heard)
                        /\ s \notin reconcile.processes.seen})

-----------------------------------------------------------------------------
\* The beacon stops, by signal or crash, and starts again: the tables are kept,
\* agents may survive.
Restarted ==
    /\ restarts < MaxRestarts
    /\ restarts' = restarts + 1
    /\ activeSpawns' = {}
    /\ connections' = {}
    /\ posting' = {}
    /\ process' = [s \in Spawn |-> IF process[s] = "failing" THEN "none" ELSE process[s]]
    /\ reconcile' = DueReconcile
    /\ termination' = [t \in Termination |-> IdleLadder]
    /\ UNCHANGED <<registered, asked, end>>

BeaconRestart == Restarted /\ UNCHANGED rows

\* It stops between the two statements of a refused spawn: the row has been
\* inserted, and has not been marked as failed.
RefusedHalfway(s) ==
    /\ rows[s] = NoRow
    /\ Cardinality(activeSpawns) >= MaxConcurrent
    /\ rows' = [rows EXCEPT ![s] = [status |-> "spawning", agent |-> FALSE]]
    /\ Restarted

AgentStep(s) ==
    \/ Announce(s)
    \/ Register(s)
    \/ Connect(s)
    \/ Disconnect(s)
    \/ Depart(s)
    \/ Dies(s)

LadderStep(t) ==
    \/ \E s \in Spawn : Disconnected(t, s) \/ Decide(t, s) \/ Exited(t, s)
    \/ GraceOver(t)
    \/ Look(t)

SpawnsNext ==
    \/ \E s \in Spawn : SpawnAgent(s) \/ SpawnThrows(s) \/ SpawnRefused(s)
    \/ \E s \in Spawn : ChildExit(s) \/ ChildError(s) \/ SpawnTimeout(s)
    \/ \E s \in Spawn : AgentStep(s)
    \/ \E t \in Termination : (\E s \in Spawn : Terminate(t, s)) \/ LadderStep(t)
    \/ ReconcileReads
    \/ ReconcileLooks
    \/ ReconcileDowngrades
    \/ BeaconRestart
    \/ \E s \in Spawn : RefusedHalfway(s)

SpawnsSpec == SpawnsInit /\ [][SpawnsNext]_spawns_vars

\* Timers fire, and the events of children are delivered.
SpawnsFairness ==
    \A s \in Spawn :
        /\ WF_spawns_vars(SpawnTimeout(s))
        /\ WF_spawns_vars(ChildError(s))
        /\ WF_spawns_vars(ChildExit(s))

FairSpawnsSpec == SpawnsSpec /\ SpawnsFairness
-----------------------------------------------------------------------------
(* An end that the beacon records together with forgetting the agent stands:  *)
(* the child's exit or error, the timeout, a termination that finds no        *)
(* process, the reconciliation (spawner.ts:184-203, 237-240,                  *)
(* spawn-handlers.ts:267-270, spawn-reconcile.ts:104-110).  No registration   *)
(* that was under way, no termination begun before it and no restart makes    *)
(* the row live again.  The other two ends of a termination keep the agent    *)
(* and do not stand: see EndIsFinal.                                          *)
EndsStand == \A s \in Spawn : end[s] = "gone" => ~LiveRow(s)

(* The same of every recorded end, which the code does not keep: after        *)
(* 'terminated' of spawn-handlers.ts:221, 233 or 240 a POST /agents that      *)
(* comes late finds the row by its agent and sets it 'running'                *)
(* (routes/agents.ts:29-31), though the process may be dead; with the beacon  *)
(* restarted since the spawn nothing but a next reconciliation corrects it.   *)
EndIsFinal == \A s \in Spawn : end[s] # "none" => ~LiveRow(s)

(* "A row that fails only one signal is left alone" (spawn-reconcile.ts:75):  *)
(* whatever starts, connects and registers between its two reads, the         *)
(* reconciliation never takes the row of a living agent for lost; such a row  *)
(* is terminated only at somebody's request.                                  *)
LivingIsSpared == \A s \in Spawn : Alive(s) /\ rows[s].status = "terminated" => s \in asked

(* A row that may still be terminated or reconciled names its agent, if a     *)
(* process was ever started for it: without the name stage 1 of the ladder    *)
(* and the agent's registration would miss the row (spawner.ts:156-163,       *)
(* routes/agents.ts:29).  Only a refused spawn whose second statement a crash *)
(* prevents has a live row without one (spawn-handlers.ts:76-82).             *)
LiveRowsNameAgent ==
    \A s \in Spawn : LiveRow(s) /\ process[s] # "none" => rows[s].agent

(* A spawn that the beacon tracks does not stay in 'spawning': it registers,  *)
(* ends, fails or times out (spawner.ts:230-241).                             *)
SpawnSettles ==
    \A s \in Spawn : rows[s].status = "spawning" /\ s \in activeSpawns
                        ~> rows[s].status # "spawning" \/ s \notin activeSpawns

(* routes/agents.ts:28: "If this agent was spawned by the beacon, update the  *)
(* spawn record": a connected agent that nobody asked to stop is recorded as  *)
(* running.                                                                   *)
ConnectedIsRunning ==
    \A s \in connections : process[s] = "up" /\ s \notin asked => rows[s].status = "running"
=============================================================================
