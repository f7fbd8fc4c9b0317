---------------------------- MODULE SpawnsProofs ----------------------------
(***************************************************************************)
(* Proofs about Spawns, for any number of spawns, competing terminations   *)
(* and restarts, and any limit: its types, that an end recorded together   *)
(* with forgetting the agent stands, that living agents are not taken for  *)
(* lost, and that live rows name their agents.                             *)
(***************************************************************************)
EXTENDS Spawns, TLAPS

\* A row whose agent was forgotten at its end is over and names no agent: what
\* registers late finds nothing to revive.
Forgotten ==
    \A s \in Spawn : end[s] = "gone" =>
        rows[s].status \in {"failed", "terminated"} /\ ~rows[s].agent

\* A spawn that has no row has no process.
ProcessesHaveRows == \A s \in Spawn : rows[s].status = "none" => process[s] = "none"

\* Terminations are of spawns somebody asked to terminate.
LaddersAsked == \A t \in Termination : termination[t].spawn \subseteq asked

\* What was a candidate has a row, and is dead unless the listing has it.
CandidatesKnown ==
    \A s \in reconcile.candidates :
        /\ rows[s].status # "none"
        /\ reconcile.pc = "looked" /\ reconcile.processes.available
             => s \in reconcile.processes.seen \/ ~Alive(s)

SpawnsInv ==
    /\ SpawnsTypeOK
    /\ LiveRowsNameAgent
    /\ Forgotten
    /\ ProcessesHaveRows
    /\ LivingIsSpared
    /\ LaddersAsked
    /\ CandidatesKnown

-----------------------------------------------------------------------------
LEMMA SpawnsInitInv == SpawnsInit => SpawnsInv
  BY SpawnsAssumption
     DEF SpawnsInit, SpawnsInv, SpawnsTypeOK, LiveRowsNameAgent, Forgotten, ProcessesHaveRows, LivingIsSpared,
         LaddersAsked, CandidatesKnown, NoRow, Row, Ladder, Reconcile, Listing, IdleLadder,
         DueReconcile, NoListing, LiveRow, Alive

\* A listing is one.
LEMMA ListingsTyped == Listings \subseteq Listing
  BY DEF Listings, Listing, NoListing

-----------------------------------------------------------------------------
\* The beacon starts agents.
LEMMA BeaconSpawns ==
    ASSUME SpawnsInv, NEW s \in Spawn, SpawnAgent(s) \/ SpawnThrows(s) \/ SpawnRefused(s)
    PROVE  SpawnsInv'
  <1> USE DEF SpawnsInv, LiveRow, Alive, NoRow, SetGone
  <1>1. SpawnsTypeOK'
    <2>1. rows' \in [Spawn -> Row]
      <3>1. PICK row \in Row : rows' = [rows EXCEPT ![s] = row]
        BY DEF SpawnsTypeOK, SpawnAgent, SpawnThrows, SpawnRefused, Row
      <3> QED
        BY <3>1 DEF SpawnsTypeOK
    <2>2. process' \in [Spawn -> {"none", "failing", "booting", "up", "leaving", "dead"}]
      BY DEF SpawnsTypeOK, SpawnAgent, SpawnThrows, SpawnRefused
    <2>3. activeSpawns' \subseteq Spawn
      BY DEF SpawnsTypeOK, SpawnAgent, SpawnThrows, SpawnRefused
    <2>4. UNCHANGED <<registered, connections, posting, reconcile, termination, asked, restarts>>
      BY DEF SpawnAgent, SpawnThrows, SpawnRefused
    <2>5. end' \in [Spawn -> {"none", "left", "gone"}]
      BY DEF SpawnsTypeOK, SpawnAgent, SpawnThrows, SpawnRefused
    <2> QED
      BY <2>1, <2>2, <2>3, <2>4, <2>5 DEF SpawnsTypeOK
  <1>2. LiveRowsNameAgent' /\ Forgotten' /\ ProcessesHaveRows'
    BY DEF SpawnsTypeOK, SpawnAgent, SpawnThrows, SpawnRefused, Row, LiveRowsNameAgent, Forgotten, ProcessesHaveRows
  <1>3. LivingIsSpared' /\ LaddersAsked'
    BY DEF SpawnsTypeOK, SpawnAgent, SpawnThrows, SpawnRefused, Row, LivingIsSpared, LaddersAsked
  <1>4. CandidatesKnown'
    BY DEF SpawnsTypeOK, SpawnAgent, SpawnThrows, SpawnRefused, Row, CandidatesKnown, Reconcile
  <1> QED
    BY <1>1, <1>2, <1>3, <1>4

\* The beacon hears of a child, or has waited long enough for it.
LEMMA ChildrenEnd ==
    ASSUME SpawnsInv, NEW s \in Spawn, ChildExit(s) \/ ChildError(s) \/ SpawnTimeout(s)
    PROVE  SpawnsInv'
  <1> USE DEF SpawnsInv
  <1>1. PICK status \in {"failed", "terminated"} : SetGone(s, status)
    BY DEF ChildExit, ChildError, SpawnTimeout
  <1>2. /\ rows' \in [Spawn -> Row]
        /\ rows'[s].status = status /\ ~rows'[s].agent
        /\ \A r \in Spawn \ {s} : rows'[r] = rows[r] /\ end'[r] = end[r]
        /\ end' \in [Spawn -> {"none", "left", "gone"}]
    BY <1>1 DEF SetGone, SpawnsTypeOK, Row
  <1>3. /\ process' \in [Spawn -> {"none", "failing", "booting", "up", "leaving", "dead"}]
        /\ \A r \in Spawn : process'[r] = process[r] \/ (r = s /\ process'[r] = "none")
    BY DEF SpawnsTypeOK, ChildExit, ChildError, SpawnTimeout
  <1>4. /\ activeSpawns' \subseteq Spawn /\ registered' \subseteq Spawn
        /\ UNCHANGED <<connections, posting, reconcile, termination, asked, restarts>>
    BY DEF SpawnsTypeOK, ChildExit, ChildError, SpawnTimeout, Untrack, Unregister
  <1>5. ~Alive(s) \/ rows'[s].status = "failed"
    BY <1>2 DEF ChildExit, ChildError, SpawnTimeout, SetGone, SpawnsTypeOK, Alive
  <1>6. SpawnsTypeOK'
    BY <1>2, <1>3, <1>4 DEF SpawnsTypeOK
  <1>7. LiveRowsNameAgent' /\ Forgotten' /\ ProcessesHaveRows'
    BY <1>2, <1>3 DEF LiveRowsNameAgent, Forgotten, ProcessesHaveRows, LiveRow
  <1>8. LivingIsSpared' /\ LaddersAsked'
    BY <1>2, <1>3, <1>4, <1>5 DEF LivingIsSpared, LaddersAsked, Alive
  <1>9. CandidatesKnown'
    BY <1>2, <1>3, <1>4 DEF CandidatesKnown, SpawnsTypeOK, Reconcile, Alive
  <1> QED
    BY <1>6, <1>7, <1>8, <1>9

\* An agent registers: only a row that names it becomes live.
LEMMA AgentRegisters ==
    ASSUME SpawnsInv, NEW s \in Spawn, Register(s)
    PROVE  SpawnsInv'
  <1> USE DEF SpawnsInv, LiveRow, Alive, SetStatus, Register
  <1>1. SpawnsTypeOK'
    BY DEF SpawnsTypeOK, Row
  <1>2. /\ UNCHANGED <<process, end>>
        /\ \A r \in Spawn : \/ rows'[r] = rows[r]
                            \/ /\ rows[r].agent /\ rows'[r].agent
                               /\ rows'[r].status = "running"
    BY DEF SpawnsTypeOK, Row
  <1>3. LiveRowsNameAgent' /\ Forgotten' /\ ProcessesHaveRows'
    BY <1>2 DEF LiveRowsNameAgent, Forgotten, ProcessesHaveRows
  <1>4. LivingIsSpared' /\ LaddersAsked'
    BY DEF SpawnsTypeOK, Row, LivingIsSpared, LaddersAsked
  <1>5. CandidatesKnown'
    BY DEF SpawnsTypeOK, Row, CandidatesKnown, Reconcile
  <1> QED
    BY <1>1, <1>3, <1>4, <1>5

\* The rest of an agent's life leaves the rows alone.
LEMMA AgentLives ==
    ASSUME SpawnsInv, NEW s \in Spawn,
           Announce(s) \/ Connect(s) \/ Disconnect(s) \/ Depart(s) \/ Dies(s)
    PROVE  SpawnsInv'
  <1> USE DEF SpawnsInv, Alive, Unregister, Announce, Connect, Disconnect, Depart, Dies
  <1>1. UNCHANGED <<rows, reconcile, termination, asked, end>>
    OBVIOUS
  <1>2. \A r \in Spawn : /\ Alive(r)' => Alive(r)
                         /\ process'[r] # "none" => process[r] # "none"
    BY DEF SpawnsTypeOK
  <1>3. SpawnsTypeOK'
    BY <1>1 DEF SpawnsTypeOK
  <1>4. LiveRowsNameAgent' /\ Forgotten' /\ ProcessesHaveRows' /\ LaddersAsked'
    BY <1>1, <1>2 DEF LiveRowsNameAgent, Forgotten, ProcessesHaveRows, LaddersAsked, LiveRow
  <1>5. LivingIsSpared'
    BY <1>1, <1>2 DEF LivingIsSpared
  <1>6. CandidatesKnown'
    BY <1>1, <1>2 DEF CandidatesKnown, SpawnsTypeOK, Reconcile
  <1> QED
    BY <1>3, <1>4, <1>5, <1>6

-----------------------------------------------------------------------------
\* A request to terminate, up to where it writes the row
LEMMA LadderWaits ==
    ASSUME SpawnsInv, NEW t \in Termination,
           (\E s \in Spawn : Terminate(t, s)) \/ GraceOver(t) \/ Look(t)
    PROVE  SpawnsInv'
  <1> USE DEF SpawnsInv
  <1>1. UNCHANGED <<rows, process, activeSpawns, registered, connections, posting, reconcile,
                    end, restarts>>
    BY DEF Terminate, GraceOver, Look
  <1>2. asked \subseteq asked' /\ asked' \subseteq Spawn
    BY DEF Terminate, GraceOver, Look, SpawnsTypeOK
  <1>3. termination' \in [Termination -> Ladder] /\ LaddersAsked'
    <2>1. CASE \E s \in Spawn : Terminate(t, s)
      <3>1. PICK s \in Spawn : Terminate(t, s)
        BY <2>1
      <3>2. PICK p \in {"closing", "looking"} :
                termination' = [termination EXCEPT ![t] = [IdleLadder EXCEPT !.spawn = {s}, !.pc = p]]
        BY <3>1 DEF Terminate
      <3>3. [IdleLadder EXCEPT !.spawn = {s}, !.pc = p] \in Ladder
        BY DEF Ladder, IdleLadder
      <3>4. termination' \in [Termination -> Ladder]
        BY <3>2, <3>3 DEF SpawnsTypeOK
      <3>5. \A u \in Termination : termination'[u].spawn \in {termination[u].spawn, {s}}
        BY <3>2 DEF SpawnsTypeOK, IdleLadder
      <3>6. s \in asked'
        BY <3>1 DEF Terminate
      <3> QED
        BY <1>2, <3>4, <3>5, <3>6 DEF LaddersAsked
    <2>2. CASE GraceOver(t)
      BY <2>2 DEF GraceOver, SpawnsTypeOK, Ladder, LaddersAsked
    <2>3. CASE Look(t)
      <3>1. PICK l \in {"found", "absent", "unavailable"} :
                termination' = [termination EXCEPT ![t] =
                                  [@ EXCEPT !.pc = "looked", !.lookup = l]]
        BY <2>3 DEF Look
      <3> QED
        BY <1>2, <3>1 DEF SpawnsTypeOK, Ladder, LaddersAsked
    <2> QED
      BY <2>1, <2>2, <2>3
  <1>4. SpawnsTypeOK'
    BY <1>1, <1>2, <1>3 DEF SpawnsTypeOK
  <1>5. LiveRowsNameAgent' /\ Forgotten' /\ ProcessesHaveRows' /\ CandidatesKnown'
    BY <1>1 DEF LiveRowsNameAgent, Forgotten, ProcessesHaveRows, CandidatesKnown, LiveRow, Alive
  <1>6. LivingIsSpared'
    BY <1>1, <1>2 DEF LivingIsSpared, Alive
  <1> QED
    BY <1>3, <1>4, <1>5, <1>6

\* ... and where it does
LEMMA LadderEnds ==
    ASSUME SpawnsInv, NEW t \in Termination, NEW s \in Spawn,
           Disconnected(t, s) \/ Decide(t, s) \/ Exited(t, s)
    PROVE  SpawnsInv'
  <1> USE DEF SpawnsInv, SetStatus, SetGone, SetLeft, Answer, Disconnected, Decide, Exited
  <1>1. s \in asked
    BY DEF LaddersAsked
  <1>2. /\ UNCHANGED <<activeSpawns, registered, connections, posting, reconcile, asked,
                       restarts>>
        /\ process' \in [Spawn -> {"none", "failing", "booting", "up", "leaving", "dead"}]
        /\ \A r \in Spawn : /\ Alive(r)' => Alive(r)
                            /\ process'[r] # "none" => process[r] # "none"
    BY DEF SpawnsTypeOK, Alive
  <1>3. /\ rows' \in [Spawn -> Row]
        /\ \A r \in Spawn : \/ rows'[r] = rows[r]
                            \/ /\ r = s /\ rows'[r].status = "terminated"
                               /\ rows'[r].agent => rows[r].agent
        /\ end' \in [Spawn -> {"none", "left", "gone"}]
        /\ \A r \in Spawn : end'[r] = "gone" =>
               \/ end[r] = "gone"
               \/ rows'[r].status = "terminated" /\ ~rows'[r].agent
    <2>1. CASE UNCHANGED <<rows, end>>
      BY <2>1 DEF SpawnsTypeOK
    <2>2. CASE SetLeft(s, "terminated")
      BY <2>2 DEF SpawnsTypeOK, Row
    <2>3. CASE SetGone(s, "terminated")
      BY <2>3 DEF SpawnsTypeOK, Row
    <2> QED
      BY <2>1, <2>2, <2>3
  <1>4. termination' \in [Termination -> Ladder] /\ LaddersAsked'
    BY DEF SpawnsTypeOK, Ladder, IdleLadder, LaddersAsked
  <1>5. SpawnsTypeOK'
    BY <1>2, <1>3, <1>4 DEF SpawnsTypeOK
  <1> HIDE DEF SetStatus, SetGone, SetLeft, Answer, Disconnected, Decide, Exited
  <1>6. LiveRowsNameAgent' /\ Forgotten' /\ ProcessesHaveRows'
    BY <1>2, <1>3 DEF LiveRowsNameAgent, Forgotten, ProcessesHaveRows, LiveRow, SpawnsTypeOK, Row
  <1>7. LivingIsSpared'
    BY <1>1, <1>2, <1>3 DEF LivingIsSpared
  <1>8. CandidatesKnown'
    BY <1>2, <1>3 DEF CandidatesKnown, SpawnsTypeOK, Reconcile
  <1> QED
    BY <1>4, <1>5, <1>6, <1>7, <1>8

-----------------------------------------------------------------------------
\* The reconciliation reads the rows, and then the processes.
LEMMA ReconciliationLooks ==
    ASSUME SpawnsInv, ReconcileReads \/ ReconcileLooks
    PROVE  SpawnsInv'
  <1> USE DEF SpawnsInv
  <1>1. UNCHANGED <<rows, process, activeSpawns, registered, connections, posting, termination,
                    asked, end, restarts>>
    BY DEF ReconcileReads, ReconcileLooks
  <1>2. reconcile' \in Reconcile /\ CandidatesKnown'
    <2>1. CASE ReconcileReads
      BY <2>1, <1>1 DEF ReconcileReads, SpawnsTypeOK, Reconcile, CandidatesKnown, LiveRow
    <2>2. CASE ReconcileLooks
      <3>1. PICK listing \in Listings :
                reconcile' = [reconcile EXCEPT !.pc = "looked", !.processes = listing]
        BY <2>2 DEF ReconcileLooks
      <3>2. listing \in Listing
        BY ListingsTyped
      <3>3. listing.available => listing.seen = {s \in Spawn : Alive(s)}
        BY DEF Listings, NoListing
      <3>4. reconcile' \in Reconcile
        BY <3>1, <3>2 DEF SpawnsTypeOK, Reconcile
      <3>5. /\ reconcile'.candidates = reconcile.candidates
            /\ reconcile'.processes = listing
            /\ reconcile.candidates \subseteq Spawn
        BY <3>1 DEF SpawnsTypeOK, Reconcile
      <3>6. CandidatesKnown'
        BY <1>1, <3>3, <3>5 DEF CandidatesKnown, Alive
      <3> QED
        BY <3>4, <3>6
    <2> QED
      BY <2>1, <2>2
  <1>3. SpawnsTypeOK'
    BY <1>1, <1>2 DEF SpawnsTypeOK
  <1>4. LiveRowsNameAgent' /\ Forgotten' /\ ProcessesHaveRows' /\ LivingIsSpared' /\ LaddersAsked'
    BY <1>1 DEF LiveRowsNameAgent, Forgotten, ProcessesHaveRows, LivingIsSpared, LaddersAsked, LiveRow, Alive
  <1> QED
    BY <1>2, <1>3, <1>4

\* The spawns it takes for lost are dead.
LEMMA ReconciliationWrites ==
    ASSUME SpawnsInv, ReconcileDowngrades
    PROVE  SpawnsInv'
  <1> USE DEF SpawnsInv
  <1>1. PICK heard \in SUBSET registered :
            Downgrade({s \in reconcile.candidates :
                         reconcile.processes.available /\ ~Reachable(s, heard)
                            /\ s \notin reconcile.processes.seen})
    BY DEF ReconcileDowngrades
  <1> DEFINE gone == {s \in reconcile.candidates :
                        reconcile.processes.available /\ ~Reachable(s, heard)
                           /\ s \notin reconcile.processes.seen}
  <1>2. gone \subseteq Spawn /\ \A s \in gone : ~Alive(s)
    BY <1>1 DEF Downgrade, CandidatesKnown, SpawnsTypeOK, Reconcile
  <1>3. Downgrade(gone)
    BY <1>1
  <1> HIDE DEF gone
  <1>4. SpawnsTypeOK'
    BY <1>2, <1>3 DEF Downgrade, Unregister, SpawnsTypeOK, Row, Reconcile, DueReconcile,
                      NoListing, Listing
  <1>5. LiveRowsNameAgent' /\ Forgotten' /\ ProcessesHaveRows' /\ LaddersAsked' /\ CandidatesKnown'
    BY <1>2, <1>3 DEF Downgrade, LiveRowsNameAgent, Forgotten, ProcessesHaveRows, LaddersAsked, CandidatesKnown,
                      LiveRow, DueReconcile, SpawnsTypeOK
  <1>6. LivingIsSpared'
    BY <1>2, <1>3 DEF Downgrade, LivingIsSpared, Alive, SpawnsTypeOK
  <1> QED
    BY <1>4, <1>5, <1>6

\* The beacon starts again, perhaps with a row it could not mark as failed.
LEMMA BeaconRestarts ==
    ASSUME SpawnsInv, BeaconRestart \/ \E s \in Spawn : RefusedHalfway(s)
    PROVE  SpawnsInv'
  <1> USE SpawnsAssumption DEF SpawnsInv, Restarted
  <1>1. Restarted /\ \A r \in Spawn : process'[r] # "none" => process[r] # "none"
    BY DEF BeaconRestart, RefusedHalfway, SpawnsTypeOK
  <1>2. /\ rows' \in [Spawn -> Row]
        /\ \A r \in Spawn : \/ rows'[r] = rows[r]
                            \/ /\ rows[r] = NoRow /\ process'[r] = "none"
                               /\ rows'[r] = [status |-> "spawning", agent |-> FALSE]
    <2>1. CASE BeaconRestart
      BY <2>1 DEF BeaconRestart, SpawnsTypeOK
    <2>2. CASE \E s \in Spawn : RefusedHalfway(s)
      <3>1. PICK s \in Spawn : RefusedHalfway(s)
        BY <2>2
      <3>2. process'[s] = "none"
        BY <3>1, <1>1 DEF RefusedHalfway, ProcessesHaveRows, NoRow
      <3> QED
        BY <3>1, <3>2 DEF RefusedHalfway, SpawnsTypeOK, Row
    <2> QED
      BY <2>1, <2>2
  <1>3. SpawnsTypeOK'
    BY <1>1, <1>2 DEF SpawnsTypeOK, Reconcile, DueReconcile, NoListing, Listing, Ladder, IdleLadder
  <1>4. LiveRowsNameAgent' /\ Forgotten' /\ ProcessesHaveRows'
    BY <1>1, <1>2 DEF Restarted, LiveRowsNameAgent, Forgotten, ProcessesHaveRows, LiveRow, NoRow
  <1>5. LivingIsSpared'
    BY <1>1, <1>2 DEF LivingIsSpared, Alive, SpawnsTypeOK
  <1>6. LaddersAsked' /\ CandidatesKnown'
    BY <1>1 DEF LaddersAsked, CandidatesKnown, IdleLadder, DueReconcile
  <1> QED
    BY <1>3, <1>4, <1>5, <1>6

-----------------------------------------------------------------------------
LEMMA SpawnsStepInv == SpawnsInv /\ [SpawnsNext]_spawns_vars => SpawnsInv'
  <1> SUFFICES ASSUME SpawnsInv, [SpawnsNext]_spawns_vars
               PROVE  SpawnsInv'
    OBVIOUS
  <1>1. CASE \E s \in Spawn : SpawnAgent(s) \/ SpawnThrows(s) \/ SpawnRefused(s)
    BY <1>1, BeaconSpawns
  <1>2. CASE \E s \in Spawn : ChildExit(s) \/ ChildError(s) \/ SpawnTimeout(s)
    BY <1>2, ChildrenEnd
  <1>3. CASE \E s \in Spawn : AgentStep(s)
    BY <1>3, AgentRegisters, AgentLives DEF AgentStep
  <1>4. CASE \E t \in Termination : (\E s \in Spawn : Terminate(t, s)) \/ LadderStep(t)
    BY <1>4, LadderWaits, LadderEnds DEF LadderStep
  <1>5. CASE ReconcileReads \/ ReconcileLooks
    BY <1>5, ReconciliationLooks
  <1>6. CASE ReconcileDowngrades
    BY <1>6, ReconciliationWrites
  <1>7. CASE BeaconRestart \/ \E s \in Spawn : RefusedHalfway(s)
    BY <1>7, BeaconRestarts
  <1>8. CASE UNCHANGED spawns_vars
    BY <1>8 DEF spawns_vars, SpawnsInv, SpawnsTypeOK, LiveRowsNameAgent, Forgotten, ProcessesHaveRows,
                LivingIsSpared, LaddersAsked, CandidatesKnown, LiveRow, Alive
  <1> QED
    BY <1>1, <1>2, <1>3, <1>4, <1>5, <1>6, <1>7, <1>8 DEF SpawnsNext

\* What the beacon keeps about its spawns has its types.
THEOREM SpawnsTypeCorrect == SpawnsSpec => []SpawnsTypeOK
  <1>1. SpawnsInv => SpawnsTypeOK
    BY DEF SpawnsInv
  <1> QED
    BY <1>1, SpawnsInitInv, SpawnsStepInv, PTL DEF SpawnsSpec

\* An end that the beacon records together with forgetting the agent stands,
\* whatever registers, terminates or restarts later (spawner.ts:184-203).
THEOREM EndsAreKept == SpawnsSpec => []EndsStand
  <1>1. SpawnsInv => EndsStand
    BY DEF SpawnsInv, Forgotten, EndsStand, LiveRow
  <1> QED
    BY <1>1, SpawnsInitInv, SpawnsStepInv, PTL DEF SpawnsSpec

\* The reconciliation never takes a living agent for lost, whatever happens
\* between its two reads (spawn-reconcile.ts:75).
THEOREM LivingSpared == SpawnsSpec => []LivingIsSpared
  <1>1. SpawnsInv => LivingIsSpared
    BY DEF SpawnsInv
  <1> QED
    BY <1>1, SpawnsInitInv, SpawnsStepInv, PTL DEF SpawnsSpec

\* A row that may be terminated or reconciled names its agent (spawner.ts:156-163).
THEOREM LiveRowsNamed == SpawnsSpec => []LiveRowsNameAgent
  <1>1. SpawnsInv => LiveRowsNameAgent
    BY DEF SpawnsInv
  <1> QED
    BY <1>1, SpawnsInitInv, SpawnsStepInv, PTL DEF SpawnsSpec
=============================================================================
