----------------------------- MODULE Fragments -----------------------------
(***************************************************************************)
(* Prompt fragments: rows that operators write at a beacon or at the       *)
(* coordinator, and that agents show in their prompts.  The beacon mirrors *)
(* the coordinator's rows with pulls, keeps its own next to them, and      *)
(* tells connected agents of changes: a targeted row by a delta, anything  *)
(* else by sending the whole set again, as on every connect.               *)
(*                                                                         *)
(* Sources: drone-beacon/src/db/fragments.ts, routes/fragments.ts,         *)
(* fragments-sweep.ts, routes/context.ts (triggerCoordinatorSync) and      *)
(* ws-server.ts; drone-coordinator/src/routes/fragments.ts and             *)
(* db/fragments.ts; drone-swarm-common/src/fragments-limits.ts;            *)
(* drone-agent/src/plugins/swarm/fragment-store.ts, fragment-messages.ts.  *)
(*                                                                         *)
(* One beacon.  A frame reaches its agent in order or is lost with its     *)
(* connection.  Phases and layout of prompts are left out.                 *)
(***************************************************************************)
EXTENDS Integers, Sequences, FiniteSets, SequencesExt

CONSTANTS
    Id,
    Reserved,       \* RESERVED_FRAGMENT_IDS
    Agent, Broadcast,
    Content, NoContent,
    MaxBroadcasts,  \* MAX_BROADCAST_FRAGMENTS
    MaxTargeted,    \* MAX_TARGETED_FRAGMENTS_PER_AGENT
    Pull,           \* syncs with the coordinator that may overlap (bound)
    MaxTime,        \* bound
    Expiry,         \* times a writer chooses from, MaxTime + 1 for null
    MaxWrites,      \* bound: writes of operators
    MaxFrames,      \* bound: frames under way to an agent
    MaxFaults       \* bound: lost connections and requests, restarts

ASSUME FragmentsAssumption ==
    /\ Reserved \subseteq Id
    /\ Broadcast \notin Agent
    /\ NoContent \notin Content
    /\ Expiry \subseteq 0..MaxTime + 1
    /\ IsFiniteSet(Id)
    /\ {MaxBroadcasts, MaxTargeted, MaxTime, MaxWrites, MaxFrames, MaxFaults} \subseteq Nat

Target == Agent \cup {Broadcast}
Key == Id \X Target

\* expires: MaxTime + 1 stands for any later time, and for null
Time == 0..MaxTime + 1
Row == [content : Content \cup {NoContent}, scope : {"local", "coordinator"}, expires : Time]
NoRow == [content |-> NoContent, scope |-> "local", expires |-> 0]

VARIABLES
    coordinator,    \* the coordinator's table
    table,          \* the beacon's
    pulls,          \* triggerCoordinatorSync
    link,           \* agents with a connection
    pipe,           \* frames under way to an agent
    store,          \* what an agent shows
    now, writes, faults

fragments_vars == <<coordinator, table, pulls, link, pipe, store, now, writes, faults>>

Table == [Key -> Row]

\* What one agent shows: targeted rows and broadcasts, by id
Shown == [Id \X {"own", "broadcast"} -> Content \cup {NoContent}]
Empty == [k \in Id \X {"own", "broadcast"} |-> NoContent]

\* A resync, or a delta of a targeted row (NoContent: its removal)
Frame == [type : {"fragmentSync"}, fragments : Shown]
            \cup [type : {"fragment"}, id : Id, content : Content \cup {NoContent}]

PullState == [pc : {"idle", "asked", "answered"}, before : Table, rows : Table]

FragmentsTypeOK ==
    /\ coordinator \in Table
    /\ table \in Table
    /\ pulls \in [Pull -> PullState]
    /\ link \subseteq Agent
    /\ pipe \in [Agent -> Seq(Frame)]
    /\ store \in [Agent -> Shown]
    /\ now \in 0..MaxTime
    /\ writes \in 0..MaxWrites
    /\ faults \in 0..MaxFaults

NoTable == [k \in Key |-> NoRow]
IdlePull == [pc |-> "idle", before |-> NoTable, rows |-> NoTable]

FragmentsInit ==
    /\ coordinator = NoTable
    /\ table = NoTable
    /\ pulls = [p \in Pull |-> IdlePull]
    /\ link = {}
    /\ pipe = [a \in Agent |-> <<>>]
    /\ store = [a \in Agent |-> Empty]
    /\ now = 0
    /\ writes = 0
    /\ faults = 0

Exists(t, k) == t[k] # NoRow
Live(t, k) == Exists(t, k) /\ t[k].expires > now

\* The rows mergedContentHash covers
LiveRows(t) == [k \in Key |-> IF Live(t, k) THEN t[k] ELSE NoRow]

\* listMergedForAgent: a targeted row goes before a broadcast of the same id,
\* unless the broadcast is the coordinator's.
Merged(t, a) ==
    LET Wins(i) == /\ Live(t, <<i, Broadcast>>)
                   /\ t[<<i, Broadcast>>].scope = "coordinator" \/ ~Live(t, <<i, a>>)
    IN [k \in Id \X {"own", "broadcast"} |->
          IF k[2] = "broadcast" THEN IF Wins(k[1]) THEN t[<<k[1], Broadcast>>].content ELSE NoContent
          ELSE IF Live(t, <<k[1], a>>) /\ ~Wins(k[1]) THEN t[<<k[1], a>>].content
          ELSE NoContent]

Room == \A a \in link : Len(pipe[a]) < MaxFrames

\* pushFragmentSyncToAllConnected
ResyncAll(t) ==
    pipe' = [a \in Agent |->
               IF a \in link
               THEN Append(pipe[a], [type |-> "fragmentSync", fragments |-> Merged(t, a)])
               ELSE pipe[a]]

\* pushFragmentToAgent, when the target is connected
Delta(k, content) ==
    pipe' = [a \in Agent |->
               IF a \in link /\ a = k[2]
               THEN Append(pipe[a], [type |-> "fragment", id |-> k[1], content |-> content])
               ELSE pipe[a]]

\* validateFragmentUpsert: reserved ids are broadcasts that never expire; others
\* need room, also when they replace a row.
Valid(t, k, expires) ==
    IF k[1] \in Reserved
    THEN k[2] = Broadcast /\ expires = MaxTime + 1
    ELSE Cardinality({i \in Id \ Reserved : Exists(t, <<i, k[2]>>)})
           < IF k[2] = Broadcast THEN MaxBroadcasts ELSE MaxTargeted

Write ==
    /\ writes < MaxWrites
    /\ writes' = writes + 1

-----------------------------------------------------------------------------
\* POST /fragments of the beacon
Upsert(k, content, expires) ==
    /\ Write
    /\ Room
    /\ Valid(table, k, expires)
    /\ table' = [table EXCEPT ![k] = [content |-> content, scope |-> "local", expires |-> expires]]
    /\ IF k[2] = Broadcast THEN ResyncAll(table') ELSE Delta(k, content)
    /\ UNCHANGED <<coordinator, pulls, link, store, now, faults>>

\* DELETE /fragments/:id of the beacon
Delete(k) ==
    /\ Write
    /\ Room
    /\ Exists(table, k)
    /\ table' = [table EXCEPT ![k] = NoRow]
    /\ IF k[2] = Broadcast THEN ResyncAll(table') ELSE Delta(k, NoContent)
    /\ UNCHANGED <<coordinator, pulls, link, store, now, faults>>

\* sweepExpiredFragments: only a targeted row has somebody to be told.
Sweep ==
    LET gone == {k \in Key : Exists(table, k) /\ ~Live(table, k)}
        Removals(a) == {[type |-> "fragment", id |-> i, content |-> NoContent] :
                           i \in {j \in Id : <<j, a>> \in gone}}
    IN /\ gone # {}
       /\ Room
       /\ table' = [k \in Key |-> IF k \in gone THEN NoRow ELSE table[k]]
       /\ pipe' = [a \in Agent |-> IF a \in link THEN pipe[a] \o SetToSeq(Removals(a)) ELSE pipe[a]]
       /\ UNCHANGED <<coordinator, pulls, link, store, now, writes, faults>>

\* PUT and DELETE /fragments/:id of the coordinator; the nudge they send makes
\* the beacon pull, which it may do at any time anyway.
Put(k, content, expires) ==
    /\ Write
    /\ Valid(coordinator, k, expires)
    /\ coordinator' = [coordinator EXCEPT ![k] =
                         [content |-> content, scope |-> "coordinator", expires |-> expires]]
    /\ UNCHANGED <<table, pulls, link, pipe, store, now, faults>>

Withdraw(k) ==
    /\ Write
    /\ Exists(coordinator, k)
    /\ coordinator' = [coordinator EXCEPT ![k] = NoRow]
    /\ UNCHANGED <<table, pulls, link, pipe, store, now, faults>>

-----------------------------------------------------------------------------
\* Mutant of StartPull: the beacon stops asking once it has rows of the
\* coordinator.
StartPullUntilSynced(p) ==
    /\ pulls[p].pc = "idle"
    /\ \A k \in Key : table[k].scope = "local"
    /\ pulls' = [pulls EXCEPT ![p] = [pc |-> "asked", before |-> LiveRows(table), rows |-> NoTable]]
    /\ UNCHANGED <<coordinator, table, link, pipe, store, now, writes, faults>>

\* triggerCoordinatorSync: the periodic sync, a nudge, or POST /context/sync.
\* The hash to compare with is taken before the request.
StartPull(p) ==
    /\ pulls[p].pc = "idle"
    /\ pulls' = [pulls EXCEPT ![p] = [pc |-> "asked", before |-> LiveRows(table), rows |-> NoTable]]
    /\ UNCHANGED <<coordinator, table, link, pipe, store, now, writes, faults>>

\* GET /fragments of the coordinator
ServePull(p) ==
    /\ pulls[p].pc = "asked"
    /\ pulls' = [pulls EXCEPT ![p].pc = "answered", ![p].rows = coordinator]
    /\ UNCHANGED <<coordinator, table, link, pipe, store, now, writes, faults>>

\* replaceCoordinatorFragments
Replaced(t, rows) ==
    [k \in Key |-> IF Exists(rows, k) THEN rows[k]
                   ELSE IF t[k].scope = "coordinator" THEN NoRow
                   ELSE t[k]]

\* The hash covers the time a row was written, which is new for every row of
\* the coordinator.
Changed(before, t) ==
    \/ LiveRows(t) # before
    \/ \E k \in Key : Live(t, k) /\ t[k].scope = "coordinator"

ApplyPull(p) ==
    LET t == Replaced(table, pulls[p].rows) IN
    /\ pulls[p].pc = "answered"
    /\ Room
    /\ table' = t
    /\ IF Changed(pulls[p].before, t) THEN ResyncAll(t) ELSE UNCHANGED pipe
    /\ pulls' = [pulls EXCEPT ![p] = IdlePull]
    /\ UNCHANGED <<coordinator, link, store, now, writes, faults>>

-----------------------------------------------------------------------------
Fault ==
    /\ faults < MaxFaults
    /\ faults' = faults + 1

\* Mutant of FailPull: a failed sync is not tried again.
FailPullForGood(p) ==
    /\ Fault
    /\ pulls[p].pc # "idle"
    /\ pulls' = [pulls EXCEPT ![p].pc = "failed"]
    /\ UNCHANGED <<coordinator, table, link, pipe, store, now, writes>>

FailPull(p) ==
    /\ Fault
    /\ pulls[p].pc # "idle"
    /\ pulls' = [pulls EXCEPT ![p] = IdlePull]
    /\ UNCHANGED <<coordinator, table, link, pipe, store, now, writes>>

\* Mutant of Connect: a connection that only gets what changes from then on.
ConnectUnsynced(a) ==
    /\ a \notin link
    /\ link' = link \cup {a}
    /\ UNCHANGED <<coordinator, table, pulls, pipe, store, now, writes, faults>>

\* A connection opens, and the whole set is sent (ws-server.ts, GET /ws).
Connect(a) ==
    /\ a \notin link
    /\ link' = link \cup {a}
    /\ pipe' = [pipe EXCEPT ![a] = <<[type |-> "fragmentSync", fragments |-> Merged(table, a)]>>]
    /\ UNCHANGED <<coordinator, table, pulls, store, now, writes, faults>>

Disconnect(a) ==
    /\ Fault
    /\ a \in link
    /\ link' = link \ {a}
    /\ pipe' = [pipe EXCEPT ![a] = <<>>]
    /\ UNCHANGED <<coordinator, table, pulls, store, now, writes>>

\* The beacon's table is on disk, its syncs and connections are not.
BeaconRestart ==
    /\ Fault
    /\ pulls' = [p \in Pull |-> IdlePull]
    /\ link' = {}
    /\ pipe' = [a \in Agent |-> <<>>]
    /\ UNCHANGED <<coordinator, table, store, now, writes>>

\* handleFragmentMessage, handleFragmentSyncMessage: a delta is of a targeted row.
Receive(a) ==
    /\ pipe[a] # <<>>
    /\ pipe' = [pipe EXCEPT ![a] = Tail(@)]
    /\ LET f == Head(pipe[a]) IN
       store' = [store EXCEPT ![a] = IF f.type = "fragmentSync" THEN f.fragments
                                     ELSE [store[a] EXCEPT ![<<f.id, "own">>] = f.content]]
    /\ UNCHANGED <<coordinator, table, pulls, link, now, writes, faults>>

FragmentsTick ==
    /\ now < MaxTime
    /\ now' = now + 1
    /\ UNCHANGED <<coordinator, table, pulls, link, pipe, store, writes, faults>>

-----------------------------------------------------------------------------
FragmentsNext ==
    \/ \E k \in Key, c \in Content, e \in Expiry : Upsert(k, c, e)
    \/ \E k \in Key : Delete(k)
    \/ \E k \in Key, c \in Content, e \in Expiry : Put(k, c, e)
    \/ \E k \in Key : Withdraw(k)
    \/ \E p \in Pull : StartPull(p) \/ ServePull(p) \/ ApplyPull(p) \/ FailPull(p)
    \/ \E a \in Agent : Connect(a) \/ Disconnect(a) \/ Receive(a)
    \/ Sweep
    \/ BeaconRestart
    \/ FragmentsTick

FragmentsSpec == FragmentsInit /\ [][FragmentsNext]_fragments_vars

\* The periodic sync repeats, the coordinator answers, frames are delivered and
\* an agent reconnects; MaxFaults bounds the failures.
FairFragmentsSpec ==
    /\ FragmentsSpec
    /\ \A p \in Pull : /\ WF_fragments_vars(StartPull(p))
                       /\ WF_fragments_vars(ServePull(p))
                       /\ WF_fragments_vars(ApplyPull(p))
    /\ \A a \in Agent : WF_fragments_vars(Connect(a)) /\ WF_fragments_vars(Receive(a))

-----------------------------------------------------------------------------
\* An agent that has read all its beacon sent shows every live row written for
\* it, unless it shows a broadcast of the same id instead: deltas, resyncs, the
\* sweep and the pulls of the coordinator never leave one out (ws-server.ts,
\* routes/fragments.ts, db/fragments.ts listMergedForAgent).
TargetedShown ==
    \A a \in link, i \in Id :
        /\ pipe[a] = <<>>
        /\ Live(table, <<i, a>>)
        /\ store[a][<<i, "broadcast">>] = NoContent
        => store[a][<<i, "own">>] = table[<<i, a>>].content

\* What the coordinator broadcasts from some time on, every agent comes to show
\* again and again, whatever was lost and whichever pulls overlapped
\* (triggerCoordinatorSync, replaceCoordinatorFragments).
CoordinatorReaches ==
    \A i \in Id, c \in Content :
        <>[](Live(coordinator, <<i, Broadcast>>) /\ coordinator[<<i, Broadcast>>].content = c)
        => \A a \in Agent : []<>(store[a][<<i, "broadcast">>] = c)

\* An agent that has read all its beacon sent shows only rows the beacon has:
\* a pull that takes a row away resyncs the agents ("fan out a resync to
\* connected agents when the merged set changed", routes/context.ts:251).
ShownIsHeld ==
    \A a \in link, i \in Id :
        pipe[a] = <<>> =>
            /\ store[a][<<i, "own">>] # NoContent => Exists(table, <<i, a>>)
            /\ store[a][<<i, "broadcast">>] # NoContent => Exists(table, <<i, Broadcast>>)

=============================================================================
