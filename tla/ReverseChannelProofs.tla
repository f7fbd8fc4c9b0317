------------------------ MODULE ReverseChannelProofs ------------------------
(***************************************************************************)
(* Proofs about ReverseChannel, for any number of beacons, sockets and     *)
(* commands.                                                               *)
(*                                                                         *)
(* The invariant has two halves that do not need each other: who owns      *)
(* which end of which socket (SocketsKnown), and where a command is        *)
(* (CommandsKnown).  The second also gives the refinement of SpawnTrigger. *)
(***************************************************************************)
EXTENDS ReverseChannel, TLAPS

\* A beacon's socket is its own and open or being dialled; an end that is not
\* closed belongs to some beacon.
SocketsKnown ==
    /\ \A b \in Beacon : ws[b] # NoSocket =>
          sock[ws[b]].owner = b /\ sock[ws[b]].beacon # "closed"
    /\ \A s \in Socket :
          sock[s].beacon # "closed" \/ sock[s].coord # "closed" => sock[s].owner \in Beacon

\* The command may still make the beacon spawn an agent.
Handling(t) == cmd[t].request # NoSocket \/ cmd[t].running

\* Request, handler and response follow each other, ...
InOrder(t) ==
    /\ cmd[t].running => cmd[t].request = NoSocket
    /\ cmd[t].response # NoSocket => ~Handling(t)
    /\ cmd[t].state = "unsent" =>
          ~Handling(t) /\ cmd[t].response = NoSocket /\ spawns[t] = 0
    /\ Handling(t) => cmd[t].to \in Beacon

\* ... the handler and the fallback spawn at most once each, and what was refused
\* was not spawned.
Spawned(t) ==
    /\ cmd[t].state \in {"pending", "rejected"} =>
          spawns[t] <= 1 /\ (Handling(t) => spawns[t] = 0)
    /\ Handling(t) => spawns[t] <= 1
    /\ cmd[t].state = "pending" /\ cmd[t].response # NoSocket /\ ~cmd[t].ok => spawns[t] = 0
    /\ cmd[t].state = "confirmed" => spawns[t] <= 1 /\ ~Handling(t)
    /\ cmd[t].state = "refused" => spawns[t] = 0 /\ ~Handling(t)

CommandsKnown == \A t \in Trigger : InOrder(t) /\ Spawned(t)

ChannelInv ==
    ChannelTypeOK /\ OneSocketPerBeacon /\ EntryIsOpen /\ SocketsKnown /\ CommandsKnown

SocketsInv == OneSocketPerBeacon /\ EntryIsOpen /\ SocketsKnown

LEMMA ChannelInitInv == ChannelInit => ChannelInv
  BY ChannelAssumption
     DEF ChannelInit, ChannelInv, ChannelTypeOK, OneSocketPerBeacon, EntryIsOpen,
         SocketsKnown, CommandsKnown, InOrder, Spawned, Handling, FreeSocket, Unsent,
         Connection, Command

-----------------------------------------------------------------------------
\* What the helpers of the module return.
LEMMA LoseTrafficTyped ==
    ASSUME ChannelTypeOK, NEW S
    PROVE  /\ LoseTraffic(S) \in [Trigger -> Command]
           /\ \A t \in Trigger :
                /\ LoseTraffic(S)[t].to = cmd[t].to
                /\ LoseTraffic(S)[t].state = cmd[t].state
                /\ LoseTraffic(S)[t].running = cmd[t].running
                /\ LoseTraffic(S)[t].ok = cmd[t].ok
                /\ LoseTraffic(S)[t].request \in {cmd[t].request, NoSocket}
                /\ LoseTraffic(S)[t].response \in {cmd[t].response, NoSocket}
  <1>1. ASSUME NEW t \in Trigger
        PROVE  /\ cmd[t] \in Command
               /\ LoseTraffic(S)[t] = [cmd[t] EXCEPT
                    !.request = IF cmd[t].request \in S THEN NoSocket ELSE cmd[t].request,
                    !.response = IF cmd[t].response \in S THEN NoSocket ELSE cmd[t].response]
    BY DEF LoseTraffic, ChannelTypeOK
  <1>2. ASSUME NEW t \in Trigger
        PROVE  LoseTraffic(S)[t] \in Command
    BY <1>1 DEF Command
  <1>3. LoseTraffic(S) \in [Trigger -> Command]
    BY <1>2 DEF LoseTraffic
  <1>4. ASSUME NEW t \in Trigger
        PROVE  /\ LoseTraffic(S)[t].to = cmd[t].to
               /\ LoseTraffic(S)[t].state = cmd[t].state
               /\ LoseTraffic(S)[t].running = cmd[t].running
               /\ LoseTraffic(S)[t].ok = cmd[t].ok
               /\ LoseTraffic(S)[t].request \in {cmd[t].request, NoSocket}
               /\ LoseTraffic(S)[t].response \in {cmd[t].response, NoSocket}
    BY <1>1 DEF Command
  <1> QED BY <1>3, <1>4

LEMMA EndsTyped ==
    ASSUME ChannelTypeOK, NEW s \in Socket
    PROVE  /\ BeaconEndClosed(s) \in Connection
           /\ CoordEndClosed(s) \in Connection
           /\ BeaconEndClosed(s).beacon = "closed"
           /\ BeaconEndClosed(s).coord = sock[s].coord
           /\ sock[s].coord # "closed" => BeaconEndClosed(s).owner = sock[s].owner
           /\ CoordEndClosed(s).coord = "closed"
           /\ CoordEndClosed(s).beacon = sock[s].beacon
           /\ sock[s].beacon # "closed" => CoordEndClosed(s).owner = sock[s].owner
  BY DEF BeaconEndClosed, CoordEndClosed, FreeSocket, ChannelTypeOK, Connection

\* Losing traffic leaves a command with less that can happen to it.
LEMMA TrafficLost ==
    ASSUME ChannelInv, NEW S, cmd' = LoseTraffic(S), UNCHANGED spawns
    PROVE  CommandsKnown' /\ cmd' \in [Trigger -> Command]
  <1>1. ChannelTypeOK /\ CommandsKnown
    BY DEF ChannelInv
  <1> QED BY <1>1, LoseTrafficTyped
      DEF CommandsKnown, InOrder, Spawned, Handling

\* What a step that touches no command leaves.
LEMMA CommandsKept ==
    ASSUME ChannelInv, UNCHANGED <<cmd, spawns>>
    PROVE  CommandsKnown'
  BY DEF ChannelInv, CommandsKnown, InOrder, Spawned, Handling

LEMMA SocketsKept ==
    ASSUME ChannelInv, UNCHANGED <<ws, timer, sock, entry>>
    PROVE  SocketsInv'
  BY DEF ChannelInv, SocketsInv, OneSocketPerBeacon, EntryIsOpen, SocketsKnown

-----------------------------------------------------------------------------
\* The beacon's end
LEMMA ConnectInv ==
    ASSUME ChannelInv, NEW b \in Beacon, Connect(b)
    PROVE  ChannelInv'
  <1> USE ChannelAssumption
  <1>1. PICK s \in Free :
          /\ sock' = [sock EXCEPT ![s] = [FreeSocket EXCEPT !.owner = b, !.beacon = "dialing"]]
          /\ ws' = [ws EXCEPT ![b] = s]
    BY DEF Connect
  <1>2. timer[b] /\ timer' = [timer EXCEPT ![b] = FALSE] /\ UNCHANGED <<entry, cmd, spawns>>
    BY DEF Connect
  <1>3. s \in Socket /\ sock[s].owner = NoBeacon
    BY <1>1 DEF Free
  <1>4. ChannelTypeOK'
    BY <1>1, <1>2, <1>3 DEF ChannelInv, ChannelTypeOK, FreeSocket, Connection
  <1>5. \A c \in Beacon : ws[c] # s /\ entry[c] # s
    BY <1>3 DEF ChannelInv, ChannelTypeOK, SocketsKnown, EntryIsOpen
  <1>6. /\ sock'[s].owner = b /\ sock'[s].beacon = "dialing" /\ sock'[s].coord = "closed"
        /\ \A r \in Socket \ {s} : sock'[r] = sock[r]
        /\ ws'[b] = s /\ \A c \in Beacon \ {b} : ws'[c] = ws[c]
        /\ ~timer'[b] /\ \A c \in Beacon \ {b} : timer'[c] = timer[c]
    BY <1>1, <1>2, <1>3 DEF ChannelInv, ChannelTypeOK, FreeSocket
  <1>7. ws[b] = NoSocket
    BY <1>2 DEF ChannelInv, OneSocketPerBeacon
  <1>8. OneSocketPerBeacon'
    BY <1>3, <1>5, <1>6, <1>7 DEF ChannelInv, ChannelTypeOK, OneSocketPerBeacon, SocketsKnown
  <1>9. EntryIsOpen'
    BY <1>2, <1>3, <1>5, <1>6 DEF ChannelInv, ChannelTypeOK, EntryIsOpen
  <1>10. SocketsKnown'
    BY <1>3, <1>5, <1>6 DEF ChannelInv, ChannelTypeOK, SocketsKnown
  <1>11. CommandsKnown'
    BY <1>2, CommandsKept
  <1> QED BY <1>4, <1>8, <1>9, <1>10, <1>11 DEF ChannelInv

\* The beacon's end of its socket closes, whatever becomes of the commands.
LEMMA BeaconEndInv ==
    ASSUME ChannelInv, NEW b \in Beacon, NEW s \in Socket, ws[b] = s,
           ws' = [ws EXCEPT ![b] = NoSocket],
           timer' = [timer EXCEPT ![b] = TRUE],
           sock' = [sock EXCEPT ![s] = BeaconEndClosed(s)],
           UNCHANGED <<entry, spawns>>
    PROVE  /\ SocketsInv'
           /\ ws' \in [Beacon -> Socket \cup {NoSocket}]
           /\ timer' \in [Beacon -> BOOLEAN]
           /\ sock' \in [Socket -> Connection]
  <1> USE ChannelAssumption
  <1>1. ChannelTypeOK /\ sock[s].owner = b
    BY DEF ChannelInv, SocketsKnown
  <1>2. /\ sock'[s].beacon = "closed"
        /\ sock'[s].coord = sock[s].coord
        /\ sock[s].coord # "closed" => sock'[s].owner = b
        /\ \A r \in Socket \ {s} : sock'[r] = sock[r]
        /\ ws'[b] = NoSocket /\ \A c \in Beacon \ {b} : ws'[c] = ws[c]
        /\ timer'[b] /\ \A c \in Beacon \ {b} : timer'[c] = timer[c]
    BY <1>1, EndsTyped DEF ChannelTypeOK
  <1>3. \A c \in Beacon \ {b} : ws[c] # s
    BY <1>1 DEF ChannelInv, SocketsKnown
  <1>4. OneSocketPerBeacon'
    BY <1>1, <1>2, <1>3 DEF ChannelInv, ChannelTypeOK, OneSocketPerBeacon, SocketsKnown
  <1>5. EntryIsOpen'
    BY <1>1, <1>2 DEF ChannelInv, ChannelTypeOK, EntryIsOpen
  <1>6. SocketsKnown'
    BY <1>1, <1>2, <1>3 DEF ChannelInv, ChannelTypeOK, SocketsKnown
  <1> QED BY <1>1, <1>4, <1>5, <1>6, EndsTyped DEF SocketsInv, ChannelTypeOK

LEMMA BeaconCloseInv ==
    ASSUME ChannelInv, NEW s \in Socket, BeaconClose(s)
    PROVE  ChannelInv'
  <1> DEFINE b == sock[s].owner
  <1>1. b \in Beacon /\ ws[b] = s
    BY DEF ChannelInv, BeaconClose, SocketsKnown, OneSocketPerBeacon
  <1>2. /\ ws' = [ws EXCEPT ![b] = NoSocket]
        /\ timer' = [timer EXCEPT ![b] = TRUE]
        /\ sock' = [sock EXCEPT ![s] = BeaconEndClosed(s)]
        /\ cmd' = LoseTraffic({s})
        /\ UNCHANGED <<entry, spawns>>
    BY DEF BeaconClose
  <1> HIDE DEF b
  <1> QED BY <1>1, <1>2, BeaconEndInv, TrafficLost DEF ChannelInv, ChannelTypeOK, SocketsInv

LEMMA BeaconRestartInv ==
    ASSUME ChannelInv, NEW b \in Beacon, BeaconRestart(b)
    PROVE  ChannelInv'
  <1>1. PICK s \in Socket : ws[b] = s /\ sock' = [sock EXCEPT ![s] = BeaconEndClosed(s)]
    BY DEF BeaconRestart
  <1>2. /\ ws' = [ws EXCEPT ![b] = NoSocket]
        /\ timer' = [timer EXCEPT ![b] = TRUE]
        /\ UNCHANGED <<entry, spawns>>
    BY DEF BeaconRestart
  <1> DEFINE L == LoseTraffic({ws[b]})
  <1>3. cmd' = [t \in Trigger |->
                 IF cmd[t].to = b THEN [L[t] EXCEPT !.running = FALSE] ELSE cmd[t]]
    BY DEF BeaconRestart
  <1>4. ChannelTypeOK /\ CommandsKnown
    BY DEF ChannelInv
  <1>5. /\ L \in [Trigger -> Command]
        /\ \A t \in Trigger :
             /\ L[t].state = cmd[t].state
             /\ L[t].ok = cmd[t].ok
             /\ L[t].to = cmd[t].to
             /\ L[t].request \in {cmd[t].request, NoSocket}
             /\ L[t].response \in {cmd[t].response, NoSocket}
    BY <1>4, LoseTrafficTyped
  <1> HIDE DEF L
  <1>6. cmd' \in [Trigger -> Command]
    <2>1. ASSUME NEW t \in Trigger PROVE cmd'[t] \in Command
      <3>1. cmd[t] \in Command /\ L[t] \in Command
        BY <1>4, <1>5 DEF ChannelTypeOK
      <3>2. cmd'[t] = IF cmd[t].to = b THEN [L[t] EXCEPT !.running = FALSE] ELSE cmd[t]
        BY <1>3
      <3>3. [L[t] EXCEPT !.running = FALSE] \in Command
        BY <3>1 DEF Command
      <3> QED BY <3>1, <3>2, <3>3
    <2> QED BY <1>3, <2>1
  <1>7. \A t \in Trigger :
          /\ cmd'[t].state = cmd[t].state
          /\ cmd'[t].ok = cmd[t].ok
          /\ cmd'[t].to = cmd[t].to
          /\ cmd'[t].running => cmd[t].running
          /\ cmd'[t].request \in {cmd[t].request, NoSocket}
          /\ cmd'[t].response \in {cmd[t].response, NoSocket}
    BY <1>3, <1>4, <1>5 DEF ChannelTypeOK, Command
  <1>8. CommandsKnown'
    BY <1>2, <1>4, <1>7 DEF CommandsKnown, InOrder, Spawned, Handling
  <1> QED BY <1>1, <1>2, <1>4, <1>6, <1>8, BeaconEndInv
      DEF ChannelInv, ChannelTypeOK, SocketsInv

-----------------------------------------------------------------------------
\* The coordinator's end
LEMMA AdmitInv ==
    ASSUME ChannelInv, NEW s \in Socket, Admit(s)
    PROVE  ChannelInv'
  <1> USE ChannelAssumption
  <1> DEFINE b == sock[s].owner
  <1>1. sock[s].beacon = "dialing" /\ b \in Beacon
    BY DEF Admit, ChannelInv, SocketsKnown
  <1>2. /\ sock' = [sock EXCEPT ![s] = [@ EXCEPT !.beacon = "open", !.coord = "open",
                                                 !.isAlive = TRUE]]
        /\ entry' = [entry EXCEPT ![b] = s]
        /\ UNCHANGED <<ws, timer, cmd, spawns>>
    BY DEF Admit
  <1>3. ChannelTypeOK'
    BY <1>1, <1>2 DEF ChannelInv, ChannelTypeOK, Connection
  <1>4. /\ sock'[s].owner = b /\ sock'[s].beacon = "open" /\ sock'[s].coord = "open"
        /\ \A r \in Socket \ {s} : sock'[r] = sock[r]
        /\ entry'[b] = s /\ \A c \in Beacon \ {b} : entry'[c] = entry[c]
    BY <1>1, <1>2 DEF ChannelInv, ChannelTypeOK
  <1> HIDE DEF b
  <1>5. sock[s].owner = b
    BY DEF b
  <1>6. OneSocketPerBeacon'
    BY <1>1, <1>2, <1>4, <1>5 DEF ChannelInv, ChannelTypeOK, OneSocketPerBeacon
  <1>7. EntryIsOpen'
    BY <1>1, <1>4, <1>5 DEF ChannelInv, ChannelTypeOK, EntryIsOpen
  <1>8. SocketsKnown'
    BY <1>1, <1>2, <1>4, <1>5 DEF ChannelInv, ChannelTypeOK, SocketsKnown
  <1>9. CommandsKnown'
    BY <1>2, CommandsKept
  <1> QED BY <1>3, <1>6, <1>7, <1>8, <1>9 DEF ChannelInv

\* The coordinator's end of a socket closes, and its owner's entry goes.
LEMMA CoordEndInv ==
    ASSUME ChannelInv, NEW s \in Socket, NEW b \in Beacon,
           sock[s].owner = b,
           sock' = [sock EXCEPT ![s] = CoordEndClosed(s)],
           entry' = [entry EXCEPT ![b] = NoSocket],
           cmd' = LoseTraffic({s}),
           UNCHANGED <<ws, timer, spawns>>
    PROVE  ChannelInv'
  <1> USE ChannelAssumption
  <1>1. ChannelTypeOK
    BY DEF ChannelInv
  <1>2. /\ sock'[s].coord = "closed" /\ sock'[s].beacon = sock[s].beacon
        /\ sock[s].beacon # "closed" => sock'[s].owner = b
        /\ \A r \in Socket \ {s} : sock'[r] = sock[r]
        /\ entry'[b] = NoSocket /\ \A c \in Beacon \ {b} : entry'[c] = entry[c]
    BY <1>1, EndsTyped DEF ChannelTypeOK
  <1>3. ChannelTypeOK'
    BY <1>1, EndsTyped, TrafficLost DEF ChannelTypeOK
  <1>4. \A c \in Beacon \ {b} : entry[c] # s
    BY <1>1 DEF ChannelInv, EntryIsOpen
  <1>5. OneSocketPerBeacon'
    BY <1>1, <1>2 DEF ChannelInv, ChannelTypeOK, OneSocketPerBeacon
  <1>6. EntryIsOpen'
    BY <1>1, <1>2, <1>4 DEF ChannelInv, ChannelTypeOK, EntryIsOpen
  <1>7. SocketsKnown'
    BY <1>1, <1>2 DEF ChannelInv, ChannelTypeOK, SocketsKnown
  <1> QED BY <1>3, <1>5, <1>6, <1>7, TrafficLost DEF ChannelInv

LEMMA CoordCloseInv ==
    ASSUME ChannelInv, NEW s \in Socket, CoordClose(s)
    PROVE  ChannelInv'
  <1>1. sock[s].owner \in Beacon
    BY DEF CoordClose, ChannelInv, SocketsKnown
  <1> QED BY <1>1, CoordEndInv DEF CoordClose

\* Marking a connection, or cutting it, closes no end.
LEMMA MarkedInv ==
    ASSUME ChannelInv, NEW s \in Socket, NEW r,
           sock' = [sock EXCEPT ![s] = r],
           r \in [owner : {sock[s].owner}, beacon : {sock[s].beacon},
                  coord : {sock[s].coord}, cut : BOOLEAN, isAlive : BOOLEAN],
           UNCHANGED <<ws, timer, entry, cmd, spawns>>
    PROVE  ChannelInv'
  <1>1. ChannelTypeOK'
    BY DEF ChannelInv, ChannelTypeOK, Connection
  <1>2. \A q \in Socket : /\ sock'[q].owner = sock[q].owner
                          /\ sock'[q].beacon = sock[q].beacon
                          /\ sock'[q].coord = sock[q].coord
    BY DEF ChannelInv, ChannelTypeOK
  <1>3. OneSocketPerBeacon' /\ EntryIsOpen' /\ SocketsKnown'
    BY <1>2 DEF ChannelInv, ChannelTypeOK, OneSocketPerBeacon, EntryIsOpen, SocketsKnown
  <1> QED BY <1>1, <1>3, CommandsKept DEF ChannelInv

LEMMA SweepInv ==
    ASSUME ChannelInv, NEW b \in Beacon, Sweep(b)
    PROVE  ChannelInv'
  <1> DEFINE s == entry[b]
  <1>1. s \in Socket /\ sock[s].owner = b
    BY DEF Sweep, ChannelInv, ChannelTypeOK, EntryIsOpen
  <1>2. CASE sock[s].isAlive
    <2>1. sock' = [sock EXCEPT ![s].isAlive = FALSE] /\ UNCHANGED <<ws, timer, entry, cmd, spawns>>
      BY <1>2 DEF Sweep
    <2>2. sock' = [sock EXCEPT ![s] = [sock[s] EXCEPT !.isAlive = FALSE]]
      BY <2>1
    <2>3. [sock[s] EXCEPT !.isAlive = FALSE] \in
             [owner : {sock[s].owner}, beacon : {sock[s].beacon},
              coord : {sock[s].coord}, cut : BOOLEAN, isAlive : BOOLEAN]
      <3>1. sock[s] \in Connection
        BY <1>1 DEF ChannelInv, ChannelTypeOK
      <3> HIDE DEF s
      <3> QED BY <3>1 DEF Connection
    <2> HIDE DEF s
    <2> QED BY <1>1, <2>1, <2>2, <2>3, MarkedInv
  <1>3. CASE ~sock[s].isAlive
    <2>1. /\ sock' = [sock EXCEPT ![s] = CoordEndClosed(s)]
          /\ entry' = [entry EXCEPT ![b] = NoSocket]
          /\ cmd' = LoseTraffic({s})
          /\ UNCHANGED <<ws, timer, spawns>>
      BY <1>3 DEF Sweep
    <2> HIDE DEF s
    <2> QED BY <1>1, <2>1, CoordEndInv
  <1> QED BY <1>2, <1>3

LEMMA CoordRestartInv ==
    ASSUME ChannelInv, CoordRestart
    PROVE  ChannelInv'
  <1> USE ChannelAssumption
  <1>1. ChannelTypeOK /\ CommandsKnown
    BY DEF ChannelInv
  <1>2. /\ entry' = [b \in Beacon |-> NoSocket]
        /\ sock' = [s \in Socket |-> CoordEndClosed(s)]
        /\ UNCHANGED <<ws, timer, spawns>>
    BY DEF CoordRestart
  <1> DEFINE L == LoseTraffic({s \in Socket : sock[s].coord = "open"})
  <1>3. cmd' = [t \in Trigger |->
                 [L[t] EXCEPT
                    !.state = IF @ \in {"pending", "rejected"} THEN "settled" ELSE @]]
    BY DEF CoordRestart
  <1>4. /\ L \in [Trigger -> Command]
        /\ \A t \in Trigger :
             /\ L[t].state = cmd[t].state
             /\ L[t].running = cmd[t].running
             /\ L[t].to = cmd[t].to
             /\ L[t].request \in {cmd[t].request, NoSocket}
             /\ L[t].response \in {cmd[t].response, NoSocket}
    BY <1>1, LoseTrafficTyped
  <1> HIDE DEF L
  <1>5. \A s \in Socket : /\ sock'[s].coord = "closed"
                          /\ sock'[s].beacon = sock[s].beacon
                          /\ sock[s].beacon # "closed" => sock'[s].owner = sock[s].owner
    BY <1>1, <1>2, EndsTyped
  <1>6. cmd' \in [Trigger -> Command]
    BY <1>3, <1>4 DEF Command
  <1>7. ChannelTypeOK'
    BY <1>1, <1>2, <1>6, EndsTyped DEF ChannelTypeOK
  <1>8. OneSocketPerBeacon' /\ EntryIsOpen' /\ SocketsKnown'
    BY <1>1, <1>2, <1>5
       DEF ChannelInv, ChannelTypeOK, OneSocketPerBeacon, EntryIsOpen, SocketsKnown
  <1>9. \A t \in Trigger :
          /\ cmd'[t].state \in {cmd[t].state, "settled"}
          /\ cmd'[t].state \notin {"pending", "rejected"}
          /\ cmd'[t].running = cmd[t].running
          /\ cmd'[t].to = cmd[t].to
          /\ cmd'[t].request \in {cmd[t].request, NoSocket}
          /\ cmd'[t].response \in {cmd[t].response, NoSocket}
    BY <1>3, <1>4 DEF Command
  <1>10. CommandsKnown'
    BY <1>1, <1>2, <1>9 DEF CommandsKnown, InOrder, Spawned, Handling
  <1> QED BY <1>7, <1>8, <1>10 DEF ChannelInv

LEMMA PongInv ==
    ASSUME ChannelInv, NEW s \in Socket, Pong(s)
    PROVE  ChannelInv'
  <1>1. sock' = [sock EXCEPT ![s] = [sock[s] EXCEPT !.isAlive = TRUE]]
    BY DEF Pong
  <1>2. [sock[s] EXCEPT !.isAlive = TRUE] \in
           [owner : {sock[s].owner}, beacon : {sock[s].beacon},
            coord : {sock[s].coord}, cut : BOOLEAN, isAlive : BOOLEAN]
    BY DEF ChannelInv, ChannelTypeOK, Connection
  <1> QED BY <1>1, <1>2, MarkedInv DEF Pong

LEMMA CutInv ==
    ASSUME ChannelInv, NEW s \in Socket, Cut(s)
    PROVE  ChannelInv'
  <1>1. sock' = [sock EXCEPT ![s] = [sock[s] EXCEPT !.cut = TRUE]]
    BY DEF Cut
  <1>2. [sock[s] EXCEPT !.cut = TRUE] \in
           [owner : {sock[s].owner}, beacon : {sock[s].beacon},
            coord : {sock[s].coord}, cut : BOOLEAN, isAlive : BOOLEAN]
    BY DEF ChannelInv, ChannelTypeOK, Connection
  <1> QED BY <1>1, <1>2, MarkedInv DEF Cut

-----------------------------------------------------------------------------
\* Commands: a step changes one of them and no socket.
LEMMA OneCommandChanged ==
    ASSUME ChannelInv, NEW t \in Trigger, NEW c \in Command,
           cmd' = [cmd EXCEPT ![t] = c],
           spawns' \in [Trigger -> 0..2],
           \A u \in Trigger \ {t} : spawns'[u] = spawns[u],
           UNCHANGED <<ws, timer, sock, entry>>,
           (InOrder(t) /\ Spawned(t))'
    PROVE  ChannelInv'
  <1>1. ChannelTypeOK'
    BY DEF ChannelInv, ChannelTypeOK
  <1>2. \A u \in Trigger \ {t} : cmd'[u] = cmd[u]
    BY DEF ChannelInv, ChannelTypeOK
  <1>3. \A u \in Trigger \ {t} : (InOrder(u) /\ Spawned(u))'
    BY <1>2 DEF ChannelInv, CommandsKnown, InOrder, Spawned, Handling
  <1>4. SocketsInv'
    BY SocketsKept
  <1> QED BY <1>1, <1>3, <1>4 DEF ChannelInv, CommandsKnown, SocketsInv

LEMMA CommandTyped ==
    ASSUME ChannelInv, NEW t \in Trigger
    PROVE  cmd[t] \in Command /\ spawns[t] \in 0..2 /\ InOrder(t) /\ Spawned(t)
  BY DEF ChannelInv, ChannelTypeOK, CommandsKnown

LEMMA SendCommandInv ==
    ASSUME ChannelInv, NEW t \in Trigger, NEW b \in Beacon, SendCommand(t, b)
    PROVE  ChannelInv'
  <1> DEFINE c == [cmd[t] EXCEPT
                 !.to = b,
                 !.state = IF entry[b] = NoSocket THEN "rejected" ELSE "pending",
                 !.request = entry[b]]
  <1>1. cmd' = [cmd EXCEPT ![t] = c] /\ UNCHANGED <<ws, timer, sock, entry>>
    BY DEF SendCommand
  <1>2. cmd[t] \in Command /\ spawns[t] \in 0..2 /\ InOrder(t) /\ Spawned(t)
    BY CommandTyped
  <1>3. c \in Command
    BY <1>2 DEF SendCommand, ChannelInv, ChannelTypeOK, Command
  <1>4. /\ cmd[t].state = "unsent"
        /\ c.state \in {"rejected", "pending"} /\ ~c.running /\ c.response = NoSocket
        /\ c.to \in Beacon
    BY <1>2 DEF SendCommand, Command, InOrder, Handling
  <1> HIDE DEF c
  <1>5. cmd'[t] = c
    BY <1>1 DEF ChannelInv, ChannelTypeOK
  <1>6. spawns' = spawns /\ spawns \in [Trigger -> 0..2]
    BY DEF SendCommand, ChannelInv, ChannelTypeOK
  <1>7. (InOrder(t) /\ Spawned(t))'
    BY <1>2, <1>4, <1>5, <1>6 DEF InOrder, Spawned, Handling
  <1> QED BY <1>1, <1>3, <1>6, <1>7, OneCommandChanged

LEMMA RejectInv ==
    ASSUME ChannelInv, NEW t \in Trigger, Reject(t)
    PROVE  ChannelInv'
  <1> DEFINE c == [cmd[t] EXCEPT !.state = "rejected"]
  <1>1. cmd' = [cmd EXCEPT ![t] = c] /\ UNCHANGED <<ws, timer, sock, entry>>
    BY DEF Reject
  <1>2. cmd[t] \in Command /\ spawns[t] \in 0..2 /\ InOrder(t) /\ Spawned(t)
    BY CommandTyped
  <1>3. c \in Command
    BY <1>2 DEF Reject, ChannelInv, ChannelTypeOK, Command
  <1>4. /\ cmd[t].state = "pending" /\ c.state = "rejected"
        /\ c.running = cmd[t].running /\ c.to = cmd[t].to
        /\ c.request = cmd[t].request /\ c.response = cmd[t].response
    BY <1>2 DEF Reject, Command, InOrder
  <1> HIDE DEF c
  <1>5. cmd'[t] = c
    BY <1>1 DEF ChannelInv, ChannelTypeOK
  <1>6. spawns' = spawns /\ spawns \in [Trigger -> 0..2]
    BY DEF Reject, ChannelInv, ChannelTypeOK
  <1>7. (InOrder(t) /\ Spawned(t))'
    BY <1>2, <1>4, <1>5, <1>6 DEF InOrder, Spawned, Handling
  <1> QED BY <1>1, <1>3, <1>6, <1>7, OneCommandChanged

LEMMA ReceiveInv ==
    ASSUME ChannelInv, NEW t \in Trigger, Receive(t)
    PROVE  ChannelInv'
  <1> DEFINE c == [cmd[t] EXCEPT !.request = NoSocket, !.running = TRUE]
  <1>1. cmd' = [cmd EXCEPT ![t] = c] /\ UNCHANGED <<ws, timer, sock, entry>>
    BY DEF Receive
  <1>2. cmd[t] \in Command /\ spawns[t] \in 0..2 /\ InOrder(t) /\ Spawned(t)
    BY CommandTyped
  <1>3. c \in Command
    BY <1>2 DEF Receive, ChannelInv, ChannelTypeOK, Command
  <1>4. /\ cmd[t].request # NoSocket
        /\ c.request = NoSocket /\ c.running /\ c.to = cmd[t].to
        /\ c.state = cmd[t].state /\ c.response = cmd[t].response /\ c.ok = cmd[t].ok
    BY <1>2 DEF Receive, Command, InOrder
  <1> HIDE DEF c
  <1>5. cmd'[t] = c
    BY <1>1 DEF ChannelInv, ChannelTypeOK
  <1>6. spawns' = spawns /\ spawns \in [Trigger -> 0..2]
    BY DEF Receive, ChannelInv, ChannelTypeOK
  <1>7. (InOrder(t) /\ Spawned(t))'
    BY <1>2, <1>4, <1>5, <1>6 DEF InOrder, Spawned, Handling
  <1> QED BY <1>1, <1>3, <1>6, <1>7, OneCommandChanged

LEMMA HandledInv ==
    ASSUME ChannelInv, NEW t \in Trigger, NEW ok \in BOOLEAN, Handled(t, ok)
    PROVE  ChannelInv'
  <1> DEFINE r == IF ws[cmd[t].to] # NoSocket /\ sock[ws[cmd[t].to]].beacon = "open"
                  THEN ws[cmd[t].to] ELSE NoSocket
             c == [cmd[t] EXCEPT !.running = FALSE, !.ok = ok, !.response = r]
  <1>1. cmd' = [cmd EXCEPT ![t] = c] /\ UNCHANGED <<ws, timer, sock, entry>>
    BY DEF Handled
  <1>2. cmd[t] \in Command /\ spawns[t] \in 0..2 /\ InOrder(t) /\ Spawned(t)
    BY CommandTyped
  <1>3. c \in Command
    <2>1. cmd[t].to \in Beacon
      BY <1>2 DEF Handled, InOrder, Handling
    <2>2. r \in Socket \cup {NoSocket}
      BY <2>1 DEF ChannelInv, ChannelTypeOK
    <2> HIDE DEF r
    <2> QED BY <1>2, <2>2 DEF Command
  <1>4. /\ cmd[t].running /\ cmd[t].request = NoSocket
        /\ ~c.running /\ c.request = NoSocket /\ c.to = cmd[t].to /\ c.ok = ok /\ c.state = cmd[t].state
    BY <1>2 DEF Handled, Command, InOrder
  <1> HIDE DEF c
  <1>5. cmd'[t] = c
    BY <1>1 DEF ChannelInv, ChannelTypeOK
  <1>6. /\ spawns[t] <= 1
        /\ spawns' = spawns \/ (ok /\ spawns' = [spawns EXCEPT ![t] = @ + 1])
    BY <1>2, <1>4 DEF Handled, Spawned, Handling
  <1>7. /\ spawns' \in [Trigger -> 0..2]
        /\ \A u \in Trigger \ {t} : spawns'[u] = spawns[u]
        /\ spawns'[t] = spawns[t] \/ (ok /\ spawns'[t] = spawns[t] + 1)
    BY <1>2, <1>6 DEF ChannelInv, ChannelTypeOK
  <1>8. (InOrder(t) /\ Spawned(t))'
    BY <1>2, <1>4, <1>5, <1>7 DEF InOrder, Spawned, Handling
  <1> QED BY <1>1, <1>3, <1>6, <1>7, <1>8, OneCommandChanged

LEMMA ResponseInv ==
    ASSUME ChannelInv, NEW t \in Trigger, Response(t)
    PROVE  ChannelInv'
  <1> DEFINE c == [cmd[t] EXCEPT
                 !.response = NoSocket,
                 !.state = IF cmd[t].state # "pending" THEN cmd[t].state
                           ELSE IF cmd[t].ok THEN "confirmed" ELSE "refused"]
  <1>1. cmd' = [cmd EXCEPT ![t] = c] /\ UNCHANGED <<ws, timer, sock, entry>>
    BY DEF Response
  <1>2. cmd[t] \in Command /\ spawns[t] \in 0..2 /\ InOrder(t) /\ Spawned(t)
    BY CommandTyped
  <1>3. c \in Command
    BY <1>2 DEF Response, ChannelInv, ChannelTypeOK, Command
  <1>4. /\ cmd[t].response # NoSocket /\ c.response = NoSocket
        /\ c.running = cmd[t].running /\ c.request = cmd[t].request /\ c.to = cmd[t].to
        /\ \/ c.state = cmd[t].state
           \/ cmd[t].state = "pending" /\ cmd[t].ok /\ c.state = "confirmed"
           \/ cmd[t].state = "pending" /\ ~cmd[t].ok /\ c.state = "refused"
    BY <1>2 DEF Response, Command, InOrder
  <1> HIDE DEF c
  <1>5. cmd'[t] = c
    BY <1>1 DEF ChannelInv, ChannelTypeOK
  <1>6. spawns' = spawns /\ spawns \in [Trigger -> 0..2]
    BY DEF Response, ChannelInv, ChannelTypeOK
  <1>7. (InOrder(t) /\ Spawned(t))'
    BY <1>2, <1>4, <1>5, <1>6 DEF InOrder, Spawned, Handling
  <1> QED BY <1>1, <1>3, <1>6, <1>7, OneCommandChanged

LEMMA FallbackInv ==
    ASSUME ChannelInv, NEW t \in Trigger, Fallback(t)
    PROVE  ChannelInv'
  <1> DEFINE c == [cmd[t] EXCEPT !.state = "settled"]
  <1>1. cmd' = [cmd EXCEPT ![t] = c] /\ UNCHANGED <<ws, timer, sock, entry>>
    BY DEF Fallback
  <1>2. cmd[t] \in Command /\ spawns[t] \in 0..2 /\ InOrder(t) /\ Spawned(t)
    BY CommandTyped
  <1>3. c \in Command
    BY <1>2 DEF Fallback, ChannelInv, ChannelTypeOK, Command
  <1>4. /\ cmd[t].state = "rejected" /\ c.state = "settled"
        /\ c.running = cmd[t].running /\ c.to = cmd[t].to
        /\ c.request = cmd[t].request /\ c.response = cmd[t].response
    BY <1>2 DEF Fallback, Command, InOrder
  <1> HIDE DEF c
  <1>5. cmd'[t] = c
    BY <1>1 DEF ChannelInv, ChannelTypeOK
  <1>6. spawns[t] <= 1 /\ spawns' \in {spawns, [spawns EXCEPT ![t] = @ + 1]}
    BY <1>2, <1>4 DEF Fallback, Spawned
  <1>7. /\ spawns' \in [Trigger -> 0..2]
        /\ \A u \in Trigger \ {t} : spawns'[u] = spawns[u]
        /\ spawns'[t] \in {spawns[t], spawns[t] + 1}
    BY <1>2, <1>6 DEF ChannelInv, ChannelTypeOK
  <1>8. (InOrder(t) /\ Spawned(t))'
    BY <1>2, <1>4, <1>5, <1>7 DEF InOrder, Spawned, Handling
  <1> QED BY <1>1, <1>3, <1>6, <1>7, <1>8, OneCommandChanged

LEMMA CommandStepInv ==
    ASSUME ChannelInv, NEW t \in Trigger, CommandStep(t)
    PROVE  ChannelInv'
  BY SendCommandInv, RejectInv, ReceiveInv, HandledInv, ResponseInv, FallbackInv
     DEF CommandStep

-----------------------------------------------------------------------------
LEMMA ChannelInvariant == ChannelSpec => []ChannelInv
  <1>1. ChannelInv /\ [ChannelNext]_channel_vars => ChannelInv'
    <2> SUFFICES ASSUME ChannelInv, [ChannelNext]_channel_vars PROVE ChannelInv'
      OBVIOUS
    <2>1. ASSUME NEW b \in Beacon, Connect(b) \/ BeaconRestart(b) \/ Sweep(b)
          PROVE  ChannelInv'
      BY <2>1, ConnectInv, BeaconRestartInv, SweepInv
    <2>2. CASE CoordRestart
      BY <2>2, CoordRestartInv
    <2>3. ASSUME NEW s \in Socket, SocketStep(s)
          PROVE  ChannelInv'
      BY <2>3, BeaconCloseInv, AdmitInv, CoordCloseInv, PongInv, CutInv DEF SocketStep
    <2>4. ASSUME NEW t \in Trigger, CommandStep(t)
          PROVE  ChannelInv'
      BY <2>4, CommandStepInv
    <2>5. CASE UNCHANGED channel_vars
      <3>1. UNCHANGED <<ws, timer, sock, entry, cmd, spawns>>
        BY <2>5 DEF channel_vars
      <3>2. ChannelTypeOK'
        BY <3>1 DEF ChannelInv, ChannelTypeOK
      <3> QED BY <3>1, <3>2, SocketsKept, CommandsKept DEF ChannelInv, SocketsInv
    <2> QED BY <2>1, <2>2, <2>3, <2>4, <2>5 DEF ChannelNext
  <1> QED BY <1>1, ChannelInitInv, PTL DEF ChannelSpec

(* Beacons, sockets, the map and the commands keep their types; in particular *)
(* no trigger spawns more than two agents.                                    *)
THEOREM ChannelTypeCorrect == ChannelSpec => []ChannelTypeOK
  <1>1. ChannelInv => ChannelTypeOK
    BY DEF ChannelInv
  <1> QED BY <1>1, ChannelInvariant, PTL

(* Whatever closes or restarts, in whatever order, a beacon has one socket at *)
(* most, and its reconnect timer is armed exactly while it has none           *)
(* (coordinator-ws.ts, connect and scheduleReconnect).                        *)
THEOREM OneSocketAtATime == ChannelSpec => []OneSocketPerBeacon
  <1>1. ChannelInv => OneSocketPerBeacon
    BY DEF ChannelInv
  <1> QED BY <1>1, ChannelInvariant, PTL

(* The coordinator's map holds sockets it has not closed, each under the      *)
(* beacon that opened it (beacon-ws.ts, connections).                         *)
THEOREM MapHoldsOpenSockets == ChannelSpec => []EntryIsOpen
  <1>1. ChannelInv => EntryIsOpen
    BY DEF ChannelInv
  <1> QED BY <1>1, ChannelInvariant, PTL

(* A trigger whose command was answered has at most one agent, and none when  *)
(* it was refused: no reconnect, restart, timeout or fallback makes an answer *)
(* count for another command or spawns after it (beacon-ws.ts,                *)
(* dispatchIncoming; session-end.ts, runSpawnTrigger).                        *)
THEOREM AnswersStand == ChannelSpec => []AnsweredOnce
  <1>1. ChannelInv => AnsweredOnce
    BY DEF ChannelInv, CommandsKnown, Spawned, AnsweredOnce
  <1> QED BY <1>1, ChannelInvariant, PTL

-----------------------------------------------------------------------------
(***************************************************************************)
(* The refinement of SpawnTrigger                                          *)
(***************************************************************************)

Outcomes == [t \in Trigger |-> StateOf(t)]

LEMMA PromiseInit == ChannelInit => Promise!Init
  <1> SUFFICES ASSUME ChannelInit PROVE Promise!Init
    OBVIOUS
  <1>1. \A t \in Trigger : StateOf(t) = "unsent"
    BY DEF ChannelInit, Unsent, StateOf
  <1> QED BY <1>1 DEF ChannelInit, Promise!Init

\* A step of the sockets changes no outcome.
LEMMA OutcomesKept ==
    ASSUME \A t \in Trigger : cmd'[t].state = cmd[t].state
    PROVE  Outcomes' = Outcomes
  BY DEF Outcomes, StateOf

\* One command changes.
LEMMA OneOutcome ==
    ASSUME ChannelInv, NEW t \in Trigger, NEW c, cmd' = [cmd EXCEPT ![t] = c]
    PROVE  /\ cmd'[t] = c
           /\ Outcomes' = [Outcomes EXCEPT ![t] = StateOf(t)']
           /\ c.state = cmd[t].state => Outcomes' = Outcomes
  <1>1. cmd'[t] = c /\ \A u \in Trigger \ {t} : cmd'[u] = cmd[u]
    BY DEF ChannelInv, ChannelTypeOK
  <1>2. \A u \in Trigger : Outcomes'[u] = IF u = t THEN StateOf(t)' ELSE Outcomes[u]
    BY <1>1 DEF Outcomes, StateOf
  <1>3. Outcomes' = [Outcomes EXCEPT ![t] = StateOf(t)']
    BY <1>2 DEF Outcomes
  <1>4. c.state = cmd[t].state => Outcomes' = Outcomes
    BY <1>1, OutcomesKept
  <1> QED BY <1>1, <1>3, <1>4

LEMMA CommandKeepsPromise ==
    ASSUME ChannelInv, NEW t \in Trigger, CommandStep(t)
    PROVE  Promise!Next \/ UNCHANGED Promise!vars
  <1>0. /\ cmd[t] \in Command /\ spawns[t] \in 0..2 /\ InOrder(t) /\ Spawned(t)
        /\ Outcomes[t] = StateOf(t) /\ spawns \in [Trigger -> 0..2]
    BY CommandTyped DEF Outcomes, ChannelInv, ChannelTypeOK
  <1>1. ASSUME NEW b \in Beacon, SendCommand(t, b)
        PROVE  Promise!Next
    <2> DEFINE c == [cmd[t] EXCEPT
                       !.to = b,
                       !.state = IF entry[b] = NoSocket THEN "rejected" ELSE "pending",
                       !.request = entry[b]]
    <2>1. cmd' = [cmd EXCEPT ![t] = c] /\ cmd[t].state = "unsent" /\ spawns' = spawns
      BY <1>1 DEF SendCommand
    <2>2. c.state \in {"rejected", "pending"}
      BY <1>0 DEF Command
    <2> HIDE DEF c
    <2>3. StateOf(t) = "unsent" /\ StateOf(t)' \in {"asked", "retrying"}
      BY <2>1, <2>2, OneOutcome DEF StateOf
    <2>4. Outcomes' = [Outcomes EXCEPT ![t] = StateOf(t)']
      BY <2>1, OneOutcome
    <2>5. Promise!Ask(t)
      BY <1>0, <2>1, <2>3, <2>4 DEF Outcomes, Promise!Ask, Promise!Becomes
    <2> QED BY <2>5 DEF Promise!Next
  <1>2. CASE Reject(t)
    <2> DEFINE c == [cmd[t] EXCEPT !.state = "rejected"]
    <2>1. cmd' = [cmd EXCEPT ![t] = c] /\ cmd[t].state = "pending" /\ spawns' = spawns
      BY <1>2 DEF Reject
    <2>2. c.state = "rejected"
      BY <1>0 DEF Command
    <2> HIDE DEF c
    <2>3. StateOf(t) = "asked" /\ StateOf(t)' = "retrying"
      BY <2>1, <2>2, OneOutcome DEF StateOf
    <2>4. Outcomes' = [Outcomes EXCEPT ![t] = "retrying"]
      BY <2>1, <2>3, OneOutcome
    <2>5. Promise!Retry(t)
      BY <1>0, <2>1, <2>3, <2>4 DEF Outcomes, Promise!Retry, Promise!Becomes
    <2> QED BY <2>5 DEF Promise!Next
  <1>3. CASE Receive(t)
    <2> DEFINE c == [cmd[t] EXCEPT !.request = NoSocket, !.running = TRUE]
    <2>1. cmd' = [cmd EXCEPT ![t] = c] /\ spawns' = spawns
      BY <1>3 DEF Receive
    <2>2. c.state = cmd[t].state
      BY <1>0 DEF Command
    <2> HIDE DEF c
    <2>3. Outcomes' = Outcomes
      BY <2>1, <2>2, OneOutcome
    <2> QED BY <2>1, <2>3 DEF Outcomes, Promise!vars
  <1>4. ASSUME NEW ok \in BOOLEAN, Handled(t, ok)
        PROVE  Promise!Next \/ UNCHANGED Promise!vars
    <2>1. \E r : cmd' = [cmd EXCEPT ![t] =
                           [cmd[t] EXCEPT !.running = FALSE, !.ok = ok, !.response = r]]
      BY <1>4 DEF Handled
    <2>2. PICK r : cmd' = [cmd EXCEPT ![t] =
                             [cmd[t] EXCEPT !.running = FALSE, !.ok = ok, !.response = r]]
      BY <2>1
    <2> DEFINE c == [cmd[t] EXCEPT !.running = FALSE, !.ok = ok, !.response = r]
    <2>3. cmd' = [cmd EXCEPT ![t] = c]
      BY <2>2
    <2>4. c.state = cmd[t].state
      BY <1>0 DEF Command
    <2> HIDE DEF c
    <2>5. Outcomes' = Outcomes
      BY <2>3, <2>4, OneOutcome
    <2>6. CASE UNCHANGED spawns
      BY <2>5, <2>6 DEF Outcomes, Promise!vars
    <2>7. CASE spawns' = [spawns EXCEPT ![t] = @ + 1]
      <3>1. cmd[t].running /\ spawns' = [spawns EXCEPT ![t] = @ + 1]
        BY <1>4, <2>7 DEF Handled
      <3>2. \/ cmd[t].state \in {"pending", "rejected"} /\ spawns[t] = 0
            \/ cmd[t].state = "settled" /\ spawns[t] <= 1
        BY <1>0, <3>1 DEF InOrder, Spawned, Handling, Command
      <3>3. \/ Outcomes[t] \in {"asked", "retrying"} /\ spawns[t] = 0
            \/ Outcomes[t] = "settled" /\ spawns[t] <= 1
        BY <1>0, <3>2 DEF StateOf
      <3>4. spawns[t] < Promise!Requests(t)
        BY <1>0, <3>3 DEF Outcomes, Promise!Requests
      <3>5. Promise!Spawn(t)
        BY <2>5, <3>1, <3>4 DEF Outcomes, Promise!Spawn
      <3> QED BY <3>5 DEF Promise!Next
    <2> QED BY <1>4, <2>6, <2>7 DEF Handled
  <1>5. CASE Response(t)
    <2> DEFINE d == IF cmd[t].state # "pending" THEN cmd[t].state
                    ELSE IF cmd[t].ok THEN "confirmed" ELSE "refused"
               c == [cmd[t] EXCEPT !.response = NoSocket, !.state = d]
    <2>1. cmd' = [cmd EXCEPT ![t] = c] /\ cmd[t].response # NoSocket /\ spawns' = spawns
      BY <1>5 DEF Response
    <2>2. c.state = d
      BY <1>0 DEF Command
    <2> HIDE DEF c
    <2>3. CASE cmd[t].state # "pending"
      <3>1. Outcomes' = Outcomes
        BY <2>1, <2>2, <2>3, OneOutcome
      <3> QED BY <2>1, <3>1 DEF Outcomes, Promise!vars
    <2>4. CASE cmd[t].state = "pending" /\ cmd[t].ok
      <3>1. Outcomes[t] = "asked"
        BY <1>0, <2>4 DEF StateOf
      <3>2. StateOf(t)' = "confirmed"
        BY <2>1, <2>2, <2>4, OneOutcome DEF StateOf
      <3>3. Outcomes' = [Outcomes EXCEPT ![t] = "confirmed"]
        BY <2>1, <3>2, OneOutcome
      <3>4. Promise!Confirm(t)
        BY <2>1, <3>1, <3>3 DEF Outcomes, Promise!Confirm, Promise!Becomes
      <3> QED BY <3>4 DEF Promise!Next
    <2>5. CASE cmd[t].state = "pending" /\ ~cmd[t].ok
      <3>1. Outcomes[t] = "asked" /\ spawns[t] = 0
        BY <1>0, <2>1, <2>5 DEF StateOf, Spawned
      <3>2. StateOf(t)' = "refused"
        BY <2>1, <2>2, <2>5, OneOutcome DEF StateOf
      <3>3. Outcomes' = [Outcomes EXCEPT ![t] = "refused"]
        BY <2>1, <3>2, OneOutcome
      <3>4. Promise!Refuse(t)
        BY <2>1, <3>1, <3>3 DEF Outcomes, Promise!Refuse, Promise!Becomes
      <3> QED BY <3>4 DEF Promise!Next
    <2> QED BY <2>3, <2>4, <2>5
  <1>6. CASE Fallback(t)
    <2> DEFINE c == [cmd[t] EXCEPT !.state = "settled"]
    <2>1. /\ cmd' = [cmd EXCEPT ![t] = c] /\ cmd[t].state = "rejected"
          /\ spawns' = spawns \/ spawns' = [spawns EXCEPT ![t] = @ + 1]
      BY <1>6 DEF Fallback
    <2>2. c.state = "settled"
      BY <1>0 DEF Command
    <2> HIDE DEF c
    <2>3. StateOf(t) = "retrying" /\ StateOf(t)' = "settled"
      BY <2>1, <2>2, OneOutcome DEF StateOf
    <2>4. Outcomes' = [Outcomes EXCEPT ![t] = "settled"]
      BY <2>1, <2>3, OneOutcome
    <2>5. Promise!Fallback(t)
      BY <1>0, <2>1, <2>3, <2>4 DEF Outcomes, Promise!Fallback
    <2> QED BY <2>5 DEF Promise!Next
  <1> QED BY <1>1, <1>2, <1>3, <1>4, <1>5, <1>6 DEF CommandStep

LEMMA StepKeepsPromise ==
    ASSUME ChannelInv, [ChannelNext]_channel_vars
    PROVE  Promise!Next \/ UNCHANGED Promise!vars
  <1>0. /\ ChannelTypeOK
        /\ \A S : \A t \in Trigger : LoseTraffic(S)[t].state = cmd[t].state
    BY LoseTrafficTyped DEF ChannelInv
  <1>1. ASSUME \A t \in Trigger : cmd'[t].state = cmd[t].state, spawns' = spawns
        PROVE  UNCHANGED Promise!vars
    BY <1>1, OutcomesKept DEF Outcomes, Promise!vars
  <1>2. ASSUME NEW b \in Beacon, Connect(b) \/ Sweep(b)
        PROVE  UNCHANGED Promise!vars
    <2>1. spawns' = spawns /\ (cmd' = cmd \/ \E S : cmd' = LoseTraffic(S))
      BY <1>2 DEF Connect, Sweep
    <2> QED BY <1>0, <1>1, <2>1
  <1>3. ASSUME NEW b \in Beacon, BeaconRestart(b)
        PROVE  UNCHANGED Promise!vars
    <2> DEFINE L == LoseTraffic({ws[b]})
    <2>1. /\ spawns' = spawns
          /\ cmd' = [t \in Trigger |->
                       IF cmd[t].to = b THEN [L[t] EXCEPT !.running = FALSE] ELSE cmd[t]]
      BY <1>3 DEF BeaconRestart
    <2>2. L \in [Trigger -> Command] /\ \A t \in Trigger : L[t].state = cmd[t].state
      BY <1>0, LoseTrafficTyped
    <2> HIDE DEF L
    <2>3. \A t \in Trigger : cmd'[t].state = cmd[t].state
      BY <2>1, <2>2 DEF Command
    <2> QED BY <1>1, <2>1, <2>3
  <1>4. ASSUME NEW s \in Socket, SocketStep(s)
        PROVE  UNCHANGED Promise!vars
    <2>1. spawns' = spawns /\ (cmd' = cmd \/ \E S : cmd' = LoseTraffic(S))
      BY <1>4, Zenon DEF SocketStep, BeaconClose, Admit, CoordClose, Pong, Cut
    <2> QED BY <1>0, <1>1, <2>1
  <1>5. CASE CoordRestart
    <2> DEFINE L == LoseTraffic({s \in Socket : sock[s].coord = "open"})
    <2>1. /\ spawns' = spawns
          /\ cmd' = [t \in Trigger |->
                       [L[t] EXCEPT
                          !.state = IF @ \in {"pending", "rejected"} THEN "settled" ELSE @]]
      BY <1>5 DEF CoordRestart
    <2>2. L \in [Trigger -> Command] /\ \A t \in Trigger : L[t].state = cmd[t].state
      BY <1>0, LoseTrafficTyped
    <2> HIDE DEF L
    <2>3. \A t \in Trigger : cmd'[t].state = IF cmd[t].state \in {"pending", "rejected"}
                                             THEN "settled" ELSE cmd[t].state
      BY <2>1, <2>2 DEF Command
    <2>4. \A t \in Trigger : StateOf(t)' = IF StateOf(t) \in {"asked", "retrying"}
                                           THEN "settled" ELSE StateOf(t)
      <3>1. \A t \in Trigger : cmd[t].state \in {"unsent", "pending", "rejected", "settled",
                                                 "refused", "confirmed"}
        BY <1>0 DEF ChannelTypeOK, Command
      <3> QED BY <2>3, <3>1 DEF StateOf
    <2>5. Promise!Restart
      BY <2>1, <2>4 DEF Promise!Restart
    <2> QED BY <2>5 DEF Promise!Next
  <1>6. ASSUME NEW t \in Trigger, CommandStep(t)
        PROVE  Promise!Next \/ UNCHANGED Promise!vars
    BY <1>6, CommandKeepsPromise
  <1>7. CASE UNCHANGED channel_vars
    BY <1>1, <1>7 DEF channel_vars
  <1> QED BY <1>2, <1>3, <1>4, <1>5, <1>6, <1>7 DEF ChannelNext

(* For any number of beacons, sockets and triggers, however connections close, *)
(* answers come late and processes restart: what the session-end trigger makes *)
(* of the channel and of its fallback is what ADR 177 promises                 *)
(* (session-end.ts, runSpawnTrigger; beacon-ws.ts, sendBeaconCommand).        *)
THEOREM ChannelKeepsPromise == ChannelSpec => KeepsPromise
  <1>1. ChannelInv /\ [ChannelNext]_channel_vars => [Promise!Next]_(Promise!vars)
    BY StepKeepsPromise
  <1> QED
    BY <1>1, PromiseInit, ChannelInvariant, PTL DEF ChannelSpec, KeepsPromise, Promise!Spec
=============================================================================
