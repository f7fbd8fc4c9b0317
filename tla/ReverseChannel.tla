--------------------------- MODULE ReverseChannel ---------------------------
(***************************************************************************)
(* The reverse channel: each beacon keeps one outbound WebSocket open to   *)
(* the coordinator, which pushes commands down it and correlates the       *)
(* answers; and its most delicate user, the session-end hook's spawn       *)
(* trigger, which falls back to HTTP when the channel fails it.            *)
(*                                                                         *)
(* Sources: drone-coordinator/src/beacon-ws.ts and session-end.ts,         *)
(* drone-beacon/src/coordinator-ws.ts.                                     *)
(*                                                                         *)
(* A socket has two ends, each of which learns on its own that the other   *)
(* closed; a `cut` socket carries nothing any more and tells nobody.       *)
(* Sockets are reused once both ends are done with them.                   *)
(***************************************************************************)
EXTENDS Integers, FiniteSets

CONSTANTS
    Beacon,
    Socket,         \* bound: sockets that exist at a time
    NoSocket,
    Trigger,        \* runSpawnTrigger calls in a behaviour
    NoBeacon

ASSUME ChannelAssumption ==
    /\ NoSocket \notin Socket
    /\ NoBeacon \notin Beacon

VARIABLES
    ws,         \* beacon: its current socket (module variable `ws`)
    timer,      \* beacon: reconnectTimer is armed
    sock,       \* the sockets
    entry,      \* coordinator: the `connections` map
    cmd,        \* trigger -> its command, at the coordinator and under way
    spawns      \* agents spawned for the trigger

channel_vars == <<ws, timer, sock, entry, cmd, spawns>>

\* A socket and what its ends make of it; isAlive is the coordinator's mark.
Connection == [owner : Beacon \cup {NoBeacon},
               beacon : {"closed", "dialing", "open"}, coord : {"closed", "open"},
               cut : BOOLEAN, isAlive : BOOLEAN]

\* A command: what its caller makes of it, the sockets its request and its
\* response are under way on, and the answer.
Command == [to : Beacon \cup {NoBeacon},
            state : {"unsent", "pending", "rejected", "settled", "refused", "confirmed"},
            request : Socket \cup {NoSocket}, running : BOOLEAN,
            response : Socket \cup {NoSocket}, ok : BOOLEAN]

FreeSocket == [owner |-> NoBeacon, beacon |-> "closed", coord |-> "closed",
               cut |-> FALSE, isAlive |-> FALSE]
Unsent == [to |-> NoBeacon, state |-> "unsent", request |-> NoSocket,
           running |-> FALSE, response |-> NoSocket, ok |-> FALSE]

ChannelTypeOK ==
    /\ ws \in [Beacon -> Socket \cup {NoSocket}]
    /\ timer \in [Beacon -> BOOLEAN]
    /\ sock \in [Socket -> Connection]
    /\ entry \in [Beacon -> Socket \cup {NoSocket}]
    /\ cmd \in [Trigger -> Command]
    /\ spawns \in [Trigger -> 0..2]

ChannelInit ==
    /\ ws = [b \in Beacon |-> NoSocket]
    /\ timer = [b \in Beacon |-> TRUE]
    /\ sock = [s \in Socket |-> FreeSocket]
    /\ entry = [b \in Beacon |-> NoSocket]
    /\ cmd = [t \in Trigger |-> Unsent]
    /\ spawns = [t \in Trigger |-> 0]

Free == {s \in Socket : sock[s].owner = NoBeacon}
Carrying(s) == sock[s].beacon = "open" /\ sock[s].coord = "open" /\ ~sock[s].cut

\* s after one of its ends closed; when it was the last, the socket is gone.
BeaconEndClosed(s) ==
    IF sock[s].coord = "closed" THEN FreeSocket ELSE [sock[s] EXCEPT !.beacon = "closed"]
CoordEndClosed(s) ==
    IF sock[s].beacon = "closed" THEN FreeSocket ELSE [sock[s] EXCEPT !.coord = "closed"]

\* What is under way on a socket is lost when an end closes.
LoseTraffic(S) ==
    [t \in Trigger |->
        [cmd[t] EXCEPT !.request = IF @ \in S THEN NoSocket ELSE @,
                       !.response = IF @ \in S THEN NoSocket ELSE @]]

-----------------------------------------------------------------------------
\* The beacon's end

\* Mutant of Connect: the timer is an interval.
ConnectPeriodic(b) ==
    /\ timer[b]
    /\ \E s \in Free :
          /\ sock' = [sock EXCEPT ![s] = [FreeSocket EXCEPT !.owner = b, !.beacon = "dialing"]]
          /\ ws' = [ws EXCEPT ![b] = s]
    /\ UNCHANGED <<timer, entry, cmd, spawns>>

\* reconnectTimer fires, or the process starts: connect()
Connect(b) ==
    /\ timer[b]
    /\ timer' = [timer EXCEPT ![b] = FALSE]
    /\ \E s \in Free :
          /\ sock' = [sock EXCEPT ![s] = [FreeSocket EXCEPT !.owner = b, !.beacon = "dialing"]]
          /\ ws' = [ws EXCEPT ![b] = s]
    /\ UNCHANGED <<entry, cmd, spawns>>

\* 'close': the peer closed, the handshake failed or the connection broke.
BeaconClose(s) ==
    LET b == sock[s].owner IN
    /\ sock[s].beacon # "closed"
    /\ ws' = [ws EXCEPT ![b] = NoSocket]
    /\ timer' = [timer EXCEPT ![b] = TRUE]
    /\ sock' = [sock EXCEPT ![s] = BeaconEndClosed(s)]
    /\ cmd' = LoseTraffic({s})
    /\ UNCHANGED <<entry, spawns>>

\* The beacon's process dies, with the commands it is handling, and starts
\* again: start calls connect() at once, as if the timer had fired.
BeaconRestart(b) ==
    /\ \E s \in Socket : ws[b] = s /\ sock' = [sock EXCEPT ![s] = BeaconEndClosed(s)]
    /\ ws' = [ws EXCEPT ![b] = NoSocket]
    /\ timer' = [timer EXCEPT ![b] = TRUE]
    /\ cmd' = [t \in Trigger |->
                 IF cmd[t].to = b THEN [LoseTraffic({ws[b]})[t] EXCEPT !.running = FALSE]
                 ELSE cmd[t]]
    /\ UNCHANGED <<entry, spawns>>

-----------------------------------------------------------------------------
\* The coordinator's end

\* admitBeaconSocket, for an approved beacon: registerBeaconConnection
Admit(s) ==
    LET b == sock[s].owner IN
    /\ sock[s].beacon = "dialing"
    /\ ~sock[s].cut
    /\ sock' = [sock EXCEPT ![s] = [@ EXCEPT !.beacon = "open", !.coord = "open",
                                             !.isAlive = TRUE]]
    /\ entry' = [entry EXCEPT ![b] = s]
    /\ UNCHANGED <<ws, timer, cmd, spawns>>

\* unregisterBeaconConnection(beaconId), from the 'close' of whichever socket
CoordClose(s) ==
    /\ sock[s].coord = "open"
    /\ sock[s].beacon = "closed" \/ sock[s].cut
    /\ entry' = [entry EXCEPT ![sock[s].owner] = NoSocket]
    /\ sock' = [sock EXCEPT ![s] = CoordEndClosed(s)]
    /\ cmd' = LoseTraffic({s})
    /\ UNCHANGED <<ws, timer, spawns>>

\* Mutants of Sweep: the terminated socket is left in the map; the ping does
\* not mark the connection.
SweepKeepsEntry(b) ==
    LET s == entry[b] IN
    /\ s # NoSocket
    /\ IF sock[s].isAlive
       THEN /\ sock' = [sock EXCEPT ![s].isAlive = FALSE]
            /\ UNCHANGED cmd
       ELSE /\ sock' = [sock EXCEPT ![s] = CoordEndClosed(s)]
            /\ cmd' = LoseTraffic({s})
    /\ UNCHANGED <<ws, timer, entry, spawns>>

SweepOnlyPings(b) ==
    LET s == entry[b] IN
    /\ s # NoSocket
    /\ ~sock[s].isAlive
    /\ sock' = [sock EXCEPT ![s] = CoordEndClosed(s)]
    /\ entry' = [entry EXCEPT ![b] = NoSocket]
    /\ cmd' = LoseTraffic({s})
    /\ UNCHANGED <<ws, timer, spawns>>

\* startBeaconLivenessSweep, for one beacon of the map: terminate,
\* whose 'close' follows at once, or ping
Sweep(b) ==
    LET s == entry[b] IN
    /\ s # NoSocket
    /\ IF sock[s].isAlive
       THEN /\ sock' = [sock EXCEPT ![s].isAlive = FALSE]
            /\ UNCHANGED <<entry, cmd>>
       ELSE /\ sock' = [sock EXCEPT ![s] = CoordEndClosed(s)]
            /\ entry' = [entry EXCEPT ![b] = NoSocket]
            /\ cmd' = LoseTraffic({s})
    /\ UNCHANGED <<ws, timer, spawns>>

\* The coordinator's process dies and starts again: nobody waits for the
\* pending commands any more.
CoordRestart ==
    /\ entry' = [b \in Beacon |-> NoSocket]
    /\ sock' = [s \in Socket |-> CoordEndClosed(s)]
    /\ cmd' = [t \in Trigger |->
                 [LoseTraffic({s \in Socket : sock[s].coord = "open"})[t] EXCEPT
                    !.state = IF @ \in {"pending", "rejected"} THEN "settled" ELSE @]]
    /\ UNCHANGED <<ws, timer, spawns>>

Pong(s) ==
    /\ Carrying(s)
    /\ sock' = [sock EXCEPT ![s].isAlive = TRUE]
    /\ UNCHANGED <<ws, timer, entry, cmd, spawns>>

\* The network drops a connection without telling either end.
Cut(s) ==
    /\ sock[s].beacon # "closed"
    /\ sock' = [sock EXCEPT ![s].cut = TRUE]
    /\ UNCHANGED <<ws, timer, entry, cmd, spawns>>

-----------------------------------------------------------------------------
\* runSpawnTrigger: isBeaconConnected, then sendBeaconCommand
SendCommand(t, b) ==
    /\ cmd[t].state = "unsent"
    /\ cmd' = [cmd EXCEPT ![t] = [@ EXCEPT
                  !.to = b,
                  !.state = IF entry[b] = NoSocket THEN "rejected" ELSE "pending",
                  !.request = entry[b]]]
    /\ UNCHANGED <<ws, timer, sock, entry, spawns>>

\* Mutant of Reject: a send error rejects, a missing answer does not.
RejectSendError(t) ==
    /\ cmd[t].state = "pending"
    /\ cmd[t].request # NoSocket
    /\ cmd' = [cmd EXCEPT ![t].state = "rejected"]
    /\ UNCHANGED <<ws, timer, sock, entry, spawns>>

\* No answer within timeoutMs, or ws.send reports an error.
Reject(t) ==
    /\ cmd[t].state = "pending"
    /\ cmd' = [cmd EXCEPT ![t].state = "rejected"]
    /\ UNCHANGED <<ws, timer, sock, entry, spawns>>

\* The beacon's handleCommand starts ...
Receive(t) ==
    LET s == cmd[t].request IN
    /\ s # NoSocket
    /\ Carrying(s)
    /\ cmd' = [cmd EXCEPT ![t] = [@ EXCEPT !.request = NoSocket, !.running = TRUE]]
    /\ UNCHANGED <<ws, timer, sock, entry, spawns>>

\* ... and, when handleSpawnAgent has settled, answers on whichever socket is
\* open by then.  A beacon at its limit of spawns records a failed one and answers
\* 202 as well (routes/spawn-handlers.ts:74-93): a good answer is no proof of an agent.
Handled(t, ok) ==
    LET s == ws[cmd[t].to] IN
    /\ cmd[t].running
    /\ \/ ok /\ spawns' = [spawns EXCEPT ![t] = @ + 1]
       \/ UNCHANGED spawns
    /\ cmd' = [cmd EXCEPT ![t] = [@ EXCEPT
                  !.running = FALSE,
                  !.ok = ok,
                  !.response = IF s # NoSocket /\ sock[s].beacon = "open"
                               THEN s ELSE NoSocket]]
    /\ UNCHANGED <<ws, timer, sock, entry>>

\* Mutant of Response: the resolver outlives the timeout.
ResponseAfterTimeout(t) ==
    LET s == cmd[t].response IN
    /\ s # NoSocket
    /\ Carrying(s)
    /\ cmd' = [cmd EXCEPT ![t] = [@ EXCEPT
                  !.response = NoSocket,
                  !.state = IF cmd[t].ok THEN "confirmed" ELSE "refused"]]
    /\ UNCHANGED <<ws, timer, sock, entry, spawns>>

\* dispatchIncoming: an answer nobody waits for any more is dropped.
Response(t) ==
    LET s == cmd[t].response IN
    /\ s # NoSocket
    /\ Carrying(s)
    /\ cmd' = [cmd EXCEPT ![t] = [@ EXCEPT
                  !.response = NoSocket,
                  !.state = IF cmd[t].state # "pending" THEN cmd[t].state
                            ELSE IF cmd[t].ok THEN "confirmed" ELSE "refused"]]
    /\ UNCHANGED <<ws, timer, sock, entry, spawns>>

\* Mutant of Fallback: tried again after a success.
FallbackAgain(t) ==
    /\ cmd[t].state = "rejected"
    /\ spawns' = [spawns EXCEPT ![t] = @ + 1]
    /\ UNCHANGED <<ws, timer, sock, entry, cmd>>

\* The HTTP fallback: POST /spawn reaches the beacon or does not.
Fallback(t) ==
    /\ cmd[t].state = "rejected"
    /\ cmd' = [cmd EXCEPT ![t].state = "settled"]
    /\ \/ spawns' = [spawns EXCEPT ![t] = @ + 1]
       \/ UNCHANGED spawns
    /\ UNCHANGED <<ws, timer, sock, entry>>

SocketStep(s) == BeaconClose(s) \/ Admit(s) \/ CoordClose(s) \/ Pong(s) \/ Cut(s)

CommandStep(t) ==
    \/ \E b \in Beacon : SendCommand(t, b)
    \/ Reject(t)
    \/ Receive(t)
    \/ \E ok \in BOOLEAN : Handled(t, ok)
    \/ Response(t)
    \/ Fallback(t)

ChannelNext ==
    \/ \E b \in Beacon : Connect(b) \/ BeaconRestart(b) \/ Sweep(b)
    \/ CoordRestart
    \/ \E s \in Socket : SocketStep(s)
    \/ \E t \in Trigger : CommandStep(t)

ChannelSpec == ChannelInit /\ [][ChannelNext]_channel_vars

\* The timers fire: reconnect, sweep and command timeout.
ChannelFairness ==
    /\ \A b \in Beacon : WF_channel_vars(Connect(b)) /\ WF_channel_vars(Sweep(b))
    /\ \A t \in Trigger : WF_channel_vars(Reject(t)) /\ WF_channel_vars(Fallback(t))

FairChannelSpec == ChannelSpec /\ ChannelFairness
-----------------------------------------------------------------------------
(* A beacon never has two sockets: whatever closes, in whatever order, the    *)
(* reconnect timer is armed exactly while it has none (a second socket would  *)
(* take the first one's place in the coordinator's map and answer commands    *)
(* of a dead conversation).                                                   *)
OneSocketPerBeacon ==
    /\ \A b \in Beacon : timer[b] <=> ws[b] = NoSocket
    /\ \A s \in Socket : sock[s].beacon # "closed" => ws[sock[s].owner] = s

(* Commands go down sockets the coordinator has not seen closed.              *)
EntryIsOpen ==
    \A b \in Beacon : entry[b] # NoSocket =>
        sock[entry[b]].coord = "open" /\ sock[entry[b]].owner = b

(* An answer is matched to its command across reconnects and restarts: a      *)
(* trigger whose command was answered has at most one agent, and none when    *)
(* the answer was a failure.                                                  *)
AnsweredOnce ==
    /\ \A t \in Trigger : cmd[t].state = "confirmed" => spawns[t] <= 1
    /\ \A t \in Trigger : cmd[t].state = "refused" => spawns[t] = 0

\* A trigger in the life of SpawnTrigger
StateOf(t) == CASE cmd[t].state = "pending" -> "asked"
                [] cmd[t].state = "rejected" -> "retrying"
                [] OTHER -> cmd[t].state

Promise == INSTANCE SpawnTrigger
              WITH state <- [t \in Trigger |-> StateOf(t)], agents <- spawns

(* The channel, its timeouts and the fallback keep the promise of ADR 177: an *)
(* outcome is decided once and for all; who is told that the spawn succeeded  *)
(* never gets a second agent, who is told that it failed never gets one, and  *)
(* nobody has more than one for each of its two requests.                     *)
KeepsPromise == Promise!Spec

(* beacon-ws.ts:381-382: "dead sockets don't keep isBeaconConnected reporting *)
(* true forever".                                                             *)
DeadSocketsDropped ==
    \A b \in Beacon, s \in Socket :
        entry[b] = s /\ sock[s].cut ~> entry[b] # s \/ ~sock[s].cut

(* Every command sent settles, whatever becomes of the socket.                *)
CommandSettles ==
    \A t \in Trigger : cmd[t].state = "pending" ~>
        cmd[t].state \in {"settled", "refused", "confirmed"}

(* beacon-ws.ts:462: "True when a beacon has an open reverse-channel          *)
(* connection".                                                               *)
ConnectedWhenOpen ==
    \A s \in Socket :
        sock[s].beacon = "open" /\ sock[s].coord = "open"
            => entry[sock[s].owner] # NoSocket

(* ADR 177:29: a failed spawn is not retried over HTTP once "the request      *)
(* already reached the beacon, and a retry could duplicate the spawn".        *)
OneSpawnPerTrigger == \A t \in Trigger : spawns[t] <= 1
=============================================================================
