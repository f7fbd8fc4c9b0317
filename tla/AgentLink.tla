----------------------------- MODULE AgentLink -----------------------------
(***************************************************************************)
(* The WebSocket between an agent and its beacon, and the direct messages  *)
(* that go over it.  The agent reconnects for as long as it lives, under   *)
(* the id of its current session, which a recycle changes.  The beacon     *)
(* keeps one connection per id and a table of messages: a message for an   *)
(* agent that is connected is pushed and marked, any other waits for the   *)
(* next connection.                                                        *)
(*                                                                         *)
(* Sources: drone-agent/src/plugins/swarm/websocket.ts, hooks.ts           *)
(* (recycleSwarmSession), heartbeat.ts (registerShutdown);                 *)
(* drone-beacon/src/ws-server.ts, routes/message-handlers.ts,              *)
(* routes/agents.ts, db/messages.ts, db/agents.ts.                         *)
(*                                                                         *)
(* One agent.  The two ends of a socket learn of its end in any order.     *)
(* A socket keeps order, but the order of messages matters to no property, *)
(* so that those under way in one are a set.  Channels, acknowledgements   *)
(* (the agent sends none) and the cleanup of read messages after a day are *)
(* left out.                                                               *)
(***************************************************************************)
EXTENDS Integers, Sequences

CONSTANTS
    MaxSockets,     \* bound: sockets either end still knows
    MaxRecycles,    \* bound: session recycles
    MaxMessages,    \* bound: direct messages
    MaxFaults       \* bound: connections and requests lost, restarts

ASSUME AgentLinkAssumption ==
    /\ {MaxRecycles, MaxMessages, MaxFaults} \subseteq Nat
    /\ MaxSockets \in Nat \ {0}

Session == 1..MaxRecycles + 1
Socket == 1..MaxSockets
NoSocket == 0
Message == 1..MaxMessages

VARIABLES
    session,        \* ctx.sessionId, 0 before the first registration
    recycle,        \* recycleSwarmSession between its awaits
    ws,             \* ctx.ws
    timers,         \* reconnects that are scheduled
    stopping,       \* ctx.shuttingDown
    inbox,          \* messages the agent has read
    socket,
    rows,           \* agent_sessions
    connections,    \* the beacon's Map of connections
    messages,       \* its table of messages, oldest first
    faults

link_vars == <<session, recycle, ws, timers, stopping, inbox, socket,
               rows, connections, messages, faults>>
agent_vars == <<session, recycle, ws, timers, stopping, inbox>>
beacon_vars == <<rows, connections, messages>>

\* server: between the accept and the close event of the beacon.
\* cut: nothing goes through any more.
SocketState == [session : Session \cup {0}, client : {"none", "connecting", "open", "closing"},
                server : {"none", "open"}, cut : BOOLEAN, frames : SUBSET Message]

NewSocket(n) == [session |-> n, client |-> "connecting", server |-> "none", cut |-> FALSE,
                 frames |-> {}]
NoEnd == [session |-> 0, client |-> "none", server |-> "none", cut |-> FALSE, frames |-> {}]

LinkTypeOK ==
    /\ session \in Session
    /\ recycle \in {"idle", "registering", "registered"}
    /\ ws \in Socket \cup {NoSocket}
    /\ timers \in Nat
    /\ stopping \in BOOLEAN
    /\ inbox \subseteq Message
    /\ socket \in [Socket -> SocketState]
    /\ rows \subseteq Session
    /\ connections \in [Session -> Socket \cup {NoSocket}]
    /\ messages \in Seq([to : Session, delivered : BOOLEAN])
    /\ Len(messages) <= MaxMessages
    /\ faults \in 0..MaxFaults

\* The agent has registered its first session, and connects.
LinkInit ==
    /\ session = 1
    /\ recycle = "idle"
    /\ ws = 1
    /\ timers = 0
    /\ stopping = FALSE
    /\ inbox = {}
    /\ socket = [s \in Socket |-> IF s = 1 THEN NewSocket(1) ELSE NoEnd]
    /\ rows = {1}
    /\ connections = [n \in Session |-> NoSocket]
    /\ messages = <<>>
    /\ faults = 0

Fault ==
    /\ faults < MaxFaults
    /\ faults' = faults + 1

Free == {s \in Socket : socket[s] = NoEnd}

\* connectWebSocket; k tells the sockets as they are otherwise
Open(k) ==
    /\ Free # {}
    /\ LET s == CHOOSE f \in Free : \A g \in Free : f <= g IN
       /\ ws' = s
       /\ socket' = [k EXCEPT ![s] = NewSocket(session)]

\* ws.close(): the agent reads nothing more.
Closing(s) == [socket EXCEPT ![s] = [@ EXCEPT !.client = "closing", !.frames = {}]]

Through(s) == socket[s].client = "open" /\ ~socket[s].cut

-----------------------------------------------------------------------------
\* Mutant of Accept: a connection that only gets what is sent from then on.
AcceptUnread(s) ==
    /\ socket[s].client \in {"connecting", "closing"}
    /\ socket[s].server = "none"
    /\ ~socket[s].cut
    /\ socket[s].session \in rows
    /\ connections' = [connections EXCEPT ![socket[s].session] = s]
    /\ socket' = [socket EXCEPT ![s].server = "open",
                                ![s].client = IF @ = "connecting" THEN "open" ELSE @]
    /\ UNCHANGED <<agent_vars, rows, messages, faults>>

\* GET /ws of the beacon, and onopen.  Unread messages are sent, and stay unread.
Unread(n) == {m \in DOMAIN messages : messages[m].to = n /\ ~messages[m].delivered}

Accept(s) ==
    LET n == socket[s].session
        lives == socket[s].client = "connecting"
    IN /\ socket[s].client \in {"connecting", "closing"}
       /\ socket[s].server = "none"
       /\ ~socket[s].cut
       /\ n \in rows
       /\ connections' = [connections EXCEPT ![n] = s]
       /\ socket' = [socket EXCEPT ![s] =
                       [@ EXCEPT !.server = "open",
                                 !.client = IF lives THEN "open" ELSE "closing",
                                 !.frames = IF lives THEN Unread(n) ELSE {}]]
       /\ UNCHANGED <<agent_vars, rows, messages, faults>>

\* ERROR_AGENT_NOT_REGISTERED
Refuse(s) ==
    /\ socket[s].client \in {"connecting", "closing"}
    /\ socket[s].server = "none"
    /\ ~socket[s].cut
    /\ socket[s].session \notin rows
    /\ socket' = [socket EXCEPT ![s] = [@ EXCEPT !.client = "closing", !.cut = TRUE]]
    /\ UNCHANGED <<agent_vars, beacon_vars, faults>>

\* Mutant of ServerClose: a test for a newer connection, the wrong way round.
ServerCloseOther(s) ==
    /\ socket[s].server = "open"
    /\ socket[s].cut \/ socket[s].client \in {"closing", "none"}
    /\ socket' = [socket EXCEPT ![s] = IF @.client = "none" THEN NoEnd
                                      ELSE [@ EXCEPT !.server = "none"]]
    /\ connections' = [connections EXCEPT ![socket[s].session] = IF @ = s THEN @ ELSE NoSocket]
    /\ UNCHANGED <<agent_vars, rows, messages, faults>>

\* The beacon's close event: whichever connection its id has now goes.
ServerClose(s) ==
    /\ socket[s].server = "open"
    /\ socket[s].cut \/ socket[s].client \in {"closing", "none"}
    /\ socket' = [socket EXCEPT ![s] = IF @.client = "none" THEN NoEnd
                                      ELSE [@ EXCEPT !.server = "none"]]
    /\ connections' = [connections EXCEPT ![socket[s].session] = NoSocket]
    /\ UNCHANGED <<agent_vars, rows, messages, faults>>

\* Mutant of ClientClose: only a connection that was open is opened again.
ClientCloseGivesUp(s) ==
    /\ socket[s].client # "none"
    /\ socket[s].cut \/ socket[s].client = "closing"
    /\ socket' = [socket EXCEPT ![s] = IF @.server = "none" THEN NoEnd
                                      ELSE [@ EXCEPT !.client = "none", !.frames = {}]]
    /\ ws' = NoSocket
    /\ timers' = IF stopping \/ socket[s].client = "connecting" THEN timers ELSE timers + 1
    /\ UNCHANGED <<session, recycle, stopping, inbox, beacon_vars, faults>>

\* Mutant of ClientClose: a close while stopping takes back a reconnect, also one
\* that is not scheduled.
ClientCloseCancels(s) ==
    /\ socket[s].client # "none"
    /\ socket[s].cut \/ socket[s].client = "closing"
    /\ socket' = [socket EXCEPT ![s] = IF @.server = "none" THEN NoEnd
                                      ELSE [@ EXCEPT !.client = "none", !.frames = {}]]
    /\ ws' = NoSocket
    /\ timers' = IF stopping THEN timers - 1 ELSE timers + 1
    /\ UNCHANGED <<session, recycle, stopping, inbox, beacon_vars, faults>>

\* onclose
ClientClose(s) ==
    /\ socket[s].client # "none"
    /\ socket[s].cut \/ socket[s].client = "closing"
    /\ socket' = [socket EXCEPT ![s] = IF @.server = "none" THEN NoEnd
                                      ELSE [@ EXCEPT !.client = "none", !.frames = {}]]
    /\ ws' = NoSocket
    /\ timers' = IF stopping THEN timers ELSE timers + 1
    /\ UNCHANGED <<session, recycle, stopping, inbox, beacon_vars, faults>>

Reconnect ==
    /\ timers > 0
    /\ timers' = timers - 1
    /\ Open(socket)
    /\ UNCHANGED <<session, recycle, stopping, inbox, beacon_vars, faults>>

\* onmessage
Read(s) ==
    /\ Through(s)
    /\ \E m \in socket[s].frames :
           /\ inbox' = inbox \cup {m}
           /\ socket' = [socket EXCEPT ![s].frames = @ \ {m}]
    /\ UNCHANGED <<session, recycle, ws, timers, stopping, beacon_vars, faults>>

-----------------------------------------------------------------------------
\* handleDeliverMessage, handleMessage ('message', to an agent)
Deliver(n) ==
    LET s == connections[n]
        m == Len(messages) + 1
    IN /\ m <= MaxMessages
       /\ messages' = Append(messages, [to |-> n, delivered |-> s # NoSocket])
       /\ socket' = IF s # NoSocket /\ Through(s)
                    THEN [socket EXCEPT ![s].frames = @ \cup {m}]
                    ELSE socket
       /\ UNCHANGED <<agent_vars, rows, connections, faults>>

-----------------------------------------------------------------------------
\* recycleSwarmSession: up to the POST, its outcome, and the new connection
RecycleBegin ==
    /\ ~stopping
    /\ recycle = "idle"
    /\ session <= MaxRecycles
    /\ session' = session + 1
    /\ recycle' = "registering"
    /\ UNCHANGED <<ws, timers, stopping, inbox, socket, beacon_vars, faults>>

RecycleRegistered ==
    /\ recycle = "registering"
    /\ recycle' = "registered"
    /\ rows' = rows \cup {session}
    /\ UNCHANGED <<session, ws, timers, stopping, inbox, socket, connections, messages, faults>>

\* A failed POST is logged.
RecycleUnregistered ==
    /\ Fault
    /\ recycle = "registering"
    /\ recycle' = "registered"
    /\ UNCHANGED <<session, ws, timers, stopping, inbox, socket, beacon_vars>>

RecycleReconnect ==
    /\ recycle = "registered"
    /\ recycle' = "idle"
    /\ Open(IF ws = NoSocket THEN socket ELSE Closing(ws))
    /\ UNCHANGED <<session, timers, stopping, inbox, beacon_vars, faults>>

\* registerShutdown: first the socket, later the DELETE, which may fail
Shutdown ==
    /\ ~stopping
    /\ stopping' = TRUE
    /\ socket' = IF ws = NoSocket THEN socket ELSE Closing(ws)
    /\ UNCHANGED <<session, recycle, ws, timers, inbox, beacon_vars, faults>>

Unregister ==
    /\ stopping
    /\ session \in rows
    /\ rows' = rows \ {session}
    /\ UNCHANGED <<agent_vars, socket, connections, messages, faults>>

-----------------------------------------------------------------------------
\* The two ends are told at different times.
Cut(s) ==
    /\ Fault
    /\ ~socket[s].cut
    /\ s \notin Free
    /\ socket' = [socket EXCEPT ![s] = [@ EXCEPT !.cut = TRUE, !.frames = {}]]
    /\ UNCHANGED <<agent_vars, beacon_vars>>

\* The tables are on disk, the connections are not.
BeaconRestart ==
    /\ Fault
    /\ connections' = [n \in Session |-> NoSocket]
    /\ socket' = [s \in Socket |->
                    IF socket[s].client = "none" THEN NoEnd
                    ELSE [socket[s] EXCEPT !.server = "none", !.cut = TRUE, !.frames = {}]]
    /\ UNCHANGED <<agent_vars, rows, messages>>

LinkNext ==
    \/ \E s \in Socket : \/ Accept(s) \/ Refuse(s) \/ ServerClose(s) \/ ClientClose(s)
                         \/ Read(s) \/ Cut(s)
    \/ Reconnect
    \/ \E n \in 1..session : Deliver(n)
    \/ RecycleBegin
    \/ RecycleRegistered
    \/ RecycleUnregistered
    \/ RecycleReconnect
    \/ Shutdown
    \/ Unregister
    \/ BeaconRestart

LinkSpec == LinkInit /\ [][LinkNext]_link_vars

\* Both ends run, frames arrive and timers fire; MaxFaults bounds the failures.
FairLinkSpec ==
    /\ LinkSpec
    /\ \A s \in Socket : /\ WF_link_vars(Accept(s) \/ Refuse(s))
                         /\ WF_link_vars(ServerClose(s))
                         /\ WF_link_vars(ClientClose(s))
                         /\ WF_link_vars(Read(s))
    /\ WF_link_vars(Reconnect)
    /\ WF_link_vars(RecycleRegistered)
    /\ WF_link_vars(RecycleReconnect)

-----------------------------------------------------------------------------
\* Whom the beacon takes for connected has a socket that it has not seen end,
\* opened under that id: what sendToAgent is given is never let go silently
\* because the entry is an old one (ws-server.ts, connections, sendToAgent).
EntryIsOpen ==
    \A n \in Session : connections[n] # NoSocket =>
        /\ socket[connections[n]].server = "open"
        /\ socket[connections[n]].session = n

\* No message waits in the table while its agent is connected: what was sent
\* before the connection is on its way with the rest, and is read unless the
\* connection ends (ws-server.ts, "Deliver any unread messages on connect").
NothingWaitsLinked ==
    \A n \in Session : \A m \in Unread(n) :
        LET s == connections[n] IN
        s # NoSocket /\ Through(s) => m \in inbox \cup socket[s].frames

\* An agent that is registered and does not stop has an open socket again and
\* again, whatever refused or closed the ones before ("Retry forever",
\* websocket.ts:146).
AgentRetries ==
    <>[](~stopping /\ session \in rows)
        => []<>(\E s \in Socket : /\ Through(s)
                                  /\ socket[s].session = session)

\* "a live agent must always be reachable again" (websocket.ts:147): its beacon
\* knows a connection of it.
ReachableAgain ==
    <>[](~stopping /\ session \in rows) => []<>(connections[session] # NoSocket)
=============================================================================
