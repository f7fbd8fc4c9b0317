--------------------------- MODULE AgentLinkProofs ---------------------------
(***************************************************************************)
(* Proofs about AgentLink, for any number of sockets, sessions, messages   *)
(* and faults: its types, that whom the beacon takes for connected has a   *)
(* socket the beacon has not seen end, that no message waits for an agent  *)
(* that is connected or is sent to another session's socket, and that an   *)
(* agent has as many sockets and reconnects as it began connections.       *)
(***************************************************************************)
EXTENDS AgentLink, WellFoundedInduction, FiniteSetTheorems, TLAPS

Whole(r) == r \in SocketState

SocketsWhole ==
    /\ socket = [s \in Socket |-> socket[s]]
    /\ \A s \in Socket : Whole(socket[s])

IdsKnown ==
    /\ session \in Session
    /\ rows \subseteq Session
    /\ connections \in [Session -> Socket \cup {NoSocket}]

LinkInv == SocketsWhole /\ IdsKnown /\ EntryIsOpen

\* What does not depend on the sockets
TableKnown ==
    /\ messages \in Seq([to : Session, delivered : BOOLEAN])
    /\ Len(messages) <= MaxMessages

AgentKnown ==
    /\ ws \in Socket \cup {NoSocket}
    /\ recycle \in {"idle", "registering", "registered"}
    /\ timers \in Nat
    /\ stopping \in BOOLEAN
    /\ faults \in 0..MaxFaults

OwnKnown == TableKnown /\ AgentKnown /\ inbox \subseteq Message

-----------------------------------------------------------------------------
LEMMA LinkBounds == /\ MaxRecycles \in Nat /\ MaxSockets \in Nat \ {0}
                     /\ MaxMessages \in Nat /\ MaxFaults \in Nat
  BY AgentLinkAssumption

LEMMA Ids == 0 \notin Session /\ NoSocket \notin Socket
  BY LinkBounds DEF Session, Socket, NoSocket

\* Sockets change, but none that the beacon has open ends or is given another id.
Spares(r, q) == Whole(q) /\ (r.server = "open" => q.server = "open" /\ q.session = r.session)

LEMMA SocketsMove ==
    ASSUME LinkInv, connections' = connections, session' \in Session, rows' \subseteq Session,
           socket' = [s \in Socket |-> socket'[s]],
           \A s \in Socket : Spares(socket[s], socket'[s])
    PROVE  LinkInv'
  <1>1. SocketsWhole' /\ IdsKnown'
    BY DEF LinkInv, SocketsWhole, IdsKnown, Spares
  <1>2. EntryIsOpen'
    BY Ids DEF LinkInv, IdsKnown, EntryIsOpen, Spares
  <1> QED
    BY <1>1, <1>2 DEF LinkInv

\* One socket changes.
LEMMA SocketMoves ==
    ASSUME LinkInv, connections' = connections, session' \in Session, rows' \subseteq Session,
           NEW s \in Socket, NEW q, socket' = [socket EXCEPT ![s] = q], Spares(socket[s], q)
    PROVE  LinkInv'
  <1>1. \A x \in Socket : socket'[x] = IF x = s THEN q ELSE socket[x]
    BY DEF LinkInv, SocketsWhole
  <1>2. socket' = [x \in Socket |-> socket'[x]]
    BY DEF LinkInv, SocketsWhole
  <1>3. \A x \in Socket : Spares(socket[x], socket'[x])
    BY <1>1 DEF LinkInv, SocketsWhole, Spares
  <1> QED
    BY <1>2, <1>3, SocketsMove

\* A set of sockets has a first one.
LEMMA FirstOf ==
    ASSUME NEW F, F \subseteq Socket, F # {}
    PROVE  \E f \in F : \A g \in F : f <= g
  <1>1. F \subseteq Nat
    BY DEF Socket
  <1>2. IsWellFoundedOn(OpToRel(<, Nat), Nat)
    BY NatLessThanWellFounded, Zenon
  <1>3. PICK f \in F : \A g \in F : ~(<<g, f>> \in OpToRel(<, Nat))
    BY <1>1, <1>2, WFMin, Zenon
  <1>4. \A g \in F : ~(g < f)
    BY <1>1, <1>3 DEF OpToRel
  <1> QED
    BY <1>1, <1>4

\* What the actions make of a socket
LEMMA Ends ==
    ASSUME NEW r, Whole(r), NEW f, f \subseteq Message, NEW b \in BOOLEAN,
           NEW e \in {"none", "connecting", "open", "closing"}
    PROVE  /\ Spares(r, [r EXCEPT !.frames = f])
           /\ Spares(r, [r EXCEPT !.client = e, !.frames = f])
           /\ Spares(r, [r EXCEPT !.cut = b, !.frames = f])
           /\ Spares(r, [r EXCEPT !.client = e, !.cut = b])
           /\ r.server # "open" => Spares(r, NoEnd)
           /\ LET q == [r EXCEPT !.server = "none"] IN Whole(q)
           /\ LET q == [r EXCEPT !.server = "none", !.cut = b, !.frames = f] IN Whole(q)
  <1>1. /\ Spares(r, [r EXCEPT !.frames = f])
        /\ Spares(r, [r EXCEPT !.client = e, !.frames = f])
        /\ Spares(r, [r EXCEPT !.cut = b, !.frames = f])
        /\ Spares(r, [r EXCEPT !.client = e, !.cut = b])
    BY DEF Whole, Spares, SocketState
  <1>2. r.server # "open" => Spares(r, NoEnd)
    BY DEF Whole, Spares, NoEnd, SocketState
  <1>3. /\ LET q == [r EXCEPT !.server = "none"] IN Whole(q)
        /\ LET q == [r EXCEPT !.server = "none", !.cut = b, !.frames = f] IN Whole(q)
    BY DEF Whole, SocketState
  <1> QED
    BY <1>1, <1>2, <1>3

-----------------------------------------------------------------------------
LEMMA UnreadAreMessages ==
    ASSUME TableKnown, NEW n
    PROVE  Unread(n) \subseteq Message
  BY LinkBounds DEF TableKnown, Unread, Message

\* The beacon's end of a socket
LEMMA ServerSide ==
    ASSUME LinkInv, TableKnown, NEW s \in Socket, Accept(s) \/ Refuse(s) \/ ServerClose(s)
    PROVE  LinkInv'
  <1> DEFINE n == socket[s].session
  <1>1. Whole(socket[s]) /\ \A x \in Socket : Whole(socket[x])
    BY DEF LinkInv, SocketsWhole
  <1>2. CASE Accept(s)
    <2>1. /\ n \in rows /\ connections' = [connections EXCEPT ![n] = s]
          /\ session' = session /\ rows' = rows
      BY <1>2, Zenon DEF Accept, agent_vars
    <2>2. PICK e \in {"none", "connecting", "open", "closing"}, f \in SUBSET Message :
            socket' = [socket EXCEPT ![s] =
                        [socket[s] EXCEPT !.server = "open", !.client = e, !.frames = f]]
      <3> DEFINE lives == socket[s].client = "connecting"
                 e == IF lives THEN "open" ELSE "closing"
                 f == IF lives THEN Unread(n) ELSE {}
      <3>1. socket' = [socket EXCEPT ![s] =
                         [socket[s] EXCEPT !.server = "open", !.client = e, !.frames = f]]
        BY <1>2, Zenon DEF Accept
      <3>2. e \in {"none", "connecting", "open", "closing"}
        OBVIOUS
      <3>3. f \in SUBSET Message
        BY UnreadAreMessages
      <3> HIDE DEF e, f
      <3> QED
        BY <3>1, <3>2, <3>3
    <2> DEFINE q == [socket[s] EXCEPT !.server = "open", !.client = e, !.frames = f]
    <2>3. Whole(q) /\ q.server = "open" /\ q.session = n
      BY <1>1 DEF Whole, SocketState
    <2>4. socket' = [socket EXCEPT ![s] = q]
      BY <2>2
    <2> HIDE DEF q
    <2>5. /\ socket' = [x \in Socket |-> socket'[x]]
          /\ socket'[s] = q /\ \A x \in Socket \ {s} : socket'[x] = socket[x]
      BY <2>4 DEF LinkInv, SocketsWhole
    <2>6. SocketsWhole'
      BY <1>1, <2>3, <2>5 DEF SocketsWhole
    <2>7. n \in Session
      BY <2>1 DEF LinkInv, IdsKnown
    <2>8. /\ connections' \in [Session -> Socket \cup {NoSocket}]
          /\ connections'[n] = s /\ \A m \in Session \ {n} : connections'[m] = connections[m]
      BY <2>1, <2>7 DEF LinkInv, IdsKnown
    <2>9. IdsKnown'
      BY <2>1, <2>8 DEF LinkInv, IdsKnown
    <2>10. ASSUME NEW m \in Session, connections'[m] # NoSocket
           PROVE  /\ socket'[connections'[m]].server = "open"
                  /\ socket'[connections'[m]].session = m
      <3>1. CASE m = n
        BY <3>1, <2>3, <2>5, <2>8
      <3>2. CASE m # n
        <4>1. /\ connections'[m] = connections[m] /\ connections[m] \in Socket
              /\ socket[connections[m]].server = "open" /\ socket[connections[m]].session = m
          BY <3>2, <2>8, <2>10 DEF LinkInv, IdsKnown, EntryIsOpen
        <4> QED
          BY <3>2, <4>1, <2>5
      <3> QED
        BY <3>1, <3>2
    <2> QED
      BY <2>6, <2>9, <2>10 DEF LinkInv, EntryIsOpen
  <1>3. CASE Refuse(s)
    <2>1. /\ connections' = connections /\ session' = session /\ rows' = rows
          /\ socket' = [socket EXCEPT ![s] = [socket[s] EXCEPT !.client = "closing", !.cut = TRUE]]
      BY <1>3, Zenon DEF Refuse, agent_vars, beacon_vars
    <2> DEFINE q == [socket[s] EXCEPT !.client = "closing", !.cut = TRUE]
    <2>2. Spares(socket[s], q)
      BY <1>1, Ends
    <2>3. socket' = [socket EXCEPT ![s] = q]
      BY <2>1
    <2> HIDE DEF q
    <2>4. /\ connections' = connections /\ session' \in Session /\ rows' \subseteq Session
      BY <1>3 DEF Refuse, agent_vars, beacon_vars, LinkInv, IdsKnown
    <2> QED
      BY <2>2, <2>3, <2>4, SocketMoves
  <1>4. CASE ServerClose(s)
    <2>1. /\ connections' = [connections EXCEPT ![n] = NoSocket]
          /\ session' = session /\ rows' = rows
      BY <1>4, Zenon DEF ServerClose, agent_vars
    <2>2. PICK q : socket' = [socket EXCEPT ![s] = q] /\ Whole(q)
      <3>1. Whole(NoEnd)
        BY DEF Whole, NoEnd, SocketState
      <3>2. Whole([socket[s] EXCEPT !.server = "none"])
        BY <1>1, Ends
      <3>3. socket' = [socket EXCEPT ![s] =
                         IF socket[s].client = "none" THEN NoEnd
                         ELSE [socket[s] EXCEPT !.server = "none"]]
        BY <1>4, Zenon DEF ServerClose
      <3>4. CASE socket[s].client = "none"
        BY <3>1, <3>3, <3>4, Zenon
      <3>5. CASE socket[s].client # "none"
        BY <3>2, <3>3, <3>5, Zenon
      <3> QED
        BY <3>4, <3>5
    <2>3. /\ socket' = [x \in Socket |-> socket'[x]]
          /\ socket'[s] = q /\ \A x \in Socket \ {s} : socket'[x] = socket[x]
      BY <2>2 DEF LinkInv, SocketsWhole
    <2>4. SocketsWhole'
      BY <1>1, <2>2, <2>3 DEF SocketsWhole
    <2>5. /\ connections' \in [Session -> Socket \cup {NoSocket}]
          /\ \A m \in Session : connections'[m] = IF m = n THEN NoSocket ELSE connections[m]
      BY <2>1 DEF LinkInv, IdsKnown
    <2>6. IdsKnown'
      BY <2>1, <2>5 DEF LinkInv, IdsKnown
    <2>7. ASSUME NEW m \in Session, connections'[m] # NoSocket
          PROVE  /\ socket'[connections'[m]].server = "open"
                 /\ socket'[connections'[m]].session = m
      <3>1. /\ m # n /\ connections'[m] = connections[m] /\ connections[m] \in Socket
            /\ socket[connections[m]].server = "open" /\ socket[connections[m]].session = m
        BY <2>5, <2>7 DEF LinkInv, IdsKnown, EntryIsOpen
      <3> QED
        BY <2>3, <3>1
    <2> QED
      BY <2>4, <2>6, <2>7 DEF LinkInv, EntryIsOpen
  <1> QED
    BY <1>2, <1>3, <1>4

\* One end of a socket, or what is under way in it
LEMMA OneSocket ==
    ASSUME LinkInv, NEW s \in Socket, ClientClose(s) \/ Read(s) \/ Cut(s)
    PROVE  LinkInv'
  <1>1. Whole(socket[s])
    BY DEF LinkInv, SocketsWhole
  <1>2. session \in Session /\ rows \subseteq Session
    BY DEF LinkInv, IdsKnown
  <1>3. connections' = connections /\ session' = session /\ rows' = rows
    BY Zenon DEF ClientClose, Read, Cut, agent_vars, beacon_vars
  <1>4. \E q : socket' = [socket EXCEPT ![s] = q] /\ Spares(socket[s], q)
    <2>1. CASE ClientClose(s)
      <3>1. socket' = [socket EXCEPT ![s] =
                         IF socket[s].server = "none" THEN NoEnd
                         ELSE [socket[s] EXCEPT !.client = "none", !.frames = {}]]
        BY <2>1, Zenon DEF ClientClose
      <3>2. CASE socket[s].server = "none"
        <4>1. Spares(socket[s], NoEnd)
          BY <1>1, <3>2, Ends
        <4> QED
          BY <3>1, <3>2, <4>1, Zenon
      <3>3. CASE socket[s].server # "none"
        <4>1. Spares(socket[s], [socket[s] EXCEPT !.client = "none", !.frames = {}])
          BY <1>1, Ends
        <4> QED
          BY <3>1, <3>3, <4>1, Zenon
      <3> QED
        BY <3>2, <3>3
    <2>2. CASE Read(s)
      <3>1. PICK m \in socket[s].frames :
              socket' = [socket EXCEPT ![s] = [socket[s] EXCEPT !.frames = socket[s].frames \ {m}]]
        BY <2>2 DEF Read, LinkInv, SocketsWhole
      <3>2. socket[s].frames \ {m} \subseteq Message
        BY <1>1 DEF Whole, SocketState
      <3>3. Spares(socket[s], [socket[s] EXCEPT !.frames = socket[s].frames \ {m}])
        BY <1>1, <3>2, Ends
      <3> QED
        BY <3>1, <3>3, Zenon
    <2>3. CASE Cut(s)
      <3>1. socket' = [socket EXCEPT ![s] = [socket[s] EXCEPT !.cut = TRUE, !.frames = {}]]
        BY <2>3, Zenon DEF Cut
      <3>2. Spares(socket[s], [socket[s] EXCEPT !.cut = TRUE, !.frames = {}])
        BY <1>1, Ends
      <3> QED
        BY <3>1, <3>2, Zenon
    <2> QED
      BY <2>1, <2>2, <2>3
  <1>5. PICK q : socket' = [socket EXCEPT ![s] = q] /\ Spares(socket[s], q)
    BY <1>4
  <1> QED
    BY <1>2, <1>3, <1>5, SocketMoves

\* The agent closes a socket of its own.
LEMMA Closes ==
    ASSUME LinkInv, NEW s \in Socket
    PROVE  /\ Closing(s) = [x \in Socket |-> Closing(s)[x]]
           /\ \A x \in Socket : Spares(socket[x], Closing(s)[x])
  <1> DEFINE q == [socket[s] EXCEPT !.client = "closing", !.frames = {}]
  <1>1. Closing(s) = [socket EXCEPT ![s] = q]
    BY Zenon DEF Closing
  <1>2. Spares(socket[s], q)
    BY Ends DEF LinkInv, SocketsWhole
  <1> HIDE DEF q
  <1>3. \A x \in Socket : Spares(socket[x], socket[x])
    BY DEF LinkInv, SocketsWhole, Spares
  <1> QED
    BY <1>1, <1>2, <1>3 DEF LinkInv, SocketsWhole

\* A new socket is one that neither end knows.
LEMMA Opens ==
    ASSUME LinkInv, NEW k, k = [s \in Socket |-> k[s]],
           \A s \in Socket : Spares(socket[s], k[s]), Open(k)
    PROVE  /\ socket' = [s \in Socket |-> socket'[s]]
           /\ \A s \in Socket : Spares(socket[s], socket'[s])
  <1>1. PICK s \in Free : socket' = [k EXCEPT ![s] = NewSocket(session)]
    <2>1. \E f \in Free : \A g \in Free : f <= g
      <3>1. Free # {} /\ Free \subseteq Socket
        BY DEF Open, Free
      <3> QED
        BY <3>1, FirstOf
    <2> QED
      BY <2>1 DEF Open
  <1>2. s \in Socket /\ socket[s] = NoEnd
    BY DEF Free
  <1>3. Spares(socket[s], NewSocket(session))
    BY <1>2 DEF Spares, Whole, SocketState, NewSocket, NoEnd, LinkInv, IdsKnown
  <1> QED
    BY <1>1, <1>2, <1>3

\* The agent's own steps
LEMMA AgentSide ==
    ASSUME LinkInv, OwnKnown, Reconnect \/ RecycleReconnect \/ Shutdown
    PROVE  LinkInv'
  <1>1. /\ connections' = connections /\ session' = session /\ rows' = rows
        /\ session \in Session /\ rows \subseteq Session
    BY Zenon DEF Reconnect, RecycleReconnect, Shutdown, beacon_vars, LinkInv, IdsKnown
  <1>2. /\ socket = [s \in Socket |-> socket[s]]
        /\ \A s \in Socket : Spares(socket[s], socket[s])
    BY DEF LinkInv, SocketsWhole, Spares
  <1>3. ws \in Socket => /\ Closing(ws) = [s \in Socket |-> Closing(ws)[s]]
                         /\ \A s \in Socket : Spares(socket[s], Closing(ws)[s])
    BY Closes
  <1>4. ws \in Socket \cup {NoSocket}
    BY DEF OwnKnown, AgentKnown
  <1>5. /\ socket' = [s \in Socket |-> socket'[s]]
        /\ \A s \in Socket : Spares(socket[s], socket'[s])
    <2>1. CASE Reconnect
      BY <1>2, <2>1, Opens DEF Reconnect
    <2>2. CASE RecycleReconnect
      <3>1. CASE ws = NoSocket
        <4>1. Open(socket)
          BY <2>2, <3>1, Zenon DEF RecycleReconnect
        <4> QED
          BY <1>2, <4>1, Opens
      <3>2. CASE ws # NoSocket
        <4>1. Open(Closing(ws))
          BY <2>2, <3>2, Zenon DEF RecycleReconnect
        <4> QED
          BY <1>3, <1>4, <3>2, <4>1, Opens
      <3> QED
        BY <3>1, <3>2
    <2>3. CASE Shutdown
      <3>1. socket' = IF ws = NoSocket THEN socket ELSE Closing(ws)
        BY <2>3, Zenon DEF Shutdown
      <3>2. CASE ws = NoSocket
        BY <1>2, <3>1, <3>2
      <3>3. CASE ws # NoSocket
        <4>1. socket' = Closing(ws) /\ ws \in Socket
          BY <1>4, <3>1, <3>3
        <4> QED
          BY <1>3, <4>1
      <3> QED
        BY <3>2, <3>3
    <2> QED
      BY <2>1, <2>2, <2>3
  <1> QED
    BY <1>1, <1>5, SocketsMove

LEMMA OwnSocketKept ==
    ASSUME AgentKnown, [LinkNext]_link_vars
    PROVE  ws' \in Socket \cup {NoSocket}
  <1>1. Free \subseteq Socket
    BY DEF Free
  <1>2. ws' = ws \/ ws' = NoSocket \/ ws' \in Socket
    <2>1. CASE UNCHANGED link_vars
      BY <2>1, Zenon DEF link_vars
    <2>2. CASE \E s \in Socket : \/ Accept(s) \/ Refuse(s) \/ ServerClose(s) \/ ClientClose(s)
                                 \/ Read(s) \/ Cut(s)
      BY <2>2, Zenon DEF Accept, Refuse, ServerClose, ClientClose, Read, Cut, agent_vars
    <2>3. ASSUME NEW k, Open(k)
          PROVE  ws' \in Socket
      <3>1. Free # {}
        BY <2>3, Zenon DEF Open
      <3>2. \E f \in Free : \A g \in Free : f <= g
        BY <1>1, <3>1, FirstOf
      <3> QED
        BY <1>1, <2>3, <3>2 DEF Open
    <2>4. CASE Reconnect \/ RecycleReconnect
      BY <2>3, <2>4, Zenon DEF Reconnect, RecycleReconnect
    <2>5. CASE \E n \in 1..session : Deliver(n)
      BY <2>5, Zenon DEF Deliver, agent_vars
    <2>6. CASE \/ RecycleBegin \/ RecycleRegistered \/ RecycleUnregistered \/ Shutdown
               \/ Unregister \/ BeaconRestart
      BY <2>6, Zenon DEF RecycleBegin, RecycleRegistered, RecycleUnregistered, Shutdown,
                         Unregister, BeaconRestart, agent_vars
    <2> QED
      BY <2>1, <2>2, <2>4, <2>5, <2>6, Zenon DEF LinkNext
  <1> QED
    BY <1>2 DEF AgentKnown

\* The table of messages only grows, and by what there is room for.
LEMMA TableKept ==
    ASSUME LinkInv, TableKnown, [LinkNext]_link_vars
    PROVE  TableKnown'
  <1>1. CASE \E n \in 1..session : Deliver(n)
    <2>1. PICK n \in 1..session : Deliver(n)
      BY <1>1
    <2>2. n \in Session
      BY <2>1, LinkBounds DEF LinkInv, IdsKnown, Session
    <2>3. /\ Len(messages) + 1 <= MaxMessages
          /\ messages' = Append(messages, [to |-> n, delivered |-> connections[n] # NoSocket])
      BY <2>1 DEF Deliver
    <2>4. [to |-> n, delivered |-> connections[n] # NoSocket] \in [to : Session, delivered : BOOLEAN]
      BY <2>2
    <2> QED
      BY <2>3, <2>4 DEF TableKnown
  <1>2. CASE messages' = messages
    BY <1>2 DEF TableKnown
  <1>3. (\E n \in 1..session : Deliver(n)) \/ messages' = messages
    BY Zenon DEF LinkNext, link_vars, beacon_vars, Accept, Refuse, ServerClose, ClientClose, Read,
                 Cut, Reconnect, RecycleBegin, RecycleRegistered, RecycleUnregistered,
                 RecycleReconnect, Shutdown, Unregister, BeaconRestart
  <1> QED
    BY <1>1, <1>2, <1>3

\* What the agent remembers besides its socket, and the faults
LEMMA CountersKept ==
    ASSUME AgentKnown, [LinkNext]_link_vars
    PROVE  /\ recycle' \in {"idle", "registering", "registered"}
           /\ timers' \in Nat
           /\ stopping' \in BOOLEAN
           /\ faults' \in 0..MaxFaults
  <1>1. faults' = faults \/ Fault
    BY Zenon DEF LinkNext, link_vars, Accept, Refuse, ServerClose, ClientClose, Read, Cut, Reconnect,
                 Deliver, RecycleBegin, RecycleRegistered, RecycleUnregistered, RecycleReconnect,
                 Shutdown, Unregister, BeaconRestart
  <1>2. faults' \in 0..MaxFaults
    BY <1>1, LinkBounds DEF Fault, AgentKnown
  <1>3. timers' = timers \/ timers' = timers + 1 \/ (timers > 0 /\ timers' = timers - 1)
    BY Zenon DEF LinkNext, link_vars, agent_vars, Accept, Refuse, ServerClose, ClientClose, Read, Cut,
                 Reconnect, Deliver, RecycleBegin, RecycleRegistered, RecycleUnregistered,
                 RecycleReconnect, Shutdown, Unregister, BeaconRestart
  <1>4. timers' \in Nat
    BY <1>3 DEF AgentKnown
  <1>5. stopping' = stopping \/ stopping' = TRUE
    BY Zenon DEF LinkNext, link_vars, agent_vars, Accept, Refuse, ServerClose, ClientClose, Read, Cut,
                 Reconnect, Deliver, RecycleBegin, RecycleRegistered, RecycleUnregistered,
                 RecycleReconnect, Shutdown, Unregister, BeaconRestart
  <1>6. recycle' = recycle \/ recycle' \in {"idle", "registering", "registered"}
    BY Zenon DEF LinkNext, link_vars, agent_vars, Accept, Refuse, ServerClose, ClientClose, Read, Cut,
                 Reconnect, Deliver, RecycleBegin, RecycleRegistered, RecycleUnregistered,
                 RecycleReconnect, Shutdown, Unregister, BeaconRestart
  <1> QED
    BY <1>2, <1>4, <1>5, <1>6 DEF AgentKnown

\* Only what was under way in a socket is read.
LEMMA InboxKept ==
    ASSUME LinkInv, inbox \subseteq Message, [LinkNext]_link_vars
    PROVE  inbox' \subseteq Message
  <1>1. CASE \E s \in Socket : Read(s)
    <2>0. PICK s \in Socket : Read(s)
      BY <1>1
    <2>1. PICK m \in socket[s].frames : inbox' = inbox \cup {m}
      BY <2>0, Zenon DEF Read
    <2>2. m \in Message
      BY <2>1 DEF LinkInv, SocketsWhole, Whole, SocketState
    <2> QED
      BY <2>1, <2>2
  <1>2. (\E s \in Socket : Read(s)) \/ inbox' = inbox
    BY Zenon DEF LinkNext, link_vars, agent_vars, Accept, Refuse, ServerClose, ClientClose, Cut,
                 Reconnect, Deliver, RecycleBegin, RecycleRegistered, RecycleUnregistered,
                 RecycleReconnect, Shutdown, Unregister, BeaconRestart
  <1> QED
    BY <1>1, <1>2

LEMMA OwnKept ==
    ASSUME LinkInv, OwnKnown, [LinkNext]_link_vars
    PROVE  OwnKnown'
  <1>1. TableKnown'
    BY TableKept DEF OwnKnown
  <1>2. AgentKnown'
    BY OwnSocketKept, CountersKept DEF OwnKnown, AgentKnown
  <1> QED
    BY <1>1, <1>2, InboxKept DEF OwnKnown

\* Registrations, which leave every socket alone
LEMMA Registrations ==
    ASSUME LinkInv, RecycleBegin \/ RecycleRegistered \/ RecycleUnregistered \/ Unregister
    PROVE  LinkInv'
  <1>1. connections' = connections /\ socket' = socket /\ ws' = ws
    BY Zenon DEF RecycleBegin, RecycleRegistered, RecycleUnregistered, Unregister, agent_vars,
                 beacon_vars
  <1>2. session \in Session /\ rows \subseteq Session
    BY DEF LinkInv, IdsKnown
  <1>3. session' \in Session
    BY <1>2, LinkBounds DEF RecycleBegin, RecycleRegistered, RecycleUnregistered, Unregister,
                            agent_vars, Session
  <1>4. rows' \subseteq Session
    BY <1>2 DEF RecycleBegin, RecycleRegistered, RecycleUnregistered, Unregister, beacon_vars
  <1>5. socket' = [s \in Socket |-> socket'[s]] /\ \A s \in Socket : Spares(socket[s], socket'[s])
    BY <1>1 DEF LinkInv, SocketsWhole, Spares
  <1> QED
    BY <1>1, <1>3, <1>4, <1>5, SocketsMove

LEMMA Delivers ==
    ASSUME LinkInv, TableKnown, NEW n \in Nat, Deliver(n), n \in Session
    PROVE  LinkInv'
  <1> DEFINE s == connections[n]
             f == socket[s].frames \cup {Len(messages) + 1}
             q == [socket[s] EXCEPT !.frames = f]
  <1>1. /\ connections' = connections /\ session' = session /\ rows' = rows
        /\ session \in Session /\ rows \subseteq Session
    BY Zenon DEF Deliver, agent_vars, LinkInv, IdsKnown
  <1>2. socket' = [x \in Socket |-> socket[x]] \/ (s \in Socket /\ socket' = [socket EXCEPT ![s] = q])
    BY DEF Deliver, LinkInv, SocketsWhole, IdsKnown
  <1>3. CASE socket' = [x \in Socket |-> socket[x]]
    <2>1. \A x \in Socket : Spares(socket[x], socket'[x])
      BY <1>3 DEF LinkInv, SocketsWhole, Spares
    <2> QED
      BY <1>1, <1>3, <2>1, SocketsMove
  <1>4. CASE s \in Socket /\ socket' = [socket EXCEPT ![s] = q]
    <2>1. Spares(socket[s], q)
      <3>1. Whole(socket[s])
        BY <1>4 DEF LinkInv, SocketsWhole
      <3>2. f \subseteq Message
        BY <3>1, LinkBounds DEF Deliver, Message, TableKnown, Whole, SocketState
      <3> QED
        BY <3>1, <3>2, Ends
    <2> HIDE DEF s, q
    <2> QED
      BY <1>1, <1>4, <2>1, SocketMoves
  <1> QED
    BY <1>2, <1>3, <1>4

LEMMA Restarts ==
    ASSUME LinkInv, BeaconRestart
    PROVE  LinkInv'
  <1>1. /\ connections' = [n \in Session |-> NoSocket] /\ session' = session /\ rows' = rows
        /\ socket' = [s \in Socket |->
                       IF socket[s].client = "none" THEN NoEnd
                       ELSE [socket[s] EXCEPT !.server = "none", !.cut = TRUE, !.frames = {}]]
    BY Zenon DEF BeaconRestart, agent_vars
  <1>2. \A s \in Socket : Whole(NoEnd)
                          /\ Whole([socket[s] EXCEPT !.server = "none", !.cut = TRUE, !.frames = {}])
    <2>1. Whole(NoEnd)
      BY DEF Whole, NoEnd, SocketState
    <2> QED
      BY <2>1, Ends DEF LinkInv, SocketsWhole
  <1>3. SocketsWhole'
    <2>1. \A s \in Socket : \/ socket'[s] = NoEnd
                            \/ socket'[s] = [socket[s] EXCEPT !.server = "none", !.cut = TRUE,
                                                              !.frames = {}]
      BY <1>1, Zenon
    <2>2. \A s \in Socket : Whole(socket'[s])
      BY <1>2, <2>1, Zenon
    <2>3. socket' = [s \in Socket |-> socket'[s]]
      BY <1>1, Zenon
    <2> QED
      BY <2>2, <2>3 DEF SocketsWhole
  <1>4. /\ IdsKnown' /\ EntryIsOpen'
    <2>1. connections' = [n \in Session |-> NoSocket] /\ session' = session /\ rows' = rows
      BY <1>1, Zenon
    <2> QED
      BY <2>1 DEF LinkInv, IdsKnown, EntryIsOpen
  <1> QED
    BY <1>3, <1>4 DEF LinkInv

-----------------------------------------------------------------------------
LEMMA LinkStarts == LinkInit => LinkInv /\ OwnKnown /\ NothingWaitsLinked
  <1> SUFFICES ASSUME LinkInit
               PROVE  LinkInv /\ OwnKnown /\ NothingWaitsLinked
    OBVIOUS
  <1>1. 1 \in Session /\ 1 \in Socket
    BY LinkBounds DEF Session, Socket
  <1>2. Whole(NewSocket(1)) /\ Whole(NoEnd)
    BY <1>1 DEF Whole, SocketState, NewSocket, NoEnd
  <1>3. /\ socket = [s \in Socket |-> IF s = 1 THEN NewSocket(1) ELSE NoEnd]
        /\ session = 1 /\ rows = {1} /\ connections = [n \in Session |-> NoSocket]
    BY Zenon DEF LinkInit
  <1>4. SocketsWhole
    BY <1>2, <1>3 DEF SocketsWhole
  <1>5. IdsKnown /\ EntryIsOpen
    BY <1>1, <1>3 DEF IdsKnown, EntryIsOpen
  <1>6. OwnKnown
    <2>1. TableKnown
      BY LinkBounds DEF LinkInit, TableKnown
    <2>2. AgentKnown
      <3>1. ws = 1 /\ recycle = "idle" /\ timers = 0 /\ stopping = FALSE /\ faults = 0
        BY Zenon DEF LinkInit
      <3>2. ws \in Socket \cup {NoSocket}
        BY <1>1, <3>1
      <3>3. timers \in Nat /\ faults \in 0..MaxFaults
        BY <3>1, LinkBounds
      <3>4. recycle \in {"idle", "registering", "registered"} /\ stopping \in BOOLEAN
        BY <3>1
      <3> QED
        BY <3>2, <3>3, <3>4 DEF AgentKnown
    <2> QED
      BY <2>1, <2>2 DEF LinkInit, OwnKnown
  <1>7. NothingWaitsLinked
    BY <1>3 DEF NothingWaitsLinked
  <1> QED
    BY <1>4, <1>5, <1>6, <1>7 DEF LinkInv

LEMMA LinkSteps == LinkInv /\ OwnKnown /\ [LinkNext]_link_vars => LinkInv'
  <1> SUFFICES ASSUME LinkInv, OwnKnown, [LinkNext]_link_vars
               PROVE  LinkInv'
    OBVIOUS
  <1>1. CASE UNCHANGED link_vars
    BY <1>1 DEF link_vars, LinkInv, SocketsWhole, Whole, IdsKnown, EntryIsOpen
  <1>2. CASE \E s \in Socket : \/ Accept(s) \/ Refuse(s) \/ ServerClose(s) \/ ClientClose(s)
                               \/ Read(s) \/ Cut(s)
    BY <1>2, ServerSide, OneSocket DEF OwnKnown
  <1>3. CASE \E n \in 1..session : Deliver(n)
    <2>1. PICK n \in 1..session : Deliver(n)
      BY <1>3
    <2>2. n \in Nat /\ n \in Session
      BY <2>1, LinkBounds DEF LinkInv, IdsKnown, Session
    <2> QED
      BY <2>1, <2>2, Delivers DEF OwnKnown
  <1>4. CASE Reconnect \/ RecycleReconnect \/ Shutdown
    BY <1>4, AgentSide
  <1>5. CASE RecycleBegin \/ RecycleRegistered \/ RecycleUnregistered \/ Unregister
    BY <1>5, Registrations
  <1>6. CASE BeaconRestart
    BY <1>6, Restarts
  <1> QED
    BY <1>1, <1>2, <1>3, <1>4, <1>5, <1>6 DEF LinkNext

-----------------------------------------------------------------------------
\* A socket goes on carrying what it carried, was read out, or ends.
Carries(r, q) ==
    q.client = "open" /\ ~q.cut =>
        /\ r.client = "open" /\ ~r.cut
        /\ r.frames \subseteq inbox' \cup q.frames

\* A step that sends nothing leaves nothing waiting.
LEMMA Quiet ==
    ASSUME NothingWaitsLinked, LinkInv, messages' = messages, inbox \subseteq inbox',
           \A n \in Session : connections'[n] \in {connections[n], NoSocket},
           \A s \in Socket : Carries(socket[s], socket'[s])
    PROVE  NothingWaitsLinked'
  <1> SUFFICES ASSUME NEW n \in Session, NEW m \in Unread(n)', connections'[n] # NoSocket,
                      Through(connections[n])'
               PROVE  m \in inbox' \cup socket'[connections'[n]].frames
    BY DEF NothingWaitsLinked
  <1>1. m \in Unread(n) /\ connections'[n] = connections[n] /\ connections[n] \in Socket
    BY DEF Unread, LinkInv, IdsKnown
  <1>2. Carries(socket[connections[n]], socket'[connections[n]])
    BY <1>1
  <1>3. Through(connections[n])
    BY <1>1, <1>2 DEF Through, Carries
  <1>4. m \in inbox \cup socket[connections[n]].frames
    BY <1>1, <1>3 DEF NothingWaitsLinked
  <1>5. socket[connections[n]].frames \subseteq inbox' \cup socket'[connections[n]].frames
    BY <1>1, <1>2 DEF Through, Carries
  <1> QED
    BY <1>1, <1>4, <1>5

LEMMA OneCarries ==
    ASSUME LinkInv, NEW s \in Socket, NEW q, socket' = [socket EXCEPT ![s] = q],
           Carries(socket[s], q), inbox \subseteq inbox'
    PROVE  \A x \in Socket : Carries(socket[x], socket'[x])
  <1>1. \A x \in Socket : socket'[x] = IF x = s THEN q ELSE socket[x]
    BY DEF LinkInv, SocketsWhole
  <1>2. \A x \in Socket : Carries(socket[x], socket[x])
    BY DEF Carries
  <1> QED
    BY <1>1, <1>2

LEMMA Stops ==
    ASSUME NEW r, Whole(r)
    PROVE  /\ Carries(r, NoEnd)
           /\ Carries(r, [r EXCEPT !.client = "closing", !.cut = TRUE])
           /\ Carries(r, [r EXCEPT !.cut = TRUE, !.frames = {}])
           /\ Carries(r, [r EXCEPT !.client = "none", !.frames = {}])
           /\ Carries(r, [r EXCEPT !.server = "none"])
  BY DEF Carries, NoEnd, Whole, SocketState

LEMMA ServerSideQuiet ==
    ASSUME NothingWaitsLinked, LinkInv, NEW s \in Socket, Refuse(s) \/ ServerClose(s)
    PROVE  NothingWaitsLinked'
  <1>1. messages' = messages /\ inbox' = inbox
    BY Zenon DEF Refuse, ServerClose, agent_vars, beacon_vars
  <1>2. \A n \in Session : connections'[n] \in {connections[n], NoSocket}
    BY DEF Refuse, ServerClose, beacon_vars, LinkInv, IdsKnown
  <1>3. \A x \in Socket : Carries(socket[x], socket'[x])
    <2>1. Whole(socket[s])
      BY DEF LinkInv, SocketsWhole
    <2>2. PICK q : socket' = [socket EXCEPT ![s] = q] /\ Carries(socket[s], q)
      <3>1. CASE Refuse(s)
        BY <2>1, <3>1, Stops, Zenon DEF Refuse
      <3>2. CASE ServerClose(s) /\ socket[s].client = "none"
        BY <2>1, <3>2, Stops, Zenon DEF ServerClose
      <3>3. CASE ServerClose(s) /\ socket[s].client # "none"
        BY <2>1, <3>3, Stops, Zenon DEF ServerClose
      <3> QED
        BY <3>1, <3>2, <3>3
    <2> QED
      BY <1>1, <2>2, OneCarries
  <1> QED
    BY <1>1, <1>2, <1>3, Quiet

LEMMA OneSocketQuiet ==
    ASSUME NothingWaitsLinked, LinkInv, NEW s \in Socket, ClientClose(s) \/ Read(s) \/ Cut(s)
    PROVE  NothingWaitsLinked'
  <1>1. messages' = messages /\ connections' = connections
    BY Zenon DEF ClientClose, Read, Cut, beacon_vars
  <1>2. inbox \subseteq inbox'
    BY DEF ClientClose, Read, Cut, agent_vars
  <1>3. \A x \in Socket : Carries(socket[x], socket'[x])
    <2>1. CASE ClientClose(s) \/ Cut(s)
      <3>1. Whole(socket[s])
        BY DEF LinkInv, SocketsWhole
      <3>2. PICK q : socket' = [socket EXCEPT ![s] = q] /\ Carries(socket[s], q)
        <4>1. CASE Cut(s)
          BY <3>1, <4>1, Stops, Zenon DEF Cut
        <4>2. CASE ClientClose(s) /\ socket[s].server = "none"
          BY <3>1, <4>2, Stops, Zenon DEF ClientClose
        <4>3. CASE ClientClose(s) /\ socket[s].server # "none"
          BY <3>1, <4>3, Stops, Zenon DEF ClientClose
        <4> QED
          BY <2>1, <4>1, <4>2, <4>3
      <3> QED
        BY <1>2, <3>2, OneCarries
    <2>2. CASE Read(s)
      <3>1. PICK m \in socket[s].frames :
              /\ inbox' = inbox \cup {m}
              /\ socket' = [socket EXCEPT ![s] = [socket[s] EXCEPT !.frames = socket[s].frames \ {m}]]
        BY <2>2 DEF Read, LinkInv, SocketsWhole
      <3> QED
        BY <3>1 DEF Carries, LinkInv, SocketsWhole, Whole, SocketState
    <2> QED
      BY <2>1, <2>2
  <1> QED
    BY <1>1, <1>2, <1>3, Quiet

\* A connection gets all that is unread.
LEMMA AcceptSendsUnread ==
    ASSUME NothingWaitsLinked, LinkInv, NEW s \in Socket, Accept(s)
    PROVE  NothingWaitsLinked'
  <1> DEFINE n == socket[s].session
             lives == socket[s].client = "connecting"
             q == [socket[s] EXCEPT !.server = "open",
                                    !.client = IF lives THEN "open" ELSE "closing",
                                    !.frames = IF lives THEN Unread(n) ELSE {}]
  <1>1. /\ messages' = messages /\ inbox' = inbox
        /\ connections' = [connections EXCEPT ![n] = s]
        /\ socket' = [socket EXCEPT ![s] = q]
        /\ socket[s].client \in {"connecting", "closing"} /\ socket[s].server = "none"
        /\ n \in rows
    BY Zenon DEF Accept, agent_vars
  <1>2. /\ n \in Session /\ Whole(socket[s])
        /\ \A m \in Session : connections'[m] = IF m = n THEN s ELSE connections[m]
        /\ \A x \in Socket : socket'[x] = IF x = s THEN q ELSE socket[x]
    BY <1>1 DEF LinkInv, IdsKnown, SocketsWhole
  <1>3. q.client = "open" => q.frames = Unread(n)
    BY <1>1, <1>2 DEF Whole, SocketState
  <1> HIDE DEF q
  <1> SUFFICES ASSUME NEW k \in Session, NEW m \in Unread(k)', connections'[k] # NoSocket,
                      Through(connections[k])'
               PROVE  m \in inbox' \cup socket'[connections'[k]].frames
    BY DEF NothingWaitsLinked
  <1>4. m \in Unread(k)
    BY <1>1 DEF Unread
  <1>5. CASE k = n
    BY <1>2, <1>3, <1>4, <1>5 DEF Through
  <1>6. CASE k # n
    <2>1. /\ connections'[k] = connections[k] /\ connections[k] \in Socket
          /\ socket[connections[k]].server = "open"
      BY <1>2, <1>6 DEF LinkInv, IdsKnown, EntryIsOpen
    <2>2. socket'[connections[k]] = socket[connections[k]]
      BY <1>1, <1>2, <2>1
    <2>3. Through(connections[k])
      BY <2>1, <2>2 DEF Through
    <2> QED
      BY <1>1, <1>4, <2>1, <2>2, <2>3 DEF NothingWaitsLinked
  <1> QED
    BY <1>5, <1>6

\* A message is unread only when its agent has no entry.
LEMMA DeliverMarks ==
    ASSUME NothingWaitsLinked, LinkInv, TableKnown, NEW n \in Nat, Deliver(n), n \in Session
    PROVE  NothingWaitsLinked'
  <1> DEFINE s == connections[n]
             r == [to |-> n, delivered |-> s # NoSocket]
  <1>1. /\ connections' = connections /\ inbox' = inbox /\ messages' = Append(messages, r)
    BY Zenon DEF Deliver, agent_vars
  <1>2. \A x \in Socket : /\ socket'[x].client = socket[x].client /\ socket'[x].cut = socket[x].cut
                          /\ socket[x].frames \subseteq socket'[x].frames
    BY DEF Deliver, LinkInv, SocketsWhole, Whole, SocketState
  <1> SUFFICES ASSUME NEW k \in Session, NEW m \in Unread(k)', connections'[k] # NoSocket,
                      Through(connections[k])'
               PROVE  m \in inbox' \cup socket'[connections'[k]].frames
    BY DEF NothingWaitsLinked
  <1>3. connections[k] \in Socket /\ connections'[k] = connections[k]
    BY <1>1 DEF LinkInv, IdsKnown
  <1>4. m \in Unread(k)
    <2>1. m \in DOMAIN messages' /\ messages'[m].to = k /\ ~messages'[m].delivered
      BY DEF Unread
    <2>2. DOMAIN messages = 1..Len(messages) /\ DOMAIN messages' = 1..Len(messages) + 1
      BY <1>1 DEF TableKnown
    <2>3. CASE m = Len(messages) + 1
      <3>1. messages'[m] = r
        BY <1>1, <2>3 DEF TableKnown
      <3>2. k = n
        BY <2>1, <3>1
      <3>3. ~(s # NoSocket)
        <4>1. ~r.delivered
          BY <2>1, <3>1, Zenon
        <4>2. r.delivered = (s # NoSocket)
          OBVIOUS
        <4> HIDE DEF r
        <4> QED
          BY <4>1, <4>2
      <3> QED
        BY <1>1, <3>2, <3>3
    <2>4. CASE m # Len(messages) + 1
      <3>1. m \in DOMAIN messages /\ messages'[m] = messages[m]
        BY <1>1, <2>1, <2>2, <2>4 DEF TableKnown
      <3> QED
        BY <2>1, <3>1 DEF Unread
    <2> QED
      BY <2>3, <2>4
  <1>5. Through(connections[k])
    BY <1>2, <1>3 DEF Through
  <1> QED
    BY <1>1, <1>2, <1>3, <1>4, <1>5 DEF NothingWaitsLinked

\* What the agent opens is not open yet, and what it closes is no longer.
LEMMA AgentSideQuiet ==
    ASSUME NothingWaitsLinked, LinkInv, AgentKnown, Reconnect \/ RecycleReconnect \/ Shutdown
    PROVE  NothingWaitsLinked'
  <1>1. messages' = messages /\ connections' = connections /\ inbox' = inbox
    BY Zenon DEF Reconnect, RecycleReconnect, Shutdown, beacon_vars
  <1>2. \A x \in Socket : Carries(socket[x], socket[x])
    BY <1>1 DEF Carries
  <1>3. ws \in Socket => \A x \in Socket : Carries(socket[x], Closing(ws)[x])
    BY <1>1 DEF Carries, Closing, LinkInv, SocketsWhole, Whole, SocketState
  <1>4. ASSUME NEW k, k = [x \in Socket |-> k[x]], Open(k),
               \A x \in Socket : Carries(socket[x], k[x])
        PROVE  \A x \in Socket : Carries(socket[x], socket'[x])
    <2>1. PICK s \in Free : socket' = [k EXCEPT ![s] = NewSocket(session)]
      <3>1. Free # {} /\ Free \subseteq Socket
        BY <1>4 DEF Open, Free
      <3> QED
        BY <1>4, <3>1, FirstOf DEF Open
    <2>2. NewSocket(session).client # "open"
      BY DEF NewSocket
    <2> QED
      BY <1>4, <2>1, <2>2 DEF Carries
  <1>5. \A x \in Socket : Carries(socket[x], socket'[x])
    <2>1. CASE Reconnect
      BY <1>2, <1>4, <2>1 DEF Reconnect, LinkInv, SocketsWhole
    <2>2. CASE RecycleReconnect
      <3>1. CASE ws = NoSocket
        <4>1. Open(socket)
          BY <2>2, <3>1, Zenon DEF RecycleReconnect
        <4> QED
          BY <1>2, <1>4, <4>1 DEF LinkInv, SocketsWhole
      <3>2. CASE ws # NoSocket
        <4>1. Open(Closing(ws)) /\ ws \in Socket
          BY <2>2, <3>2 DEF RecycleReconnect, AgentKnown
        <4>2. Closing(ws) = [x \in Socket |-> Closing(ws)[x]]
          BY <4>1, Closes
        <4> QED
          BY <1>3, <1>4, <4>1, <4>2
      <3> QED
        BY <3>1, <3>2
    <2>3. CASE Shutdown
      BY <1>2, <1>3, <2>3 DEF Shutdown, AgentKnown
    <2> QED
      BY <2>1, <2>2, <2>3
  <1> QED
    BY <1>1, <1>5, Quiet

LEMMA WaitingSteps ==
    NothingWaitsLinked /\ LinkInv /\ OwnKnown /\ [LinkNext]_link_vars => NothingWaitsLinked'
  <1> SUFFICES ASSUME NothingWaitsLinked, LinkInv, OwnKnown, [LinkNext]_link_vars
               PROVE  NothingWaitsLinked'
    OBVIOUS
  <1>1. CASE \E s \in Socket : \/ Accept(s) \/ Refuse(s) \/ ServerClose(s) \/ ClientClose(s)
                               \/ Read(s) \/ Cut(s)
    BY <1>1, AcceptSendsUnread, ServerSideQuiet, OneSocketQuiet
  <1>2. CASE \E n \in 1..session : Deliver(n)
    <2>1. PICK n \in 1..session : Deliver(n)
      BY <1>2
    <2>2. n \in Nat /\ n \in Session
      BY <2>1, LinkBounds DEF LinkInv, IdsKnown, Session
    <2> QED
      BY <2>1, <2>2, DeliverMarks DEF OwnKnown
  <1>3. CASE Reconnect \/ RecycleReconnect \/ Shutdown
    BY <1>3, AgentSideQuiet DEF OwnKnown
  <1>4. CASE \/ RecycleBegin \/ RecycleRegistered \/ RecycleUnregistered \/ Unregister
             \/ UNCHANGED link_vars
    <2>1. /\ messages' = messages /\ connections' = connections /\ inbox' = inbox
          /\ socket' = socket
      BY <1>4, Zenon DEF RecycleBegin, RecycleRegistered, RecycleUnregistered, Unregister,
                         agent_vars, beacon_vars, link_vars
    <2> QED
      BY <2>1, Quiet DEF Carries
  <1>5. CASE BeaconRestart
    <2>1. messages' = messages /\ connections' = [n \in Session |-> NoSocket]
      BY <1>5, Zenon DEF BeaconRestart
    <2> QED
      BY <2>1 DEF NothingWaitsLinked
  <1> QED
    BY <1>1, <1>2, <1>3, <1>4, <1>5 DEF LinkNext

-----------------------------------------------------------------------------
(* Sessions, sockets, entries and messages stay within their types            *)
(* (websocket.ts and ws-server.ts, db/messages.ts).                           *)
THEOREM LinkTypeCorrect == LinkSpec => []LinkTypeOK
  <1>1. LinkInv /\ OwnKnown => LinkTypeOK
    BY DEF LinkInv, SocketsWhole, Whole, IdsKnown, OwnKnown, TableKnown, AgentKnown, LinkTypeOK
  <1>2. LinkInv /\ OwnKnown /\ [LinkNext]_link_vars => OwnKnown'
    BY OwnKept
  <1> QED
    BY <1>1, <1>2, LinkStarts, LinkSteps, PTL DEF LinkSpec

(* However sockets open, are cut, refused and closed at either end, in any     *)
(* order, and sessions are recycled: an entry of the beacon's map of           *)
(* connections is a socket it has not seen end, opened under that id           *)
(* (ws-server.ts, connections, sendToAgent).                                  *)
THEOREM EntriesOpen == LinkSpec => []EntryIsOpen
  <1>1. LinkInv => EntryIsOpen
    BY DEF LinkInv
  <1>2. LinkInv /\ OwnKnown /\ [LinkNext]_link_vars => OwnKnown'
    BY OwnKept
  <1> QED
    BY <1>1, <1>2, LinkStarts, LinkSteps, PTL DEF LinkSpec

(* A message that is not marked delivered does not wait in the table of a      *)
(* beacon whose agent is connected: it is under way in that connection, or     *)
(* read (ws-server.ts, "Deliver any unread messages on connect").              *)
THEOREM NothingWaits == LinkSpec => []NothingWaitsLinked
  <1>1. LinkInv /\ OwnKnown /\ [LinkNext]_link_vars => OwnKnown'
    BY OwnKept
  <1> QED
    BY <1>1, LinkStarts, LinkSteps, WaitingSteps, PTL DEF LinkSpec

-----------------------------------------------------------------------------
(***************************************************************************)
(* How the agent comes back.  That it is connected again and again is      *)
(* liveness; what it rests on is a count that no step can upset.           *)
(***************************************************************************)

\* Sockets whose end the agent has not seen
Clients == {s \in Socket : socket[s].client # "none"}

\* A socket that ends schedules a reconnect, which opens a socket.
Lines == timers + Cardinality(Clients)

\* The first connection, and one for each recycle that has come to its end
LinesOpened == session - IF recycle = "idle" THEN 0 ELSE 1

(* An agent that does not stop has a socket or a reconnect scheduled for each  *)
(* connection it ever began, no more and no fewer: none is lost by a refusal, *)
(* a cut, a restart or a recycle, and none is begun twice (websocket.ts,      *)
(* onclose; hooks.ts, recycleSwarmSession).                                   *)
LinesCounted ==
    /\ Lines <= LinesOpened
    /\ stopping \/ Lines = LinesOpened

\* The agent's socket is one whose end it has not seen.
OwnSocketUp == ws # NoSocket => socket[ws].client # "none"

SameEnd(r, q) == (r.client = "none") <=> (q.client = "none")

LEMMA SocketsFinite == IsFiniteSet(Socket) /\ \A S \in SUBSET Socket : IsFiniteSet(S)
  <1>1. IsFiniteSet(Socket)
    BY LinkBounds, FS_Interval DEF Socket
  <1> QED BY <1>1, FS_Subset

LEMMA EndsSame ==
    ASSUME \A s \in Socket : SameEnd(socket[s], socket'[s])
    PROVE  Clients' = Clients
  BY DEF Clients, SameEnd

LEMMA OneEndSame ==
    ASSUME LinkInv, NEW s \in Socket, NEW q, socket' = [socket EXCEPT ![s] = q],
           SameEnd(socket[s], q)
    PROVE  \A x \in Socket : SameEnd(socket[x], socket'[x])
  BY DEF LinkInv, SocketsWhole, SameEnd

\* What the actions make of a socket's own end
LEMMA EndKept ==
    ASSUME NEW r, Whole(r), NEW f, NEW b
    PROVE  /\ SameEnd(r, [r EXCEPT !.frames = f])
           /\ SameEnd(r, [r EXCEPT !.cut = b, !.frames = f])
           /\ SameEnd(r, [r EXCEPT !.server = "none"])
           /\ SameEnd(r, [r EXCEPT !.server = "none", !.cut = b, !.frames = f])
           /\ r.client = "none" => SameEnd(r, NoEnd)
           /\ r.client # "none" => /\ SameEnd(r, [r EXCEPT !.client = "closing", !.frames = f])
                                   /\ SameEnd(r, [r EXCEPT !.client = "closing", !.cut = b])
  BY DEF SameEnd, Whole, SocketState, NoEnd

\* The steps of the beacon, of the network and of onmessage close no end of the agent.
LEMMA OthersKeepEnds ==
    ASSUME LinkInv, NEW s \in Socket,
           Accept(s) \/ Refuse(s) \/ ServerClose(s) \/ Read(s) \/ Cut(s)
    PROVE  \A x \in Socket : SameEnd(socket[x], socket'[x])
  <1>1. Whole(socket[s])
    BY DEF LinkInv, SocketsWhole
  <1>2. \E q : socket' = [socket EXCEPT ![s] = q] /\ SameEnd(socket[s], q)
    <2>1. CASE Accept(s)
      <3> DEFINE e == IF socket[s].client = "connecting" THEN "open" ELSE "closing"
                 f == IF socket[s].client = "connecting" THEN Unread(socket[s].session) ELSE {}
      <3>1. /\ socket' = [socket EXCEPT ![s] =
                           [socket[s] EXCEPT !.server = "open", !.client = e, !.frames = f]]
            /\ socket[s].client # "none"
        BY <2>1, Zenon DEF Accept
      <3>2. e # "none"
        OBVIOUS
      <3> HIDE DEF e, f
      <3>3. SameEnd(socket[s], [socket[s] EXCEPT !.server = "open", !.client = e, !.frames = f])
        BY <1>1, <3>1, <3>2 DEF SameEnd, Whole, SocketState
      <3> QED BY <3>1, <3>3, Zenon
    <2>2. CASE Refuse(s)
      BY <1>1, <2>2, EndKept, Zenon DEF Refuse
    <2>3. CASE ServerClose(s) /\ socket[s].client = "none"
      BY <1>1, <2>3, EndKept, Zenon DEF ServerClose
    <2>4. CASE ServerClose(s) /\ socket[s].client # "none"
      BY <1>1, <2>4, EndKept, Zenon DEF ServerClose
    <2>5. CASE Read(s)
      <3>1. PICK m \in socket[s].frames :
              socket' = [socket EXCEPT ![s] = [socket[s] EXCEPT !.frames = socket[s].frames \ {m}]]
        BY <2>5 DEF Read, LinkInv, SocketsWhole
      <3> QED BY <1>1, <3>1, EndKept, Zenon
    <2>6. CASE Cut(s)
      BY <1>1, <2>6, EndKept, Zenon DEF Cut
    <2> QED BY <2>1, <2>2, <2>3, <2>4, <2>5, <2>6
  <1> QED BY <1>2, OneEndSame

\* Steps that neither begin nor end a connection of the agent
LEMMA LinesKept ==
    ASSUME LinesCounted, OwnSocketUp, AgentKnown,
           \A s \in Socket : SameEnd(socket[s], socket'[s]),
           ws' = ws, timers' = timers, LinesOpened' = LinesOpened, stopping => stopping'
    PROVE  LinesCounted' /\ OwnSocketUp'
  <1>1. Lines' = Lines
    BY EndsSame DEF Lines
  <1>2. OwnSocketUp'
    BY DEF OwnSocketUp, AgentKnown, SameEnd
  <1> QED BY <1>1, <1>2 DEF LinesCounted

\* A connection begins: of the sockets as k has them, one that is free is taken.
LEMMA OpenAdds ==
    ASSUME LinkInv, NEW k, k = [s \in Socket |-> k[s]],
           \A s \in Socket : SameEnd(socket[s], k[s]), Open(k)
    PROVE  /\ Cardinality(Clients') = Cardinality(Clients) + 1
           /\ OwnSocketUp'
  <1>1. PICK s \in Free : ws' = s /\ socket' = [k EXCEPT ![s] = NewSocket(session)]
    <2>1. Free # {} /\ Free \subseteq Socket
      BY DEF Open, Free
    <2> QED BY <2>1, FirstOf DEF Open
  <1>2. s \in Socket /\ s \notin Clients
    BY DEF Free, Clients, NoEnd
  <1>3. \A x \in Socket : socket'[x] = IF x = s THEN NewSocket(session) ELSE k[x]
    BY <1>1, <1>2
  <1>4. NewSocket(session).client # "none"
    BY DEF NewSocket
  <1>5. Clients' = Clients \cup {s}
    BY <1>2, <1>3, <1>4 DEF Clients, SameEnd
  <1>6. Cardinality(Clients \cup {s}) = Cardinality(Clients) + 1
    <2>1. IsFiniteSet(Clients)
      BY SocketsFinite DEF Clients
    <2> QED BY <1>2, <2>1, FS_AddElement
  <1> QED BY <1>1, <1>2, <1>3, <1>4, <1>5, <1>6 DEF OwnSocketUp

\* onclose: one socket less, and a timer more unless the agent stops
LEMMA CloseCounted ==
    ASSUME LinkInv, AgentKnown, LinesCounted, NEW s \in Socket, ClientClose(s)
    PROVE  LinesCounted' /\ OwnSocketUp'
  <1>1. /\ socket[s].client # "none"
        /\ socket' = [socket EXCEPT ![s] =
                        IF socket[s].server = "none" THEN NoEnd
                        ELSE [socket[s] EXCEPT !.client = "none", !.frames = {}]]
        /\ ws' = NoSocket
        /\ timers' = IF stopping THEN timers ELSE timers + 1
        /\ session' = session /\ recycle' = recycle /\ stopping' = stopping
    BY Zenon DEF ClientClose
  <1>2. Whole(socket[s])
    BY DEF LinkInv, SocketsWhole
  <1>3. socket'[s].client = "none" /\ \A x \in Socket \ {s} : socket'[x] = socket[x]
    BY <1>1, <1>2 DEF NoEnd, Whole, SocketState, LinkInv, SocketsWhole
  <1>4. Clients' = Clients \ {s} /\ s \in Clients
    BY <1>1, <1>3 DEF Clients
  <1>5. Cardinality(Clients \ {s}) = Cardinality(Clients) - 1 /\ Cardinality(Clients) \in Nat
    <2>1. IsFiniteSet(Clients)
      BY SocketsFinite DEF Clients
    <2> QED BY <1>4, <2>1, FS_RemoveElement, FS_CardinalityType
  <1>6. LinesOpened' = LinesOpened /\ LinesOpened \in Int
    <2>1. session \in Int
      BY LinkBounds DEF LinkInv, IdsKnown, Session
    <2> QED BY <1>1, <2>1 DEF LinesOpened
  <1>7. CASE stopping
    <2>1. Lines' = Lines - 1 /\ Lines \in Int
      BY <1>1, <1>4, <1>5, <1>7 DEF Lines, AgentKnown
    <2> QED BY <1>1, <1>6, <1>7, <2>1 DEF LinesCounted, OwnSocketUp
  <1>8. CASE ~stopping
    <2>1. Lines' = Lines
      BY <1>1, <1>4, <1>5, <1>8 DEF Lines, AgentKnown
    <2> QED BY <1>1, <1>6, <1>8, <2>1 DEF LinesCounted, OwnSocketUp
  <1> QED BY <1>7, <1>8, Zenon DEF AgentKnown

LEMMA LinesStep ==
    ASSUME LinkInv, OwnKnown, LinesCounted, OwnSocketUp, [LinkNext]_link_vars
    PROVE  LinesCounted' /\ OwnSocketUp'
  <1>0. /\ AgentKnown /\ session \in Int /\ timers \in Nat /\ Cardinality(Clients) \in Nat
        /\ ws \in Socket \cup {NoSocket}
    <2>1. IsFiniteSet(Clients)
      BY SocketsFinite DEF Clients
    <2> QED
      BY <2>1, FS_CardinalityType, LinkBounds
         DEF LinkInv, IdsKnown, Session, OwnKnown, AgentKnown
  <1>1. ASSUME NEW s \in Socket, Accept(s) \/ Refuse(s) \/ ServerClose(s) \/ Read(s) \/ Cut(s)
        PROVE  LinesCounted' /\ OwnSocketUp'
    <2>1. /\ ws' = ws /\ timers' = timers /\ stopping' = stopping
          /\ session' = session /\ recycle' = recycle
      BY <1>1 DEF Accept, Refuse, ServerClose, Read, Cut, agent_vars
    <2> QED BY <1>0, <1>1, <2>1, OthersKeepEnds, LinesKept DEF LinesOpened
  <1>2. ASSUME NEW s \in Socket, ClientClose(s)
        PROVE  LinesCounted' /\ OwnSocketUp'
    BY <1>0, <1>2, CloseCounted
  <1>3. CASE Reconnect
    <2>1. /\ timers' = timers - 1 /\ Open(socket)
          /\ session' = session /\ recycle' = recycle /\ stopping' = stopping
      BY <1>3, Zenon DEF Reconnect
    <2>2. Cardinality(Clients') = Cardinality(Clients) + 1 /\ OwnSocketUp'
      BY <2>1, OpenAdds DEF LinkInv, SocketsWhole, SameEnd
    <2>3. Lines' = Lines /\ LinesOpened' = LinesOpened
      BY <1>0, <2>1, <2>2 DEF Lines, LinesOpened
    <2> QED BY <2>1, <2>2, <2>3 DEF LinesCounted
  <1>4. ASSUME ws # NoSocket
        PROVE  /\ Closing(ws) = [s \in Socket |-> Closing(ws)[s]]
               /\ \A s \in Socket : SameEnd(socket[s], Closing(ws)[s])
    <2>1. ws \in Socket /\ socket[ws].client # "none" /\ Whole(socket[ws])
      BY <1>0, <1>4 DEF OwnSocketUp, LinkInv, SocketsWhole
    <2> DEFINE q == [socket[ws] EXCEPT !.client = "closing", !.frames = {}]
    <2>2. Closing(ws) = [socket EXCEPT ![ws] = q]
      BY Zenon DEF Closing
    <2>3. SameEnd(socket[ws], q)
      BY <2>1, EndKept
    <2> HIDE DEF q
    <2> QED BY <2>1, <2>2, <2>3, Closes DEF LinkInv, SocketsWhole, SameEnd
  <1>5. CASE RecycleReconnect
    <2>1. /\ recycle = "registered" /\ recycle' = "idle"
          /\ Open(IF ws = NoSocket THEN socket ELSE Closing(ws))
          /\ session' = session /\ timers' = timers /\ stopping' = stopping
      BY <1>5, Zenon DEF RecycleReconnect
    <2>2. Cardinality(Clients') = Cardinality(Clients) + 1 /\ OwnSocketUp'
      <3>1. CASE ws = NoSocket
        <4>1. Open(socket)
          BY <2>1, <3>1, Zenon
        <4> QED BY <4>1, OpenAdds DEF LinkInv, SocketsWhole, SameEnd
      <3>2. CASE ws # NoSocket
        <4>1. Open(Closing(ws))
          BY <2>1, <3>2, Zenon
        <4> QED BY <1>4, <3>2, <4>1, OpenAdds
      <3> QED BY <3>1, <3>2
    <2>3. Lines' = Lines + 1 /\ LinesOpened' = LinesOpened + 1 /\ Lines \in Int /\ LinesOpened \in Int
      BY <1>0, <2>1, <2>2 DEF Lines, LinesOpened
    <2> QED BY <2>1, <2>2, <2>3 DEF LinesCounted
  <1>6. CASE Shutdown
    <2>1. /\ stopping' = TRUE /\ ws' = ws /\ timers' = timers
          /\ session' = session /\ recycle' = recycle
          /\ socket' = IF ws = NoSocket THEN socket ELSE Closing(ws)
      BY <1>6, Zenon DEF Shutdown
    <2>2. \A s \in Socket : SameEnd(socket[s], socket'[s])
      <3>1. CASE ws = NoSocket
        BY <2>1, <3>1 DEF SameEnd
      <3>2. CASE ws # NoSocket
        BY <1>4, <2>1, <3>2, Zenon
      <3> QED BY <3>1, <3>2
    <2> QED BY <1>0, <2>1, <2>2, LinesKept DEF LinesOpened
  <1>7. ASSUME socket' = socket, ws' = ws, timers' = timers, stopping' = stopping,
               LinesOpened' = LinesOpened
        PROVE  LinesCounted' /\ OwnSocketUp'
    <2>1. \A s \in Socket : SameEnd(socket[s], socket'[s])
      BY <1>7 DEF SameEnd
    <2> QED BY <1>0, <1>7, <2>1, LinesKept
  <1>8. CASE RecycleBegin
    <2>1. recycle = "idle" /\ session' = session + 1 /\ recycle' = "registering"
      BY <1>8, Zenon DEF RecycleBegin
    <2>2. LinesOpened' = LinesOpened
      BY <1>0, <2>1 DEF LinesOpened
    <2> QED BY <1>7, <1>8, <2>2 DEF RecycleBegin
  <1>9. CASE RecycleRegistered \/ RecycleUnregistered
    <2>1. recycle = "registering" /\ recycle' = "registered" /\ session' = session
      BY <1>9, Zenon DEF RecycleRegistered, RecycleUnregistered
    <2>2. LinesOpened' = LinesOpened
      BY <2>1 DEF LinesOpened
    <2> QED BY <1>7, <1>9, <2>2 DEF RecycleRegistered, RecycleUnregistered
  <1>10. CASE Unregister \/ UNCHANGED link_vars
    <2>1. LinesOpened' = LinesOpened
      BY <1>10 DEF Unregister, agent_vars, link_vars, LinesOpened
    <2> QED BY <1>7, <1>10, <2>1 DEF Unregister, agent_vars, link_vars
  <1>11. ASSUME NEW n \in 1..session, Deliver(n)
         PROVE  LinesCounted' /\ OwnSocketUp'
    <2>1. /\ ws' = ws /\ timers' = timers /\ stopping' = stopping
          /\ session' = session /\ recycle' = recycle
      BY <1>11 DEF Deliver, agent_vars
    <2>2. \A s \in Socket : socket'[s].client = socket[s].client
      BY <1>11 DEF Deliver, LinkInv, SocketsWhole, Whole, SocketState
    <2> QED BY <1>0, <2>1, <2>2, LinesKept DEF SameEnd, LinesOpened
  <1>12. CASE BeaconRestart
    <2>1. /\ ws' = ws /\ timers' = timers /\ stopping' = stopping
          /\ session' = session /\ recycle' = recycle
      BY <1>12 DEF BeaconRestart, agent_vars
    <2>2. \A s \in Socket : \/ socket[s].client = "none" /\ socket'[s] = NoEnd
                            \/ socket'[s] = [socket[s] EXCEPT !.server = "none", !.cut = TRUE,
                                                              !.frames = {}]
      BY <1>12, Zenon DEF BeaconRestart
    <2>3. \A s \in Socket : SameEnd(socket[s], socket'[s])
      <3> TAKE s \in Socket
      <3>1. Whole(socket[s])
        BY DEF LinkInv, SocketsWhole
      <3>2. SameEnd(socket[s], [socket[s] EXCEPT !.server = "none", !.cut = TRUE, !.frames = {}])
        BY <3>1, EndKept
      <3>3. socket[s].client = "none" => SameEnd(socket[s], NoEnd)
        BY <3>1, EndKept
      <3> QED BY <2>2, <3>2, <3>3, Zenon
    <2> QED BY <1>0, <2>1, <2>3, LinesKept DEF LinesOpened
  <1> QED
    BY <1>1, <1>2, <1>3, <1>5, <1>6, <1>8, <1>9, <1>10, <1>11, <1>12 DEF LinkNext

(* Whatever is cut, refused or restarted, an agent keeps as many sockets and    *)
(* scheduled reconnects as it began connections, so it can always come back;  *)
(* and a recycle adds one for good, because the close of the old socket        *)
(* schedules a reconnect too.                                                 *)
THEOREM LinesAreCounted == LinkSpec => []LinesCounted
  <1>1. LinkInit => LinesCounted /\ OwnSocketUp
    <2> SUFFICES ASSUME LinkInit
                 PROVE  LinesCounted /\ OwnSocketUp
      OBVIOUS
    <2>1. Clients = {1}
      <3>1. 1 \in Socket
        BY LinkBounds DEF Socket
      <3>2. \A s \in Socket : socket[s] = IF s = 1 THEN NewSocket(1) ELSE NoEnd
        BY Zenon DEF LinkInit
      <3>3. NewSocket(1).client # "none" /\ NoEnd.client = "none"
        BY DEF NewSocket, NoEnd
      <3>4. \A s \in Socket : socket[s].client # "none" <=> s = 1
        BY <3>2, <3>3
      <3> QED BY <3>1, <3>4 DEF Clients
    <2>2. Cardinality({1}) = 1
      BY FS_Singleton
    <2>3. Lines = 1 /\ LinesOpened = 1
      BY <2>1, <2>2 DEF LinkInit, Lines, LinesOpened
    <2>4. 1 \in Socket
      BY LinkBounds DEF Socket
    <2> QED BY <2>3, <2>4 DEF LinkInit, LinesCounted, OwnSocketUp, NewSocket
  <1>2. LinkInv /\ OwnKnown /\ [LinkNext]_link_vars => OwnKnown'
    BY OwnKept
  <1>3. /\ LinkInv /\ OwnKnown /\ LinesCounted /\ OwnSocketUp /\ [LinkNext]_link_vars
        => LinesCounted' /\ OwnSocketUp'
    BY LinesStep
  <1> QED
    BY <1>1, <1>2, <1>3, LinkStarts, LinkSteps, PTL DEF LinkSpec
-----------------------------------------------------------------------------
(***************************************************************************)
(* Whom messages reach                                                     *)
(***************************************************************************)

\* The messages under way in q were under way in r, which is of the same session.
OnlyOld(r, q) == q.frames # {} => q.session = r.session /\ q.frames \subseteq r.frames

ForSession(q) == \A m \in q.frames : m \in DOMAIN messages /\ messages[m].to = q.session

(* A socket carries only messages for the session under which it was opened:   *)
(* a recycle, a late close or a connection that replaces another never lets a  *)
(* message for one session go out to another one (ws-server.ts, sendToAgent).  *)
FramesAddressed == \A s \in Socket : ForSession(socket[s])

LEMMA AddressesKept ==
    ASSUME FramesAddressed, messages' = messages,
           \A s \in Socket : OnlyOld(socket[s], socket'[s])
    PROVE  FramesAddressed'
  BY DEF FramesAddressed, ForSession, OnlyOld

LEMMA OneAddressed ==
    ASSUME LinkInv, FramesAddressed, messages' = messages, NEW s \in Socket, NEW q,
           socket' = [socket EXCEPT ![s] = q], OnlyOld(socket[s], q)
    PROVE  FramesAddressed'
  <1>1. \A x \in Socket : OnlyOld(socket[x], socket'[x])
    BY DEF LinkInv, SocketsWhole, OnlyOld
  <1> QED BY <1>1, AddressesKept

LEMMA FewerFrames ==
    ASSUME NEW r, Whole(r)
    PROVE  /\ OnlyOld(r, NoEnd)
           /\ \A n : OnlyOld(r, NewSocket(n))
           /\ OnlyOld(r, [r EXCEPT !.client = "closing", !.cut = TRUE])
           /\ OnlyOld(r, [r EXCEPT !.client = "closing", !.frames = {}])
           /\ OnlyOld(r, [r EXCEPT !.client = "none", !.frames = {}])
           /\ OnlyOld(r, [r EXCEPT !.cut = TRUE, !.frames = {}])
           /\ OnlyOld(r, [r EXCEPT !.server = "none"])
           /\ OnlyOld(r, [r EXCEPT !.server = "none", !.cut = TRUE, !.frames = {}])
           /\ \A m : OnlyOld(r, [r EXCEPT !.frames = r.frames \ {m}])
  BY DEF OnlyOld, Whole, SocketState, NoEnd, NewSocket

LEMMA SocketStepAddressed ==
    ASSUME LinkInv, FramesAddressed, NEW s \in Socket,
           \/ Accept(s) \/ Refuse(s) \/ ServerClose(s) \/ ClientClose(s) \/ Read(s) \/ Cut(s)
    PROVE  FramesAddressed'
  <1>1. Whole(socket[s])
    BY DEF LinkInv, SocketsWhole
  <1>2. messages' = messages
    BY Zenon DEF Accept, Refuse, ServerClose, ClientClose, Read, Cut, beacon_vars
  <1>3. CASE Accept(s)
    <2> DEFINE n == socket[s].session
               e == IF socket[s].client = "connecting" THEN "open" ELSE "closing"
               f == IF socket[s].client = "connecting" THEN Unread(n) ELSE {}
               q == [socket[s] EXCEPT !.server = "open", !.client = e, !.frames = f]
    <2>1. socket' = [socket EXCEPT ![s] = q]
      BY <1>3, Zenon DEF Accept
    <2>2. q.frames = f /\ q.session = n
      BY <1>1 DEF Whole, SocketState
    <2>3. \A m \in f : m \in DOMAIN messages /\ messages[m].to = n
      BY DEF Unread
    <2> HIDE DEF q, f
    <2>4. \A x \in Socket : socket'[x] = IF x = s THEN q ELSE socket[x]
      BY <2>1 DEF LinkInv, SocketsWhole
    <2> QED BY <1>2, <2>2, <2>3, <2>4 DEF FramesAddressed, ForSession
  <1>4. CASE ~Accept(s)
    <2>1. \E q : socket' = [socket EXCEPT ![s] = q] /\ OnlyOld(socket[s], q)
      <3>1. CASE Refuse(s)
        BY <1>1, <3>1, FewerFrames, Zenon DEF Refuse
      <3>2. CASE ServerClose(s) /\ socket[s].client = "none"
        BY <1>1, <3>2, FewerFrames, Zenon DEF ServerClose
      <3>3. CASE ServerClose(s) /\ socket[s].client # "none"
        BY <1>1, <3>3, FewerFrames, Zenon DEF ServerClose
      <3>4. CASE ClientClose(s) /\ socket[s].server = "none"
        BY <1>1, <3>4, FewerFrames, Zenon DEF ClientClose
      <3>5. CASE ClientClose(s) /\ socket[s].server # "none"
        BY <1>1, <3>5, FewerFrames, Zenon DEF ClientClose
      <3>6. CASE Read(s)
        <4>1. PICK m \in socket[s].frames :
                socket' = [socket EXCEPT ![s] =
                             [socket[s] EXCEPT !.frames = socket[s].frames \ {m}]]
          BY <3>6 DEF Read, LinkInv, SocketsWhole
        <4> QED BY <1>1, <4>1, FewerFrames, Zenon
      <3>7. CASE Cut(s)
        BY <1>1, <3>7, FewerFrames, Zenon DEF Cut
      <3> QED BY <1>4, <3>1, <3>2, <3>3, <3>4, <3>5, <3>6, <3>7
    <2> QED BY <1>2, <2>1, OneAddressed
  <1> QED BY <1>3, <1>4

LEMMA DeliverAddressed ==
    ASSUME LinkInv, TableKnown, FramesAddressed, NEW n \in Session, Deliver(n)
    PROVE  FramesAddressed'
  <1> DEFINE s == connections[n]
             m == Len(messages) + 1
  <1>1. /\ DOMAIN messages' = DOMAIN messages \cup {m} /\ messages'[m].to = n
        /\ \A k \in DOMAIN messages : messages'[k] = messages[k]
    <2>1. messages' = Append(messages, [to |-> n, delivered |-> s # NoSocket])
      BY Zenon DEF Deliver
    <2>2. messages \in Seq([to : Session, delivered : BOOLEAN]) /\ Len(messages) \in Nat
      BY DEF TableKnown
    <2>3. [to |-> n, delivered |-> s # NoSocket].to = n
      OBVIOUS
    <2> QED BY <2>1, <2>2, <2>3
  <1>2. socket' = IF s # NoSocket /\ Through(s)
                  THEN [socket EXCEPT ![s].frames = socket[s].frames \cup {m}]
                  ELSE socket
    BY DEF Deliver, LinkInv, SocketsWhole
  <1>3. s # NoSocket => s \in Socket /\ socket[s].session = n
    BY DEF LinkInv, IdsKnown, EntryIsOpen
  <1>4. ASSUME NEW x \in Socket
        PROVE  /\ socket'[x].session = socket[x].session
               /\ \A k \in socket'[x].frames : \/ k \in socket[x].frames
                                               \/ k = m /\ socket[x].session = n
    <2>1. Whole(socket[x])
      BY DEF LinkInv, SocketsWhole
    <2>2. CASE x = s /\ s # NoSocket /\ Through(s)
      <3>1. socket'[x] = [socket[x] EXCEPT !.frames = socket[x].frames \cup {m}]
        BY <1>2, <1>3, <2>2 DEF LinkInv, SocketsWhole
      <3> HIDE DEF m
      <3>2. /\ socket'[x].session = socket[x].session
            /\ socket'[x].frames = socket[x].frames \cup {m}
        BY <2>1, <3>1 DEF Whole, SocketState
      <3> QED BY <1>3, <2>2, <3>2
    <2>3. CASE ~(x = s /\ s # NoSocket /\ Through(s))
      <3>1. socket'[x] = socket[x]
        BY <1>2, <1>3, <2>3 DEF LinkInv, SocketsWhole
      <3> QED BY <3>1
    <2> QED BY <2>2, <2>3
  <1> HIDE DEF m, s
  <1>5. ASSUME NEW x \in Socket, NEW k \in socket'[x].frames
        PROVE  k \in DOMAIN messages' /\ messages'[k].to = socket'[x].session
    <2>1. CASE k \in socket[x].frames
      <3>1. k \in DOMAIN messages /\ messages[k].to = socket[x].session
        BY <2>1 DEF FramesAddressed, ForSession
      <3> QED BY <1>1, <1>4, <3>1
    <2>2. CASE k = m /\ socket[x].session = n
      BY <1>1, <1>4, <2>2
    <2> QED BY <1>4, <1>5, <2>1, <2>2
  <1> QED BY <1>5 DEF FramesAddressed, ForSession

LEMMA AddressedStep ==
    ASSUME LinkInv, OwnKnown, FramesAddressed, [LinkNext]_link_vars
    PROVE  FramesAddressed'
  <1>1. CASE \E s \in Socket : \/ Accept(s) \/ Refuse(s) \/ ServerClose(s) \/ ClientClose(s)
                               \/ Read(s) \/ Cut(s)
    BY <1>1, SocketStepAddressed
  <1>2. CASE \E n \in 1..session : Deliver(n)
    <2>1. PICK n \in 1..session : Deliver(n)
      BY <1>2
    <2>2. n \in Session
      BY <2>1, LinkBounds DEF LinkInv, IdsKnown, Session
    <2> QED BY <2>1, <2>2, DeliverAddressed DEF OwnKnown
  <1>3. CASE Reconnect \/ RecycleReconnect \/ Shutdown
    <2>1. messages' = messages /\ ws \in Socket \cup {NoSocket}
      BY <1>3, Zenon DEF Reconnect, RecycleReconnect, Shutdown, beacon_vars, OwnKnown, AgentKnown
    <2>2. \A s \in Socket : OnlyOld(socket[s], socket[s])
      BY DEF OnlyOld
    <2>3. ASSUME ws \in Socket
          PROVE  /\ Closing(ws) = [s \in Socket |-> Closing(ws)[s]]
                 /\ \A s \in Socket : OnlyOld(socket[s], Closing(ws)[s])
      <3> DEFINE q == [socket[ws] EXCEPT !.client = "closing", !.frames = {}]
      <3>1. Closing(ws) = [socket EXCEPT ![ws] = q]
        BY Zenon DEF Closing
      <3>2. OnlyOld(socket[ws], q)
        BY <2>3, FewerFrames DEF LinkInv, SocketsWhole
      <3> HIDE DEF q
      <3> QED BY <2>2, <2>3, <3>1, <3>2, Closes DEF LinkInv, SocketsWhole
    <2>4. ASSUME NEW k, k = [s \in Socket |-> k[s]], Open(k),
                 \A s \in Socket : OnlyOld(socket[s], k[s])
          PROVE  \A s \in Socket : OnlyOld(socket[s], socket'[s])
      <3>1. PICK f \in Free : socket' = [k EXCEPT ![f] = NewSocket(session)]
        <4>1. Free # {} /\ Free \subseteq Socket
          BY <2>4 DEF Open, Free
        <4> QED BY <2>4, <4>1, FirstOf DEF Open
      <3>2. \A s \in Socket : OnlyOld(socket[s], NewSocket(session))
        BY FewerFrames DEF LinkInv, SocketsWhole
      <3>3. \A s \in Socket : socket'[s] \in {k[s], NewSocket(session)}
        BY <2>4, <3>1
      <3> QED BY <2>4, <3>2, <3>3
    <2>5. \A s \in Socket : OnlyOld(socket[s], socket'[s])
      <3>1. CASE Reconnect
        BY <2>2, <2>4, <3>1 DEF Reconnect, LinkInv, SocketsWhole
      <3>2. CASE RecycleReconnect /\ ws = NoSocket
        <4>1. Open(socket)
          BY <3>2, Zenon DEF RecycleReconnect
        <4> QED BY <2>2, <2>4, <4>1 DEF LinkInv, SocketsWhole
      <3>3. CASE RecycleReconnect /\ ws # NoSocket
        <4>1. Open(Closing(ws))
          BY <3>3, Zenon DEF RecycleReconnect
        <4> QED BY <2>1, <2>3, <2>4, <3>3, <4>1
      <3>4. CASE Shutdown
        BY <2>1, <2>2, <2>3, <3>4 DEF Shutdown
      <3> QED BY <1>3, <3>1, <3>2, <3>3, <3>4
    <2> QED BY <2>1, <2>5, AddressesKept
  <1>4. CASE \/ RecycleBegin \/ RecycleRegistered \/ RecycleUnregistered \/ Unregister
             \/ UNCHANGED link_vars
    <2>1. messages' = messages /\ socket' = socket
      BY <1>4, Zenon DEF RecycleBegin, RecycleRegistered, RecycleUnregistered, Unregister,
                         agent_vars, beacon_vars, link_vars
    <2> QED BY <2>1, AddressesKept DEF OnlyOld
  <1>5. CASE BeaconRestart
    <2>1. messages' = messages
      BY <1>5, Zenon DEF BeaconRestart
    <2>2. \A s \in Socket : \/ socket'[s] = NoEnd
                            \/ socket'[s] = [socket[s] EXCEPT !.server = "none", !.cut = TRUE,
                                                              !.frames = {}]
      BY <1>5, Zenon DEF BeaconRestart
    <2>3. \A s \in Socket : OnlyOld(socket[s], socket'[s])
      <3> TAKE s \in Socket
      <3>1. /\ OnlyOld(socket[s], NoEnd)
            /\ OnlyOld(socket[s], [socket[s] EXCEPT !.server = "none", !.cut = TRUE, !.frames = {}])
        BY FewerFrames DEF LinkInv, SocketsWhole
      <3> QED BY <2>2, <3>1, Zenon
    <2> QED BY <2>1, <2>3, AddressesKept
  <1> QED
    BY <1>1, <1>2, <1>3, <1>4, <1>5 DEF LinkNext

(* Every message under way in a connection is for the session of that          *)
(* connection, for any number of sockets, recycles and restarts.              *)
THEOREM MessagesAddressed == LinkSpec => []FramesAddressed
  <1>1. LinkInit => FramesAddressed
    <2> SUFFICES ASSUME LinkInit, NEW s \in Socket
                 PROVE  socket[s].frames = {}
      BY DEF FramesAddressed, ForSession
    <2>1. socket[s] = IF s = 1 THEN NewSocket(1) ELSE NoEnd
      BY Zenon DEF LinkInit
    <2>2. NewSocket(1).frames = {} /\ NoEnd.frames = {}
      BY DEF NewSocket, NoEnd
    <2> QED BY <2>1, <2>2
  <1>2. LinkInv /\ OwnKnown /\ [LinkNext]_link_vars => OwnKnown'
    BY OwnKept
  <1>3. LinkInv /\ OwnKnown /\ FramesAddressed /\ [LinkNext]_link_vars => FramesAddressed'
    BY AddressedStep
  <1> QED
    BY <1>1, <1>2, <1>3, LinkStarts, LinkSteps, PTL DEF LinkSpec
=============================================================================
