------------------------- MODULE ConversationProofs -------------------------
(***************************************************************************)
(* Proofs about Conversation: its types, that the flag of a turn in flight *)
(* comes down, that no steering message outlives its round, and that       *)
(* nothing is left in the queue that a completed turn should have taken.   *)
(*                                                                         *)
(* Most steps move one call: CallMoves shows once what such a step must    *)
(* respect, and each action is shown to respect it.                        *)
(***************************************************************************)
EXTENDS Conversation, SequenceTheorems, TLAPS

Loops(k) == k.pc \in {"expand", "top", "absorb", "calling"}

\* The call is between its first await and its last hooks: it empties the queue,
\* or says that it leaves it.
Tends(k) == k.pc \notin {"none", "command", "after"}

\* A call that will append a message has one.
Known(k) ==
    /\ k.pc \in {"append", "absorb", "ownHook"} => k.hand \in Message
    /\ k.pc \in {"hook", "dispatch", "append", "expand"} => k.prompt \in Message

\* Messages of the queue that are rounds of this call
Load(k) == k.depth + IF k.pc = "ownHook" THEN 1 ELSE 0

HandsKnown == \A c \in Caller : Known(calls[c])

\* Every round of a call has had its own message, and so has what is queued.
RoundsArrived == \A c \in Caller : Load(calls[c]) + Len(pending) + Len(chain) <= arrived

\* A submission stays at the head of the chain while its call runs.
ChainHeld == "swarm" \in Caller /\ ~At("swarm", "none") => chain # <<>>

QueueTended ==
    /\ ToSet(pending) \subseteq queued
    /\ ToSet(pending) \subseteq strays \/ \E c \in Caller : Tends(calls[c])

ConversationInv ==
    /\ ConversationTypeOK
    /\ HandsKnown
    /\ RoundsArrived
    /\ ChainHeld
    /\ QueueTended
    /\ FlagComesDown
    /\ NoLateSteering

-----------------------------------------------------------------------------
LEMMA Bounds ==
    /\ MaxMessages \in Nat /\ MaxCancels \in Nat
    /\ Caller \subseteq {"host", "swarm", "steer"}
  BY ConversationAssumption

LEMMA LoadTyped == \A k \in Call : Load(k) \in Nat /\ k.depth \in Nat
  <1>1. \A k \in Call : k.depth \in Nat
    BY Bounds DEF Call
  <1> QED
    BY <1>1 DEF Load

LEMMA EmptyQueue == <<>> \in Seq(Message) /\ Len(<<>>) = 0 /\ ToSet(<<>>) = {}
  <1>1. <<>> \in Seq(Message) /\ Len(<<>>) = 0
    BY EmptySeq
  <1>2. DOMAIN <<>> = {}
    OBVIOUS
  <1> QED
    BY <1>1, <1>2 DEF ToSet

LEMMA Taken ==
    ASSUME NEW s \in Seq(Message), s # <<>>
    PROVE  /\ Head(s) \in Message /\ Tail(s) \in Seq(Message)
           /\ Len(s) \in Nat \ {0} /\ Len(Tail(s)) = Len(s) - 1
           /\ ToSet(Tail(s)) \subseteq ToSet(s)
  <1>1. /\ Head(s) \in Message /\ Tail(s) \in Seq(Message)
        /\ Len(Tail(s)) = Len(s) - 1
        /\ \A i \in 1..Len(Tail(s)) : Tail(s)[i] = s[i + 1]
    BY HeadTailProperties
  <1>2. Len(s) \in Nat \ {0}
    BY EmptySeq
  <1>3. DOMAIN s = 1..Len(s) /\ DOMAIN Tail(s) = 1..Len(Tail(s))
    BY <1>1, LenProperties
  <1>4. \A i \in 1..Len(Tail(s)) : i + 1 \in 1..Len(s)
    BY <1>1, <1>2
  <1>5. ToSet(Tail(s)) \subseteq ToSet(s)
    BY <1>1, <1>3, <1>4 DEF ToSet
  <1> QED
    BY <1>1, <1>2, <1>5

LEMMA Appended ==
    ASSUME NEW s \in Seq(Message), NEW m \in Message
    PROVE  /\ Append(s, m) \in Seq(Message) /\ Append(s, m) # <<>>
           /\ Len(s) \in Nat /\ Len(Append(s, m)) = Len(s) + 1
           /\ ToSet(Append(s, m)) = ToSet(s) \cup {m}
  <1>1. /\ Append(s, m) \in Seq(Message)
        /\ Len(s) \in Nat /\ Len(Append(s, m)) = Len(s) + 1
        /\ \A i \in 1..Len(s) : Append(s, m)[i] = s[i]
        /\ Append(s, m)[Len(s) + 1] = m
    BY AppendProperties, LenProperties
  <1>2. DOMAIN s = 1..Len(s) /\ DOMAIN Append(s, m) = 1..(Len(s) + 1)
    BY <1>1, LenProperties
  <1>3. 1..(Len(s) + 1) = 1..Len(s) \cup {Len(s) + 1}
    BY <1>1
  <1>4. ToSet(Append(s, m)) = ToSet(s) \cup {m}
    BY <1>1, <1>2, <1>3 DEF ToSet
  <1>5. Append(s, m) # <<>>
    BY <1>1, EmptySeq
  <1> QED
    BY <1>1, <1>4, <1>5

-----------------------------------------------------------------------------
\* What a step that moves one call to k does to the call and the chain
CallGoes(c, k) ==
    /\ k \in Call
    /\ Known(k)
    /\ calls' = [calls EXCEPT ![c] = k]
    /\ chain' \in Seq(Message)
    /\ Len(chain') <= Len(chain)
    /\ c # "swarm" => chain' = chain
    /\ c = "swarm" /\ k.pc # "none" => chain' # <<>>

\* What it does to the queue
QueueShrinks(c, k) ==
    /\ pending' \in Seq(Message)
    /\ Len(pending') <= Len(pending)
    /\ ToSet(pending') \subseteq ToSet(pending)
    /\ Load(k) + Len(pending') + Len(chain') <= arrived'
    /\ queued' = queued
    /\ strays \subseteq strays' /\ strays' \subseteq queued
    /\ ToSet(pending') \subseteq strays' \/ Tends(k) \/ ~Tends(calls[c])

\* What it does to the rest
RestKept(c, k) ==
    /\ arrived' \in 0..MaxMessages /\ arrived <= arrived'
    /\ slash' \subseteq Message
    /\ cancels' \in 0..MaxCancels
    /\ cancelled' \in BOOLEAN /\ turnInFlight' \in BOOLEAN
    /\ session' \in Seq(Message) /\ steering' \in Seq(Message)
    /\ turnInFlight' => Loops(k) \/ (turnInFlight /\ ~InLoop(c))
    /\ steering' # <<>> => turnInFlight'

LEMMA CallMoves ==
    ASSUME ConversationInv, NEW c \in Caller, NEW k,
           CallGoes(c, k), QueueShrinks(c, k), RestKept(c, k)
    PROVE  ConversationInv'
  <1> USE DEF ConversationInv
  <1>0. calls \in [Caller -> Call] /\ k \in Call
    BY DEF ConversationTypeOK, CallGoes
  <1>1. /\ calls' \in [Caller -> Call] /\ calls'[c] = k
        /\ \A d \in Caller \ {c} : calls'[d] = calls[d]
    BY <1>0 DEF CallGoes
  <1>2. ConversationTypeOK'
    BY <1>1 DEF ConversationTypeOK, CallGoes, QueueShrinks, RestKept
  <1>3. HandsKnown'
    BY <1>1 DEF HandsKnown, CallGoes, Known
  <1>4. RoundsArrived'
    <2>1. /\ Len(pending) \in Nat /\ Len(chain) \in Nat
          /\ Len(pending') \in Nat /\ Len(chain') \in Nat
      BY LenProperties DEF ConversationTypeOK, CallGoes, QueueShrinks
    <2>2. \A d \in Caller : Load(calls[d]) \in Nat
      BY <1>0, Bounds DEF Call, Load
    <2>3. arrived \in Nat /\ arrived' \in Nat
      BY Bounds DEF ConversationTypeOK, RestKept
    <2>4. ASSUME NEW d \in Caller
          PROVE  Load(calls'[d]) + Len(pending') + Len(chain') <= arrived'
      <3>1. CASE d = c
        BY <3>1, <1>1 DEF QueueShrinks
      <3>2. CASE d # c
        <4>1. /\ Len(pending') <= Len(pending) /\ Len(chain') <= Len(chain) /\ arrived <= arrived'
              /\ Load(calls[d]) + Len(pending) + Len(chain) <= arrived
              /\ Load(calls'[d]) = Load(calls[d])
          BY <3>2, <1>1 DEF QueueShrinks, CallGoes, RestKept, RoundsArrived
        <4> QED
          BY <4>1, <2>1, <2>2, <2>3
      <3> QED
        BY <3>1, <3>2
    <2> QED
      BY <2>4 DEF RoundsArrived, Load
  <1>5. ChainHeld'
    BY <1>1 DEF ChainHeld, CallGoes, At
  <1>6. QueueTended'
    BY <1>1 DEF QueueTended, QueueShrinks, Tends
  <1>7. FlagComesDown'
    BY <1>1 DEF FlagComesDown, RestKept, InLoop, Loops
  <1>8. NoLateSteering'
    BY DEF NoLateSteering, RestKept
  <1> QED
    BY <1>2, <1>3, <1>4, <1>5, <1>6, <1>7, <1>8

\* A step that moves no call: a message joins a queue, or a cancel is aimed.
CallsStay ==
    /\ calls' \in [Caller -> Call]
    /\ \A c \in Caller : /\ calls'[c].pc = calls[c].pc
                         /\ calls'[c].depth = calls[c].depth
                         /\ calls'[c].prompt = calls[c].prompt
                         /\ calls'[c].hand = calls[c].hand

QueuesGrow ==
    /\ pending' \in Seq(Message) /\ chain' \in Seq(Message)
    /\ Len(pending') + Len(chain') + arrived <= Len(pending) + Len(chain) + arrived'
    /\ chain' # <<>> \/ ("swarm" \in Caller => At("swarm", "none"))
    /\ queued' \subseteq Message /\ ToSet(pending') \subseteq queued'
    /\ strays \subseteq strays' /\ strays' \subseteq queued'
    /\ turnInFlight \/ ToSet(pending') \subseteq ToSet(pending) \cup strays'

OthersKept ==
    /\ arrived' \in 0..MaxMessages
    /\ slash' \subseteq Message
    /\ cancels' \in 0..MaxCancels
    /\ cancelled' \in BOOLEAN
    /\ session' \in Seq(Message) /\ steering' \in Seq(Message)
    /\ turnInFlight' = turnInFlight
    /\ steering' # <<>> => turnInFlight

LEMMA QueuesMove ==
    ASSUME ConversationInv, CallsStay, QueuesGrow, OthersKept
    PROVE  ConversationInv'
  <1> USE DEF ConversationInv
  <1>1. ConversationTypeOK'
    BY DEF ConversationTypeOK, CallsStay, QueuesGrow, OthersKept
  <1>2. HandsKnown'
    BY DEF HandsKnown, CallsStay, Known
  <1>3. RoundsArrived'
    <2>1. /\ Len(pending) \in Nat /\ Len(chain) \in Nat
          /\ Len(pending') \in Nat /\ Len(chain') \in Nat
          /\ arrived \in Nat /\ arrived' \in Nat
      BY LenProperties, Bounds DEF ConversationTypeOK, QueuesGrow, OthersKept
    <2>2. ASSUME NEW d \in Caller
          PROVE  Load(calls'[d]) + Len(pending') + Len(chain') <= arrived'
      <3>1. Load(calls'[d]) = Load(calls[d])
        BY DEF CallsStay, Load
      <3>2. Load(calls[d]) \in Nat
        BY Bounds DEF ConversationTypeOK, Call, Load
      <3>3. /\ Load(calls[d]) + Len(pending) + Len(chain) <= arrived
            /\ Len(pending') + Len(chain') + arrived <= Len(pending) + Len(chain) + arrived'
        BY DEF RoundsArrived, QueuesGrow
      <3> QED
        BY <2>1, <3>1, <3>2, <3>3
    <2> QED
      BY <2>2 DEF RoundsArrived, Load
  <1>4. ChainHeld'
    BY DEF ChainHeld, CallsStay, QueuesGrow, At
  <1>5. FlagComesDown'
    BY DEF FlagComesDown, CallsStay, OthersKept, InLoop
  <1>6. QueueTended'
    <2>1. turnInFlight => \E c \in Caller : Tends(calls[c])
      BY DEF FlagComesDown, InLoop, Tends
    <2> QED
      BY <2>1 DEF QueueTended, CallsStay, QueuesGrow, Tends
  <1>7. NoLateSteering'
    BY DEF NoLateSteering, OthersKept
  <1> QED
    BY <1>1, <1>2, <1>3, <1>4, <1>5, <1>6, <1>7

-----------------------------------------------------------------------------
\* The parts an action is built from, and what they do to a call

LEMMA NoCallTyped ==
    /\ NoCall \in Call /\ NoCall.pc = "none" /\ NoCall.depth = 0
    /\ [NoCall EXCEPT !.pc = "after"] \in Call
    /\ [NoCall EXCEPT !.pc = "after"].pc = "after" /\ [NoCall EXCEPT !.pc = "after"].depth = 0
  <1>1. ASSUME NEW k \in Call
        PROVE  LET j == [k EXCEPT !.pc = "after"] IN
               j \in Call /\ j.pc = "after" /\ j.depth = k.depth
    BY DEF Call
  <1>2. NoCall \in Call /\ NoCall.pc = "none" /\ NoCall.depth = 0
    <2>1. 0 \in 0..MaxMessages
      BY Bounds
    <2> QED
      BY <2>1 DEF NoCall, Call
  <1> QED
    BY <1>1, <1>2

LEMMA NewCalls ==
    ASSUME NEW m \in Message
    PROVE  /\ LET k == [NoCall EXCEPT !.pc = "command"] IN
              k \in Call /\ k.pc = "command" /\ k.depth = 0
           /\ LET k == [NoCall EXCEPT !.pc = "hook", !.prompt = m] IN
              k \in Call /\ k.pc = "hook" /\ k.depth = 0 /\ k.prompt = m
           /\ LET k == [NoCall EXCEPT !.prompt = m] IN
              k \in Call /\ k.depth = 0 /\ k.prompt = m
  <1>1. m \in 0..MaxMessages
    BY Bounds DEF Message
  <1>2. ASSUME NEW k \in Call
        PROVE  /\ LET j == [k EXCEPT !.pc = "command"] IN
                  j \in Call /\ j.pc = "command" /\ j.depth = k.depth
               /\ LET j == [k EXCEPT !.pc = "hook", !.prompt = m] IN
                  j \in Call /\ j.pc = "hook" /\ j.depth = k.depth /\ j.prompt = m
               /\ LET j == [k EXCEPT !.prompt = m] IN
                  j \in Call /\ j.depth = k.depth /\ j.prompt = m
    BY <1>1 DEF Call
  <1> QED
    BY <1>2, NoCallTyped

\* A cancel changes what the calls are aimed at, and nothing else about them.
LEMMA Cancels ==
    ASSUME ConversationInv, Cancel
    PROVE  CallsStay /\ cancelled' \in BOOLEAN /\ cancels' \in 0..MaxCancels
  <1>1. calls \in [Caller -> Call] /\ cancels \in 0..MaxCancels
    BY DEF ConversationInv, ConversationTypeOK
  <1>2. /\ cancels < MaxCancels /\ cancels' = cancels + 1
        /\ calls' = [c \in Caller |-> [calls[c] EXCEPT !.aimed = calls[c].pc # "none"]]
    BY Zenon DEF Cancel
  <1>3. cancelled' \in BOOLEAN
    BY Zenon DEF Cancel
  <1>4. ASSUME NEW k \in Call, NEW b \in BOOLEAN
        PROVE  LET j == [k EXCEPT !.aimed = b] IN
               j \in Call /\ j.pc = k.pc /\ j.depth = k.depth /\ j.prompt = k.prompt /\ j.hand = k.hand
    BY DEF Call
  <1>5. CallsStay
    <2>1. ASSUME NEW c \in Caller
          PROVE  /\ calls'[c] \in Call /\ calls'[c].pc = calls[c].pc
                 /\ calls'[c].depth = calls[c].depth /\ calls'[c].prompt = calls[c].prompt
                 /\ calls'[c].hand = calls[c].hand
      <3> DEFINE b == calls[c].pc # "none"
      <3>1. calls'[c] = [calls[c] EXCEPT !.aimed = b]
        BY <1>2, Zenon
      <3>2. b \in BOOLEAN
        BY Zenon
      <3>3. calls[c] \in Call
        BY <1>1
      <3> HIDE DEF b
      <3> QED
        BY <1>4, <3>1, <3>2, <3>3
    <2>2. calls' = [c \in Caller |-> calls'[c]]
      BY <1>2, Zenon
    <2>3. calls' \in [Caller -> Call]
      BY <2>1, <2>2
    <2> QED
      BY <2>1, <2>3 DEF CallsStay
  <1>6. cancels' \in 0..MaxCancels
    BY <1>1, <1>2, Bounds
  <1> QED
    BY <1>3, <1>5, <1>6

LEMMA Settles ==
    ASSUME ConversationInv, NEW c \in Caller, NEW r \in BOOLEAN, ~At(c, "none"), Settle(c, r)
    PROVE  \E k : CallGoes(c, k) /\ ~Loops(k) /\ Load(k) = 0
  <1> DEFINE k == IF c = "host" /\ r THEN [NoCall EXCEPT !.pc = "after"] ELSE NoCall
  <1>1. /\ k \in Call /\ Known(k) /\ ~Loops(k) /\ Load(k) = 0
        /\ c = "swarm" => k.pc = "none"
    BY NoCallTyped DEF Known, Loops, Load
  <1>2. calls' = [calls EXCEPT ![c] = k] /\ chain' = IF c = "swarm" THEN Tail(chain) ELSE chain
    BY Zenon DEF Settle
  <1>3. chain \in Seq(Message) /\ (c = "swarm" => chain # <<>>)
    BY DEF ConversationInv, ConversationTypeOK, ChainHeld
  <1>4. Len(chain) \in Nat
    BY <1>3, LenProperties
  <1> HIDE DEF k
  <1>5. CallGoes(c, k)
    BY <1>1, <1>2, <1>3, <1>4, Taken DEF CallGoes
  <1> QED
    BY <1>1, <1>5

LEMMA RoundEnds ==
    ASSUME ConversationInv, NEW c \in Caller, NEW r \in BOOLEAN, ~At(c, "none"), RoundOver(c, r)
    PROVE  \E k : CallGoes(c, k) /\ ~Loops(k) /\ Load(k) <= Load(calls[c])
  <1>1. calls[c] \in Call /\ Load(calls[c]) \in Nat
    BY Bounds DEF ConversationInv, ConversationTypeOK, Call, Load
  <1>2. CASE calls[c].depth = 0
    <2>1. Settle(c, r)
      BY <1>2 DEF RoundOver
    <2> QED
      BY <1>1, <2>1, Settles
  <1>3. CASE calls[c].depth # 0
    <2> DEFINE n == calls[c].depth - 1
               k == [calls[c] EXCEPT !.pc = "ownAfter", !.depth = n]
    <2>1. calls' = [calls EXCEPT ![c] = k] /\ chain' = chain
      BY <1>3, Zenon DEF RoundOver
    <2>0. n \in 0..MaxMessages
      BY <1>1, <1>3, Bounds DEF Call
    <2> HIDE DEF n
    <2>2. /\ k \in Call /\ k.pc = "ownAfter" /\ k.depth = n
      BY <1>1, <2>0 DEF Call
    <2>3. chain \in Seq(Message) /\ Len(chain) \in Nat /\ (c = "swarm" => chain # <<>>)
      BY LenProperties DEF ConversationInv, ConversationTypeOK, ChainHeld
    <2>4. calls[c].depth \in Nat
      BY <1>1, Bounds DEF Call
    <2> HIDE DEF k
    <2>5. CallGoes(c, k)
      BY <2>1, <2>2, <2>3 DEF CallGoes, Known
    <2>6. ~Loops(k) /\ Load(k) <= Load(calls[c])
      BY <2>2, <2>4 DEF Loops, Load, n
    <2> QED
      BY <2>5, <2>6
  <1> QED
    BY <1>2, <1>3

LEMMA PartOfQueue ==
    ASSUME pending \in Seq(Message), NEW q \in {pending, <<>>}
    PROVE  /\ q \in Seq(Message) /\ Len(q) <= Len(pending) /\ ToSet(q) \subseteq ToSet(pending)
           /\ Len(q) \in Nat /\ Len(pending) \in Nat
  <1>1. Len(pending) \in Nat
    BY LenProperties
  <1>2. CASE q = pending
    BY <1>1, <1>2
  <1>3. CASE q = <<>>
    BY <1>1, <1>3, EmptyQueue
  <1> QED
    BY <1>2, <1>3

LEMMA DrainsOwn ==
    ASSUME ConversationInv, NEW c \in Caller, NEW q \in {pending, <<>>}, DrainOwn(c, q),
           calls[c].pc \in {"calling", "ownDispatch", "ownAfter"}
    PROVE  /\ \E k : /\ CallGoes(c, k) /\ ~Loops(k)
                     /\ Load(k) + Len(pending') <= Load(calls[c]) + Len(pending)
                     /\ pending' = <<>> \/ Tends(k)
           /\ pending' \in Seq(Message) /\ Len(pending') <= Len(pending)
           /\ ToSet(pending') \subseteq ToSet(pending)
  <1>1. /\ calls[c] \in Call /\ Load(calls[c]) \in Nat
        /\ q \in Seq(Message) /\ Len(q) <= Len(pending) /\ ToSet(q) \subseteq ToSet(pending)
        /\ Len(q) \in Nat /\ Len(pending) \in Nat
    <2>1. calls[c] \in Call /\ Load(calls[c]) \in Nat
      BY Bounds DEF ConversationInv, ConversationTypeOK, Call, Load
    <2> QED
      BY <2>1, PartOfQueue DEF ConversationInv, ConversationTypeOK
  <1>2. CASE q = <<>>
    <2>1. RoundOver(c, TRUE) /\ pending' = <<>> /\ ~At(c, "none")
      BY <1>2 DEF DrainOwn, At
    <2>2. PICK k : CallGoes(c, k) /\ ~Loops(k) /\ Load(k) <= Load(calls[c])
      BY <2>1, RoundEnds
    <2>3. Load(k) \in Nat
      BY <2>2, Bounds DEF CallGoes, Call, Load
    <2> QED
      BY <1>1, <2>1, <2>2, <2>3, EmptyQueue
  <1>3. CASE q # <<>>
    <2> DEFINE p == IF Head(q) \in slash THEN "ownDispatch" ELSE "ownHook"
               k == [calls[c] EXCEPT !.pc = p, !.hand = Head(q), !.aimed = FALSE]
    <2>1. calls' = [calls EXCEPT ![c] = k] /\ chain' = chain /\ pending' = Tail(q)
      BY <1>3, Zenon DEF DrainOwn
    <2>2. p \in {"ownDispatch", "ownHook"}
      OBVIOUS
    <2>3. /\ Head(q) \in Message /\ Tail(q) \in Seq(Message) /\ Len(q) \in Nat \ {0}
          /\ Len(Tail(q)) = Len(q) - 1 /\ ToSet(Tail(q)) \subseteq ToSet(q)
      BY <1>1, <1>3, Taken
    <2>4. Head(q) \in 0..MaxMessages
      BY <2>3, Bounds DEF Message
    <2> HIDE DEF p
    <2>5. k \in Call /\ k.pc = p /\ k.depth = calls[c].depth /\ k.hand = Head(q)
      BY <1>1, <2>2, <2>4 DEF Call
    <2>6. chain \in Seq(Message) /\ Len(chain) \in Nat /\ (c = "swarm" => chain # <<>>)
      BY LenProperties DEF ConversationInv, ConversationTypeOK, ChainHeld, At
    <2> HIDE DEF k
    <2>7. CallGoes(c, k)
      BY <2>1, <2>2, <2>3, <2>5, <2>6 DEF CallGoes, Known
    <2>8. ~Loops(k) /\ Tends(k) /\ Load(k) <= calls[c].depth + 1
      BY <1>1, <2>2, <2>5, Bounds DEF Loops, Tends, Load, Call
    <2>9. Load(calls[c]) = calls[c].depth /\ calls[c].depth \in Nat /\ Load(k) \in Nat
      BY <1>1, <2>5, Bounds DEF Load, Call
    <2>10. Load(k) + Len(pending') <= Load(calls[c]) + Len(pending)
      BY <1>1, <2>1, <2>3, <2>8, <2>9
    <2> QED
      BY <1>1, <2>1, <2>3, <2>7, <2>8, <2>10
  <1> QED
    BY <1>2, <1>3

LEMMA DrainsAppend ==
    ASSUME ConversationInv, NEW c \in Caller, NEW call \in Call, NEW q \in {pending, <<>>},
           call.prompt \in Message, c = "swarm" => chain # <<>>,
           chain' = chain, DrainAppend(c, call, q)
    PROVE  /\ \E k : /\ CallGoes(c, k) /\ Tends(k) /\ Load(k) = call.depth
                     /\ turnInFlight' => turnInFlight \/ Loops(k)
           /\ pending' \in Seq(Message) /\ Len(pending') <= Len(pending)
           /\ ToSet(pending') \subseteq ToSet(pending)
           /\ turnInFlight' \in BOOLEAN /\ (turnInFlight => turnInFlight')
           /\ turnInFlight' \/ q # <<>>
  <1>1. /\ q \in Seq(Message) /\ Len(q) <= Len(pending) /\ ToSet(q) \subseteq ToSet(pending)
        /\ Len(q) \in Nat /\ Len(pending) \in Nat
        /\ chain \in Seq(Message) /\ Len(chain) \in Nat
    BY PartOfQueue, LenProperties DEF ConversationInv, ConversationTypeOK
  <1>2. /\ turnInFlight' \in BOOLEAN /\ (turnInFlight => turnInFlight')
        /\ turnInFlight' <=> turnInFlight \/ q = <<>>
    BY Zenon DEF DrainAppend
  <1>3. CASE q = <<>>
    <2> DEFINE k == [call EXCEPT !.pc = "expand"]
    <2>1. calls' = [calls EXCEPT ![c] = k] /\ pending' = q
      BY <1>3, Zenon DEF DrainAppend
    <2>2. k \in Call /\ k.pc = "expand" /\ k.depth = call.depth /\ k.prompt = call.prompt
      BY DEF Call
    <2> HIDE DEF k
    <2>3. CallGoes(c, k)
      BY <1>1, <2>1, <2>2 DEF CallGoes, Known
    <2>4. Tends(k) /\ Load(k) = call.depth /\ Loops(k)
      BY <2>2, Bounds DEF Tends, Load, Loops, Call
    <2> QED
      BY <1>1, <1>2, <2>1, <2>3, <2>4
  <1>4. CASE q # <<>>
    <2> DEFINE p == IF Head(q) \in slash THEN "dispatch" ELSE "append"
               k == [call EXCEPT !.pc = p, !.hand = Head(q)]
    <2>1. calls' = [calls EXCEPT ![c] = k] /\ pending' = Tail(q)
      BY <1>4, Zenon DEF DrainAppend
    <2>2. p \in {"dispatch", "append"}
      OBVIOUS
    <2>3. /\ Head(q) \in Message /\ Tail(q) \in Seq(Message) /\ Len(q) \in Nat \ {0}
          /\ Len(Tail(q)) = Len(q) - 1 /\ ToSet(Tail(q)) \subseteq ToSet(q)
      BY <1>1, <1>4, Taken
    <2>4. Head(q) \in 0..MaxMessages
      BY <2>3, Bounds DEF Message
    <2> HIDE DEF p
    <2>5. /\ k \in Call /\ k.pc = p /\ k.depth = call.depth /\ k.hand = Head(q)
          /\ k.prompt = call.prompt
      BY <2>2, <2>4 DEF Call
    <2> HIDE DEF k
    <2>6. CallGoes(c, k)
      BY <1>1, <2>1, <2>2, <2>3, <2>5 DEF CallGoes, Known
    <2>7. Tends(k) /\ Load(k) = call.depth
      BY <2>2, <2>5, Bounds DEF Tends, Load, Call
    <2> QED
      BY <1>1, <1>2, <1>4, <2>1, <2>3, <2>6, <2>7
  <1> QED
    BY <1>3, <1>4

-----------------------------------------------------------------------------
\* The same, as the actions use them

\* A call that appends what is queued to the round about to begin
LEMMA RoundFills ==
    ASSUME ConversationInv, NEW c \in Caller, NEW call \in Call, NEW q \in {pending, <<>>},
           call.prompt \in Message, call.depth <= Load(calls[c]),
           c = "swarm" => chain # <<>>, chain' = chain, DrainAppend(c, call, q),
           ~InLoop(c), slash' = slash, arrived' = arrived, cancels' = cancels,
           queued' = queued, strays' = strays, cancelled' \in BOOLEAN,
           session' \in Seq(Message), steering' \in {steering, <<>>}
    PROVE  ConversationInv'
  <1>1. PICK k : /\ CallGoes(c, k) /\ Tends(k) /\ Load(k) = call.depth
                 /\ turnInFlight' => turnInFlight \/ Loops(k)
    BY DrainsAppend
  <1>2. /\ pending' \in Seq(Message) /\ Len(pending') <= Len(pending)
        /\ ToSet(pending') \subseteq ToSet(pending)
        /\ turnInFlight' \in BOOLEAN /\ (turnInFlight => turnInFlight')
    BY DrainsAppend
  <1>3. /\ Load(calls[c]) + Len(pending) + Len(chain) <= arrived
        /\ Len(pending) \in Nat /\ Len(pending') \in Nat /\ Len(chain) \in Nat /\ arrived \in Nat
        /\ Load(calls[c]) \in Nat /\ call.depth \in Nat
    <2>1. pending \in Seq(Message) /\ chain \in Seq(Message) /\ arrived \in Nat
      BY Bounds DEF ConversationInv, ConversationTypeOK
    <2>2. Len(pending) \in Nat /\ Len(pending') \in Nat /\ Len(chain) \in Nat
      BY <1>2, <2>1, LenProperties
    <2>3. Load(calls[c]) \in Nat /\ call.depth \in Nat
      BY Bounds DEF ConversationInv, ConversationTypeOK, Load, Call
    <2> QED
      BY <2>1, <2>2, <2>3 DEF ConversationInv, RoundsArrived
  <1>4. Load(k) + Len(pending') + Len(chain') <= arrived'
    BY <1>1, <1>2, <1>3
  <1>5. QueueShrinks(c, k)
    BY <1>1, <1>2, <1>4 DEF QueueShrinks, ConversationInv, ConversationTypeOK
  <1>6. RestKept(c, k)
    <2>1. arrived <= arrived /\ arrived \in 0..MaxMessages /\ cancels \in 0..MaxCancels /\ slash \subseteq Message
      BY <1>3 DEF ConversationInv, ConversationTypeOK
    <2>2. steering' \in Seq(Message)
      BY EmptyQueue DEF ConversationInv, ConversationTypeOK
    <2>3. steering' # <<>> => turnInFlight'
      BY <1>2 DEF ConversationInv, NoLateSteering
    <2> QED
      BY <1>1, <1>2, <2>1, <2>2, <2>3 DEF RestKept
  <1> QED
    BY <1>1, <1>5, <1>6, CallMoves

\* A call that stays in its loop
LEMMA LoopGoesOn ==
    ASSUME ConversationInv, NEW c \in Caller, NEW k \in Call, InLoop(c), Loops(k), Known(k),
           k.depth = calls[c].depth, calls' = [calls EXCEPT ![c] = k],
           pending' = pending, cancelled' = cancelled, turnInFlight' = turnInFlight,
           chain' = chain, slash' = slash, arrived' = arrived, cancels' = cancels,
           queued' = queued, strays' = strays,
           session' \in Seq(Message), steering' \in Seq(Message),
           steering' # <<>> => steering # <<>>
    PROVE  ConversationInv'
  <1>1. /\ pending \in Seq(Message) /\ chain \in Seq(Message) /\ arrived \in 0..MaxMessages
        /\ cancels \in 0..MaxCancels /\ slash \subseteq Message /\ strays \subseteq queued
        /\ cancelled \in BOOLEAN /\ turnInFlight \in BOOLEAN
    BY DEF ConversationInv, ConversationTypeOK
  <1>2. Len(pending) \in Nat /\ Len(chain) \in Nat /\ arrived \in Nat
    BY <1>1, LenProperties, Bounds
  <1>3. Load(k) = Load(calls[c])
    BY DEF Load, InLoop, Loops
  <1>4. Load(calls[c]) + Len(pending) + Len(chain) <= arrived
    BY DEF ConversationInv, RoundsArrived
  <1>5. CallGoes(c, k)
    BY <1>1, <1>2 DEF CallGoes, ConversationInv, ChainHeld, At, InLoop
  <1>6. QueueShrinks(c, k)
    BY <1>1, <1>2, <1>3, <1>4 DEF QueueShrinks, Tends, Loops
  <1>7. RestKept(c, k)
    BY <1>1, <1>2 DEF RestKept, ConversationInv, NoLateSteering
  <1> QED
    BY <1>5, <1>6, <1>7, CallMoves

\* A call whose round, or what follows it, is over
LEMMA CallGoesOn ==
    ASSUME ConversationInv, NEW c \in Caller, NEW k, CallGoes(c, k),
           Load(k) + Len(pending') <= Load(calls[c]) + Len(pending),
           pending' \in Seq(Message), Len(pending') <= Len(pending),
           ToSet(pending') \subseteq ToSet(pending),
           \/ strays' = strays /\ (pending' = <<>> \/ Tends(k) \/ ~Tends(calls[c]))
           \/ strays' = strays \cup ToSet(pending),
           \/ turnInFlight' \in BOOLEAN /\ ~turnInFlight' /\ steering' = <<>>
           \/ turnInFlight' = turnInFlight /\ ~InLoop(c) /\ steering' \in {steering, <<>>},
           cancelled' \in BOOLEAN, session' \in Seq(Message),
           slash' = slash, arrived' = arrived, cancels' = cancels, queued' = queued
    PROVE  ConversationInv'
  <1>1. /\ pending \in Seq(Message) /\ chain \in Seq(Message) /\ arrived \in 0..MaxMessages
        /\ cancels \in 0..MaxCancels /\ slash \subseteq Message /\ strays \subseteq queued
        /\ ToSet(pending) \subseteq queued
        /\ steering \in Seq(Message) /\ turnInFlight \in BOOLEAN
    BY DEF ConversationInv, ConversationTypeOK, QueueTended
  <1>2. /\ Len(pending) \in Nat /\ Len(chain) \in Nat /\ arrived \in Nat
        /\ Len(pending') \in Nat /\ Len(chain') \in Nat /\ Len(chain') <= Len(chain)
    BY <1>1, LenProperties, Bounds DEF CallGoes
  <1>3. Load(k) \in Nat /\ Load(calls[c]) \in Nat
    <2>1. k \in Call /\ calls[c] \in Call
      BY DEF ConversationInv, ConversationTypeOK, CallGoes
    <2> QED
      BY <2>1, LoadTyped
  <1>4. Load(calls[c]) + Len(pending) + Len(chain) <= arrived
    BY DEF ConversationInv, RoundsArrived
  <1>5. Load(k) + Len(pending') + Len(chain') <= arrived'
    BY <1>2, <1>3, <1>4
  <1>6. ToSet(pending') \subseteq strays' \/ Tends(k) \/ ~Tends(calls[c])
    BY EmptyQueue
  <1>7. QueueShrinks(c, k)
    BY <1>1, <1>5, <1>6 DEF QueueShrinks
  <1>8. steering' \in Seq(Message) /\ (steering' # <<>> => turnInFlight')
    BY <1>1, EmptyQueue DEF ConversationInv, NoLateSteering
  <1>9. turnInFlight' \in BOOLEAN /\ (turnInFlight' => turnInFlight /\ ~InLoop(c))
    BY <1>1
  <1>10. RestKept(c, k)
    BY <1>1, <1>2, <1>8, <1>9 DEF RestKept
  <1> QED
    BY <1>7, <1>10, CallMoves

-----------------------------------------------------------------------------
\* What every call has
LEMMA CallTyped ==
    ASSUME ConversationInv, NEW c \in Caller
    PROVE  /\ calls[c] \in Call /\ Known(calls[c]) /\ calls[c].depth \in Nat
           /\ Load(calls[c]) \in Nat /\ calls[c].depth <= Load(calls[c])
           /\ c = "swarm" /\ ~At(c, "none") => chain # <<>>
  <1>1. calls[c] \in Call
    BY DEF ConversationInv, ConversationTypeOK
  <1> QED
    BY <1>1, Bounds DEF ConversationInv, HandsKnown, ChainHeld, Call, Load

LEMMA SessionGrows ==
    ASSUME ConversationInv, NEW m \in Message
    PROVE  Append(session, m) \in Seq(Message)
  BY Appended DEF ConversationInv, ConversationTypeOK

\* What is queued joins the round about to begin.
LEMMA Appends ==
    ASSUME ConversationInv, NEW c \in Caller,
           Send(c) \/ AppendQueued(c) \/ Dispatched(c) \/ OwnRound(c)
    PROVE  ConversationInv'
  <1>1. /\ slash' = slash /\ arrived' = arrived /\ cancels' = cancels
        /\ queued' = queued /\ strays' = strays /\ chain' = chain
    BY Zenon DEF Send, AppendQueued, Dispatched, OwnRound
  <1>2. ~InLoop(c) /\ (c = "swarm" => chain # <<>>)
    BY CallTyped DEF Send, AppendQueued, Dispatched, OwnRound, At, InLoop
  <1>3. cancelled \in BOOLEAN /\ session \in Seq(Message) /\ <<>> \in Seq(Message)
    BY EmptyQueue DEF ConversationInv, ConversationTypeOK
  <1>4. CASE Send(c) \/ AppendQueued(c) \/ Dispatched(c)
    <2>1. \E q \in {pending, <<>>} : DrainAppend(c, calls[c], q)
      BY <1>4, Zenon DEF Send, AppendQueued, Dispatched
    <2>2. calls[c].prompt \in Message /\ calls[c] \in Call
      BY <1>4, CallTyped DEF Send, AppendQueued, Dispatched, At, Known
    <2>3. AppendQueued(c) => calls[c].hand \in Message
      BY CallTyped DEF AppendQueued, At, Known
    <2>4. session' \in {session, <<>>} \/ (AppendQueued(c) /\ session' = Append(session, calls[c].hand))
      BY <1>4 DEF Send, AppendQueued, Dispatched, Flushed
    <2>5. session' \in Seq(Message)
      BY <1>3, <2>3, <2>4, SessionGrows
    <2>6. steering' \in {steering, <<>>}
      BY <1>4 DEF Send, AppendQueued, Dispatched, Flushed
    <2>7. cancelled' \in BOOLEAN
      BY <1>3, <1>4, Zenon DEF Send, AppendQueued, Dispatched, Flushed
    <2> QED
      BY <1>1, <1>2, <2>1, <2>2, <2>5, <2>6, <2>7, CallTyped, RoundFills
  <1>5. CASE OwnRound(c)
    <2> DEFINE k == [calls[c] EXCEPT !.prompt = calls[c].hand, !.depth = calls[c].depth + 1]
    <2>1. DrainAppend(c, k, pending) /\ UNCHANGED <<steering, cancelled, session>>
      BY <1>5, Zenon DEF OwnRound
    <2>2. calls[c].hand \in Message /\ calls[c] \in Call /\ Load(calls[c]) = calls[c].depth + 1
      BY <1>5, CallTyped DEF OwnRound, At, Known, Load
    <2>3. calls[c].depth + 1 \in 0..MaxMessages
      <3>1. /\ Load(calls[c]) + Len(pending) + Len(chain) <= arrived
            /\ Len(pending) \in Nat /\ Len(chain) \in Nat /\ arrived \in 0..MaxMessages
        BY LenProperties DEF ConversationInv, RoundsArrived, ConversationTypeOK
      <3> QED
        BY <2>2, <3>1, CallTyped, Bounds
    <2>4. calls[c].hand \in 0..MaxMessages
      BY <2>2, Bounds DEF Message
    <2>5. k \in Call /\ k.prompt = calls[c].hand /\ k.depth = calls[c].depth + 1
      BY <2>2, <2>3, <2>4 DEF Call
    <2> HIDE DEF k
    <2>6. k.depth <= Load(calls[c])
      BY <2>2, <2>3, <2>5
    <2>7. k.prompt \in Message /\ cancelled' \in BOOLEAN /\ session' \in Seq(Message)
          /\ steering' \in {steering, <<>>}
      BY <1>3, <2>1, <2>2, <2>5
    <2> QED
      BY <1>1, <1>2, <2>1, <2>5, <2>6, <2>7, RoundFills
  <1> QED
    BY <1>4, <1>5

\* The loop of a turn
LEMMA Loop ==
    ASSUME ConversationInv, NEW c \in Caller,
           AppendPrompt(c) \/ LoopTop(c) \/ AppendSteering(c) \/ LoopAgain(c)
    PROVE  ConversationInv'
  <1>1. /\ pending' = pending /\ cancelled' = cancelled /\ turnInFlight' = turnInFlight
        /\ chain' = chain /\ slash' = slash /\ arrived' = arrived /\ cancels' = cancels
        /\ queued' = queued /\ strays' = strays
    BY Zenon DEF AppendPrompt, LoopTop, AppendSteering, LoopAgain
  <1>2. calls[c] \in Call /\ Known(calls[c])
    BY CallTyped
  <1>3. InLoop(c)
    BY DEF AppendPrompt, LoopTop, AppendSteering, LoopAgain, At, InLoop
  <1>4. session' \in Seq(Message)
    <2>1. session \in Seq(Message)
      BY DEF ConversationInv, ConversationTypeOK
    <2>2. \/ session' = session
          \/ At(c, "expand") /\ session' = Append(session, calls[c].prompt)
          \/ At(c, "absorb") /\ session' = Append(session, calls[c].hand)
      BY Zenon DEF AppendPrompt, LoopTop, AppendSteering, LoopAgain
    <2> QED
      BY <1>2, <2>1, <2>2, SessionGrows DEF At, Known
  <1>5. steering \in Seq(Message)
    BY DEF ConversationInv, ConversationTypeOK
  <1>6. \/ Goes(c, "top") /\ steering' = steering
        \/ Goes(c, "calling") /\ steering' = steering
        \/ steering # <<>> /\ Takes(c, "absorb", Head(steering)) /\ steering' = Tail(steering)
    BY Zenon, <1>3 DEF AppendPrompt, LoopTop, AppendSteering, LoopAgain, Absorb
  <1>7. CASE (Goes(c, "top") \/ Goes(c, "calling")) /\ steering' = steering
    <2>1. PICK p \in {"top", "calling"} : Goes(c, p)
      BY <1>7
    <2> DEFINE k == [calls[c] EXCEPT !.pc = p]
    <2>2. k \in Call /\ k.pc = p /\ k.depth = calls[c].depth
      BY <1>2 DEF Call
    <2>3. calls' = [calls EXCEPT ![c] = k]
      BY <2>1, Zenon DEF Goes
    <2> HIDE DEF k
    <2>4. Loops(k) /\ Known(k)
      BY <2>2 DEF Loops, Known
    <2> QED
      BY <1>1, <1>3, <1>4, <1>5, <1>7, <2>2, <2>3, <2>4, LoopGoesOn
  <1>8. CASE steering # <<>> /\ Takes(c, "absorb", Head(steering)) /\ steering' = Tail(steering)
    <2> DEFINE k == [calls[c] EXCEPT !.pc = "absorb", !.hand = Head(steering)]
    <2>1. Head(steering) \in Message /\ Tail(steering) \in Seq(Message)
      BY <1>5, <1>8, Taken
    <2>2. Head(steering) \in 0..MaxMessages
      BY <2>1, Bounds DEF Message
    <2>3. k \in Call /\ k.pc = "absorb" /\ k.depth = calls[c].depth /\ k.hand = Head(steering)
      BY <1>2, <2>2 DEF Call
    <2>4. calls' = [calls EXCEPT ![c] = k]
      BY <1>8, Zenon DEF Takes
    <2> HIDE DEF k
    <2>5. Loops(k) /\ Known(k)
      BY <2>1, <2>3 DEF Loops, Known
    <2> QED
      BY <1>1, <1>3, <1>4, <1>8, <2>1, <2>3, <2>4, <2>5, LoopGoesOn
  <1> QED
    BY <1>6, <1>7, <1>8

\* A turn that ends, or what follows it
LEMMA Ends ==
    ASSUME ConversationInv, NEW c \in Caller,
           Reply(c) \/ Cancelled(c) \/ Fails(c) \/ OwnNext(c) \/ OwnCleared(c) \/ OwnFails(c)
             \/ Settled(c)
    PROVE  ConversationInv'
  <1>1. slash' = slash /\ arrived' = arrived /\ cancels' = cancels /\ queued' = queued
    BY Zenon DEF Reply, Cancelled, Fails, OwnNext, OwnCleared, OwnFails, Settled
  <1>2. cancelled \in BOOLEAN /\ session \in Seq(Message) /\ <<>> \in Seq(Message)
        /\ pending \in Seq(Message) /\ Len(pending) \in Nat /\ Len(<<>>) = 0 /\ ToSet(<<>>) = {}
    BY EmptyQueue, LenProperties DEF ConversationInv, ConversationTypeOK
  <1>3. session' \in {session, <<>>}
    BY Zenon DEF Reply, Cancelled, Fails, OwnNext, OwnCleared, OwnFails, Settled, Flushed
  <1>4. cancelled' \in BOOLEAN
    BY <1>2, Zenon DEF Reply, Cancelled, Fails, OwnNext, OwnCleared, OwnFails, Settled, Flushed
  <1>5. session' \in Seq(Message)
    BY <1>2, <1>3
  <1>6. Load(calls[c]) \in Nat
    BY CallTyped
  <1>7. CASE Reply(c) \/ OwnNext(c) \/ OwnCleared(c)
    <2>1. \E q \in {pending, <<>>} : DrainOwn(c, q)
      BY <1>7, Zenon DEF Reply, OwnNext, OwnCleared
    <2>2. calls[c].pc \in {"calling", "ownDispatch", "ownAfter"}
      BY <1>7 DEF Reply, OwnNext, OwnCleared, At
    <2>3. /\ pending' \in Seq(Message) /\ Len(pending') <= Len(pending)
          /\ ToSet(pending') \subseteq ToSet(pending)
      BY <2>1, <2>2, DrainsOwn
    <2>4. PICK k : /\ CallGoes(c, k) /\ ~Loops(k)
                   /\ Load(k) + Len(pending') <= Load(calls[c]) + Len(pending)
                   /\ pending' = <<>> \/ Tends(k)
      BY <2>1, <2>2, DrainsOwn
    <2>5. strays' = strays
      BY <1>7, Zenon DEF Reply, OwnNext, OwnCleared
    <2>6. \/ turnInFlight' \in BOOLEAN /\ ~turnInFlight' /\ steering' = <<>>
          \/ turnInFlight' = turnInFlight /\ ~InLoop(c) /\ steering' \in {steering, <<>>}
      <3>1. CASE Reply(c)
        BY <3>1, Zenon DEF Reply, Finally
      <3>2. CASE OwnNext(c) \/ OwnCleared(c)
        <4>1. ~InLoop(c)
          BY <3>2 DEF OwnNext, OwnCleared, At, InLoop
        <4>2. turnInFlight' = turnInFlight /\ steering' \in {steering, <<>>}
          BY <3>2, Zenon DEF OwnNext, OwnCleared, Flushed
        <4> QED
          BY <4>1, <4>2
      <3> QED
        BY <1>7, <3>1, <3>2
    <2> QED
      BY <1>1, <1>4, <1>5, <2>3, <2>4, <2>5, <2>6, CallGoesOn
  <1>8. CASE Cancelled(c) \/ Fails(c) \/ OwnFails(c)
    <2>1. pending' = pending /\ strays' = strays \cup ToSet(pending)
      BY <1>8, Zenon DEF Cancelled, Fails, OwnFails, LeavesQueue
    <2>2. ~At(c, "none")
      BY <1>8 DEF Cancelled, Fails, OwnFails, Throwing, At
    <2>3. PICK k : CallGoes(c, k) /\ ~Loops(k) /\ Load(k) <= Load(calls[c])
      <3>1. CASE Cancelled(c)
        BY <2>2, <3>1, RoundEnds DEF Cancelled
      <3>2. CASE Fails(c) \/ OwnFails(c)
        <4>1. Settle(c, FALSE)
          BY <3>2, Zenon DEF Fails, OwnFails
        <4>2. PICK k : CallGoes(c, k) /\ ~Loops(k) /\ Load(k) = 0
          BY <2>2, <4>1, Settles
        <4>3. Load(k) <= Load(calls[c])
          BY <1>6, <4>2
        <4> QED
          BY <4>2, <4>3
      <3> QED
        BY <1>8, <3>1, <3>2
    <2>4. \/ turnInFlight' \in BOOLEAN /\ ~turnInFlight' /\ steering' = <<>>
          \/ turnInFlight' = turnInFlight /\ ~InLoop(c) /\ steering' \in {steering, <<>>}
      <3>1. CASE Cancelled(c) \/ Fails(c)
        BY <3>1, Zenon DEF Cancelled, Fails, Finally
      <3>2. CASE OwnFails(c)
        BY <3>2 DEF OwnFails, InLoop
      <3> QED
        BY <1>8, <3>1, <3>2
    <2>5. Load(k) \in Nat
      BY <2>3, Bounds DEF CallGoes, Call, Load
    <2>6. /\ pending' \in Seq(Message) /\ Len(pending') <= Len(pending)
          /\ ToSet(pending') \subseteq ToSet(pending)
          /\ Load(k) + Len(pending') <= Load(calls[c]) + Len(pending)
      BY <1>2, <1>6, <2>1, <2>3, <2>5
    <2> QED
      BY <1>1, <1>4, <1>5, <2>1, <2>3, <2>4, <2>6, CallGoesOn
  <1>9. CASE Settled(c)
    <2>1. /\ pending' \in {pending, <<>>} /\ strays' = strays /\ turnInFlight' = turnInFlight
          /\ steering' \in {steering, <<>>} /\ Settle(c, FALSE)
      BY <1>9, Zenon DEF Settled, Flushed
    <2>2. ~At(c, "none") /\ ~Tends(calls[c]) /\ ~InLoop(c)
      BY <1>9 DEF Settled, At, Tends, InLoop
    <2>3. PICK k : CallGoes(c, k) /\ ~Loops(k) /\ Load(k) = 0
      BY <2>1, <2>2, Settles
    <2>4. /\ pending' \in Seq(Message) /\ Len(pending') <= Len(pending)
          /\ ToSet(pending') \subseteq ToSet(pending) /\ Len(pending') \in Nat
      BY <1>2, <2>1, PartOfQueue
    <2>5. Load(k) + Len(pending') <= Load(calls[c]) + Len(pending)
      BY <1>2, <1>6, <2>3, <2>4
    <2> QED
      BY <1>1, <1>4, <1>5, <2>1, <2>2, <2>3, <2>4, <2>5, CallGoesOn
  <1> QED
    BY <1>7, <1>8, <1>9

\* A message, or a cancel, arrives.
LEMMA Arrivals ==
    ASSUME ConversationInv, NEW m \in Message, Type(m) \/ Steer(m) \/ Submit(m)
    PROVE  ConversationInv'
  <1> USE DEF ConversationInv
  <1>1. /\ pending \in Seq(Message) /\ chain \in Seq(Message) /\ arrived \in Nat
        /\ cancels \in 0..MaxCancels /\ slash \subseteq Message /\ strays \subseteq queued
        /\ cancelled \in BOOLEAN /\ turnInFlight \in BOOLEAN /\ session \in Seq(Message)
        /\ steering \in Seq(Message) /\ calls \in [Caller -> Call]
        /\ queued \subseteq Message /\ ToSet(pending) \subseteq queued
    BY Bounds DEF ConversationTypeOK, QueueTended
  <1>2. Len(pending) \in Nat /\ Len(chain) \in Nat
    BY <1>1, LenProperties
  <1>3. arrived' = arrived + 1 /\ arrived' \in 0..MaxMessages /\ slash' \subseteq Message
    BY <1>1, Bounds DEF Type, Steer, Submit, Arrive
  <1>4. ASSUME NEW c \in Caller, NEW k \in Call, At(c, "none"), c # "swarm",
               k.pc \in {"command", "hook"}, k.depth = 0, k.pc = "hook" => k.prompt \in Message,
               calls' = [calls EXCEPT ![c] = k],
               UNCHANGED <<pending, queued, strays, steering, cancelled, turnInFlight, chain,
                           session, cancels>>
        PROVE  ConversationInv'
    <2>1. Load(calls[c]) \in Nat /\ Load(calls[c]) + Len(pending) + Len(chain) <= arrived
      BY CallTyped DEF RoundsArrived
    <2>2. Load(k) = 0 /\ Known(k)
      BY <1>4 DEF Load, Known
    <2>3. CallGoes(c, k)
      BY <1>1, <1>2, <1>4, <2>2 DEF CallGoes
    <2>4. Load(k) + Len(pending') + Len(chain') <= arrived'
      BY <1>1, <1>2, <1>3, <1>4, <2>1, <2>2
    <2>5. QueueShrinks(c, k)
      BY <1>1, <1>2, <1>4, <2>4 DEF QueueShrinks, Tends, At
    <2>6. RestKept(c, k)
      BY <1>1, <1>3, <1>4 DEF RestKept, NoLateSteering, InLoop, At
    <2> QED
      BY <2>3, <2>5, <2>6, CallMoves
  <1>5. CASE Type(m)
    <2>1. CASE HostBusy
      <3>1. /\ Enqueue(m)
            /\ UNCHANGED <<calls, steering, cancelled, turnInFlight, chain, session, cancels>>
        BY <1>5, <2>1, Zenon DEF Type
      <3>2. CallsStay
        BY <1>1, <3>1 DEF CallsStay
      <3>3. OthersKept
        BY <1>1, <1>3, <3>1 DEF OthersKept, NoLateSteering
      <3>4. /\ pending' = Append(pending, m) /\ queued' = queued \cup {m}
            /\ strays' = IF turnInFlight THEN strays ELSE strays \cup {m}
            /\ chain' = chain
        BY <3>1 DEF Enqueue
      <3>5. QueuesGrow
        <4>1. /\ pending' \in Seq(Message) /\ Len(pending') = Len(pending) + 1
              /\ ToSet(pending') = ToSet(pending) \cup {m}
          BY <1>1, <3>4, Appended
        <4>2. chain # <<>> \/ ("swarm" \in Caller => At("swarm", "none"))
          BY DEF ChainHeld
        <4>3. Len(pending') + Len(chain') + arrived <= Len(pending) + Len(chain) + arrived'
          BY <1>1, <1>2, <1>3, <3>4, <4>1
        <4> QED
          BY <1>1, <3>4, <4>1, <4>2, <4>3 DEF QueuesGrow
      <3> QED
        BY <3>2, <3>3, <3>5, QueuesMove
    <2>2. CASE ~HostBusy
      <3> DEFINE k == IF m \in slash' THEN [NoCall EXCEPT !.pc = "command"]
                      ELSE [NoCall EXCEPT !.pc = "hook", !.prompt = m]
      <3>1. /\ "host" \in Caller /\ calls' = [calls EXCEPT !["host"] = k]
            /\ UNCHANGED <<pending, queued, strays>>
            /\ UNCHANGED <<steering, cancelled, turnInFlight, chain, session, cancels>>
        BY <1>5, <2>2, Zenon DEF Type
      <3>2. At("host", "none")
        BY <2>2 DEF HostBusy
      <3>3. /\ k \in Call /\ k.pc \in {"command", "hook"} /\ k.depth = 0
            /\ k.pc = "hook" => k.prompt \in Message
        BY NewCalls
      <3> HIDE DEF k
      <3> QED
        BY <1>4, <3>1, <3>2, <3>3
    <2> QED
      BY <2>1, <2>2
  <1>6. CASE Steer(m)
    <2>1. CASE turnInFlight
      <3>1. /\ steering' = Append(steering, m) /\ chain' = chain /\ calls' = calls
            /\ pending' = pending /\ cancelled' = cancelled /\ turnInFlight' = turnInFlight
            /\ session' = session /\ cancels' = cancels /\ queued' = queued /\ strays' = strays
        BY <1>6, <2>1, Zenon DEF Steer
      <3>2. CallsStay
        BY <1>1, <3>1 DEF CallsStay
      <3>3. steering' \in Seq(Message)
        BY <1>1, <3>1, Appended
      <3>4. OthersKept
        BY <1>1, <1>3, <2>1, <3>1, <3>3 DEF OthersKept
      <3>5. chain # <<>> \/ ("swarm" \in Caller => At("swarm", "none"))
        BY DEF ChainHeld
      <3>6. QueuesGrow
        BY <1>1, <1>2, <1>3, <3>1, <3>5 DEF QueuesGrow
      <3> QED
        BY <3>2, <3>4, <3>6, QueuesMove
    <2>2. CASE ~turnInFlight
      <3> DEFINE k == [NoCall EXCEPT !.pc = "hook", !.prompt = m]
      <3>1. /\ "steer" \in Caller /\ At("steer", "none")
            /\ calls' = [calls EXCEPT !["steer"] = k]
            /\ UNCHANGED <<pending, queued, strays, steering, cancelled, turnInFlight, chain,
                           session, cancels>>
        BY <1>6, <2>2, Zenon DEF Steer
      <3>2. k \in Call /\ k.pc = "hook" /\ k.depth = 0 /\ k.prompt \in Message
        BY NewCalls
      <3> HIDE DEF k
      <3> QED
        BY <1>4, <3>1, <3>2
    <2> QED
      BY <2>1, <2>2
  <1>7. CASE Submit(m)
    <2>1. /\ chain' = Append(chain, m)
          /\ pending' = pending /\ steering' = steering /\ turnInFlight' = turnInFlight
          /\ session' = session /\ queued' = queued /\ strays' = strays
          /\ Cancel \/ (cancelled' = cancelled /\ cancels' = cancels /\ calls' = calls)
      BY <1>7, Zenon DEF Submit
    <2>2. CallsStay /\ cancelled' \in BOOLEAN /\ cancels' \in 0..MaxCancels
      <3>1. CASE Cancel
        BY <3>1, Cancels
      <3>2. CASE cancelled' = cancelled /\ cancels' = cancels /\ calls' = calls
        BY <1>1, <3>2 DEF CallsStay
      <3> QED
        BY <2>1, <3>1, <3>2
    <2>3. OthersKept
      BY <1>1, <1>3, <2>1, <2>2 DEF OthersKept, NoLateSteering
    <2>4. chain' \in Seq(Message) /\ chain' # <<>> /\ Len(chain') = Len(chain) + 1
      BY <1>1, <2>1, Appended
    <2>5. QueuesGrow
      BY <1>1, <1>2, <1>3, <2>1, <2>4 DEF QueuesGrow
    <2> QED
      BY <2>2, <2>3, <2>5, QueuesMove
  <1> QED
    BY <1>5, <1>6, <1>7

LEMMA CancelArrives ==
    ASSUME ConversationInv, HostCancels
    PROVE  ConversationInv'
  <1> USE DEF ConversationInv
  <1>1. /\ pending' = pending /\ steering' = steering /\ turnInFlight' = turnInFlight
        /\ chain' = chain /\ session' = session /\ slash' = slash /\ arrived' = arrived
        /\ queued' = queued /\ strays' = strays /\ Cancel
    BY Zenon DEF HostCancels
  <1>2. CallsStay /\ cancelled' \in BOOLEAN /\ cancels' \in 0..MaxCancels
    BY <1>1, Cancels
  <1>3. OthersKept
    BY <1>1, <1>2 DEF OthersKept, NoLateSteering, ConversationTypeOK
  <1>4. chain # <<>> \/ ("swarm" \in Caller => At("swarm", "none"))
    BY DEF ChainHeld
  <1>5. /\ pending \in Seq(Message) /\ chain \in Seq(Message) /\ arrived \in Nat
        /\ strays \subseteq queued /\ queued \subseteq Message /\ ToSet(pending) \subseteq queued
    BY Bounds DEF ConversationTypeOK, QueueTended
  <1>6. Len(pending) \in Nat /\ Len(chain) \in Nat
    BY <1>5, LenProperties
  <1>7. QueuesGrow
    BY <1>1, <1>4, <1>5, <1>6 DEF QueuesGrow
  <1> QED
    BY <1>2, <1>3, <1>7, QueuesMove

\* The first submission is queued, or run.
LEMMA Submission ==
    ASSUME ConversationInv, RunSubmission
    PROVE  ConversationInv'
  <1> USE DEF ConversationInv
  <1> DEFINE m == Head(chain)
  <1>1. /\ pending \in Seq(Message) /\ chain \in Seq(Message) /\ arrived \in 0..MaxMessages
        /\ cancels \in 0..MaxCancels /\ slash \subseteq Message /\ strays \subseteq queued
        /\ cancelled \in BOOLEAN /\ turnInFlight \in BOOLEAN /\ session \in Seq(Message)
        /\ steering \in Seq(Message) /\ calls \in [Caller -> Call]
        /\ queued \subseteq Message /\ ToSet(pending) \subseteq queued
    BY DEF ConversationTypeOK, QueueTended
  <1>2. Len(pending) \in Nat /\ Len(chain) \in Nat /\ arrived \in Nat
    BY <1>1, LenProperties, Bounds
  <1>3. /\ "swarm" \in Caller /\ chain # <<>> /\ At("swarm", "none")
        /\ steering' = steering /\ cancelled' = cancelled /\ session' = session
        /\ slash' = slash /\ arrived' = arrived /\ cancels' = cancels
    BY Zenon DEF RunSubmission, TakeUp
  <1>4. /\ m \in Message /\ Tail(chain) \in Seq(Message) /\ Len(Tail(chain)) = Len(chain) - 1
    BY <1>1, <1>3, Taken
  <1>5. /\ Load(calls["swarm"]) \in Nat
        /\ Load(calls["swarm"]) + Len(pending) + Len(chain) <= arrived
    BY <1>3, CallTyped DEF RoundsArrived
  <1>6. CASE turnInFlight /\ Enqueue(m) /\ chain' = Tail(chain) /\ UNCHANGED <<calls, turnInFlight>>
    <2>1. CallsStay
      BY <1>1, <1>6 DEF CallsStay
    <2>2. OthersKept
      BY <1>1, <1>3, <1>6 DEF OthersKept
    <2>3. /\ pending' = Append(pending, m) /\ queued' = queued \cup {m} /\ strays' = strays
      BY <1>6 DEF Enqueue
    <2>4. /\ pending' \in Seq(Message) /\ Len(pending') = Len(pending) + 1
          /\ ToSet(pending') = ToSet(pending) \cup {m}
      BY <1>1, <1>4, <2>3, Appended
    <2>5. Len(pending') + Len(chain') + arrived <= Len(pending) + Len(chain) + arrived'
      BY <1>2, <1>3, <1>4, <1>6, <2>4
    <2> HIDE DEF m
    <2>6. QueuesGrow
      BY <1>1, <1>3, <1>4, <1>6, <2>3, <2>4, <2>5 DEF QueuesGrow
    <2> QED
      BY <2>1, <2>2, <2>6, QueuesMove
  <1>7. CASE /\ m \in slash /\ Goes("swarm", "command")
             /\ UNCHANGED <<pending, chain, turnInFlight, queued, strays>>
    <2> DEFINE k == [calls["swarm"] EXCEPT !.pc = "command"]
    <2>1. k \in Call /\ k.pc = "command" /\ k.depth = calls["swarm"].depth
      BY <1>1, <1>3 DEF Call
    <2>2. calls' = [calls EXCEPT !["swarm"] = k]
      BY <1>7, Zenon DEF Goes
    <2> HIDE DEF k
    <2>3. Known(k) /\ Load(k) = Load(calls["swarm"])
      BY <1>3, <2>1 DEF Known, Load, At
    <2>4. CallGoes("swarm", k)
      BY <1>1, <1>2, <1>3, <1>7, <2>1, <2>2, <2>3 DEF CallGoes
    <2>5. QueueShrinks("swarm", k)
      BY <1>1, <1>2, <1>3, <1>5, <1>7, <2>3 DEF QueueShrinks, Tends, At
    <2>6. RestKept("swarm", k)
      BY <1>1, <1>2, <1>3, <1>7 DEF RestKept, NoLateSteering, InLoop, At
    <2> QED
      BY <1>3, <2>4, <2>5, <2>6, CallMoves
  <1>8. CASE /\ DrainAppend("swarm", [NoCall EXCEPT !.prompt = m], pending)
             /\ UNCHANGED <<chain, queued, strays>>
    <2> DEFINE k == [NoCall EXCEPT !.prompt = m]
    <2>1. k \in Call /\ k.prompt \in Message /\ k.depth = 0
      BY <1>4, NewCalls
    <2>2. DrainAppend("swarm", k, pending) /\ chain' = chain /\ queued' = queued /\ strays' = strays
      BY <1>8, Zenon
    <2> HIDE DEF k, m
    <2>3. k.depth <= Load(calls["swarm"]) /\ ~InLoop("swarm")
      BY <1>3, <1>5, <2>1 DEF InLoop, At
    <2> QED
      BY <1>1, <1>3, <2>1, <2>2, <2>3, RoundFills
  <1> QED
    BY <1>6, <1>7, <1>8 DEF RunSubmission, TakeUp

-----------------------------------------------------------------------------
LEMMA ConversationStarts == ConversationInit => ConversationInv
  <1> SUFFICES ASSUME ConversationInit
               PROVE  ConversationInv
    OBVIOUS
  <1>1. /\ pending = <<>> /\ steering = <<>> /\ chain = <<>> /\ session = <<>>
        /\ cancelled \in BOOLEAN /\ turnInFlight \in BOOLEAN /\ ~turnInFlight
        /\ calls = [c \in Caller |-> NoCall]
        /\ slash = {} /\ arrived = 0 /\ cancels = 0 /\ queued = {} /\ strays = {}
    BY Zenon DEF ConversationInit
  <1>2. \A c \in Caller : calls[c] = NoCall
    BY <1>1
  <1>3. ConversationTypeOK
    BY <1>1, NoCallTyped, EmptyQueue, Bounds DEF ConversationTypeOK
  <1>4. HandsKnown /\ ChainHeld /\ FlagComesDown /\ NoLateSteering
    BY <1>1, <1>2, NoCallTyped DEF HandsKnown, Known, ChainHeld, At, FlagComesDown, NoLateSteering
  <1>5. RoundsArrived
    BY <1>1, <1>2, NoCallTyped, EmptyQueue DEF RoundsArrived, Load
  <1>6. QueueTended
    BY <1>1, EmptyQueue DEF QueueTended
  <1> QED
    BY <1>3, <1>4, <1>5, <1>6 DEF ConversationInv

LEMMA ConversationSteps == ConversationInv /\ [ConversationNext]_conversation_vars => ConversationInv'
  <1> SUFFICES ASSUME ConversationInv, [ConversationNext]_conversation_vars
               PROVE  ConversationInv'
    OBVIOUS
  <1>1. CASE UNCHANGED conversation_vars
    BY <1>1 DEF conversation_vars, ConversationInv, ConversationTypeOK, HandsKnown, Known,
                RoundsArrived, Load, ChainHeld, QueueTended, Tends, FlagComesDown, InLoop,
                NoLateSteering, At
  <1>2. ASSUME NEW c \in Caller, CallStep(c)
        PROVE  ConversationInv'
    BY <1>2, Appends, Loop, Ends DEF CallStep, TurnOver
  <1>3. ASSUME NEW m \in Message, Type(m) \/ Steer(m) \/ Submit(m)
        PROVE  ConversationInv'
    BY <1>3, Arrivals
  <1> QED
    BY <1>1, <1>2, <1>3, CancelArrives, Submission DEF ConversationNext

LEMMA ConversationHolds == ConversationSpec => []ConversationInv
  <1> QED
    BY ConversationStarts, ConversationSteps, PTL DEF ConversationSpec

(* Every variable keeps its type: in particular no round starts without a      *)
(* message of its own, and no call settles a submission that is not there.     *)
THEOREM ConversationTypeCorrect == ConversationSpec => []ConversationTypeOK
  <1>1. ConversationInv => ConversationTypeOK
    BY DEF ConversationInv
  <1> QED
    BY <1>1, ConversationHolds, PTL

(* turnInFlight is up only while a turn is in its loop, for any number of      *)
(* messages and cancels (conversation-service.ts:313-314, 1467).               *)
THEOREM FlagDown == ConversationSpec => []FlagComesDown
  <1>1. ConversationInv => FlagComesDown
    BY DEF ConversationInv
  <1> QED
    BY <1>1, ConversationHolds, PTL

(* No steering message outlives its round (conversation-service.ts:1468-1471). *)
THEOREM SteeringInTime == ConversationSpec => []NoLateSteering
  <1>1. ConversationInv => NoLateSteering
    BY DEF ConversationInv
  <1> QED
    BY <1>1, ConversationHolds, PTL

(* When nothing runs any more, the queue holds only what no completed turn     *)
(* could take (conversation-service.ts:1491-1503).                            *)
THEOREM QueueEmptied == ConversationSpec => []NothingLeftBehind
  <1>1. ConversationInv => NothingLeftBehind
    BY DEF ConversationInv, QueueTended, Tends, NothingLeftBehind, At
  <1> QED
    BY <1>1, ConversationHolds, PTL
=============================================================================
