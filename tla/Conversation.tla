---------------------------- MODULE Conversation ----------------------------
(***************************************************************************)
(* The conversation of an agent as its users see it: a terminal and the    *)
(* swarm both start turns; what they say meanwhile is queued, steers the   *)
(* turn under way, or cancels it.  TurnLoop has the inside of a turn.      *)
(*                                                                         *)
(* Sources: drone-agent/src/runtime/conversation-service.ts, with          *)
(* tui/app.tsx (the terminal) and plugins/swarm/websocket.ts (the swarm).  *)
(*                                                                         *)
(* Messages are numbered in the order in which they arrive.  What a call   *)
(* of sendUserMessage does between two awaits is a step; an await on a     *)
(* settled promise is not an interleaving point.  The calls are named for  *)
(* their callers, each of which has one at a time: the terminal's input    *)
(* line, the submissions of the swarm, and /steer on an agent that has no  *)
(* turn in flight (bound: one of these at a time).                         *)
(***************************************************************************)
EXTENDS Integers, Sequences, FiniteSets, SequencesExt

CONSTANTS
    Caller,         \* who talks to this agent
    MaxMessages,    \* bound
    MaxCancels      \* bound

ASSUME ConversationAssumption ==
    /\ Caller \subseteq {"host", "swarm", "steer"}
    /\ MaxMessages \in Nat /\ MaxCancels \in Nat

VARIABLES
    pending,        \* pendingEntries
    steering,       \* steeringMessages
    cancelled,
    turnInFlight,
    chain,          \* submitChain: the submissions not settled; the first one runs
    calls,          \* the calls of sendUserMessage
    session,        \* the user turns of the session
    slash,          \* the messages that are slash commands
    arrived, cancels,
    queued,         \* messages that were ever in pendingEntries
    strays          \* those put there, or left there, by no turn's fault: see Enqueue, LeavesQueue

conversation_vars == <<pending, steering, cancelled, turnInFlight, chain, calls, session,
                       slash, arrived, cancels, queued, strays>>

Message == 1..MaxMessages

\* pc: what the call awaits; depth: the rounds that wait for the one under way
\* while they drain the queue; hand: the message it has taken; aimed: a cancel
\* was requested while it was under way.
Call == [pc : {"none", "command", "hook", "dispatch", "append", "expand", "top", "absorb",
               "calling", "ownDispatch", "ownHook", "ownAfter", "after"},
         depth : 0..MaxMessages, prompt : 0..MaxMessages, hand : 0..MaxMessages,
         aimed : BOOLEAN]

NoCall == [pc |-> "none", depth |-> 0, prompt |-> 0, hand |-> 0, aimed |-> FALSE]

ConversationTypeOK ==
    /\ pending \in Seq(Message)
    /\ steering \in Seq(Message)
    /\ cancelled \in BOOLEAN
    /\ turnInFlight \in BOOLEAN
    /\ chain \in Seq(Message)
    /\ calls \in [Caller -> Call]
    /\ session \in Seq(Message)
    /\ slash \subseteq Message
    /\ arrived \in 0..MaxMessages
    /\ cancels \in 0..MaxCancels
    /\ queued \subseteq Message
    /\ strays \subseteq queued

ConversationInit ==
    /\ pending = <<>>
    /\ steering = <<>>
    /\ cancelled = FALSE
    /\ turnInFlight = FALSE
    /\ chain = <<>>
    /\ calls = [c \in Caller |-> NoCall]
    /\ session = <<>>
    /\ slash = {}
    /\ arrived = 0
    /\ cancels = 0
    /\ queued = {}
    /\ strays = {}

At(c, pc) == calls[c].pc = pc
Goes(c, pc) == calls' = [calls EXCEPT ![c].pc = pc]
Takes(c, pc, m) == calls' = [calls EXCEPT ![c] = [@ EXCEPT !.pc = pc, !.hand = m]]

\* Between turnInFlight = true and finally
InLoop(c) == calls[c].pc \in {"expand", "top", "absorb", "calling"}

-----------------------------------------------------------------------------
\* enqueueUserMessage, enqueueSlashCommand
Enqueue(m) ==
    /\ pending' = Append(pending, m)
    /\ queued' = queued \cup {m}
    /\ strays' = IF turnInFlight THEN strays ELSE strays \cup {m}

\* drainPendingEntries('append') from the queue q, and what follows it: the
\* next entry is taken, or the turn begins.
DrainAppend(c, call, q) ==
    /\ calls' = [calls EXCEPT ![c] =
                   IF q = <<>> THEN [call EXCEPT !.pc = "expand"]
                   ELSE [call EXCEPT !.pc = IF Head(q) \in slash THEN "dispatch" ELSE "append",
                                     !.hand = Head(q)]]
    /\ pending' = IF q = <<>> THEN q ELSE Tail(q)
    /\ turnInFlight' = (turnInFlight \/ q = <<>>)

\* The onBeforePrompt hooks are through: sendUserMessage.
Send(c) ==
    /\ At(c, "hook")
    /\ DrainAppend(c, calls[c], pending)
    /\ UNCHANGED <<steering, cancelled, chain, session, slash, arrived, cancels, queued, strays>>

\* A queued text becomes a user turn of the round about to begin.
AppendQueued(c) ==
    /\ At(c, "append")
    /\ session' = Append(session, calls[c].hand)
    /\ DrainAppend(c, calls[c], pending)
    /\ UNCHANGED <<steering, cancelled, chain, slash, arrived, cancels, queued, strays>>

\* clearSession: what a command that settles may have done
Flushed ==
    /\ steering' = <<>>
    /\ cancelled' = FALSE
    /\ session' = <<>>

Dispatched(c) ==
    /\ At(c, "dispatch")
    /\ \/ DrainAppend(c, calls[c], pending) /\ UNCHANGED <<steering, cancelled, session>>
       \/ DrainAppend(c, calls[c], <<>>) /\ Flushed
    /\ UNCHANGED <<chain, slash, arrived, cancels, queued, strays>>

\* Mutant of AppendPrompt: the drained entry is appended again.
AppendHand(c) ==
    /\ At(c, "expand")
    /\ session' = Append(session, calls[c].hand)
    /\ Goes(c, "top")
    /\ UNCHANGED <<pending, steering, cancelled, turnInFlight, chain, slash, arrived, cancels,
                   queued, strays>>

\* expandAndAppend(prompt)
AppendPrompt(c) ==
    /\ At(c, "expand")
    /\ session' = Append(session, calls[c].prompt)
    /\ Goes(c, "top")
    /\ UNCHANGED <<pending, steering, cancelled, turnInFlight, chain, slash, arrived, cancels,
                   queued, strays>>

\* The next steering message, or the request to the model
Absorb(c) ==
    IF steering = <<>>
    THEN Goes(c, "calling") /\ UNCHANGED steering
    ELSE Takes(c, "absorb", Head(steering)) /\ steering' = Tail(steering)

LoopTop(c) ==
    /\ At(c, "top")
    /\ ~cancelled
    /\ Absorb(c)
    /\ UNCHANGED <<pending, cancelled, turnInFlight, chain, session, slash, arrived, cancels,
                   queued, strays>>

AppendSteering(c) ==
    /\ At(c, "absorb")
    /\ session' = Append(session, calls[c].hand)
    /\ Absorb(c)
    /\ UNCHANGED <<pending, cancelled, turnInFlight, chain, slash, arrived, cancels, queued,
                   strays>>

\* The model called tools, and they have run; or its response is tried again.
LoopAgain(c) ==
    /\ At(c, "calling")
    /\ Goes(c, "top")
    /\ UNCHANGED <<pending, steering, cancelled, turnInFlight, chain, session, slash, arrived,
                   cancels, queued, strays>>

-----------------------------------------------------------------------------
\* The call settles: the swarm's next submission may run; the terminal runs
\* its onAfterToolCall hooks after a reply.
Settle(c, replied) ==
    /\ calls' = [calls EXCEPT ![c] = IF c = "host" /\ replied
                                     THEN [NoCall EXCEPT !.pc = "after"] ELSE NoCall]
    /\ chain' = IF c = "swarm" THEN Tail(chain) ELSE chain

\* The innermost round is over: the one that waits for it runs the
\* onAfterToolCall hooks, or the call settles.
RoundOver(c, replied) ==
    IF calls[c].depth = 0
    THEN Settle(c, replied)
    ELSE /\ calls' = [calls EXCEPT ![c] = [@ EXCEPT !.pc = "ownAfter",
                                                 !.depth = calls[c].depth - 1]]
         /\ UNCHANGED chain

\* drainPendingEntries('own-round') from the queue q: the next entry is
\* dispatched, or becomes the prompt of a round of its own.
DrainOwn(c, q) ==
    IF q = <<>>
    THEN RoundOver(c, TRUE) /\ pending' = q
    ELSE /\ calls' = [calls EXCEPT ![c] = [@ EXCEPT
                        !.pc = IF Head(q) \in slash THEN "ownDispatch" ELSE "ownHook",
                        !.hand = Head(q), !.aimed = FALSE]]
         /\ pending' = Tail(q)
         /\ UNCHANGED chain

\* The finally block of sendUserMessage
Finally == turnInFlight' = FALSE /\ steering' = <<>>

\* Mutant of Reply: the queue is left to the next call.
ReplyOnly(c) ==
    /\ At(c, "calling")
    /\ Finally
    /\ RoundOver(c, TRUE)
    /\ UNCHANGED <<pending, cancelled, session, slash, arrived, cancels, queued, strays>>

\* The turn completes normally: its reply, a guardrail's limit, or stopLoop.
Reply(c) ==
    /\ At(c, "calling")
    /\ Finally
    /\ DrainOwn(c, pending)
    /\ UNCHANGED <<cancelled, session, slash, arrived, cancels, queued, strays>>

\* What a turn that does not complete leaves in the queue
LeavesQueue == strays' = strays \cup ToSet(pending)

\* Mutant of Cancelled: its steering messages are kept.
CancelledKeepsSteering(c) ==
    /\ At(c, "top")
    /\ cancelled
    /\ cancelled' = FALSE
    /\ turnInFlight' = FALSE
    /\ LeavesQueue
    /\ RoundOver(c, FALSE)
    /\ UNCHANGED <<pending, steering, session, slash, arrived, cancels, queued>>

\* CANCEL_SENTINEL is returned; the queue is not drained, unless a round that
\* waits for this one drains it.
Cancelled(c) ==
    /\ At(c, "top")
    /\ cancelled
    /\ cancelled' = FALSE
    /\ Finally
    /\ LeavesQueue
    /\ RoundOver(c, FALSE)
    /\ UNCHANGED <<pending, session, slash, arrived, cancels, queued>>

Throwing(c) == calls[c].pc \in {"top", "calling", "dispatch"}

\* Mutant of Fails: turnInFlight is reset on returns only.
FailsInFlight(c) ==
    /\ Throwing(c)
    /\ steering' = <<>>
    /\ LeavesQueue
    /\ Settle(c, FALSE)
    /\ UNCHANGED <<pending, cancelled, turnInFlight, session, slash, arrived, cancels, queued>>

\* A request, a guardrail, the budget or a queued command throws: so do the
\* rounds that wait for this one.
Fails(c) ==
    /\ Throwing(c)
    /\ Finally
    /\ LeavesQueue
    /\ Settle(c, FALSE)
    /\ UNCHANGED <<pending, cancelled, session, slash, arrived, cancels, queued>>

-----------------------------------------------------------------------------
\* Between the rounds of drainPendingEntries('own-round'): hooks and commands
OwnRound(c) ==
    /\ At(c, "ownHook")
    /\ DrainAppend(c, [calls[c] EXCEPT !.prompt = calls[c].hand, !.depth = calls[c].depth + 1],
                   pending)
    /\ UNCHANGED <<steering, cancelled, chain, session, slash, arrived, cancels, queued, strays>>

OwnNext(c) ==
    /\ calls[c].pc \in {"ownAfter", "ownDispatch"}
    /\ DrainOwn(c, pending)
    /\ UNCHANGED <<steering, cancelled, turnInFlight, session, slash, arrived, cancels, queued,
                   strays>>

OwnCleared(c) ==
    /\ At(c, "ownDispatch")
    /\ DrainOwn(c, <<>>)
    /\ Flushed
    /\ UNCHANGED <<turnInFlight, slash, arrived, cancels, queued, strays>>

\* A hook or a command throws: the call does.
OwnFails(c) ==
    /\ calls[c].pc \in {"ownHook", "ownAfter", "ownDispatch"}
    /\ Settle(c, FALSE)
    /\ LeavesQueue
    /\ UNCHANGED <<pending, steering, cancelled, turnInFlight, session, slash, arrived, cancels,
                   queued>>

\* A command of an idle terminal or of the swarm settles, or the terminal's
\* hooks after a reply do.
Settled(c) ==
    /\ calls[c].pc \in {"command", "after"}
    /\ Settle(c, FALSE)
    /\ \/ UNCHANGED <<pending, steering, cancelled, session>>
       \/ At(c, "command") /\ Flushed /\ pending' = <<>>
    /\ UNCHANGED <<turnInFlight, slash, arrived, cancels, queued, strays>>

-----------------------------------------------------------------------------
\* A message arrives, which may be a slash command.
Arrive(m) ==
    /\ arrived < MaxMessages
    /\ m = arrived + 1
    /\ arrived' = m
    /\ slash' \in {slash, slash \cup {m}}

HostBusy == ~At("host", "none")

\* The terminal's onSubmit: what is typed while isLlmActive is queued.
Type(m) ==
    /\ "host" \in Caller
    /\ Arrive(m)
    /\ IF HostBusy
       THEN Enqueue(m) /\ UNCHANGED calls
       ELSE /\ calls' = [calls EXCEPT !["host"] =
                           IF m \in slash' THEN [NoCall EXCEPT !.pc = "command"]
                           ELSE [NoCall EXCEPT !.pc = "hook", !.prompt = m]]
            /\ UNCHANGED <<pending, queued, strays>>
    /\ UNCHANGED <<steering, cancelled, turnInFlight, chain, session, cancels>>

\* steerMessage, from /steer typed into a busy terminal
Steer(m) ==
    /\ {"host", "steer"} \subseteq Caller
    /\ HostBusy
    /\ Arrive(m)
    /\ m \notin slash'
    /\ IF turnInFlight
       THEN steering' = Append(steering, m) /\ UNCHANGED calls
       ELSE /\ At("steer", "none")
            /\ calls' = [calls EXCEPT !["steer"] = [NoCall EXCEPT !.pc = "hook", !.prompt = m]]
            /\ UNCHANGED steering
    /\ UNCHANGED <<pending, cancelled, turnInFlight, chain, session, cancels, queued, strays>>

\* cancelCurrentRequest; aim: what it was meant for, whatever is under way
Cancel ==
    /\ cancels < MaxCancels
    /\ cancels' = cancels + 1
    /\ cancelled' = TRUE
    /\ calls' = [c \in Caller |-> [calls[c] EXCEPT !.aimed = calls[c].pc # "none"]]

HostCancels ==
    /\ "host" \in Caller
    /\ HostBusy
    /\ Cancel
    /\ UNCHANGED <<pending, steering, turnInFlight, chain, session, slash, arrived, queued, strays>>

\* A message of the swarm: submitUserMessage, after cancelCurrentRequest when
\* it is "Stop & Send".
Submit(m) ==
    /\ "swarm" \in Caller
    /\ Arrive(m)
    /\ chain' = Append(chain, m)
    /\ Cancel \/ UNCHANGED <<cancelled, cancels, calls>>
    /\ UNCHANGED <<pending, steering, turnInFlight, session, queued, strays>>

\* The first submission of the chain: queued behind a turn, or run.
TakeUp ==
    LET m == Head(chain) IN
    /\ "swarm" \in Caller
    /\ chain # <<>>
    /\ At("swarm", "none")
    /\ \/ /\ turnInFlight
          /\ Enqueue(m)
          /\ chain' = Tail(chain)
          /\ UNCHANGED <<calls, turnInFlight>>
       \/ /\ m \in slash                  \* idle, or an immediate command
          /\ Goes("swarm", "command")
          /\ UNCHANGED <<pending, chain, turnInFlight, queued, strays>>
       \/ /\ ~turnInFlight
          /\ m \notin slash
          /\ DrainAppend("swarm", [NoCall EXCEPT !.prompt = m], pending)
          /\ UNCHANGED <<chain, queued, strays>>
    /\ UNCHANGED <<steering, cancelled, session, slash, arrived, cancels>>

\* Mutant of RunSubmission: a submission waits for what was queued before it.
RunSubmissionInOrder == pending = <<>> /\ TakeUp

RunSubmission == TakeUp

-----------------------------------------------------------------------------
\* A turn ends; TurnLoop shows that it does.
TurnOver(c) == Reply(c) \/ Fails(c)

CallStep(c) ==
    \/ Send(c)
    \/ AppendQueued(c)
    \/ Dispatched(c)
    \/ AppendPrompt(c)
    \/ LoopTop(c)
    \/ AppendSteering(c)
    \/ LoopAgain(c)
    \/ TurnOver(c)
    \/ Cancelled(c)
    \/ OwnRound(c)
    \/ OwnNext(c)
    \/ OwnCleared(c)
    \/ OwnFails(c)
    \/ Settled(c)

ConversationNext ==
    \/ \E c \in Caller : CallStep(c)
    \/ \E m \in Message : Type(m) \/ Steer(m) \/ Submit(m)
    \/ HostCancels
    \/ RunSubmission

ConversationSpec == ConversationInit /\ [][ConversationNext]_conversation_vars

\* Hooks, commands and requests settle, and turns end.
ConversationFairness ==
    /\ \A c \in Caller : /\ WF_conversation_vars(CallStep(c))
                         /\ SF_conversation_vars(TurnOver(c))
    /\ WF_conversation_vars(RunSubmission)

FairConversationSpec == ConversationSpec /\ ConversationFairness
-----------------------------------------------------------------------------
(* However turns overlap, end, fail and are cancelled, turnInFlight is never  *)
(* left up: a submission is queued only behind a turn that will end           *)
(* (conversation-service.ts:313-314, 1467).                                   *)
FlagComesDown == turnInFlight => \E c \in Caller : InLoop(c)

(* A steering message is meant for the round under way: none outlives it      *)
(* (conversation-service.ts:1468-1471).                                       *)
NoLateSteering == steering # <<>> => turnInFlight

(* A message queued behind a turn is taken when the turn completes; when      *)
(* nothing runs any more, the queue holds only what a cancelled or failed     *)
(* turn left in it, or what was put there while no turn was in flight         *)
(* (conversation-service.ts:1491-1503).                                       *)
NothingLeftBehind ==
    (\A c \in Caller : At(c, "none")) => ToSet(pending) \subseteq strays

(* "a rejected submission never blocks subsequent ones"                       *)
(* (conversation-service.ts:1596-1597): every submission is taken up, behind  *)
(* whatever turns, failures and cancellations.                                *)
SubmissionsTakenUp == \A m \in Message : m \in ToSet(chain) ~> m \notin ToSet(chain)

(* "Entries share a single ordered queue with `enqueueUserMessage` (arrival   *)
(* order preserved across kinds)" (conversation-service.ts:91-92).            *)
ArrivalOrder ==
    \A i, j \in 1..Len(session) :
        i < j /\ session[i] \in queued /\ session[j] \in queued => session[i] < session[j]

(* cancelCurrentRequest: "Request soft cancellation of the current in-flight  *)
(* `sendUserMessage`" (conversation-service.ts:105): a turn about to be       *)
(* cancelled was under way when that was requested.                           *)
CancelHitsCurrent == \A c \in Caller : At(c, "top") /\ cancelled => calls[c].aimed
=============================================================================
