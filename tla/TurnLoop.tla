------------------------------ MODULE TurnLoop ------------------------------
(***************************************************************************)
(* One conversation turn of an agent: the loop of sendUserMessage that     *)
(* asks the model, runs the tools it calls and asks again, and the         *)
(* guardrails that keep a degenerate model from looping.  The guardrails'  *)
(* counters belong to the conversation, not to the turn.                   *)
(*                                                                         *)
(* Turns may overlap: sendUserMessage does not look whether one is under   *)
(* way.  The module follows one of them, the observed turn, step by step;  *)
(* all others are its environment, of which OtherTurn gives what their     *)
(* steps do to the guards and to the session they share with it.           *)
(*                                                                         *)
(* Source: drone-agent/src/runtime/conversation-service.ts, with           *)
(* llm-retry.ts and tool-call-utils.ts.                                    *)
(*                                                                         *)
(* A tool call is its signature (name and arguments).  Of a response with  *)
(* tool calls only this matters: which call it makes when it makes a       *)
(* single one after duplicates are collapsed, or that it makes several     *)
(* (NoTool).  What users and models decide is open.                        *)
(***************************************************************************)
EXTENDS Integers, FiniteSets

CONSTANTS
    Tool, NoTool,
    HintAfter,          \* tier -> degenerate responses before the first hint
    MaxHints,           \* tier -> hints before the limit
    CallHintAfter,      \* the same for identical tool calls
    CallMaxHints,
    StuckThreshold,
    MaxIterations,
    MaxRetries,         \* silent retries of one request
    Hosts,              \* the sets of callbacks hosts wire
    MaxTurns,           \* bound: observed turns, one after another
    MaxInterventions    \* bound: what users, plugins and other turns do meanwhile

Tier == {"empty", "reasoning", "malformed"}
Question == {"retry", "degenerate", "iterations", "identical", "stuck"}

ASSUME TurnAssumption ==
    /\ NoTool \notin Tool
    /\ HintAfter \in [Tier -> Nat] /\ MaxHints \in [Tier -> Nat]
    /\ CallHintAfter \in Nat /\ CallMaxHints \in Nat
    /\ StuckThreshold \in Nat /\ MaxIterations \in Nat /\ MaxRetries \in Nat
    /\ Hosts \subseteq SUBSET Question
    /\ MaxTurns \in Nat /\ MaxInterventions \in Nat

VARIABLES
    wired,          \* the callbacks this host wires
    guards,         \* the counters and flags of the guardrails
    turn,           \* the observed turn; "idle" says that there is none
    open,           \* whose tool calls the session holds without results
    requests,       \* the turn's requests since something else cleared counters
    last,           \* the conversation's last response since a user spoke
    declined,       \* the user said stop in this turn
    turns, interventions

turn_vars == <<wired, guards, turn, open, requests, last, declined, turns, interventions>>

Guards == [count : [Tier -> Nat], stuck : Nat, streak : Nat, call : Tool \cup {NoTool},
           hint : BOOLEAN, nudge : BOOLEAN]

\* tier: the kind of degenerate response the user is asked about; same: the
\* tools have all failed in the same way
Turn == [phase : {"idle", "top", "calling", "asking", "tools", "hooks"},
         question : Question \cup {"none"}, tier : Tier, iteration : 0..MaxIterations + 1,
         failures : 0..MaxRetries, same : BOOLEAN, stop : BOOLEAN]

\* The observed turn, others under way, or a turn that failed before it
\* appended the results
Owner == {"turn", "other", "lost"}

TurnTypeOK ==
    /\ wired \in Hosts
    /\ guards \in Guards
    /\ turn \in Turn
    /\ open \subseteq Owner
    /\ requests \in Nat
    /\ last \in {"none", "kept"} \cup Tier
    /\ declined \in BOOLEAN
    /\ turns \in 0..MaxTurns
    /\ interventions \in 0..MaxInterventions

\* resetStuckDetectors
NoGuards == [count |-> [t \in Tier |-> 0], stuck |-> 0, streak |-> 0, call |-> NoTool,
             hint |-> FALSE, nudge |-> FALSE]

NewTurn == [phase |-> "top", question |-> "none", tier |-> "empty",
            iteration |-> 0, failures |-> 0, same |-> FALSE, stop |-> FALSE]

TurnInit ==
    /\ wired \in Hosts
    /\ guards = NoGuards
    /\ turn = [NewTurn EXCEPT !.phase = "idle"]
    /\ open = {}
    /\ requests = 0
    /\ last = "none"
    /\ declined = FALSE
    /\ turns = 0
    /\ interventions = 0

\* What a user message or a steering message resets: malformed calls and
\* failing tools stay counted.
UserSpoke(g) ==
    [g EXCEPT !.count = [t \in Tier |-> IF t = "malformed" THEN g.count[t] ELSE 0],
              !.streak = 0, !.call = NoTool, !.hint = FALSE, !.nudge = FALSE]

Meanwhile ==
    /\ interventions < MaxInterventions
    /\ interventions' = interventions + 1

Intervene == Meanwhile /\ requests' = 0

\* Of the turn's own counters and flags two outlive a request: iterationCount
\* and shouldStopLoop.
At(phase, iteration) ==
    [NewTurn EXCEPT !.phase = phase, !.iteration = iteration, !.stop = turn.stop]
Asking(q, t, iteration) == [At("asking", iteration) EXCEPT !.question = q, !.tier = t]

End == turn' = [NewTurn EXCEPT !.phase = "idle"]
Again == turn' = At("top", turn.iteration)
Ask(q, t) == turn' = Asking(q, t, turn.iteration)

-----------------------------------------------------------------------------
\* sendUserMessage, up to its loop.  That no other turn is observed is the
\* model's choice, not a guard of the code.
StartTurn ==
    /\ turn.phase = "idle"
    /\ turns < MaxTurns
    /\ turns' = turns + 1
    /\ turn' = NewTurn
    /\ guards' = UserSpoke(guards)
    /\ requests' = 0
    /\ last' = "none"
    /\ declined' = FALSE
    /\ UNCHANGED <<wired, open, interventions>>

\* The soft cancel check, a session that cannot be trimmed under the model's
\* budget, or whatever else throws before the request.
StopAtTop ==
    /\ turn.phase = "top"
    /\ End
    /\ UNCHANGED <<wired, guards, open, requests, last, declined, turns, interventions>>

\* steeringMessages are absorbed.
Steer ==
    /\ turn.phase = "top"
    /\ Intervene
    /\ guards' = UserSpoke(guards)
    /\ last' = "none"
    /\ UNCHANGED <<wired, turn, open, declined, turns>>

\* resetStuckDetectors, called by a plugin while the turn waits
ResetDetectors ==
    /\ turn.phase # "idle"
    /\ Intervene
    /\ guards' = NoGuards
    /\ UNCHANGED <<wired, turn, open, last, declined, turns>>

Request ==
    /\ turn.phase = "top"
    /\ turn' = At("calling", turn.iteration)
    /\ requests' = requests + 1
    /\ UNCHANGED <<wired, guards, open, last, declined, turns, interventions>>

-----------------------------------------------------------------------------
\* Mutant of RetrySilently: one attempt too many.
RetryOnceMore ==
    /\ turn.phase = "calling"
    /\ turn.failures <= MaxRetries
    /\ turn' = [turn EXCEPT !.failures = @ + 1]
    /\ UNCHANGED <<wired, guards, open, requests, last, declined, turns, interventions>>

\* T1: withBoundedSilentRetry, on a transient error
RetrySilently ==
    /\ turn.phase = "calling"
    /\ turn.failures < MaxRetries
    /\ turn' = [turn EXCEPT !.failures = @ + 1]
    /\ UNCHANGED <<wired, guards, open, requests, last, declined, turns, interventions>>

\* T2 and T3: the user is asked, or the error is thrown.
RequestFails ==
    /\ turn.phase = "calling"
    /\ ("retry" \in wired /\ Ask("retry", turn.tier)) \/ End
    /\ UNCHANGED <<wired, guards, open, requests, last, declined, turns, interventions>>

Retried(t, n) == n < HintAfter[t] + MaxHints[t] \/ n <= HintAfter[t]

\* The n-th degenerate response of tier t is counted; a hint goes with a later
\* retry.
Marked(g, t, n) ==
    [g EXCEPT !.count[t] = n, !.hint = @ \/ (Retried(t, n) /\ n > HintAfter[t])]

\* It is retried, retried with a hint, then the user is asked or the turn
\* returns ''.
NthDegenerate(t, n) ==
    /\ turn.phase = "calling"
    /\ last' = t
    /\ guards' = Marked(guards, t, n)
    /\ IF Retried(t, n) THEN Again
       ELSE IF "degenerate" \in wired THEN Ask("degenerate", t) ELSE End
    /\ UNCHANGED <<wired, open, requests, declined, turns, interventions>>

\* Mutant of Degenerate: a response that comes after a hint is not counted.
DegenerateUncounted(t) ==
    NthDegenerate(t, IF guards.hint THEN guards.count[t] ELSE guards.count[t] + 1)

\* Neither text nor tool calls, or calls whose arguments cannot be parsed.
Degenerate(t) == NthDegenerate(t, guards.count[t] + 1)

\* Mutant of Kept: the hint outlives the response it asked for.
KeptHint(g) == [g EXCEPT !.count = [t \in Tier |-> 0]]

\* A response that is neither broken nor malformed
Kept(g) == [g EXCEPT !.count = [t \in Tier |-> 0], !.hint = FALSE]

\* The final reply ends the turn.
Reply ==
    /\ turn.phase = "calling"
    /\ guards' = Kept(guards)
    /\ last' = "kept"
    /\ End
    /\ UNCHANGED <<wired, open, requests, declined, turns, interventions>>

\* identicalToolCallStreak and the nudge after a response that calls c
Streak(g, c) ==
    LET n == IF c = NoTool THEN 0 ELSE IF c = g.call THEN g.streak + 1 ELSE 1 IN
    [g EXCEPT !.streak = n, !.call = c,
              !.nudge = n > CallHintAfter /\ n <= CallHintAfter + CallMaxHints]

\* A response with tool calls: the depth limit, then the limit of identical
\* calls, then the tools run.
Called(c) ==
    LET g == Streak(Kept(guards), c)
        n == turn.iteration + 1
        over == IF n > MaxIterations THEN "iterations"
                ELSE IF g.streak > CallHintAfter + CallMaxHints THEN "identical" ELSE "none"
    IN
    /\ turn.phase = "calling"
    /\ guards' = g
    /\ last' = "kept"
    /\ IF over = "none" THEN turn' = At("tools", n)
       ELSE IF over \in wired THEN turn' = Asking(over, turn.tier, n) ELSE End
    /\ UNCHANGED <<wired, requests, declined, turns, interventions>>

\* Mutant of ToolCalls: the assistant's turn is appended before the limits.
ToolCallsAppendedFirst(c) == Called(c) /\ open' = open \cup {"turn"}

\* The assistant's turn is appended when no limit was hit.
ToolCalls(c) ==
    /\ Called(c)
    /\ open' = IF turn'.phase = "tools" THEN open \cup {"turn"} ELSE open

\* resolveContextWindow throws when the tools have run: their results are not
\* appended.
ResultsLost ==
    /\ turn.phase = "tools"
    /\ open' = (open \ {"turn"}) \cup {"lost"}
    /\ End
    /\ UNCHANGED <<wired, guards, requests, last, declined, turns, interventions>>

\* executeToolCalls appends the tools' results: `same` when all failed in the
\* same way, `stop` when one of them asked to end the loop.
Returned(same, stop) ==
    /\ turn.phase = "tools"
    /\ open' = open \ {"turn"}
    /\ guards' = [guards EXCEPT !.stuck = IF same THEN @ + 1 ELSE 0]
    /\ turn' = [At("hooks", turn.iteration) EXCEPT !.same = same, !.stop = @ \/ stop]
    /\ UNCHANGED <<wired, requests, last, declined, turns, interventions>>

\* After the hooks and the images, the detector of repeated errors reads a
\* counter that other turns may have changed meanwhile.
Judged(canAsk) ==
    /\ turn.phase = "hooks"
    /\ \/ IF turn.same /\ guards.stuck >= StuckThreshold
          THEN IF canAsk THEN Ask("stuck", turn.tier) ELSE End
          ELSE IF turn.stop THEN End ELSE Again
       \/ End  \* no provider is active any more
    /\ UNCHANGED <<wired, guards, open, requests, last, declined, turns, interventions>>

\* Mutant of Judge: the callback is taken for granted.
JudgeAsks == Judged(TRUE)

Judge == Judged("stuck" \in wired)

-----------------------------------------------------------------------------
\* What an answer of the user clears
Excused(g, t) == [g EXCEPT !.count[t] = 0, !.hint = FALSE]
FreshRun(g) == [g EXCEPT !.streak = 0, !.call = NoTool, !.nudge = FALSE]

\* Identical calls are made after all, whatever the user says.
CallsGoOn ==
    /\ turn' = At("tools", turn.iteration)
    /\ open' = open \cup {"turn"}

\* The user says yes: the guard that asked starts over.
Continue ==
    /\ turn.phase = "asking"
    /\ turn.question \in wired
    /\ Intervene
    /\ \/ /\ turn.question = "retry"
          /\ turn' = At("calling", turn.iteration)
          /\ UNCHANGED <<guards, open>>
       \/ /\ turn.question = "degenerate"
          /\ guards' = Excused(guards, turn.tier)
          /\ Again
          /\ UNCHANGED open
       \/ /\ turn.question = "iterations"
          /\ guards' = FreshRun(guards)
          /\ turn' = At("top", 0)
          /\ UNCHANGED open
       \/ /\ turn.question = "identical"
          /\ guards' = [guards EXCEPT !.streak = 0]
          /\ CallsGoOn
       \/ /\ turn.question = "stuck"
          /\ guards' = [guards EXCEPT !.stuck = 0]
          /\ Again
          /\ UNCHANGED open
    /\ UNCHANGED <<wired, last, declined, turns>>

\* The user says no: the turn ends, except that identical calls go on.
Decline ==
    /\ turn.phase = "asking"
    /\ turn.question \in wired
    /\ declined' = TRUE
    /\ IF turn.question = "identical" THEN CallsGoOn ELSE End /\ UNCHANGED open
    /\ UNCHANGED <<wired, guards, requests, last, turns, interventions>>

-----------------------------------------------------------------------------
\* Another turn begins or absorbs steering.
OthersSpoke ==
    /\ guards' = UserSpoke(guards)
    /\ last' = "none"
    /\ requests' = 0
    /\ UNCHANGED open

OthersDegenerate(t) ==
    /\ guards' = Marked(guards, t, guards.count[t] + 1)
    /\ last' = t
    /\ UNCHANGED <<open, requests>>

\* A reply, or tool calls that are appended unless a limit is hit
OthersKept ==
    /\ \/ guards' = Kept(guards) /\ UNCHANGED open
       \/ /\ \E c \in Tool \cup {NoTool} : guards' = Streak(Kept(guards), c)
          /\ open' \in {open, open \cup {"other"}}
    /\ last' = "kept"
    /\ requests' = 0

\* The results of another turn's calls are appended or lost; with several
\* other turns, calls of others remain.
OthersResults ==
    /\ "other" \in open
    /\ \/ /\ guards' \in {[guards EXCEPT !.stuck = n] : n \in {0, guards.stuck + 1}}
          /\ open' \in {open, open \ {"other"}}
       \/ /\ UNCHANGED guards
          /\ open' \in {s \cup {"lost"} : s \in {open, open \ {"other"}}}
    /\ UNCHANGED <<last, requests>>

\* A user answers another turn's question.
OthersAnswered ==
    /\ \/ /\ \/ \E t \in Tier : guards' = Excused(guards, t)
             \/ guards' = FreshRun(guards)
             \/ guards' = [guards EXCEPT !.stuck = 0]
          /\ UNCHANGED open
       \/ /\ guards' \in {guards, [guards EXCEPT !.streak = 0]}
          /\ open' = open \cup {"other"}
    /\ requests' = 0
    /\ UNCHANGED last

\* What other turns of the conversation do to what they share with this one
OtherTurn ==
    /\ Meanwhile
    /\ \/ OthersSpoke
       \/ \E t \in Tier : OthersDegenerate(t)
       \/ OthersKept
       \/ OthersResults
       \/ OthersAnswered
    /\ UNCHANGED <<wired, turn, declined, turns>>

-----------------------------------------------------------------------------
Response ==
    \/ \E t \in Tier : Degenerate(t)
    \/ Reply
    \/ \E c \in Tool \cup {NoTool} : ToolCalls(c)

\* What the turn does by itself, once models and tools have answered
TurnStep ==
    \/ Request
    \/ RetrySilently
    \/ RequestFails
    \/ Response
    \/ ResultsLost
    \/ \E same, stop \in BOOLEAN : Returned(same, stop)
    \/ Judge

TurnNext ==
    \/ StartTurn
    \/ StopAtTop
    \/ Steer
    \/ ResetDetectors
    \/ TurnStep
    \/ Continue
    \/ Decline
    \/ OtherTurn

TurnSpec == TurnInit /\ [][TurnNext]_turn_vars

\* provider.chat and executeTool settle; nobody has to answer a question.
FairTurnSpec == TurnSpec /\ WF_turn_vars(TurnStep)

-----------------------------------------------------------------------------
\* A tier's limit: the response at which the loop stops retrying
Limit(t) == IF MaxHints[t] = 0 THEN HintAfter[t] + 1 ELSE HintAfter[t] + MaxHints[t]

(* However a model alternates between degenerate responses, failing requests  *)
(* and tool calls, a turn makes a bounded number of requests while neither a   *)
(* user nor a kept response of another turn clears the counters they share:    *)
(* the tiers have separate counters, and every kept response resets them all   *)
(* (conversation-service.ts:291-293, 1286-1290).                              *)
RequestBudget ==
    requests <= (MaxIterations + 1)
                  * (Limit("empty") + Limit("reasoning") + Limit("malformed") - 2)

(* A turn has calls without results in the session only while its tools run:   *)
(* no limit, question, refusal, stop or failed request leaves one behind, with *)
(* other turns at work on the same counters ("so a limit hit doesn't leave a   *)
(* dangling turn", conversation-service.ts:1298-1299).  A throw between the    *)
(* tools and the append of their results does (856): these calls are "lost".   *)
LimitsLeaveNoCalls == "turn" \in open => turn.phase = "tools"

(* While models are told that "your last response was empty", the last         *)
(* response in the conversation was degenerate, and one of the tiers is past   *)
(* its silent retries: across overlapping turns, which share the hint, and     *)
(* across steering, resets and answers of users.                              *)
HintsJustified ==
    guards.hint => last \in Tier /\ \E t \in Tier : guards.count[t] > HintAfter[t]

(* A turn ends, or waits for a user who can be asked: no sequence of answers   *)
(* of the model keeps it running, and no guard waits for a callback the host   *)
(* did not wire.  Users and other turns clear its counters finitely often.    *)
TurnEnds ==
    turn.phase # "idle" ~> \/ turn.phase = "idle"
                           \/ turn.phase = "asking" /\ turn.question \in wired

(* No request is made while the session holds a call without its result, which *)
(* providers refuse.  Nothing in the code promises it, and it does not keep    *)
(* it: an overlapping turn requests while the tools of another run, and a      *)
(* throw at conversation-service.ts:856 leaves calls for good.                *)
NoDanglingCalls == turn.phase = "calling" => open = {}

(* conversation-service.ts:181-185, of the limit of identical tool calls:     *)
(* "Return `true` to reset the streak and continue, or `false` to abort."     *)
StopMeansStop == turn.phase = "calling" => ~declined
=============================================================================
