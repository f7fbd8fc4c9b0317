--------------------------- MODULE TurnLoopProofs ---------------------------
(***************************************************************************)
(* Proofs about TurnLoop: its types, that no limit, question, refusal or   *)
(* stop leaves a call of the turn without its results, that hints are      *)
(* justified, that a turn whose counters nobody else clears makes a        *)
(* bounded number of requests, and that a turn steps towards its end or a  *)
(* question that can be answered, all of it with other turns at work.      *)
(***************************************************************************)
EXTENDS TurnLoop, TLAPS

\* The limit of iterations is passed only by the response that ends the turn or
\* asks the user about it.
IterationsKept ==
    /\ turn.phase # "asking" => turn.question = "none"
    /\ turn.phase # "idle" /\ turn.question # "iterations" => turn.iteration <= MaxIterations

\* Requests that may be made between two kept responses
Round == Limit("empty") + Limit("reasoning") + Limit("malformed") - 2

\* Of these, the ones the counters account for.  The count of malformed calls
\* outlives a turn, and may be past its limit when the next one begins.
Spent(g, t) == IF g.count[t] < Limit(t) THEN g.count[t] ELSE Limit(t) - 1
SpentAll(g) == Spent(g, "empty") + Spent(g, "reasoning") + Spent(g, "malformed")

RequestsCounted ==
    /\ turn.phase \in {"top", "tools", "hooks"}
       \/ (turn.phase = "asking" /\ turn.question = "identical")
          => requests <= turn.iteration * Round + SpentAll(guards)
    /\ turn.phase = "calling"
          => requests <= turn.iteration * Round + SpentAll(guards) + 1

TurnSafe ==
    /\ TurnTypeOK
    /\ IterationsKept
    /\ LimitsLeaveNoCalls
    /\ HintsJustified
    /\ RequestsCounted

-----------------------------------------------------------------------------
\* A limit leaves room for a response.
LEMMA LimitsPositive ==
    /\ \A t \in Tier : Limit(t) \in Nat \ {0}
    /\ Round \in Nat \ {0}
  <1>1. \A t \in Tier : Limit(t) \in Nat \ {0}
    BY TurnAssumption DEF Limit
  <1>2. {"empty", "reasoning", "malformed"} \subseteq Tier
    BY DEF Tier
  <1> QED
    BY <1>1, <1>2 DEF Round

\* What is accounted for is less than a round.
LEMMA SpentBounded ==
    ASSUME NEW g \in Guards
    PROVE  SpentAll(g) \in 0..Round - 1
  <1>1. \A t \in Tier : Spent(g, t) \in 0..Limit(t) - 1
    BY LimitsPositive DEF Spent, Guards
  <1>2. {"empty", "reasoning", "malformed"} \subseteq Tier
    BY DEF Tier
  <1> QED
    BY <1>1, <1>2, LimitsPositive DEF SpentAll, Round

\* A response that is retried is accounted for.
LEMMA SpentRises ==
    ASSUME NEW g \in Guards, NEW h \in Guards, NEW t \in Tier,
           h.count = [g.count EXCEPT ![t] = @ + 1],
           h.count[t] < Limit(t)
    PROVE  SpentAll(h) = SpentAll(g) + 1
  <1>1. /\ Spent(h, t) = Spent(g, t) + 1
        /\ \A u \in Tier \ {t} : Spent(h, u) = Spent(g, u)
        /\ \A u \in Tier : Spent(g, u) \in Nat
    BY LimitsPositive DEF Spent, Guards
  <1>2. Tier = {"empty", "reasoning", "malformed"}
    BY DEF Tier
  <1> QED
    BY <1>1, <1>2 DEF SpentAll

\* A degenerate response frees nothing.
LEMMA SpentGrows ==
    ASSUME NEW g \in Guards, NEW h \in Guards, NEW t \in Tier,
           h.count = [g.count EXCEPT ![t] = @ + 1]
    PROVE  SpentAll(h) >= SpentAll(g)
  <1>1. /\ \A u \in Tier : Spent(h, u) >= Spent(g, u)
        /\ \A u \in Tier : Spent(g, u) \in Nat /\ Spent(h, u) \in Nat
    BY LimitsPositive DEF Spent, Guards
  <1>2. Tier = {"empty", "reasoning", "malformed"}
    BY DEF Tier
  <1> QED
    BY <1>1, <1>2 DEF SpentAll

\* Multiplication, for the provers
LEMMA Rounds ==
    ASSUME NEW i \in Nat, NEW j \in Nat, NEW k \in Nat, i <= j
    PROVE  /\ i * k \in Nat
           /\ (i + 1) * k = i * k + k
           /\ i * k <= j * k
  OBVIOUS

-----------------------------------------------------------------------------
\* The constants, one by one
LEMMA Numbers ==
    /\ MaxIterations \in Nat /\ MaxRetries \in Nat
    /\ CallHintAfter \in Nat /\ CallMaxHints \in Nat
    /\ MaxTurns \in Nat /\ MaxInterventions \in Nat
  BY TurnAssumption

\* Where a turn may be
Phase == {"idle", "top", "calling", "asking", "tools", "hooks"}

LEMMA NewTurnTyped ==
    /\ NewTurn \in Turn
    /\ NewTurn.phase = "top" /\ NewTurn.question = "none" /\ NewTurn.iteration = 0
  BY Numbers DEF NewTurn, Turn, Tier

LEMMA Idle ==
    ASSUME NEW t, t = [NewTurn EXCEPT !.phase = "idle"]
    PROVE  t \in Turn /\ t.phase = "idle" /\ t.question = "none" /\ t.iteration = 0
  BY NewTurnTyped DEF Turn

\* A turn that has moved on
LEMMA Moved ==
    ASSUME turn \in Turn, NEW p \in Phase, NEW i \in 0..MaxIterations + 1
    PROVE  LET t == At(p, i) IN
           /\ t \in Turn /\ t.phase = p /\ t.question = "none"
           /\ t.iteration = i /\ t.failures = 0
  <1>1. At(p, i) = [NewTurn EXCEPT !.phase = p, !.iteration = i, !.stop = turn.stop]
    BY DEF At
  <1>2. turn.stop \in BOOLEAN /\ NewTurn.failures = 0
    BY DEF Turn, NewTurn
  <1> QED
    BY <1>1, <1>2, NewTurnTyped DEF Turn, Phase

LEMMA Asked ==
    ASSUME turn \in Turn, NEW q \in Question, NEW k \in Tier, NEW i \in 0..MaxIterations + 1
    PROVE  LET t == Asking(q, k, i) IN
           t \in Turn /\ t.phase = "asking" /\ t.question = q /\ t.iteration = i
  <1>1. Asking(q, k, i) = [At("asking", i) EXCEPT !.question = q, !.tier = k]
    BY DEF Asking
  <1>2. LET t == At("asking", i) IN t \in Turn /\ t.phase = "asking" /\ t.iteration = i
    BY Moved DEF Phase
  <1> QED
    BY <1>1, <1>2 DEF Turn

\* What the guardrails' counters become when they are reset or judged
LEMMA GuardsTyped ==
    /\ NoGuards \in Guards /\ ~NoGuards.hint
    /\ \A g \in Guards :
          /\ UserSpoke(g) \in Guards /\ ~UserSpoke(g).hint
          /\ Kept(g) \in Guards /\ ~Kept(g).hint
          /\ \A t \in Tier : Excused(g, t) \in Guards /\ ~Excused(g, t).hint
          /\ \A n \in Nat : [g EXCEPT !.stuck = n] \in Guards
          /\ [g EXCEPT !.streak = 0] \in Guards
          /\ FreshRun(g) \in Guards
  <1>1. [t \in Tier |-> 0] \in [Tier -> Nat]
    OBVIOUS
  <1>2. NoGuards \in Guards /\ ~NoGuards.hint
    BY <1>1 DEF Guards, NoGuards
  <1>3. ASSUME NEW g \in Guards
        PROVE  /\ UserSpoke(g) \in Guards /\ ~UserSpoke(g).hint
               /\ Kept(g) \in Guards /\ ~Kept(g).hint
    <2>1. [t \in Tier |-> IF t = "malformed" THEN g.count[t] ELSE 0] \in [Tier -> Nat]
      BY DEF Guards
    <2> QED
      BY <1>1, <2>1 DEF Guards, UserSpoke, Kept
  <1>4. ASSUME NEW g \in Guards
        PROVE  /\ \A t \in Tier : Excused(g, t) \in Guards /\ ~Excused(g, t).hint
               /\ \A n \in Nat : [g EXCEPT !.stuck = n] \in Guards
               /\ [g EXCEPT !.streak = 0] \in Guards
               /\ FreshRun(g) \in Guards
    BY DEF Guards, Excused, FreshRun
  <1> QED
    BY <1>2, <1>3, <1>4

\* What leaves the counters of degenerate responses and the hint alone
LEMMA SameHints ==
    ASSUME NEW g \in Guards
    PROVE  /\ \A n \in Nat : LET h == [g EXCEPT !.stuck = n] IN
                                h.count = g.count /\ h.hint = g.hint
           /\ LET h == [g EXCEPT !.streak = 0] IN h.count = g.count /\ h.hint = g.hint
           /\ FreshRun(g).count = g.count /\ FreshRun(g).hint = g.hint
  BY DEF Guards, FreshRun

\* A response with tool calls changes the streak and the nudge only.
LEMMA Streaks ==
    ASSUME NEW k \in Guards, NEW c \in Tool \cup {NoTool}
    PROVE  LET g == Streak(k, c) IN g \in Guards /\ g.hint = k.hint /\ g.count = k.count
  <1> DEFINE m == IF c = NoTool THEN 0 ELSE IF c = k.call THEN k.streak + 1 ELSE 1
             b == m > CallHintAfter /\ m <= CallHintAfter + CallMaxHints
             g == Streak(k, c)
  <1>1. g = [k EXCEPT !.streak = m, !.call = c, !.nudge = b]
    BY DEF Streak
  <1>2. m \in Nat /\ b \in BOOLEAN
    BY DEF Guards
  <1> HIDE DEF m, b, g
  <1>3. g \in Guards /\ g.hint = k.hint /\ g.count = k.count
    BY <1>1, <1>2 DEF Guards
  <1> QED
    BY <1>3 DEF g

\* A degenerate response is counted, and a hint is deserved after it if it was
\* before, or when it sets one.
LEMMA Marks ==
    ASSUME NEW g \in Guards, NEW t \in Tier, NEW n, n = g.count[t] + 1,
           g.hint => \E u \in Tier : g.count[u] > HintAfter[u]
    PROVE  LET h == Marked(g, t, n) IN
           /\ n \in Nat /\ h \in Guards
           /\ h.count = [g.count EXCEPT ![t] = @ + 1] /\ h.count[t] = n
           /\ h.hint => \E u \in Tier : h.count[u] > HintAfter[u]
  <1> DEFINE b == g.hint \/ (Retried(t, n) /\ n > HintAfter[t])
             h == Marked(g, t, n)
  <1>1. g.count \in [Tier -> Nat] /\ n \in Nat /\ HintAfter \in [Tier -> Nat]
    BY TurnAssumption DEF Guards
  <1>2. b \in BOOLEAN
    BY Zenon DEF Guards
  <1>3. h = [g EXCEPT !.count[t] = n, !.hint = b]
    BY DEF Marked
  <1>4. b => g.hint \/ n > HintAfter[t]
    OBVIOUS
  <1> HIDE DEF b, h
  <1>5. /\ h \in Guards /\ h.hint = b
        /\ h.count = [g.count EXCEPT ![t] = @ + 1] /\ h.count[t] = n
    BY <1>1, <1>2, <1>3 DEF Guards
  <1>6. ASSUME h.hint
        PROVE  \E u \in Tier : h.count[u] > HintAfter[u]
    <2>1. CASE n > HintAfter[t]
      BY <1>5, <2>1
    <2>2. CASE g.hint
      <3>1. PICK u \in Tier : g.count[u] > HintAfter[u]
        BY <2>2
      <3>2. h.count[u] >= g.count[u]
        BY <1>1, <1>5
      <3>3. h.count[u] > HintAfter[u]
        BY <1>1, <1>5, <3>1, <3>2
      <3> QED BY <3>3
    <2> QED BY <1>4, <1>5, <1>6, <2>1, <2>2
  <1> QED
    BY <1>1, <1>5, <1>6 DEF h

\* What is accounted for is a number.
LEMMA Accounts ==
    ASSUME NEW t \in Turn, NEW g \in Guards
    PROVE  /\ t.iteration * Round \in Nat /\ SpentAll(g) \in Nat /\ t.iteration \in Nat
           /\ t.iteration \in 0..MaxIterations + 1
  <1>1. t.iteration \in Nat /\ t.iteration \in 0..MaxIterations + 1
    BY Numbers DEF Turn
  <1> QED
    BY <1>1, LimitsPositive, SpentBounded, Rounds

\* The counters of degenerate responses are all that the account looks at.
LEMMA SpentSame ==
    ASSUME NEW g, NEW h, h.count = g.count
    PROVE  SpentAll(h) = SpentAll(g)
  BY DEF SpentAll, Spent

LEMMA TurnInitSafe == TurnInit => TurnSafe
  <1> SUFFICES ASSUME TurnInit
               PROVE  TurnSafe
    OBVIOUS
  <1>1. turn \in Turn /\ turn.phase = "idle" /\ turn.question = "none"
    BY Idle DEF TurnInit
  <1>2. guards \in Guards /\ ~guards.hint
    BY GuardsTyped DEF TurnInit
  <1>3. open = {} /\ declined \in BOOLEAN
    BY Zenon DEF TurnInit
  <1>4. TurnTypeOK
    BY <1>1, <1>2, <1>3, Numbers DEF TurnInit, TurnTypeOK
  <1>5. IterationsKept /\ LimitsLeaveNoCalls /\ HintsJustified
    BY <1>1, <1>2, <1>3 DEF IterationsKept, LimitsLeaveNoCalls, HintsJustified
  <1> QED
    BY <1>1, <1>4, <1>5 DEF TurnSafe, RequestsCounted

\* What begins a turn, or happens between its rounds
LEMMA BetweenRounds ==
    ASSUME TurnSafe, StartTurn \/ StopAtTop \/ Steer \/ ResetDetectors \/ Request
    PROVE  TurnSafe'
  <1> USE DEF TurnSafe
  <1>1. turn \in Turn /\ guards \in Guards /\ open \in SUBSET Owner /\ turn.iteration \in 0..MaxIterations + 1
    BY Accounts DEF TurnTypeOK
  <1>2. CASE StartTurn
    <2>1. /\ turns < MaxTurns /\ turns' = turns + 1 /\ requests' = 0
          /\ last' = "none" /\ declined' \in BOOLEAN
          /\ UNCHANGED <<wired, open, interventions>> /\ turn.phase = "idle"
          /\ turn' = NewTurn /\ guards' = UserSpoke(guards)
      BY <1>2, Zenon DEF StartTurn
    <2>2. guards' \in Guards /\ ~guards'.hint
      BY <1>1, <2>1, GuardsTyped
    <2>3. turn' \in Turn /\ turn'.phase = "top" /\ turn'.question = "none" /\ turn'.iteration = 0
      BY <2>1, NewTurnTyped
    <2>4. TurnTypeOK'
      BY <2>1, <2>2, <2>3, Numbers DEF TurnTypeOK
    <2>5. IterationsKept' /\ LimitsLeaveNoCalls' /\ HintsJustified'
      BY <2>1, <2>2, <2>3, Numbers DEF IterationsKept, LimitsLeaveNoCalls, HintsJustified
    <2>6. RequestsCounted'
      BY <2>1, <2>2, <2>3, Accounts DEF RequestsCounted
    <2> QED
      BY <2>4, <2>5, <2>6
  <1>3. CASE StopAtTop
    <2>1. /\ turn.phase = "top" /\ turn' = [NewTurn EXCEPT !.phase = "idle"]
          /\ UNCHANGED <<wired, guards, open, requests, last, declined, turns, interventions>>
      BY <1>3, Zenon DEF StopAtTop, End
    <2>2. turn' \in Turn /\ turn'.phase = "idle" /\ turn'.question = "none"
      BY <2>1, Idle
    <2>3. UNCHANGED <<wired, guards, open, requests, last, declined, turns, interventions>>
      BY <2>1, Zenon
    <2>4. "turn" \notin open
      BY <2>1 DEF LimitsLeaveNoCalls
    <2>5. TurnTypeOK' /\ IterationsKept' /\ LimitsLeaveNoCalls' /\ HintsJustified'
      BY <2>2, <2>3, <2>4 DEF TurnTypeOK, IterationsKept, LimitsLeaveNoCalls, HintsJustified
    <2>6. RequestsCounted'
      BY <2>2 DEF RequestsCounted
    <2> QED
      BY <2>5, <2>6
  <1>4. CASE Steer \/ ResetDetectors
    <2>1. /\ interventions < MaxInterventions /\ interventions' = interventions + 1
          /\ requests' = 0 /\ last' \in {last, "none"}
          /\ guards' \in {UserSpoke(guards), NoGuards}
          /\ UNCHANGED <<wired, turn, open, declined, turns>>
      BY <1>4, Zenon DEF Steer, ResetDetectors, Intervene, Meanwhile
    <2>2. guards' \in Guards /\ ~guards'.hint
      BY <1>1, <2>1, GuardsTyped
    <2>3. /\ TurnTypeOK' /\ IterationsKept' /\ LimitsLeaveNoCalls' /\ HintsJustified'
      BY <2>1, <2>2, Numbers DEF TurnTypeOK, IterationsKept, LimitsLeaveNoCalls, HintsJustified
    <2>4. RequestsCounted'
      BY <2>1, <2>2, <2>3, Accounts DEF TurnTypeOK, RequestsCounted
    <2> QED
      BY <2>3, <2>4
  <1>5. CASE Request
    <2>1. /\ turn.phase = "top" /\ turn' = At("calling", turn.iteration)
          /\ requests' = requests + 1
          /\ UNCHANGED <<wired, guards, open, last, declined, turns, interventions>>
      BY <1>5, Zenon DEF Request
    <2>2. /\ turn' \in Turn /\ turn'.phase = "calling"
          /\ turn'.question = "none" /\ turn'.iteration = turn.iteration
      BY <1>1, <2>1, Moved DEF Phase
    <2>3. /\ requests' = requests + 1
          /\ UNCHANGED <<wired, guards, open, last, declined, turns, interventions>>
      BY <2>1, Zenon
    <2>4. "turn" \notin open /\ turn.question = "none" /\ turn.iteration <= MaxIterations
      BY <2>1 DEF LimitsLeaveNoCalls, IterationsKept
    <2>5. TurnTypeOK' /\ IterationsKept' /\ LimitsLeaveNoCalls' /\ HintsJustified'
      BY <2>2, <2>3, <2>4 DEF TurnTypeOK, IterationsKept, LimitsLeaveNoCalls, HintsJustified
    <2>6. requests <= turn.iteration * Round + SpentAll(guards)
      BY <2>1 DEF RequestsCounted
    <2>7. turn.iteration * Round \in Nat /\ SpentAll(guards) \in Nat /\ requests \in Nat
      BY <1>1, Accounts DEF TurnTypeOK
    <2>8. SpentAll(guards)' = SpentAll(guards)
      BY <2>3 DEF SpentAll, Spent
    <2>9. RequestsCounted'
      BY <2>2, <2>3, <2>6, <2>7, <2>8 DEF RequestsCounted
    <2> QED
      BY <2>5, <2>9
  <1> QED
    BY <1>2, <1>3, <1>4, <1>5

\* A request that fails
LEMMA Failures ==
    ASSUME TurnSafe, RetrySilently \/ RequestFails
    PROVE  TurnSafe'
  <1> USE DEF TurnSafe
  <1>1. /\ turn \in Turn /\ turn.phase = "calling" /\ "turn" \notin open
        /\ turn.question = "none" /\ turn.iteration <= MaxIterations
        /\ turn.iteration \in 0..MaxIterations + 1 /\ turn.tier \in Tier
    BY Accounts DEF RetrySilently, RequestFails, TurnTypeOK, LimitsLeaveNoCalls, IterationsKept, Turn
  <1>2. UNCHANGED <<wired, guards, open, requests, last, declined, turns, interventions>>
    BY Zenon DEF RetrySilently, RequestFails
  <1>3. CASE RetrySilently
    <2>1. turn.failures < MaxRetries /\ turn' = [turn EXCEPT !.failures = @ + 1]
      BY <1>3, Zenon DEF RetrySilently
    <2>2. /\ turn' \in Turn /\ turn'.phase = turn.phase /\ turn'.question = turn.question
          /\ turn'.iteration = turn.iteration
      BY <1>1, <2>1, Numbers DEF Turn
    <2>3. TurnTypeOK' /\ IterationsKept' /\ LimitsLeaveNoCalls' /\ HintsJustified'
      BY <1>1, <1>2, <2>2 DEF TurnTypeOK, IterationsKept, LimitsLeaveNoCalls, HintsJustified
    <2>4. RequestsCounted'
      BY <1>1, <1>2, <2>2 DEF RequestsCounted, SpentAll, Spent
    <2> QED
      BY <2>3, <2>4
  <1>4. CASE RequestFails
    <2>1. turn' = Asking("retry", turn.tier, turn.iteration) \/ turn' = [NewTurn EXCEPT !.phase = "idle"]
      BY <1>4, Zenon DEF RequestFails, Ask, End
    <2>2. /\ turn' \in Turn
          /\ \/ turn'.phase = "asking" /\ turn'.question = "retry"
                /\ turn'.iteration = turn.iteration
             \/ turn'.phase = "idle" /\ turn'.question = "none"
      BY <1>1, <2>1, Asked, Idle DEF Question
    <2>3. TurnTypeOK' /\ IterationsKept' /\ LimitsLeaveNoCalls' /\ HintsJustified'
      BY <1>1, <1>2, <2>2 DEF TurnTypeOK, IterationsKept, LimitsLeaveNoCalls, HintsJustified
    <2>4. RequestsCounted'
      BY <2>2 DEF RequestsCounted
    <2> QED
      BY <2>3, <2>4
  <1> QED
    BY <1>3, <1>4

\* A degenerate response: what is retried is accounted for.
LEMMA BadAnswers ==
    ASSUME TurnSafe, NEW t \in Tier, Degenerate(t)
    PROVE  TurnSafe'
  <1> USE DEF TurnSafe
  <1> DEFINE n == guards.count[t] + 1
  <1>1. /\ turn \in Turn /\ guards \in Guards /\ turn.phase = "calling" /\ "turn" \notin open
        /\ turn.question = "none" /\ turn.iteration <= MaxIterations
        /\ turn.iteration \in 0..MaxIterations + 1
    BY Accounts DEF Degenerate, NthDegenerate, TurnTypeOK, LimitsLeaveNoCalls, IterationsKept
  <1>2. /\ UNCHANGED <<wired, open, requests, declined, turns, interventions>>
        /\ last' = t /\ guards' = Marked(guards, t, n)
    BY Zenon DEF Degenerate, NthDegenerate
  <1>3. guards.hint => \E u \in Tier : guards.count[u] > HintAfter[u]
    BY DEF HintsJustified
  <1>4. /\ n \in Nat /\ guards' \in Guards
        /\ guards'.count = [guards.count EXCEPT ![t] = @ + 1] /\ guards'.count[t] = n
        /\ guards'.hint => \E u \in Tier : guards'.count[u] > HintAfter[u]
    BY <1>1, <1>2, <1>3, Marks
  <1>5. UNCHANGED <<wired, open, requests, declined, turns, interventions>> /\ last' = t
    BY <1>2, Zenon
  <1> HIDE DEF n
  <1>6. HintsJustified'
    BY <1>4, <1>5 DEF HintsJustified
  <1>7. CASE Retried(t, n) /\ turn' = At("top", turn.iteration)
    <2>1. /\ turn' \in Turn /\ turn'.iteration = turn.iteration
          /\ turn'.phase = "top" /\ turn'.question = "none"
      BY <1>1, <1>7, Moved DEF Phase
    <2>2. n < Limit(t)
      BY <1>4, <1>7, TurnAssumption DEF Limit, Retried
    <2>3. TurnTypeOK' /\ IterationsKept' /\ LimitsLeaveNoCalls'
      BY <1>1, <1>4, <1>5, <2>1 DEF TurnTypeOK, IterationsKept, LimitsLeaveNoCalls
    <2>4. SpentAll(guards') = SpentAll(guards) + 1
      BY <1>1, <1>4, <2>2, SpentRises
    <2>5. requests <= turn.iteration * Round + SpentAll(guards) + 1
      BY <1>1 DEF RequestsCounted
    <2>6. turn.iteration * Round \in Nat /\ SpentAll(guards) \in Nat /\ requests \in Nat
      BY <1>1, Accounts DEF TurnTypeOK
    <2>7. RequestsCounted'
      BY <1>5, <2>1, <2>4, <2>5, <2>6 DEF RequestsCounted
    <2> QED
      BY <1>6, <2>3, <2>7
  <1>8. CASE \/ turn' = Asking("degenerate", t, turn.iteration)
             \/ turn' = [NewTurn EXCEPT !.phase = "idle"]
    <2>1. /\ turn' \in Turn
          /\ \/ turn'.phase = "asking" /\ turn'.question = "degenerate"
                /\ turn'.iteration = turn.iteration
             \/ turn'.phase = "idle" /\ turn'.question = "none"
      BY <1>1, <1>8, Asked, Idle DEF Question
    <2>2. TurnTypeOK' /\ IterationsKept' /\ LimitsLeaveNoCalls'
      BY <1>1, <1>4, <1>5, <2>1 DEF TurnTypeOK, IterationsKept, LimitsLeaveNoCalls
    <2>3. RequestsCounted'
      BY <2>1 DEF RequestsCounted
    <2> QED
      BY <1>6, <2>2, <2>3
  <1> QED
    BY <1>7, <1>8, Zenon DEF Degenerate, NthDegenerate, Again, Ask, End, n

\* The final reply
LEMMA Replied ==
    ASSUME TurnSafe, Reply
    PROVE  TurnSafe'
  <1> USE DEF TurnSafe
  <1>1. turn \in Turn /\ guards \in Guards /\ turn.phase = "calling" /\ "turn" \notin open
    BY DEF Reply, TurnTypeOK, LimitsLeaveNoCalls
  <1>2. /\ UNCHANGED <<wired, open, requests, declined, turns, interventions>>
        /\ last' = "kept" /\ guards' = Kept(guards)
        /\ turn' = [NewTurn EXCEPT !.phase = "idle"]
    BY Zenon DEF Reply, End
  <1>3. guards' \in Guards /\ ~guards'.hint
    BY <1>1, <1>2, GuardsTyped
  <1>4. turn' \in Turn /\ turn'.phase = "idle" /\ turn'.question = "none"
    BY <1>2, Idle
  <1>5. /\ UNCHANGED <<wired, open, requests, declined, turns, interventions>>
        /\ last' = "kept"
    BY <1>2, Zenon
  <1>6. TurnTypeOK' /\ IterationsKept' /\ LimitsLeaveNoCalls' /\ HintsJustified'
    BY <1>1, <1>3, <1>4, <1>5 DEF TurnTypeOK, IterationsKept, LimitsLeaveNoCalls, HintsJustified
  <1>7. RequestsCounted'
    BY <1>4 DEF RequestsCounted
  <1> QED
    BY <1>6, <1>7

\* A response with tool calls: a round is over.
LEMMA KeptAnswers ==
    ASSUME TurnSafe, NEW c \in Tool \cup {NoTool}, ToolCalls(c)
    PROVE  TurnSafe'
  <1> USE DEF TurnSafe
  <1> DEFINE g == Streak(Kept(guards), c)
             i == turn.iteration + 1
  <1>1. /\ turn \in Turn /\ guards \in Guards /\ turn.phase = "calling" /\ "turn" \notin open
        /\ turn.question = "none" /\ turn.iteration <= MaxIterations /\ turn.tier \in Tier
        /\ open \subseteq Owner
    BY DEF ToolCalls, Called, TurnTypeOK, LimitsLeaveNoCalls, IterationsKept, Turn
  <1>2. /\ UNCHANGED <<wired, requests, declined, turns, interventions>>
        /\ last' = "kept" /\ guards' = g
        /\ open' = IF turn'.phase = "tools" THEN open \cup {"turn"} ELSE open
    BY Zenon DEF ToolCalls, Called
  <1>3. \/ turn' = At("tools", i) /\ ~(i > MaxIterations)
        \/ turn' = Asking("iterations", turn.tier, i)
        \/ turn' = Asking("identical", turn.tier, i) /\ ~(i > MaxIterations)
        \/ turn' = [NewTurn EXCEPT !.phase = "idle"]
    BY Zenon DEF ToolCalls, Called, End
  <1>4. g \in Guards /\ ~g.hint
    BY <1>1, GuardsTyped, Streaks
  <1>5. i \in 0..MaxIterations + 1
    BY <1>1, Numbers DEF Turn
  <1> HIDE DEF g
  <1>6. /\ turn' \in Turn
        /\ \/ turn'.phase = "tools" /\ turn'.question = "none" /\ turn'.iteration = i
              /\ i <= MaxIterations
           \/ turn'.phase = "asking" /\ turn'.question = "iterations" /\ turn'.iteration = i
           \/ turn'.phase = "asking" /\ turn'.question = "identical" /\ turn'.iteration = i
              /\ i <= MaxIterations
           \/ turn'.phase = "idle" /\ turn'.question = "none"
    <2>1. At("tools", i) \in Turn /\ At("tools", i).phase = "tools"
          /\ At("tools", i).question = "none" /\ At("tools", i).iteration = i
      BY <1>1, <1>5, Moved DEF Phase
    <2>2. \A q \in {"iterations", "identical"} :
             LET t == Asking(q, turn.tier, i) IN
             t \in Turn /\ t.phase = "asking" /\ t.question = q /\ t.iteration = i
      BY <1>1, <1>5, Asked DEF Question
    <2>3. ~(i > MaxIterations) => i <= MaxIterations
      BY <1>5, Numbers
    <2> HIDE DEF i
    <2> QED
      BY <1>3, <2>1, <2>2, <2>3, Idle
  <1>7. /\ UNCHANGED <<wired, requests, declined, turns, interventions>>
        /\ last' = "kept" /\ guards' = g
    BY <1>2, Zenon
  <1>8. open' \subseteq Owner /\ ("turn" \in open' => turn'.phase = "tools")
    BY <1>1, <1>2 DEF Owner
  <1> HIDE DEF i
  <1>9. TurnTypeOK'
    BY <1>4, <1>6, <1>7, <1>8 DEF TurnTypeOK
  <1>10. IterationsKept' /\ LimitsLeaveNoCalls' /\ HintsJustified'
    BY <1>4, <1>6, <1>7, <1>8 DEF IterationsKept, LimitsLeaveNoCalls, HintsJustified
  <1>11. requests <= turn.iteration * Round + SpentAll(guards) + 1
    BY <1>1 DEF RequestsCounted
  <1>12. /\ turn.iteration \in Nat /\ turn.iteration * Round \in Nat
         /\ SpentAll(guards) \in 0..Round - 1 /\ SpentAll(g) \in Nat /\ requests \in Nat
    BY <1>1, <1>4, Accounts, SpentBounded DEF TurnTypeOK
  <1>13. i * Round = turn.iteration * Round + Round
    BY <1>12, LimitsPositive, Rounds DEF i
  <1>14. requests' <= i * Round + SpentAll(guards')
    BY <1>7, <1>11, <1>12, <1>13, LimitsPositive
  <1>15. RequestsCounted'
    BY <1>6, <1>14 DEF RequestsCounted
  <1> QED
    BY <1>9, <1>10, <1>15

\* The tools' results, appended or lost
LEMMA ToolsReturn ==
    ASSUME TurnSafe,
           ResultsLost \/ \E same, stop \in BOOLEAN : Returned(same, stop)
    PROVE  TurnSafe'
  <1> USE DEF TurnSafe
  <1>1. /\ turn \in Turn /\ guards \in Guards /\ open \subseteq Owner /\ turn.phase = "tools"
        /\ turn.question = "none" /\ turn.iteration <= MaxIterations
        /\ turn.iteration \in 0..MaxIterations + 1
    BY Accounts DEF ResultsLost, Returned, TurnTypeOK, IterationsKept
  <1>2. CASE ResultsLost
    <2>1. /\ UNCHANGED <<wired, guards, requests, last, declined, turns, interventions>>
          /\ open' = (open \ {"turn"}) \cup {"lost"} /\ turn' = [NewTurn EXCEPT !.phase = "idle"]
      BY <1>2, Zenon DEF ResultsLost, End
    <2>2. turn' \in Turn /\ turn'.phase = "idle" /\ turn'.question = "none"
      BY <2>1, Idle
    <2>3. UNCHANGED <<wired, guards, requests, last, declined, turns, interventions>>
      BY <2>1, Zenon
    <2>4. open' \subseteq Owner /\ "turn" \notin open'
      BY <1>1, <2>1 DEF Owner
    <2>5. TurnTypeOK' /\ IterationsKept' /\ LimitsLeaveNoCalls' /\ HintsJustified'
      BY <2>2, <2>3, <2>4 DEF TurnTypeOK, IterationsKept, LimitsLeaveNoCalls, HintsJustified
    <2>6. RequestsCounted'
      BY <2>2 DEF RequestsCounted
    <2> QED
      BY <2>5, <2>6
  <1>3. ASSUME NEW same \in BOOLEAN, NEW stop \in BOOLEAN, Returned(same, stop)
        PROVE  TurnSafe'
    <2> DEFINE n == IF same THEN guards.stuck + 1 ELSE 0
               u == At("hooks", turn.iteration)
    <2>1. /\ UNCHANGED <<wired, requests, last, declined, turns, interventions>>
          /\ open' = open \ {"turn"} /\ guards' = [guards EXCEPT !.stuck = n]
          /\ turn' = [u EXCEPT !.same = same, !.stop = u.stop \/ stop]
      BY <1>3, Zenon DEF Returned
    <2>2. n \in Nat
      BY <1>1 DEF Guards
    <2>3. u \in Turn /\ u.phase = "hooks" /\ u.question = "none" /\ u.iteration = turn.iteration
      BY <1>1, Moved DEF Phase
    <2>4. (u.stop \/ stop) \in BOOLEAN
      BY <2>3, Zenon DEF Turn
    <2> HIDE DEF n, u
    <2>5. guards' \in Guards /\ guards'.count = guards.count /\ guards'.hint = guards.hint
      BY <1>1, <2>1, <2>2, GuardsTyped, SameHints
    <2>6. /\ turn' \in Turn /\ turn'.phase = "hooks" /\ turn'.question = "none"
          /\ turn'.iteration = turn.iteration
      BY <2>1, <2>3, <2>4 DEF Turn
    <2>7. UNCHANGED <<wired, requests, last, declined, turns, interventions>>
      BY <2>1, Zenon
    <2>8. open' \subseteq Owner /\ "turn" \notin open'
      BY <1>1, <2>1
    <2>9. TurnTypeOK' /\ IterationsKept' /\ LimitsLeaveNoCalls' /\ HintsJustified'
      BY <1>1, <2>5, <2>6, <2>7, <2>8
         DEF TurnTypeOK, IterationsKept, LimitsLeaveNoCalls, HintsJustified
    <2>10. SpentAll(guards') = SpentAll(guards)
      BY <2>5, SpentSame
    <2>11. requests <= turn.iteration * Round + SpentAll(guards)
      BY <1>1 DEF RequestsCounted
    <2>12. RequestsCounted'
      BY <2>6, <2>7, <2>10, <2>11 DEF RequestsCounted
    <2> QED
      BY <2>9, <2>12
  <1> QED
    BY <1>2, <1>3

\* The detector of repeated errors, and what a tool asked for
LEMMA ToolsJudged ==
    ASSUME TurnSafe, Judge
    PROVE  TurnSafe'
  <1> USE DEF TurnSafe
  <1>1. /\ turn \in Turn /\ "turn" \notin open /\ turn.phase = "hooks"
        /\ turn.iteration <= MaxIterations /\ turn.tier \in Tier
        /\ turn.iteration \in 0..MaxIterations + 1
    BY Accounts DEF Judge, Judged, TurnTypeOK, LimitsLeaveNoCalls, IterationsKept, Turn
  <1>2. UNCHANGED <<wired, guards, open, requests, last, declined, turns, interventions>>
    BY Zenon DEF Judge, Judged
  <1>3. \/ turn' = Asking("stuck", turn.tier, turn.iteration)
        \/ turn' = At("top", turn.iteration)
        \/ turn' = [NewTurn EXCEPT !.phase = "idle"]
    BY Zenon DEF Judge, Judged, Ask, Again, End
  <1>4. /\ turn' \in Turn
        /\ \/ turn'.phase = "asking" /\ turn'.question = "stuck" /\ turn'.iteration = turn.iteration
           \/ turn'.phase = "top" /\ turn'.question = "none" /\ turn'.iteration = turn.iteration
           \/ turn'.phase = "idle" /\ turn'.question = "none"
    BY <1>1, <1>3, Asked, Moved, Idle DEF Question, Phase
  <1>5. TurnTypeOK' /\ IterationsKept' /\ LimitsLeaveNoCalls' /\ HintsJustified'
    BY <1>1, <1>2, <1>4 DEF TurnTypeOK, IterationsKept, LimitsLeaveNoCalls, HintsJustified
  <1>6. requests <= turn.iteration * Round + SpentAll(guards)
    BY <1>1 DEF RequestsCounted
  <1>7. RequestsCounted'
    BY <1>2, <1>4, <1>6 DEF RequestsCounted, SpentAll, Spent
  <1> QED
    BY <1>5, <1>7

\* The user says yes: nothing is spent yet.
LEMMA Continued ==
    ASSUME TurnSafe, Continue
    PROVE  TurnSafe'
  <1> USE DEF TurnSafe
  <1>1. /\ turn \in Turn /\ guards \in Guards /\ open \subseteq Owner /\ turn.phase = "asking"
        /\ "turn" \notin open /\ turn.tier \in Tier /\ turn.iteration \in 0..MaxIterations + 1
        /\ turn.question # "iterations" => turn.iteration <= MaxIterations
    BY Accounts DEF Continue, TurnTypeOK, LimitsLeaveNoCalls, IterationsKept, Turn
  <1>2. /\ interventions < MaxInterventions /\ interventions' = interventions + 1
        /\ requests' = 0 /\ UNCHANGED <<wired, last, declined, turns>>
    BY Zenon DEF Continue, Intervene, Meanwhile
  <1>3. /\ turn' \in Turn /\ turn'.question = "none"
        /\ turn'.phase \in {"calling", "top", "tools"}
        /\ turn'.iteration \in 0..MaxIterations + 1 /\ turn'.iteration <= MaxIterations
        /\ open' \subseteq Owner /\ ("turn" \in open' => turn'.phase = "tools")
        /\ guards' \in Guards
        /\ \/ guards'.count = guards.count /\ guards'.hint = guards.hint
           \/ ~guards'.hint
    <2>1. CASE turn.question = "retry"
      <3>1. turn' = At("calling", turn.iteration) /\ UNCHANGED <<guards, open>>
        BY <2>1, Zenon DEF Continue
      <3>2. turn' \in Turn /\ turn'.question = "none" /\ turn'.phase = "calling" /\ turn'.iteration = turn.iteration
        BY <1>1, <3>1, Moved DEF Phase
      <3>3. guards' = guards /\ open' = open
        BY <3>1, Zenon
      <3> QED
        BY <1>1, <2>1, <3>2, <3>3
    <2>2. CASE turn.question = "degenerate"
      <3>1. guards' = Excused(guards, turn.tier) /\ turn' = At("top", turn.iteration) /\ open' = open
        BY <2>2 DEF Continue, Again
      <3>2. turn' \in Turn /\ turn'.question = "none" /\ turn'.phase = "top" /\ turn'.iteration = turn.iteration
        BY <1>1, <3>1, Moved DEF Phase
      <3>3. guards' \in Guards /\ ~guards'.hint
        BY <1>1, <3>1, GuardsTyped
      <3> QED
        BY <1>1, <2>2, <3>1, <3>2, <3>3
    <2>3. CASE turn.question = "iterations"
      <3>1. guards' = FreshRun(guards) /\ turn' = At("top", 0) /\ open' = open
        BY <2>3 DEF Continue
      <3>2. 0 \in 0..MaxIterations + 1 /\ 0 <= MaxIterations
        BY Numbers
      <3>3. turn' \in Turn /\ turn'.question = "none" /\ turn'.phase = "top" /\ turn'.iteration = 0
        BY <1>1, <3>1, <3>2, Moved DEF Phase
      <3>4. guards' \in Guards /\ guards'.count = guards.count /\ guards'.hint = guards.hint
        BY <1>1, <3>1, GuardsTyped, SameHints
      <3> QED
        BY <1>1, <3>1, <3>2, <3>3, <3>4
    <2>4. CASE turn.question = "identical"
      <3>1. /\ guards' = [guards EXCEPT !.streak = 0]
            /\ turn' = At("tools", turn.iteration) /\ open' = open \cup {"turn"}
        BY <2>4, Zenon DEF Continue, CallsGoOn
      <3>2. turn' \in Turn /\ turn'.question = "none" /\ turn'.phase = "tools" /\ turn'.iteration = turn.iteration
        BY <1>1, <3>1, Moved DEF Phase
      <3>3. guards' \in Guards /\ guards'.count = guards.count /\ guards'.hint = guards.hint
        BY <1>1, <3>1, GuardsTyped, SameHints
      <3>4. open' \subseteq Owner
        BY <1>1, <3>1 DEF Owner
      <3> QED
        BY <1>1, <2>4, <3>2, <3>3, <3>4
    <2>5. CASE turn.question = "stuck"
      <3>1. guards' = [guards EXCEPT !.stuck = 0] /\ turn' = At("top", turn.iteration) /\ open' = open
        BY <2>5 DEF Continue, Again
      <3>2. turn' \in Turn /\ turn'.question = "none" /\ turn'.phase = "top" /\ turn'.iteration = turn.iteration
        BY <1>1, <3>1, Moved DEF Phase
      <3>3. guards' \in Guards /\ guards'.count = guards.count /\ guards'.hint = guards.hint
        BY <1>1, <3>1, GuardsTyped, SameHints
      <3> QED
        BY <1>1, <2>5, <3>1, <3>2, <3>3
    <2>6. turn.question \in {"retry", "degenerate", "iterations", "identical", "stuck"}
      BY DEF Continue
    <2> QED
      BY <2>1, <2>2, <2>3, <2>4, <2>5, <2>6
  <1>4. TurnTypeOK'
    BY <1>2, <1>3, Numbers DEF TurnTypeOK
  <1>5. IterationsKept' /\ LimitsLeaveNoCalls' /\ HintsJustified'
    BY <1>2, <1>3 DEF IterationsKept, LimitsLeaveNoCalls, HintsJustified
  <1>6. RequestsCounted'
    BY <1>2, <1>3, Accounts DEF RequestsCounted
  <1> QED
    BY <1>4, <1>5, <1>6

\* The user says no.
LEMMA Declined ==
    ASSUME TurnSafe, Decline
    PROVE  TurnSafe'
  <1> USE DEF TurnSafe
  <1>1. /\ turn \in Turn /\ turn.phase = "asking" /\ "turn" \notin open /\ open \subseteq Owner
        /\ turn.iteration \in 0..MaxIterations + 1
    BY Accounts DEF Decline, TurnTypeOK, LimitsLeaveNoCalls
  <1>2. /\ UNCHANGED <<wired, guards, requests, last, turns, interventions>>
        /\ declined' \in BOOLEAN
    BY Zenon DEF Decline
  <1>3. CASE turn.question = "identical"
    <2>1. turn' = At("tools", turn.iteration) /\ open' = open \cup {"turn"}
      BY <1>3, Zenon DEF Decline, CallsGoOn
    <2>2. turn' \in Turn /\ turn'.question = "none" /\ turn'.phase = "tools" /\ turn'.iteration = turn.iteration
      BY <1>1, <2>1, Moved DEF Phase
    <2>3. turn.iteration <= MaxIterations
      BY <1>1, <1>3 DEF IterationsKept
    <2>4. open' \subseteq Owner
      BY <1>1, <2>1 DEF Owner
    <2>5. TurnTypeOK' /\ IterationsKept' /\ LimitsLeaveNoCalls' /\ HintsJustified'
      BY <1>2, <2>2, <2>3, <2>4 DEF TurnTypeOK, IterationsKept, LimitsLeaveNoCalls, HintsJustified
    <2>6. RequestsCounted'
      BY <1>1, <1>2, <1>3, <2>2 DEF RequestsCounted, SpentAll, Spent
    <2> QED
      BY <2>5, <2>6
  <1>4. CASE turn.question # "identical"
    <2>1. turn' = [NewTurn EXCEPT !.phase = "idle"] /\ open' = open
      BY <1>4 DEF Decline, End
    <2>2. turn' \in Turn /\ turn'.question = "none" /\ turn'.phase = "idle"
      BY <2>1, Idle
    <2>3. TurnTypeOK' /\ IterationsKept' /\ LimitsLeaveNoCalls' /\ HintsJustified'
      BY <1>1, <1>2, <2>1, <2>2 DEF TurnTypeOK, IterationsKept, LimitsLeaveNoCalls, HintsJustified
    <2>4. RequestsCounted'
      BY <2>2 DEF RequestsCounted
    <2> QED
      BY <2>3, <2>4
  <1> QED
    BY <1>3, <1>4

\* Another turn counts a degenerate response, which the account of this one
\* bears, or clears counters.
LEMMA OthersWork ==
    ASSUME TurnSafe, OtherTurn
    PROVE  TurnSafe'
  <1> USE DEF TurnSafe
  <1>1. /\ turn \in Turn /\ guards \in Guards /\ open \subseteq Owner /\ requests \in Nat
        /\ guards.hint => last \in Tier /\ \E u \in Tier : guards.count[u] > HintAfter[u]
    BY DEF TurnTypeOK, HintsJustified
  <1>2. /\ interventions < MaxInterventions /\ interventions' = interventions + 1
        /\ UNCHANGED <<wired, turn, declined, turns>>
    BY Zenon DEF OtherTurn, Meanwhile
  <1>3. last \in {"none", "kept"} \cup Tier /\ SpentAll(guards) \in Nat
    BY <1>1, Accounts DEF TurnTypeOK
  <1> DEFINE Harmless ==
        /\ guards' \in Guards /\ open' \subseteq Owner /\ ("turn" \in open' => "turn" \in open)
        /\ last' \in {"none", "kept"} \cup Tier
        /\ guards'.hint => last' \in Tier /\ \E u \in Tier : guards'.count[u] > HintAfter[u]
        /\ requests' = 0 \/ (requests' = requests /\ SpentAll(guards') >= SpentAll(guards))
  <1>4. ASSUME OthersSpoke
        PROVE  Harmless
    <2>1. guards' = UserSpoke(guards) /\ last' = "none" /\ requests' = 0 /\ open' = open
      BY <1>4 DEF OthersSpoke
    <2> QED
      BY <1>1, <2>1, GuardsTyped
  <1>5. ASSUME NEW t \in Tier, OthersDegenerate(t)
        PROVE  Harmless
    <2> DEFINE n == guards.count[t] + 1
    <2>1. guards' = Marked(guards, t, n) /\ last' = t /\ open' = open /\ requests' = requests
      BY <1>5 DEF OthersDegenerate
    <2>2. /\ guards' \in Guards /\ guards'.count = [guards.count EXCEPT ![t] = @ + 1]
          /\ guards'.hint => \E u \in Tier : guards'.count[u] > HintAfter[u]
      BY <1>1, <2>1, Marks
    <2>3. SpentAll(guards') >= SpentAll(guards)
      BY <1>1, <2>2, SpentGrows
    <2> QED
      BY <1>1, <2>1, <2>2, <2>3
  <1>6. ASSUME OthersKept
        PROVE  Harmless
    <2>1. /\ \/ guards' = Kept(guards)
             \/ \E c \in Tool \cup {NoTool} : guards' = Streak(Kept(guards), c)
          /\ open' \in {open, open \cup {"other"}} /\ last' = "kept" /\ requests' = 0
      BY <1>6 DEF OthersKept
    <2> DEFINE k == Kept(guards)
    <2>0. k \in Guards /\ ~k.hint
      BY <1>1, GuardsTyped
    <2>2. guards' \in Guards /\ ~guards'.hint
      <3>1. CASE guards' = k
        BY <2>0, <3>1
      <3>2. ASSUME NEW c \in Tool \cup {NoTool}, guards' = Streak(k, c)
            PROVE  guards' \in Guards /\ ~guards'.hint
        <4> HIDE DEF k
        <4> QED BY <2>0, <3>2, Streaks
      <3> QED BY <2>1, <3>1, <3>2
    <2>3. open' \subseteq Owner /\ ("turn" \in open' => "turn" \in open)
      BY <1>1, <2>1 DEF Owner
    <2> QED
      BY <2>1, <2>2, <2>3
  <1>7. ASSUME OthersResults
        PROVE  Harmless
    <2>1. /\ \/ guards' = guards
             \/ \E n \in {0, guards.stuck + 1} : guards' = [guards EXCEPT !.stuck = n]
          /\ open' \in {open, open \ {"other"}, open \cup {"lost"},
                        (open \ {"other"}) \cup {"lost"}}
          /\ last' = last /\ requests' = requests
      BY <1>7 DEF OthersResults
    <2>2. {0, guards.stuck + 1} \subseteq Nat
      BY <1>1 DEF Guards
    <2>3. guards' \in Guards /\ guards'.count = guards.count /\ guards'.hint = guards.hint
      <3>1. CASE guards' = guards
        BY <1>1, <3>1
      <3>2. ASSUME NEW n \in Nat, guards' = [guards EXCEPT !.stuck = n]
            PROVE  /\ guards' \in Guards
                   /\ guards'.count = guards.count /\ guards'.hint = guards.hint
        BY <1>1, <3>2, GuardsTyped, SameHints
      <3> QED BY <2>1, <2>2, <3>1, <3>2
    <2>4. open' \subseteq Owner /\ ("turn" \in open' => "turn" \in open)
      BY <1>1, <2>1 DEF Owner
    <2>5. SpentAll(guards') = SpentAll(guards)
      BY <2>3, SpentSame
    <2> QED
      BY <1>1, <1>3, <2>1, <2>3, <2>4, <2>5
  <1>8. ASSUME OthersAnswered
        PROVE  Harmless
    <2>1. /\ \/ \E t \in Tier : guards' = Excused(guards, t)
             \/ guards' = FreshRun(guards)
             \/ guards' = [guards EXCEPT !.stuck = 0]
             \/ guards' = guards
             \/ guards' = [guards EXCEPT !.streak = 0]
          /\ open' \in {open, open \cup {"other"}}
          /\ last' = last /\ requests' = 0
      BY <1>8 DEF OthersAnswered
    <2>2. /\ guards' \in Guards
          /\ \/ guards'.count = guards.count /\ guards'.hint = guards.hint
             \/ ~guards'.hint
      <3>1. ASSUME NEW t \in Tier, guards' = Excused(guards, t)
            PROVE  guards' \in Guards /\ ~guards'.hint
        BY <1>1, <3>1, GuardsTyped
      <3>2. CASE guards' = FreshRun(guards)
        BY <1>1, <3>2, GuardsTyped, SameHints
      <3>3. CASE guards' = [guards EXCEPT !.stuck = 0]
        <4>1. PICK n \in Nat : guards' = [guards EXCEPT !.stuck = n]
          BY <3>3
        <4>2. [guards EXCEPT !.stuck = n] \in Guards
          BY <1>1, GuardsTyped
        <4> QED BY <1>1, <4>1, <4>2, SameHints
      <3>4. CASE guards' = guards
        BY <1>1, <3>4
      <3>5. CASE guards' = [guards EXCEPT !.streak = 0]
        BY <1>1, <3>5, GuardsTyped, SameHints
      <3> QED BY <2>1, <3>1, <3>2, <3>3, <3>4, <3>5
    <2>3. open' \subseteq Owner /\ ("turn" \in open' => "turn" \in open)
      BY <1>1, <2>1 DEF Owner
    <2> QED
      BY <1>1, <1>3, <2>1, <2>2, <2>3
  <1>9. Harmless
    BY <1>4, <1>5, <1>6, <1>7, <1>8, Zenon DEF OtherTurn
  <1>10. requests' \in Nat /\ UNCHANGED <<wired, turn, declined, turns>>
    BY <1>1, <1>2, <1>9
  <1>11. TurnTypeOK'
    BY <1>2, <1>9, <1>10, Numbers DEF TurnTypeOK
  <1>12. IterationsKept' /\ LimitsLeaveNoCalls' /\ HintsJustified'
    BY <1>9, <1>10 DEF IterationsKept, LimitsLeaveNoCalls, HintsJustified
  <1>13. SpentAll(guards') \in Nat /\ turn.iteration * Round \in Nat
    BY <1>1, <1>9, Accounts
  <1>14. RequestsCounted'
    BY <1>1, <1>3, <1>9, <1>10, <1>13 DEF RequestsCounted
  <1> QED
    BY <1>11, <1>12, <1>14

LEMMA TurnStepSafe == TurnSafe /\ [TurnNext]_turn_vars => TurnSafe'
  <1> SUFFICES ASSUME TurnSafe, [TurnNext]_turn_vars
               PROVE  TurnSafe'
    OBVIOUS
  <1>1. CASE UNCHANGED turn_vars
    BY <1>1 DEF turn_vars, TurnSafe, TurnTypeOK, IterationsKept, LimitsLeaveNoCalls,
                HintsJustified, RequestsCounted, SpentAll, Spent
  <1>2. CASE StartTurn \/ StopAtTop \/ Steer \/ ResetDetectors \/ Request
    BY <1>2, BetweenRounds
  <1>3. CASE RetrySilently \/ RequestFails
    BY <1>3, Failures
  <1>4. CASE Response
    BY <1>4, BadAnswers, Replied, KeptAnswers DEF Response
  <1>5. CASE ResultsLost \/ (\E same, stop \in BOOLEAN : Returned(same, stop)) \/ Judge
    BY <1>5, ToolsReturn, ToolsJudged
  <1>6. CASE Continue \/ Decline
    BY <1>6, Continued, Declined
  <1>7. CASE OtherTurn
    BY <1>7, OthersWork
  <1> QED
    BY <1>1, <1>2, <1>3, <1>4, <1>5, <1>6, <1>7 DEF TurnNext, TurnStep

LEMMA TurnAlwaysSafe == TurnSpec => []TurnSafe
  <1> QED
    BY TurnInitSafe, TurnStepSafe, PTL DEF TurnSpec

-----------------------------------------------------------------------------
\* A request is made within the budget, or counters have been cleared.
LEMMA BudgetKept ==
    ASSUME TurnSafe, RequestBudget, [TurnNext]_turn_vars
    PROVE  RequestBudget'
  <1> DEFINE Budget == (MaxIterations + 1) * Round
  <1>1. Budget \in Nat
    BY Numbers, LimitsPositive, Rounds
  <1>2. requests' = requests \/ requests' = 0 \/ Request
    <2>1. CASE UNCHANGED turn_vars
      BY <2>1, Zenon DEF turn_vars
    <2>2. CASE StartTurn \/ StopAtTop \/ Steer \/ ResetDetectors
      BY <2>2, Zenon DEF StartTurn, StopAtTop, Steer, ResetDetectors, Intervene, Meanwhile
    <2>3. CASE TurnStep
      BY <2>3, Zenon DEF TurnStep, RetrySilently, RequestFails, Response, Degenerate, NthDegenerate, Reply,
                         ToolCalls, Called, ResultsLost, Returned, Judge, Judged
    <2>4. CASE Continue \/ Decline
      BY <2>4, Zenon DEF Continue, Decline, Intervene
    <2>5. CASE OtherTurn
      BY <2>5, Zenon DEF OtherTurn, OthersSpoke, OthersDegenerate, OthersKept, OthersResults,
                         OthersAnswered
    <2> QED
      BY <2>1, <2>2, <2>3, <2>4, <2>5, Zenon DEF TurnNext
  <1>3. CASE Request
    <2>1. turn.phase = "top" /\ requests' = requests + 1
      BY <1>3, Zenon DEF Request
    <2>2. /\ requests <= turn.iteration * Round + SpentAll(guards)
          /\ turn.iteration <= MaxIterations
      BY <2>1 DEF TurnSafe, RequestsCounted, IterationsKept
    <2>3. /\ turn.iteration \in Nat /\ turn.iteration * Round \in Nat
          /\ SpentAll(guards) \in 0..Round - 1 /\ requests \in Nat
      BY Accounts, SpentBounded DEF TurnSafe, TurnTypeOK
    <2>4. turn.iteration * Round <= MaxIterations * Round
      BY <2>2, <2>3, Numbers, LimitsPositive, Rounds
    <2>5. Budget = MaxIterations * Round + Round /\ MaxIterations * Round \in Nat
      BY Numbers, LimitsPositive, Rounds
    <2>6. requests + 1 <= Budget
      BY <2>2, <2>3, <2>4, <2>5, LimitsPositive
    <2> QED
      BY <2>1, <2>6 DEF RequestBudget, Round
  <1> QED
    BY <1>1, <1>2, <1>3 DEF RequestBudget, Round

(* Every variable keeps its type: the loop's counters stay within their        *)
(* limits, whatever a model answers.                                          *)
THEOREM TurnTypeCorrect == TurnSpec => []TurnTypeOK
  <1>1. TurnSafe => TurnTypeOK
    BY DEF TurnSafe
  <1> QED
    BY <1>1, TurnAlwaysSafe, PTL

(* For every host and all limits: a turn has calls without results only while  *)
(* its tools run; limits, questions, refusals, stops and failed requests leave *)
(* none behind, whatever other turns do (conversation-service.ts:1298-1299).   *)
(* Calls whose results a throw loses at line 856 are "lost", not the turn's.   *)
THEOREM LimitsLeaveNone == TurnSpec => []LimitsLeaveNoCalls
  <1>1. TurnSafe => LimitsLeaveNoCalls
    BY DEF TurnSafe
  <1> QED
    BY <1>1, TurnAlwaysSafe, PTL

(* Models are told of a degenerate last response only when the last response   *)
(* in the conversation was one, past the silent retries of its tier or of      *)
(* another, for every overlap of turns and every schedule of retries, steering *)
(* and answers.                                                               *)
THEOREM HintsAreJustified == TurnSpec => []HintsJustified
  <1>1. TurnSafe => HintsJustified
    BY DEF TurnSafe
  <1> QED
    BY <1>1, TurnAlwaysSafe, PTL

(* While nobody else clears counters, a turn makes a bounded number of         *)
(* requests, for all limits and all answers: each request is a retry the       *)
(* counters account for, the one that ends a round, or the last.              *)
THEOREM RequestsBounded == TurnSpec => []RequestBudget
  <1>1. TurnInit => RequestBudget
    <2>1. (MaxIterations + 1) * Round \in Nat
      BY Numbers, LimitsPositive, Rounds
    <2> QED
      BY <2>1 DEF TurnInit, RequestBudget, Round
  <1>2. TurnSafe /\ RequestBudget /\ [TurnNext]_turn_vars => RequestBudget'
    BY BudgetKept
  <1> QED
    BY <1>1, <1>2, TurnAlwaysSafe, PTL DEF TurnSpec

-----------------------------------------------------------------------------
(***************************************************************************)
(* The end of a turn.  That fair turns end needs ENABLED; what it rests on *)
(* is safety: a turn steps at most StepsLeft times before it is over or    *)
(* waits for the user, and it waits only for a callback that is wired.     *)
(***************************************************************************)

(* No guard waits for a callback the host did not wire.                       *)
QuestionsWired == turn.phase = "asking" => turn.question \in wired

\* Requests a turn may still make, those of the rounds to come included
RequestsLeft(t, g) == (MaxIterations + 1 - t.iteration) * Round + Round - SpentAll(g)

\* The steps after the last of them
StageLeft(t) ==
    CASE t.phase = "tools" -> MaxRetries + 4
      [] t.phase = "hooks" -> MaxRetries + 3
      [] t.phase = "top" -> MaxRetries + 2
      [] OTHER -> MaxRetries + 1 - t.failures

Pace == MaxRetries + 5

Underway(t) == t.phase \in {"top", "calling", "tools", "hooks"}

StepsLeft ==
    IF Underway(turn) THEN RequestsLeft(turn, guards) * Pace + StageLeft(turn) ELSE 0

LEMMA StageBounded ==
    ASSUME NEW t \in Turn
    PROVE  StageLeft(t) \in 1..Pace - 1
  BY Numbers DEF StageLeft, Pace, Turn

LEMMA RequestsLeftKnown ==
    ASSUME NEW t \in Turn, NEW g \in Guards, t.iteration <= MaxIterations
    PROVE  /\ RequestsLeft(t, g) \in Nat \ {0}
           /\ RequestsLeft(t, g)
                = (MaxIterations - t.iteration) * Round + Round + Round - SpentAll(g)
           /\ (MaxIterations - t.iteration) * Round \in Nat
           /\ RequestsLeft(t, g) <= (MaxIterations + 2) * Round
  <1> DEFINE k == MaxIterations - t.iteration
  <1>1. k \in Nat /\ k <= MaxIterations /\ MaxIterations + 1 - t.iteration = k + 1
    BY Numbers DEF Turn
  <1>2. SpentAll(g) \in 0..Round - 1 /\ Round \in Nat \ {0}
    BY SpentBounded, LimitsPositive
  <1>3. /\ k * Round \in Nat /\ (k + 1) * Round = k * Round + Round
        /\ k * Round <= MaxIterations * Round
        /\ (MaxIterations + 1) * Round = MaxIterations * Round + Round
        /\ ((MaxIterations + 1) + 1) * Round = (MaxIterations + 1) * Round + Round
        /\ MaxIterations * Round \in Nat
    BY <1>1, <1>2, Numbers, Rounds
  <1>4. MaxIterations + 2 = (MaxIterations + 1) + 1
    BY Numbers
  <1>5. RequestsLeft(t, g) = (k + 1) * Round + Round - SpentAll(g)
    BY <1>1 DEF RequestsLeft
  <1> HIDE DEF k
  <1>6. /\ RequestsLeft(t, g) \in Nat \ {0}
        /\ RequestsLeft(t, g) = k * Round + Round + Round - SpentAll(g)
        /\ RequestsLeft(t, g) <= (MaxIterations + 2) * Round
    BY <1>2, <1>3, <1>4, <1>5
  <1> QED
    BY <1>3, <1>6 DEF k

\* Fewer requests left, or as many and a later stage, are fewer steps.
LEMMA Lower ==
    ASSUME NEW r \in Nat, NEW q \in Nat, NEW p \in Nat,
           NEW s \in 1..p - 1, NEW u \in 1..p - 1,
           q < r \/ (q = r /\ u < s)
    PROVE  /\ r * p \in Nat /\ q * p \in Nat
           /\ q * p + u < r * p + s
  <1>1. r * p \in Nat /\ q * p \in Nat /\ (q + 1) * p = q * p + p
    BY Rounds
  <1>2. CASE q < r
    <2>1. (q + 1) * p <= r * p
      BY <1>2, Rounds
    <2> QED BY <1>1, <2>1
  <1>3. CASE q = r /\ u < s
    BY <1>1, <1>3
  <1> QED BY <1>1, <1>2, <1>3

\* The steps of the turn, by where they leave it
LEMMA StepCases ==
    ASSUME TurnSafe, TurnStep
    PROVE  \/ turn'.phase \in {"idle", "asking"}
           \/ /\ guards'.count = guards.count /\ turn'.iteration = turn.iteration
              /\ Underway(turn') /\ StageLeft(turn') < StageLeft(turn)
           \/ /\ SpentAll(guards') = SpentAll(guards) + 1
              /\ turn'.iteration = turn.iteration /\ Underway(turn')
           \/ turn'.iteration = turn.iteration + 1 /\ turn'.phase = "tools"
  <1>0. /\ turn \in Turn /\ guards \in Guards /\ turn.iteration \in 0..MaxIterations + 1
        /\ turn.tier \in Tier
    BY Accounts DEF TurnSafe, TurnTypeOK, Turn
  <1>1. CASE Request
    <2>1. turn' = At("calling", turn.iteration) /\ guards' = guards /\ turn.phase = "top"
      BY <1>1, Zenon DEF Request
    <2>2. turn'.phase = "calling" /\ turn'.iteration = turn.iteration /\ turn'.failures = 0
      BY <1>0, <2>1, Moved DEF Phase
    <2> QED BY <2>1, <2>2, Numbers DEF StageLeft, Underway
  <1>2. CASE RetrySilently
    <2>1. /\ turn' = [turn EXCEPT !.failures = @ + 1]
          /\ guards' = guards /\ turn.phase = "calling"
      BY <1>2, Zenon DEF RetrySilently
    <2>2. /\ turn'.phase = "calling" /\ turn'.iteration = turn.iteration
          /\ turn'.failures = turn.failures + 1 /\ turn.failures \in Nat
      BY <1>0, <2>1, Numbers DEF Turn
    <2> QED BY <2>1, <2>2, Numbers DEF StageLeft, Underway
  <1>3. CASE RequestFails \/ Reply \/ ResultsLost
    <2>1. turn' = Asking("retry", turn.tier, turn.iteration) \/ turn' = [NewTurn EXCEPT !.phase = "idle"]
      BY <1>3, Zenon DEF RequestFails, Reply, ResultsLost, Ask, End
    <2> QED BY <1>0, <2>1, Asked, Idle DEF Question
  <1>4. ASSUME NEW t \in Tier, Degenerate(t)
        PROVE  \/ turn'.phase \in {"idle", "asking"}
               \/ /\ SpentAll(guards') = SpentAll(guards) + 1
                  /\ turn'.iteration = turn.iteration /\ Underway(turn')
    <2> DEFINE n == guards.count[t] + 1
    <2>1. /\ guards' = Marked(guards, t, n)
          /\ \/ Retried(t, n) /\ turn' = At("top", turn.iteration)
             \/ turn' = Asking("degenerate", t, turn.iteration)
             \/ turn' = [NewTurn EXCEPT !.phase = "idle"]
      BY <1>4, Zenon DEF Degenerate, NthDegenerate, Again, Ask, End
    <2>2. CASE Retried(t, n) /\ turn' = At("top", turn.iteration)
      <3>1. turn'.iteration = turn.iteration /\ turn'.phase = "top"
        BY <1>0, <2>2, Moved DEF Phase
      <3>2. guards.hint => \E u \in Tier : guards.count[u] > HintAfter[u]
        BY DEF TurnSafe, HintsJustified
      <3>3. /\ guards'.count = [guards.count EXCEPT ![t] = @ + 1] /\ guards'.count[t] = n
            /\ n \in Nat /\ guards' \in Guards
        BY <1>0, <2>1, <3>2, Marks
      <3>4. n < Limit(t)
        BY <2>2, <3>3, TurnAssumption DEF Limit, Retried
      <3>5. SpentAll(guards') = SpentAll(guards) + 1
        BY <1>0, <3>3, <3>4, SpentRises
      <3> QED BY <3>1, <3>5 DEF Underway
    <2>3. CASE \/ turn' = Asking("degenerate", t, turn.iteration)
               \/ turn' = [NewTurn EXCEPT !.phase = "idle"]
      BY <1>0, <2>3, Asked, Idle DEF Question
    <2> QED BY <2>1, <2>2, <2>3
  <1>5. ASSUME NEW c \in Tool \cup {NoTool}, ToolCalls(c)
        PROVE  \/ turn'.phase \in {"idle", "asking"}
               \/ turn'.iteration = turn.iteration + 1 /\ turn'.phase = "tools"
    <2> DEFINE i == turn.iteration + 1
    <2>1. turn.phase = "calling" /\ turn.question = "none" /\ turn.iteration <= MaxIterations
      BY <1>5 DEF ToolCalls, Called, TurnSafe, IterationsKept
    <2>2. i \in 0..MaxIterations + 1
      BY <1>0, <2>1, Numbers
    <2>3. \/ turn' = At("tools", i)
          \/ \E q \in {"iterations", "identical"} : turn' = Asking(q, turn.tier, i)
          \/ turn' = [NewTurn EXCEPT !.phase = "idle"]
      BY <1>5, Zenon DEF ToolCalls, Called, End
    <2>4. At("tools", i).phase = "tools" /\ At("tools", i).iteration = i
      BY <1>0, <2>2, Moved DEF Phase
    <2>5. \A q \in {"iterations", "identical"} : Asking(q, turn.tier, i).phase = "asking"
      BY <1>0, <2>2, Asked DEF Question
    <2> QED BY <2>3, <2>4, <2>5, Idle
  <1>6. ASSUME NEW same \in BOOLEAN, NEW stop \in BOOLEAN, Returned(same, stop)
        PROVE  /\ guards'.count = guards.count /\ turn'.iteration = turn.iteration
               /\ Underway(turn') /\ StageLeft(turn') < StageLeft(turn)
    <2> DEFINE u == At("hooks", turn.iteration)
    <2>1. /\ turn.phase = "tools"
          /\ \E n : guards' = [guards EXCEPT !.stuck = n]
          /\ \E b : turn' = [u EXCEPT !.same = same, !.stop = b]
      BY <1>6, Zenon DEF Returned
    <2>2. u \in Turn /\ u.phase = "hooks" /\ u.iteration = turn.iteration
      BY <1>0, Moved DEF Phase
    <2> HIDE DEF u
    <2>3. guards'.count = guards.count
      BY <1>0, <2>1 DEF Guards
    <2>4. turn'.iteration = turn.iteration /\ turn'.phase = "hooks"
      BY <2>1, <2>2 DEF Turn
    <2> QED BY <2>1, <2>3, <2>4, Numbers DEF StageLeft, Underway
  <1>7. CASE Judge
    <2>1. /\ turn.phase = "hooks" /\ guards' = guards
          /\ \/ turn' = Asking("stuck", turn.tier, turn.iteration)
             \/ turn' = At("top", turn.iteration)
             \/ turn' = [NewTurn EXCEPT !.phase = "idle"]
      BY <1>7, Zenon DEF Judge, Judged, Ask, Again, End
    <2>2. \/ turn'.phase \in {"asking", "idle"}
          \/ turn'.phase = "top" /\ turn'.iteration = turn.iteration
      BY <1>0, <2>1, Asked, Moved, Idle DEF Question, Phase
    <2> QED BY <2>1, <2>2, Numbers DEF StageLeft, Underway
  <1> QED
    BY <1>1, <1>2, <1>3, <1>4, <1>5, <1>6, <1>7 DEF TurnStep, Response

(* Every step a turn takes by itself brings it nearer to its end: no sequence  *)
(* of answers, failures and tool calls keeps the loop running                 *)
(* (conversation-service.ts, the loop of sendUserMessage).                    *)
StepsRunDown == [][TurnStep => StepsLeft' < StepsLeft]_turn_vars

(* The guards' counters, the limit of iterations and the retries of a request  *)
(* together make a turn's own steps run down, for all limits.                 *)
THEOREM TurnsRunDown == TurnSpec => StepsRunDown
  <1>1. ASSUME TurnSafe, TurnSafe', TurnStep
        PROVE  StepsLeft' < StepsLeft
    <2>1. turn \in Turn /\ guards \in Guards /\ turn' \in Turn /\ guards' \in Guards
      BY <1>1 DEF TurnSafe, TurnTypeOK
    <2>2. Underway(turn)
      BY <1>1, Zenon
         DEF TurnStep, Request, RetrySilently, RequestFails, Response, Degenerate,
             NthDegenerate, Reply, ToolCalls, Called, ResultsLost, Returned, Judge, Judged,
             Underway
    <2>3. /\ turn.iteration <= MaxIterations
          /\ Underway(turn') => turn'.iteration <= MaxIterations
      BY <1>1, <2>2 DEF TurnSafe, IterationsKept, Underway
    <2> DEFINE r == RequestsLeft(turn, guards)
               q == RequestsLeft(turn', guards')
    <2>4. r \in Nat \ {0} /\ StageLeft(turn) \in 1..Pace - 1 /\ Pace \in Nat
      BY <2>1, <2>3, RequestsLeftKnown, StageBounded, Numbers DEF Pace
    <2>5. StepsLeft = r * Pace + StageLeft(turn)
      BY <2>2 DEF StepsLeft
    <2>6. CASE ~Underway(turn')
      <3>1. StepsLeft' = 0
        BY <2>6 DEF StepsLeft, Underway
      <3>2. r * Pace \in Nat
        BY <2>4, Rounds
      <3> HIDE DEF r
      <3> QED BY <2>4, <2>5, <3>1, <3>2
    <2>7. CASE Underway(turn')
      <3>1. q \in Nat /\ StageLeft(turn') \in 1..Pace - 1
        BY <2>1, <2>3, <2>7, RequestsLeftKnown, StageBounded
      <3>2. StepsLeft' = q * Pace + StageLeft(turn')
        BY <2>7 DEF StepsLeft, Underway, RequestsLeft, StageLeft, SpentAll, Spent
      <3>3. q < r \/ (q = r /\ StageLeft(turn') < StageLeft(turn))
        <4>1. /\ SpentAll(guards) \in 0..Round - 1 /\ SpentAll(guards') \in 0..Round - 1
              /\ Round \in Nat
          BY <2>1, SpentBounded, LimitsPositive
        <4>2. CASE /\ guards'.count = guards.count /\ turn'.iteration = turn.iteration
                   /\ StageLeft(turn') < StageLeft(turn)
          BY <4>2 DEF RequestsLeft, SpentAll, Spent
        <4>3. CASE /\ SpentAll(guards') = SpentAll(guards) + 1
                   /\ turn'.iteration = turn.iteration
          <5>1. q = (MaxIterations + 1 - turn.iteration) * Round + Round - (SpentAll(guards) + 1)
            BY <4>3 DEF RequestsLeft
          <5>2. (MaxIterations + 1 - turn.iteration) * Round \in Int
            BY <2>1, <4>1, Numbers DEF Turn
          <5> QED BY <4>1, <5>1, <5>2 DEF RequestsLeft
        <4>4. CASE turn'.iteration = turn.iteration + 1
          <5>1. MaxIterations + 1 - turn'.iteration = MaxIterations - turn.iteration
            BY <2>1, <4>4, Numbers DEF Turn
          <5>2. q = (MaxIterations - turn.iteration) * Round + Round - SpentAll(guards')
            BY <5>1 DEF RequestsLeft
          <5>3. /\ r = (MaxIterations - turn.iteration) * Round + Round + Round - SpentAll(guards)
                /\ (MaxIterations - turn.iteration) * Round \in Nat
            BY <2>1, <2>3, RequestsLeftKnown
          <5> HIDE DEF q, r
          <5> QED BY <4>1, <5>2, <5>3
        <4> QED BY <1>1, <2>7, <4>2, <4>3, <4>4, StepCases DEF Underway
      <3> HIDE DEF q, r
      <3> QED BY <2>4, <2>5, <3>1, <3>2, <3>3, Lower
    <2> QED BY <2>6, <2>7
  <1>2. TurnSafe /\ TurnSafe' => [TurnStep => StepsLeft' < StepsLeft]_turn_vars
    BY <1>1
  <1> QED
    BY <1>2, TurnAlwaysSafe, PTL DEF StepsRunDown

(* The steps left are a number, and not more than so many rounds of requests.  *)
StepsBounded == StepsLeft \in 0..((MaxIterations + 2) * Round + 1) * Pace

(* With TurnsRunDown: a turn that the user leaves alone is over, or asks, after *)
(* a number of steps that the limits give.                                    *)
THEOREM TurnsAreFinite == TurnSpec => []StepsBounded
  <1>1. TurnSafe => StepsBounded
    <2> SUFFICES ASSUME TurnSafe
                 PROVE  StepsBounded
      OBVIOUS
    <2> DEFINE r == RequestsLeft(turn, guards)
               b == (MaxIterations + 2) * Round
    <2>1. turn \in Turn /\ guards \in Guards
      BY DEF TurnSafe, TurnTypeOK
    <2>2. Pace \in Nat /\ b \in Nat
      BY Numbers, LimitsPositive, Rounds DEF Pace
    <2>3. /\ b * Pace \in Nat /\ (b + 1) * Pace = b * Pace + Pace
      BY <2>2, Rounds
    <2>4. CASE Underway(turn)
      <3>1. turn.iteration <= MaxIterations
        BY <2>4 DEF TurnSafe, IterationsKept, Underway
      <3>2. r \in Nat /\ r <= b /\ StageLeft(turn) \in 1..Pace - 1
        BY <2>1, <3>1, RequestsLeftKnown, StageBounded
      <3>3. StepsLeft = r * Pace + StageLeft(turn)
        BY <2>4 DEF StepsLeft
      <3> HIDE DEF r, b
      <3>4. r * Pace \in Nat /\ r * Pace <= b * Pace
        BY <2>2, <3>2, Rounds
      <3>5. StepsLeft \in 0..(b + 1) * Pace
        BY <2>2, <2>3, <3>2, <3>3, <3>4
      <3> QED BY <3>5 DEF StepsBounded, b
    <2>5. CASE ~Underway(turn)
      <3> HIDE DEF b
      <3>1. StepsLeft \in 0..(b + 1) * Pace
        BY <2>2, <2>3, <2>5 DEF StepsLeft
      <3> QED BY <3>1 DEF StepsBounded, b
    <2> QED BY <2>4, <2>5
  <1> QED
    BY <1>1, TurnAlwaysSafe, PTL

LEMMA QuestionsStep ==
    ASSUME TurnSafe, QuestionsWired, [TurnNext]_turn_vars
    PROVE  QuestionsWired'
  <1> USE DEF QuestionsWired
  <1>0. turn \in Turn /\ turn.iteration \in 0..MaxIterations + 1 /\ turn.tier \in Tier
    BY Accounts DEF TurnSafe, TurnTypeOK, Turn
  <1>1. CASE \/ UNCHANGED turn_vars \/ Steer \/ ResetDetectors \/ OtherTurn
    <2>1. turn' = turn /\ wired' = wired
      BY <1>1, Zenon DEF turn_vars, Steer, ResetDetectors, OtherTurn
    <2> QED BY <2>1
  <1>2. CASE StartTurn
    BY <1>2, NewTurnTyped DEF StartTurn
  <1>3. CASE StopAtTop \/ Reply \/ ResultsLost
    <2>1. turn' = [NewTurn EXCEPT !.phase = "idle"]
      BY <1>3, Zenon DEF StopAtTop, Reply, ResultsLost, End
    <2> QED BY <2>1, Idle
  <1>4. CASE Request \/ Continue \/ Decline
    <2>1. \/ \E p \in {"calling", "top", "tools"} :
                \E i \in {0, turn.iteration} : turn' = At(p, i)
          \/ turn' = [NewTurn EXCEPT !.phase = "idle"]
      BY <1>4, Zenon DEF Request, Continue, Decline, CallsGoOn, Again, End
    <2>2. {0, turn.iteration} \subseteq 0..MaxIterations + 1
      BY <1>0, Numbers
    <2>3. turn'.phase # "asking"
      BY <1>0, <2>1, <2>2, Moved, Idle DEF Phase
    <2> QED BY <2>3
  <1>5. CASE RetrySilently
    <2>1. turn.phase = "calling" /\ turn' = [turn EXCEPT !.failures = @ + 1]
      BY <1>5, Zenon DEF RetrySilently
    <2> QED BY <1>0, <2>1 DEF Turn
  <1>6. CASE RequestFails \/ Judge \/ \E t \in Tier : Degenerate(t)
    <2>1. /\ wired' = wired
          /\ \/ \E q \in {"retry", "stuck", "degenerate"} :
                   \E k \in Tier : q \in wired /\ turn' = Asking(q, k, turn.iteration)
             \/ turn' = At("top", turn.iteration)
             \/ turn' = [NewTurn EXCEPT !.phase = "idle"]
      BY <1>0, <1>6, Zenon DEF RequestFails, Judge, Judged, Degenerate, NthDegenerate, Ask, Again, End
    <2> QED BY <1>0, <2>1, Asked, Moved, Idle DEF Question, Phase
  <1>7. ASSUME NEW c \in Tool \cup {NoTool}, ToolCalls(c)
        PROVE  QuestionsWired'
    <2> DEFINE i == turn.iteration + 1
    <2>1. turn.phase = "calling" /\ turn.question = "none" /\ turn.iteration <= MaxIterations
      BY <1>7 DEF ToolCalls, Called, TurnSafe, IterationsKept
    <2>2. i \in 0..MaxIterations + 1
      BY <1>0, <2>1, Numbers
    <2>3. /\ wired' = wired
          /\ \/ turn' = At("tools", i)
             \/ \E q \in {"iterations", "identical"} : q \in wired /\ turn' = Asking(q, turn.tier, i)
             \/ turn' = [NewTurn EXCEPT !.phase = "idle"]
      BY <1>7, Zenon DEF ToolCalls, Called, End
    <2>4. At("tools", i).phase = "tools"
      BY <1>0, <2>2, Moved DEF Phase
    <2>5. \A q \in {"iterations", "identical"} : Asking(q, turn.tier, i).question = q
      BY <1>0, <2>2, Asked DEF Question
    <2> HIDE DEF i
    <2> QED BY <2>3, <2>4, <2>5, Idle
  <1>8. ASSUME NEW same \in BOOLEAN, NEW stop \in BOOLEAN, Returned(same, stop)
        PROVE  QuestionsWired'
    <2> DEFINE u == At("hooks", turn.iteration)
    <2>1. \E b : turn' = [u EXCEPT !.same = same, !.stop = b]
      BY <1>8, Zenon DEF Returned
    <2>2. u \in Turn /\ u.phase = "hooks"
      BY <1>0, Moved DEF Phase
    <2> HIDE DEF u
    <2>3. turn'.phase = "hooks"
      BY <2>1, <2>2 DEF Turn
    <2> QED BY <2>3
  <1> QED
    BY <1>1, <1>2, <1>3, <1>4, <1>5, <1>6, <1>7, <1>8 DEF TurnNext, TurnStep, Response

(* A guard asks the user only through a callback that the host wired, so that  *)
(* a turn never waits for an answer nobody can give (conversation-service.ts). *)
THEOREM QuestionsAnswerable == TurnSpec => []QuestionsWired
  <1>1. TurnInit => QuestionsWired
    BY Idle DEF TurnInit, QuestionsWired
  <1> QED
    BY <1>1, QuestionsStep, TurnAlwaysSafe, PTL DEF TurnSpec
=============================================================================
