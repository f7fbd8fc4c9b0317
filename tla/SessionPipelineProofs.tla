----------------------- MODULE SessionPipelineProofs -----------------------
(***************************************************************************)
(* Proofs about the coordinator's sessions and about the pipeline that     *)
(* feeds them, for any sessions, concurrent claims, calls, flushes and     *)
(* crashes.                                                                *)
(*                                                                         *)
(* First SwarmSessions by itself: its types, that a session is handed to   *)
(* one pipeline per end, that its page is never ahead of it, and that the  *)
(* coordinator's rows implement SessionClock.  Then the composition, which *)
(* keeps what was proved of its parts, because each of its steps is a step *)
(* of the outbox and a step of the sessions, or leaves them alone.         *)
(***************************************************************************)
EXTENDS SessionPipeline, OutboxProofs

Over == Stored \ Live

\* Where a claim can come from: the statuses before it leave none unspent.
Claimable == {"absent", "active", "stale", "ended"}

ClaimBudget ==
    \A s \in Session :
        claims[s] <= IF status[s] \in Claimable THEN ends[s] ELSE ends[s] + 1

\* Whatever a page has read, or shows, is not ahead of the row.
PagePast ==
    \A s \in Session : \A v \in fetched[s] \cup {page[s]} :
        v \in Over => status[s] \in Over

SessionsInv == SessionsTypeOK /\ ClaimBudget /\ PagePast

\* The effect of a step on the status of s and on what is counted about it.
Advances(s) ==
    \/ status'[s] = status[s] /\ claims'[s] = claims[s] /\ ends'[s] >= ends[s]
    \/ /\ status[s] \in {"absent", "active"} /\ status'[s] \in Live
       /\ claims'[s] = claims[s] /\ ends'[s] = ends[s]
    \/ /\ status[s] \in Stored \ {"ended"} /\ status'[s] = "ended"
       /\ claims'[s] = claims[s] /\ ends'[s] = ends[s] + 1
    \/ /\ status[s] \in Live \cup {"ended"} /\ status'[s] = "processing"
       /\ claims'[s] = claims[s] + 1 /\ ends'[s] = ends[s]
    \/ /\ status[s] \in Over \ {"ended"} /\ status'[s] \in Over \ {"ended"}
       /\ claims'[s] = claims[s] /\ ends'[s] = ends[s]

-----------------------------------------------------------------------------
LEMMA SessionsConstants ==
    /\ MaxTime \in Nat \ {0} /\ MaxEnds \in Nat /\ StaleAfter \in Nat
    /\ NoSession \notin Session
  BY NoSessionAssumption, SessionTimeAssumption, MaxEndsAssumption

LEMMA SessionsInitInv == SessionsInit => SessionsInv
  BY SessionsConstants
     DEF SessionsInit, SessionsInv, SessionsTypeOK, ClaimBudget, PagePast, Over,
         Stored, Live, Status, Claimable

\* The columns SetStatus writes keep their types.
LEMMA SetStatusTyped ==
    ASSUME SessionsTypeOK, NEW s \in Session, NEW to \in Stored, SetStatus(s, to)
    PROVE  /\ status' \in [Session -> Status]
           /\ updatedAt' \in [Session -> 0..MaxTime]
           /\ endedAt' \in [Session -> 0..MaxTime]
  BY SessionsConstants DEF SessionsTypeOK, SetStatus, Status

LEMMA SessionsStepTyped == SessionsTypeOK /\ [SessionsNext]_sessions_vars => SessionsTypeOK'
  <1> SUFFICES ASSUME SessionsTypeOK, [SessionsNext]_sessions_vars
               PROVE  SessionsTypeOK'
    OBVIOUS
  <1> USE SessionsConstants
      DEF SessionsTypeOK, row_vars, page_vars, tallies, Publish
  <1>1. CASE SessionsTick
    BY <1>1 DEF SessionsTick
  <1>2. CASE MarkStale
    BY <1>2 DEF MarkStale, Status, Stored, Live
  <1>3. ASSUME NEW s \in Session, Register(s) \/ PushEvents(s) \/ SetPersona(s)
        PROVE  SessionsTypeOK'
    BY <1>3 DEF Register, PushEvents, SetPersona, Status, Stored, Live
  <1>4. ASSUME NEW s \in Session, SyncEnd(s) \/ End(s)
        PROVE  SessionsTypeOK'
    <2>1. /\ status' \in [Session -> Status]
          /\ updatedAt' \in [Session -> 0..MaxTime]
          /\ endedAt' \in [Session -> 0..MaxTime]
      BY <1>4, SetStatusTyped DEF SyncEnd, End, Transition, Stored
    <2>2. ends' \in [Session -> 0..MaxEnds] /\ hooks' \in [Session -> 0..MaxEnds]
      BY <1>4 DEF SyncEnd, End, CountEnd
    <2>3. UNCHANGED <<now, claim, fetched, page, activeAt, claims>>
      BY <1>4 DEF SyncEnd, End
    <2>4. unread' \subseteq Session
      BY <1>4 DEF SyncEnd, End
    <2> QED BY <2>1, <2>2, <2>3, <2>4
  <1>5. ASSUME NEW s \in Session, NEW c \in Claim, Process(c, s)
        PROVE  SessionsTypeOK'
    <2>1. /\ status' \in [Session -> Status]
          /\ updatedAt' \in [Session -> 0..MaxTime]
          /\ endedAt' \in [Session -> 0..MaxTime]
      BY <1>5, SetStatusTyped DEF Process, Transition, Stored
    <2>2. claim' \in [Claim -> Session \cup {NoSession}] /\ claims' \in [Session -> Nat]
      BY <1>5 DEF Process
    <2>3. UNCHANGED <<now, hooks, unread, fetched, page, activeAt, ends>>
      BY <1>5 DEF Process
    <2> QED BY <2>1, <2>2, <2>3
  <1>6. ASSUME NEW c \in Claim, ProcessReply(c)
        PROVE  SessionsTypeOK'
    BY <1>6 DEF ProcessReply
  <1>7. ASSUME NEW s \in Session, Processed(s) \/ Archive(s) \/ Restore(s)
        PROVE  SessionsTypeOK'
    <2>1. /\ status' \in [Session -> Status]
          /\ updatedAt' \in [Session -> 0..MaxTime]
          /\ endedAt' \in [Session -> 0..MaxTime]
      BY <1>7, SetStatusTyped DEF Processed, Archive, Restore, Transition, Stored
    <2> QED BY <1>7, <2>1 DEF Processed, Archive, Restore
  <1>8. ASSUME NEW s \in Session, Fetch(s) \/ FetchFails(s) \/ Render(s)
        PROVE  SessionsTypeOK'
    BY <1>8 DEF Fetch, FetchFails, Render, Status
  <1>9. CASE UNCHANGED sessions_vars
    BY <1>9 DEF sessions_vars
  <1> QED BY <1>1, <1>2, <1>3, <1>4, <1>5, <1>6, <1>7, <1>8, <1>9 DEF SessionsNext

\* Every step advances every session the way the lifecycle allows.
LEMMA StepAdvances ==
    ASSUME SessionsTypeOK, [SessionsNext]_sessions_vars, NEW x \in Session
    PROVE  Advances(x)
  <1> USE DEF SessionsTypeOK, Advances, row_vars, page_vars, tallies, Over, Stored,
              Live, Status
  <1>1. CASE SessionsTick \/ UNCHANGED sessions_vars
    BY <1>1 DEF SessionsTick, sessions_vars
  <1>2. CASE MarkStale
    BY <1>2 DEF MarkStale, Expired
  <1>3. ASSUME NEW s \in Session, Register(s) \/ PushEvents(s) \/ SetPersona(s)
        PROVE  Advances(x)
    BY <1>3 DEF Register, PushEvents, SetPersona
  <1>4. ASSUME NEW s \in Session, SyncEnd(s) \/ End(s)
        PROVE  Advances(x)
    BY <1>4 DEF SyncEnd, End, Transition, SetStatus, CountEnd
  <1>5. ASSUME NEW s \in Session, NEW c \in Claim, Process(c, s)
        PROVE  Advances(x)
    BY <1>5 DEF Process, Transition, SetStatus
  <1>6. ASSUME NEW c \in Claim, ProcessReply(c)
        PROVE  Advances(x)
    BY <1>6 DEF ProcessReply
  <1>7. ASSUME NEW s \in Session, Processed(s) \/ Archive(s) \/ Restore(s)
        PROVE  Advances(x)
    BY <1>7 DEF Processed, Archive, Restore, Transition, SetStatus
  <1>8. ASSUME NEW s \in Session, Fetch(s) \/ FetchFails(s) \/ Render(s)
        PROVE  Advances(x)
    BY <1>8 DEF Fetch, FetchFails, Render
  <1> QED BY <1>1, <1>2, <1>3, <1>4, <1>5, <1>6, <1>7, <1>8 DEF SessionsNext

LEMMA StepClaimBudget ==
    SessionsInv /\ [SessionsNext]_sessions_vars => ClaimBudget'
  <1> SUFFICES ASSUME SessionsInv, [SessionsNext]_sessions_vars, NEW s \in Session
               PROVE  claims'[s] <= IF status'[s] \in Claimable THEN ends'[s]
                                    ELSE ends'[s] + 1
    BY DEF ClaimBudget
  <1>1. Advances(s)
    BY StepAdvances DEF SessionsInv
  <1>2. claims[s] <= IF status[s] \in Claimable THEN ends[s] ELSE ends[s] + 1
    BY DEF SessionsInv, ClaimBudget
  <1>3. /\ claims[s] \in Nat /\ ends[s] \in Nat
        /\ claims'[s] \in Nat /\ ends'[s] \in Nat
    BY SessionsStepTyped, SessionsConstants DEF SessionsInv, SessionsTypeOK
  <1> QED BY <1>1, <1>2, <1>3 DEF Advances, Claimable, Over, Stored, Live

\* A page only ever learns a status the row has.
LEMMA StepReads ==
    ASSUME SessionsTypeOK, [SessionsNext]_sessions_vars, NEW x \in Session
    PROVE  fetched'[x] \cup {page'[x]} \subseteq fetched[x] \cup {page[x], status[x]}
  <1> USE DEF SessionsTypeOK, page_vars
  <1>1. CASE UNCHANGED page_vars
    BY <1>1
  <1>2. ASSUME NEW s \in Session, Fetch(s) \/ FetchFails(s) \/ Render(s)
        PROVE  fetched'[x] \cup {page'[x]} \subseteq fetched[x] \cup {page[x], status[x]}
    BY <1>2 DEF Fetch, FetchFails, Render
  <1> QED BY <1>1, <1>2
         DEF SessionsNext, SessionsTick, MarkStale, Register, PushEvents, SetPersona,
             SyncEnd, End, Process, ProcessReply, Processed, Archive, Restore,
             sessions_vars

LEMMA StepPagePast ==
    SessionsInv /\ [SessionsNext]_sessions_vars => PagePast'
  <1> SUFFICES ASSUME SessionsInv, [SessionsNext]_sessions_vars, NEW s \in Session,
                      NEW v \in fetched'[s] \cup {page'[s]}, v \in Over
               PROVE  status'[s] \in Over
    BY DEF PagePast
  <1>1. v \in fetched[s] \cup {page[s], status[s]}
    BY StepReads DEF SessionsInv
  <1>2. status[s] \in Over
    BY <1>1 DEF SessionsInv, PagePast
  <1>3. Advances(s)
    BY StepAdvances DEF SessionsInv
  <1> QED BY <1>2, <1>3 DEF Advances, Over, Stored, Live

-----------------------------------------------------------------------------
LEMMA SessionsStepInv == SessionsInv /\ [SessionsNext]_sessions_vars => SessionsInv'
  BY SessionsStepTyped, StepClaimBudget, StepPagePast DEF SessionsInv

(* The strengthened invariant holds of every behaviour.                      *)
THEOREM SessionsInvariant == SessionsSpec => []SessionsInv
  BY SessionsInitInv, SessionsStepInv, PTL DEF SessionsSpec

(* The columns of swarm_sessions and what follows them keep their types.     *)
THEOREM SessionsTypeCorrect == SessionsSpec => []SessionsTypeOK
  <1>1. SessionsInv => SessionsTypeOK
    BY DEF SessionsInv
  <1> QED BY <1>1, SessionsInvariant, PTL

(* transitionSessionStatus hands a session to one pipeline per end, however  *)
(* many of them claim it at once.                                            *)
THEOREM ClaimedOncePerEnd == SessionsSpec => []OneClaimPerEnd
  <1>1. SessionsInv => OneClaimPerEnd
    <2> SUFFICES ASSUME SessionsInv, NEW s \in Session
                 PROVE  claims[s] <= ends[s] + 1
      BY DEF OneClaimPerEnd
    <2>1. claims[s] \in Nat /\ ends[s] \in Nat
      BY SessionsConstants DEF SessionsInv, SessionsTypeOK
    <2>2. claims[s] <= IF status[s] \in Claimable THEN ends[s] ELSE ends[s] + 1
      BY DEF SessionsInv, ClaimBudget
    <2> QED BY <2>1, <2>2
  <1> QED BY <1>1, SessionsInvariant, PTL

(* No order of lifecycle events and responses shows a live session as over.  *)
THEOREM PageNeverAhead == SessionsSpec => []PageNotAhead
  <1>1. SessionsInv => PageNotAhead
    BY DEF SessionsInv, PagePast, PageNotAhead, Over, SessionsTypeOK, Status
  <1> QED BY <1>1, SessionsInvariant, PTL

-----------------------------------------------------------------------------
\* A step that sets one session's status is a step of its clock, or none.
LEMMA SetStatusClock ==
    ASSUME SessionsTypeOK, NEW s \in Session, NEW to \in Over,
           status[s] # "absent", SetStatus(s, to), UNCHANGED now
    PROVE  Clock!Stop(s) \/ UNCHANGED Clock!vars
  <1> USE DEF SetStatus, SessionsTypeOK, ClockOf, Status, Stored, Live, Over
  <1>1. CASE status[s] \in Live
    <2>1. [x \in Session |-> ClockOf(x)]'
            = [[x \in Session |-> ClockOf(x)] EXCEPT ![s] = "stopped"]
      BY <1>1
    <2>2. ClockOf(s) = "running" /\ endedAt' = [endedAt EXCEPT ![s] = now]
      BY <1>1
    <2> QED BY <2>1, <2>2 DEF Clock!Stop
  <1>2. CASE status[s] \notin Live
    <2>1. [x \in Session |-> ClockOf(x)]' = [x \in Session |-> ClockOf(x)]
      BY <1>2
    <2> QED BY <1>2, <2>1 DEF Clock!vars
  <1> QED BY <1>1, <1>2

(* The routes, the sweep and every replay of them implement ADR 269's clock: *)
(* it starts once, stops once, at that moment, and keeps its stamp.          *)
THEOREM SessionsKeepClock == SessionsSpec => KeepsClock
  <1>1. SessionsInit => Clock!Init
    <2> SUFFICES ASSUME SessionsInit PROVE Clock!Init
      OBVIOUS
    <2>1. \A s \in Session : ClockOf(s) = "unset"
      BY DEF SessionsInit, ClockOf, Live
    <2> QED BY <2>1 DEF SessionsInit, Clock!Init
  <1>2. SessionsTypeOK /\ [SessionsNext]_sessions_vars => [Clock!Next]_(Clock!vars)
    <2> SUFFICES ASSUME SessionsTypeOK, [SessionsNext]_sessions_vars
                 PROVE  Clock!Next \/ UNCHANGED Clock!vars
      OBVIOUS
    <2> USE DEF row_vars, page_vars, tallies
    <2>1. CASE UNCHANGED <<now, status, endedAt>>
      BY <2>1 DEF Clock!vars, ClockOf
    <2>2. CASE SessionsTick
      BY <2>2 DEF SessionsTick, Clock!Next, Clock!Tick, ClockOf
    <2>3. CASE MarkStale
      <3>1. [x \in Session |-> ClockOf(x)]' = [x \in Session |-> ClockOf(x)]
        BY <2>3 DEF MarkStale, Expired, ClockOf, Live, SessionsTypeOK
      <3> QED BY <2>3, <3>1 DEF MarkStale, Clock!vars
    <2>4. ASSUME NEW s \in Session, Register(s)
          PROVE  Clock!Next \/ UNCHANGED Clock!vars
      <3>1. CASE status[s] = "absent"
        <4>1. [x \in Session |-> ClockOf(x)]'
                = [[x \in Session |-> ClockOf(x)] EXCEPT ![s] = "running"]
          BY <2>4, <3>1 DEF Register, ClockOf, Live, SessionsTypeOK
        <4>2. ClockOf(s) = "unset"
          BY <3>1 DEF ClockOf, Live
        <4>3. Clock!Start(s)
          BY <2>4, <4>1, <4>2 DEF Register, Clock!Start
        <4> QED BY <4>3 DEF Clock!Next
      <3>2. CASE status[s] # "absent"
        BY <2>1, <2>4, <3>2 DEF Register
      <3> QED BY <3>1, <3>2
    <2>5. ASSUME NEW s \in Session, NEW to \in Over, status[s] # "absent",
                 SetStatus(s, to), UNCHANGED now
          PROVE  Clock!Next \/ UNCHANGED Clock!vars
      BY <2>5, SetStatusClock DEF Clock!Next
    <2>6. ASSUME NEW s \in Session, SyncEnd(s) \/ End(s) \/ Processed(s)
                                      \/ Archive(s) \/ Restore(s)
          PROVE  Clock!Next \/ UNCHANGED Clock!vars
      BY <2>5, <2>6 DEF SyncEnd, End, Processed, Archive, Restore, Transition, Over,
                        Stored, Live
    <2>7. ASSUME NEW s \in Session, NEW c \in Claim, Process(c, s)
          PROVE  Clock!Next \/ UNCHANGED Clock!vars
      BY <2>5, <2>7 DEF Process, Transition, Over, Stored, Live
    <2> QED BY <2>1, <2>2, <2>3, <2>4, <2>6, <2>7
           DEF SessionsNext, PushEvents, SetPersona, ProcessReply, Fetch, FetchFails,
               Render, sessions_vars
  <1> QED BY <1>1, <1>2, SessionsTypeCorrect, PTL DEF SessionsSpec, KeepsClock, Clock!Spec

-----------------------------------------------------------------------------
(***************************************************************************)
(* SessionPipeline.                                                        *)
(***************************************************************************)

\* The rows that were made carry calls.
RowsKnown ==
    /\ row \in [Entry -> [kind : Kind, session : Session] \cup {NoRow}]
    /\ \A e \in 1..made : row[e] \in [kind : Kind, session : Session]

HistoryKnown ==
    /\ late \subseteq 1..made
    /\ applied \subseteq 1..made
    /\ repeats \subseteq 1..made

\* A good answer means that the call was carried out, unless it is a 404,
\* which a push is never given.
AnswersTrue ==
    \A f \in Flusher :
        /\ call[f].answer = "accepted" => call[f].entry \in applied
        /\ call[f].answer = "missing" => ~Carries(call[f].entry, "events")

EndsOver ==
    \A e \in applied : Carries(e, "end") => status[row[e].session] \in Over

PipelineInv ==
    /\ OutboxInv
    /\ SessionsInv
    /\ RowsKnown
    /\ HistoryKnown
    /\ AnswersTrue
    /\ EventsReachCoordinator
    /\ EndsOver

-----------------------------------------------------------------------------
\* Every step is a step of the outbox ...
LEMMA StepIsOutboxStep == [PipelineNext]_pipeline_vars => [Next]_vars
  <1> SUFFICES ASSUME [PipelineNext]_pipeline_vars PROVE [Next]_vars
    OBVIOUS
  <1>1. ASSUME NEW s \in Session, NEW kind \in Kind, AgentCall(s, kind)
        PROVE  Next
    BY <1>1 DEF AgentCall, Next
  <1>2. ASSUME NEW f \in Flusher, FlusherStep(f)
        PROVE  Next
    <2>1. ASSUME NEW a \in Answer, Handle(f, a) PROVE Next
      BY <2>1 DEF Next, FlushStep
    <2>2. CASE Answered(f)
      <3>1. Handle(f, "accepted") \/ Handle(f, "missing") \/ Handle(f, "refused")
        BY <2>2 DEF Answered, AnswerUnknown
      <3> QED BY <3>1, <2>1 DEF Answer
    <2>3. CASE Refused(f)
      BY <2>3, <2>1 DEF Refused, Answer
    <2>4. CASE BeaconStep({f}, Failed(f))
      BY <2>4 DEF BeaconStep, Next, FlushStep
    <2>5. CASE BeaconStep({}, StartFlush(f) \/ DropExhausted(f) \/ Send(f) \/ Delivered(f))
      BY <2>5 DEF BeaconStep, Next, FlushStep
    <2> QED BY <1>2, <2>2, <2>3, <2>4, <2>5 DEF FlusherStep
  <1>3. CASE BeaconStep(Flusher, Crash)
    BY <1>3 DEF BeaconStep, Next
  <1>4. ASSUME NEW e \in Entry, HandledLate(e)
        PROVE  UNCHANGED vars
    BY <1>4 DEF HandledLate
  <1>5. CASE OthersStep
    BY <1>5 DEF OthersStep
  <1>6. CASE UNCHANGED pipeline_vars
    BY <1>6 DEF pipeline_vars
  <1> QED BY <1>1, <1>2, <1>3, <1>4, <1>5, <1>6 DEF PipelineNext

\* ... and a step of the coordinator's sessions.
LEMMA CarriedOut ==
    ASSUME RowsKnown, NEW e \in 1..made, Applied(e)
    PROVE  /\ row[e].session \in Session
           /\ \/ Register(row[e].session)
              \/ PushEvents(row[e].session)
              \/ SetPersona(row[e].session)
              \/ SyncEnd(row[e].session)
           /\ Carries(e, "end") => SyncEnd(row[e].session)
           /\ applied' = applied \cup {e}
           /\ repeats' \subseteq repeats \cup {e}
  <1>1. row[e].session \in Session /\ row[e].kind \in {"register", "events", "persona", "end"}
    BY DEF RowsKnown, Kind
  <1>2. CarryOut(e) /\ applied' = applied \cup {e} /\ repeats' \subseteq repeats \cup {e}
    BY DEF Applied
  <1>3. CASE row[e].kind = "register"
    BY <1>1, <1>2, <1>3 DEF CarryOut, Carries
  <1>4. CASE row[e].kind = "events"
    BY <1>1, <1>2, <1>4 DEF CarryOut, Carries
  <1>5. CASE row[e].kind = "persona"
    BY <1>1, <1>2, <1>5 DEF CarryOut, Carries
  <1>6. CASE row[e].kind = "end"
    BY <1>1, <1>2, <1>6 DEF CarryOut, Carries
  <1> QED BY <1>1, <1>3, <1>4, <1>5, <1>6

LEMMA CarriedOutIsSessionsStep ==
    ASSUME RowsKnown, NEW e \in 1..made, Applied(e)
    PROVE  SessionsNext
  BY CarriedOut DEF SessionsNext

LEMMA StepIsSessionsStep ==
    ASSUME PipelineInv, [PipelineNext]_pipeline_vars
    PROVE  [SessionsNext]_sessions_vars
  <1> USE DEF PipelineInv
  <1>1. ASSUME NEW s \in Session, NEW kind \in Kind, AgentCall(s, kind)
        PROVE  UNCHANGED sessions_vars
    BY <1>1 DEF AgentCall
  <1>2. ASSUME NEW f \in Flusher, FlusherStep(f)
        PROVE  [SessionsNext]_sessions_vars
    <2>1. CASE Answered(f)
      <3>1. call[f].entry \in 1..made
        BY <2>1 DEF Answered, OutboxInv, CallsKnown
      <3> QED BY <2>1, <3>1, CarriedOutIsSessionsStep DEF Answered
    <2> QED BY <1>2, <2>1 DEF FlusherStep, Refused, BeaconStep
  <1>3. CASE BeaconStep(Flusher, Crash)
    BY <1>3 DEF BeaconStep
  <1>4. ASSUME NEW e \in Entry, HandledLate(e)
        PROVE  SessionsNext
    <2>1. e \in 1..made /\ Applied(e)
      BY <1>4 DEF HandledLate, HistoryKnown
    <2> QED BY <2>1, CarriedOutIsSessionsStep
  <1>5. CASE OthersStep
    BY <1>5 DEF OthersStep, SessionsNext
  <1>6. CASE UNCHANGED pipeline_vars
    BY <1>6 DEF pipeline_vars
  <1> QED BY <1>1, <1>2, <1>3, <1>4, <1>5, <1>6 DEF PipelineNext

-----------------------------------------------------------------------------
\* What a step of the outbox does to the rows: it leaves those out of the
\* table alone, and takes one out only if it was answered or ran out of
\* attempts.
LEMMA OutboxEffect ==
    ASSUME OutboxInv, [Next]_vars
    PROVE  /\ made' \in Nat /\ made <= made'
           /\ \A e \in Entry : attempts[e] \in Nat /\ attempts'[e] \in Nat
                               /\ attempts[e] <= attempts'[e]
           /\ \A e \in 1..made' : e \notin table' =>
                 /\ e \in 1..made
                 /\ \/ e \notin table
                    \/ attempts[e] >= MaxAttempts
                    \/ \E f \in Flusher : /\ call[f].entry = e
                                          /\ call[f].answer \in {"accepted", "missing"}
  <1> USE ConstantsTyped DEF OutboxInv, TypeOK, Entry, table_vars
  <1>1. CASE Enqueue
    BY <1>1 DEF Enqueue
  <1>2. ASSUME NEW f \in Flusher, StartFlush(f) \/ Send(f)
        PROVE  UNCHANGED <<made, table, attempts>>
    BY <1>2 DEF StartFlush, Send
  <1>3. ASSUME NEW f \in Flusher, DropExhausted(f)
        PROVE  /\ UNCHANGED <<made, attempts>>
               /\ \E x \in 1..made : table' = table \ {x} /\ attempts[x] >= MaxAttempts
    <2>1. PICK s \in batch[f] : TakeOldest(f, s) /\ Exhausted(s) /\ table' = table \ {s.id}
      BY <1>3 DEF DropExhausted
    <2>2. s.id \in 1..made /\ attempts[s.id] >= MaxAttempts
      BY <2>1 DEF SnapshotsKnown, Exhausted, Snapshot
    <2> QED BY <1>3, <2>1, <2>2 DEF DropExhausted
  <1>4. ASSUME NEW f \in Flusher, Delivered(f)
        PROVE  /\ UNCHANGED <<made, attempts>>
               /\ table' = table \ {call[f].entry}
               /\ call[f].answer \in {"accepted", "missing"}
    BY <1>4 DEF Delivered
  <1>5. ASSUME NEW f \in Flusher, Failed(f)
        PROVE  /\ UNCHANGED <<made, table>>
               /\ \A e \in Entry : attempts'[e] \in Nat /\ attempts[e] <= attempts'[e]
    <2>1. call[f].entry \in Entry /\ MarkFailed(call[f].entry)
      BY <1>5 DEF Failed, NoEntry
    <2> QED BY <1>5, <2>1, MarkFailedGrows DEF Failed
  <1>6. ASSUME NEW f \in Flusher, NEW a \in Answer, Handle(f, a)
        PROVE  UNCHANGED <<made, table, attempts>>
    BY <1>6 DEF Handle
  <1>7. CASE Tick \/ Crash \/ UNCHANGED vars
    BY <1>7 DEF Tick, Crash, vars
  <1> QED BY <1>1, <1>2, <1>3, <1>4, <1>5, <1>6, <1>7 DEF Next, FlushStep

\* Rows, once made, keep their call; what was carried out stays so, and what
\* is newly carried out was applied by this step.
Remembers ==
    /\ RowsKnown'
    /\ HistoryKnown'
    /\ \A e \in 1..made : row'[e] = row[e]
    /\ \A e \in applied : e \in applied'
    /\ \A e \in applied' : e \in applied \/ (e \in 1..made /\ Applied(e))

LEMMA HistoryGrows ==
    ASSUME PipelineInv, [PipelineNext]_pipeline_vars
    PROVE  Remembers
  <1> USE ConstantsTyped DEF PipelineInv, OutboxInv, TypeOK, Entry
  <1>1. ASSUME NEW s \in Session, NEW kind \in Kind, AgentCall(s, kind)
        PROVE  Remembers
    <2>1. made' = made + 1 /\ made + 1 \in Entry
      BY <1>1 DEF AgentCall, Enqueue
    <2> QED BY <1>1, <2>1 DEF AgentCall, RowsKnown, HistoryKnown, Remembers
  <1>2. ASSUME UNCHANGED <<made, row, applied, repeats>>, late' \subseteq 1..made
        PROVE  Remembers
    BY <1>2 DEF RowsKnown, HistoryKnown, Remembers
  <1>3. ASSUME NEW e \in 1..made, Applied(e),
               UNCHANGED <<made, row>>, late' \subseteq 1..made
        PROVE  Remembers
    <2>1. applied' = applied \cup {e} /\ repeats' \subseteq repeats \cup {e}
      BY <1>3, CarriedOut
    <2> QED BY <1>3, <2>1 DEF RowsKnown, HistoryKnown, Remembers
  <1>4. \A F \in SUBSET Flusher : UnderWay(F) \subseteq 1..made
    BY DEF UnderWay, CallsKnown
  <1>5. ASSUME NEW f \in Flusher, FlusherStep(f)
        PROVE  Remembers
    <2>1. CASE Answered(f)
      <3>1. call[f].entry \in 1..made
        BY <2>1 DEF Answered, CallsKnown
      <3>2. UNCHANGED <<made, row, late>>
        BY <2>1 DEF Answered, Handle, table_vars
      <3>3. late' \subseteq 1..made
        BY <3>2 DEF HistoryKnown
      <3>4. Applied(call[f].entry) \/ UNCHANGED <<applied, repeats>>
        BY <2>1 DEF Answered
      <3> QED BY <1>2, <1>3, <3>1, <3>2, <3>3, <3>4
    <2>2. CASE Refused(f)
      BY <1>2, <2>2 DEF Refused, Handle, table_vars, HistoryKnown
    <2>3. CASE BeaconStep({f}, Failed(f))
      <3>1. UnderWay({f}) \subseteq 1..made
        BY <1>4
      <3> QED BY <1>2, <2>3, <3>1 DEF BeaconStep, Failed, HistoryKnown
    <2>4. CASE BeaconStep({}, StartFlush(f) \/ DropExhausted(f) \/ Send(f) \/ Delivered(f))
      <3>1. UnderWay({}) \subseteq 1..made
        BY <1>4
      <3>2. UNCHANGED made
        BY <2>4 DEF BeaconStep, StartFlush, DropExhausted, Send, Delivered, table_vars
      <3> QED BY <1>2, <2>4, <3>1, <3>2 DEF BeaconStep, HistoryKnown
    <2> QED BY <1>5, <2>1, <2>2, <2>3, <2>4 DEF FlusherStep
  <1>6. CASE BeaconStep(Flusher, Crash)
    <2>1. UnderWay(Flusher) \subseteq 1..made
      BY <1>4
    <2> QED BY <1>2, <1>6, <2>1 DEF BeaconStep, Crash, table_vars, HistoryKnown
  <1>7. ASSUME NEW e \in Entry, HandledLate(e)
        PROVE  Remembers
    <2>1. e \in 1..made /\ Applied(e)
      BY <1>7 DEF HandledLate, HistoryKnown
    <2> QED BY <1>3, <1>7, <2>1 DEF HandledLate, vars, HistoryKnown
  <1>8. CASE OthersStep \/ UNCHANGED pipeline_vars
    BY <1>2, <1>8 DEF OthersStep, pipeline_vars, vars, HistoryKnown
  <1> QED BY <1>1, <1>5, <1>6, <1>7, <1>8 DEF PipelineNext

-----------------------------------------------------------------------------
LEMMA EventsKept ==
    ASSUME PipelineInv, [PipelineNext]_pipeline_vars
    PROVE  EventsReachCoordinator'
  <1> USE DEF PipelineInv
  <1> SUFFICES ASSUME NEW e \in 1..made', e \notin table', row'[e].kind = "events"
               PROVE  e \in applied' \/ attempts'[e] >= MaxAttempts
    BY DEF EventsReachCoordinator, Gone, Carries, GivenUp
  <1>1. /\ e \in 1..made
        /\ \/ e \notin table
           \/ attempts[e] >= MaxAttempts
           \/ \E f \in Flusher : /\ call[f].entry = e
                                 /\ call[f].answer \in {"accepted", "missing"}
    BY StepIsOutboxStep, OutboxEffect
  <1>2. e \in Entry /\ MaxAttempts \in Nat
    BY <1>1, ConstantsTyped DEF OutboxInv, TypeOK, Entry
  <1>3. attempts[e] \in Nat /\ attempts'[e] \in Nat /\ attempts[e] <= attempts'[e]
    BY <1>2, StepIsOutboxStep, OutboxEffect
  <1>4. row[e].kind = "events" /\ (e \in applied => e \in applied')
    BY <1>1, HistoryGrows DEF Remembers
  <1>5. CASE e \notin table
    <2>1. e \in applied \/ attempts[e] >= MaxAttempts
      BY <1>1, <1>4, <1>5 DEF EventsReachCoordinator, Gone, Carries, GivenUp
    <2> QED BY <1>2, <1>3, <1>4, <2>1
  <1>6. CASE attempts[e] >= MaxAttempts
    BY <1>2, <1>3, <1>6
  <1>7. ASSUME NEW f \in Flusher, call[f].entry = e,
               call[f].answer \in {"accepted", "missing"}
        PROVE  e \in applied
    BY <1>4, <1>7 DEF AnswersTrue, Carries
  <1> QED BY <1>1, <1>4, <1>5, <1>6, <1>7

\* The coordinator never makes a session live that was over.
LEMMA OverStays ==
    ASSUME SessionsTypeOK, [SessionsNext]_sessions_vars, NEW s \in Session,
           status[s] \in Over
    PROVE  status'[s] \in Over
  BY StepAdvances DEF Advances, Over, Stored, Live

LEMMA EndsKept ==
    ASSUME PipelineInv, [PipelineNext]_pipeline_vars
    PROVE  EndsOver'
  <1> USE DEF PipelineInv
  <1> SUFFICES ASSUME NEW e \in applied', row'[e].kind = "end"
               PROVE  status'[row'[e].session] \in Over
    BY DEF EndsOver, Carries
  <1>1. e \in applied \/ (e \in 1..made /\ Applied(e))
    BY HistoryGrows DEF Remembers
  <1>2. e \in 1..made /\ row'[e] = row[e]
    BY <1>1, HistoryGrows DEF Remembers, HistoryKnown
  <1>3. row[e].session \in Session
    BY <1>2 DEF RowsKnown
  <1>4. CASE e \in applied
    <2>1. status[row[e].session] \in Over
      BY <1>2, <1>4 DEF EndsOver, Carries
    <2> QED BY <1>2, <1>3, <2>1, OverStays, StepIsSessionsStep DEF SessionsInv
  <1>5. CASE e \in 1..made /\ Applied(e)
    <2>1. SyncEnd(row[e].session)
      BY <1>2, <1>5, CarriedOut DEF Carries
    <2> QED BY <1>2, <1>3, <2>1 DEF SyncEnd, SetStatus, SessionsInv, SessionsTypeOK,
                                  Over, Stored, Live
  <1> QED BY <1>1, <1>4, <1>5

\* A step other than an answer gives no flush a new one.
LEMMA NoNewAnswer ==
    ASSUME TypeOK,
           \/ Enqueue \/ Crash \/ UNCHANGED call
           \/ \E f \in Flusher : StartFlush(f) \/ DropExhausted(f) \/ Send(f)
                                    \/ Delivered(f) \/ Failed(f),
           NEW g \in Flusher, call'[g].answer # "none"
    PROVE  call'[g] = call[g]
  BY DEF TypeOK, Enqueue, Crash, StartFlush, DropExhausted, Send, Delivered, Failed, Idle

LEMMA AnswersKept ==
    ASSUME PipelineInv, [PipelineNext]_pipeline_vars
    PROVE  AnswersTrue'
  <1> USE DEF PipelineInv
  <1>1. /\ \A e \in 1..made : row'[e] = row[e]
        /\ \A e \in applied : e \in applied'
    BY HistoryGrows DEF Remembers
  <1>2. ASSUME \A g \in Flusher : call'[g].answer # "none" => call'[g] = call[g]
        PROVE  AnswersTrue'
    BY <1>1, <1>2 DEF AnswersTrue, OutboxInv, CallsKnown, Carries
  <1>3. ASSUME NEW f \in Flusher, NEW a \in Answer, Handle(f, a),
               a = "accepted" => call[f].entry \in applied',
               a = "missing" => ~Carries(call[f].entry, "events")
        PROVE  AnswersTrue'
    <2>1. call[f].entry \in 1..made
      BY <1>3 DEF Handle, OutboxInv, CallsKnown
    <2>2. \A g \in Flusher : IF g = f THEN call'[g].entry = call[f].entry
                                            /\ call'[g].answer = a
                             ELSE call'[g] = call[g]
      BY <1>3 DEF Handle, OutboxInv, TypeOK
    <2> QED BY <1>1, <1>3, <2>1, <2>2 DEF AnswersTrue, OutboxInv, CallsKnown, Carries, Answer
  <1>4. ASSUME NEW s \in Session, NEW kind \in Kind, AgentCall(s, kind)
        PROVE  AnswersTrue'
    BY <1>2, <1>4, NoNewAnswer DEF AgentCall, OutboxInv
  <1>5. ASSUME NEW f \in Flusher, FlusherStep(f)
        PROVE  AnswersTrue'
    <2>1. CASE Answered(f) /\ Applied(call[f].entry) /\ Handle(f, "accepted")
      <3>1. call[f].entry \in applied'
        BY <2>1 DEF Applied
      <3> QED BY <1>3, <2>1, <3>1 DEF Answer
    <2>2. CASE Answered(f) /\ Handle(f, AnswerUnknown(call[f].entry))
      <3>1. AnswerUnknown(call[f].entry) \in Answer \ {"accepted"}
        BY DEF AnswerUnknown, Answer
      <3>2. AnswerUnknown(call[f].entry) = "missing" => ~Carries(call[f].entry, "events")
        BY DEF AnswerUnknown
      <3> QED BY <1>3, <2>2, <3>1, <3>2
    <2>3. CASE Refused(f)
      BY <1>3, <2>3 DEF Refused, Answer
    <2>4. CASE BeaconStep({f}, Failed(f))
      BY <1>2, <2>4, NoNewAnswer DEF BeaconStep, OutboxInv
    <2>5. CASE BeaconStep({}, StartFlush(f) \/ DropExhausted(f) \/ Send(f) \/ Delivered(f))
      BY <1>2, <2>5, NoNewAnswer DEF BeaconStep, OutboxInv
    <2> QED BY <1>5, <2>1, <2>2, <2>3, <2>4, <2>5 DEF FlusherStep, Answered
  <1>6. CASE BeaconStep(Flusher, Crash)
    BY <1>2, <1>6, NoNewAnswer DEF BeaconStep, OutboxInv
  <1>7. ASSUME NEW e \in Entry, HandledLate(e)
        PROVE  AnswersTrue'
    BY <1>2, <1>7 DEF HandledLate, vars
  <1>8. CASE OthersStep \/ UNCHANGED pipeline_vars
    BY <1>2, <1>8 DEF OthersStep, pipeline_vars, vars
  <1> QED BY <1>4, <1>5, <1>6, <1>7, <1>8 DEF PipelineNext

-----------------------------------------------------------------------------
LEMMA PipelineInitInv == PipelineInit => PipelineInv
  <1> SUFFICES ASSUME PipelineInit PROVE PipelineInv
    OBVIOUS
  <1>1. OutboxInv /\ SessionsInv
    BY InitInv, SessionsInitInv DEF PipelineInit
  <1>2. RowsKnown /\ HistoryKnown /\ AnswersTrue /\ EventsReachCoordinator /\ EndsOver
    BY ConstantsTyped
       DEF PipelineInit, Init, Idle, RowsKnown, HistoryKnown, AnswersTrue,
           EventsReachCoordinator, EndsOver, Gone
  <1> QED BY <1>1, <1>2 DEF PipelineInv

LEMMA PipelineStepInv == PipelineInv /\ [PipelineNext]_pipeline_vars => PipelineInv'
  <1> SUFFICES ASSUME PipelineInv, [PipelineNext]_pipeline_vars PROVE PipelineInv'
    OBVIOUS
  <1>1. OutboxInv'
    BY StepIsOutboxStep, StepInv DEF PipelineInv
  <1>2. SessionsInv'
    BY StepIsSessionsStep, SessionsStepInv DEF PipelineInv
  <1>3. RowsKnown' /\ HistoryKnown'
    BY HistoryGrows DEF Remembers
  <1> QED BY <1>1, <1>2, <1>3, AnswersKept, EventsKept, EndsKept DEF PipelineInv

(* The strengthened invariant holds of every behaviour.                      *)
THEOREM PipelineInvariant == PipelineSpec => []PipelineInv
  BY PipelineInitInv, PipelineStepInv, PTL DEF PipelineSpec

(* The composition keeps the types of its parts, and its rows name sessions. *)
THEOREM PipelineTypeCorrect == PipelineSpec => []PipelineTypeOK
  <1>1. PipelineInv => PipelineTypeOK
    BY DEF PipelineInv, PipelineTypeOK, OutboxInv, SessionsInv, RowsKnown, HistoryKnown
  <1> QED BY <1>1, PipelineInvariant, PTL

(* Events a session pushed are stored by the coordinator, still queued, or   *)
(* were tried maxAttempts times, however deliveries overlap, fail and crash. *)
THEOREM EventsNotLost == PipelineSpec => []EventsReachCoordinator
  <1>1. PipelineInv => EventsReachCoordinator
    BY DEF PipelineInv
  <1> QED BY <1>1, PipelineInvariant, PTL

(* Once a session's end was carried out, no late or replayed call about it   *)
(* makes it live again.                                                      *)
THEOREM EndsHold == PipelineSpec => []EndHolds
  <1>1. PipelineInv => EndHolds
    BY DEF PipelineInv, EndsOver, EndHolds, Over
  <1> QED BY <1>1, PipelineInvariant, PTL

(* To the coordinator's sessions the pipeline is one more caller: the clock  *)
(* of ADR 269 is kept under retries, replays and crashes of the beacon.      *)
THEOREM PipelineImplementsSessions == PipelineSpec => SessionsSpec
  <1>1. PipelineInit => SessionsInit
    BY DEF PipelineInit
  <1>2. PipelineInv /\ [PipelineNext]_pipeline_vars => [SessionsNext]_sessions_vars
    BY StepIsSessionsStep
  <1> QED BY <1>1, <1>2, PipelineInvariant, PTL DEF PipelineSpec, SessionsSpec

(* To the outbox the calls are rows like any other: no call is lost silently.*)
THEOREM PipelineImplementsOutbox == PipelineSpec => Spec
  <1>1. PipelineInit => Init
    BY DEF PipelineInit
  <1> QED BY <1>1, StepIsOutboxStep, PTL DEF PipelineSpec, Spec

(* So both promises hold end to end: calls are kept until they were answered  *)
(* or tried often enough and then forgotten for good (ADR 151), and sessions  *)
(* keep their clock (ADR 269).                                                *)
THEOREM PipelineKeepsPromises == PipelineSpec => KeepsQueue /\ KeepsClock
  BY PipelineImplementsOutbox, OutboxKeepsQueue, PipelineImplementsSessions, SessionsKeepClock
=============================================================================
