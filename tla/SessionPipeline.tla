-------------------------- MODULE SessionPipeline --------------------------
(***************************************************************************)
(* The road of a swarm session from the agent to the coordinator: the      *)
(* agent registers the session, pushes events and ends it on the beacon,   *)
(* which answers at once and queues each call in its outbox (module        *)
(* Outbox); the flushes deliver the rows in whatever order backoff leaves  *)
(* them, and the coordinator answers each from the session's row (module   *)
(* SwarmSessions), while pipelines and the UI move that row too.           *)
(*                                                                         *)
(* Sources: drone-beacon/src/routes/sync.ts, coordinator-client.ts and     *)
(* outbox-flusher.ts; drone-coordinator/src/routes/swarm.ts.               *)
(***************************************************************************)
EXTENDS Outbox, SwarmSessions

VARIABLES
    row,        \* entry -> the call the row carries
    late,       \* entries with a request the beacon has given up on and the
                \* coordinator may still handle
    applied,    \* history: entries a handler has carried out
    repeats     \* history: calls carried out a second time

pipeline_vars == <<vars, sessions_vars, row, late, applied, repeats>>

Kind == {"register", "events", "persona", "end"}
NoRow == [kind |-> "none", session |-> NoSession]

PipelineTypeOK ==
    /\ TypeOK
    /\ SessionsTypeOK
    /\ row \in [Entry -> [kind : Kind, session : Session] \cup {NoRow}]
    /\ late \subseteq 1..made
    /\ applied \subseteq 1..made
    /\ repeats \subseteq 1..made

PipelineInit ==
    /\ Init
    /\ SessionsInit
    /\ row = [e \in Entry |-> NoRow]
    /\ late = {}
    /\ applied = {}
    /\ repeats = {}

Rows(s) == {e \in 1..made : row[e].session = s}
Carries(e, kind) == row[e].kind = kind

-----------------------------------------------------------------------------
\* The beacon's routes for the agent, which registers a session before it
\* says anything else of it and ends it last; the registration may never have
\* reached the beacon.
AgentMay(s, kind) ==
    /\ \A e \in Rows(s) : ~Carries(e, "end")
    /\ kind = "register" => Rows(s) = {}

AgentCall(s, kind) ==
    /\ AgentMay(s, kind)
    /\ Enqueue
    /\ row' = [row EXCEPT ![made + 1] = [kind |-> kind, session |-> s]]
    /\ UNCHANGED <<sessions_vars, late, applied, repeats>>

\* What the coordinator does with a row's request when it is up, and its
\* answer: a push to a session without a row breaks the foreign key of
\* swarm_events (500), the other routes look the session up (404).
CarryOut(e) ==
    LET s == row[e].session IN
    CASE Carries(e, "register") -> Register(s)
      [] Carries(e, "events")   -> PushEvents(s)
      [] Carries(e, "persona")  -> SetPersona(s)
      [] Carries(e, "end")      -> SyncEnd(s)

\* Mutant of AnswerUnknown: a push to an unknown session is answered 404.
AnswerMissing(e) == "missing"

Known(e) == Carries(e, "register") \/ status[row[e].session] # "absent"
AnswerUnknown(e) == IF Carries(e, "events") THEN "refused" ELSE "missing"

Applied(e) ==
    /\ Known(e)
    /\ CarryOut(e)
    /\ applied' = applied \cup {e}
    /\ repeats' = IF e \in applied THEN repeats \cup {e} ELSE repeats

\* A request reaches its handler ...
Answered(f) ==
    LET e == call[f].entry IN
    /\ e # NoEntry
    /\ \/ Applied(e) /\ Handle(f, "accepted")
       \/ /\ ~Known(e)
          /\ Handle(f, AnswerUnknown(e))
          /\ UNCHANGED <<sessions_vars, applied, repeats>>
    /\ UNCHANGED <<row, late>>

\* ... or is refused before it (rate limit, pending approval, any error).
Refused(f) ==
    /\ Handle(f, "refused")
    /\ UNCHANGED <<sessions_vars, row, late, applied, repeats>>

\* The beacon gives up on a request (fetch throws) or dies: a request that is
\* still under way is lost, or handled some time later.
UnderWay(F) == {call[f].entry : f \in {g \in F : call[g].answer = "none"}} \ {NoEntry}

BeaconStep(F, Step) ==
    /\ Step
    /\ \E L \in SUBSET UnderWay(F) : late' = late \cup L
    /\ UNCHANGED <<sessions_vars, row, applied, repeats>>

HandledLate(e) ==
    /\ e \in late
    /\ Applied(e)
    /\ late' = late \ {e}
    /\ UNCHANGED <<vars, row>>

FlusherStep(f) ==
    \/ Answered(f)
    \/ Refused(f)
    \/ BeaconStep({f}, Failed(f))
    \/ BeaconStep({}, StartFlush(f) \/ DropExhausted(f) \/ Send(f) \/ Delivered(f))

\* The coordinator's other clients: the pipeline that processes the session
\* and the UI.
OthersStep ==
    /\ \/ \E s \in Session : \E c \in Claim : Process(c, s)
       \/ \E c \in Claim : ProcessReply(c)
       \/ \E s \in Session : Processed(s) \/ Archive(s) \/ Restore(s) \/ End(s)
    /\ UNCHANGED <<vars, row, late, applied, repeats>>

PipelineNext ==
    \/ \E s \in Session, kind \in Kind : AgentCall(s, kind)
    \/ \E f \in Flusher : FlusherStep(f)
    \/ BeaconStep(Flusher, Crash)
    \/ \E e \in Entry : HandledLate(e)
    \/ OthersStep

PipelineSpec == PipelineInit /\ [][PipelineNext]_pipeline_vars

-----------------------------------------------------------------------------
GivenUp(e) == attempts[e] >= MaxAttempts
Gone(e) == e \in 1..made \ table

(* The events a session pushed are in swarm_events, still queued, or were     *)
(* tried MaxAttempts times: no order of deliveries, overlapping flush, lost    *)
(* response or crash makes the beacon drop them for another reason, a push     *)
(* that overtakes its session's registration included.                        *)
EventsReachCoordinator ==
    \A e \in 1..made :
        Gone(e) /\ Carries(e, "events") => e \in applied \/ GivenUp(e)

(* The end of a session, once carried out, holds: a registration that is      *)
(* retried, replayed or handled late after it does not revive the session.    *)
EndHolds ==
    \A e \in applied : Carries(e, "end") => status[row[e].session] \notin Live

(* ADR 151:37: "Coordinator-bound writes are now lossless across coordinator  *)
(* downtime and beacon restarts": the end of a session that was delivered is  *)
(* not lost, the session does not stay live after it.                         *)
EndNotLost ==
    \A e \in 1..made :
        Gone(e) /\ Carries(e, "end") /\ ~GivenUp(e)
            => status[row[e].session] \notin Live

(* outbox-flusher.ts:45-47: lost responses are safe "because every outboxed   *)
(* route is idempotent under replay": carrying a call out a second time       *)
(* changes no session's status and fires no session-end hook again.           *)
ReplayIsNoOp ==
    [][repeats' # repeats => UNCHANGED <<status, endedAt, hooks>>]_pipeline_vars
=============================================================================
