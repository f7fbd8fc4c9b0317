--------------------------- MODULE SwarmSessions ---------------------------
(***************************************************************************)
(* The coordinator's swarm sessions: the row of each session in            *)
(* `swarm_sessions`, the routes that move it through its lifecycle, and    *)
(* the session page of the coordinator's UI, which follows it.             *)
(*                                                                         *)
(*   absent -> active <-> (mark-stale) stale -> ended -> processing        *)
(*          -> processed <-> archived,   and DELETE: any -> ended          *)
(*                                                                         *)
(* Sources: drone-coordinator/src/db/swarm-sessions.ts, routes/swarm.ts,   *)
(* index.ts, drone-coordinator-ui/src/pages/session-detail.tsx.            *)
(*                                                                         *)
(* Handlers run to completion on one thread, except for what follows an    *)
(* await: POST /process publishes after it has read the session's events.  *)
(* A stored time of 0 stands for NULL.                                     *)
(***************************************************************************)
EXTENDS Integers

CONSTANTS
    Session,
    Claim,          \* POST /process handlers that can be waiting at a time
    NoSession,
    StaleAfter,     \* thresholdMs of the sweep
    MaxTime,        \* bound on the clock
    MaxEnds         \* bound on a session's DELETEs, and on its other ends

ASSUME NoSessionAssumption == NoSession \notin Session
ASSUME SessionTimeAssumption == StaleAfter \in Nat /\ MaxTime \in Nat \ {0}
ASSUME MaxEndsAssumption == MaxEnds \in Nat

VARIABLES
    now,
    status, updatedAt, endedAt,     \* columns of swarm_sessions
    claim,      \* the session a POST /process handler has moved to processing
    hooks,      \* times runSessionEndHook was called for the session
    unread,     \* sessions with one lifecycle event or more on its way to
                \* their page
    fetched,    \* statuses read by the page's GETs, not rendered yet
    page,       \* the status the page shows
    activeAt,   \* history: when the session was registered, or last pushed
                \* events or changed persona
    claims,     \* history: successful POST /process calls
    ends        \* history: times the session became ended

row_vars == <<status, updatedAt, endedAt>>
page_vars == <<fetched, page>>
tallies == <<claims, ends>>
sessions_vars ==
    <<now, row_vars, claim, hooks, unread, page_vars, activeAt, tallies>>

Live == {"active", "stale"}
Stored == Live \cup {"ended", "processing", "processed", "archived"}
Status == Stored \cup {"absent"}

SessionsTypeOK ==
    /\ now \in 1..MaxTime
    /\ status \in [Session -> Status]
    /\ updatedAt \in [Session -> 0..MaxTime]
    /\ endedAt \in [Session -> 0..MaxTime]
    /\ claim \in [Claim -> Session \cup {NoSession}]
    /\ hooks \in [Session -> 0..MaxEnds]
    /\ unread \subseteq Session
    /\ fetched \in [Session -> SUBSET Stored]
    /\ page \in [Session -> Status]
    /\ activeAt \in [Session -> 0..MaxTime]
    /\ claims \in [Session -> Nat]
    /\ ends \in [Session -> 0..MaxEnds]

SessionsInit ==
    /\ now = 1
    /\ status = [s \in Session |-> "absent"]
    /\ updatedAt = [s \in Session |-> 0]
    /\ endedAt = [s \in Session |-> 0]
    /\ claim = [c \in Claim |-> NoSession]
    /\ hooks = [s \in Session |-> 0]
    /\ unread = {}
    /\ fetched = [s \in Session |-> {}]
    /\ page = [s \in Session |-> "absent"]
    /\ activeAt = [s \in Session |-> 0]
    /\ claims = [s \in Session |-> 0]
    /\ ends = [s \in Session |-> 0]

-----------------------------------------------------------------------------
\* Mutant of SetStatus: stamps the end whatever the status was.
SetStatusRestamping(s, to) ==
    /\ status' = [status EXCEPT ![s] = to]
    /\ updatedAt' = [updatedAt EXCEPT ![s] = now]
    /\ endedAt' = IF to \notin Live THEN [endedAt EXCEPT ![s] = now] ELSE endedAt

\* updateSwarmSessionStatus and, under a guard, transitionSessionStatus
SetStatus(s, to) ==
    /\ status' = [status EXCEPT ![s] = to]
    /\ updatedAt' = [updatedAt EXCEPT ![s] = now]
    /\ endedAt' = IF status[s] \in Live /\ to \notin Live
                  THEN [endedAt EXCEPT ![s] = now]
                  ELSE endedAt

Transition(s, from, to) == status[s] \in from /\ SetStatus(s, to)

\* publishMutationEvent of a lifecycle event, as far as the page is concerned
Publish(s) == unread' = unread \cup {s}

\* Mutant of Register: ON CONFLICT(id) DO UPDATE.
RegisterUpsert(s) ==
    /\ status' = [status EXCEPT ![s] = "active"]
    /\ updatedAt' = [updatedAt EXCEPT ![s] = now]
    /\ activeAt' = [activeAt EXCEPT ![s] = now]
    /\ Publish(s)
    /\ UNCHANGED <<now, endedAt, claim, hooks, page_vars, tallies>>

\* POST /sync/sessions/register: ON CONFLICT(id) DO NOTHING, announced anyway
Register(s) ==
    /\ IF status[s] = "absent"
       THEN /\ status' = [status EXCEPT ![s] = "active"]
            /\ updatedAt' = [updatedAt EXCEPT ![s] = now]
            /\ activeAt' = [activeAt EXCEPT ![s] = now]
       ELSE UNCHANGED <<status, updatedAt, activeAt>>
    /\ Publish(s)
    /\ UNCHANGED <<now, endedAt, claim, hooks, page_vars, tallies>>

\* POST /sync/events/push, for a session the foreign key accepts: an event
\* row is inserted, the session's row is not touched.
PushEvents(s) ==
    /\ status[s] # "absent"
    /\ activeAt' = [activeAt EXCEPT ![s] = now]
    /\ UNCHANGED <<now, row_vars, claim, hooks, unread, page_vars, tallies>>

\* PATCH /sessions/:id/persona; session.persona_changed is not one of the
\* page's lifecycle events.
SetPersona(s) ==
    /\ status[s] # "absent"
    /\ updatedAt' = [updatedAt EXCEPT ![s] = now]
    /\ activeAt' = [activeAt EXCEPT ![s] = now]
    /\ UNCHANGED <<now, status, endedAt, claim, hooks, unread, page_vars, tallies>>

\* markStaleSessions: the hourly sweep, and POST /sessions/mark-stale
Expired == {s \in Session : status[s] = "active" /\ updatedAt[s] < now - StaleAfter}

MarkStale ==
    /\ Expired # {}
    /\ status' = [s \in Session |-> IF s \in Expired THEN "stale" ELSE status[s]]
    /\ updatedAt' = [s \in Session |-> IF s \in Expired THEN now ELSE updatedAt[s]]
    /\ UNCHANGED <<now, endedAt, claim, hooks, unread, page_vars, activeAt, tallies>>

CountEnd(s) ==
    /\ status[s] # "ended" => ends[s] < MaxEnds
    /\ ends' = IF status[s] # "ended" THEN [ends EXCEPT ![s] = @ + 1] ELSE ends

\* DELETE /sync/sessions/:id, "the permissive authoritative end signal"
SyncEnd(s) ==
    /\ status[s] # "absent"
    /\ hooks[s] < MaxEnds
    /\ SetStatus(s, "ended")
    /\ CountEnd(s)
    /\ hooks' = [hooks EXCEPT ![s] = @ + 1]
    /\ Publish(s)
    /\ UNCHANGED <<now, claim, page_vars, activeAt, claims>>

\* Mutant of Process: a session being processed may be claimed.
ProcessAgain(c, s) ==
    /\ claim[c] = NoSession
    /\ Transition(s, {"active", "stale", "ended", "processing"}, "processing")
    /\ claim' = [claim EXCEPT ![c] = s]
    /\ claims' = [claims EXCEPT ![s] = @ + 1]
    /\ UNCHANGED <<now, hooks, unread, page_vars, activeAt, ends>>

\* POST /sessions/:id/process, up to the await on the session's payloads
Process(c, s) ==
    /\ claim[c] = NoSession
    /\ Transition(s, {"active", "stale", "ended"}, "processing")
    /\ claim' = [claim EXCEPT ![c] = s]
    /\ claims' = [claims EXCEPT ![s] = @ + 1]
    /\ UNCHANGED <<now, hooks, unread, page_vars, activeAt, ends>>

\* ... and after it
ProcessReply(c) ==
    /\ claim[c] # NoSession
    /\ Publish(claim[c])
    /\ claim' = [claim EXCEPT ![c] = NoSession]
    /\ UNCHANGED <<now, row_vars, hooks, page_vars, activeAt, tallies>>

\* POST /sessions/:id/processed, /archive and /restore
Processed(s) ==
    /\ Transition(s, {"processing"}, "processed")
    /\ Publish(s)
    /\ UNCHANGED <<now, claim, hooks, page_vars, activeAt, tallies>>

Archive(s) ==
    /\ Transition(s, {"processed"}, "archived")
    /\ Publish(s)
    /\ UNCHANGED <<now, claim, hooks, page_vars, activeAt, tallies>>

\* Mutant of Restore: back to active.
RestoreLive(s) ==
    /\ Transition(s, {"archived"}, "active")
    /\ Publish(s)
    /\ UNCHANGED <<now, claim, hooks, page_vars, activeAt, tallies>>

Restore(s) ==
    /\ Transition(s, {"archived"}, "processed")
    /\ Publish(s)
    /\ UNCHANGED <<now, claim, hooks, page_vars, activeAt, tallies>>

\* POST /sessions/:id/end publishes nothing.
End(s) ==
    /\ Transition(s, {"active", "stale", "processing", "processed"}, "ended")
    /\ CountEnd(s)
    /\ UNCHANGED <<now, claim, hooks, unread, page_vars, activeAt, claims>>

\* Mutant of Fetch: the answer is used without looking at res.ok.
FetchUnchecked(s) ==
    /\ s \in unread \/ (page[s] = "absent" /\ fetched[s] = {})
    /\ unread' \in {unread, unread \ {s}}
    /\ fetched' = [fetched EXCEPT ![s] = @ \cup {status[s]}]
    /\ UNCHANGED <<now, row_vars, claim, hooks, page, activeAt, tallies>>

\* fetchSession of the page: on mount, and once per lifecycle event.  Its
\* responses may be rendered in any order.
Fetch(s) ==
    /\ s \in unread \/ (page[s] = "absent" /\ fetched[s] = {})
    /\ status[s] # "absent"
    /\ unread' \in {unread, unread \ {s}}
    /\ fetched' = [fetched EXCEPT ![s] = @ \cup {status[s]}]
    /\ UNCHANGED <<now, row_vars, claim, hooks, page, activeAt, tallies>>

\* ... whose catch keeps what the page shows
FetchFails(s) ==
    /\ s \in unread
    /\ unread' = unread \ {s}
    /\ UNCHANGED <<now, row_vars, claim, hooks, page_vars, activeAt, tallies>>

Render(s) ==
    /\ \E v \in fetched[s] :
          /\ page' = [page EXCEPT ![s] = v]
          /\ fetched' = [fetched EXCEPT ![s] = @ \ {v}]
    /\ UNCHANGED <<now, row_vars, claim, hooks, unread, activeAt, tallies>>

SessionsTick ==
    /\ now < MaxTime
    /\ now' = now + 1
    /\ UNCHANGED <<row_vars, claim, hooks, unread, page_vars, activeAt, tallies>>

SessionsNext ==
    \/ SessionsTick
    \/ MarkStale
    \/ \E s \in Session :
          \/ Register(s)
          \/ PushEvents(s)
          \/ SetPersona(s)
          \/ SyncEnd(s)
          \/ \E c \in Claim : Process(c, s)
          \/ Processed(s)
          \/ Archive(s)
          \/ Restore(s)
          \/ End(s)
          \/ Fetch(s)
          \/ FetchFails(s)
          \/ Render(s)
    \/ \E c \in Claim : ProcessReply(c)

SessionsSpec == SessionsInit /\ [][SessionsNext]_sessions_vars

-----------------------------------------------------------------------------
(* The duration of a session (ADR 269 D2): endedAt is stamped when the status *)
(* leaves active or stale, with the time of that step, and never again, by    *)
(* whichever routes and replays, in whichever order; nothing makes an ended   *)
(* session live again.                                                        *)
ClockOf(s) == CASE status[s] = "absent" -> "unset"
                [] status[s] \in Live -> "running"
                [] OTHER -> "stopped"

Clock == INSTANCE SessionClock
            WITH clock <- [s \in Session |-> ClockOf(s)], stoppedAt <- endedAt

KeepsClock == Clock!Spec

(* A session is handed to one pipeline at a time: after the first claim, each *)
(* further POST /process succeeds only when the session was ended again.      *)
OneClaimPerEnd == \A s \in Session : claims[s] <= ends[s] + 1

(* A page that shows a session as over is right about that, whatever order    *)
(* its responses are rendered in (the chat input is not withheld from a live  *)
(* session).                                                                  *)
PageNotAhead ==
    \A s \in Session : page[s] \in Stored \ Live => status[s] \notin Live

(* index.ts:654: "mark sessions inactive > 24 hours".                         *)
StaleMeansInactive ==
    [][\A s \in Session :
          status[s] = "active" /\ status'[s] = "stale"
             => activeAt[s] < now - StaleAfter]_sessions_vars

(* session-detail.tsx:157-159: the page refetches on lifecycle events "so the *)
(* chat-input gate and the Live badge stay current without a manual reload":  *)
(* once it has caught up with everything published, a page that shows the     *)
(* session as active is right.                                                *)
PageCurrent ==
    \A s \in Session :
        /\ page[s] = "active"
        /\ s \notin unread /\ fetched[s] = {}
        /\ \A c \in Claim : claim[c] # s
        => status[s] = "active"
=============================================================================
