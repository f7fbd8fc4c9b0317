# Formal models of the drone swarm

TLA+ modules, TLC runs and TLAPS proofs about the drone agent platform: the
turns and the conversation of an agent, its link to its beacon, the beacon that
spawns agents, mirrors prompt fragments, and queues and forwards what agents say
about their sessions, the coordinator that keeps their rows, and the channel
through which the coordinator commands beacons.

Files named `X.tla` model a component, `MCX.tla` with its `.cfg` files is a small
instance of it for TLC, `XProofs.tla` holds its theorems. To run one:

    tlc -workers 2 -config MCOutbox.cfg MCOutbox
    tlapm OutboxProofs.tla

## 1. The system

An **agent** (`drone-agent`, one process per conversation) talks to the **beacon**
of its host (`drone-beacon`, HTTP and WebSocket, SQLite). Beacons talk to one
**coordinator** (`drone-coordinator`, HTTP, SQLite, a web UI), which talks back
through a WebSocket each beacon opens towards it. A **gateway** joins chat
networks to the swarm. All of them are single-threaded Node processes: a handler
runs without interruption up to its next `await`, and everything hard happens
between an `await` and what follows it, between processes, and around restarts.

| component | state | operations | hard behaviour | what makes it correct |
|---|---|---|---|---|
| Beacon outbox (`db/outbox.ts`, `outbox-flusher.ts`) | table `outbox`; the batches and requests of flushes that are running | enqueue, flush (dequeue due rows, deliver one by one), mark failed, delete | the timer starts a flush while one still runs; lost responses; crash between answer and delete; backoff and LIMIT-ed queries | no row lost silently, none revived, attempts bounded, none starved |
| Coordinator sessions (`db/swarm-sessions.ts`, `routes/swarm.ts`) | row of each session: status, updatedAt, ended_at; events | register, push events, persona, DELETE, process, processed, end, archive, restore, mark stale | callers that race; replayed and late calls; three update paths; an await inside `process` | one clock per session (ADR 269), one pipeline per end, an end that holds |
| Session page (`session-detail.tsx`) | the session it shows | refetch on lifecycle events, render | responses out of order, silent status changes | what it shows agrees with the row |
| Session calls, end to end (`routes/sync.ts`, `coordinator-client.ts`) | outbox rows that carry calls | register, events, persona, end | calls about one session overtake each other, run twice, run late | events arrive, ends hold |
| Reverse channel (`beacon-ws.ts`, `coordinator-ws.ts`) | the coordinator's map of connections and of pending commands; the beacon's socket and timer | connect, admit, close, sweep, command, answer, time out | close seen late or never, restarts on either side, answers after a timeout or on another socket | one socket per beacon, answers that settle their own command only, dead sockets swept |
| Session-end triggers (`session-end.ts`) | none | run a command, or spawn over the channel with an HTTP fallback | timeout against a spawn under way; a refused spawn that is answered like a good one | no second agent once the beacon answered, at most one per request otherwise |
| Spawner (`spawner.ts`, `spawn-reconcile.ts`, `spawn-handlers.ts`, `db/spawns.ts`) | row of each spawn; child processes | spawn, agent registers, exit, terminate in stages, reconcile after a restart | each reads a row, awaits, writes it | a live agent is not taken for lost, and an end that forgets the agent stands |
| Fragments (`routes/fragments.ts`, `routes/context.ts`, `db/fragments.ts`, the agent's `fragment-store.ts`) | rows at the coordinator, rows at the beacon, what an agent shows | write, delete, expire, pull from the coordinator, delta, resync | pulls overlap and compare with a hash taken before an await; deltas and whole sets reach one store | agents show what is written for them, and nothing else |
| Agent messages (`ws-server.ts`, `routes/message-handlers.ts`, `routes/agents.ts`) | table of messages, agents' connections, channels | send, push, connect, poll, relay | push into a closing socket, late close of an old socket | nothing waits for an agent that is connected |
| Agent swarm plugin (`plugins/swarm`) | session id, socket, reconnect timer, event buffer | connect, reconnect, recycle, shut down, buffer, flush | every close schedules a reconnect, a recycle changes the id between two awaits | a live agent comes back |
| Agent conversation (`runtime/conversation-service.ts`, `tui/app.tsx`) | queue, steering messages, cancel flag, in-flight flag, chain of submissions | submit, queue, steer, cancel, drain, clear | terminal, swarm and `/steer` start turns that overlap and share all of it | the flag comes down, steering stays in its round, nothing queued is forgotten |
| Agent turn (`runtime/conversation-service.ts`, `llm-retry.ts`, `tool-call-utils.ts`) | counters of the guardrails, the session's open calls | request, retry, degenerate response, tool calls, questions to the user | five guards that count separately and reset each other; some outlive the turn, and overlapping turns share them | bounded requests, no calls left behind by a limit, every turn ends |
| Extension injections (`beacon-ws.ts`, `extension-registry.ts`) | manifests, injections per node | inject, remove, clean up on disconnect | the cleanup awaits per injection while the node reconnects | injections of a connected node survive |
| Agent plugins, hooks, compaction, MCP client (`runtime/`, `plugins/`) | plugin instances, session files, child servers | load, hook, compact, call | appear as awaits that settle or throw | no module |
| Gateway (`drone-gateway`) | surfaces, batches, personas | batch, spawn, inject, close | batching against launching | no module |
| Trust and approval | trust records, pending fingerprints | approve, pin, redeem codes | operator decisions during traffic | appears as refusals in the models |
| Wiki, search indexes, configuration, UI, command line, mcp-swarm | files, indexes, types | reads and writes behind keyed locks | little that interleaves | no module |

Interactions: agent -> beacon by HTTP (answered at once), beacon -> coordinator
through the outbox (at least once, in any order) or by requests it awaits,
beacon -> agent through the agent's WebSocket (in order, lost with the connection),
coordinator -> beacon through the reverse channel (at most once per connection, with
a timeout), coordinator -> UI by WebSocket events that make the page fetch.

## 2. The modules

### Outbox and DurableQueue
`table` is the set of row ids in the SQLite table (numbered by `createdAt`; two rows
of the same millisecond are given an order), `attempts` and `age` the columns
`attempts` and (as time elapsed) `lastAttemptAt`. A flush is a member of `Flusher`
with its `batch` (the rows as it read them) and its `call` (the request it is
awaiting); the set bounds how many overlap, since `setInterval` does not wait for the
previous one. `Enqueue` is `sendFireAndForget`; `StartFlush`, `DropExhausted`, `Send`,
`Delivered` and `Failed` are `flushOnce` and `deliverEntry` between their awaits;
`Handle` is the coordinator; `Crash` loses the flushes and keeps the table. The
windows of the two LIMIT-ed queries, the due filter and the final slice are
`DueBatches`; rows that tie may come in any order. `DurableQueue` is what ADR 151 promises
of a write handed to the beacon: absent, then queued, then gone for good, and gone only
when it was delivered or was tried often enough; deliveries repeat and come late. It
knows neither flushes nor batches nor crashes. `KeepsQueue` says the table implements it
(a row not yet made = absent, in the table = queued, otherwise gone).

### SwarmSessions and SessionClock
The rows of `swarm_sessions`, one action per route and one for the stale sweep, and
the session page. `SetStatus` is the update both `updateSwarmSessionStatus` and
`transitionSessionStatus` perform. `POST /process` is two actions (`Process`,
`ProcessReply`) because it publishes after an await. `SessionClock` is what ADR 269
promises: a clock that starts once, stops once at that time, and keeps its stamp;
`KeepsClock` says the rows implement it (absent = unset, active or stale = running,
anything else = stopped, `ended_at` = the stamp).

### SessionPipeline
Composes the two: each outbox row carries a call about a session; a request that
reaches its handler runs the corresponding action of `SwarmSessions` and is answered
from the row's existence (the foreign key of `swarm_events` makes an early push fail,
the other routes answer 404). A request the beacon gave up on, or that was under way
when it died, may still be handled later (`late`).

### ReverseChannel and SpawnTrigger
Sockets have two ends that learn of each other's closing separately, and can be cut
without either knowing. `entry` is the coordinator's `connections` map, keyed by beacon
as in the code, `ws` and `timer` the beacon's module variables. A session-end trigger's
command goes through `SendCommand`, `Receive`, `Handled`, `Response`, or `Reject` (timeout
or send error) and `Fallback`. `Handled` answers well with or without an agent, because
`handleSpawnAgent` answers 202 also for a spawn it recorded as failed (the limit of
concurrent spawns); a bad answer (unknown persona, exception) never comes with an agent.

`SpawnTrigger` says what ADR 177 promises of one trigger, without sockets: it is
unsent, asked, retrying (the HTTP fallback), and then confirmed, refused or settled; its
agents are counted. After an answer of the beacon there is no further request, so no second
agent after a good answer and none after a refusal; a trigger that gave up waiting gets
at most one agent per request, perhaps long after. `KeepsPromise` is the refinement; it maps a
pending command to asked, a rejected one to retrying, and `spawns` to the agents. That
a trigger gets exactly one agent (`OneSpawnPerTrigger`) is what the code does not
keep (section 3), and that a good answer means an agent is what nothing promises.

### TurnLoop
The loop of `sendUserMessage`. Nothing in it asks whether another turn is under way, and
the terminal, the swarm and `/steer` do start turns that overlap (`Conversation`). The
module follows one turn, the *observed* one, action by action; all others, which run
the same code, are its environment. `OtherTurn` lists what their steps do to what is
shared: the counters and hints (`OthersSpoke`, `OthersDegenerate`, `OthersKept`,
`OthersAnswered`) and the calls in the session (`OthersKept`, `OthersResults`). Their
own place in the loop is left out, so the environment does more than any set of turns could.
Observed turns follow one another, and any of the turns can be taken for the observed
one: that only one is observed at a time (`StartTurn`) is a choice of the model and no
guard of the code.

`turn.phase` is where the observed turn awaits: at the top, in the request, in a
question to the user, in the tools, or in the hooks and images after their results are
appended; `turn.iteration`, `turn.failures`, `turn.same` and `turn.stop` are its local
variables. `guards` holds the fields of the service that outlive a turn: the counts of
empty, reasoning-only and malformed responses, of repeated errors (`stuck`), of identical
calls (`streak`, `call`), and the two hints. `open` says whose tool calls the session holds
without results: the observed turn's, another's, or those of a turn that threw between
the tools and the append of their results (`ResultsLost`: `resolveContextWindow` may
throw), which stay for good. `Returned` appends the results and counts; `Judge` reads the
count again, after the hooks, when another turn may have changed it. `wired` is the
set of callbacks of the host, because a missing callback takes another branch than a
refusal. `requests` counts the turn's requests since a user or another turn last
cleared a counter, `last` is the conversation's last response since a user spoke, `declined`
records a refusal. `ResetDetectors` is what a plugin may call at any time; `Steer` is
what `Conversation` says in detail.

### Conversation
What surrounds the turns. `pending`, `steering`, `cancelled`, `turnInFlight` are the
fields of the service, `chain` is `submitChain`, `calls` the invocations of
`sendUserMessage` (one for the terminal, one for the swarm, one for `/steer` in an idle
agent), each with the await it stands in (`pc`) and the rounds it has nested while it
drains the queue (`depth`). `DrainAppend` and `DrainOwn` are the two modes of
`drainPendingEntries`, `Finally` the finally block, `Flushed` the `clearSession` a
command may run. Terminal and swarm test different flags before they start a turn
(`HostBusy`, `turnInFlight`), so two turns may be under way, as in the code.
`strays` are the messages for whose place in the queue no later turn answers: queued
while none was in flight, or left by one that was cancelled or threw.

### Spawns
`rows` is the table of spawns (status and whether `agent_id` is set), `process` the
operating system's view, `activeSpawns` the spawner's map, `registered` and
`connections` the beacon's agents and their sockets, `posting` a registration under
way. `reconcile` is `reconcileSpawnRows` between its awaits, with the rows it read
(`candidates`) and the listing it got; `termination` is `handleTerminateSpawn` in its
stages (ask the agent to close, look for the process, signal it, wait). A listing may
fail, and lists what is alive when it is made. `asked` are the spawns somebody wanted
terminated. `end` remembers how the end of a spawn was last recorded. Most ends take the
agent's name out of the row (`SetGone`: the child's exit or error, the timeout, a
termination that finds no process, the reconciliation); the two that a termination records
after the agent disconnected or its process exited leave it there (`SetLeft`), and a
registration handled later finds the row by it. `RefusedHalfway` is the crash
between the two statements of a spawn refused for the limit.

### Fragments
`coordinator` and `table` are the two tables, keyed by id and target; `pulls` is
`triggerCoordinatorSync` between its awaits with the hash it took (`before`, as the rows
it covers) and the answer it got; `pipe` the frames on an agent's connection; `store`
the agent's fragment store. `Merged` is `listMergedForAgent`, `Valid` the limits,
`Replaced` the wholesale mirroring, `Changed` the comparison of hashes, `Sweep` the
expiry. Nothing in the code keeps two pulls from overlapping, hence the set `Pull`.

### AgentLink
`session`, `ws`, `timers`, `stopping`, `recycle` are the agent's side (`ctx` of the swarm
plugin), `rows`, `connections`, `messages` the beacon's. A socket has two ends that
learn of its end separately; a refused or dropped socket is forgotten when both have.
`Accept` is the upgrade with the push of unread messages, which are not marked;
`Deliver` a direct message, pushed and marked delivered if the map has an entry, whatever
the state of the socket. `ServerClose` removes the entry of its id without looking whose
it is, `ClientClose` empties `ws` and schedules a reconnect without looking either: both
as the code does. `RecycleBegin`, `RecycleRegistered` (or `RecycleUnregistered`, when the
POST fails and is only logged) and `RecycleReconnect` are `recycleSwarmSession`.

## 3. The runs

| run | expects | shows |
|---|---|---|
| outbox (`MCOutbox.cfg`) | pass | overlapping flushes, lost responses and crashes implement the durable queue, lose no row, try each at most once more per extra flush, and starve none |
| sessions (`MCSwarmSessions.cfg`) | pass | the session's clock, one claim per end, a page that is never ahead |
| pipeline (`MCSessionPipeline.cfg`) | pass | events reach the coordinator or use up their attempts; an end holds against late registrations |
| channel (`MCReverseChannel.cfg`) | pass | one socket per beacon, the map holds open sockets, a session-end trigger gets what ADR 177 promises, cut sockets are swept, commands settle |
| turn (`MCTurnLoop.cfg`) | pass | with other turns overlapping it, and whatever the model answers: a turn makes a bounded number of requests, no limit, question or refusal leaves its calls open, hints are given only after a degenerate response, and the turn ends |
| conversation (`MCConversation.cfg`) | pass | overlapping turns, cancels and failures never leave the in-flight flag up, steering for a later round, a forgotten message, or a submission that is not taken up |
| spawns (`MCSpawns.cfg`) | pass | an end that forgets the agent stands, living agents are not taken for lost, live rows of started spawns name their agent, rows settle |
| fragments (`MCFragments.cfg`) | pass | an agent shows what is targeted at it, and the coordinator's broadcasts arrive |
| link (`MCAgentLink.cfg`) | pass | the beacon's entries are open sockets, no message waits for a connected agent, the agent comes back |
| pipeline_end (`MCPipelineEnd.cfg`) | violation | an end that overtakes its registration is answered 404, deleted as delivered, and lost |
| fragments_ghost (`MCFragmentsGhost.cfg`) | violation | an overlapping pull removes a row without a resync: agents show a row that is gone |
| link_reachable (`MCLinkReachable.cfg`) | violation | the late close of an agent's old socket removes its new connection, for good |

**Further configurations.** Each of these checks one property that a comment, a document or
the purpose of the code suggests and that TLC finds violated; they are run by hand.

| configuration | property | what the counterexample shows |
|---|---|---|
| `MCSessionsPage.cfg` | `PageCurrent` | `/sessions/:id/end` and mark-stale publish nothing: the page goes on showing a session as live |
| `MCSessionsStale.cfg` | `StaleMeansInactive` | pushing events does not refresh `updatedAt`: a busy session is marked stale |
| `MCPipelineReplay.cfg` | `ReplayIsNoOp` | a replayed DELETE fires the session-end hook again and takes a claimed session back to ended |
| `MCChannelStale.cfg` | `ConnectedWhenOpen` | the late close of a beacon's old socket removes its new connection |
| `MCChannelSpawn.cfg` | `OneSpawnPerTrigger` | a spawn that outlasts the command's timeout is repeated over HTTP |
| `MCTurnStop.cfg` | `StopMeansStop` | "no" to the question about identical calls does not abort: the tools run and the model is asked again |
| `MCTurnDangling.cfg` | `NoDanglingCalls` | a request goes out while another turn's calls, or calls whose results were lost to a throw, stand in the session without results |
| `MCConversationOrder.cfg` | `ArrivalOrder` | a drained entry awaits its expansion while a later one is appended |
| `MCConversationCancel.cfg` | `CancelHitsCurrent` | a cancel that comes when no turn looks at it any more stops the next turn |
| `MCSpawnsRevived.cfg` | `EndIsFinal` | a termination signals an agent and records its end; the `POST /agents` the agent sent before is handled after it and sets the row of the dead process back to `running` |
| `MCSpawnsLate.cfg` | `ConnectedIsRunning` | a slow agent that registers after the spawn timeout is connected under a row that says failed |

Other things the models follow the code in, without a property: expired broadcasts are
swept without telling agents (they learn of it with the next resync); unread messages are
never acknowledged and are sent again on every connection; a recycle whose POST failed
leaves an agent that is refused from then on; after a recycle the close of the old socket
schedules a reconnect next to the new connection, so that the agent has one socket more; a
spawn that throws keeps its row
`spawning` until a restart; malformed responses and failing tools stay counted when a user
speaks, so that the first of a turn may draw a hint or a question.

**Bounds.** *outbox*: two rows with a LIMIT of 1 (a row is always outside the window),
two flushes, two attempts, backoff 1, elapsed time counted to 4, one crash; overlap,
cap, window and backoff all happen. *sessions*: one session (rows do not touch each
other), two competing claims, two DELETEs and two other ends, a clock of two instants.
*pipeline*: two calls about one session are every pair that can be reordered; one flush
(overlap is checked in *outbox*), no backoff (it only delays), one crash. *channel*: one
beacon and one command (entries of different beacons are separate), three sockets: one
open, one whose end the coordinator has not noticed, one being dialled. *turn*: two tools
(a call can be repeated or not), thresholds at the least values that keep each guard's
stages apart, all callbacks or none, one observed turn and two interventions, each of which may be a
step of another turn before, during or after it.
*conversation*: three messages, so that two wait behind a turn and a nested round finds
one; one cancel; all three callers. *spawns*: two spawns where one may run, one
termination, one restart; a termination, the reconciliation, the timeout and the agent
all meet on one row. *fragments*: a reserved id and another, one agent, two pulls that
may overlap, two writes (at either table), two frames under way, one fault; expiry at
once or never. *link*: four sockets (two at the beacon under each id), one
recycle, one message, two faults.

`MaxTime`, `MaxAge`, `MaxCrashes`, `MaxEnds`, `NumEntries`, `MaxTurns`,
`MaxInterventions`, `MaxMessages`, `MaxCancels`, `MaxRestarts`, `MaxWrites`, `MaxFrames`,
`MaxFaults`, `MaxSockets`, `MaxRecycles` and the sizes of `Flusher`, `Claim`, `Socket`,
`Trigger`, `Spawn`, `Termination`, `Pull`, `Id` and `Agent` are bounds; `MaxAttempts`,
`BatchSize`, `RetryBase`, `StaleAfter`, `MaxConcurrent`, `MaxBroadcasts`, `MaxTargeted` and
the thresholds of TurnLoop are the code's parameters. `sessions` and `channel` check
deadlock; the others do not, because the system may stop: a beacon with nothing left to
deliver waits, a conversation waits for its users, an agent shuts down.

**Fairness.** *outbox*: time passes, the flush timer fires (`setInterval`, never cleared
while the beacon runs), a flush goes on, and a request settles, because `fetch` answers
or throws. Nothing obliges the coordinator to accept, or the beacon not to crash (crashes
are finitely many). *channel*: the reconnect timer, the sweep and the command's timeout
fire, and the HTTP fallback, which has a timeout of its own, ends. Nothing obliges a
network to deliver or a socket to close. *turn*: the turn's own steps, since a request
and a tool settle; nobody has to answer a question, steer or reset; other turns and users
clear its counters finitely often (`MaxInterventions`). *conversation*: the
awaits of a call settle and the chain goes on (weak); a turn that returns to its request
again and again ends some time (strong, `TurnOver`), which is what *turn* shows as
`TurnEnds`. *spawns*: the spawn timeout fires and the events of children are delivered;
agents and operators owe nothing. *fragments*: the periodic pull repeats and is answered,
agents reconnect and frames arrive, after finitely many faults. *link*: both ends of
a socket learn of its end, attempts to connect are answered, timers fire, a recycle goes
on; nobody has to send, recycle or register again.

## 4. The proofs

A property alone is seldom inductive, because a step is taken on the strength of
something read or answered several steps before; each proof module states what is known
between those steps as an invariant, and shows that every action keeps it.
`PROJECT.json` lists the theorems.

- **OutboxProofs.** `OutboxInv` adds to the types and `NoSilentLoss` what is known between
  the awaits of a flush: a snapshot is of a row that was made and no younger than it
  (`SnapshotsKnown`), and a good answer in hand means the coordinator served the row
  (`CallsKnown`). `BoundedOvershoot` needs a count: `Holders(e)` are the flushes that may
  still attempt `e`, and once the cap is reached `attempts[e]` plus their number stays
  below `MaxAttempts + |Flusher|` (`Budget`): an attempt takes one holder away, and a row at
  its cap gets no new one (a flush that selects it from then on deletes it).
  `OutboxKeepsQueue` is the refinement of `DurableQueue`: a flush that reports on a row another
  one deleted stutters or delivers once more, a row leaves only with its reason
  (`NoSilentLoss` after the step), and a crash stutters. `BatchesAreFair` is about the data: for
  any table, the merge of the two limited queries and the second limit give at most a batch,
  of due rows only, and always the oldest row that was never tried; two windows of one
  set have the same size, so a row that is before all others cannot be left out. `FlushesEnd` gives
  each flush a measure, three steps per row of its batch, that its own steps lower and nobody
  else's raise; together with the liveness run it separates what a flush does from what
  the timer owes.
- **SessionPipelineProofs.** First the coordinator alone. `Advances` says what a step may do
  to a session's status together with its counters; every action is one of its cases (one
  lemma each). From it follow `ClaimBudget` (a session was claimed at most once per
  end, and once more only when its status can no longer be claimed) and `PagePast` (what a
  page has read is no further than the row), hence `OneClaimPerEnd` and `PageNotAhead`.
  `SessionsKeepClock` is the refinement: every step maps to a step of `SessionClock` or a
  stutter. Then the composition: each of its steps is a step of `Outbox` and a step
  of `SwarmSessions`, or leaves them alone; so both invariants carry over and
  the composition implements both parts, and through them both promises
  (`PipelineKeepsPromises`). `PipelineInv` adds that good answers are true
  (`AnswersTrue`: an accepted call was carried out, and a push is never answered 404), that
  rows keep their call while the history grows (`HistoryGrows`), and that a session whose end
  was carried out is over (`EndsOver`).
- **ReverseChannelProofs.** Two halves that do not need each other: `SocketsKnown`
  (a beacon's socket is its own, an end that is not closed belongs to a beacon) makes
  `OneSocketPerBeacon` and `EntryIsOpen` inductive; `CommandsKnown` follows a command
  through request, handler and response (`InOrder`) and counts who may still spawn
  (`Spawned`), which gives `AnsweredOnce`. `ChannelKeepsPromise` is the refinement of
  `SpawnTrigger`: steps of sockets stutter except that a restart of the coordinator ends
  the waiting, a handler that ends is a `Spawn` or a stutter, and an answer is a step of the
  trigger only while its command is pending. `Requests`, the bound on agents in each state of
  the abstract trigger, is what `Spawned` knows of the concrete one.
- **SpawnsProofs.** What decides late decides on something that cannot have become
  wrong: a row whose agent was forgotten at its end names none from then on, so that a late
  registration finds nothing to revive (`Forgotten`; the ends of a termination that keep the
  agent are not covered, and `EndIsFinal` fails for them); a candidate of the reconciliation that its listing does not
  have is dead, and the dead do not come back (`CandidatesKnown`); a termination is of a
  spawn somebody asked for (`LaddersAsked`); a process is started only for a row that names
  its agent, and none without a row (`ProcessesHaveRows`).
- **TurnLoopProofs.** `TurnSafe` ties the guards to the place the turn is in: its calls
  are open only in the tools (`LimitsLeaveNoCalls`), a hint stands only while the
  conversation's last response was degenerate and a tier is past its retries
  (`HintsJustified`), the iteration is within its limit unless the response that passed it
  ends the turn or asks the user (`IterationsKept`). Steps of other turns keep all of
  it (`OthersWork`): they cannot touch the turn's own calls, and a response, a hint and its counter
  change in one step whoever makes it. The bound on requests is an account: a request either
  is answered by a kept response, which ends its round and raises `iteration`, or by a
  degenerate one that raises its tier's counter. What the counters say is spent in a
  round (`SpentAll`) is less than a round allows, so `requests` stays below
  `iteration` full rounds plus the part spent (`RequestsCounted`). The counter of
  malformed responses outlives a turn, and is cut to its limit in the account. A degenerate response
  of another turn only uses up what the counters leave; whatever clears one of them starts the
  account over.
  The same account gives the safety half of `TurnEnds`: `StepsLeft` counts the requests left
  and, below them, the retries and the tools of the one under way; every step of the turn
  lowers it (`TurnsRunDown`), and it is a number the limits bound (`TurnsAreFinite`). A turn
  stops short of its end only in a question, and only in one the host can answer
  (`QuestionsAnswerable`).
- **ConversationProofs.** `FlagComesDown` holds because who raises the flag is in the loop
  and whoever leaves it lowers it. `NoLateSteering` follows. `NothingLeftBehind` needs
  more: a message in the queue is a stray, or some call is at a place from which it will
  drain the queue (`QueueTended`); a call that leaves the loop without draining makes strays of
  what it leaves.
- **AgentLinkProofs.** `EntryIsOpen` is inductive with the types of the sockets and ids
  (`LinkInv`), because only an unknown socket is opened anew and only the beacon's own
  close ends its end. `NothingWaitsLinked` on top of it: a connection begins with all that
  is unread (`AcceptSendsUnread`), a message is unread only when its agent has no entry
  (`DeliverMarks`), and every other step keeps what a socket carries, reads it, or ends
  the connection (`Quiet`). `MessagesAddressed` rests on `EntryIsOpen` as well: a frame is put
  into the socket its entry names, and that socket was opened under the same id. Below the
  liveness of `AgentRetries` lies a conservation law, `LinesAreCounted`: the sockets an agent
  has not seen end and the reconnects it has scheduled are together as many as the
  connections it began, because every close schedules one reconnect and every reconnect
  opens one socket. So it can always come back; the law also says exactly that a recycle
  adds a line for good, since the socket it closes schedules a reconnect like any other.
- **FragmentsProofs.** What an agent will show once it has read everything under way is
  a fold over frames, but for one id it is decided by the last frame that touches it (or
  the store, when none does). `FragmentsInv` says that of each such last word: it
  fits the live row written for the agent. So no induction over the pipe is needed: a step that
  appends frames says something new only about the ids in them, and a step
  that reads the first one leaves the last ones alone. The removals of a sweep are a sequence
  made from a set; that it lists each member once, in an order left open, is all the proof uses.

Only model-checked is liveness (`EveryRowSettles`, `DeadSocketsDropped`, `CommandSettles`, `TurnEnds`,
`SubmissionsTakenUp`, `SpawnSettles`, `CoordinatorReaches`, `AgentRetries`): fairness and
ENABLED are outside the prover's reach. For the turn and the flush the measures above are
the part of it that can be proved.

Every other property of the passing runs is a theorem. The proofs use the assumptions on
constants that the modules name, nothing else: they hold for any number of rows,
overlapping flushes, sessions, claims, beacons, sockets, commands, spawns, terminations,
messages and turns, and any batch size, attempt cap, backoff and threshold.

## 5. Not modelled

Contents: message texts, payload blobs, prompts, tool results, full-text search, logging.
Authentication and rate limits (they appear as refusals). The size cap of the outbox is a
drop with a log line. The command trigger of the session-end hook. Channels, the relay of
messages between beacons, and the cleanup of read messages by age. Phases and layout of
prompt fragments. Inside the agent: plugins, hooks, compaction and the clients of MCP and
language servers, which a turn sees as awaits that settle or throw; session files. The
agent's event buffer in front of the outbox. Injections of extensions. Section 1 lists the
components that have no module; most of the repository's lines are user interfaces,
tools, indexes and configuration that keep no shared state a step of another actor could
disturb.

## 6. Plan

1. *(done)* Outbox, SwarmSessions with SessionClock, SessionPipeline, ReverseChannel, with
   their proofs.
2. *(done)* Spawns; AgentLink (connections, direct messages, recycle); Fragments; TurnLoop
   and Conversation, with their proofs. DurableQueue and SpawnTrigger.
3. **Injections**: the cleanup of a node's injections against its reconnection, as an
   extension of ReverseChannel's connections.
4. **AgentEvents**: the agent's buffer in front of SessionPipeline: flush, failure,
   recycle, shutdown; with it the beacon's own rows of sessions and their replay
   (`db/beacon-sessions.ts`).
5. **Channels** and the relay of messages between beacons, next to AgentLink.
6. Compaction against a turn under way; the gateway's batcher and launcher.
7. Proofs: the composition of TurnLoop and Conversation, whose fairness the former
   justifies; measures for spawns, commands and pulls like those of turns and flushes.

No module uses RECURSIVE, so that all of them can be proved about.
