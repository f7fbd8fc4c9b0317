------------------------------- MODULE Outbox -------------------------------
(***************************************************************************)
(* The beacon's durable outbox: every fire-and-forget write for the        *)
(* coordinator becomes a row of the SQLite table `outbox`, and a timer     *)
(* (setInterval, with no guard against a flush that is still running)      *)
(* starts flushes that deliver the rows that are due, one at a time.       *)
(*                                                                         *)
(* Sources: drone-beacon/src/db/outbox.ts, drone-beacon/src/               *)
(* outbox-flusher.ts, sendFireAndForget in coordinator-client.ts.          *)
(*                                                                         *)
(* Rows are numbered in the order of their createdAt, so "older" is "<".   *)
(* lastAttemptAt is kept as the time elapsed since it (`age`), which stops *)
(* counting at MaxAge.  A flush is a member of Flusher: the set bounds how *)
(* many flushes overlap, not how many ever run.                            *)
(***************************************************************************)
EXTENDS Integers, FiniteSets

CONSTANTS
    NumEntries,     \* writes enqueued in a behaviour
    Flusher,        \* flushOnce calls that can be running at a time
    MaxAttempts,    \* DEFAULT_MAX_ATTEMPTS
    BatchSize,      \* DEFAULT_BATCH_SIZE: the LIMIT of both queries
    RetryBase,      \* OUTBOX_RETRY_BASE_MS
    MaxAge,         \* bound: elapsed time is counted up to here
    MaxCrashes      \* bound on crashes of the beacon process

ASSUME NumEntriesAssumption == NumEntries \in Nat
ASSUME FlusherAssumption == IsFiniteSet(Flusher) /\ Flusher # {}
ASSUME MaxAttemptsAssumption == MaxAttempts \in Nat \ {0}
ASSUME BatchSizeAssumption == BatchSize \in Nat \ {0}
ASSUME TimingAssumption == RetryBase \in Nat /\ MaxAge \in Nat
ASSUME MaxCrashesAssumption == MaxCrashes \in Nat

Entry == 1..NumEntries
NoEntry == 0

VARIABLES
    made,       \* rows inserted so far: 1..made
    table,      \* ids of the rows the table holds
    attempts,   \* the column; it keeps its last value when the row is gone
    age,        \* now - lastAttemptAt, meaningful when attempts > 0
    batch,      \* flusher -> snapshots of the rows it has still to deliver
    call,       \* flusher -> the request it is awaiting
    crashes,
    served      \* history: rows the coordinator answered with 2xx or 404

table_vars == <<made, table, attempts, age>>
vars == <<made, table, attempts, age, batch, call, crashes, served>>

Answer == {"accepted", "missing", "refused"}    \* 2xx, 404, any other status
Snapshot == [id : Entry, attempts : Nat]
Idle == [entry |-> NoEntry, answer |-> "none"]

TypeOK ==
    /\ made \in 0..NumEntries
    /\ table \subseteq 1..made
    /\ attempts \in [Entry -> Nat]
    /\ age \in [Entry -> 0..MaxAge]
    /\ batch \in [Flusher -> SUBSET Snapshot]
    /\ call \in [Flusher -> [entry : Entry \cup {NoEntry},
                             answer : Answer \cup {"none"}]]
    /\ crashes \in 0..MaxCrashes
    /\ served \subseteq 1..made

Init ==
    /\ made = 0
    /\ table = {}
    /\ attempts = [e \in Entry |-> 0]
    /\ age = [e \in Entry |-> 0]
    /\ batch = [f \in Flusher |-> {}]
    /\ call = [f \in Flusher |-> Idle]
    /\ crashes = 0
    /\ served = {}

-----------------------------------------------------------------------------
\* dequeueDueOutbox

Backoff(e) == RetryBase * 2 ^ (attempts[e] - 1)
Due(e) == attempts[e] = 0 \/ age[e] >= Backoff(e)

\* The results a LIMIT-ed query over S may return, when rows are ordered by
\* Before; rows that tie may come back in any order.
Windows(S, Before(_, _)) ==
    {W \in SUBSET S :
        /\ Cardinality(W) = IF Cardinality(S) < BatchSize THEN Cardinality(S)
                            ELSE BatchSize
        /\ \A w \in W, s \in S \ W : ~Before(s, w)}

Older(a, b) == a < b
LessRecentlyTried(a, b) == age[a] > age[b]

Fresh == {e \in table : attempts[e] = 0}
Retries == {e \in table : attempts[e] > 0}
FreshWindows == Windows(Fresh, Older)
RetryWindows == Windows(Retries, LessRecentlyTried)
DueWindows(F, R) == Windows({e \in F \cup R : Due(e)}, Older)

DueBatches == UNION {DueWindows(F, R) : F \in FreshWindows, R \in RetryWindows}

-----------------------------------------------------------------------------
\* sendFireAndForget, in outbox mode
Enqueue ==
    /\ made < NumEntries
    /\ made' = made + 1
    /\ table' = table \cup {made + 1}
    /\ UNCHANGED <<attempts, age, batch, call, crashes, served>>

\* flushOnce up to its loop
Running(f) == batch[f] # {} \/ call[f] # Idle

StartFlush(f) ==
    /\ ~Running(f)
    /\ \E B \in DueBatches \ {{}} :
          batch' = [batch EXCEPT ![f] = {[id |-> e, attempts |-> attempts[e]] : e \in B}]
    /\ UNCHANGED <<table_vars, call, crashes, served>>

\* The loop takes the oldest row of the batch when the previous one settled.
TakeOldest(f, s) ==
    /\ call[f] = Idle
    /\ s \in batch[f]
    /\ \A t \in batch[f] : s.id <= t.id
    /\ batch' = [batch EXCEPT ![f] = @ \ {s}]

\* Mutant of Exhausted: off by one.
ExhaustedLate(s) == s.attempts > MaxAttempts

\* deliverEntry: the snapshot's attempts, not the row's, decide.
Exhausted(s) == s.attempts >= MaxAttempts

DropExhausted(f) ==
    /\ \E s \in batch[f] :
          /\ TakeOldest(f, s)
          /\ Exhausted(s)
          /\ table' = table \ {s.id}
    /\ UNCHANGED <<made, attempts, age, call, crashes, served>>

Send(f) ==
    /\ \E s \in batch[f] :
          /\ TakeOldest(f, s)
          /\ ~Exhausted(s)
          /\ call' = [call EXCEPT ![f] = [entry |-> s.id, answer |-> "none"]]
    /\ UNCHANGED <<table_vars, crashes, served>>

\* The coordinator handles the request.  External to the beacon.
Handle(f, a) ==
    /\ call[f].entry # NoEntry
    /\ call[f].answer = "none"
    /\ call' = [call EXCEPT ![f].answer = a]
    /\ served' = IF a \in {"accepted", "missing"} THEN served \cup {call[f].entry}
                 ELSE served
    /\ UNCHANGED <<table_vars, batch, crashes>>

\* Mutant of Delivered: any answer counts.
DeliveredAnyAnswer(f) ==
    /\ call[f].answer \in Answer
    /\ table' = table \ {call[f].entry}
    /\ call' = [call EXCEPT ![f] = Idle]
    /\ UNCHANGED <<made, attempts, age, batch, crashes, served>>

\* res.ok || res.status === 404
Delivered(f) ==
    /\ call[f].answer \in {"accepted", "missing"}
    /\ table' = table \ {call[f].entry}
    /\ call' = [call EXCEPT ![f] = Idle]
    /\ UNCHANGED <<made, attempts, age, batch, crashes, served>>

\* Mutants of MarkFailed: the attempt is not counted, or counted backwards.
MarkFailedUncounted(e) ==
    /\ age' = IF e \in table THEN [age EXCEPT ![e] = 0] ELSE age
    /\ UNCHANGED attempts

MarkFailedBackwards(e) ==
    /\ attempts' = [attempts EXCEPT ![e] = @ - 1]
    /\ UNCHANGED age

\* Any other status, or fetch threw: before the coordinator handled the
\* request, or after it, when the response is lost.
MarkFailed(e) ==
    IF e \in table
    THEN /\ attempts' = [attempts EXCEPT ![e] = @ + 1]
         /\ age' = [age EXCEPT ![e] = 0]
    ELSE UNCHANGED <<attempts, age>>

\* Mutant of Failed: the row is written back instead of updated in place.
FailedUpsert(f) ==
    /\ call[f].entry # NoEntry
    /\ MarkFailed(call[f].entry)
    /\ table' = table \cup {call[f].entry}
    /\ call' = [call EXCEPT ![f] = Idle]
    /\ UNCHANGED <<made, batch, crashes, served>>

Failed(f) ==
    /\ call[f].entry # NoEntry
    /\ MarkFailed(call[f].entry)
    /\ call' = [call EXCEPT ![f] = Idle]
    /\ UNCHANGED <<made, table, batch, crashes, served>>

Tick ==
    /\ \E e \in Retries : age[e] < MaxAge
    /\ age' = [e \in Entry |->
                 IF e \in Retries /\ age[e] < MaxAge THEN age[e] + 1 ELSE age[e]]
    /\ UNCHANGED <<made, table, attempts, batch, call, crashes, served>>

\* The process dies and starts again: the table is on disk, flushes are not.
Crash ==
    /\ crashes < MaxCrashes
    /\ crashes' = crashes + 1
    /\ batch' = [f \in Flusher |-> {}]
    /\ call' = [f \in Flusher |-> Idle]
    /\ UNCHANGED <<table_vars, served>>

FlushStep(f) ==
    \/ StartFlush(f)
    \/ DropExhausted(f)
    \/ Send(f)
    \/ \E a \in Answer : Handle(f, a)
    \/ Delivered(f)
    \/ Failed(f)

Next ==
    \/ Enqueue
    \/ \E f \in Flusher : FlushStep(f)
    \/ Tick
    \/ Crash

Spec == Init /\ [][Next]_vars

\* The timer keeps firing, time passes and every fetch settles: it is answered
\* or it throws.  Nothing makes the beacon enqueue or crash.
Fairness ==
    /\ WF_vars(Tick)
    /\ \A f \in Flusher :
          /\ WF_vars(StartFlush(f))
          /\ WF_vars(DropExhausted(f) \/ Send(f))
          /\ WF_vars(Delivered(f) \/ Failed(f))

FairSpec == Spec /\ Fairness

-----------------------------------------------------------------------------
(* A row leaves the table only after the coordinator answered a request for  *)
(* it with 2xx or 404, or after MaxAttempts failed deliveries: overlapping   *)
(* flushes, lost responses and crashes never lose a write (ADR 151: "now     *)
(* lossless across coordinator downtime and beacon restarts").               *)
NoSilentLoss ==
    \A e \in 1..made : e \in table \/ e \in served \/ attempts[e] >= MaxAttempts

(* A flush that reports on a row another flush already deleted does not bring *)
(* it back (markOutboxFailed is an UPDATE by id).                             *)
DeletedStaysDeleted == [][\A e \in 1..made : e \notin table => e \notin table']_vars

\* An entry in the life of DurableQueue
StateOf(e) == IF e > made THEN "absent" ELSE IF e \in table THEN "queued" ELSE "gone"

Queue == INSTANCE DurableQueue
            WITH Item <- Entry, Enough <- MaxAttempts,
                 state <- [e \in Entry |-> StateOf(e)], delivered <- served, tries <- attempts

(* The table, its overlapping flushes and its crashes keep the promise of     *)
(* ADR 151: a write is kept until it was answered or tried MaxAttempts times, *)
(* leaves once, and is neither counted nor brought back after it left.        *)
KeepsQueue == Queue!Spec

(* Overlapping flushes deliver from stale snapshots, so a row can be tried    *)
(* more often than maxAttempts: at most once more per further flush.          *)
BoundedOvershoot ==
    \A e \in Entry : attempts[e] <= MaxAttempts + Cardinality(Flusher) - 1

(* Once crashes stop, every row leaves the table: backoff, the LIMIT-ed       *)
(* queries and the oldest-first order starve none.                            *)
EveryRowSettles == \A e \in Entry : e \in table ~> e \notin table
=============================================================================
