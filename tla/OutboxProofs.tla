---------------------------- MODULE OutboxProofs ----------------------------
(***************************************************************************)
(* Proofs about Outbox, for any number of rows, overlapping flushes,       *)
(* attempts, batch size and crashes.                                       *)
(*                                                                         *)
(* The type invariant and NoSilentLoss are not inductive: a flush deletes  *)
(* a row because of a snapshot it took, or an answer it got, some steps    *)
(* before.  OutboxInv adds what is known of those in between.  On it rest  *)
(* the refinement of DurableQueue and what is said of batches and flushes. *)
(***************************************************************************)
EXTENDS Outbox, FiniteSetTheorems, TLAPS

\* A flush holds snapshots of rows that exist, no younger than the rows.
SnapshotsKnown ==
    \A f \in Flusher : \A s \in batch[f] :
        s.id \in 1..made /\ s.attempts <= attempts[s.id]

\* A request is about a row that exists, and its good answer is no invention.
CallsKnown ==
    \A f \in Flusher :
        /\ call[f].entry # NoEntry => call[f].entry \in 1..made
        /\ call[f].answer # "none" => call[f].entry # NoEntry
        /\ call[f].answer \in {"accepted", "missing"} => call[f].entry \in served

OutboxInv == TypeOK /\ SnapshotsKnown /\ CallsKnown /\ NoSilentLoss

-----------------------------------------------------------------------------
\* The rows of a batch are rows of the table.
LEMMA DueBatchesInTable ==
    \A B \in DueBatches : B \subseteq table
  <1>1. \A F \in FreshWindows : F \subseteq table
    BY DEF FreshWindows, Windows, Fresh
  <1>2. \A R \in RetryWindows : R \subseteq table
    BY DEF RetryWindows, Windows, Retries
  <1>3. \A F, R : \A B \in DueWindows(F, R) : B \subseteq F \cup R
    BY DEF DueWindows, Windows
  <1> QED BY <1>1, <1>2, <1>3 DEF DueBatches

\* Rows have the types the invariant gives them: what later proofs use of it.
LEMMA ConstantsTyped ==
    /\ NumEntries \in Nat
    /\ MaxAttempts \in Nat \ {0}
    /\ MaxAge \in Nat
    /\ MaxCrashes \in Nat
    /\ NoEntry \notin Entry
  BY NumEntriesAssumption, MaxAttemptsAssumption, TimingAssumption, MaxCrashesAssumption
     DEF Entry, NoEntry

LEMMA InitInv == Init => OutboxInv
  BY ConstantsTyped
     DEF Init, OutboxInv, TypeOK, SnapshotsKnown, CallsKnown, NoSilentLoss,
         Idle, Answer, Snapshot, Entry, NoEntry

-----------------------------------------------------------------------------
LEMMA EnqueueInv == OutboxInv /\ Enqueue => OutboxInv'
  <1> SUFFICES ASSUME OutboxInv, Enqueue PROVE OutboxInv'
    OBVIOUS
  <1> USE ConstantsTyped DEF OutboxInv, TypeOK, Entry
  <1>1. made' = made + 1 /\ made' \in 0..NumEntries /\ 1..made \subseteq 1..made'
    BY DEF Enqueue
  <1>2. TypeOK'
    BY <1>1 DEF Enqueue
  <1>3. SnapshotsKnown'
    BY <1>1 DEF Enqueue, SnapshotsKnown
  <1>4. CallsKnown'
    BY <1>1 DEF Enqueue, CallsKnown
  <1>5. NoSilentLoss'
    BY <1>1 DEF Enqueue, NoSilentLoss
  <1> QED BY <1>2, <1>3, <1>4, <1>5

LEMMA StartFlushInv ==
    ASSUME NEW f \in Flusher, OutboxInv, StartFlush(f)
    PROVE  OutboxInv'
  <1> USE ConstantsTyped DEF OutboxInv, TypeOK, Entry, table_vars
  <1>1. PICK B \in DueBatches :
          batch' = [batch EXCEPT ![f] = {[id |-> e, attempts |-> attempts[e]] : e \in B}]
    BY DEF StartFlush
  <1> DEFINE Snaps == {[id |-> e, attempts |-> attempts[e]] : e \in B}
  <1>2. UNCHANGED <<made, table, attempts, age, call, crashes, served>>
    BY DEF StartFlush
  <1>3. \A s \in Snaps : s \in Snapshot /\ s.id \in 1..made /\ s.attempts <= attempts[s.id]
    <2>1. B \subseteq table
      BY DueBatchesInTable, Zenon
    <2>2. 1..made \subseteq Entry
      OBVIOUS
    <2>3. B \subseteq 1..made /\ B \subseteq Entry
      BY <2>1, <2>2
    <2> QED BY <2>3 DEF Snapshot
  <1>4. TypeOK'
    BY <1>1, <1>2, <1>3
  <1>5. SnapshotsKnown'
    BY <1>1, <1>2, <1>3 DEF SnapshotsKnown
  <1>6. CallsKnown' /\ NoSilentLoss'
    BY <1>2 DEF CallsKnown, NoSilentLoss
  <1> QED BY <1>4, <1>5, <1>6

LEMMA DropExhaustedInv ==
    ASSUME NEW f \in Flusher, OutboxInv, DropExhausted(f)
    PROVE  OutboxInv'
  <1> USE ConstantsTyped DEF OutboxInv, TypeOK, Entry
  <1>1. PICK s \in batch[f] : TakeOldest(f, s) /\ Exhausted(s) /\ table' = table \ {s.id}
    BY DEF DropExhausted
  <1>2. UNCHANGED <<made, attempts, age, call, crashes, served>>
    BY DEF DropExhausted
  <1>3. batch' = [batch EXCEPT ![f] = @ \ {s}]
    BY <1>1 DEF TakeOldest
  <1>4. s.id \in 1..made /\ attempts[s.id] >= MaxAttempts
    BY <1>1 DEF SnapshotsKnown, Exhausted, Snapshot
  <1>5. TypeOK' /\ SnapshotsKnown' /\ CallsKnown'
    BY <1>1, <1>2, <1>3 DEF SnapshotsKnown, CallsKnown
  <1>6. NoSilentLoss'
    BY <1>1, <1>2, <1>4 DEF NoSilentLoss
  <1> QED BY <1>5, <1>6

LEMMA SendInv ==
    ASSUME NEW f \in Flusher, OutboxInv, Send(f)
    PROVE  OutboxInv'
  <1> USE ConstantsTyped DEF OutboxInv, TypeOK, Entry, table_vars
  <1>1. PICK s \in batch[f] :
          TakeOldest(f, s) /\ call' = [call EXCEPT ![f] = [entry |-> s.id, answer |-> "none"]]
    BY DEF Send
  <1>2. UNCHANGED <<made, table, attempts, age, crashes, served>>
    BY DEF Send
  <1>3. batch' = [batch EXCEPT ![f] = @ \ {s}]
    BY <1>1 DEF TakeOldest
  <1>4. s.id \in 1..made
    BY <1>1 DEF SnapshotsKnown
  <1>5. TypeOK'
    BY <1>1, <1>2, <1>3, <1>4
  <1>6. SnapshotsKnown' /\ NoSilentLoss'
    BY <1>2, <1>3 DEF SnapshotsKnown, NoSilentLoss
  <1>7. CallsKnown'
    BY <1>1, <1>2, <1>4 DEF CallsKnown, NoEntry
  <1> QED BY <1>5, <1>6, <1>7

LEMMA HandleInv ==
    ASSUME NEW f \in Flusher, NEW a \in Answer, OutboxInv, Handle(f, a)
    PROVE  OutboxInv'
  <1> USE ConstantsTyped DEF OutboxInv, TypeOK, Entry, table_vars
  <1>1. UNCHANGED <<made, table, attempts, age, batch, crashes>>
    BY DEF Handle
  <1>2. /\ call[f].entry \in 1..made
        /\ call' = [call EXCEPT ![f].answer = a]
        /\ served \subseteq served' /\ served' \subseteq served \cup {call[f].entry}
        /\ a \in {"accepted", "missing"} => call[f].entry \in served'
    BY DEF Handle, CallsKnown
  <1>3. TypeOK'
    BY <1>1, <1>2
  <1>4. SnapshotsKnown' /\ NoSilentLoss'
    BY <1>1, <1>2 DEF SnapshotsKnown, NoSilentLoss
  <1>5. CallsKnown'
    BY <1>1, <1>2 DEF CallsKnown, NoEntry
  <1> QED BY <1>3, <1>4, <1>5

LEMMA DeliveredInv ==
    ASSUME NEW f \in Flusher, OutboxInv, Delivered(f)
    PROVE  OutboxInv'
  <1> USE ConstantsTyped DEF OutboxInv, TypeOK, Entry
  <1>1. UNCHANGED <<made, attempts, age, batch, crashes, served>>
    BY DEF Delivered
  <1>2. /\ call[f].entry \in served
        /\ table' = table \ {call[f].entry}
        /\ call' = [call EXCEPT ![f] = Idle]
    BY DEF Delivered, CallsKnown
  <1>3. TypeOK' /\ CallsKnown'
    BY <1>1, <1>2 DEF CallsKnown, Idle, NoEntry
  <1>4. SnapshotsKnown' /\ NoSilentLoss'
    BY <1>1, <1>2 DEF SnapshotsKnown, NoSilentLoss
  <1> QED BY <1>3, <1>4

\* A failed delivery adds to a row's attempts and touches nothing else of it.
LEMMA MarkFailedGrows ==
    ASSUME TypeOK, NEW e \in Entry, MarkFailed(e)
    PROVE  /\ attempts' \in [Entry -> Nat]
           /\ age' \in [Entry -> 0..MaxAge]
           /\ \A x \in Entry : attempts[x] <= attempts'[x]
  BY ConstantsTyped DEF TypeOK, MarkFailed

LEMMA FailedInv ==
    ASSUME NEW f \in Flusher, OutboxInv, Failed(f)
    PROVE  OutboxInv'
  <1> USE ConstantsTyped DEF OutboxInv, TypeOK, Entry
  <1>1. UNCHANGED <<made, table, batch, crashes, served>>
    BY DEF Failed
  <1>2. call[f].entry \in Entry /\ MarkFailed(call[f].entry)
    BY DEF Failed, NoEntry
  <1>3. call' = [call EXCEPT ![f] = Idle]
    BY DEF Failed
  <1>4. /\ attempts' \in [Entry -> Nat]
        /\ age' \in [Entry -> 0..MaxAge]
        /\ \A x \in Entry : attempts[x] <= attempts'[x]
    BY <1>2, MarkFailedGrows
  <1>5. TypeOK' /\ CallsKnown'
    BY <1>1, <1>3, <1>4 DEF CallsKnown, Idle, NoEntry
  <1>6. SnapshotsKnown'
    BY <1>1, <1>4 DEF SnapshotsKnown, Snapshot
  <1>7. NoSilentLoss'
    BY <1>1, <1>4 DEF NoSilentLoss
  <1> QED BY <1>5, <1>6, <1>7

LEMMA TickInv == OutboxInv /\ Tick => OutboxInv'
  <1> SUFFICES ASSUME OutboxInv, Tick PROVE OutboxInv'
    OBVIOUS
  <1> USE ConstantsTyped DEF OutboxInv, TypeOK
  <1>1. UNCHANGED <<made, table, attempts, batch, call, crashes, served>>
    BY DEF Tick
  <1>2. age' \in [Entry -> 0..MaxAge]
    BY DEF Tick
  <1> QED BY <1>1, <1>2 DEF SnapshotsKnown, CallsKnown, NoSilentLoss

LEMMA CrashInv == OutboxInv /\ Crash => OutboxInv'
  BY ConstantsTyped
     DEF OutboxInv, TypeOK, Crash, SnapshotsKnown, CallsKnown, NoSilentLoss,
         table_vars, Idle, NoEntry

LEMMA StepInv == OutboxInv /\ [Next]_vars => OutboxInv'
  <1> SUFFICES ASSUME OutboxInv, [Next]_vars PROVE OutboxInv'
    OBVIOUS
  <1>1. CASE Enqueue
    BY <1>1, EnqueueInv
  <1>2. CASE \E f \in Flusher : FlushStep(f)
    <2>1. PICK f \in Flusher : FlushStep(f)
      BY <1>2
    <2> QED BY <2>1, StartFlushInv, DropExhaustedInv, SendInv, HandleInv,
               DeliveredInv, FailedInv DEF FlushStep
  <1>3. CASE Tick
    BY <1>3, TickInv
  <1>4. CASE Crash
    BY <1>4, CrashInv
  <1>5. CASE UNCHANGED vars
    BY <1>5 DEF OutboxInv, TypeOK, SnapshotsKnown, CallsKnown, NoSilentLoss, vars
  <1> QED BY <1>1, <1>2, <1>3, <1>4, <1>5 DEF Next

-----------------------------------------------------------------------------
(* The strengthened invariant holds of every behaviour.                      *)
THEOREM OutboxInvariant == Spec => []OutboxInv
  BY InitInv, StepInv, PTL DEF Spec

(* The state of the outbox keeps its types, whatever flushes overlap.        *)
THEOREM TypeCorrect == Spec => []TypeOK
  <1>1. OutboxInv => TypeOK
    BY DEF OutboxInv
  <1> QED BY <1>1, OutboxInvariant, PTL

(* outbox.ts and outbox-flusher.ts never lose a write silently: a row is     *)
(* deleted only when the coordinator answered it, or when it used up its     *)
(* attempts.                                                                 *)
THEOREM NothingLostSilently == Spec => []NoSilentLoss
  <1>1. OutboxInv => NoSilentLoss
    BY DEF OutboxInv
  <1> QED BY <1>1, OutboxInvariant, PTL

(* markOutboxFailed never brings back a row that another flush deleted.      *)
THEOREM DeletedForGood == Spec => DeletedStaysDeleted
  <1>1. TypeOK /\ [Next]_vars => [\A e \in 1..made : e \notin table => e \notin table']_vars
    <2> SUFFICES ASSUME TypeOK, Next, NEW e \in 1..made, e \notin table
                 PROVE  e \notin table'
      BY DEF Next
    <2> USE DEF table_vars
    <2>1. CASE Enqueue
      BY <2>1 DEF Enqueue, TypeOK
    <2>2. CASE \E f \in Flusher : FlushStep(f)
      BY <2>2 DEF FlushStep, StartFlush, DropExhausted, Send, Handle, Delivered, Failed
    <2>3. CASE Tick
      BY <2>3 DEF Tick
    <2>4. CASE Crash
      BY <2>4 DEF Crash
    <2> QED BY <2>1, <2>2, <2>3, <2>4 DEF Next
  <1> QED BY <1>1, TypeCorrect, PTL DEF Spec, DeletedStaysDeleted

-----------------------------------------------------------------------------
(***************************************************************************)
(* BoundedOvershoot.  A flush holds a row when it is delivering it, or     *)
(* will because its snapshot still had attempts left.  Once the row itself *)
(* has none left no flush can start to hold it, and each further failure   *)
(* is that of a flush that then lets go of it.                             *)
(***************************************************************************)
Holds(f, e) ==
    \/ call[f].entry = e
    \/ \E s \in batch[f] : s.id = e /\ ~Exhausted(s)

Holders(e) == {f \in Flusher : Holds(f, e)}

HoldsOnce ==
    \A f \in Flusher :
        /\ \A s, t \in batch[f] : s.id = t.id => s = t
        /\ \A s \in batch[f] : s.id # call[f].entry

Budget ==
    \A e \in Entry : attempts[e] >= MaxAttempts =>
        attempts[e] + Cardinality(Holders(e)) <= MaxAttempts + Cardinality(Flusher) - 1

OvershootInv == HoldsOnce /\ Budget

\* Cardinalities of sets of flushes: naturals, and monotone.
LEMMA FlusherSubsets ==
    ASSUME NEW S, NEW T, S \subseteq T, T \subseteq Flusher
    PROVE  /\ Cardinality(S) \in Nat /\ Cardinality(T) \in Nat
           /\ Cardinality(S) <= Cardinality(T)
           /\ \A f \in T : Cardinality(T \ {f}) = Cardinality(T) - 1
  <1>1. IsFiniteSet(T)
    BY FlusherAssumption, FS_Subset
  <1>2. IsFiniteSet(S) /\ Cardinality(S) <= Cardinality(T)
    BY <1>1, FS_Subset
  <1>3. \A f \in T : Cardinality(T \ {f}) = Cardinality(T) - 1
    BY <1>1, FS_RemoveElement
  <1> QED BY <1>1, <1>2, <1>3, FS_CardinalityType

\* A row out of attempts that no step gives a new holder stays in budget.
LEMMA BudgetKept ==
    ASSUME TypeOK, Budget,
           \A e \in Entry : attempts'[e] = attempts[e],
           \A e \in Entry : attempts[e] >= MaxAttempts => Holders(e)' \subseteq Holders(e)
    PROVE  Budget'
  <1> SUFFICES ASSUME NEW e \in Entry, attempts'[e] >= MaxAttempts
               PROVE  attempts'[e] + Cardinality(Holders(e)')
                         <= MaxAttempts + Cardinality(Flusher) - 1
    BY DEF Budget
  <1>1. Holders(e)' \subseteq Holders(e) /\ Holders(e) \subseteq Flusher
    BY DEF Holders
  <1>2. /\ Cardinality(Holders(e)') \in Nat
        /\ Cardinality(Holders(e)) \in Nat
        /\ Cardinality(Flusher) \in Nat
        /\ Cardinality(Holders(e)') <= Cardinality(Holders(e))
    BY <1>1, FlusherSubsets
  <1>3. attempts[e] + Cardinality(Holders(e)) <= MaxAttempts + Cardinality(Flusher) - 1
    BY DEF Budget
  <1>4. attempts'[e] = attempts[e] /\ attempts[e] \in Nat /\ MaxAttempts \in Nat
    BY ConstantsTyped DEF TypeOK
  <1> QED BY <1>2, <1>3, <1>4

LEMMA FailedBudget ==
    ASSUME NEW f \in Flusher, TypeOK, OvershootInv, Failed(f)
    PROVE  OvershootInv'
  <1> USE ConstantsTyped DEF TypeOK, OvershootInv
  <1>1. UNCHANGED batch /\ call' = [call EXCEPT ![f] = Idle]
    BY DEF Failed
  <1>2. PICK e0 \in Entry : e0 = call[f].entry /\ MarkFailed(e0)
    BY DEF Failed
  <1>3. HoldsOnce'
    BY <1>1 DEF HoldsOnce, Idle, Snapshot, NoEntry, Entry
  <1>4. \A e \in Entry : Holders(e)' \subseteq Holders(e)
    BY <1>1 DEF Holders, Holds, Exhausted, Idle, NoEntry, Entry
  <1>5. f \in Holders(e0) /\ f \notin Holders(e0)'
    BY <1>1, <1>2 DEF Holders, Holds, HoldsOnce, Idle, NoEntry, Entry
  <1>6. Budget'
    <2>1. CASE UNCHANGED attempts
      BY <2>1, <1>4, BudgetKept
    <2>2. CASE attempts' = [attempts EXCEPT ![e0] = @ + 1]
      <3> SUFFICES ASSUME NEW e \in Entry, attempts'[e] >= MaxAttempts
                   PROVE  attempts'[e] + Cardinality(Holders(e)')
                             <= MaxAttempts + Cardinality(Flusher) - 1
        BY DEF Budget
      <3> DEFINE before == Cardinality(Holders(e))
                 after == Cardinality(Holders(e)')
                 all == Cardinality(Flusher)
      <3>1. Holders(e)' \subseteq Holders(e) /\ Holders(e) \subseteq Flusher
        BY <1>4 DEF Holders
      <3>2. after \in Nat /\ before \in Nat /\ all \in Nat /\ after <= before
        BY <3>1, FlusherSubsets
      <3>3. attempts[e] \in Nat /\ MaxAttempts \in Nat
        OBVIOUS
      <3>4. attempts[e] >= MaxAttempts => attempts[e] + before <= MaxAttempts + all - 1
        BY DEF Budget
      <3>5. CASE e # e0
        <4>1. attempts'[e] = attempts[e]
          BY <2>2, <3>5
        <4> QED BY <4>1, <3>2, <3>3, <3>4
      <3>6. CASE e = e0
        <4>1. attempts'[e] = attempts[e] + 1
          BY <2>2, <3>6
        <4>2. Holders(e)' \subseteq Holders(e) \ {f} /\ f \in Holders(e)
          BY <3>1, <3>6, <1>5
        <4>3. after <= before - 1
          <5>1. Holders(e) \ {f} \subseteq Flusher
            BY <3>1
          <5>2. Cardinality(Holders(e)') <= Cardinality(Holders(e) \ {f})
            BY <4>2, <5>1, FlusherSubsets
          <5>3. Cardinality(Holders(e) \ {f}) = Cardinality(Holders(e)) - 1
            BY <4>2, <3>1, FlusherSubsets
          <5> QED BY <5>2, <5>3
        <4>4. before <= all
          BY <3>1, FlusherSubsets
        <4> QED BY <4>1, <4>3, <4>4, <3>2, <3>3, <3>4
      <3> QED BY <3>5, <3>6
    <2> QED BY <2>1, <2>2, <1>2, Zenon DEF MarkFailed
  <1> QED BY <1>3, <1>6

LEMMA StartFlushBudget ==
    ASSUME NEW f \in Flusher, TypeOK, OvershootInv, StartFlush(f)
    PROVE  OvershootInv'
  <1> USE ConstantsTyped DEF TypeOK, OvershootInv, table_vars
  <1>1. PICK B \in DueBatches :
          batch' = [batch EXCEPT ![f] = {[id |-> e, attempts |-> attempts[e]] : e \in B}]
    BY DEF StartFlush
  <1>2. call[f] = Idle /\ UNCHANGED <<attempts, call>>
    BY DEF StartFlush, Running
  <1>3. B \subseteq Entry
    <2>1. B \subseteq table
      BY DueBatchesInTable, Zenon
    <2> QED BY <2>1 DEF Entry
  <1>4. HoldsOnce'
    BY <1>1, <1>2, <1>3 DEF HoldsOnce, Idle, NoEntry, Entry
  <1>5. ASSUME NEW e \in Entry, attempts[e] >= MaxAttempts
        PROVE  Holders(e)' \subseteq Holders(e)
    BY <1>1, <1>2, <1>5 DEF Holders, Holds, Exhausted
  <1>6. Budget'
    BY <1>2, <1>5, BudgetKept
  <1> QED BY <1>4, <1>6

\* The flush takes a row from its batch: to deliver it, or to drop it.
LEMMA TakeBudget ==
    ASSUME NEW f \in Flusher, TypeOK, OvershootInv, DropExhausted(f) \/ Send(f)
    PROVE  OvershootInv'
  <1> USE ConstantsTyped DEF TypeOK, OvershootInv, table_vars
  <1>1. PICK s \in batch[f] :
          /\ TakeOldest(f, s)
          /\ \/ UNCHANGED call
             \/ ~Exhausted(s) /\ call' = [call EXCEPT ![f] = [entry |-> s.id, answer |-> "none"]]
    BY DEF DropExhausted, Send
  <1>2. UNCHANGED attempts /\ batch' = [batch EXCEPT ![f] = @ \ {s}] /\ s \in Snapshot
    BY <1>1 DEF DropExhausted, Send, TakeOldest
  <1>3. HoldsOnce'
    BY <1>1, <1>2 DEF HoldsOnce
  <1>4. \A e \in Entry : Holders(e)' \subseteq Holders(e)
    BY <1>1, <1>2 DEF Holders, Holds, Exhausted
  <1>5. Budget'
    BY <1>2, <1>4, BudgetKept
  <1> QED BY <1>3, <1>5

LEMMA StepBudget == TypeOK /\ OvershootInv /\ [Next]_vars => OvershootInv'
  <1> SUFFICES ASSUME TypeOK, OvershootInv, [Next]_vars PROVE OvershootInv'
    OBVIOUS
  <1> USE DEF OvershootInv, table_vars
  <1>1. ASSUME UNCHANGED <<attempts, batch>>,
               \A f \in Flusher : call'[f].entry \in {call[f].entry, NoEntry}
        PROVE  OvershootInv'
    <2>1. HoldsOnce'
      BY <1>1 DEF HoldsOnce, TypeOK, Snapshot, NoEntry, Entry
    <2>2. \A e \in Entry : Holders(e)' \subseteq Holders(e)
      BY <1>1 DEF Holders, Holds, Exhausted, NoEntry, Entry
    <2>3. Budget'
      BY <1>1, <2>2, BudgetKept
    <2> QED BY <2>1, <2>3
  <1>2. CASE Enqueue \/ Tick \/ UNCHANGED vars
    BY <1>2, <1>1 DEF Enqueue, Tick, vars
  <1>3. CASE Crash
    <2>1. UNCHANGED attempts /\ HoldsOnce'
      BY <1>3 DEF Crash, HoldsOnce
    <2>2. \A e \in Entry : Holders(e)' \subseteq Holders(e)
      BY <1>3 DEF Crash, Holders, Holds, Idle, NoEntry, Entry
    <2> QED BY <2>1, <2>2, BudgetKept
  <1>4. ASSUME NEW f \in Flusher, FlushStep(f)
        PROVE  OvershootInv'
    <2>1. ASSUME NEW a \in Answer, Handle(f, a)
          PROVE  OvershootInv'
      <3>1. call' = [call EXCEPT ![f].answer = a] /\ UNCHANGED <<attempts, batch>>
        BY <2>1 DEF Handle
      <3> QED BY <3>1, <1>1 DEF TypeOK
    <2>2. CASE Delivered(f)
      <3>1. call' = [call EXCEPT ![f] = Idle] /\ UNCHANGED <<attempts, batch>>
        BY <2>2 DEF Delivered
      <3> QED BY <3>1, <1>1 DEF TypeOK, Idle
    <2> QED BY <2>1, <2>2, <1>4, StartFlushBudget, TakeBudget, FailedBudget DEF FlushStep
  <1> QED BY <1>2, <1>3, <1>4 DEF Next

LEMMA InitBudget == Init => OvershootInv
  BY ConstantsTyped DEF Init, OvershootInv, HoldsOnce, Budget

LEMMA BudgetBounds == TypeOK /\ OvershootInv => BoundedOvershoot
  <1> SUFFICES ASSUME TypeOK, OvershootInv, NEW e \in Entry
               PROVE  attempts[e] <= MaxAttempts + Cardinality(Flusher) - 1
    BY DEF BoundedOvershoot
  <1>1. Holders(e) \subseteq Flusher
    BY DEF Holders
  <1>2. Cardinality(Holders(e)) \in Nat /\ Cardinality(Flusher) \in Nat
    BY <1>1, FlusherSubsets
  <1>3. Cardinality(Flusher) # 0
    BY FlusherAssumption, FS_EmptySet
  <1>4. attempts[e] \in Nat /\ MaxAttempts \in Nat
    BY ConstantsTyped DEF TypeOK
  <1>5. attempts[e] >= MaxAttempts =>
          attempts[e] + Cardinality(Holders(e)) <= MaxAttempts + Cardinality(Flusher) - 1
    BY DEF OvershootInv, Budget
  <1> QED BY <1>2, <1>3, <1>4, <1>5

(* However many flushes overlap, a row is delivered at most once more than   *)
(* maxAttempts allows for each of them but one.                              *)
THEOREM OvershootBounded == Spec => []BoundedOvershoot
  <1>1. Init => OvershootInv
    BY InitBudget
  <1> QED BY <1>1, StepBudget, BudgetBounds, TypeCorrect, PTL DEF Spec

-----------------------------------------------------------------------------
(***************************************************************************)
(* The refinement of DurableQueue                                          *)
(***************************************************************************)

States == [e \in Entry |-> StateOf(e)]

LEMMA QueueInit == Init => Queue!Init
  <1> SUFFICES ASSUME Init PROVE Queue!Init
    OBVIOUS
  <1>1. \A e \in Entry : StateOf(e) = "absent"
    BY DEF Init, StateOf, Entry
  <1> QED BY <1>1 DEF Init, Queue!Init

\* A row leaves the table after an answer, or when it was tried often enough.
LEMMA Leaving ==
    ASSUME OutboxInv, NEW e \in 1..made, table' = table \ {e}, made' = made,
           UNCHANGED <<attempts, served>>, e \in served \/ attempts[e] >= MaxAttempts
    PROVE  Queue!Forget(e) \/ UNCHANGED Queue!vars
  <1> USE DEF OutboxInv, TypeOK
  <1>1. e \in Entry /\ StateOf(e) = IF e \in table THEN "queued" ELSE "gone"
    BY ConstantsTyped DEF Entry, StateOf
  <1>2. CASE e \in table
    <2>1. \A x \in Entry : StateOf(x)' = IF x = e THEN "gone" ELSE StateOf(x)
      BY <1>2, ConstantsTyped DEF StateOf, Entry
    <2>2. States' = [States EXCEPT ![e] = "gone"]
      BY <1>1, <2>1 DEF States
    <2>3. States[e] = "queued"
      BY <1>1, <1>2 DEF States
    <2> QED BY <2>2, <2>3 DEF States, Queue!Forget
  <1>3. CASE e \notin table
    <2>1. table' = table
      BY <1>3
    <2> QED BY <2>1 DEF StateOf, Queue!vars
  <1> QED BY <1>2, <1>3

LEMMA QueueStep ==
    ASSUME OutboxInv, [Next]_vars
    PROVE  Queue!Next \/ UNCHANGED Queue!vars
  <1> USE ConstantsTyped DEF OutboxInv, TypeOK, table_vars
  <1>1. CASE UNCHANGED <<made, table, attempts, served>>
    BY <1>1 DEF StateOf, Queue!vars
  <1>2. CASE Enqueue
    <2>1. made + 1 \in Entry /\ made' = made + 1 /\ table' = table \cup {made + 1}
      BY <1>2 DEF Enqueue, Entry
    <2>2. \A x \in Entry : StateOf(x)' = IF x = made + 1 THEN "queued" ELSE StateOf(x)
      BY <2>1 DEF StateOf, Entry
    <2>3. States' = [States EXCEPT ![made + 1] = "queued"]
      BY <2>1, <2>2 DEF States
    <2>4. States[made + 1] = "absent"
      BY <2>1 DEF States, StateOf
    <2>5. Queue!Put(made + 1)
      BY <1>2, <2>3, <2>4 DEF Enqueue, States, Queue!Put
    <2> QED BY <2>1, <2>5 DEF Queue!Next
  <1>3. ASSUME NEW f \in Flusher, DropExhausted(f)
        PROVE  Queue!Next \/ UNCHANGED Queue!vars
    <2>1. PICK s \in batch[f] : TakeOldest(f, s) /\ Exhausted(s) /\ table' = table \ {s.id}
      BY <1>3 DEF DropExhausted
    <2>2. s.id \in 1..made /\ s.attempts <= attempts[s.id] /\ s \in Snapshot
      BY <2>1 DEF SnapshotsKnown
    <2>3. s.id \in Entry /\ attempts[s.id] >= MaxAttempts
      BY <2>1, <2>2 DEF Exhausted, Snapshot, Entry
    <2> QED BY <1>3, <2>1, <2>2, <2>3, Leaving DEF DropExhausted, Queue!Next
  <1>4. ASSUME NEW f \in Flusher, Delivered(f)
        PROVE  Queue!Next \/ UNCHANGED Queue!vars
    <2> DEFINE e == call[f].entry
    <2>1. e \in served /\ e \in 1..made /\ e \in Entry
      BY <1>4 DEF Delivered, CallsKnown, Entry
    <2> QED BY <1>4, <2>1, Leaving DEF Delivered, Queue!Next
  <1>5. ASSUME NEW f \in Flusher, NEW a \in Answer, Handle(f, a)
        PROVE  Queue!Next \/ UNCHANGED Queue!vars
    <2> DEFINE e == call[f].entry
    <2>1. e \in 1..made /\ e \in Entry
      BY <1>5 DEF Handle, CallsKnown, Entry
    <2>2. UNCHANGED <<made, table, attempts>> /\ served' \in {served, served \cup {e}}
      BY <1>5 DEF Handle
    <2>3. States' = States /\ States[e] # "absent"
      BY <2>1, <2>2 DEF States, StateOf
    <2>4. Queue!Deliver(e) \/ UNCHANGED Queue!vars
      BY <2>2, <2>3 DEF States, Queue!Deliver, Queue!vars
    <2> QED BY <2>1, <2>4 DEF Queue!Next
  <1>6. ASSUME NEW f \in Flusher, Failed(f)
        PROVE  Queue!Next \/ UNCHANGED Queue!vars
    <2> DEFINE e == call[f].entry
    <2>1. e \in 1..made /\ e \in Entry
      BY <1>6 DEF Failed, CallsKnown, Entry
    <2>2. UNCHANGED <<made, table, served>> /\ MarkFailed(e)
      BY <1>6 DEF Failed
    <2>3. States' = States
      BY <2>2 DEF States, StateOf
    <2>4. CASE e \in table
      <3>1. attempts' = [attempts EXCEPT ![e] = @ + 1]
        BY <2>2, <2>4 DEF MarkFailed
      <3>2. States[e] = "queued"
        BY <2>1, <2>4 DEF States, StateOf
      <3>3. Queue!Fail(e)
        BY <2>2, <2>3, <3>1, <3>2 DEF States, Queue!Fail
      <3> QED BY <2>1, <3>3 DEF Queue!Next
    <2>5. CASE e \notin table
      BY <1>1, <2>2, <2>5 DEF MarkFailed
    <2> QED BY <2>4, <2>5
  <1>7. ASSUME \/ \E f \in Flusher : StartFlush(f) \/ Send(f)
               \/ Tick \/ Crash \/ UNCHANGED vars
        PROVE  UNCHANGED <<made, table, attempts, served>>
    BY <1>7 DEF StartFlush, Send, Tick, Crash, vars
  <1> QED
    BY <1>1, <1>2, <1>3, <1>4, <1>5, <1>6, <1>7 DEF Next, FlushStep

(* The outbox implements the queue that ADR 151 describes, for any number of *)
(* rows, overlapping flushes and crashes.                                    *)
THEOREM OutboxKeepsQueue == Spec => KeepsQueue
  <1>1. OutboxInv /\ [Next]_vars => [Queue!Next]_(Queue!vars)
    BY QueueStep
  <1> QED
    BY <1>1, QueueInit, OutboxInvariant, PTL DEF Spec, KeepsQueue, Queue!Spec

-----------------------------------------------------------------------------
(***************************************************************************)
(* What the queries of dequeueDueOutbox select                             *)
(***************************************************************************)

\* What a limited query returns has as many rows as there are, up to the limit.
LEMMA LimitKept ==
    ASSUME NEW S, IsFiniteSet(S), NEW W \in SUBSET S,
           Cardinality(W) = IF Cardinality(S) < BatchSize THEN Cardinality(S) ELSE BatchSize
    PROVE  /\ Cardinality(W) <= BatchSize
           /\ S # {} => W # {}
  <1>1. Cardinality(S) \in Nat /\ (S # {} => Cardinality(S) # 0)
    BY FS_CardinalityType, FS_EmptySet
  <1>2. BatchSize \in Nat \ {0}
    BY BatchSizeAssumption
  <1>3. W = {} => Cardinality(W) = 0
    BY FS_EmptySet
  <1> QED BY <1>1, <1>2, <1>3

LEMMA TableFinite ==
    ASSUME TypeOK, NEW S \in SUBSET table
    PROVE  IsFiniteSet(S)
  <1>1. made \in Nat /\ S \in SUBSET (1..made)
    BY ConstantsTyped DEF TypeOK
  <1>2. IsFiniteSet(1..made)
    BY <1>1, FS_Interval
  <1> QED BY <1>1, <1>2, FS_Subset

(* A flush takes no more rows than the limit, all of them due; and a row that *)
(* was never tried and is the oldest in the table is in every batch, however *)
(* many rows are being retried: the retries do not starve new writes.        *)
BatchesFair ==
    \A B \in DueBatches :
        /\ Cardinality(B) <= BatchSize
        /\ \A e \in B : e \in table /\ Due(e)
        /\ \A e \in table : attempts[e] = 0 /\ (\A d \in table : e <= d) => e \in B

(* dequeueDueOutbox merges two limited queries and limits the result again,  *)
(* by createdAt: for any table and any limit, its batches are fair.          *)
THEOREM BatchesAreFair == Spec => []BatchesFair
  <1>1. TypeOK => BatchesFair
    <2> SUFFICES ASSUME TypeOK,
                        NEW F \in FreshWindows, NEW R \in RetryWindows,
                        NEW B \in DueWindows(F, R)
                 PROVE  /\ Cardinality(B) <= BatchSize
                        /\ \A e \in B : e \in table /\ Due(e)
                        /\ \A e \in table :
                              attempts[e] = 0 /\ (\A d \in table : e <= d) => e \in B
      BY DEF BatchesFair, DueBatches
    <2> DEFINE D == {e \in F \cup R : Due(e)}
    <2>1. /\ F \in SUBSET table /\ R \in SUBSET table
          /\ D \in SUBSET table /\ Fresh \in SUBSET table
      BY DEF FreshWindows, RetryWindows, Windows, Fresh, Retries
    <2>2. IsFiniteSet(D) /\ IsFiniteSet(Fresh)
      BY <2>1, TableFinite
    <2>3. /\ B \in SUBSET D
          /\ Cardinality(B) = IF Cardinality(D) < BatchSize THEN Cardinality(D) ELSE BatchSize
          /\ \A w \in B, s \in D \ B : ~(s < w)
      BY DEF DueWindows, Windows, Older
    <2>4. /\ F \in SUBSET Fresh
          /\ Cardinality(F) = IF Cardinality(Fresh) < BatchSize THEN Cardinality(Fresh)
                              ELSE BatchSize
          /\ \A w \in F, s \in Fresh \ F : ~(s < w)
      BY DEF FreshWindows, Windows, Older
    <2>5. /\ Cardinality(B) <= BatchSize
          /\ D # {} => B # {}
          /\ Fresh # {} => F # {}
      BY <2>2, <2>3, <2>4, LimitKept
    <2>6. ASSUME NEW e \in table, attempts[e] = 0, \A d \in table : e <= d
          PROVE  e \in B
      <3>1. table \subseteq Int
        BY ConstantsTyped DEF TypeOK
      <3>2. \A d \in table : d # e => e < d
        BY <2>6, <3>1
      <3>3. e \in Fresh
        BY <2>6 DEF Fresh
      <3>4. e \in F
        BY <2>1, <2>4, <2>5, <3>2, <3>3
      <3>5. e \in D
        BY <2>6, <3>4 DEF Due
      <3> HIDE DEF D
      <3> QED BY <2>1, <2>3, <2>5, <3>2, <3>5
    <2> QED BY <2>1, <2>3, <2>5, <2>6
  <1> QED
    BY <1>1, TypeCorrect, PTL

-----------------------------------------------------------------------------
(***************************************************************************)
(* The end of a flush                                                      *)
(***************************************************************************)

\* A flush has no more to deliver than one query returns.
BatchesBounded ==
    \A f \in Flusher : IsFiniteSet(batch[f]) /\ Cardinality(batch[f]) <= BatchSize

LEMMA BatchesBoundedStep ==
    ASSUME TypeOK, BatchesFair, BatchesBounded, [Next]_vars
    PROVE  BatchesBounded'
  <1> USE DEF BatchesBounded
  <1>1. ASSUME NEW f \in Flusher, StartFlush(f)
        PROVE  BatchesBounded'
    <2>1. PICK B \in DueBatches :
             batch' = [batch EXCEPT ![f] = {[id |-> e, attempts |-> attempts[e]] : e \in B}]
      BY <1>1 DEF StartFlush
    <2> DEFINE T == {[id |-> e, attempts |-> attempts[e]] : e \in B}
               g == [e \in B |-> [id |-> e, attempts |-> attempts[e]]]
    <2>2. Cardinality(B) <= BatchSize /\ B \in SUBSET table
      BY <2>1, DueBatchesInTable DEF BatchesFair
    <2>3. IsFiniteSet(B) /\ Cardinality(B) \in Nat
      BY <2>2, TableFinite, FS_CardinalityType
    <2>4. g \in Surjection(B, T)
      BY DEF Surjection
    <2>5. IsFiniteSet(T) /\ Cardinality(T) <= Cardinality(B)
      BY <2>3, <2>4, FS_Surjection
    <2>6. Cardinality(T) \in Nat /\ BatchSize \in Nat
      BY <2>5, FS_CardinalityType, BatchSizeAssumption
    <2> HIDE DEF T
    <2>7. Cardinality(T) <= BatchSize
      BY <2>2, <2>3, <2>5, <2>6
    <2>8. batch' = [batch EXCEPT ![f] = T]
      BY <2>1 DEF T
    <2> QED BY <2>5, <2>7, <2>8 DEF TypeOK
  <1>2. ASSUME NEW f \in Flusher, DropExhausted(f) \/ Send(f)
        PROVE  BatchesBounded'
    <2>1. PICK s \in batch[f] : batch' = [batch EXCEPT ![f] = batch[f] \ {s}]
      BY <1>2 DEF DropExhausted, Send, TakeOldest
    <2>2. /\ IsFiniteSet(batch[f] \ {s})
          /\ Cardinality(batch[f] \ {s}) = Cardinality(batch[f]) - 1
      BY <2>1, FS_RemoveElement
    <2>3. Cardinality(batch[f]) \in Nat /\ BatchSize \in Nat
      BY FS_CardinalityType, BatchSizeAssumption
    <2>4. Cardinality(batch[f] \ {s}) <= BatchSize
      BY <2>2, <2>3
    <2> QED BY <2>1, <2>2, <2>4 DEF TypeOK
  <1>3. CASE Crash
    <2>1. Cardinality({}) <= BatchSize /\ IsFiniteSet({})
      BY FS_EmptySet, BatchSizeAssumption
    <2> QED BY <1>3, <2>1 DEF Crash
  <1>4. ASSUME UNCHANGED batch
        PROVE  BatchesBounded'
    BY <1>4
  <1>5. ASSUME \/ Enqueue \/ Tick \/ UNCHANGED vars
               \/ \E f \in Flusher : \/ Delivered(f) \/ Failed(f)
                                     \/ \E a \in Answer : Handle(f, a)
        PROVE  UNCHANGED batch
    BY <1>5 DEF Enqueue, Tick, vars, Delivered, Failed, Handle
  <1> QED
    BY <1>1, <1>2, <1>3, <1>4, <1>5 DEF Next, FlushStep

\* The steps left of a flush: at most three for each row, the last of them is
\* what becomes of the request that is under way.
StepsLeft(f) ==
    3 * Cardinality(batch[f])
        + IF call[f] = Idle THEN 0 ELSE IF call[f].answer = "none" THEN 2 ELSE 1

FlushOwnStep(f) ==
    \/ DropExhausted(f)
    \/ Send(f)
    \/ \E a \in Answer : Handle(f, a)
    \/ Delivered(f)
    \/ Failed(f)

(* A flush that has started comes to its end: each of its steps leaves fewer,  *)
(* it began with a batch, and nothing that another flush, the application or  *)
(* the clock does makes it longer, so that one slow coordinator or a table    *)
(* that fills up meanwhile cannot keep it (outbox-flusher.ts, flushOnce).     *)
FlushesRunDown ==
    [][\A f \in Flusher :
          /\ FlushOwnStep(f) => /\ StepsLeft(f) \in 1..3 * BatchSize + 2
                               /\ StepsLeft(f)' \in 0..StepsLeft(f) - 1
          /\ StepsLeft(f)' > StepsLeft(f) => StartFlush(f)]_vars

(* For any batch size and whatever other flushes do to the same rows, a flush *)
(* is over after at most three steps for each row it took.                   *)
THEOREM FlushesEnd == Spec => FlushesRunDown
  <1>1. Init => BatchesBounded
    BY FS_EmptySet, BatchSizeAssumption DEF Init, BatchesBounded
  <1>2. Spec => []BatchesBounded
    BY <1>1, BatchesBoundedStep, BatchesAreFair, TypeCorrect, PTL DEF Spec
  <1>3. ASSUME OutboxInv, BatchesBounded, NEW f \in Flusher, FlushOwnStep(f)
        PROVE  /\ StepsLeft(f) \in 1..3 * BatchSize + 2
               /\ StepsLeft(f)' \in 0..StepsLeft(f) - 1
    <2> DEFINE n == Cardinality(batch[f])
    <2>0. n \in Nat /\ n <= BatchSize /\ BatchSize \in Nat
      BY <1>3, FS_CardinalityType, BatchSizeAssumption DEF BatchesBounded
    <2>1. CASE DropExhausted(f) \/ Send(f)
      <3>1. PICK s \in batch[f] : batch' = [batch EXCEPT ![f] = batch[f] \ {s}]
        BY <2>1 DEF DropExhausted, Send, TakeOldest
      <3>2. call[f] = Idle /\ (call'[f] = Idle \/ call'[f].answer = "none")
        BY <1>3, <2>1 DEF DropExhausted, Send, TakeOldest, OutboxInv, TypeOK
      <3>3. Cardinality(batch[f] \ {s}) = n - 1 /\ n # 0
        <4>1. Cardinality(batch[f] \ {s}) = n - 1 /\ IsFiniteSet(batch[f] \ {s})
          BY <1>3, <3>1, FS_RemoveElement DEF BatchesBounded
        <4>2. Cardinality(batch[f] \ {s}) \in Nat
          BY <4>1, FS_CardinalityType
        <4> QED BY <2>0, <4>1, <4>2
      <3>4. Cardinality(batch'[f]) = n - 1
        BY <1>3, <3>1, <3>3 DEF OutboxInv, TypeOK
      <3>5. StepsLeft(f) = 3 * n
        BY <2>0, <3>2 DEF StepsLeft
      <3>6. StepsLeft(f)' \in {3 * (n - 1), 3 * (n - 1) + 1, 3 * (n - 1) + 2}
        BY <2>0, <3>2, <3>4 DEF StepsLeft
      <3> HIDE DEF n
      <3> QED BY <2>0, <3>3, <3>5, <3>6
    <2>2. CASE \E a \in Answer : Handle(f, a)
      <3>1. /\ call[f].answer = "none" /\ call[f] # Idle /\ batch'[f] = batch[f]
            /\ call'[f].answer # "none" /\ call'[f] # Idle
        BY <1>3, <2>2 DEF Handle, Answer, Idle, NoEntry, OutboxInv, TypeOK
      <3>2. StepsLeft(f) = 3 * n + 2 /\ StepsLeft(f)' = 3 * n + 1
        BY <2>0, <3>1 DEF StepsLeft
      <3> HIDE DEF n
      <3> QED BY <2>0, <3>2
    <2>3. CASE Delivered(f) \/ Failed(f)
      <3>1. call[f] # Idle /\ batch'[f] = batch[f] /\ call'[f] = Idle
        BY <1>3, <2>3, ConstantsTyped
           DEF Delivered, Failed, Answer, Idle, NoEntry, OutboxInv, TypeOK, CallsKnown
      <3>2. StepsLeft(f) \in {3 * n + 1, 3 * n + 2} /\ StepsLeft(f)' = 3 * n
        BY <2>0, <3>1 DEF StepsLeft
      <3> HIDE DEF n
      <3> QED BY <2>0, <3>2
    <2> QED BY <1>3, <2>1, <2>2, <2>3 DEF FlushOwnStep
  <1>4. ASSUME OutboxInv, BatchesBounded, [Next]_vars, NEW f \in Flusher,
               ~FlushOwnStep(f), ~StartFlush(f)
        PROVE  StepsLeft(f)' \in 0..StepsLeft(f)
    <2>0. StepsLeft(f) \in Nat
      <3>1. Cardinality(batch[f]) \in Nat
        BY <1>4, FS_CardinalityType DEF BatchesBounded
      <3> QED BY <3>1 DEF StepsLeft
    <2>1. CASE Crash
      <3>1. batch'[f] = {} /\ call'[f] = Idle
        BY <2>1 DEF Crash
      <3>2. StepsLeft(f)' = 0
        BY <3>1, FS_EmptySet DEF StepsLeft
      <3> QED BY <2>0, <3>2
    <2>2. ASSUME batch'[f] = batch[f], call'[f] = call[f]
          PROVE  StepsLeft(f)' \in 0..StepsLeft(f)
      BY <2>0, <2>2 DEF StepsLeft
    <2>3. CASE Enqueue \/ Tick \/ UNCHANGED vars
      BY <2>2, <2>3 DEF Enqueue, Tick, vars
    <2>4. ASSUME NEW g \in Flusher, FlushStep(g)
          PROVE  batch'[f] = batch[f] /\ call'[f] = call[f]
      <3>1. g # f
        BY <1>4, <2>4 DEF FlushStep, FlushOwnStep
      <3> QED
        BY <1>4, <2>4, <3>1
           DEF OutboxInv, TypeOK, FlushStep, StartFlush, DropExhausted, Send,
               TakeOldest, Handle, Delivered, Failed
    <2> QED BY <1>4, <2>1, <2>2, <2>3, <2>4 DEF Next
  <1>5. ASSUME OutboxInv, BatchesBounded, [Next]_vars
        PROVE  \A f \in Flusher :
                   /\ FlushOwnStep(f) => /\ StepsLeft(f) \in 1..3 * BatchSize + 2
                                        /\ StepsLeft(f)' \in 0..StepsLeft(f) - 1
                   /\ StepsLeft(f)' > StepsLeft(f) => StartFlush(f)
    <2> TAKE f \in Flusher
    <2>1. CASE FlushOwnStep(f)
      <3>1. StepsLeft(f) \in 1..3 * BatchSize + 2 /\ StepsLeft(f)' \in 0..StepsLeft(f) - 1
        BY <1>3, <1>5, <2>1
      <3>2. ~(StepsLeft(f)' > StepsLeft(f))
        BY <3>1, BatchSizeAssumption
      <3> QED BY <3>1, <3>2
    <2>2. CASE StartFlush(f) /\ ~FlushOwnStep(f)
      BY <2>2
    <2>3. CASE ~StartFlush(f) /\ ~FlushOwnStep(f)
      <3>1. StepsLeft(f)' \in 0..StepsLeft(f) /\ StepsLeft(f) \in Nat
        <4>1. Cardinality(batch[f]) \in Nat
          BY <1>5, FS_CardinalityType DEF BatchesBounded
        <4> QED BY <1>4, <1>5, <2>3, <4>1 DEF StepsLeft
      <3>2. ~(StepsLeft(f)' > StepsLeft(f))
        BY <3>1
      <3> QED BY <2>3, <3>2
    <2> QED BY <2>1, <2>2, <2>3
  <1> QED
    BY <1>2, <1>5, OutboxInvariant, PTL DEF FlushesRunDown, Spec
=============================================================================
