-------------------------- MODULE FragmentsProofs --------------------------
(***************************************************************************)
(* Proofs about Fragments, for any ids, agents, pulls, rows and bounds:    *)
(* its types, and that an agent which has read all its beacon sent shows   *)
(* the live rows written for it.                                           *)
(*                                                                         *)
(* Of the frames under way only the last one that says something about an  *)
(* id matters for it: it decides what the agent will show, and the         *)
(* invariant says that it brings the row the beacon has.                   *)
(***************************************************************************)
EXTENDS Fragments, SequenceTheorems, FiniteSetTheorems, TLAPS

IsSync(f) == f.type = "fragmentSync"

\* A frame that sets what is shown of id i
Touches(f, i) == IsSync(f) \/ f.id = i

\* s shows content c written for the agent under id i, or a broadcast instead.
Fits(s, i, c) == s[<<i, "broadcast">>] # NoContent \/ s[<<i, "own">>] = c

\* An agent that reads f fits.
Brings(f, i, c) == IF IsSync(f) THEN Fits(f.fragments, i, c) ELSE f.content = c

Untouched(q, n, i) == \A m \in n..Len(q) : ~Touches(q[m], i)

\* An agent that shows s fits once it has read the frames of q.
WillFit(q, s, i, c) ==
    \/ Untouched(q, 1, i) /\ Fits(s, i, c)
    \/ \E n \in 1..Len(q) : /\ Touches(q[n], i)
                            /\ Brings(q[n], i, c)
                            /\ Untouched(q, n + 1, i)

TargetedUnderWay ==
    \A a \in link, i \in Id :
        Live(table, <<i, a>>) => WillFit(pipe[a], store[a], i, table[<<i, a>>].content)

\* Rows have content; the coordinator's are marked as its own.
Written(t) == \A k \in Key : Exists(t, k) => t[k].content \in Content
Coordinated(t) == \A k \in Key : Exists(t, k) => t[k].scope = "coordinator"

RowsKnown ==
    /\ Written(table)
    /\ Written(coordinator) /\ Coordinated(coordinator)
    /\ \A p \in Pull : Written(pulls[p].rows) /\ Coordinated(pulls[p].rows)

FragmentsInv == FragmentsTypeOK /\ RowsKnown /\ TargetedUnderWay

-----------------------------------------------------------------------------
(***************************************************************************)
(* Rows, frames and what is made of them                                   *)
(***************************************************************************)

LEMMA FragmentsConstants ==
    /\ MaxTime \in Nat /\ MaxWrites \in Nat /\ MaxFaults \in Nat
    /\ Broadcast \notin Agent /\ NoContent \notin Content
    /\ Expiry \subseteq Time
    /\ IsFiniteSet(Id)
  BY FragmentsAssumption DEF Time

LEMMA NoRowIsRow == NoRow \in Row /\ NoTable \in Table
  BY FragmentsConstants DEF NoRow, Row, Time, NoTable, Table

LEMMA KeyKnown ==
    /\ \A i \in Id, a \in Target : <<i, a>> \in Key
    /\ \A k \in Key : k[1] \in Id /\ k[2] \in Target /\ k = <<k[1], k[2]>>
    /\ \A a \in Agent : a \in Target /\ a # Broadcast
    /\ Broadcast \in Target
  BY FragmentsConstants DEF Key, Target

LEMMA LiveRowsTyped ==
    ASSUME NEW t \in Table
    PROVE  LiveRows(t) \in Table
  BY NoRowIsRow DEF LiveRows, Table

LEMMA MergedTyped ==
    ASSUME NEW t \in Table, NEW a \in Agent
    PROVE  Merged(t, a) \in Shown
  <1>1. \A k \in Key : t[k].content \in Content \cup {NoContent}
    BY DEF Table, Row
  <1>2. \A k \in Id \X {"own", "broadcast"} :
            <<k[1], a>> \in Key /\ <<k[1], Broadcast>> \in Key
    BY KeyKnown
  <1> QED
    BY <1>1, <1>2 DEF Merged, Shown

\* A set is made into a sequence of its elements.
LEMMA SetToSeqTyped ==
    ASSUME NEW S, IsFiniteSet(S)
    PROVE  SetToSeq(S) \in Seq(S)
  <1>1. Cardinality(S) \in Nat /\ ExistsBijection(1..Cardinality(S), S)
    BY FS_CardinalityType
  <1>2. \E f \in [1..Cardinality(S) -> S] : IsInjective(f)
    BY <1>1 DEF ExistsBijection, Bijection, Injection
  <1>3. SetToSeq(S) \in [1..Cardinality(S) -> S]
    BY <1>2 DEF SetToSeq
  <1> QED
    BY <1>1, <1>3

\* The removals a sweep sends to an agent
Removal(i) == [type |-> "fragment", id |-> i, content |-> NoContent]

LEMMA RemovalsTyped ==
    ASSUME NEW J \in SUBSET Id
    PROVE  SetToSeq({Removal(i) : i \in J}) \in Seq({Removal(i) : i \in J})
  <1> DEFINE R == {Removal(i) : i \in J}
             f == [i \in J |-> Removal(i)]
  <1>1. IsFiniteSet(J)
    BY FragmentsConstants, FS_Subset
  <1>2. f \in Surjection(J, R)
    BY DEF Surjection
  <1>3. IsFiniteSet(R)
    BY <1>1, <1>2, FS_Surjection
  <1> QED
    BY <1>3, SetToSeqTyped

LEMMA RemovalsAreFrames ==
    ASSUME NEW J \in SUBSET Id
    PROVE  SetToSeq({Removal(i) : i \in J}) \in Seq(Frame)
  <1>1. {Removal(i) : i \in J} \subseteq Frame
    BY DEF Removal, Frame
  <1> QED
    BY <1>1, RemovalsTyped, SeqMonotonic

-----------------------------------------------------------------------------
(***************************************************************************)
(* Types                                                                   *)
(***************************************************************************)

LEMMA FragmentsInitTyped == FragmentsInit => FragmentsTypeOK
  BY FragmentsConstants, NoRowIsRow, EmptySeq
     DEF FragmentsInit, FragmentsTypeOK, IdlePull, PullState, Empty, Shown

LEMMA ResyncTyped ==
    ASSUME FragmentsTypeOK, NEW t \in Table, ResyncAll(t)
    PROVE  pipe' \in [Agent -> Seq(Frame)]
  <1>1. \A a \in Agent : [type |-> "fragmentSync", fragments |-> Merged(t, a)] \in Frame
    BY MergedTyped DEF Frame
  <1>2. \A a \in Agent :
            Append(pipe[a], [type |-> "fragmentSync", fragments |-> Merged(t, a)]) \in Seq(Frame)
    BY <1>1, AppendProperties DEF FragmentsTypeOK
  <1> QED
    BY <1>2 DEF ResyncAll, FragmentsTypeOK

LEMMA DeltaTyped ==
    ASSUME FragmentsTypeOK, NEW k \in Key, NEW c \in Content \cup {NoContent}, Delta(k, c)
    PROVE  pipe' \in [Agent -> Seq(Frame)]
  <1>1. [type |-> "fragment", id |-> k[1], content |-> c] \in Frame
    BY KeyKnown DEF Frame
  <1>2. \A a \in Agent :
            Append(pipe[a], [type |-> "fragment", id |-> k[1], content |-> c]) \in Seq(Frame)
    BY <1>1, AppendProperties DEF FragmentsTypeOK
  <1> QED
    BY <1>2 DEF Delta, FragmentsTypeOK

LEMMA ReplacedTyped ==
    ASSUME NEW t \in Table, NEW rows \in Table
    PROVE  Replaced(t, rows) \in Table
  BY NoRowIsRow DEF Replaced, Table

\* What a sweep does to the frames under way
Swept(a) == {j \in Id : Exists(table, <<j, a>>) /\ ~Live(table, <<j, a>>)}

LEMMA SweepSends ==
    ASSUME Sweep, NEW a \in Agent
    PROVE  /\ a \in link => pipe'[a] = pipe[a] \o SetToSeq({Removal(i) : i \in Swept(a)})
           /\ a \notin link => pipe'[a] = pipe[a]
  <1>1. {j \in Id : <<j, a>> \in {k \in Key : Exists(table, k) /\ ~Live(table, k)}} = Swept(a)
    BY KeyKnown DEF Swept
  <1> QED
    BY <1>1 DEF Sweep, Removal

LEMMA SweptTyped ==
    ASSUME FragmentsTypeOK, Sweep
    PROVE  pipe' \in [Agent -> Seq(Frame)]
  <1>1. \A a \in Agent : SetToSeq({Removal(i) : i \in Swept(a)}) \in Seq(Frame)
    BY RemovalsAreFrames DEF Swept
  <1>2. \A a \in Agent : pipe'[a] \in Seq(Frame)
    BY <1>1, SweepSends, ConcatProperties DEF FragmentsTypeOK
  <1>3. pipe' = [a \in Agent |-> pipe'[a]]
    BY DEF Sweep
  <1> QED
    BY <1>2, <1>3

LEMMA FragmentsStepTyped ==
    FragmentsTypeOK /\ [FragmentsNext]_fragments_vars => FragmentsTypeOK'
  <1> SUFFICES ASSUME FragmentsTypeOK, [FragmentsNext]_fragments_vars
               PROVE  FragmentsTypeOK'
    OBVIOUS
  <1> USE FragmentsConstants, NoRowIsRow DEF FragmentsTypeOK
  <1>1. ASSUME NEW k \in Key, NEW c \in Content, NEW e \in Expiry, Upsert(k, c, e)
        PROVE  FragmentsTypeOK'
    <2>1. [content |-> c, scope |-> "local", expires |-> e] \in Row
      BY DEF Row
    <2>2. table' \in Table
      BY <1>1, <2>1 DEF Upsert, Table
    <2>3. pipe' \in [Agent -> Seq(Frame)]
      BY <1>1, <2>2, ResyncTyped, DeltaTyped DEF Upsert
    <2> QED BY <1>1, <2>2, <2>3 DEF Upsert, Write
  <1>2. ASSUME NEW k \in Key, Delete(k)
        PROVE  FragmentsTypeOK'
    <2>1. table' \in Table
      BY <1>2 DEF Delete, Table
    <2>2. pipe' \in [Agent -> Seq(Frame)]
      BY <1>2, <2>1, ResyncTyped, DeltaTyped DEF Delete
    <2> QED BY <1>2, <2>1, <2>2 DEF Delete, Write
  <1>3. ASSUME NEW k \in Key, NEW c \in Content, NEW e \in Expiry, Put(k, c, e)
        PROVE  FragmentsTypeOK'
    <2>1. [content |-> c, scope |-> "coordinator", expires |-> e] \in Row
      BY DEF Row
    <2> QED BY <1>3, <2>1 DEF Put, Write, Table
  <1>4. ASSUME NEW k \in Key, Withdraw(k)
        PROVE  FragmentsTypeOK'
    BY <1>4 DEF Withdraw, Write, Table
  <1>5. ASSUME NEW p \in Pull, StartPull(p) \/ ServePull(p) \/ FailPull(p)
        PROVE  FragmentsTypeOK'
    <2>1. IdlePull \in PullState
      BY DEF IdlePull, PullState
    <2>2. [pc |-> "asked", before |-> LiveRows(table), rows |-> NoTable] \in PullState
      BY LiveRowsTyped DEF PullState
    <2>3. [pulls[p] EXCEPT !.pc = "answered", !.rows = coordinator] \in PullState
      BY DEF PullState
    <2>4. pulls' \in [Pull -> PullState]
      BY <1>5, <2>1, <2>2, <2>3 DEF StartPull, ServePull, FailPull
    <2> QED BY <1>5, <2>4 DEF StartPull, ServePull, FailPull, Fault
  <1>6. ASSUME NEW p \in Pull, ApplyPull(p)
        PROVE  FragmentsTypeOK'
    <2>1. Replaced(table, pulls[p].rows) \in Table
      BY ReplacedTyped DEF PullState
    <2>2. pipe' \in [Agent -> Seq(Frame)]
      BY <1>6, <2>1, ResyncTyped DEF ApplyPull
    <2>3. pulls' \in [Pull -> PullState]
      BY <1>6 DEF ApplyPull, IdlePull, PullState
    <2> QED BY <1>6, <2>1, <2>2, <2>3 DEF ApplyPull
  <1>7. ASSUME NEW a \in Agent, Connect(a) \/ Disconnect(a)
        PROVE  FragmentsTypeOK'
    <2>1. [type |-> "fragmentSync", fragments |-> Merged(table, a)] \in Frame
      BY MergedTyped DEF Frame
    <2>2. /\ <<[type |-> "fragmentSync", fragments |-> Merged(table, a)]>> \in Seq(Frame)
          /\ <<>> \in Seq(Frame)
      BY <2>1
    <2>3. pipe' \in [Agent -> Seq(Frame)]
      BY <1>7, <2>2 DEF Connect, Disconnect
    <2> QED BY <1>7, <2>3 DEF Connect, Disconnect, Fault
  <1>8. ASSUME NEW a \in Agent, Receive(a)
        PROVE  FragmentsTypeOK'
    <2>1. Head(pipe[a]) \in Frame /\ Tail(pipe[a]) \in Seq(Frame)
      BY <1>8, HeadTailProperties DEF Receive
    <2>2. pipe' \in [Agent -> Seq(Frame)]
      BY <1>8, <2>1 DEF Receive
    <2>3. store' \in [Agent -> Shown]
      BY <1>8, <2>1 DEF Receive, Frame, Shown
    <2> QED BY <1>8, <2>2, <2>3 DEF Receive
  <1>9. ASSUME Sweep
        PROVE  FragmentsTypeOK'
    <2>1. table' \in Table
      BY <1>9 DEF Sweep, Table
    <2> QED BY <1>9, <2>1, SweptTyped DEF Sweep
  <1>10. ASSUME BeaconRestart
         PROVE  FragmentsTypeOK'
    <2>1. IdlePull \in PullState
      BY DEF IdlePull, PullState
    <2> QED BY <1>10, <2>1 DEF BeaconRestart, Fault
  <1>11. ASSUME FragmentsTick
         PROVE  FragmentsTypeOK'
    BY <1>11 DEF FragmentsTick
  <1>12. CASE UNCHANGED fragments_vars
    BY <1>12 DEF fragments_vars
  <1> QED
    BY <1>1, <1>2, <1>3, <1>4, <1>5, <1>6, <1>7, <1>8, <1>9, <1>10, <1>11, <1>12
       DEF FragmentsNext

\* The tables of the coordinator and the beacon, the answers under way, the
\* frames and what agents show keep their types.
THEOREM FragmentsTypeCorrect == FragmentsSpec => []FragmentsTypeOK
  BY FragmentsInitTyped, FragmentsStepTyped, PTL DEF FragmentsSpec

-----------------------------------------------------------------------------
(***************************************************************************)
(* Frames under way                                                        *)
(***************************************************************************)

\* A frame that says something about an id decides about it.
LEMMA LastFrameDecides ==
    ASSUME NEW q \in Seq(Frame), NEW f \in Frame, NEW s, NEW i, NEW c,
           Touches(f, i), Brings(f, i, c)
    PROVE  WillFit(Append(q, f), s, i, c)
  <1>1. /\ Len(Append(q, f)) = Len(q) + 1
        /\ Append(q, f)[Len(q) + 1] = f
        /\ Len(q) \in Nat
    BY AppendProperties, LenProperties
  <1>2. Untouched(Append(q, f), Len(q) + 2, i)
    BY <1>1 DEF Untouched
  <1> QED
    BY <1>1, <1>2 DEF WillFit

\* Frames about other ids change nothing.
LEMMA OtherFramesPass ==
    ASSUME NEW q \in Seq(Frame), NEW r \in Seq(Frame), NEW s, NEW i, NEW c,
           WillFit(q, s, i, c), Untouched(r, 1, i)
    PROVE  WillFit(q \o r, s, i, c)
  <1>1. /\ q \o r \in Seq(Frame) /\ Len(q \o r) = Len(q) + Len(r)
        /\ Len(q) \in Nat /\ Len(r) \in Nat
        /\ \A m \in 1..Len(q) : (q \o r)[m] = q[m]
        /\ \A m \in 1..Len(r) : (q \o r)[Len(q) + m] = r[m]
    BY ConcatProperties, LenProperties
  <1>2. ASSUME NEW n \in 1..Len(q) + 1, Untouched(q, n, i)
        PROVE  Untouched(q \o r, n, i)
    <2> SUFFICES ASSUME NEW m \in n..Len(q) + Len(r)
                 PROVE  ~Touches((q \o r)[m], i)
      BY <1>1 DEF Untouched
    <2>1. CASE m <= Len(q)
      BY <1>1, <1>2, <2>1 DEF Untouched
    <2>2. CASE m > Len(q)
      <3>1. m - Len(q) \in 1..Len(r) /\ (q \o r)[m] = r[m - Len(q)]
        BY <1>1, <2>2
      <3> QED BY <3>1 DEF Untouched
    <2> QED BY <1>1, <2>1, <2>2
  <1>3. CASE Untouched(q, 1, i) /\ Fits(s, i, c)
    BY <1>1, <1>2, <1>3 DEF WillFit
  <1>4. CASE \E n \in 1..Len(q) : Touches(q[n], i) /\ Brings(q[n], i, c) /\ Untouched(q, n + 1, i)
    <2>1. PICK n \in 1..Len(q) : Touches(q[n], i) /\ Brings(q[n], i, c) /\ Untouched(q, n + 1, i)
      BY <1>4
    <2>2. n \in 1..Len(q \o r) /\ (q \o r)[n] = q[n] /\ n + 1 \in 1..Len(q) + 1
      BY <1>1
    <2> QED BY <1>2, <2>1, <2>2 DEF WillFit
  <1> QED
    BY <1>3, <1>4 DEF WillFit

\* What one frame makes of what an agent shows
After(f, s) == IF IsSync(f) THEN f.fragments
               ELSE [s EXCEPT ![<<f.id, "own">>] = f.content]

\* Reading the first frame leaves what the agent will show.
LEMMA ReadingAdvances ==
    ASSUME NEW q \in Seq(Frame), q # <<>>, NEW s \in Shown, NEW i \in Id, NEW c,
           WillFit(q, s, i, c)
    PROVE  WillFit(Tail(q), After(Head(q), s), i, c)
  <1> DEFINE t == After(Head(q), s)
  <1>1. /\ Len(q) \in Nat \ {0} /\ Tail(q) \in Seq(Frame) /\ Len(Tail(q)) = Len(q) - 1
        /\ Head(q) = q[1] /\ Head(q) \in Frame
        /\ \A m \in 1..Len(q) - 1 : Tail(q)[m] = q[m + 1]
    BY HeadTailProperties, LenProperties, EmptySeq
  <1>2. ASSUME NEW n \in 2..Len(q) + 1, Untouched(q, n, i)
        PROVE  Untouched(Tail(q), n - 1, i)
    BY <1>1, <1>2 DEF Untouched
  <1>3. ASSUME ~Touches(q[1], i), Fits(s, i, c)
        PROVE  Fits(t, i, c)
    BY <1>1, <1>3 DEF Touches, Fits, After, Shown, Frame, IsSync
  <1>4. ASSUME Touches(q[1], i), Brings(q[1], i, c)
        PROVE  Fits(t, i, c)
    BY <1>1, <1>4 DEF Touches, Brings, Fits, After, Shown, Frame, IsSync
  <1>5. CASE Untouched(q, 1, i) /\ Fits(s, i, c)
    <2>1. ~Touches(q[1], i) /\ Untouched(q, 2, i)
      BY <1>1, <1>5 DEF Untouched
    <2> QED BY <1>1, <1>2, <1>3, <1>5, <2>1 DEF WillFit
  <1>6. CASE \E n \in 1..Len(q) : Touches(q[n], i) /\ Brings(q[n], i, c) /\ Untouched(q, n + 1, i)
    <2>1. PICK n \in 1..Len(q) : Touches(q[n], i) /\ Brings(q[n], i, c) /\ Untouched(q, n + 1, i)
      BY <1>6
    <2>2. Untouched(Tail(q), n, i)
      BY <1>1, <1>2, <2>1
    <2>3. CASE n = 1
      BY <1>4, <2>1, <2>2, <2>3 DEF WillFit
    <2>4. CASE n # 1
      <3>1. n - 1 \in 1..Len(Tail(q)) /\ Tail(q)[n - 1] = q[n] /\ (n - 1) + 1 = n
        BY <1>1, <2>4
      <3> QED BY <2>1, <2>2, <3>1 DEF WillFit
    <2> QED BY <2>3, <2>4
  <1> QED
    BY <1>5, <1>6 DEF WillFit

-----------------------------------------------------------------------------
(***************************************************************************)
(* The rows of the beacon and the coordinator                              *)
(***************************************************************************)

LEMMA EmptyTables ==
    Written(NoTable) /\ Coordinated(NoTable)
  BY DEF Written, Coordinated, Exists, NoTable

\* The set sent to an agent holds what is written for it.
LEMMA MergedFits ==
    ASSUME NEW t \in Table, Written(t), NEW a \in Agent, NEW i \in Id, Live(t, <<i, a>>)
    PROVE  Fits(Merged(t, a), i, t[<<i, a>>].content)
  <1> DEFINE W == /\ Live(t, <<i, Broadcast>>)
                  /\ t[<<i, Broadcast>>].scope = "coordinator" \/ ~Live(t, <<i, a>>)
  <1>1. /\ <<i, "broadcast">> \in Id \X {"own", "broadcast"}
        /\ <<i, "own">> \in Id \X {"own", "broadcast"}
    OBVIOUS
  <1>2. CASE W
    <2>1. Merged(t, a)[<<i, "broadcast">>] = t[<<i, Broadcast>>].content
      BY <1>1, <1>2 DEF Merged
    <2>2. t[<<i, Broadcast>>].content \in Content
      BY <1>2, KeyKnown DEF Written, Live
    <2> QED BY <2>1, <2>2, FragmentsConstants DEF Fits
  <1>3. CASE ~W
    <2>1. Merged(t, a)[<<i, "own">>] = t[<<i, a>>].content
      BY <1>1, <1>3 DEF Merged
    <2> QED BY <2>1 DEF Fits
  <1> QED
    BY <1>2, <1>3

\* A pull keeps a row, or puts the coordinator's row in its place.
LEMMA ReplacedKnown ==
    ASSUME NEW t \in Table, NEW rows \in Table,
           Written(t), Written(rows), Coordinated(rows)
    PROVE  /\ Written(Replaced(t, rows))
           /\ \A k \in Key : Exists(Replaced(t, rows), k) =>
                  \/ Replaced(t, rows)[k] = t[k]
                  \/ Replaced(t, rows)[k].scope = "coordinator"
  BY DEF Replaced, Written, Coordinated, Exists, Table

LEMMA RowsStep ==
    ASSUME FragmentsTypeOK, RowsKnown, [FragmentsNext]_fragments_vars
    PROVE  RowsKnown'
  <1> USE DEF RowsKnown
  <1>1. ASSUME NEW k \in Key, NEW c \in Content, NEW e \in Expiry, Upsert(k, c, e)
        PROVE  RowsKnown'
    <2>1. Written(table')
      BY <1>1 DEF Upsert, Written, Exists, FragmentsTypeOK, Table
    <2> QED BY <1>1, <2>1 DEF Upsert, Written, Coordinated
  <1>2. ASSUME NEW k \in Key, Delete(k)
        PROVE  RowsKnown'
    <2>1. Written(table')
      BY <1>2 DEF Delete, Written, Exists, FragmentsTypeOK, Table
    <2> QED BY <1>2, <2>1 DEF Delete
  <1>3. ASSUME NEW k \in Key, NEW c \in Content, NEW e \in Expiry, Put(k, c, e)
        PROVE  RowsKnown'
    <2>1. Written(coordinator') /\ Coordinated(coordinator')
      BY <1>3 DEF Put, Written, Coordinated, Exists, FragmentsTypeOK, Table
    <2> QED BY <1>3, <2>1 DEF Put
  <1>4. ASSUME NEW k \in Key, Withdraw(k)
        PROVE  RowsKnown'
    <2>1. Written(coordinator') /\ Coordinated(coordinator')
      BY <1>4 DEF Withdraw, Written, Coordinated, Exists, FragmentsTypeOK, Table
    <2> QED BY <1>4, <2>1 DEF Withdraw
  <1>5. ASSUME NEW p \in Pull, StartPull(p) \/ ServePull(p) \/ FailPull(p)
        PROVE  RowsKnown'
    <2>1. pulls'[p].rows \in {NoTable, coordinator}
      BY <1>5 DEF StartPull, ServePull, FailPull, IdlePull, FragmentsTypeOK, PullState
    <2>2. \A r \in Pull \ {p} : pulls'[r] = pulls[r]
      BY <1>5 DEF StartPull, ServePull, FailPull, FragmentsTypeOK
    <2>3. \A r \in Pull : Written(pulls'[r].rows) /\ Coordinated(pulls'[r].rows)
      BY <2>1, <2>2, EmptyTables
    <2> QED BY <1>5, <2>3 DEF StartPull, ServePull, FailPull
  <1>6. ASSUME NEW p \in Pull, ApplyPull(p)
        PROVE  RowsKnown'
    <2>1. Written(table')
      BY <1>6, ReplacedKnown DEF ApplyPull, FragmentsTypeOK, PullState
    <2>2. \A r \in Pull : Written(pulls'[r].rows) /\ Coordinated(pulls'[r].rows)
      BY <1>6, EmptyTables DEF ApplyPull, IdlePull, FragmentsTypeOK
    <2> QED BY <1>6, <2>1, <2>2 DEF ApplyPull
  <1>7. ASSUME Sweep
        PROVE  RowsKnown'
    <2>1. Written(table')
      BY <1>7 DEF Sweep, Written, Exists
    <2> QED BY <1>7, <2>1 DEF Sweep
  <1>8. ASSUME BeaconRestart
        PROVE  RowsKnown'
    BY <1>8, EmptyTables DEF BeaconRestart, IdlePull
  <1>9. ASSUME \/ \E a \in Agent : Connect(a) \/ Disconnect(a) \/ Receive(a)
               \/ FragmentsTick
               \/ UNCHANGED fragments_vars
        PROVE  RowsKnown'
    BY <1>9 DEF Connect, Disconnect, Receive, FragmentsTick, fragments_vars
  <1> QED
    BY <1>1, <1>2, <1>3, <1>4, <1>5, <1>6, <1>7, <1>8, <1>9 DEF FragmentsNext

-----------------------------------------------------------------------------
(***************************************************************************)
(* What is written for an agent is under way to it                         *)
(***************************************************************************)

\* After a resync everything written for connected agents is under way.
LEMMA ResyncTells ==
    ASSUME FragmentsTypeOK, NEW t \in Table, Written(t), ResyncAll(t),
           NEW a \in link, NEW i \in Id, Live(t, <<i, a>>), NEW s
    PROVE  WillFit(pipe'[a], s, i, t[<<i, a>>].content)
  <1> DEFINE f == [type |-> "fragmentSync", fragments |-> Merged(t, a)]
  <1>1. a \in Agent /\ pipe[a] \in Seq(Frame)
    BY DEF FragmentsTypeOK
  <1>2. f \in Frame
    BY <1>1, MergedTyped DEF Frame
  <1>3. pipe'[a] = Append(pipe[a], f)
    BY <1>1 DEF ResyncAll
  <1>4. Touches(f, i) /\ Brings(f, i, t[<<i, a>>].content)
    BY <1>1, MergedFits DEF Touches, Brings, IsSync
  <1> HIDE DEF f
  <1> QED
    BY <1>1, <1>2, <1>3, <1>4, LastFrameDecides

\* A delta is about one row only, and brings it.
LEMMA DeltaTells ==
    ASSUME FragmentsTypeOK, NEW k \in Key, NEW c \in Content \cup {NoContent}, Delta(k, c),
           NEW a \in link, NEW i \in Id, NEW s, NEW d,
           IF k = <<i, a>> THEN d = c ELSE WillFit(pipe[a], s, i, d)
    PROVE  WillFit(pipe'[a], s, i, d)
  <1> DEFINE f == [type |-> "fragment", id |-> k[1], content |-> c]
  <1>1. a \in Agent /\ pipe[a] \in Seq(Frame)
    BY DEF FragmentsTypeOK
  <1>2. f \in Frame
    BY KeyKnown DEF Frame
  <1>3. pipe'[a] = IF a = k[2] THEN Append(pipe[a], f) ELSE pipe[a]
    BY <1>1 DEF Delta
  <1>4. k = <<k[1], k[2]>>
    BY KeyKnown
  <1>5. CASE k = <<i, a>>
    <2>1. Touches(f, i) /\ Brings(f, i, d)
      BY <1>5 DEF Touches, Brings, IsSync
    <2> HIDE DEF f
    <2> QED BY <1>1, <1>2, <1>3, <1>5, <2>1, LastFrameDecides
  <1>6. CASE k # <<i, a>> /\ a = k[2]
    <2>1. ~Touches(f, i)
      BY <1>4, <1>6 DEF Touches, IsSync
    <2> HIDE DEF f
    <2>2. <<f>> \in Seq(Frame) /\ Append(pipe[a], f) = pipe[a] \o <<f>>
      BY <1>1, <1>2, AppendProperties
    <2>3. Untouched(<<f>>, 1, i)
      BY <2>1 DEF Untouched
    <2> QED BY <1>1, <1>3, <1>6, <2>2, <2>3, OtherFramesPass
  <1>7. CASE k # <<i, a>> /\ a # k[2]
    BY <1>3, <1>7
  <1> QED
    BY <1>5, <1>6, <1>7

\* A broadcast that changes resyncs everybody, a targeted row is told by delta.
LEMMA WritesTell ==
    ASSUME FragmentsInv,
           \/ \E k \in Key, c \in Content, e \in Expiry : Upsert(k, c, e)
           \/ \E k \in Key : Delete(k)
    PROVE  TargetedUnderWay'
  <1> USE DEF FragmentsInv
  <1> SUFFICES ASSUME NEW a \in link, NEW i \in Id, Live(table', <<i, a>>)
               PROVE  WillFit(pipe'[a], store[a], i, table'[<<i, a>>].content)
    BY DEF TargetedUnderWay, Live, Exists, Upsert, Delete
  <1>1. RowsKnown' /\ FragmentsTypeOK'
    BY RowsStep, FragmentsStepTyped DEF FragmentsNext
  <1>2. Written(table') /\ table' \in Table
    BY <1>1 DEF RowsKnown, FragmentsTypeOK, Written, Exists
  <1>3. a \in Agent /\ <<i, a>> \in Key /\ a # Broadcast
    BY KeyKnown DEF FragmentsTypeOK
  <1>4. ASSUME NEW k \in Key, NEW c \in Content \cup {NoContent},
               \A j \in Key \ {k} : table'[j] = table[j], table'[k].content = c,
               IF k[2] = Broadcast THEN ResyncAll(table') ELSE Delta(k, c)
        PROVE  WillFit(pipe'[a], store[a], i, table'[<<i, a>>].content)
    <2>1. CASE k[2] = Broadcast
      BY <1>2, <1>4, <2>1, ResyncTells
    <2>2. CASE k[2] # Broadcast /\ k = <<i, a>>
      BY <1>4, <2>2, DeltaTells
    <2>3. CASE k[2] # Broadcast /\ k # <<i, a>>
      <3>1. table'[<<i, a>>] = table[<<i, a>>]
        BY <1>3, <1>4, <2>3
      <3>2. WillFit(pipe[a], store[a], i, table'[<<i, a>>].content)
        BY <3>1 DEF TargetedUnderWay, Live, Exists
      <3> QED BY <1>4, <2>3, <3>2, DeltaTells
    <2> QED BY <2>1, <2>2, <2>3
  <1>5. ASSUME NEW k \in Key, NEW c \in Content, NEW e \in Expiry, Upsert(k, c, e)
        PROVE  WillFit(pipe'[a], store[a], i, table'[<<i, a>>].content)
    <2>1. (\A j \in Key \ {k} : table'[j] = table[j]) /\ table'[k].content = c
      BY <1>5 DEF Upsert, FragmentsTypeOK, Table
    <2>2. IF k[2] = Broadcast THEN ResyncAll(table') ELSE Delta(k, c)
      BY <1>5 DEF Upsert
    <2> QED BY <1>4, <2>1, <2>2
  <1>6. ASSUME NEW k \in Key, Delete(k)
        PROVE  WillFit(pipe'[a], store[a], i, table'[<<i, a>>].content)
    <2>1. (\A j \in Key \ {k} : table'[j] = table[j]) /\ table'[k].content = NoContent
      BY <1>6 DEF Delete, NoRow, FragmentsTypeOK, Table
    <2>2. IF k[2] = Broadcast THEN ResyncAll(table') ELSE Delta(k, NoContent)
      BY <1>6 DEF Delete
    <2> QED BY <1>4, <2>1, <2>2
  <1> QED
    BY <1>5, <1>6

\* A pull that does not resync has left the live rows as they are: those it
\* would have brought are new to the hash.
LEMMA PullTells ==
    ASSUME FragmentsInv, NEW p \in Pull, ApplyPull(p)
    PROVE  TargetedUnderWay'
  <1> USE DEF FragmentsInv
  <1> SUFFICES ASSUME NEW a \in link, NEW i \in Id, Live(table', <<i, a>>)
               PROVE  WillFit(pipe'[a], store[a], i, table'[<<i, a>>].content)
    BY DEF TargetedUnderWay, Live, Exists, ApplyPull
  <1> DEFINE t == Replaced(table, pulls[p].rows)
  <1>1. table' = t /\ t \in Table /\ Written(t)
    BY ReplacedTyped, ReplacedKnown DEF ApplyPull, FragmentsTypeOK, PullState, RowsKnown
  <1>2. <<i, a>> \in Key
    BY KeyKnown DEF FragmentsTypeOK
  <1>3. CASE Changed(pulls[p].before, t)
    BY <1>1, <1>3, ResyncTells DEF ApplyPull
  <1>4. CASE ~Changed(pulls[p].before, t)
    <2>1. t[<<i, a>>].scope # "coordinator" /\ Exists(t, <<i, a>>)
      BY <1>1, <1>2, <1>4 DEF Changed, Live
    <2>2. t[<<i, a>>] = table[<<i, a>>]
      BY <1>2, <2>1, ReplacedKnown DEF FragmentsTypeOK, PullState, RowsKnown
    <2>3. WillFit(pipe[a], store[a], i, t[<<i, a>>].content)
      BY <1>1, <2>2 DEF TargetedUnderWay, Live, Exists
    <2> QED BY <1>1, <1>4, <2>3 DEF ApplyPull
  <1> QED
    BY <1>3, <1>4

\* The removals of a sweep are of rows that were not live.
LEMMA SweepTells ==
    ASSUME FragmentsInv, Sweep
    PROVE  TargetedUnderWay'
  <1> USE DEF FragmentsInv
  <1> SUFFICES ASSUME NEW a \in link, NEW i \in Id, Live(table', <<i, a>>)
               PROVE  WillFit(pipe'[a], store[a], i, table'[<<i, a>>].content)
    BY DEF TargetedUnderWay, Live, Exists, Sweep
  <1> DEFINE r == SetToSeq({Removal(j) : j \in Swept(a)})
  <1>1. a \in Agent /\ <<i, a>> \in Key
    BY KeyKnown DEF FragmentsTypeOK
  <1>2. table'[<<i, a>>] = table[<<i, a>>] /\ Live(table, <<i, a>>)
    BY <1>1 DEF Sweep, Live, Exists
  <1>3. r \in Seq({Removal(j) : j \in Swept(a)}) /\ r \in Seq(Frame)
    BY RemovalsTyped, RemovalsAreFrames DEF Swept
  <1>4. pipe'[a] = pipe[a] \o r
    BY <1>1, SweepSends
  <1>5. \A m \in 1..Len(r) : ~Touches(r[m], i)
    <2> SUFFICES ASSUME NEW m \in 1..Len(r)
                 PROVE  ~Touches(r[m], i)
      OBVIOUS
    <2>1. r[m] \in {Removal(j) : j \in Swept(a)}
      BY <1>3, ElementOfSeq
    <2>2. PICK j \in Swept(a) : r[m] = Removal(j)
      BY <2>1
    <2>3. j # i
      BY <1>2 DEF Swept
    <2> HIDE DEF r
    <2>4. r[m].type = "fragment" /\ r[m].id = j
      BY <2>2 DEF Removal
    <2> QED BY <2>3, <2>4 DEF Touches, IsSync
  <1> HIDE DEF r
  <1>6. WillFit(pipe[a], store[a], i, table[<<i, a>>].content)
    BY <1>2 DEF TargetedUnderWay
  <1>7. Untouched(r, 1, i) /\ pipe[a] \in Seq(Frame)
    BY <1>1, <1>5 DEF Untouched, FragmentsTypeOK
  <1> QED
    BY <1>2, <1>3, <1>4, <1>6, <1>7, OtherFramesPass

\* A new connection begins with everything; who reads a frame is no further
\* from what it will show.
LEMMA ConnectionsTell ==
    ASSUME FragmentsInv, NEW b \in Agent, Connect(b) \/ Disconnect(b) \/ Receive(b)
    PROVE  TargetedUnderWay'
  <1> USE DEF FragmentsInv
  <1> SUFFICES ASSUME NEW a \in link', NEW i \in Id, Live(table, <<i, a>>)
               PROVE  WillFit(pipe'[a], store'[a], i, table[<<i, a>>].content)
    BY DEF TargetedUnderWay, Live, Exists, Connect, Disconnect, Receive
  <1> DEFINE c == table[<<i, a>>].content
  <1>1. a \in Agent /\ pipe[a] \in Seq(Frame) /\ store[a] \in Shown
    BY DEF FragmentsTypeOK, Connect, Disconnect, Receive
  <1>2. a \in link => WillFit(pipe[a], store[a], i, c)
    BY DEF TargetedUnderWay
  <1>3. CASE a # b
    BY <1>1, <1>2, <1>3 DEF Connect, Disconnect, Receive, FragmentsTypeOK
  <1>4. CASE a = b /\ Connect(b)
    <2> DEFINE f == [type |-> "fragmentSync", fragments |-> Merged(table, a)]
    <2>1. f \in Frame
      BY <1>1, MergedTyped DEF Frame, FragmentsTypeOK
    <2>2. Touches(f, i) /\ Brings(f, i, c)
      BY <1>1, MergedFits DEF Touches, Brings, IsSync, RowsKnown, FragmentsTypeOK
    <2>3. pipe'[a] = <<f>>
      BY <1>1, <1>4 DEF Connect, FragmentsTypeOK
    <2> HIDE DEF f
    <2>4. <<>> \in Seq(Frame) /\ <<f>> = Append(<<>>, f)
      BY <2>1
    <2> QED BY <2>1, <2>2, <2>3, <2>4, LastFrameDecides
  <1>5. CASE a = b /\ Disconnect(b)
    BY <1>5 DEF Disconnect
  <1>6. CASE a = b /\ Receive(b)
    <2>1. a \in link /\ pipe[a] # <<>> /\ pipe'[a] = Tail(pipe[a])
      BY <1>1, <1>6 DEF Receive, FragmentsTypeOK
    <2>2. store'[a] = After(Head(pipe[a]), store[a])
      BY <1>1, <1>6 DEF Receive, After, IsSync, FragmentsTypeOK
    <2> QED BY <1>1, <1>2, <2>1, <2>2, ReadingAdvances
  <1> QED
    BY <1>3, <1>4, <1>5, <1>6

LEMMA UnderWayStep ==
    FragmentsInv /\ [FragmentsNext]_fragments_vars => TargetedUnderWay'
  <1> SUFFICES ASSUME FragmentsInv, [FragmentsNext]_fragments_vars
               PROVE  TargetedUnderWay'
    OBVIOUS
  <1>1. ASSUME UNCHANGED <<table, link, pipe, store, now>>
        PROVE  TargetedUnderWay'
    BY <1>1 DEF FragmentsInv, TargetedUnderWay, Live, Exists
  <1>2. ASSUME \/ \E k \in Key, c \in Content, e \in Expiry : Put(k, c, e)
               \/ \E k \in Key : Withdraw(k)
               \/ \E p \in Pull : StartPull(p) \/ ServePull(p) \/ FailPull(p)
               \/ UNCHANGED fragments_vars
        PROVE  TargetedUnderWay'
    BY <1>1, <1>2 DEF Put, Withdraw, StartPull, ServePull, FailPull, fragments_vars
  <1>3. ASSUME BeaconRestart
        PROVE  TargetedUnderWay'
    BY <1>3 DEF BeaconRestart, TargetedUnderWay
  <1>4. ASSUME FragmentsTick
        PROVE  TargetedUnderWay'
    <2>1. now \in Nat /\ now' = now + 1 /\ UNCHANGED <<table, link, pipe, store>>
      BY <1>4, FragmentsConstants DEF FragmentsTick, FragmentsInv, FragmentsTypeOK
    <2>2. \A i \in Id, a \in link : <<i, a>> \in Key /\ table[<<i, a>>] \in Row
      BY KeyKnown DEF FragmentsInv, FragmentsTypeOK, Table
    <2>3. \A i \in Id, a \in link : Live(table, <<i, a>>)' => Live(table, <<i, a>>)
      BY <2>1, <2>2, FragmentsConstants DEF Live, Exists, Row, Time
    <2> QED BY <2>1, <2>3 DEF TargetedUnderWay, FragmentsInv
  <1> QED
    BY <1>2, <1>3, <1>4, WritesTell, PullTells, SweepTells, ConnectionsTell
       DEF FragmentsNext

\* FragmentsInv, by which rows, answers and frames under way hold together
THEOREM FragmentsInvariant == FragmentsSpec => []FragmentsInv
  <1>1. FragmentsInit => FragmentsInv
    BY FragmentsInitTyped, EmptyTables
       DEF FragmentsInit, FragmentsInv, RowsKnown, TargetedUnderWay, IdlePull
  <1>2. FragmentsInv /\ [FragmentsNext]_fragments_vars => FragmentsInv'
    BY FragmentsStepTyped, RowsStep, UnderWayStep DEF FragmentsInv
  <1> QED
    BY <1>1, <1>2, PTL DEF FragmentsSpec

\* An agent that has read all its beacon sent shows every live row written for
\* it, or a broadcast of the same id: no order of writes, sweeps, overlapping
\* pulls, lost connections and restarts leaves one out (ws-server.ts,
\* routes/fragments.ts, fragments-sweep.ts, routes/context.ts).
THEOREM TargetsReachAgents == FragmentsSpec => []TargetedShown
  <1>1. FragmentsInv => TargetedShown
    <2> SUFFICES ASSUME FragmentsInv, NEW a \in link, NEW i \in Id, pipe[a] = <<>>,
                        WillFit(pipe[a], store[a], i, table[<<i, a>>].content),
                        store[a][<<i, "broadcast">>] = NoContent
                 PROVE  store[a][<<i, "own">>] = table[<<i, a>>].content
      BY DEF TargetedShown, FragmentsInv, TargetedUnderWay
    <2>1. 1..Len(pipe[a]) = {}
      OBVIOUS
    <2> QED BY <2>1 DEF WillFit, Fits
  <1> QED
    BY <1>1, FragmentsInvariant, PTL
=============================================================================
