---------------------------- MODULE UserSchedProofs ----------------------------
(***************************************************************************)
(* TLAPS proofs about UserSched, for every size of the channels and of the  *)
(* pool: types, nr_queued, and that user space is a UserRelay.              *)
(***************************************************************************)
EXTENDS UserSched, SequenceTheorems, FunctionTheorems, FiniteSetTheorems, TLAPS

----------------------------------------------------------------------------
(***************************************************************************)
(* Counting the records of a pid in a sequence.                            *)
(***************************************************************************)
One(e, p) == IF e = p THEN 1 ELSE 0

LEMMA OneType ==
    ASSUME NEW e, NEW p
    PROVE  One(e, p) \in Nat
  BY DEF One

LEMMA CountType ==
    ASSUME NEW S, NEW s \in Seq(S), NEW p
    PROVE  IsFiniteSet({i \in DOMAIN s : s[i] = p}) /\ CountOf(s, p) \in Nat
  <1>1. DOMAIN s = 1 .. Len(s) /\ Len(s) \in Nat
    BY LenProperties
  <1>2. IsFiniteSet(DOMAIN s)
    BY <1>1, FS_Interval
  <1>3. IsFiniteSet({i \in DOMAIN s : s[i] = p})
    BY <1>2, FS_Subset
  <1>4. QED
    BY <1>3, FS_CardinalityType DEF CountOf

LEMMA CountAppend ==
    ASSUME NEW S, NEW s \in Seq(S), NEW e \in S, NEW p
    PROVE  CountOf(Append(s, e), p) = CountOf(s, p) + One(e, p)
  <1> DEFINE t == Append(s, e)
             A == {i \in DOMAIN s : s[i] = p}
             B == {i \in DOMAIN t : t[i] = p}
             n == Len(s) + 1
  <1>1. /\ DOMAIN s = 1 .. Len(s) /\ Len(s) \in Nat
        /\ t \in Seq(S) /\ Len(t) = n
        /\ \A i \in 1 .. Len(s) : t[i] = s[i]
        /\ t[n] = e
    BY LenProperties, AppendProperties
  <1>2. DOMAIN t = 1 .. n
    BY <1>1, LenProperties
  <1>3. IsFiniteSet(A) /\ Cardinality(A) \in Nat
    BY CountType DEF CountOf
  <1>4. CountOf(s, p) = Cardinality(A) /\ CountOf(t, p) = Cardinality(B)
    BY DEF CountOf
  <1> HIDE DEF t
  <1>5. CASE e = p
    <2>1. B = A \cup {n} /\ n \notin A
      BY <1>1, <1>2, <1>5
    <2>2. Cardinality(B) = Cardinality(A) + 1
      BY <1>3, <2>1, FS_AddElement
    <2> HIDE DEF A, B
    <2>3. QED
      BY <1>3, <1>4, <1>5, <2>2 DEF One, t
  <1>6. CASE e # p
    <2>1. B = A
      BY <1>1, <1>2, <1>6
    <2> HIDE DEF A, B
    <2>2. QED
      BY <1>3, <1>4, <1>6, <2>1 DEF One, t
  <1>7. QED
    BY <1>5, <1>6

LEMMA CountEmpty ==
    ASSUME NEW p
    PROVE  CountOf(<<>>, p) = 0
  BY FS_EmptySet DEF CountOf

LEMMA CountSingle ==
    ASSUME NEW e, NEW p
    PROVE  CountOf(<<e>>, p) = One(e, p)
  <1>1. {i \in DOMAIN <<e>> : <<e>>[i] = p} = IF e = p THEN {1} ELSE {}
    OBVIOUS
  <1>2. QED
    BY <1>1, FS_EmptySet, FS_Singleton DEF CountOf, One

LEMMA CountTail ==
    ASSUME NEW S, NEW s \in Seq(S), s # <<>>, NEW p
    PROVE  CountOf(s, p) = CountOf(Tail(s), p) + One(Head(s), p)
  <1> DEFINE t == Tail(s)
             A == {i \in DOMAIN t : t[i] = p}
             B == {i \in DOMAIN s : s[i] = p}
             f == [i \in A |-> i + 1]
  <1>1. /\ DOMAIN s = 1 .. Len(s) /\ Len(s) \in Nat \ {0}
        /\ t \in Seq(S) /\ Len(t) = Len(s) - 1
        /\ \A i \in 1 .. Len(t) : t[i] = s[i + 1]
        /\ Head(s) = s[1]
    BY LenProperties, EmptySeq, HeadTailProperties
  <1>2. DOMAIN t = 1 .. Len(s) - 1
    BY <1>1, LenProperties
  <1>3. IsFiniteSet(A) /\ IsFiniteSet(B)
    BY <1>1, CountType
  <1> HIDE DEF t
  <1>4. f \in Bijection(A, B \ {1})
    <2>1. f \in [A -> B \ {1}]
      BY <1>1, <1>2
    <2>2. \A i, j \in A : f[i] = f[j] => i = j
      BY <1>1, <1>2
    <2>3. \A j \in B \ {1} : \E i \in A : f[i] = j
      <3> SUFFICES ASSUME NEW j \in B \ {1} PROVE \E i \in A : f[i] = j
        OBVIOUS
      <3>1. j - 1 \in A
        BY <1>1, <1>2
      <3>2. f[j - 1] = j
        BY <3>1, <1>1
      <3>3. QED
        BY <3>1, <3>2
    <2> HIDE DEF A, B, f
    <2>4. QED
      BY <2>1, <2>2, <2>3, Fun_IsBij
  <1>5. Cardinality(B \ {1}) = Cardinality(A)
    BY <1>3, <1>4, FS_Bijection DEF ExistsBijection
  <1>6. Cardinality(B \ {1}) = IF 1 \in B THEN Cardinality(B) - 1 ELSE Cardinality(B)
    BY <1>3, FS_RemoveElement
  <1>7. 1 \in B <=> Head(s) = p
    BY <1>1
  <1>8. Cardinality(A) \in Nat /\ Cardinality(B) \in Nat
    BY <1>3, FS_CardinalityType
  <1>9. CountOf(s, p) = Cardinality(B) /\ CountOf(t, p) = Cardinality(A)
    BY DEF CountOf
  <1> HIDE DEF A, B
  <1>10. QED
    BY <1>5, <1>6, <1>7, <1>8, <1>9 DEF One, t

\* s holds what t holds and e.
OneMore(s, t, e) == \A p : CountOf(s, p) = CountOf(t, p) + One(e, p)

\* Swapping the last element into the place of another one takes that one out.
LEMMA CountRemove ==
    ASSUME NEW S, NEW n \in Nat \ {0}, NEW s \in [1 .. n -> S], NEW i \in 1 .. n
    PROVE  \E t \in [1 .. n - 1 -> S] : OneMore(s, t, s[i])
  <1> DEFINE t == [j \in 1 .. n - 1 |-> IF j = i THEN s[n] ELSE s[j]]
  <1>1. t \in [1 .. n - 1 -> S]
    OBVIOUS
  <1>2. ASSUME NEW p PROVE CountOf(s, p) = CountOf(t, p) + One(s[i], p)
    <2> DEFINE A == {j \in 1 .. n : s[j] = p}
               B == {j \in 1 .. n - 1 : t[j] = p}
    <2>1. CountOf(s, p) = Cardinality(A) /\ CountOf(t, p) = Cardinality(B)
      BY <1>1 DEF CountOf
    <2>2. IsFiniteSet(A)
      BY FS_Interval, FS_Subset
    <2>3. Cardinality(A) \in Nat /\ IsFiniteSet(A \ {n})
      BY <2>2, FS_RemoveElement, FS_CardinalityType
    <2>4. CASE s[i] = p /\ (i = n \/ s[n] = p)
      <3>1. B = A \ {n} /\ n \in A
        BY <2>4
      <3> HIDE DEF A, B, t
      <3>2. Cardinality(A \ {n}) = Cardinality(A) - 1
        BY <2>2, <3>1, FS_RemoveElement
      <3>3. QED
        BY <2>1, <2>3, <2>4, <3>1, <3>2 DEF One
    <2>5. CASE s[i] = p /\ i # n /\ s[n] # p
      <3>1. B = A \ {i} /\ i \in A
        BY <2>5
      <3> HIDE DEF A, B, t
      <3>2. Cardinality(A \ {i}) = Cardinality(A) - 1
        BY <2>2, <3>1, FS_RemoveElement
      <3>3. QED
        BY <2>1, <2>3, <2>5, <3>1, <3>2 DEF One
    <2>6. CASE s[i] # p /\ s[n] = p
      <3>1. B = (A \ {n}) \cup {i} /\ n \in A /\ i \notin A \ {n}
        BY <2>6
      <3> HIDE DEF A, B, t
      <3>2. Cardinality(A \ {n}) = Cardinality(A) - 1
        BY <2>2, <3>1, FS_RemoveElement
      <3>3. Cardinality(B) = Cardinality(A \ {n}) + 1
        BY <2>3, <3>1, FS_AddElement
      <3>4. QED
        BY <2>1, <2>3, <2>6, <3>2, <3>3 DEF One
    <2>7. CASE s[i] # p /\ s[n] # p
      <3>1. B = A
        BY <2>7
      <3> HIDE DEF A, B, t
      <3>2. QED
        BY <2>1, <2>3, <2>7, <3>1 DEF One
    <2>8. QED
      BY <2>4, <2>5, <2>6, <2>7
  <1>3. OneMore(s, t, s[i])
    BY <1>2, Zenon DEF OneMore
  <1> HIDE DEF t
  <1>4. QED
    BY <1>1, <1>3

----------------------------------------------------------------------------
(***************************************************************************)
(* The inductive invariant.                                                *)
(***************************************************************************)
\* taskPoolCount is the number of records in the pool: they can be put in a row
\* of that length.
PoolCounted ==
    \E s \in [1 .. taskPoolCount -> Pids] : \A p \in Pids : taskPool[p] = CountOf(s, p)

\* The goroutine has a record in its hand between taking it from a channel or
\* the pool and passing it on, and nowhere else.
HandShape == hand # <<>> <=> pc \in {"sub", "store", "resend", "dispatch", "send"}

\* The pool has room for the record that DrainQueuedTask took.
RoomLeft == pc \in {"sub", "store"} => taskPoolCount < PoolCap

\* Between the test and the store of sub_nr_queued the counter only grows.
CounterPositive ==
    /\ nr_queued >= 0
    /\ pc = "store" => loaded >= 1 /\ nr_queued >= 1

IInv == Types /\ PoolCounted /\ HandShape /\ RoomLeft /\ CounterPositive

----------------------------------------------------------------------------
(***************************************************************************)
(* Every step keeps the invariant.                                         *)
(***************************************************************************)
LEMMA RowIsSeq ==
    ASSUME NEW S, NEW n \in Nat, NEW s \in [1 .. n -> S]
    PROVE  s \in Seq(S) /\ Len(s) = n
  OBVIOUS

LEMMA SeqSteps ==
    ASSUME NEW S, NEW s \in Seq(S), NEW e \in S
    PROVE  /\ Append(s, e) \in Seq(S)
           /\ s # <<>> => Head(s) \in S /\ Tail(s) \in Seq(S)
  BY AppendProperties, HeadTailProperties

LEMMA PoolTake ==
    ASSUME Types, PoolCounted, NEW p \in Pids, taskPool[p] > 0,
           taskPool' = [taskPool EXCEPT ![p] = @ - 1],
           taskPoolCount' = taskPoolCount - 1
    PROVE  taskPoolCount \in 1 .. PoolCap /\ PoolCounted'
  <1>1. PICK s \in [1 .. taskPoolCount -> Pids] : \A q \in Pids : taskPool[q] = CountOf(s, q)
    BY DEF PoolCounted
  <1>2. taskPoolCount \in Nat /\ taskPool \in [Pids -> Nat] /\ PoolCap \in Nat
    BY UserSchedAssumption DEF Types
  <1>3. \E i \in 1 .. taskPoolCount : s[i] = p
    <2> SUFFICES ASSUME \A i \in 1 .. taskPoolCount : s[i] # p PROVE FALSE
      OBVIOUS
    <2>1. {i \in DOMAIN s : s[i] = p} = {}
      OBVIOUS
    <2>2. CountOf(s, p) = 0
      BY <2>1, FS_EmptySet DEF CountOf
    <2>3. QED
      BY <1>1, <2>2
  <1>4. PICK i \in 1 .. taskPoolCount : s[i] = p
    BY <1>3
  <1>5. taskPoolCount \in Nat \ {0}
    BY <1>2, <1>4
  <1>6. PICK t \in [1 .. taskPoolCount - 1 -> Pids] : OneMore(s, t, s[i])
    BY <1>5, CountRemove
  <1>7. \A q : CountOf(s, q) = CountOf(t, q) + One(s[i], q)
    BY <1>6, Zenon DEF OneMore
  <1>8. \A q \in Pids : CountOf(t, q) \in Nat
    <2>1. taskPoolCount - 1 \in Nat
      BY <1>5
    <2>2. t \in Seq(Pids)
      BY <2>1, RowIsSeq
    <2>3. QED
      BY <2>2, CountType
  <1>9. \A q \in Pids : taskPool'[q] = CountOf(t, q)
    BY <1>1, <1>2, <1>4, <1>7, <1>8 DEF One
  <1>10. t \in [1 .. taskPoolCount' -> Pids]
    OBVIOUS
  <1>11. PoolCounted'
    BY <1>9, <1>10, Zenon DEF PoolCounted
  <1>12. QED
    BY <1>5, <1>11 DEF Types

LEMMA PoolPut ==
    ASSUME Types, PoolCounted, NEW p \in Pids,
           taskPool' = [taskPool EXCEPT ![p] = @ + 1],
           taskPoolCount' = taskPoolCount + 1
    PROVE  PoolCounted'
  <1>1. PICK s \in [1 .. taskPoolCount -> Pids] : \A q \in Pids : taskPool[q] = CountOf(s, q)
    BY DEF PoolCounted
  <1>2. taskPoolCount \in Nat /\ s \in Seq(Pids) /\ Len(s) = taskPoolCount
    BY RowIsSeq, UserSchedAssumption DEF Types
  <1> DEFINE t == Append(s, p)
  <1>3. t \in [1 .. taskPoolCount + 1 -> Pids]
    <2>1. t \in Seq(Pids) /\ Len(t) = taskPoolCount + 1
      BY <1>2, AppendProperties
    <2>2. t \in [1 .. Len(t) -> Pids]
      BY <2>1, LenProperties
    <2> HIDE DEF t
    <2>3. QED
      BY <2>1, <2>2
  <1>4. \A q \in Pids : CountOf(t, q) = CountOf(s, q) + One(p, q)
    BY <1>2, CountAppend
  <1> HIDE DEF t
  <1>5. \A q \in Pids : taskPool'[q] = CountOf(t, q)
    BY <1>1, <1>4 DEF Types, One
  <1>6. t \in [1 .. taskPoolCount' -> Pids]
    BY <1>3
  <1>7. QED
    BY <1>5, <1>6, Zenon DEF PoolCounted

LEMMA InitIInv == Init => IInv
  <1> SUFFICES ASSUME Init PROVE IInv
    OBVIOUS
  <1>1. ring \in Seq(Pids) /\ queue \in Seq(Pids) /\ dispatch \in Seq(Pids) /\ urb \in Seq(Pids)
    BY EmptySeq DEF Init
  <1>2. taskPool \in [Pids -> Nat] /\ taskPoolCount \in 0 .. PoolCap /\ adds \in 0 .. NrCpus
    BY UserSchedAssumption DEF Init
  <1>3. hand \in {<<>>} \cup {<<p>> : p \in Pids}
    BY DEF Init
  <1>4. Types
    <2>1. loaded \in Int /\ nr_queued \in Int /\ nr_scheduled \in Nat /\ pc \in PCs
      BY DEF Init, PCs
    <2>2. urb_failed \in BOOLEAN /\ num \in BOOLEAN
      BY Zenon DEF Init
    <2>3. QED
      BY <1>1, <1>2, <1>3, <2>1, <2>2, Zenon DEF Types
  <1>5. PoolCounted
    <2>1. <<>> \in [1 .. 0 -> Pids] /\ \A p \in Pids : CountOf(<<>>, p) = 0
      BY CountEmpty
    <2>2. QED
      BY <2>1 DEF Init, PoolCounted
  <1>6. QED
    BY <1>4, <1>5 DEF Init, IInv, HandShape, RoomLeft, CounterPositive

\* The BPF half and libbpfgo leave the goroutine alone.
LEMMA EnvironmentStep ==
    ASSUME IInv,
           \/ \E p \in Pids : Submit(p)
           \/ AddNrQueued \/ PollSend \/ UrbSend \/ UrbFail \/ BpfDrain
    PROVE  IInv'
  <1> USE UserSchedAssumption
  <1>1. UNCHANGED goVars
    BY DEF Submit, AddNrQueued, PollSend, UrbSend, UrbFail, BpfDrain
  <1>2. PoolCounted' /\ HandShape' /\ RoomLeft'
    <2>1. UNCHANGED <<taskPool, taskPoolCount, pc, hand>>
      BY <1>1 DEF goVars
    <2>2. PoolCounted'
      BY <2>1 DEF IInv, PoolCounted
    <2>3. QED
      BY <2>1, <2>2 DEF IInv, HandShape, RoomLeft
  <1>3. Types
    BY DEF IInv
  <1>4. /\ ring' \in Seq(Pids) /\ queue' \in Seq(Pids)
        /\ dispatch' \in Seq(Pids) /\ urb' \in Seq(Pids)
        /\ nr_queued' \in Int /\ nr_queued' >= nr_queued
        /\ adds' \in 0 .. NrCpus /\ nr_scheduled' \in Nat /\ urb_failed' \in BOOLEAN
    <2>1. CASE \E p \in Pids : Submit(p)
      BY <1>3, <2>1, SeqSteps DEF Submit, Types
    <2>2. CASE AddNrQueued
      BY <1>3, <2>2 DEF AddNrQueued, Types
    <2>3. CASE PollSend
      BY <1>3, <2>3, SeqSteps DEF PollSend, Types
    <2>4. CASE UrbSend
      BY <1>3, <2>4, SeqSteps DEF UrbSend, Types
    <2>5. CASE UrbFail
      BY <1>3, <2>5 DEF UrbFail, Types
    <2>6. CASE BpfDrain
      BY <1>3, <2>6, SeqSteps DEF BpfDrain, Types
    <2>7. QED
      BY <2>1, <2>2, <2>3, <2>4, <2>5, <2>6
  <1>5. CounterPositive'
    BY <1>1, <1>3, <1>4 DEF goVars, IInv, Types, CounterPositive
  <1>6. Types'
    BY <1>1, <1>3, <1>4 DEF goVars, Types
  <1>7. QED
    BY <1>2, <1>5, <1>6 DEF IInv

\* A step that changes neither the pool nor its count.
LEMMA PoolSame ==
    ASSUME PoolCounted, UNCHANGED <<taskPool, taskPoolCount>>
    PROVE  PoolCounted'
  BY DEF PoolCounted

LEMMA HandIs ==
    ASSUME IInv, pc \in {"sub", "store", "resend", "dispatch", "send"}
    PROVE  hand[1] \in Pids /\ hand = <<hand[1]>>
  BY DEF IInv, Types, HandShape

LEMMA GetTaskFromPoolStep ==
    ASSUME IInv, GetTaskFromPool
    PROVE  IInv'
  <1> USE UserSchedAssumption
  <1>1. CASE taskPoolCount = 0 /\ pc' = "fill" /\ UNCHANGED <<taskPool, taskPoolCount, hand>>
    <2>1. PoolCounted'
      BY <1>1, PoolSame DEF IInv
    <2>2. Types'
      BY <1>1 DEF IInv, Types, GetTaskFromPool, shared, PCs
    <2>3. QED
      BY <1>1, <2>1, <2>2 DEF IInv, HandShape, RoomLeft, CounterPositive, GetTaskFromPool, shared
  <1>2. ASSUME NEW p \in Pids, taskPool[p] > 0,
               taskPool' = [taskPool EXCEPT ![p] = @ - 1],
               taskPoolCount' = taskPoolCount - 1,
               hand' = <<p>>, pc' = "dispatch"
        PROVE  IInv'
    <2>1. PoolCounted' /\ taskPoolCount \in 1 .. PoolCap
      BY <1>2, PoolTake DEF IInv
    <2>2. taskPool' \in [Pids -> Nat] /\ taskPoolCount' \in 0 .. PoolCap
      BY <1>2, <2>1 DEF IInv, Types
    <2>3. hand' \in {<<>>} \cup {<<q>> : q \in Pids} /\ hand' # <<>>
      BY <1>2
    <2>4. UNCHANGED <<shared, num, loaded>> /\ pc = "pool"
      BY DEF GetTaskFromPool
    <2>5. Types'
      BY <1>2, <2>2, <2>3, <2>4 DEF IInv, Types, shared, PCs
    <2>6. QED
      BY <1>2, <2>1, <2>3, <2>4, <2>5 DEF IInv, HandShape, RoomLeft, CounterPositive, shared
  <1>3. QED
    BY <1>1, <1>2 DEF GetTaskFromPool

\* The two steps that end sub_nr_queued put the record into the pool.
LEMMA InsertTaskToPoolStep ==
    ASSUME IInv, pc \in {"sub", "store"}, InsertTaskToPool,
           nr_queued' \in Nat,
           UNCHANGED <<ring, adds, nr_scheduled, queue, dispatch, urb, urb_failed>>
    PROVE  IInv'
  <1>1. hand[1] \in Pids
    BY HandIs
  <1>2. PoolCounted'
    BY <1>1, PoolPut DEF IInv, InsertTaskToPool
  <1>3. taskPoolCount' \in 0 .. PoolCap /\ taskPool' \in [Pids -> Nat]
    BY <1>1, UserSchedAssumption DEF InsertTaskToPool, IInv, Types, RoomLeft
  <1>4. /\ hand' = <<>> /\ num' = TRUE /\ loaded' = 0 /\ pc' = "drain"
    BY DEF InsertTaskToPool
  <1>5. Types'
    BY <1>3, <1>4 DEF IInv, Types, PCs
  <1>6. QED
    BY <1>2, <1>4, <1>5 DEF IInv, HandShape, RoomLeft, CounterPositive

LEMMA SubNrQueuedStep ==
    ASSUME IInv, sub_nr_queued \/ sub_nr_queued_reload \/ sub_nr_queued_store
    PROVE  IInv'
  <1>1. CASE sub_nr_queued /\ nr_queued = 0
    <2>1. InsertTaskToPool /\ pc = "sub" /\ UNCHANGED shared
      BY <1>1 DEF sub_nr_queued
    <2>2. QED
      BY <1>1, <2>1, InsertTaskToPoolStep DEF shared
  <1>2. CASE \/ sub_nr_queued /\ nr_queued # 0
             \/ sub_nr_queued_reload
    <2>1. /\ pc \in {"sub", "store"} /\ pc' = "store"
          /\ UNCHANGED <<shared, taskPool, taskPoolCount, hand, num>>
          /\ loaded' = nr_queued
      BY <1>2 DEF sub_nr_queued, sub_nr_queued_reload
    <2>2. nr_queued >= 1
      BY <1>2 DEF sub_nr_queued, sub_nr_queued_reload, IInv, Types, CounterPositive
    <2>3. Types'
      BY <2>1 DEF IInv, Types, shared, PCs
    <2>4. PoolCounted'
      BY <2>1, PoolSame DEF IInv
    <2>5. QED
      BY <2>1, <2>2, <2>3, <2>4 DEF IInv, HandShape, RoomLeft, CounterPositive, shared
  <1>3. CASE sub_nr_queued_store
    <2>1. nr_queued' \in Nat
      BY <1>3 DEF sub_nr_queued_store, IInv, Types, CounterPositive
    <2>2. QED
      BY <1>3, <2>1, InsertTaskToPoolStep DEF sub_nr_queued_store
  <1>4. QED
    BY <1>1, <1>2, <1>3

\* The steps that leave the pool and nr_queued alone.
LEMMA ChannelStep ==
    ASSUME IInv,
           \/ Fill \/ DrainQueuedTask \/ BlockTilReadyForDequeue \/ Resend
           \/ DispatchTask \/ SendDispatch \/ NotifyComplete
    PROVE  IInv'
  <1> USE UserSchedAssumption
  <1>1. /\ UNCHANGED <<ring, adds, nr_queued, urb, urb_failed, taskPool, taskPoolCount, loaded>>
        /\ pc # "store" /\ pc' \notin {"store"}
    BY DEF Fill, DrainQueuedTask, BlockTilReadyForDequeue, Resend, DispatchTask,
           SendDispatch, NotifyComplete, shared
  <1>2. PoolCounted' /\ CounterPositive'
    BY <1>1, PoolSame DEF IInv, CounterPositive
  <1>3. Types
    BY DEF IInv
  <1>4. /\ queue' \in Seq(Pids) /\ dispatch' \in Seq(Pids) /\ nr_scheduled' \in Nat
        /\ hand' \in {<<>>} \cup {<<p>> : p \in Pids}
        /\ pc' \in PCs /\ num' \in BOOLEAN
        /\ HandShape' /\ RoomLeft'
    <2>1. CASE Fill
      BY <1>3, <2>1 DEF Fill, Types, shared, PCs, IInv, HandShape, RoomLeft
    <2>2. CASE DrainQueuedTask
      <3>1. CASE queue # <<>> /\ taskPoolCount < PoolCap
        <4>1. /\ hand' = <<Head(queue)>> /\ queue' = Tail(queue) /\ pc' = "sub" /\ num' = num
              /\ UNCHANGED <<nr_scheduled, dispatch, taskPoolCount>>
          BY <2>2, <3>1 DEF DrainQueuedTask
        <4>2. Head(queue) \in Pids /\ Tail(queue) \in Seq(Pids)
          BY <1>3, <3>1, HeadTailProperties DEF Types
        <4>3. HandShape' /\ RoomLeft'
          BY <3>1, <4>1 DEF HandShape, RoomLeft
        <4>4. QED
          BY <1>3, <4>1, <4>2, <4>3 DEF Types, PCs
      <3>2. CASE ~(queue # <<>> /\ taskPoolCount < PoolCap)
        BY <1>3, <2>2, <3>2 DEF DrainQueuedTask, Types, PCs, IInv, HandShape, RoomLeft
      <3>3. QED
        BY <3>1, <3>2
    <2>3. CASE BlockTilReadyForDequeue
      BY <1>3, <2>3, SeqSteps DEF BlockTilReadyForDequeue, Types, PCs, IInv, HandShape, RoomLeft
    <2>4. CASE Resend
      <3>1. hand[1] \in Pids
        BY <2>4, HandIs DEF Resend
      <3>2. QED
        BY <1>3, <2>4, <3>1, SeqSteps DEF Resend, Types, PCs, IInv, HandShape, RoomLeft
    <2>5. CASE DispatchTask
      BY <1>3, <2>5 DEF DispatchTask, Types, shared, PCs, IInv, HandShape, RoomLeft
    <2>6. CASE SendDispatch
      <3>1. hand[1] \in Pids
        BY <2>6, HandIs DEF SendDispatch
      <3>2. QED
        BY <1>3, <2>6, <3>1, SeqSteps DEF SendDispatch, Types, PCs, IInv, HandShape, RoomLeft
    <2>7. CASE NotifyComplete
      BY <1>3, <2>7 DEF NotifyComplete, Types, PCs, IInv, HandShape, RoomLeft
    <2>8. QED
      BY <2>1, <2>2, <2>3, <2>4, <2>5, <2>6, <2>7
  <1>5. Types'
    BY <1>1, <1>3, <1>4 DEF Types
  <1>6. QED
    BY <1>2, <1>4, <1>5 DEF IInv

LEMMA NextIInv ==
    ASSUME IInv, [Next]_vars
    PROVE  IInv'
  <1>1. CASE UNCHANGED vars
    <2>1. PoolCounted'
      BY <1>1, PoolSame DEF vars, IInv
    <2>2. QED
      BY <1>1, <2>1 DEF vars, IInv, Types, HandShape, RoomLeft, CounterPositive
  <1>2. CASE Next
    BY <1>2, EnvironmentStep, GetTaskFromPoolStep, SubNrQueuedStep, ChannelStep DEF Next, Go
  <1>3. QED
    BY <1>1, <1>2

----------------------------------------------------------------------------
(***************************************************************************)
(* The invariants of the run.                                              *)
(***************************************************************************)
\* The invariant holds in every state.
THEOREM Invariance == Spec => []IInv
  <1>1. Init => IInv
    BY InitIInv
  <1>2. IInv /\ [Next]_vars => IInv'
    BY NextIInv
  <1>3. QED
    BY <1>1, <1>2, PTL DEF Spec

\* The two channels hold no more than their capacity.
Fits == Len(queue) <= QueueCap /\ Len(dispatch) <= DispatchCap

\* A channel grows by one record, shrinks by one, or stays.
LEMMA LenSteps ==
    ASSUME NEW S, NEW s \in Seq(S), NEW e \in S
    PROVE  /\ Len(s) \in Nat /\ Len(Append(s, e)) = Len(s) + 1
           /\ s # <<>> => Len(Tail(s)) = Len(s) - 1
  BY AppendProperties, HeadTailProperties, LenProperties

LEMMA NextFits ==
    ASSUME IInv, Fits, [Next]_vars
    PROVE  Fits'
  <1>1. /\ queue \in Seq(Pids) /\ dispatch \in Seq(Pids) /\ ring \in Seq(Pids)
        /\ Len(queue) \in Nat /\ Len(dispatch) \in Nat
        /\ QueueCap \in Nat /\ DispatchCap \in Nat
    BY UserSchedAssumption, LenProperties DEF IInv, Types
  <1>2. CASE PollSend
    <2>1. Head(ring) \in Pids
      BY <1>1, <1>2, HeadTailProperties DEF PollSend
    <2>2. Len(queue') = Len(queue) + 1 /\ Len(queue) < QueueCap /\ dispatch' = dispatch
      BY <1>1, <1>2, <2>1, LenSteps DEF PollSend
    <2>3. QED
      BY <1>1, <2>2 DEF Fits
  <1>3. CASE UrbSend
    <2>1. Len(dispatch') = Len(dispatch) - 1 /\ queue' = queue
      BY <1>1, <1>3, HeadTailProperties DEF UrbSend
    <2>2. QED
      BY <1>1, <2>1 DEF Fits
  <1>4. CASE DrainQueuedTask \/ BlockTilReadyForDequeue
    <2>1. (Len(queue') = Len(queue) - 1 \/ queue' = queue) /\ dispatch' = dispatch
      BY <1>1, <1>4, HeadTailProperties DEF DrainQueuedTask, BlockTilReadyForDequeue
    <2>2. QED
      BY <1>1, <2>1 DEF Fits
  <1>5. CASE Resend
    <2>1. hand[1] \in Pids
      BY <1>5, HandIs DEF Resend
    <2>2. Len(queue') = Len(queue) + 1 /\ Len(queue) < QueueCap /\ dispatch' = dispatch
      BY <1>1, <1>5, <2>1, LenSteps DEF Resend
    <2>3. QED
      BY <1>1, <2>2 DEF Fits
  <1>6. CASE SendDispatch
    <2>1. hand[1] \in Pids
      BY <1>6, HandIs DEF SendDispatch
    <2>2. Len(dispatch') = Len(dispatch) + 1 /\ Len(dispatch) < DispatchCap /\ queue' = queue
      BY <1>1, <1>6, <2>1, LenSteps DEF SendDispatch
    <2>3. QED
      BY <1>1, <2>2 DEF Fits
  <1>7. CASE UNCHANGED <<queue, dispatch>>
    BY <1>7 DEF Fits
  <1>8. QED
    BY <1>2, <1>3, <1>4, <1>5, <1>6, <1>7
    DEF Next, Go, Submit, AddNrQueued, UrbFail, BpfDrain, GetTaskFromPool, Fill, sub_nr_queued,
        sub_nr_queued_store, sub_nr_queued_reload, DispatchTask, NotifyComplete, shared, vars

\* In every reachable state the pool holds at most PoolCap tasks and neither
\* channel more records than its capacity, whatever the interleaving of the
\* goroutine with the poller, the writer and the BPF half.
THEOREM TypeCorrect == Spec => []TypeOK
  <1>1. Init => Fits
    BY UserSchedAssumption, EmptySeq DEF Init, Fits
  <1>2. IInv /\ Fits /\ [Next]_vars => Fits'
    BY NextFits
  <1>3. IInv /\ Fits => TypeOK
    BY DEF IInv, Fits, TypeOK
  <1>4. QED
    BY <1>1, <1>2, <1>3, Invariance, PTL DEF Spec

\* The unlocked decrement of sub_nr_queued never takes the counter below 0: the
\* BPF half only adds, so a counter that was seen positive stays positive until
\* the store.
THEOREM NrQueuedCorrect == Spec => []NrQueuedNeverWraps
  <1>1. IInv => NrQueuedNeverWraps
    BY DEF IInv, CounterPositive, NrQueuedNeverWraps
  <1>2. QED
    BY <1>1, Invariance, PTL

----------------------------------------------------------------------------
(***************************************************************************)
(* User space is a relay: what each step does to the records it holds.     *)
(***************************************************************************)
LEMMA HeldType ==
    ASSUME Types
    PROVE  /\ \A p \in Pids : /\ CountOf(queue, p) \in Nat /\ CountOf(dispatch, p) \in Nat
                              /\ CountOf(hand, p) \in Nat /\ taskPool[p] \in Nat
           /\ Held \in [Pids -> Nat]
  <1>1. \A p \in Pids : CountOf(hand, p) \in Nat
    <2>1. CASE hand = <<>>
      BY <2>1, CountEmpty
    <2>2. CASE \E q \in Pids : hand = <<q>>
      BY <2>2, CountSingle DEF One
    <2>3. QED
      BY <2>1, <2>2 DEF Types
  <1>2. \A p \in Pids : CountOf(queue, p) \in Nat /\ CountOf(dispatch, p) \in Nat
    BY CountType DEF Types
  <1>3. QED
    BY <1>1, <1>2 DEF Types, Held

LEMMA HeldFun == Types => Held \in [Pids -> Nat]
  BY HeldType

LEMMA HeldFunNext == Types' => Held' \in [Pids -> Nat]
  <1>1. (Types => Held \in [Pids -> Nat])'
    BY HeldFun, PTL
  <1>2. QED
    BY <1>1

\* One record more, and one record fewer, with user space.
LEMMA HeldPlus ==
    ASSUME Types, Types', NEW e \in Pids, \A p \in Pids : Held'[p] = Held[p] + One(e, p)
    PROVE  Held' = [Held EXCEPT ![e] = @ + 1]
  <1>1. Held \in [Pids -> Nat] /\ Held' \in [Pids -> Nat]
    BY HeldFun, HeldFunNext
  <1>2. \A p \in Pids : Held'[p] = [Held EXCEPT ![e] = @ + 1][p]
    BY <1>1 DEF One
  <1>3. QED
    BY <1>1, <1>2

LEMMA HeldMinus ==
    ASSUME Types, Types', NEW e \in Pids, \A p \in Pids : Held[p] = Held'[p] + One(e, p)
    PROVE  Held[e] > 0 /\ Held' = [Held EXCEPT ![e] = @ - 1]
  <1>1. Held \in [Pids -> Nat] /\ Held' \in [Pids -> Nat]
    BY HeldFun, HeldFunNext
  <1>2. \A p \in Pids : Held'[p] = [Held EXCEPT ![e] = @ - 1][p]
    BY <1>1 DEF One
  <1>3. Held[e] > 0
    BY <1>1 DEF One
  <1>4. QED
    BY <1>1, <1>2, <1>3

LEMMA HeldSame ==
    ASSUME \A p \in Pids : Held'[p] = Held[p]
    PROVE  Held' = Held
  BY DEF Held

LEMMA HeldNext ==
    ASSUME Types
    PROVE  \A p \in Pids :
             /\ Held[p] = CountOf(queue, p) + taskPool[p] + CountOf(hand, p) + CountOf(dispatch, p)
             /\ Held'[p] = CountOf(queue', p) + taskPool'[p] + CountOf(hand', p)
                             + CountOf(dispatch', p)
             /\ CountOf(queue, p) \in Nat /\ CountOf(dispatch, p) \in Nat
             /\ CountOf(hand, p) \in Nat /\ taskPool[p] \in Nat
  <1>1. \A p \in Pids :
          /\ Held[p] = CountOf(queue, p) + taskPool[p] + CountOf(hand, p) + CountOf(dispatch, p)
          /\ Held'[p] = CountOf(queue', p) + taskPool'[p] + CountOf(hand', p)
                          + CountOf(dispatch', p)
    BY DEF Held
  <1>2. QED
    BY <1>1, HeldType

relayVars == <<ring, Held, urb, urb_failed>>

\* The BPF half and libbpfgo: the steps of the relay itself.
LEMMA EnvironmentRelays ==
    ASSUME IInv, IInv',
           \/ \E p \in Pids : Submit(p)
           \/ AddNrQueued \/ PollSend \/ UrbSend \/ UrbFail \/ BpfDrain
    PROVE  [Relay!RelayNext]_relayVars
  <1>1. Types /\ Types'
    BY DEF IInv
  <1>2. UNCHANGED <<taskPool, hand>>
    BY DEF Submit, AddNrQueued, PollSend, UrbSend, UrbFail, BpfDrain, goVars
  <1>3. CASE UNCHANGED <<queue, dispatch>>
    <2>1. Held' = Held
      BY <1>2, <1>3 DEF Held
    <2>2. CASE \E p \in Pids : Submit(p)
      BY <2>1, <2>2 DEF Submit, Relay!RelayNext, Relay!Enqueue
    <2>3. CASE AddNrQueued
      BY <2>1, <2>3 DEF AddNrQueued, relayVars
    <2>4. CASE UrbFail
      BY <2>1, <2>4 DEF UrbFail, Relay!RelayNext, Relay!Break
    <2>5. CASE BpfDrain
      BY <2>1, <2>5 DEF BpfDrain, Relay!RelayNext, Relay!Drain
    <2>6. CASE PollSend \/ UrbSend
      <3>1. queue # queue' \/ dispatch # dispatch'
        <4>1. CASE PollSend
          <5>1. Head(ring) \in Pids
            BY <1>1, <4>1, HeadTailProperties DEF PollSend, Types
          <5>2. Len(queue') = Len(queue) + 1 /\ Len(queue) \in Nat
            BY <1>1, <4>1, <5>1, AppendProperties, LenProperties DEF PollSend, Types
          <5>3. QED
            BY <5>2
        <4>2. CASE UrbSend
          <5>1. Len(dispatch') = Len(dispatch) - 1 /\ Len(dispatch) \in Nat
            BY <1>1, <4>2, HeadTailProperties, LenProperties DEF UrbSend, Types
          <5>2. QED
            BY <5>1
        <4>3. QED
          BY <2>6, <4>1, <4>2
      <3>2. QED
        BY <1>3, <3>1
    <2>7. QED
      BY <2>2, <2>3, <2>4, <2>5, <2>6
  <1>4. CASE PollSend
    <2> DEFINE e == Head(ring)
    <2>1. e \in Pids /\ queue' = Append(queue, e) /\ dispatch' = dispatch
      BY <1>1, <1>4, HeadTailProperties DEF PollSend, Types
    <2> HIDE DEF e
    <2>2. \A p \in Pids : CountOf(queue', p) = CountOf(queue, p) + One(e, p)
      BY <1>1, <2>1, CountAppend DEF Types
    <2>3. \A p \in Pids : Held'[p] = Held[p] + One(e, p)
      <3>1. UNCHANGED <<taskPool, hand, dispatch>>
        BY <1>2, <2>1
      <3>2. QED
        BY <1>1, <2>2, <3>1, HeldNext, OneType
    <2>4. Held' = [Held EXCEPT ![e] = @ + 1]
      BY <1>1, <2>1, <2>3, HeldPlus
    <2>5. Relay!Dequeue
      BY <1>4, <2>4 DEF PollSend, Relay!Dequeue, e
    <2>6. QED
      BY <2>5 DEF Relay!RelayNext
  <1>5. CASE UrbSend
    <2> DEFINE e == Head(dispatch)
    <2>1. e \in Pids /\ dispatch' = Tail(dispatch) /\ queue' = queue /\ dispatch # <<>>
      BY <1>1, <1>5, HeadTailProperties DEF UrbSend, Types
    <2>2. \A p \in Pids : CountOf(dispatch, p) = CountOf(dispatch', p) + One(e, p)
      BY <1>1, <2>1, CountTail DEF Types
    <2>3. \A p \in Pids : CountOf(dispatch', p) \in Nat
      BY <1>1, CountType DEF Types
    <2> HIDE DEF e
    <2>4. \A p \in Pids : Held[p] = Held'[p] + One(e, p)
      <3>1. UNCHANGED <<taskPool, hand, queue>>
        BY <1>2, <2>1
      <3>2. QED
        BY <1>1, <2>2, <2>3, <3>1, HeldNext, OneType
    <2>5. Held[e] > 0 /\ Held' = [Held EXCEPT ![e] = @ - 1]
      BY <1>1, <2>1, <2>4, HeldMinus
    <2>6. Relay!Dispatch(e)
      BY <1>5, <2>5 DEF UrbSend, Relay!Dispatch, e
    <2>7. QED
      BY <2>1, <2>6 DEF Relay!RelayNext
  <1>6. QED
    BY <1>3, <1>4, <1>5 DEF Submit, AddNrQueued, UrbFail, BpfDrain

\* The goroutine only moves records about, but for the record it drops when the
\* ring is broken.
LEMMA GoRelays ==
    ASSUME IInv, IInv', Go \/ sub_nr_queued_reload
    PROVE  [Relay!RelayNext]_relayVars
  <1>1. Types /\ Types'
    BY DEF IInv
  <1>2. UNCHANGED <<ring, urb, urb_failed>>
    BY DEF Go, sub_nr_queued_reload, GetTaskFromPool, Fill, DrainQueuedTask, sub_nr_queued,
           sub_nr_queued_store, BlockTilReadyForDequeue, Resend, DispatchTask, SendDispatch,
           NotifyComplete, shared
  <1>3. CASE UNCHANGED <<queue, taskPool, hand, dispatch>>
    BY <1>2, <1>3 DEF Held, relayVars
  <1>4. SUFFICES ASSUME ~(UNCHANGED <<queue, taskPool, hand, dispatch>>)
                 PROVE  [Relay!RelayNext]_relayVars
    BY <1>3
  \* A record from a channel into the hand.
  <1>5. ASSUME queue # <<>>, hand = <<>>, hand' = <<Head(queue)>>, queue' = Tail(queue),
               UNCHANGED <<taskPool, dispatch>>
        PROVE  Held' = Held
    <2> DEFINE e == Head(queue)
    <2>1. \A p \in Pids : CountOf(queue, p) = CountOf(queue', p) + One(e, p)
      BY <1>1, <1>5, CountTail DEF Types
    <2>2. \A p \in Pids : CountOf(hand', p) = One(e, p) /\ CountOf(hand, p) = 0
      BY <1>5, CountSingle, CountEmpty
    <2>3. \A p \in Pids : CountOf(queue', p) \in Nat
      BY <1>1, CountType DEF Types
    <2> HIDE DEF e
    <2>4. \A p \in Pids : Held'[p] = Held[p]
      BY <1>1, <1>5, <2>1, <2>2, <2>3, HeldNext DEF One
    <2>5. QED
      BY <2>4, HeldSame
  \* What the hand holds, and that it is empty afterwards.
  <1>6. ASSUME pc \in {"sub", "store", "resend", "dispatch", "send"}, hand' = <<>>
        PROVE  /\ hand[1] \in Pids
               /\ \A p \in Pids : CountOf(hand, p) = One(hand[1], p) /\ CountOf(hand', p) = 0
    <2>1. hand[1] \in Pids /\ hand = <<hand[1]>>
      BY <1>6, HandIs
    <2>2. \A p \in Pids : CountOf(<<hand[1]>>, p) = One(hand[1], p)
      BY CountSingle
    <2>3. QED
      BY <1>6, <2>1, <2>2, CountEmpty
  <1>7. CASE GetTaskFromPool
    <2>1. PICK e \in Pids : /\ taskPool[e] > 0
                            /\ taskPool' = [taskPool EXCEPT ![e] = @ - 1]
                            /\ hand' = <<e>>
      BY <1>4, <1>7 DEF GetTaskFromPool, shared
    <2>2. hand = <<>> /\ UNCHANGED <<queue, dispatch>>
      BY <1>7 DEF GetTaskFromPool, IInv, HandShape, shared
    <2>3. \A p \in Pids : CountOf(hand', p) = One(e, p) /\ CountOf(hand, p) = 0
      BY <2>1, <2>2, CountSingle, CountEmpty
    <2>4. \A p \in Pids : taskPool'[p] = taskPool[p] - One(e, p)
      <3>1. \A p \in Pids : taskPool[p] \in Nat
        BY <1>1 DEF Types
      <3>2. \A p \in Pids : taskPool'[p] = IF e = p THEN taskPool[p] - 1 ELSE taskPool[p]
        BY <1>1, <2>1 DEF Types
      <3>3. QED
        BY <3>1, <3>2 DEF One
    <2>5. \A p \in Pids : Held'[p] = Held[p]
      BY <1>1, <2>2, <2>3, <2>4, HeldNext, OneType
    <2>6. QED
      BY <1>2, <2>5, HeldSame DEF relayVars
  <1>8. CASE DrainQueuedTask \/ BlockTilReadyForDequeue
    <2>1. /\ queue # <<>> /\ hand' = <<Head(queue)>> /\ queue' = Tail(queue)
          /\ UNCHANGED <<taskPool, dispatch>>
      BY <1>4, <1>8 DEF DrainQueuedTask, BlockTilReadyForDequeue
    <2>2. hand = <<>>
      BY <1>8 DEF DrainQueuedTask, BlockTilReadyForDequeue, IInv, HandShape
    <2>3. QED
      BY <1>2, <1>5, <2>1, <2>2 DEF relayVars
  <1>9. CASE sub_nr_queued \/ sub_nr_queued_store
    <2> DEFINE e == hand[1]
    <2>1. /\ taskPool' = [taskPool EXCEPT ![e] = @ + 1] /\ hand' = <<>>
          /\ pc \in {"sub", "store"} /\ UNCHANGED <<queue, dispatch>>
      BY <1>4, <1>9 DEF sub_nr_queued, sub_nr_queued_store, InsertTaskToPool, shared
    <2>2. e \in Pids /\ \A p \in Pids : CountOf(hand, p) = One(e, p) /\ CountOf(hand', p) = 0
      BY <1>6, <2>1
    <2> HIDE DEF e
    <2>3. \A p \in Pids : taskPool'[p] = taskPool[p] + One(e, p)
      <3>1. \A p \in Pids : taskPool[p] \in Nat
        BY <1>1 DEF Types
      <3>2. \A p \in Pids : taskPool'[p] = IF e = p THEN taskPool[p] + 1 ELSE taskPool[p]
        BY <1>1, <2>1, <2>2 DEF Types
      <3>3. QED
        BY <3>1, <3>2 DEF One
    <2>4. \A p \in Pids : Held'[p] = Held[p]
      <3>1. UNCHANGED <<queue, dispatch>>
        BY <2>1
      <3>2. QED
        BY <1>1, <2>2, <2>3, <3>1, HeldNext, OneType
    <2>5. QED
      BY <1>2, <2>4, HeldSame DEF relayVars
  <1>10. CASE Resend
    <2> DEFINE e == hand[1]
    <2>1. /\ queue' = Append(queue, e) /\ hand' = <<>>
          /\ pc = "resend" /\ UNCHANGED <<taskPool, dispatch>>
      BY <1>10 DEF Resend
    <2>2. e \in Pids /\ \A p \in Pids : CountOf(hand, p) = One(e, p) /\ CountOf(hand', p) = 0
      BY <1>6, <2>1
    <2> HIDE DEF e
    <2>3. \A p \in Pids : CountOf(queue', p) = CountOf(queue, p) + One(e, p)
      BY <1>1, <2>1, <2>2, CountAppend DEF Types
    <2>4. \A p \in Pids : Held'[p] = Held[p]
      <3>1. UNCHANGED <<taskPool, dispatch>>
        BY <2>1
      <3>2. QED
        BY <1>1, <2>2, <2>3, <3>1, HeldNext, OneType
    <2>5. QED
      BY <1>2, <2>4, HeldSame DEF relayVars
  <1>11. CASE SendDispatch
    <2> DEFINE e == hand[1]
    <2>1. /\ dispatch' = Append(dispatch, e) /\ hand' = <<>>
          /\ pc = "send" /\ UNCHANGED <<taskPool, queue>>
      BY <1>11 DEF SendDispatch
    <2>2. e \in Pids /\ \A p \in Pids : CountOf(hand, p) = One(e, p) /\ CountOf(hand', p) = 0
      BY <1>6, <2>1
    <2> HIDE DEF e
    <2>3. \A p \in Pids : CountOf(dispatch', p) = CountOf(dispatch, p) + One(e, p)
      BY <1>1, <2>1, <2>2, CountAppend DEF Types
    <2>4. \A p \in Pids : Held'[p] = Held[p]
      <3>1. UNCHANGED <<taskPool, queue>>
        BY <2>1
      <3>2. QED
        BY <1>1, <2>2, <2>3, <3>1, HeldNext, OneType
    <2>5. QED
      BY <1>2, <2>4, HeldSame DEF relayVars
  <1>12. CASE DispatchTask
    <2> DEFINE e == hand[1]
    <2>1. /\ urb_failed /\ hand' = <<>> /\ pc = "dispatch"
          /\ UNCHANGED <<taskPool, queue, dispatch>>
      BY <1>4, <1>12 DEF DispatchTask, shared
    <2>2. e \in Pids /\ \A p \in Pids : CountOf(hand, p) = One(e, p) /\ CountOf(hand', p) = 0
      BY <1>6, <2>1
    <2> HIDE DEF e
    <2>3. \A p \in Pids : Held[p] = Held'[p] + One(e, p)
      BY <1>1, <2>1, <2>2, HeldNext DEF One
    <2>4. Held[e] > 0 /\ Held' = [Held EXCEPT ![e] = @ - 1]
      BY <1>1, <2>2, <2>3, HeldMinus
    <2>5. Relay!Drop(e)
      BY <1>2, <2>1, <2>4 DEF Relay!Drop
    <2>6. QED
      BY <2>2, <2>5 DEF Relay!RelayNext
  <1>13. CASE Fill \/ NotifyComplete \/ sub_nr_queued_reload
    BY <1>4, <1>13 DEF Fill, NotifyComplete, sub_nr_queued_reload, shared
  <1>14. QED
    BY <1>7, <1>8, <1>9, <1>10, <1>11, <1>12, <1>13 DEF Go

\* Every record that user space takes from @queued comes back in @dispatched
\* exactly once, whatever the goroutine does with it between the two channels and
\* the pool, and is dropped only after a write to the ring failed: main.go
\* and goland_core implement the relay that the BPF half relies on.
THEOREM RelayRefinement == Spec => IsUserRelay
  <1>1. Init => Relay!RelayInit
    <2> SUFFICES ASSUME Init PROVE Relay!RelayInit
      OBVIOUS
    <2>1. \A p \in Pids : CountOf(<<>>, p) = 0
      BY CountEmpty
    <2>2. Held = [p \in Pids |-> 0]
      BY <2>1 DEF Init, Held
    <2>3. QED
      BY <2>2 DEF Init, Relay!RelayInit
  <1>2. IInv /\ IInv' /\ [Next]_vars => [Relay!RelayNext]_relayVars
    <2> SUFFICES ASSUME IInv, IInv', [Next]_vars PROVE [Relay!RelayNext]_relayVars
      OBVIOUS
    <2>1. CASE UNCHANGED vars
      BY <2>1 DEF vars, relayVars, Held
    <2>2. CASE Next
      BY <2>2, EnvironmentRelays, GoRelays DEF Next
    <2>3. QED
      BY <2>1, <2>2
  <1>3. QED
    BY <1>1, <1>2, Invariance, PTL DEF Spec, IsUserRelay, Relay!RelaySpec, relayVars
================================================================================
