---------------------------- MODULE TaskPoolProofs ----------------------------
(***************************************************************************)
(* TLAPS proofs about TaskPool, for every size of the ring: the tests of   *)
(* the code agree and the ring is a sorted pool.                           *)
(***************************************************************************)
EXTENDS TaskPool, FunctionTheorems, FiniteSetTheorems, WellFoundedInduction, TLAPS

----------------------------------------------------------------------------
(***************************************************************************)
(* Arithmetic of the ring.                                                 *)
(***************************************************************************)
N == taskPoolSize

LEMMA ModCases ==
    ASSUME NEW n \in Nat \ {0}, NEW a \in (-n) .. 2 * n - 1
    PROVE  a % n = IF a < 0 THEN a + n ELSE IF a < n THEN a ELSE a - n
  <1>1. CASE a < 0
    BY <1>1
  <1>2. CASE 0 <= a /\ a < n
    BY <1>2
  <1>3. CASE n <= a
    BY <1>3
  <1>4. QED
    BY <1>1, <1>2, <1>3

\* The i-th slot after h.
At(h, i) == (h + i) % N

LEMMA AtIs ==
    ASSUME NEW h \in Slots, NEW i \in 0 .. N
    PROVE  At(h, i) = (IF h + i < N THEN h + i ELSE h + i - N) /\ At(h, i) \in Slots
  <1>1. N \in Nat \ {0, 1}
    BY PoolAssumption DEF N
  <1> DEFINE a == h + i
  <1>2. a \in 0 .. 2 * N - 1 /\ At(h, i) = a % N
    BY <1>1 DEF Slots, At, N
  <1> HIDE DEF a
  <1>3. a \in (-N) .. 2 * N - 1 /\ ~(a < 0)
    BY <1>1, <1>2
  <1>4. a % N = IF a < N THEN a ELSE a - N
    BY <1>1, <1>3, ModCases
  <1>5. At(h, i) \in 0 .. N - 1 /\ At(h, i) = IF a < N THEN a ELSE a - N
    BY <1>1, <1>2, <1>4
  <1>6. a = h + i /\ h \in Int /\ i \in Int
    BY <1>1 DEF Slots, N, a
  <1>7. QED
    BY <1>1, <1>5, <1>6 DEF Slots, N

\* From slot j to slot i, going round the end of the array.
LEMMA Distance ==
    ASSUME NEW h \in Slots, NEW i \in 0 .. N - 1, NEW j \in 0 .. N - 1
    PROVE  /\ (At(h, i) - At(h, j)) % N = IF i >= j THEN i - j ELSE i - j + N
           /\ At(h, i) = At(h, j) => i = j
  <1>1. N \in Nat \ {0, 1} /\ h \in 0 .. N - 1
    BY PoolAssumption DEF N, Slots
  <1> DEFINE a == At(h, i)
             b == At(h, j)
  <1>2. /\ a = IF h + i < N THEN h + i ELSE h + i - N
        /\ b = IF h + j < N THEN h + j ELSE h + j - N
    BY <1>1, AtIs
  <1> HIDE DEF a, b
  <1> DEFINE d == a - b
  <1>3. d \in (-N) .. 2 * N - 1 /\ d < N
    BY <1>1, <1>2
  <1>4. (a = b => i = j) /\ (IF d < 0 THEN d + N ELSE d) = IF i >= j THEN i - j ELSE i - j + N
    BY <1>1, <1>2
  <1> HIDE DEF d
  <1>5. d % N = IF d < 0 THEN d + N ELSE d
    BY <1>1, <1>3, ModCases
  <1>6. QED
    BY <1>4, <1>5 DEF a, b, d

LEMMA Predecessor ==
    ASSUME NEW h \in Slots, NEW i \in 1 .. N - 1
    PROVE  (At(h, i) - 1 + N) % N = At(h, i - 1)
  <1>1. N \in Nat \ {0, 1} /\ h \in 0 .. N - 1
    BY PoolAssumption DEF N, Slots
  <1> DEFINE a == At(h, i)
             b == At(h, i - 1)
  <1>2. i \in 0 .. N /\ i - 1 \in 0 .. N
    BY <1>1
  <1>3. /\ a = IF h + i < N THEN h + i ELSE h + i - N
        /\ b = IF h + (i - 1) < N THEN h + (i - 1) ELSE h + (i - 1) - N
    BY <1>2, AtIs
  <1> HIDE DEF a, b
  <1> DEFINE d == a - 1 + N
  <1>4. d \in (-N) .. 2 * N - 1 /\ ~(d < 0) /\ b = IF d < N THEN d ELSE d - N
    BY <1>1, <1>3
  <1> HIDE DEF d
  <1>5. d % N = IF d < N THEN d ELSE d - N
    BY <1>1, <1>4, ModCases
  <1>6. QED
    BY <1>4, <1>5 DEF a, b, d

LEMMA Successor ==
    ASSUME NEW h \in Slots, NEW i \in 0 .. N - 1
    PROVE  /\ At(At(h, 1), i) = At(h, i + 1)
           /\ At(At(h, i), 1) = At(h, i + 1)
  <1>1. N \in Nat \ {0, 1} /\ h \in 0 .. N - 1
    BY PoolAssumption DEF N, Slots
  <1>2. 1 \in 0 .. N /\ i \in 0 .. N /\ i + 1 \in 0 .. N
    BY <1>1
  <1> DEFINE a == At(h, 1)
             b == At(h, i)
  <1>3. /\ a = IF h + 1 < N THEN h + 1 ELSE h + 1 - N
        /\ b = IF h + i < N THEN h + i ELSE h + i - N
        /\ a \in Slots /\ b \in Slots
    BY <1>2, AtIs
  <1>4. At(h, i + 1) = IF h + (i + 1) < N THEN h + (i + 1) ELSE h + (i + 1) - N
    BY <1>2, AtIs
  <1> HIDE DEF a, b
  <1>5. /\ At(a, i) = IF a + i < N THEN a + i ELSE a + i - N
        /\ At(b, 1) = IF b + 1 < N THEN b + 1 ELSE b + 1 - N
    BY <1>2, <1>3, AtIs
  <1>6. At(a, i) = At(h, i + 1) /\ At(b, 1) = At(h, i + 1)
    BY <1>1, <1>3, <1>4, <1>5
  <1>7. QED
    BY <1>6 DEF a, b

----------------------------------------------------------------------------
(***************************************************************************)
(* Inserting a task into a row of tasks, and counting.                     *)
(***************************************************************************)
One(e, u) == IF e = u THEN 1 ELSE 0
Num(r, n, u) == Cardinality({i \in 0 .. n - 1 : r[i] = u})

\* q is r (of length n) with t put in at place k.
Inserted(q, r, n, k, t) ==
    \A i \in 0 .. n : q[i] = IF i < k THEN r[i] ELSE IF i = k THEN t ELSE r[i - 1]

LEMMA NumType ==
    ASSUME NEW r, NEW n \in Nat, NEW u
    PROVE  IsFiniteSet({i \in 0 .. n - 1 : r[i] = u}) /\ Num(r, n, u) \in Nat
  <1>1. IsFiniteSet(0 .. n - 1)
    BY FS_Interval
  <1>2. IsFiniteSet({i \in 0 .. n - 1 : r[i] = u})
    BY <1>1, FS_Subset
  <1>3. QED
    BY <1>2, FS_CardinalityType DEF Num

LEMMA NumInserted ==
    ASSUME NEW q, NEW r, NEW n \in Nat, NEW k \in 0 .. n, NEW t, Inserted(q, r, n, k, t), NEW u
    PROVE  Num(q, n + 1, u) = Num(r, n, u) + One(t, u)
  <1> DEFINE A == {i \in 0 .. n - 1 : r[i] = u}
             B == {i \in 0 .. n : q[i] = u}
             f == [i \in A |-> IF i < k THEN i ELSE i + 1]
  <1>1. \A i \in 0 .. n : q[i] = IF i < k THEN r[i] ELSE IF i = k THEN t ELSE r[i - 1]
    BY DEF Inserted
  <1>2. Num(r, n, u) = Cardinality(A) /\ Num(q, n + 1, u) = Cardinality(B)
    <2>1. n + 1 - 1 = n
      OBVIOUS
    <2>2. QED
      BY <2>1 DEF Num
  <1>3. IsFiniteSet(A) /\ IsFiniteSet(B)
    <2>1. IsFiniteSet(0 .. n) /\ IsFiniteSet(0 .. n - 1)
      BY FS_Interval
    <2>2. A \subseteq 0 .. n - 1 /\ B \subseteq 0 .. n
      OBVIOUS
    <2> HIDE DEF A, B
    <2>3. QED
      BY <2>1, <2>2, FS_Subset
  <1>4. f \in Bijection(A, B \ {k})
    <2>1. f \in [A -> B \ {k}]
      <3> SUFFICES ASSUME NEW i \in A PROVE f[i] \in B \ {k}
        OBVIOUS
      <3>1. CASE i < k
        BY <1>1, <3>1
      <3>2. CASE i >= k
        <4>1. i + 1 \in 0 .. n /\ (i + 1) - 1 = i /\ ~(i + 1 < k) /\ i + 1 # k
          BY <3>2
        <4>2. q[i + 1] = r[i]
          BY <1>1, <4>1
        <4>3. QED
          BY <3>2, <4>1, <4>2
      <3>3. QED
        BY <3>1, <3>2
    <2>2. \A i, j \in A : f[i] = f[j] => i = j
      OBVIOUS
    <2>3. \A j \in B \ {k} : \E i \in A : f[i] = j
      <3> SUFFICES ASSUME NEW j \in B \ {k} PROVE \E i \in A : f[i] = j
        OBVIOUS
      <3>1. CASE j < k
        <4>1. j \in A
          BY <1>1, <3>1
        <4>2. QED
          BY <3>1, <4>1
      <3>2. CASE j > k
        <4>1. j - 1 \in A
          BY <1>1, <3>2
        <4>2. f[j - 1] = j
          BY <3>2, <4>1
        <4>3. QED
          BY <4>1, <4>2
      <3>3. QED
        BY <3>1, <3>2
    <2> HIDE DEF A, B, f
    <2>4. QED
      BY <2>1, <2>2, <2>3, Fun_IsBij
  <1>5. Cardinality(B \ {k}) = Cardinality(A)
    BY <1>3, <1>4, FS_Bijection DEF ExistsBijection
  <1>6. Cardinality(B \ {k}) = IF k \in B THEN Cardinality(B) - 1 ELSE Cardinality(B)
    BY <1>3, FS_RemoveElement
  <1>7. k \in B <=> t = u
    BY <1>1
  <1>8. Cardinality(A) \in Nat /\ Cardinality(B) \in Nat
    BY <1>3, FS_CardinalityType
  <1> HIDE DEF A, B
  <1>9. QED
    BY <1>2, <1>5, <1>6, <1>7, <1>8 DEF One

LEMMA MinNat ==
    ASSUME NEW T \in SUBSET Nat, T # {}
    PROVE  \E x \in T : \A y \in T : x <= y
  <1>1. \E x \in T : \A y \in T : ~(<<y, x>> \in OpToRel(<, Nat))
    BY NatLessThanWellFounded, WFMin
  <1>2. \A x, y \in Nat : <<y, x>> \in OpToRel(<, Nat) <=> y < x
    BY DEF OpToRel
  <1>3. \E x \in T : \A y \in T : ~(y < x)
    <2>1. T \subseteq Nat
      OBVIOUS
    <2>2. QED
      BY <1>1, <1>2, <2>1, Zenon
  <1>4. QED
    BY <1>3

----------------------------------------------------------------------------
(***************************************************************************)
(* The inductive invariant.                                                *)
(***************************************************************************)
\* The tail is where the count says.
Ring == taskPoolTail = Slot(taskPoolCount)

\* The slots between head and tail hold tasks.
LiveTasks == \A i \in 0 .. taskPoolCount - 1 : Live[i] \in Tasks

\* No live task precedes one in front of it.
Sorted ==
    \A i, j \in 0 .. taskPoolCount - 1 : i < j => ~LessQueuedTask(Live[j], Live[i])

IInv == TypeOK /\ Ring /\ LiveTasks /\ Sorted

\* LessQueuedTask is a strict order under which tasks with equal keys tie.
LEMMA Ordered ==
    ASSUME NEW a \in Tasks, NEW b \in Tasks, NEW t \in Tasks
    PROVE  /\ ~LessQueuedTask(a, a)
           /\ LessQueuedTask(t, a) /\ ~LessQueuedTask(b, a) => ~LessQueuedTask(b, t)
  <1>1. ASSUME NEW x \in Tasks PROVE Deadline(x) \in Nat /\ x.Pid \in Nat
    <2>1. x.Pid \in Pids /\ x.Vtime \in Vtimes /\ x.SumExecRuntime \in Runtimes
      BY DEF Tasks
    <2>2. x.Pid \in Nat /\ x.Vtime \in Nat /\ x.SumExecRuntime \in Nat /\ RuntimeCap \in Nat
      BY <2>1, PoolAssumption
    <2>3. QED
      BY <2>2 DEF Deadline
  <1>2. QED
    BY <1>1 DEF LessQueuedTask

LEMMA SlotIsAt ==
    ASSUME NEW i
    PROVE  Slot(i) = At(taskPoolHead, i)
  BY DEF Slot, At, N

\* The place where the search of InsertTaskToPool stops.
LEMMA InsertIdxIs ==
    ASSUME IInv, NEW t \in Tasks
    PROVE  \E k \in 0 .. taskPoolCount :
              /\ InsertIdx(t) = Slot(k)
              /\ \A i \in 0 .. k - 1 : ~LessQueuedTask(t, Live[i])
              /\ k < taskPoolCount => LessQueuedTask(t, Live[k])
  <1> DEFINE G == {i \in 0 .. taskPoolCount - 1 : LessQueuedTask(t, taskPool[Slot(i)])}
             m == CHOOSE i \in G : \A j \in G : i <= j
  <1>1. taskPoolCount \in Nat
    BY PoolAssumption DEF IInv, TypeOK, Slots
  <1>2. \A i \in 0 .. taskPoolCount - 1 : Live[i] = taskPool[Slot(i)]
    BY DEF Live
  <1>3. CASE G = {}
    <2>1. InsertIdx(t) = Slot(taskPoolCount)
      BY <1>3 DEF InsertIdx, IInv, Ring
    <2>2. \A i \in 0 .. taskPoolCount - 1 : ~LessQueuedTask(t, Live[i])
      BY <1>2, <1>3
    <2> HIDE DEF G, m
    <2>3. QED
      BY <1>1, <2>1, <2>2
  <1>4. CASE G # {}
    <2>1. InsertIdx(t) = Slot(m)
      BY <1>4 DEF InsertIdx
    <2>2. G \in SUBSET Nat
      BY <1>1
    <2> HIDE DEF G
    <2>3. \E x \in G : \A y \in G : x <= y
      BY <1>4, <2>2, MinNat
    <2>4. m \in G /\ \A j \in G : m <= j
      BY <2>3
    <2> HIDE DEF m
    <2>5. m \in 0 .. taskPoolCount - 1 /\ LessQueuedTask(t, Live[m])
      BY <1>2, <2>4 DEF G
    <2>6. ASSUME NEW i \in 0 .. m - 1 PROVE ~LessQueuedTask(t, Live[i])
      <3>1. i \in 0 .. taskPoolCount - 1 /\ i \notin G
        BY <1>1, <2>2, <2>4, <2>5
      <3>2. QED
        BY <1>2, <3>1 DEF G
    <2>7. m \in 0 .. taskPoolCount
      BY <1>1, <2>5
    <2>8. QED
      BY <2>1, <2>5, <2>6, <2>7
  <1>5. QED
    BY <1>3, <1>4

\* The shift opens the place k and keeps the other live tasks in their order.
LEMMA ShiftedIs ==
    ASSUME IInv, taskPoolCount < taskPoolSize - 1, NEW k \in 0 .. taskPoolCount, NEW t,
           NEW i \in 0 .. taskPoolCount
    PROVE  Shifted(t, Slot(k))[Slot(i)]
             = IF i < k THEN taskPool[Slot(i)] ELSE IF i = k THEN t ELSE taskPool[Slot(i - 1)]
  <1> DEFINE h == taskPoolHead
             c == taskPoolCount
  <1>1. /\ N \in Nat \ {0, 1} /\ h \in Slots /\ c \in Nat /\ c < N - 1
        /\ i \in 0 .. N - 1 /\ k \in 0 .. N - 1 /\ c \in 0 .. N - 1 /\ N = taskPoolSize
    BY PoolAssumption DEF N, IInv, TypeOK, Slots
  <1>2. Slot(i) = At(h, i) /\ Slot(k) = At(h, k) /\ taskPoolTail = At(h, c)
    BY SlotIsAt DEF IInv, Ring
  <1>3. At(h, i) \in Slots
    <2>1. i \in 0 .. N
      BY <1>1
    <2>2. QED
      BY <1>1, <2>1, AtIs
  <1>4. /\ (At(h, i) - At(h, k)) % N = IF i >= k THEN i - k ELSE i - k + N
        /\ At(h, i) = At(h, k) => i = k
        /\ (At(h, c) - At(h, k)) % N = IF c >= k THEN c - k ELSE c - k + N
    BY <1>1, Distance
  <1>5. Shifted(t, Slot(k))[Slot(i)] =
          IF At(h, i) = At(h, k) THEN t
          ELSE IF (At(h, i) - At(h, k)) % N <= (At(h, c) - At(h, k)) % N
               THEN taskPool[(At(h, i) - 1 + N) % N]
          ELSE taskPool[At(h, i)]
    BY <1>1, <1>2, <1>3, Zenon DEF Shifted
  <1>6. CASE i < k
    <2>1. ~((At(h, i) - At(h, k)) % N <= (At(h, c) - At(h, k)) % N) /\ At(h, i) # At(h, k)
      BY <1>1, <1>4, <1>6
    <2>2. QED
      BY <1>2, <1>5, <1>6, <2>1
  <1>7. CASE i = k
    BY <1>5, <1>7
  <1>8. CASE i > k
    <2>1. (At(h, i) - At(h, k)) % N <= (At(h, c) - At(h, k)) % N /\ At(h, i) # At(h, k)
      BY <1>1, <1>4, <1>8
    <2>2. (At(h, i) - 1 + N) % N = At(h, i - 1)
      <3>1. i \in 1 .. N - 1
        BY <1>1, <1>8
      <3>2. QED
        BY <1>1, <3>1, Predecessor
    <2>3. Slot(i - 1) = At(h, i - 1)
      BY SlotIsAt
    <2>4. ~(i < k) /\ i # k
      BY <1>8
    <2>5. QED
      BY <1>5, <2>1, <2>2, <2>3, <2>4
  <1>9. QED
    BY <1>1, <1>6, <1>7, <1>8

----------------------------------------------------------------------------
(***************************************************************************)
(* Every step keeps the invariant.                                         *)
(***************************************************************************)
LEMMA Bounds ==
    ASSUME TypeOK
    PROVE  /\ N \in Nat \ {0, 1} /\ N = taskPoolSize
           /\ taskPoolHead \in Slots /\ taskPoolCount \in 0 .. N - 1
  BY PoolAssumption DEF TypeOK, N, Slots

\* What the tests of the code see, from where the tail is.
LEMMA TestsFromRing ==
    ASSUME TypeOK, Ring
    PROVE  /\ taskPoolHead = taskPoolTail <=> taskPoolCount = 0
           /\ DrainStops <=> taskPoolCount = taskPoolSize - 1
  <1> DEFINE h == taskPoolHead
             c == taskPoolCount
  <1>1. /\ N \in Nat \ {0, 1} /\ N = taskPoolSize /\ h \in 0 .. N - 1 /\ h \in Slots
        /\ c \in 0 .. N - 1
    BY Bounds DEF Slots, N
  <1>2. taskPoolTail = At(h, c) /\ (taskPoolTail + 1) % N = At(At(h, c), 1)
    BY SlotIsAt DEF Ring, At
  <1>3. At(At(h, c), 1) = At(h, c + 1)
    BY <1>1, Successor
  <1>4. c \in 0 .. N /\ c + 1 \in 0 .. N
    BY <1>1
  <1>5. /\ At(h, c) = IF h + c < N THEN h + c ELSE h + c - N
        /\ At(h, c + 1) = IF h + (c + 1) < N THEN h + (c + 1) ELSE h + (c + 1) - N
    BY <1>1, <1>4, AtIs
  <1>6. h = At(h, c) <=> c = 0
    BY <1>1, <1>5
  <1>7. At(h, c + 1) = h <=> c = N - 1
    BY <1>1, <1>5
  <1>8. DrainStops <=> (taskPoolTail + 1) % N = h
    BY DEF DrainStops, N
  <1>9. QED
    BY <1>1, <1>2, <1>3, <1>6, <1>7, <1>8

LEMMA InitIInv == Init => IInv
  <1> SUFFICES ASSUME Init PROVE IInv
    OBVIOUS
  <1>1. N \in Nat \ {0, 1} /\ N = taskPoolSize /\ 0 \in Slots
    BY PoolAssumption DEF N, Slots
  <1>2. TypeOK
    <2>1. taskPool \in [Slots -> Tasks \cup {NoTask}] /\ out \in Tasks \cup {NoTask}
      BY DEF Init
    <2>2. ok \in BOOLEAN
      BY Zenon DEF Init
    <2>3. taskPoolHead \in Slots /\ taskPoolTail \in Slots /\ taskPoolCount \in Slots
      BY <1>1 DEF Init
    <2>4. QED
      BY <2>1, <2>2, <2>3, Zenon DEF TypeOK
  <1>3. Ring
    <2>1. Slot(0) = At(0, 0)
      BY SlotIsAt DEF Init
    <2>2. At(0, 0) = 0
      BY <1>1, AtIs
    <2>3. QED
      BY <2>1, <2>2 DEF Init, Ring
  <1>4. LiveTasks /\ Sorted
    BY DEF Init, LiveTasks, Sorted
  <1>5. QED
    BY <1>2, <1>3, <1>4 DEF IInv

\* An accepted task is put into its place among the live ones.
LEMMA PutStep ==
    ASSUME IInv, NEW t \in Tasks, InsertTaskToPool(t), taskPoolCount < taskPoolSize - 1
    PROVE  /\ IInv'
           /\ \E k \in 0 .. taskPoolCount : Inserted(Live', Live, taskPoolCount, k, t)
  <1> DEFINE c == taskPoolCount
  <1>1. /\ N \in Nat \ {0, 1} /\ N = taskPoolSize /\ taskPoolHead \in Slots
        /\ c \in 0 .. N - 1 /\ c < N - 1
    BY Bounds DEF IInv
  <1>2. /\ taskPool' = Shifted(t, InsertIdx(t))
        /\ taskPoolTail' = (taskPoolTail + 1) % taskPoolSize
        /\ taskPoolCount' = c + 1 /\ ok' = TRUE
        /\ taskPoolHead' = taskPoolHead /\ out' = out
    BY <1>1 DEF InsertTaskToPool
  <1>3. PICK k \in 0 .. c :
           /\ InsertIdx(t) = Slot(k)
           /\ \A i \in 0 .. k - 1 : ~LessQueuedTask(t, Live[i])
           /\ k < c => LessQueuedTask(t, Live[k])
    BY InsertIdxIs
  <1>4. \A i : Slot(i)' = Slot(i)
    BY <1>2 DEF Slot
  <1>5. \A i \in 0 .. c : Live'[i] = taskPool'[Slot(i)]
    BY <1>1, <1>2, <1>4 DEF Live
  <1>6. ASSUME NEW i \in 0 .. c
        PROVE  Live'[i] = IF i < k THEN Live[i] ELSE IF i = k THEN t ELSE Live[i - 1]
    <2>1. Live'[i]
            = IF i < k THEN taskPool[Slot(i)] ELSE IF i = k THEN t ELSE taskPool[Slot(i - 1)]
      BY <1>2, <1>3, <1>5, ShiftedIs
    <2>2. \A j \in 0 .. c - 1 : Live[j] = taskPool[Slot(j)]
      BY DEF Live
    <2>3. (i < k => i \in 0 .. c - 1) /\ (~(i < k) /\ i # k => i - 1 \in 0 .. c - 1)
      BY <1>1
    <2>4. QED
      BY <2>1, <2>2, <2>3
  <1>7. Inserted(Live', Live, c, k, t)
    BY <1>6 DEF Inserted
  <1>8. LiveTasks'
    <2>1. ASSUME NEW i \in 0 .. c PROVE Live'[i] \in Tasks
      <3>1. (i < k => i \in 0 .. c - 1) /\ (~(i < k) /\ i # k => i - 1 \in 0 .. c - 1)
        BY <1>1
      <3>2. QED
        BY <1>6, <3>1 DEF IInv, LiveTasks
    <2>2. (taskPoolCount - 1)' = c
      BY <1>1, <1>2
    <2>3. QED
      BY <2>1, <2>2 DEF LiveTasks
  <1>9. Sorted'
    <2>1. ASSUME NEW i \in 0 .. c, NEW j \in 0 .. c, i < j
          PROVE  ~LessQueuedTask(Live'[j], Live'[i])
      <3>1. \A x \in 0 .. c - 1 : Live[x] \in Tasks
        BY DEF IInv, LiveTasks
      <3>2. \A x, y \in 0 .. c - 1 : x < y => ~LessQueuedTask(Live[y], Live[x])
        BY DEF IInv, Sorted
      <3>3. CASE j < k
        <4>1. i \in 0 .. c - 1 /\ j \in 0 .. c - 1 /\ i < k
          BY <1>1, <2>1, <3>3
        <4>2. QED
          BY <1>6, <2>1, <3>2, <3>3, <4>1
      <3>4. CASE j = k
        <4>1. i \in 0 .. k - 1 /\ i < k
          BY <1>1, <2>1, <3>4
        <4>2. QED
          BY <1>3, <1>6, <3>4, <4>1
      <3>5. CASE j > k /\ i < k
        <4>1. i \in 0 .. c - 1 /\ j - 1 \in 0 .. c - 1 /\ i < j - 1 /\ ~(j < k) /\ j # k
          BY <1>1, <3>5
        <4>2. QED
          BY <1>6, <3>2, <3>5, <4>1
      <3>6. CASE j > k /\ i = k
        <4>1. /\ k \in 0 .. c - 1 /\ j - 1 \in 0 .. c - 1 /\ ~(j < k) /\ j # k /\ k < c
              /\ k < j - 1 \/ k = j - 1
          BY <1>1, <3>6
        <4>2. ~LessQueuedTask(Live[j - 1], Live[k])
          BY <3>1, <3>2, <4>1, Ordered
        <4>3. ~LessQueuedTask(Live[j - 1], t)
          BY <1>3, <3>1, <4>1, <4>2, Ordered
        <4>4. QED
          BY <1>6, <3>6, <4>1, <4>3
      <3>7. CASE j > k /\ i > k
        <4>1. /\ i - 1 \in 0 .. c - 1 /\ j - 1 \in 0 .. c - 1 /\ i - 1 < j - 1
              /\ ~(i < k) /\ i # k /\ ~(j < k) /\ j # k
          BY <1>1, <2>1, <3>7
        <4>2. Live'[i] = Live[i - 1] /\ Live'[j] = Live[j - 1]
          BY <1>6, <4>1
        <4>3. QED
          BY <3>2, <4>1, <4>2
      <3>8. QED
        BY <1>1, <3>3, <3>4, <3>5, <3>6, <3>7
    <2>2. (taskPoolCount - 1)' = c
      BY <1>1, <1>2
    <2>3. QED
      BY <2>1, <2>2 DEF Sorted
  <1>10. Ring' /\ taskPoolTail' \in Slots
    <2>1. taskPoolTail' = At(At(taskPoolHead, c), 1)
      BY <1>2, SlotIsAt DEF IInv, Ring, At, N
    <2>2. taskPoolTail' = At(taskPoolHead, c + 1)
      BY <1>1, <2>1, Successor
    <2>3. c + 1 \in 0 .. N
      BY <1>1
    <2>4. At(taskPoolHead, c + 1) \in Slots
      BY <1>1, <2>3, AtIs
    <2>5. Slot(taskPoolCount)' = At(taskPoolHead, c + 1)
      BY <1>2 DEF Slot, At, N
    <2>6. QED
      BY <2>2, <2>4, <2>5 DEF Ring
  <1>11. TypeOK'
    <2>1. ASSUME NEW s \in Slots PROVE (s - 1 + taskPoolSize) % taskPoolSize \in Slots
      <3>1. s - 1 + taskPoolSize \in Int
        BY <1>1 DEF Slots
      <3>2. QED
        BY <1>1, <3>1 DEF Slots
    <2>2. taskPool' \in [Slots -> Tasks \cup {NoTask}]
      BY <1>2, <2>1 DEF Shifted, IInv, TypeOK
    <2>3. taskPoolCount' \in Slots
      BY <1>1, <1>2 DEF Slots
    <2>4. ok' \in BOOLEAN
      BY <1>2, Zenon
    <2>5. taskPoolHead' \in Slots /\ out' \in Tasks \cup {NoTask}
      BY <1>2, Zenon DEF IInv, TypeOK
    <2>6. QED
      BY <1>10, <2>2, <2>3, <2>4, <2>5, Zenon DEF TypeOK
  <1>12. QED
    BY <1>7, <1>8, <1>9, <1>10, <1>11 DEF IInv

\* Taking the head moves every other live task one place forward.
LEMMA TakeStep ==
    ASSUME IInv, GetTaskFromPool, taskPoolHead # taskPoolTail
    PROVE  /\ IInv' /\ taskPoolCount > 0 /\ out' = Live[0] /\ taskPoolCount' = taskPoolCount - 1
           /\ Inserted(Live, Live', taskPoolCount - 1, 0, Live[0])
  <1> DEFINE c == taskPoolCount
  <1>1. /\ N \in Nat \ {0, 1} /\ N = taskPoolSize /\ taskPoolHead \in Slots
        /\ c \in 0 .. N - 1 /\ c > 0
    <2>1. taskPoolCount # 0
      BY TestsFromRing DEF IInv
    <2>2. QED
      BY <2>1, Bounds DEF IInv
  <1>2. /\ out' = taskPool[taskPoolHead]
        /\ taskPoolHead' = (taskPoolHead + 1) % taskPoolSize
        /\ taskPoolCount' = c - 1
        /\ UNCHANGED <<taskPool, taskPoolTail, ok>>
    BY DEF GetTaskFromPool
  <1>3. taskPoolHead' = At(taskPoolHead, 1) /\ taskPoolHead' \in Slots
    <2>1. taskPoolHead' = At(taskPoolHead, 1)
      BY <1>2 DEF At, N
    <2>2. 1 \in 0 .. N
      BY <1>1
    <2>3. QED
      BY <1>1, <2>1, <2>2, AtIs
  <1>4. ASSUME NEW i \in 0 .. N - 1 PROVE Slot(i)' = Slot(i + 1)
    <2>1. Slot(i)' = At(taskPoolHead', i)
      BY DEF Slot, At, N
    <2>2. Slot(i + 1) = At(taskPoolHead, i + 1)
      BY SlotIsAt
    <2>3. QED
      BY <1>1, <1>3, <2>1, <2>2, Successor
  <1>5. ASSUME NEW i \in 0 .. c - 2 PROVE Live'[i] = Live[i + 1]
    <2>1. i \in 0 .. N - 1 /\ i + 1 \in 0 .. c - 1 /\ c - 2 = (c - 1) - 1
      BY <1>1
    <2>2. Slot(i)' = Slot(i + 1)
      BY <1>4, <2>1
    <2>3. Live'[i] = taskPool'[Slot(i)']
      BY <1>2, <2>1 DEF Live
    <2>4. Live[i + 1] = taskPool[Slot(i + 1)]
      BY <2>1 DEF Live
    <2>5. QED
      BY <1>2, <2>2, <2>3, <2>4
  <1>6. Live[0] = taskPool[taskPoolHead]
    <2>1. Slot(0) = taskPoolHead
      <3>1. taskPoolHead \in 0 .. N - 1 /\ 0 \in 0 .. N
        BY <1>1 DEF Slots, N
      <3>2. At(taskPoolHead, 0) = taskPoolHead
        BY <1>1, <3>1, AtIs
      <3>3. QED
        BY <3>2, SlotIsAt
    <2>2. 0 \in 0 .. c - 1
      BY <1>1
    <2>3. QED
      BY <2>1, <2>2 DEF Live
  <1>7. Inserted(Live, Live', c - 1, 0, Live[0])
    <2>1. ASSUME NEW i \in 0 .. c - 1
          PROVE  Live[i] = IF i < 0 THEN Live'[i] ELSE IF i = 0 THEN Live[0] ELSE Live'[i - 1]
      <3>1. CASE i = 0
        BY <3>1
      <3>2. CASE i # 0
        <4>1. i - 1 \in 0 .. c - 2 /\ (i - 1) + 1 = i /\ ~(i < 0)
          BY <1>1, <3>2
        <4>2. Live'[i - 1] = Live[i]
          BY <1>5, <4>1
        <4>3. QED
          BY <3>2, <4>1, <4>2
      <3>3. QED
        BY <3>1, <3>2
    <2>2. QED
      BY <2>1 DEF Inserted
  <1>8. (taskPoolCount - 1)' = c - 2
    BY <1>1, <1>2
  <1>9. LiveTasks'
    <2>1. ASSUME NEW i \in 0 .. c - 2 PROVE Live'[i] \in Tasks
      <3>1. i + 1 \in 0 .. c - 1
        BY <1>1
      <3>2. QED
        BY <1>5, <3>1 DEF IInv, LiveTasks
    <2>2. QED
      BY <1>8, <2>1 DEF LiveTasks
  <1>10. Sorted'
    <2>1. ASSUME NEW i \in 0 .. c - 2, NEW j \in 0 .. c - 2, i < j
          PROVE  ~LessQueuedTask(Live'[j], Live'[i])
      <3>1. i + 1 \in 0 .. c - 1 /\ j + 1 \in 0 .. c - 1 /\ i + 1 < j + 1
        BY <1>1, <2>1
      <3>2. ~LessQueuedTask(Live[j + 1], Live[i + 1])
        BY <3>1 DEF IInv, Sorted
      <3>3. QED
        BY <1>5, <3>2
    <2>2. QED
      BY <1>8, <2>1 DEF Sorted
  <1>11. Ring'
    <2>1. c - 1 \in 0 .. N - 1 /\ (c - 1) + 1 = c
      BY <1>1
    <2>2. Slot(taskPoolCount)' = At(taskPoolHead', c - 1)
      BY <1>2 DEF Slot, At, N
    <2>3. At(taskPoolHead', c - 1) = At(taskPoolHead, (c - 1) + 1)
      BY <1>1, <1>3, <2>1, Successor
    <2>4. taskPoolTail = At(taskPoolHead, c)
      BY SlotIsAt DEF IInv, Ring
    <2>5. QED
      BY <1>2, <2>1, <2>2, <2>3, <2>4 DEF Ring
  <1>12. TypeOK'
    <2>1. taskPoolCount' \in Slots
      BY <1>1, <1>2 DEF Slots
    <2>2. out' \in Tasks \cup {NoTask}
      BY <1>1, <1>2 DEF IInv, TypeOK
    <2>3. /\ taskPool' \in [Slots -> Tasks \cup {NoTask}] /\ taskPoolTail' \in Slots
          /\ ok' \in BOOLEAN
      BY <1>2, Zenon DEF IInv, TypeOK
    <2>4. QED
      BY <1>3, <2>1, <2>2, <2>3, Zenon DEF TypeOK
  <1>13. QED
    BY <1>1, <1>2, <1>6, <1>7, <1>9, <1>10, <1>11, <1>12 DEF IInv

\* A refused task, an empty pool and a stuttering step leave the ring alone.
LEMMA RingSame ==
    ASSUME UNCHANGED <<taskPool, taskPoolHead, taskPoolTail, taskPoolCount>>
    PROVE  Live' = Live /\ (IInv /\ ok' \in BOOLEAN /\ out' \in Tasks \cup {NoTask} => IInv')
  <1>1. Live' = Live
    BY DEF Live, Slot
  <1>2. ASSUME IInv, ok' \in BOOLEAN, out' \in Tasks \cup {NoTask} PROVE IInv'
    <2>1. TypeOK'
      BY <1>2, Zenon DEF IInv, TypeOK
    <2>2. Ring'
      BY <1>2 DEF IInv, Ring, Slot
    <2>3. LiveTasks' /\ Sorted'
      BY <1>1, <1>2 DEF IInv, LiveTasks, Sorted
    <2>4. QED
      BY <2>1, <2>2, <2>3 DEF IInv
  <1>3. QED
    BY <1>1, <1>2

LEMMA NextIInv ==
    ASSUME IInv, [Next]_vars
    PROVE  IInv'
  <1>1. ASSUME NEW t \in Tasks, InsertTaskToPool(t) PROVE IInv'
    <2>1. CASE taskPoolCount < taskPoolSize - 1
      BY <1>1, <2>1, PutStep
    <2>2. CASE ~(taskPoolCount < taskPoolSize - 1)
      <3>1. /\ ok' = FALSE /\ out' = out
            /\ UNCHANGED <<taskPool, taskPoolHead, taskPoolTail, taskPoolCount>>
        BY <1>1, <2>2 DEF InsertTaskToPool
      <3>2. ok' \in BOOLEAN /\ out' \in Tasks \cup {NoTask}
        BY <3>1, Zenon DEF IInv, TypeOK
      <3>3. QED
        BY <3>1, <3>2, RingSame
    <2>3. QED
      BY <2>1, <2>2
  <1>2. CASE GetTaskFromPool
    <2>1. CASE taskPoolHead # taskPoolTail
      BY <1>2, <2>1, TakeStep
    <2>2. CASE taskPoolHead = taskPoolTail
      <3>1. /\ ok' = ok /\ out' = NoTask
            /\ UNCHANGED <<taskPool, taskPoolHead, taskPoolTail, taskPoolCount>>
        BY <1>2, <2>2 DEF GetTaskFromPool
      <3>2. ok' \in BOOLEAN /\ out' \in Tasks \cup {NoTask}
        BY <3>1, Zenon DEF IInv, TypeOK
      <3>3. QED
        BY <3>1, <3>2, RingSame
    <2>3. QED
      BY <2>1, <2>2
  <1>3. CASE UNCHANGED vars
    <2>1. /\ ok' = ok /\ out' = out
          /\ UNCHANGED <<taskPool, taskPoolHead, taskPoolTail, taskPoolCount>>
      BY <1>3 DEF vars
    <2>2. ok' \in BOOLEAN /\ out' \in Tasks \cup {NoTask}
      BY <2>1, Zenon DEF IInv, TypeOK
    <2>3. QED
      BY <2>1, <2>2, RingSame
  <1>4. QED
    BY <1>1, <1>2, <1>3 DEF Next

----------------------------------------------------------------------------
(***************************************************************************)
(* The theorems.                                                           *)
(***************************************************************************)
\* The invariant holds in every state.
THEOREM Invariance == Spec => []IInv
  <1>1. IInv /\ [Next]_vars => IInv'
    BY NextIInv
  <1>2. QED
    BY <1>1, InitIInv, PTL DEF Spec

\* The indices of the ring stay in the array and its slots hold tasks.
THEOREM TypeCorrect == Spec => []TypeOK
  <1>1. IInv => TypeOK
    BY DEF IInv
  <1>2. QED
    BY <1>1, Invariance, PTL

\* Whatever the size of the ring, DrainQueuedTask stops exactly when
\* InsertTaskToPool would refuse, and GetTaskFromPool returns nil exactly when the
\* count is 0.
THEOREM TestsCorrect == Spec => []TestsAgree
  <1>1. IInv => TestsAgree
    <2> SUFFICES ASSUME IInv PROVE TestsAgree
      OBVIOUS
    <2>1. taskPoolCount >= taskPoolSize - 1 <=> taskPoolCount = taskPoolSize - 1
      BY Bounds DEF IInv
    <2>2. QED
      BY <2>1, TestsFromRing DEF IInv, TestsAgree
  <1>2. QED
    BY <1>1, Invariance, PTL

----------------------------------------------------------------------------
(***************************************************************************)
(* The ring is a sorted pool.                                              *)
(***************************************************************************)
spVars == <<LiveBag, taskPoolCount, out, ok>>

LEMMA BagIs ==
    /\ LiveBag = [t \in Tasks |-> Num(Live, taskPoolCount, t)]
    /\ LiveBag' = [t \in Tasks |-> Num(Live', taskPoolCount', t)]
  BY DEF LiveBag, Num

LEMMA PutRefines ==
    ASSUME IInv, NEW t \in Tasks, InsertTaskToPool(t)
    PROVE  SP!Put(t)
  <1>1. taskPoolCount \in Nat /\ taskPoolSize \in Nat
    BY Bounds DEF IInv
  <1>2. CASE taskPoolCount < taskPoolSize - 1
    <2>1. PICK k \in 0 .. taskPoolCount : Inserted(Live', Live, taskPoolCount, k, t)
      BY <1>2, PutStep
    <2>2. taskPoolCount' = taskPoolCount + 1 /\ ok' = TRUE /\ out' = out
      BY <1>1, <1>2 DEF InsertTaskToPool
    <2>3. \A u \in Tasks :
            Num(Live', taskPoolCount + 1, u) = Num(Live, taskPoolCount, u) + One(t, u)
      BY <1>1, <2>1, NumInserted
    <2>4. \A u \in Tasks : Num(Live, taskPoolCount, u) \in Nat
      BY <1>1, NumType
    <2>5. LiveBag' = [u \in Tasks |-> Num(Live, taskPoolCount, u) + One(t, u)]
      BY <2>2, <2>3, BagIs
    <2>6. LiveBag' = [LiveBag EXCEPT ![t] = @ + 1]
      BY <2>4, <2>5, BagIs DEF One
    <2>7. QED
      BY <1>2, <2>2, <2>6 DEF SP!Put
  <1>3. CASE ~(taskPoolCount < taskPoolSize - 1)
    <2>1. /\ ok' = FALSE /\ out' = out /\ taskPoolCount >= taskPoolSize - 1
          /\ UNCHANGED <<taskPool, taskPoolHead, taskPoolTail, taskPoolCount>>
      BY <1>1, <1>3 DEF InsertTaskToPool
    <2>2. LiveBag' = LiveBag
      BY <2>1, RingSame DEF LiveBag
    <2>3. QED
      BY <2>1, <2>2 DEF SP!Put
  <1>4. QED
    BY <1>2, <1>3

LEMMA TakeRefines ==
    ASSUME IInv, GetTaskFromPool
    PROVE  SP!Take
  <1>1. taskPoolCount \in Nat
    BY Bounds DEF IInv
  <1>2. \A u \in Tasks : LiveBag[u] = Num(Live, taskPoolCount, u)
    BY BagIs
  <1>3. CASE taskPoolHead # taskPoolTail
    <2> DEFINE c == taskPoolCount
               t == Live[0]
    <2>1. /\ c > 0 /\ out' = t /\ taskPoolCount' = c - 1 /\ ok' = ok
          /\ Inserted(Live, Live', c - 1, 0, t)
      BY <1>3, TakeStep DEF GetTaskFromPool
    <2>2. c - 1 \in Nat /\ 0 \in 0 .. c - 1 /\ (c - 1) + 1 = c
      BY <1>1, <2>1
    <2>3. t \in Tasks
      BY <2>2 DEF IInv, LiveTasks
    <2> HIDE DEF t
    <2>4. \A u \in Tasks : Num(Live, (c - 1) + 1, u) = Num(Live', c - 1, u) + One(t, u)
      BY <2>1, <2>2, NumInserted
    <2>5. \A u \in Tasks : Num(Live', c - 1, u) \in Nat
      BY <2>2, NumType
    <2>6. LiveBag' = [u \in Tasks |-> Num(Live', c - 1, u)]
      BY <2>1, BagIs
    <2>7. LiveBag = [u \in Tasks |-> Num(Live', c - 1, u) + One(t, u)]
      BY <2>2, <2>4, BagIs
    <2>8. LiveBag[t] > 0 /\ LiveBag' = [LiveBag EXCEPT ![t] = @ - 1]
      BY <2>3, <2>5, <2>6, <2>7 DEF One
    <2>9. t \in SP!Pooled
      BY <2>3, <2>8 DEF SP!Pooled
    <2>10. ASSUME NEW u \in SP!Pooled PROVE ~LessQueuedTask(u, t)
      <3>1. u \in Tasks /\ LiveBag[u] > 0
        BY DEF SP!Pooled
      <3>2. \E j \in 0 .. c - 1 : Live[j] = u
        <4> SUFFICES ASSUME \A j \in 0 .. c - 1 : Live[j] # u PROVE FALSE
          OBVIOUS
        <4>1. {j \in 0 .. c - 1 : Live[j] = u} = {}
          OBVIOUS
        <4>2. Num(Live, c, u) = 0
          BY <4>1, FS_EmptySet DEF Num
        <4>3. QED
          BY <1>2, <3>1, <4>2
      <3>3. PICK j \in 0 .. c - 1 : Live[j] = u
        BY <3>2
      <3>4. CASE j = 0
        BY <2>3, <3>3, <3>4, Ordered DEF t
      <3>5. CASE j > 0
        BY <2>2, <3>3, <3>5 DEF IInv, Sorted, t
      <3>6. QED
        BY <1>1, <3>4, <3>5
    <2>11. QED
      BY <2>1, <2>8, <2>9, <2>10 DEF SP!Take
  <1>4. CASE taskPoolHead = taskPoolTail
    <2>1. /\ ok' = ok /\ out' = NoTask /\ taskPoolCount = 0
          /\ UNCHANGED <<taskPool, taskPoolHead, taskPoolTail, taskPoolCount>>
      BY <1>4, TestsFromRing DEF IInv, GetTaskFromPool
    <2>2. LiveBag' = LiveBag
      BY <2>1, RingSame DEF LiveBag
    <2>3. \A u \in Tasks : LiveBag[u] = 0
      <3>1. \A u : {i \in 0 .. 0 - 1 : Live[i] = u} = {}
        OBVIOUS
      <3>2. QED
        BY <1>2, <2>1, <3>1, FS_EmptySet DEF Num
    <2>4. SP!Pooled = {}
      BY <2>3 DEF SP!Pooled
    <2>5. QED
      BY <2>1, <2>2, <2>4 DEF SP!Take
  <1>5. QED
    BY <1>3, <1>4

\* Through insertion, the shift round the end of the array and the moving head
\* the ring of main.go is a sorted pool: no task is lost or duplicated, a task is
\* refused exactly when the pool is full, and the task returned is one that no
\* pooled task precedes.
THEOREM SortedPoolRefinement == Spec => IsSortedPool
  <1>1. Init => SP!SPInit
    <2> SUFFICES ASSUME Init PROVE SP!SPInit
      OBVIOUS
    <2>1. taskPoolCount = 0 /\ out = NoTask /\ ok = TRUE
      BY DEF Init
    <2>2. \A u \in Tasks : {i \in 0 .. taskPoolCount - 1 : Live[i] = u} = {}
      BY <2>1
    <2>3. LiveBag = [u \in Tasks |-> 0]
      BY <2>2, FS_EmptySet DEF LiveBag
    <2>4. QED
      BY <2>1, <2>3 DEF SP!SPInit
  <1>2. IInv /\ [Next]_vars => [SP!SPNext]_spVars
    <2> SUFFICES ASSUME IInv, [Next]_vars PROVE [SP!SPNext]_spVars
      OBVIOUS
    <2>1. CASE UNCHANGED vars
      BY <2>1, RingSame DEF vars, spVars, LiveBag
    <2>2. CASE Next
      BY <2>2, PutRefines, TakeRefines DEF Next, SP!SPNext
    <2>3. QED
      BY <2>1, <2>2
  <1>3. QED
    BY <1>1, <1>2, Invariance, PTL DEF Spec, IsSortedPool, SP!SPSpec, spVars
===============================================================================
