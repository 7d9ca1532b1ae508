--------------------------- MODULE AccountingProofs ---------------------------
(***************************************************************************)
(* TLAPS proofs about Accounting, for every number of tasks and CPUs, all   *)
(* weights, and clocks of the CPUs that have nothing to do with each other. *)
(***************************************************************************)
EXTENDS Accounting, SequenceTheorems, FiniteSetTheorems, TLAPS

----------------------------------------------------------------------------
(***************************************************************************)
(* The inductive invariant.                                                *)
(***************************************************************************)
\* A task is running exactly if some CPU runs it, and no two CPUs run the same.
Placed ==
    /\ \A c \in CPUs : cur[c] \in Tasks => where[cur[c]] = "running"
    /\ \A p \in Tasks : where[p] = "running" => \E c \in CPUs : cur[c] = p
    /\ \A b, c \in CPUs : cur[b] = cur[c] /\ cur[c] # Nobody => b = c

\* The last run of a task that does not run has ended, and that of a task that
\* runs began in the past of its CPU's clock.
Timed ==
    /\ \A p \in Tasks : where[p] # "running" => tctx[p].start_ts <= tctx[p].stop_ts
    /\ \A c \in CPUs : cur[c] \in Tasks => tctx[cur[c]].start_ts <= clock[c]

\* What a record may carry: a run that has ended, and a vruntime below the bound.
GoodRecords == {r \in Records : r.start_ts <= r.stop_ts /\ r.vtime <= MaxVtime}

\* What user space may answer: never a vruntime of 0.
GoodAnswers == [pid : Tasks, vtime : 1 .. MaxVtime]

Carried ==
    /\ queued \in Seq(GoodRecords)
    /\ pool \in Seq(GoodAnswers)
    /\ minVruntime <= MaxVtime
    /\ \A p \in Tasks : dsq_vtime[p] <= MaxVtime

Types ==
    /\ clock \in [CPUs -> 0 .. MaxTime]
    /\ cur \in [CPUs -> Tasks \cup {UserSched, Nobody}]
    /\ where \in [Tasks -> {"sleeping", "waiting", "running", "dead"}]
    /\ dsq_vtime \in [Tasks -> U64]
    /\ tctx \in [Tasks -> TaskCtx]
    /\ priority_tasks \subseteq Tasks
    /\ minVruntime \in U64
    /\ ran \in [Tasks -> Nat]
    /\ moved \subseteq Tasks

IInv ==
    /\ Types
    /\ Placed
    /\ Timed
    /\ Carried
    /\ NrRunningExact
    /\ NoAccidentalPriority

----------------------------------------------------------------------------
(***************************************************************************)
(* Arithmetic and helpers.                                                 *)
(***************************************************************************)
LEMMA Constants ==
    /\ TwoTo64 \in Nat /\ TwoTo64 > 0
    /\ MaxTime \in Nat /\ MaxTime < TwoTo64
    /\ MaxVtime \in Nat /\ MaxVtime < TwoTo64
    /\ MaxVtime + SLICE_NS_DEFAULT * 100 + TwoTo64 \div 100 < TwoTo64
    /\ SLICE_NS_DEFAULT \in Nat
    /\ Weights \subseteq Nat \ {0}
    /\ UserSched \notin Tasks /\ Nobody \notin Tasks /\ Nobody # UserSched
    /\ Favoured \subseteq Tasks
    /\ IsFiniteSet(CPUs)
  <1>1. TwoTo64 \div 100 \in Nat
    BY AccountingAssumption
  <1>2. SLICE_NS_DEFAULT * 100 \in Nat
    BY AccountingAssumption
  <1>3. QED
    BY <1>1, <1>2, AccountingAssumption, VtimeAssumption

\* u64 values stay u64 values.
LEMMA ModType ==
    ASSUME NEW a \in Int
    PROVE  a % TwoTo64 \in U64
  BY Constants DEF U64

\* A value in range is not changed by the wrap-around.
LEMMA ModSmall ==
    ASSUME NEW a \in U64
    PROVE  a % TwoTo64 = a
  BY Constants DEF U64

\* A difference on one CPU's clock does not wrap around.
LEMMA SubExact ==
    ASSUME NEW a \in U64, NEW b \in U64, b <= a
    PROVE  Sub(a, b) = a - b /\ Sub(a, b) \in U64
  <1>1. a - b \in U64
    BY Constants DEF U64
  <1>2. QED
    BY <1>1, ModSmall DEF Sub

LEMMA ClockType ==
    ASSUME Types, NEW c \in CPUs
    PROVE  clock[c] \in U64
  BY Constants DEF Types, U64

\* Taking an element out of a sequence leaves a sequence.
LEMMA WithoutType ==
    ASSUME NEW S, NEW s \in Seq(S), NEW i \in DOMAIN s
    PROVE  Without(s, i) \in Seq(S)
  <1>1. i \in 1 .. Len(s) /\ Len(s) \in Nat
    BY LenProperties
  <1>2. \A j \in 1 .. Len(s) : s[j] \in S
    BY ElementOfSeq
  <1>3. SubSeq(s, 1, i - 1) \in Seq(S)
    BY <1>1, <1>2, SubSeqProperties
  <1>4. SubSeq(s, i + 1, Len(s)) \in Seq(S)
    BY <1>1, <1>2, SubSeqProperties
  <1>5. QED
    BY <1>3, <1>4, ConcatProperties DEF Without

\* goland_enqueue of a task whose last run has ended sends a good record.
LEMMA EnqueueCarries ==
    ASSUME Types, Carried, NEW p \in Tasks,
           tctx'[p] \in TaskCtx, tctx'[p].start_ts <= tctx'[p].stop_ts,
           goland_enqueue(p)
    PROVE  queued' \in Seq(GoodRecords)
  <1>1. CASE UNCHANGED queued
    BY <1>1 DEF Carried
  <1>2. CASE \E w \in Weights : queued' = Append(queued, get_task_info(p, tctx'[p], w))
    <2>1. PICK w \in Weights : queued' = Append(queued, get_task_info(p, tctx'[p], w))
      BY <1>2
    <2>2. get_task_info(p, tctx'[p], w) \in GoodRecords
      BY DEF get_task_info, GoodRecords, Records, TaskCtx, Types, Carried
    <2>3. QED
      BY <2>1, <2>2, AppendProperties DEF Carried
  <1>3. QED
    BY <1>1, <1>2 DEF goland_enqueue

LEMMA WeightFacts ==
    SLICE_NS_DEFAULT * 100 \in Nat /\ \A w \in Weights : w \in Nat /\ w >= 1
  <1>1. SLICE_NS_DEFAULT \in Nat
    BY Constants
  <1>2. Weights \subseteq Nat \ {0}
    BY Constants
  <1>3. SLICE_NS_DEFAULT * 100 \in Nat
    BY <1>1
  <1>4. \A w \in Weights : w \in Nat /\ w >= 1
    BY <1>2
  <1>5. QED
    BY <1>3, <1>4

LEMMA DivBound ==
    ASSUME NEW a \in Nat, NEW b \in Nat, b >= 1
    PROVE  a \div b \in Int /\ a \div b <= a
  <1>1. a \div b \in Int
    OBVIOUS
  <1> DEFINE q == a \div b
  <1>2. b * q <= a
    OBVIOUS
  <1>3. q \in Int
    BY <1>1
  <1> HIDE DEF q
  <1>4. q <= a
    <2>1. CASE q <= 0
      BY <2>1, <1>3
    <2>2. CASE q > 0
      <3>1. (b - 1) * q >= 0
        BY <2>2, <1>3
      <3>2. (b - 1) * q = b * q - q
        BY <1>3
      <3>3. b * q \in Int
        BY <1>3
      <3>4. QED
        BY <1>2, <1>3, <3>1, <3>2, <3>3
    <2>3. QED
      BY <2>1, <2>2, <1>3
  <1>5. QED
    BY <1>1, <1>4 DEF q

\* Before the last run is charged, the vruntime is positive and did not wrap.
LEMMA VruntimePositive ==
    ASSUME NEW r \in GoodRecords, NEW min \in 0 .. MaxVtime
    PROVE  Vruntime(r, min) \in 1 .. MaxVtime + SLICE_NS_DEFAULT * 100
  <1> DEFINE floor == saturating_sub(min, SLICE_NS_DEFAULT)
             bonus == (SLICE_NS_DEFAULT * 100) \div r.weight
  <1>1. r.weight \in Weights /\ r.vtime \in 0 .. MaxVtime
    BY Constants DEF GoodRecords, Records, U64
  <1>2. floor \in 0 .. MaxVtime
    BY Constants DEF saturating_sub
  <1>3. bonus \in 1 .. SLICE_NS_DEFAULT * 100
    <2>1. bonus > 0
      BY <1>1, AccountingAssumption
    <2>2. r.weight \in Nat /\ r.weight >= 1 /\ SLICE_NS_DEFAULT * 100 \in Nat
      BY <1>1, WeightFacts
    <2>3. bonus \in Int /\ bonus <= SLICE_NS_DEFAULT * 100
      BY <2>2, DivBound, Zenon
    <2> HIDE DEF bonus
    <2>4. QED
      BY <2>1, <2>2, <2>3
  <1>4. Add(floor, bonus) = floor + bonus
    <2>1. floor + bonus \in U64
      <3>1. TwoTo64 \div 100 \in Nat
        BY Constants
      <3>2. QED
        BY <3>1, <1>2, <1>3, Constants DEF U64
    <2>2. QED
      BY <2>1, ModSmall DEF Add
  <1>5. CASE r.vtime = 0
    BY <1>5, <1>2, <1>3, <1>4, Constants DEF Vruntime
  <1>6. CASE r.vtime # 0 /\ r.vtime < floor
    BY <1>6, <1>1, <1>2, Constants DEF Vruntime
  <1>7. CASE r.vtime # 0 /\ ~(r.vtime < floor)
    BY <1>7, <1>1, Constants DEF Vruntime
  <1>8. QED
    BY <1>5, <1>6, <1>7

\* Nor does charging the last run make it 0.
LEMMA ChargePositive ==
    ASSUME NEW v \in 1 .. MaxVtime + SLICE_NS_DEFAULT * 100, NEW x \in Int
    PROVE  Add(v, (x % TwoTo64) \div 100) \in Nat \ {0}
  <1> DEFINE charge == (x % TwoTo64) \div 100
  <1>1. x % TwoTo64 \in U64
    BY ModType
  <1>2. charge \in 0 .. TwoTo64 \div 100
    BY <1>1, Constants DEF U64
  <1>3. v + charge \in U64 /\ v + charge > 0
    BY <1>2, Constants DEF U64
  <1>4. Add(v, charge) = v + charge
    BY <1>3, ModSmall DEF Add
  <1>5. QED
    BY <1>3, <1>4, Constants DEF U64

----------------------------------------------------------------------------
(***************************************************************************)
(* The invariant holds initially, and every step keeps it.                 *)
(***************************************************************************)
LEMMA InitIInv == Init => IInv
  <1> SUFFICES ASSUME Init PROVE IInv
    OBVIOUS
  <1>1. 0 \in U64 /\ NewCtx \in TaskCtx
    BY Constants DEF U64, NewCtx, TaskCtx
  <1>2. Types
    BY <1>1, Constants DEF Init, Types
  <1>3. \A c \in CPUs : cur[c] \notin Tasks
    BY Constants DEF Init
  <1>4. Placed /\ Timed
    BY <1>3 DEF Init, Placed, Timed, NewCtx
  <1>5. Carried
    BY Constants, EmptySeq DEF Init, Carried
  <1>6. {c \in CPUs : cur[c] \in Tasks} = {}
    BY <1>3
  <1>7. NrRunningExact
    BY <1>6, FS_EmptySet DEF Init, NrRunningExact
  <1>8. QED
    BY <1>2, <1>4, <1>5, <1>7 DEF IInv, Init, NoAccidentalPriority

LEMMA TickStep ==
    ASSUME IInv, NEW c \in CPUs, Tick(c)
    PROVE  IInv'
  <1> USE DEF Tick, userVars
  <1>1. Types'
    BY Constants DEF IInv, Types
  <1>2. Timed'
    BY Constants DEF IInv, Types, Timed, TaskCtx, U64
  <1>3. Placed'
    BY DEF IInv, Placed
  <1>4. Carried'
    BY DEF IInv, Carried
  <1>5. NrRunningExact' /\ NoAccidentalPriority'
    BY DEF IInv, NrRunningExact, NoAccidentalPriority
  <1>6. QED
    BY <1>1, <1>2, <1>3, <1>4, <1>5 DEF IInv

LEMMA EnqueueStep ==
    ASSUME IInv, NEW p \in Tasks, Enqueue(p)
    PROVE  IInv'
  <1> USE DEF Enqueue, goland_runnable
  <1>1. /\ tctx' \in [Tasks -> TaskCtx]
        /\ \A q \in Tasks : /\ tctx'[q].start_ts = tctx[q].start_ts
                            /\ tctx'[q].stop_ts = tctx[q].stop_ts
    BY Constants DEF IInv, Types, TaskCtx, U64
  <1>2. Types'
    BY <1>1 DEF IInv, Types
  <1>3. Placed'
    BY DEF IInv, Types, Placed
  <1>4. Timed'
    BY <1>1 DEF IInv, Types, Timed
  <1>5. Carried'
    <2>1. tctx'[p].start_ts <= tctx'[p].stop_ts
      BY <1>1 DEF IInv, Timed
    <2>2. queued' \in Seq(GoodRecords)
      BY <1>1, <2>1, EnqueueCarries DEF IInv
    <2>3. QED
      BY <2>2 DEF IInv, Carried
  <1>6. NrRunningExact' /\ NoAccidentalPriority'
    BY DEF IInv, NrRunningExact, NoAccidentalPriority
  <1>7. QED
    BY <1>2, <1>3, <1>4, <1>5, <1>6 DEF IInv

LEMMA RunStep ==
    ASSUME IInv, NEW c \in CPUs, NEW p \in Tasks \cup {UserSched}, Run(c, p)
    PROVE  IInv'
  <1> USE DEF Run, goland_running
  <1>1. Types'
    <2>1. tctx' \in [Tasks -> TaskCtx]
      BY ClockType DEF IInv, Types, TaskCtx
    <2>3. cur' \in [CPUs -> Tasks \cup {UserSched, Nobody}]
      BY DEF IInv, Types
    <2>4. where' \in [Tasks -> {"sleeping", "waiting", "running", "dead"}]
      BY DEF IInv, Types
    <2>5. QED
      BY <2>1, <2>3, <2>4 DEF IInv, Types, userVars
  <1>2. Placed'
    BY Constants DEF IInv, Types, Placed
  <1>3. Timed'
    <2>1. CASE p = UserSched
      BY <2>1, Constants DEF IInv, Types, Timed
    <2>2. CASE p \in Tasks
      <3>1. /\ tctx'[p].start_ts = clock[c]
            /\ \A q \in Tasks \ {p} : tctx'[q] = tctx[q] /\ where'[q] = where[q]
            /\ where'[p] = "running"
        BY <2>2, Constants DEF IInv, Types, TaskCtx
      <3>2. \A b \in CPUs \ {c} : cur'[b] = cur[b] /\ cur[b] # p
        BY <2>2, Constants DEF IInv, Types, Placed
      <3>3. cur'[c] = p /\ clock' = clock /\ clock[c] \in U64
        BY ClockType DEF IInv, Types
      <3>4. QED
        BY <2>2, <3>1, <3>2, <3>3 DEF IInv, Timed, U64
    <2>3. QED
      BY <2>1, <2>2
  <1>5. Carried' /\ NoAccidentalPriority'
    BY DEF IInv, Carried, NoAccidentalPriority, userVars
  <1>6. NrRunningExact'
    <2> DEFINE R == {b \in CPUs : cur[b] \in Tasks}
    <2>1. IsFiniteSet(R) /\ Cardinality(R) = nr_running
      BY Constants, FS_Subset DEF IInv, NrRunningExact
    <2>2. CASE p = UserSched
      <3>1. {b \in CPUs : cur'[b] \in Tasks} = R
        BY <2>2, Constants DEF IInv, Types
      <3>2. QED
        BY <2>1, <2>2, <3>1 DEF NrRunningExact
    <2>3. CASE p # UserSched
      <3>1. {b \in CPUs : cur'[b] \in Tasks} = R \cup {c} /\ c \notin R
        BY <2>3, Constants DEF IInv, Types
      <3>2. nr_running' = nr_running + 1
        BY <2>3
      <3>3. QED
        BY <2>1, <3>1, <3>2, FS_AddElement DEF NrRunningExact
    <2>4. QED
      BY <2>2, <2>3
  <1>7. QED
    BY <1>1, <1>2, <1>3, <1>5, <1>6 DEF IInv

\* What goland_stopping does to the task that leaves its CPU.
LEMMA StoppingFacts ==
    ASSUME IInv, NEW c \in CPUs, cur[c] \in Tasks, goland_stopping(c, cur[c])
    PROVE  /\ tctx' \in [Tasks -> TaskCtx]
           /\ \A q \in Tasks \ {cur[c]} : tctx'[q] = tctx[q]
           /\ tctx'[cur[c]].start_ts <= tctx'[cur[c]].stop_ts
           /\ tctx'[cur[c]].start_ts = tctx[cur[c]].start_ts
           /\ tctx'[cur[c]].exec_runtime =
                 Add(tctx[cur[c]].exec_runtime, Sub(clock[c], tctx[cur[c]].start_ts))
           /\ nr_running' = nr_running - 1
  <1> DEFINE p == cur[c]
             sum == Add(tctx[p].exec_runtime, Sub(clock[c], tctx[p].start_ts))
  <1>1. p \in Tasks /\ p # UserSched
    BY Constants
  <1>2. tctx \in [Tasks -> TaskCtx] /\ clock[c] \in U64
    BY ClockType DEF IInv, Types
  <1>3. /\ tctx' = [tctx EXCEPT ![p].stop_ts = clock[c], ![p].exec_runtime = sum]
        /\ nr_running' = nr_running - 1
    BY <1>1, <1>2 DEF goland_stopping, TaskCtx
  <1>4. sum \in U64
    <2>1. tctx[p].exec_runtime \in U64 /\ tctx[p].start_ts \in U64
      BY <1>1, <1>2 DEF TaskCtx
    <2>2. tctx[p].start_ts <= clock[c]
      BY <1>1 DEF IInv, Timed
    <2>3. Sub(clock[c], tctx[p].start_ts) \in U64
      BY <2>1, <2>2, <1>2, SubExact
    <2>4. QED
      BY <2>1, <2>3, ModType, Constants DEF Add, U64
  <1> HIDE DEF sum
  <1>5. /\ tctx' \in [Tasks -> TaskCtx]
        /\ \A q \in Tasks \ {p} : tctx'[q] = tctx[q]
        /\ tctx'[p].stop_ts = clock[c]
        /\ tctx'[p].start_ts = tctx[p].start_ts
        /\ tctx'[p].exec_runtime = sum
    BY <1>1, <1>2, <1>3, <1>4 DEF TaskCtx
  <1>6. tctx[p].start_ts <= clock[c]
    BY <1>1 DEF IInv, Timed
  <1>7. QED
    BY <1>3, <1>5, <1>6 DEF sum

LEMMA StopStep ==
    ASSUME IInv, NEW c \in CPUs, Stop(c)
    PROVE  IInv'
  <1> DEFINE p == cur[c]
  <1> USE DEF Stop
  <1>1. /\ p \in Tasks \cup {UserSched}
        /\ cur' = [cur EXCEPT ![c] = Nobody]
        /\ \A b \in CPUs \ {c} : cur[b] # p
    BY Constants DEF IInv, Types, Placed
  <1>2. /\ where' \in [Tasks -> {"sleeping", "waiting", "running", "dead"}]
        /\ \A q \in Tasks \ {p} : where'[q] = where[q]
        /\ p \in Tasks => where'[p] # "running"
    BY DEF IInv, Types
  <1>3. /\ tctx' \in [Tasks -> TaskCtx]
        /\ \A q \in Tasks \ {p} : tctx'[q] = tctx[q]
        /\ p \in Tasks => tctx'[p].start_ts <= tctx'[p].stop_ts
    <2>1. CASE p \in Tasks
      BY <2>1, StoppingFacts
    <2>2. CASE p = UserSched
      BY <2>2, Constants DEF goland_stopping, IInv, Types
    <2>3. QED
      BY <1>1, <2>1, <2>2
  <1>4. Types'
    BY <1>1, <1>2, <1>3 DEF IInv, Types
  <1>5. Placed'
    <2>1. \A b \in CPUs : cur'[b] \in Tasks => b # c /\ cur'[b] = cur[b]
      BY <1>1, Constants DEF IInv, Types
    <2>2. \A b \in CPUs : cur'[b] \in Tasks => where'[cur'[b]] = "running"
      BY <1>1, <1>2, <2>1 DEF IInv, Placed
    <2>3. \A q \in Tasks : where'[q] = "running" => \E b \in CPUs : cur'[b] = q
      <3> SUFFICES ASSUME NEW q \in Tasks, where'[q] = "running"
                   PROVE  \E b \in CPUs : cur'[b] = q
        OBVIOUS
      <3>1. q # p /\ where[q] = "running"
        BY <1>2
      <3>2. PICK b \in CPUs : cur[b] = q
        BY <3>1 DEF IInv, Placed
      <3>3. cur'[b] = q
        BY <1>1, <3>1, <3>2 DEF IInv, Types
      <3>4. QED
        BY <3>3
    <2>4. \A b, d \in CPUs : cur'[b] = cur'[d] /\ cur'[d] # Nobody => b = d
      BY <1>1 DEF IInv, Types, Placed
    <2>5. QED
      BY <2>2, <2>3, <2>4 DEF Placed
  <1>6. Timed'
    BY <1>1, <1>2, <1>3, Constants DEF IInv, Types, Timed
  <1>8. Carried'
    <2>1. queued' \in Seq(GoodRecords)
      <3>1. CASE UNCHANGED queued
        BY <3>1 DEF IInv, Carried
      <3>2. CASE p \in Tasks /\ goland_enqueue(p)
        BY <3>2, <1>3, EnqueueCarries DEF IInv
      <3>3. QED
        BY <3>1, <3>2
    <2>2. QED
      BY <2>1 DEF IInv, Carried
  <1>9. NrRunningExact'
    <2> DEFINE R == {b \in CPUs : cur[b] \in Tasks}
    <2>1. IsFiniteSet(R) /\ Cardinality(R) = nr_running
      BY Constants, FS_Subset DEF IInv, NrRunningExact
    <2>2. CASE p = UserSched
      <3>1. {b \in CPUs : cur'[b] \in Tasks} = R
        BY <2>2, <1>1, Constants DEF IInv, Types
      <3>2. nr_running' = nr_running
        BY <2>2 DEF goland_stopping
      <3>3. QED
        BY <2>1, <3>1, <3>2 DEF NrRunningExact
    <2>3. CASE p \in Tasks
      <3>1. {b \in CPUs : cur'[b] \in Tasks} = R \ {c} /\ c \in R
        BY <2>3, <1>1, Constants DEF IInv, Types
      <3>2. nr_running' = nr_running - 1
        BY <2>3, StoppingFacts
      <3>3. QED
        BY <2>1, <3>1, <3>2, FS_RemoveElement DEF NrRunningExact
    <2>4. QED
      BY <1>1, <2>2, <2>3
  <1>10. NoAccidentalPriority'
    BY DEF IInv, NoAccidentalPriority
  <1>11. QED
    BY <1>4, <1>5, <1>6, <1>8, <1>9, <1>10 DEF IInv

LEMMA TaskStep ==
    ASSUME IInv, NEW p \in Tasks,
           goland_enable(p) \/ goland_exit_task(p) \/ goland_init_task(p)
    PROVE  IInv'
  <1> USE DEF kernelVars, userVars
  <1>1. 0 \in U64 /\ NewCtx \in TaskCtx /\ NewCtx.start_ts = 0 /\ NewCtx.stop_ts = 0
    BY Constants DEF U64, NewCtx, TaskCtx
  <1>2. CASE goland_enable(p)
    <2>1. Types' /\ Carried'
      BY <1>1, <1>2, Constants DEF goland_enable, IInv, Types, Carried
    <2>2. QED
      BY <1>2, <2>1 DEF goland_enable, IInv, Placed, Timed, NrRunningExact, NoAccidentalPriority
  <1>3. CASE goland_exit_task(p)
    <2>1. Types' /\ Carried'
      BY <1>1, <1>3, Constants DEF goland_exit_task, IInv, Types, Carried
    <2>2. \A c \in CPUs : cur[c] # p
      BY <1>3 DEF goland_exit_task, IInv, Placed
    <2>3. Placed'
      BY <1>3, <2>2 DEF goland_exit_task, IInv, Types, Placed
    <2>4. Timed'
      BY <1>1, <1>3, <2>2 DEF goland_exit_task, IInv, Types, Timed
    <2>5. QED
      BY <1>3, <2>1, <2>3, <2>4 DEF goland_exit_task, IInv, NrRunningExact, NoAccidentalPriority
  <1>4. CASE goland_init_task(p)
    <2>1. Types' /\ Carried'
      BY <1>4 DEF goland_init_task, IInv, Types, Carried
    <2>2. Placed' /\ Timed'
      BY <1>4 DEF goland_init_task, IInv, Types, Placed, Timed
    <2>3. QED
      BY <1>4, <2>1, <2>2 DEF goland_init_task, IInv, NrRunningExact, NoAccidentalPriority
  <1>5. QED
    BY <1>2, <1>3, <1>4

\* Charging a run never answers with a vruntime of 0.
LEMMA ChargeStep ==
    ASSUME IInv, updatedEnqueueTask
    PROVE  IInv'
  <1> DEFINE r == Head(queued)
             min == IF minVruntime < r.vtime THEN r.vtime ELSE minVruntime
             x == Sub(r.stop_ts, r.start_ts) * r.weight
             vtime == Add(Vruntime(r, min), (x % TwoTo64) \div 100)
  <1>1. /\ queued # <<>>
        /\ vtime <= MaxVtime
        /\ minVruntime' = min
        /\ queued' = Tail(queued)
        /\ pool' = Append(pool, [pid |-> r.pid, vtime |-> vtime])
    BY DEF updatedEnqueueTask
  <1>2. r \in GoodRecords /\ queued' \in Seq(GoodRecords)
    BY <1>1, HeadTailProperties DEF IInv, Carried
  <1>3. r \in Records /\ r.vtime <= MaxVtime
    BY <1>2 DEF GoodRecords
  <1>4. min \in 0 .. MaxVtime
    BY <1>3, Constants DEF IInv, Types, Carried, Records, U64
  <1>5. x \in Int
    <2>1. r.stop_ts \in U64 /\ r.start_ts \in U64 /\ r.start_ts <= r.stop_ts
      BY <1>2 DEF GoodRecords, Records
    <2>2. Sub(r.stop_ts, r.start_ts) \in U64
      BY <2>1, SubExact
    <2>3. r.weight \in Nat
      BY <1>3, WeightFacts DEF Records
    <2>4. QED
      BY <2>2, <2>3, Constants DEF U64
  <1>6. vtime \in Nat \ {0}
    <2>1. Vruntime(r, min) \in 1 .. MaxVtime + SLICE_NS_DEFAULT * 100
      BY <1>2, <1>4, VruntimePositive
    <2> HIDE DEF x, min, r
    <2>2. QED
      BY <2>1, <1>5, ChargePositive
  <1>7. [pid |-> r.pid, vtime |-> vtime] \in GoodAnswers
    <2>1. r.pid \in Tasks
      BY <1>3 DEF Records
    <2> HIDE DEF vtime, r
    <2>2. vtime \in 1 .. MaxVtime
      BY <1>1, <1>6, Constants
    <2>3. QED
      BY <2>1, <2>2 DEF GoodAnswers
  <1> HIDE DEF vtime, min
  <1>8. Carried'
    BY <1>1, <1>2, <1>4, <1>7, AppendProperties, Constants DEF updatedEnqueueTask, IInv, Carried
  <1>9. Types'
    BY <1>1, <1>4, Constants DEF updatedEnqueueTask, kernelVars, IInv, Types, U64
  <1>10. Placed' /\ Timed' /\ NrRunningExact' /\ NoAccidentalPriority'
    BY DEF updatedEnqueueTask, kernelVars, IInv, Placed, Timed, NrRunningExact,
           NoAccidentalPriority
  <1>11. QED
    BY <1>8, <1>9, <1>10 DEF IInv

LEMMA DispatchStep ==
    ASSUME IInv, NEW i \in DOMAIN pool, dispatch_task(i)
    PROVE  IInv'
  <1> DEFINE p == pool[i].pid
             vtime == IF p \in Favoured THEN 0 ELSE pool[i].vtime
  <1>1. pool[i] \in GoodAnswers
    BY LenProperties, ElementOfSeq DEF IInv, Carried
  <1>2. p \in Tasks /\ vtime \in 0 .. MaxVtime /\ (vtime = 0 => p \in Favoured)
    BY <1>1, Constants DEF GoodAnswers
  <1>3. dsq_vtime' = dsq_vtime \/ dsq_vtime' = [dsq_vtime EXCEPT ![p] = vtime]
    BY DEF dispatch_task
  <1>4. \/ priority_tasks' = priority_tasks
        \/ priority_tasks' = priority_tasks \ {p}
        \/ vtime = 0 /\ priority_tasks' = priority_tasks \cup {p}
    BY DEF dispatch_task
  <1>5. pool' \in Seq(GoodAnswers)
    BY WithoutType DEF dispatch_task, IInv, Carried
  <1> HIDE DEF p, vtime
  <1>6. Types'
    BY <1>2, <1>3, <1>4, Constants DEF dispatch_task, kernelVars, IInv, Types, U64
  <1>7. Carried'
    <2>1. vtime <= MaxVtime
      BY <1>2, Constants
    <2>2. \A q \in Tasks : dsq_vtime'[q] = dsq_vtime[q] \/ dsq_vtime'[q] = vtime
      BY <1>2, <1>3 DEF IInv, Types
    <2>3. \A q \in Tasks : dsq_vtime'[q] <= MaxVtime
      BY <2>1, <2>2 DEF IInv, Carried
    <2>4. QED
      BY <1>5, <2>3 DEF dispatch_task, IInv, Carried
  <1>8. NoAccidentalPriority'
    BY <1>2, <1>4 DEF IInv, NoAccidentalPriority
  <1>9. Placed' /\ Timed' /\ NrRunningExact'
    BY DEF dispatch_task, kernelVars, IInv, Placed, Timed, NrRunningExact
  <1>10. QED
    BY <1>6, <1>7, <1>8, <1>9 DEF IInv

LEMMA NextIInv == IInv /\ [Next]_vars => IInv'
  <1> SUFFICES ASSUME IInv, [Next]_vars PROVE IInv'
    OBVIOUS
  <1>1. CASE Next
    BY <1>1, TickStep, StopStep, RunStep, EnqueueStep, TaskStep, ChargeStep, DispatchStep DEF Next
  <1>2. CASE UNCHANGED vars
    BY <1>2 DEF vars, IInv, Types, Placed, Timed, Carried, NrRunningExact,
                NoAccidentalPriority
  <1>3. QED
    BY <1>1, <1>2

----------------------------------------------------------------------------
(***************************************************************************)
(* What follows from the invariant.                                        *)
(***************************************************************************)
LEMMA TypeFromIInv == IInv => TypeOK
  <1> SUFFICES ASSUME IInv PROVE TypeOK
    OBVIOUS
  <1>1. queued \in Seq(Records)
    BY SeqMonotonic DEF IInv, Carried, GoodRecords
  <1>2. GoodAnswers \subseteq [pid : Tasks, vtime : U64]
    BY Constants DEF GoodAnswers, U64
  <1>3. pool \in Seq([pid : Tasks, vtime : U64])
    BY <1>2, SeqMonotonic DEF IInv, Carried
  <1>4. nr_running \in Nat
    <2> DEFINE R == {c \in CPUs : cur[c] \in Tasks}
    <2>1. IsFiniteSet(R)
      BY Constants, FS_Subset
    <2>2. Cardinality(R) \in Nat
      BY <2>1, FS_CardinalityType
    <2>3. QED
      BY <2>2 DEF IInv, NrRunningExact
  <1>5. QED
    BY <1>1, <1>3, <1>4 DEF IInv, Types, TypeOK

\* Every reachable state has the types TypeOK gives: nr_running, which
\* goland_stopping decrements, never gets below 0.
THEOREM TypeCorrect == Spec => []TypeOK
  BY TypeFromIInv, InitIInv, NextIInv, PTL DEF Spec

\* No record reports a run that ended before it began, whatever the clocks of
\* the CPUs the task moved between: (StopTs - StartTs) in updatedEnqueueTask
\* does not wrap around.
THEOREM RunsForwardCorrect == Spec => []RunsForward
  <1>1. IInv => RunsForward
    <2> SUFFICES ASSUME IInv, NEW i \in DOMAIN queued
                 PROVE  queued[i].start_ts <= queued[i].stop_ts
      BY DEF RunsForward
    <2>1. queued[i] \in GoodRecords
      BY LenProperties, ElementOfSeq DEF IInv, Carried
    <2>2. QED
      BY <2>1 DEF GoodRecords
  <1>2. QED
    BY <1>1, InitIInv, NextIInv, PTL DEF Spec

\* nr_running counts the CPUs that run a task other than the user-space
\* scheduler.
THEOREM NrRunningCorrect == Spec => []NrRunningExact
  <1>1. IInv => NrRunningExact
    BY DEF IInv
  <1>2. QED
    BY <1>1, InitIInv, NextIInv, PTL DEF Spec

\* Only tasks for which user space asks for it get into priority_tasks; with
\* Favoured = {}, as in main.go, none does, which is the premise 0 \notin Vtimes
\* of the proofs about BpfBackend.
THEOREM NoAccidentalPriorityCorrect == Spec => []NoAccidentalPriority
  <1>1. IInv => NoAccidentalPriority
    BY DEF IInv
  <1>2. QED
    BY <1>1, InitIInv, NextIInv, PTL DEF Spec

----------------------------------------------------------------------------
(***************************************************************************)
(* Run times, as long as none exceeds the range of u64 (2^64 ns are more    *)
(* than 500 years without a sleep).                                        *)
(***************************************************************************)
NoOverflow == \A p \in Tasks : ran[p] < TwoTo64

\* A measured run time x of task p is as ExecRuntimeExact says.
Agrees(p, x) == x <= ran[p] /\ (p \notin moved => x = ran[p])

\* ExecRuntimeExact without the choice of the CPU that runs the task.
Measured ==
    \A p \in Tasks :
        /\ where[p] # "running" => Agrees(p, tctx[p].exec_runtime)
        /\ \A c \in CPUs : cur[c] = p =>
              Agrees(p, tctx[p].exec_runtime + (clock[c] - tctx[p].start_ts))

LEMMA InitMeasured == Init => Measured
  BY Constants DEF Init, Measured, Agrees, NewCtx

LEMMA StopMeasured ==
    ASSUME IInv, Measured, NoOverflow, NEW c \in CPUs, Stop(c)
    PROVE  Measured'
  <1> DEFINE p == cur[c]
  <1>1. /\ p \in Tasks \cup {UserSched}
        /\ cur' = [cur EXCEPT ![c] = Nobody]
        /\ clock' = clock /\ ran' = ran /\ moved' = moved
        /\ \A b \in CPUs \ {c} : cur[b] # p
    BY Constants DEF Stop, IInv, Types, Placed
  <1>2. \A q \in Tasks \ {p} : where'[q] = where[q]
    BY DEF Stop, IInv, Types
  <1>3. \A b \in CPUs : cur'[b] \in Tasks => cur'[b] # p /\ cur'[b] = cur[b]
    BY <1>1, Constants DEF IInv, Types
  <1>4. \A q \in Tasks \ {p} : tctx'[q] = tctx[q]
    <2>1. CASE p \in Tasks
      BY <2>1, StoppingFacts DEF Stop
    <2>2. CASE p = UserSched
      BY <2>2, Constants DEF Stop, goland_stopping
    <2>3. QED
      BY <1>1, <2>1, <2>2
  <1>5. ASSUME p \in Tasks
        PROVE  tctx'[p].exec_runtime <= ran[p] /\ (p \notin moved => tctx'[p].exec_runtime = ran[p])
    <2> DEFINE exec == tctx[p].exec_runtime
               run == clock[c] - tctx[p].start_ts
    <2>1. /\ exec \in U64 /\ tctx[p].start_ts \in U64 /\ clock[c] \in U64
          /\ tctx[p].start_ts <= clock[c]
      BY <1>5, ClockType DEF IInv, Types, TaskCtx, Timed
    <2>2. /\ exec + run <= ran[p] /\ ran[p] < TwoTo64 /\ ran[p] \in Nat
          /\ p \notin moved => exec + run = ran[p]
      BY <1>5 DEF Measured, Agrees, NoOverflow, IInv, Types
    <2>3. Sub(clock[c], tctx[p].start_ts) = run /\ run \in U64
      BY <2>1, SubExact
    <2>4. exec + run \in U64
      BY <2>1, <2>2, <2>3, Constants DEF U64
    <2>5. Add(exec, run) = exec + run
      BY <2>4, ModSmall DEF Add
    <2>6. tctx'[p].exec_runtime = Add(exec, Sub(clock[c], tctx[p].start_ts))
      BY <1>5, StoppingFacts DEF Stop
    <2>7. QED
      BY <2>2, <2>3, <2>5, <2>6
  <1>6. \A q \in Tasks \ {p} : where'[q] # "running" => Agrees(q, tctx[q].exec_runtime)'
    BY <1>1, <1>2, <1>4 DEF Measured, Agrees
  <1>7. \A q \in Tasks, b \in CPUs :
            cur'[b] = q => Agrees(q, tctx[q].exec_runtime + (clock[b] - tctx[q].start_ts))'
    BY <1>1, <1>3, <1>4 DEF Measured, Agrees
  <1>8. QED
    BY <1>1, <1>5, <1>6, <1>7 DEF Measured, Agrees

LEMMA RunMeasured ==
    ASSUME IInv, Measured, NEW c \in CPUs, NEW p \in Tasks \cup {UserSched}, Run(c, p)
    PROVE  Measured'
  <1>1. /\ cur' = [cur EXCEPT ![c] = p] /\ cur[c] = Nobody
        /\ clock' = clock /\ ran' = ran /\ moved' = moved
        /\ \A q \in Tasks \ {p} : where'[q] = where[q]
    BY DEF Run, IInv, Types
  <1>2. CASE p = UserSched
    BY <1>1, <1>2, Constants DEF Run, goland_running, IInv, Types, Measured, Agrees
  <1>3. CASE p \in Tasks
    <2>1. /\ tctx'[p].start_ts = clock[c]
          /\ tctx'[p].exec_runtime = tctx[p].exec_runtime
          /\ \A q \in Tasks \ {p} : tctx'[q] = tctx[q]
          /\ where'[p] = "running"
      BY <1>3, Constants DEF Run, goland_running, IInv, Types, TaskCtx
    <2>2. /\ tctx[p].exec_runtime <= ran[p] /\ (p \notin moved => tctx[p].exec_runtime = ran[p])
          /\ clock[c] \in Nat /\ tctx[p].exec_runtime \in Nat
      BY <1>3, Constants, ClockType DEF Run, IInv, Types, TaskCtx, U64, Measured, Agrees
    <2>3. \A b \in CPUs \ {c} : cur'[b] = cur[b] /\ cur[b] # p
      BY <1>1, <1>3, Constants DEF Run, IInv, Types, Placed
    <2>4. \A q \in Tasks, b \in CPUs :
              cur'[b] = q => Agrees(q, tctx[q].exec_runtime + (clock[b] - tctx[q].start_ts))'
      <3> SUFFICES ASSUME NEW q \in Tasks, NEW b \in CPUs, cur'[b] = q
                   PROVE  Agrees(q, tctx[q].exec_runtime + (clock[b] - tctx[q].start_ts))'
        OBVIOUS
      <3>1. CASE b = c
        <4>1. q = p /\ cur'[c] = p
          BY <3>1, <1>1 DEF IInv, Types
        <4>2. tctx'[p].exec_runtime + (clock'[c] - tctx'[p].start_ts) = tctx[p].exec_runtime
          BY <1>1, <2>1, <2>2
        <4>3. QED
          BY <3>1, <4>1, <4>2, <1>1, <2>2 DEF Agrees
      <3>2. CASE b # c
        BY <3>2, <1>1, <2>1, <2>3 DEF Measured, Agrees
      <3>3. QED
        BY <3>1, <3>2
    <2>5. QED
      BY <1>1, <2>1, <2>4 DEF Measured, Agrees
  <1>4. QED
    BY <1>2, <1>3

LEMMA NextMeasured == IInv /\ Measured /\ NoOverflow /\ [Next]_vars => Measured'
  <1> SUFFICES ASSUME IInv, Measured, NoOverflow, [Next]_vars PROVE Measured'
    OBVIOUS
  <1>1. ASSUME NEW c \in CPUs, Tick(c) PROVE Measured'
    <2>1. /\ cur' = cur /\ where' = where /\ tctx' = tctx /\ moved' = moved
          /\ clock' = [clock EXCEPT ![c] = @ + 1]
          /\ ran' = IF cur[c] \in Tasks THEN [ran EXCEPT ![cur[c]] = @ + 1] ELSE ran
      BY <1>1 DEF Tick
    <2>2. \A p \in Tasks : where[p] # "running" => cur[c] # p
      BY DEF IInv, Placed
    <2>3. \A p \in Tasks, b \in CPUs : cur[b] = p /\ cur[c] = p => b = c
      BY Constants DEF IInv, Placed
    <2>4. \A p \in Tasks : /\ ran[p] \in Nat /\ tctx[p].exec_runtime \in Nat
                           /\ tctx[p].start_ts \in Nat
      BY Constants DEF IInv, Types, TaskCtx, U64
    <2>5. \A b \in CPUs : clock[b] \in Nat
      BY Constants DEF IInv, Types
    <2>6. ASSUME NEW p \in Tasks, where[p] # "running"
          PROVE  ran'[p] = ran[p]
      BY <2>1, <2>2, <2>6 DEF IInv, Types
    <2>7. ASSUME NEW p \in Tasks, NEW b \in CPUs, cur[b] = p
          PROVE  Agrees(p, tctx[p].exec_runtime + (clock[b] - tctx[p].start_ts))'
      <3> DEFINE run == tctx[p].exec_runtime + (clock[b] - tctx[p].start_ts)
      <3>1. run <= ran[p] /\ (p \notin moved => run = ran[p]) /\ run \in Int /\ ran[p] \in Nat
        BY <2>4, <2>5, <2>7 DEF Measured, Agrees
      <3>2. CASE b = c
        <4>1. ran'[p] = ran[p] + 1 /\ clock'[b] = clock[b] + 1
          BY <3>2, <2>1, <2>7 DEF IInv, Types
        <4>2. tctx'[p].exec_runtime + (clock'[b] - tctx'[p].start_ts) = run + 1
          BY <4>1, <2>1, <2>4, <2>5
        <4> HIDE DEF run
        <4>3. QED
          BY <4>1, <4>2, <3>1, <2>1 DEF Agrees
      <3>3. CASE b # c
        <4>1. ran'[p] = ran[p] /\ clock'[b] = clock[b]
          BY <3>3, <2>1, <2>3, <2>7 DEF IInv, Types
        <4>2. QED
          BY <4>1, <3>1, <2>1 DEF Agrees
      <3>4. QED
        BY <3>2, <3>3
    <2>8. QED
      BY <2>1, <2>6, <2>7 DEF Measured, Agrees
  <1>2. ASSUME NEW p \in Tasks, Enqueue(p) PROVE Measured'
    <2>1. \A c \in CPUs : cur[c] # p
      BY <1>2 DEF Enqueue, IInv, Placed
    <2>2. /\ tctx'[p].exec_runtime = 0 /\ ran'[p] \in Nat
          /\ p \notin moved' => ran'[p] = 0
      BY <1>2 DEF Enqueue, goland_runnable, IInv, Types, TaskCtx
    <2>3. /\ cur' = cur /\ clock' = clock
          /\ \A q \in Tasks \ {p} : /\ where'[q] = where[q] /\ tctx'[q] = tctx[q] /\ ran'[q] = ran[q]
                                    /\ q \in moved' <=> q \in moved
      BY <1>2 DEF Enqueue, goland_runnable, IInv, Types
    <2>4. Agrees(p, tctx[p].exec_runtime)'
      BY <2>2 DEF Agrees
    <2>5. ASSUME NEW q \in Tasks \ {p}
          PROVE  /\ where'[q] # "running" => Agrees(q, tctx[q].exec_runtime)'
                 /\ \A c \in CPUs : cur'[c] = q =>
                      Agrees(q, tctx[q].exec_runtime + (clock[c] - tctx[q].start_ts))'
      <3>1. /\ q \in Tasks /\ where'[q] = where[q] /\ tctx'[q] = tctx[q] /\ ran'[q] = ran[q]
            /\ q \in moved' <=> q \in moved
        BY <2>3
      <3>2. where'[q] # "running" => Agrees(q, tctx[q].exec_runtime)'
        BY <3>1 DEF Measured, Agrees
      <3>3. ASSUME NEW c \in CPUs, cur'[c] = q
            PROVE  Agrees(q, tctx[q].exec_runtime + (clock[c] - tctx[q].start_ts))'
        <4>1. Agrees(q, tctx[q].exec_runtime + (clock[c] - tctx[q].start_ts))
          BY <2>3, <3>1, <3>3 DEF Measured
        <4>2. clock'[c] = clock[c]
          BY <2>3
        <4>3. QED
          BY <3>1, <4>1, <4>2 DEF Agrees
      <3>4. QED
        BY <3>2, <3>3
    <2>6. \A c \in CPUs : cur'[c] # p
      BY <2>1, <2>3
    <2>7. ASSUME NEW q \in Tasks
          PROVE  /\ where'[q] # "running" => Agrees(q, tctx[q].exec_runtime)'
                 /\ \A c \in CPUs : cur'[c] = q =>
                      Agrees(q, tctx[q].exec_runtime + (clock[c] - tctx[q].start_ts))'
      <3>1. CASE q = p
        BY <2>4, <2>6, <3>1
      <3>2. CASE q # p
        BY <2>5, <3>2
      <3>3. QED
        BY <3>1, <3>2
    <2>8. QED
      BY <2>7 DEF Measured, Agrees
  <1>3. ASSUME NEW p \in Tasks, goland_exit_task(p) PROVE Measured'
    <2>1. \A c \in CPUs : cur[c] # p
      BY <1>3 DEF goland_exit_task, IInv, Placed
    <2>2. tctx'[p].exec_runtime = 0 /\ ran'[p] = 0
      BY <1>3 DEF goland_exit_task, NewCtx, IInv, Types
    <2>3. /\ cur' = cur /\ clock' = clock
          /\ \A q \in Tasks \ {p} : /\ where'[q] = where[q] /\ tctx'[q] = tctx[q] /\ ran'[q] = ran[q]
                                    /\ q \in moved' <=> q \in moved
      BY <1>3 DEF goland_exit_task, IInv, Types
    <2>4. Agrees(p, tctx[p].exec_runtime)'
      BY <2>2 DEF Agrees
    <2>5. ASSUME NEW q \in Tasks \ {p}
          PROVE  /\ where'[q] # "running" => Agrees(q, tctx[q].exec_runtime)'
                 /\ \A c \in CPUs : cur'[c] = q =>
                      Agrees(q, tctx[q].exec_runtime + (clock[c] - tctx[q].start_ts))'
      <3>1. /\ q \in Tasks /\ where'[q] = where[q] /\ tctx'[q] = tctx[q] /\ ran'[q] = ran[q]
            /\ q \in moved' <=> q \in moved
        BY <2>3
      <3>2. where'[q] # "running" => Agrees(q, tctx[q].exec_runtime)'
        BY <3>1 DEF Measured, Agrees
      <3>3. ASSUME NEW c \in CPUs, cur'[c] = q
            PROVE  Agrees(q, tctx[q].exec_runtime + (clock[c] - tctx[q].start_ts))'
        <4>1. Agrees(q, tctx[q].exec_runtime + (clock[c] - tctx[q].start_ts))
          BY <2>3, <3>1, <3>3 DEF Measured
        <4>2. clock'[c] = clock[c]
          BY <2>3
        <4>3. QED
          BY <3>1, <4>1, <4>2 DEF Agrees
      <3>4. QED
        BY <3>2, <3>3
    <2>6. \A c \in CPUs : cur'[c] # p
      BY <2>1, <2>3
    <2>7. ASSUME NEW q \in Tasks
          PROVE  /\ where'[q] # "running" => Agrees(q, tctx[q].exec_runtime)'
                 /\ \A c \in CPUs : cur'[c] = q =>
                      Agrees(q, tctx[q].exec_runtime + (clock[c] - tctx[q].start_ts))'
      <3>1. CASE q = p
        BY <2>4, <2>6, <3>1
      <3>2. CASE q # p
        BY <2>5, <3>2
      <3>3. QED
        BY <3>1, <3>2
    <2>8. QED
      BY <2>7 DEF Measured, Agrees
  <1>4. ASSUME NEW p \in Tasks, goland_enable(p) \/ goland_init_task(p) PROVE Measured'
    BY <1>4 DEF goland_enable, goland_init_task, kernelVars, IInv, Types, Measured, Agrees
  <1>5. CASE updatedEnqueueTask
    BY <1>5 DEF updatedEnqueueTask, kernelVars, Measured, Agrees
  <1>6. ASSUME NEW i \in DOMAIN pool, dispatch_task(i) PROVE Measured'
    BY <1>6 DEF dispatch_task, kernelVars, Measured, Agrees
  <1>7. CASE UNCHANGED vars
    BY <1>7 DEF vars, Measured, Agrees
  <1>8. QED
    BY <1>1, <1>2, <1>3, <1>4, <1>5, <1>6, <1>7, StopMeasured, RunMeasured DEF Next

\* exec_runtime never exceeds the time the task ran since it last slept, summed
\* over CPUs with unrelated clocks and including the run under way, and is that
\* time unless the task's affinity was changed since: goland_runnable, which
\* the kernel calls for that as well, then starts again from 0.
THEOREM ExecRuntimeCorrect == Spec /\ []NoOverflow => []ExecRuntimeExact
  <1>1. IInv /\ Measured => ExecRuntimeExact
    <2> SUFFICES ASSUME IInv, Measured, NEW p \in Tasks
                 PROVE  Agrees(p, Measures(p))
      BY DEF ExecRuntimeExact, Agrees
    <2>1. CASE where[p] # "running"
      <3>1. Measures(p) = tctx[p].exec_runtime
        BY <2>1, Constants DEF Measures, IInv, Types, TaskCtx, U64
      <3>2. QED
        BY <2>1, <3>1 DEF Measured
    <2>2. CASE where[p] = "running"
      <3>1. \E c \in CPUs : cur[c] = p
        BY <2>2 DEF IInv, Placed
      <3> DEFINE d == CHOOSE c \in CPUs : cur[c] = p
      <3>2. d \in CPUs /\ cur[d] = p
        BY <3>1
      <3>3. Measures(p) = tctx[p].exec_runtime + (clock[d] - tctx[p].start_ts)
        BY <2>2 DEF Measures
      <3> HIDE DEF d
      <3>4. QED
        BY <3>2, <3>3 DEF Measured
    <2>3. QED
      BY <2>1, <2>2
  <1>2. QED
    BY <1>1, InitIInv, NextIInv, InitMeasured, NextMeasured, PTL DEF Spec
===============================================================================
