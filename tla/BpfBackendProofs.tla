--------------------------- MODULE BpfBackendProofs ---------------------------
(***************************************************************************)
(* TLAPS proofs about BpfBackend, for every number of tasks and CPUs, every *)
(* ring size and every affinity history.  Types, priority_tasks, the relay  *)
(* and NoStrandedTask: for all vtimes; the rest when user space never       *)
(* returns a vtime of 0 (the sample scheduler of main.go).                  *)
(***************************************************************************)
EXTENDS BpfBackend, SequenceTheorems, TLAPS

----------------------------------------------------------------------------
(***************************************************************************)
(* Type correctness, and the cleanup of priority_tasks: for all vtimes.    *)
(***************************************************************************)
\* While dispatch_task handles a record, the record is a message for a CPU of
\* the system and its task is not freed: alive, or released and still exiting.
HandlesTask ==
    \A c \in CPUs :
        /\ pc[c] \in {"insert", "map", "recheck"} =>
              /\ msg[c] \in Messages
              /\ msg[c].cpu \in CPUs
              /\ c \notin gone => state[msg[c].pid] # "dead"
        /\ pc[c] \notin {"insert", "map", "recheck"} => msg[c] = NoMsg
        /\ c \in gone => msg[c].pid \in exiting

TypeInv == TypeOK /\ HandlesTask /\ PriorityCleanedUp

\* The DSQs exist, and RL_CPU_ANY is no CPU.
LEMMA DsqFacts ==
    /\ SHARED_DSQ \in DSQs /\ SCHED_DSQ \in DSQs
    /\ \A c \in CPUs : cpu_to_dsq(c) = c /\ cpu_to_dsq(c) \in DSQs
    /\ SHARED_DSQ \notin CPUs /\ SCHED_DSQ \notin CPUs /\ RL_CPU_ANY \notin CPUs
    /\ \A m \in Masks : m \subseteq CPUs
  BY CpusAssumption DEF SHARED_DSQ, SCHED_DSQ, DSQs, CPUs, cpu_to_dsq

\* What goland_enqueue and goland_select_cpu may do with a task: a DSQ the task
\* may use, the local DSQ of a priority task, or the @queued ring.
Outcome(p, m, o) ==
    /\ o.state \in {"bpf", "dsq", "local"}
    /\ o.dsq \in DSQs
    /\ o.error \in Errors
    /\ o.queued \in Seq(Tasks)
    /\ o.queued = queued \/ o.queued = Append(queued, p)
    /\ o.state = "bpf" => o.queued = Append(queued, p)
    /\ o.state = "dsq" /\ o.dsq \in CPUs => o.dsq \in m
    /\ priority_tasks = {} => o.error = "none"

LEMMA InsertedOutcome ==
    ASSUME TypeOK, NEW p \in Tasks, NEW m \in Masks, NEW d \in DSQs,
           d \in m \/ d \notin CPUs
    PROVE  Outcome(p, m, Inserted(d))
  BY DEF Outcome, Inserted, TypeOK, Errors

LEMMA QueueToUserOutcome ==
    ASSUME TypeOK, NEW p \in Tasks, NEW m \in Masks
    PROVE  Outcome(p, m, QueueToUser(p))
  <1>1. queued \in Seq(Tasks) /\ Append(queued, p) \in Seq(Tasks)
    BY DEF TypeOK
  <1>2. QED
    BY <1>1, DsqFacts DEF Outcome, QueueToUser, Errors

LEMMA DirectOutcome ==
    ASSUME TypeOK, NEW p \in Tasks, NEW m \in Masks,
           NEW o \in try_direct_dispatch(p, m)
    PROVE  Outcome(p, m, o)
  <1>1. PICK c \in m : o = Inserted(cpu_to_dsq(c))
    BY DEF try_direct_dispatch
  <1>2. QED
    BY <1>1, DsqFacts, InsertedOutcome

LEMMA EnqueueOutcome ==
    ASSUME TypeOK, NEW p \in Tasks, NEW m \in Masks, NEW wakeup \in BOOLEAN,
           NEW o \in goland_enqueue(p, m, wakeup)
    PROVE  Outcome(p, m, o)
  <1>1. CASE p \in GoThreads
    BY <1>1, DsqFacts, InsertedOutcome DEF goland_enqueue
  <1>2. CASE p \in KTasks \ GoThreads
    <2>1. PICK c \in m : o = Inserted(cpu_to_dsq(c))
      BY <1>2 DEF goland_enqueue
    <2>2. QED
      BY <2>1, DsqFacts, InsertedOutcome
  <1>3. CASE p \notin GoThreads \cup KTasks
    <2>1. o \in try_direct_dispatch(p, m) \cup {QueueToUser(p)}
      BY <1>3 DEF goland_enqueue
    <2>2. QED
      BY <2>1, DirectOutcome, QueueToUserOutcome
  <1>4. QED
    BY <1>1, <1>2, <1>3

\* Making the slots of a task stale keeps the shape of a buffer,
LEMMA StaleShape ==
    ASSUME NEW buf \in Seq(Slots), NEW p
    PROVE  /\ Stale(buf, p) \in Seq(Slots)
           /\ Len(Stale(buf, p)) = Len(buf)
           /\ DOMAIN Stale(buf, p) = DOMAIN buf
  <1>1. \A i \in DOMAIN buf : buf[i] \in Slots
    BY ElementOfSeq
  <1>2. \A i \in DOMAIN buf : Stale(buf, p)[i] \in Slots
    BY <1>1 DEF Stale, Slots
  <1>3. DOMAIN Stale(buf, p) = 1 .. Len(buf) /\ Len(buf) \in Nat
    BY DEF Stale
  <1>4. Stale(buf, p) \in [1 .. Len(buf) -> Slots]
    BY <1>2, <1>3 DEF Stale
  <1>5. QED
    BY <1>3, <1>4

\* and everything in it but the freshness of these slots.
LEMMA StaleSlot ==
    ASSUME NEW buf \in Seq(Slots), NEW p, NEW i \in DOMAIN buf
    PROVE  /\ Stale(buf, p)[i].pid = buf[i].pid
           /\ Stale(buf, p)[i].dsq = buf[i].dsq
           /\ buf[i].pid # p => Stale(buf, p)[i] = buf[i]
           /\ buf[i].pid = p => ~Stale(buf, p)[i].fresh
  <1>1. buf[i] \in Slots
    BY ElementOfSeq
  <1>2. QED
    BY <1>1 DEF Stale, Slots

LEMMA SlotType ==
    ASSUME TypeOK, NEW c \in CPUs, NEW p \in Tasks \cup {UserSched}, NEW d \in DSQs
    PROVE  Slot(c, p, d) \in Slots
  BY DEF Slot, Slots, TypeOK

LEMMA InitTypeInv ==
    Init => TypeInv
  <1>1. SUFFICES ASSUME Init PROVE TypeInv
    OBVIOUS
  <1>2. TypeOK
    BY <1>1, DsqFacts DEF Init, TypeOK, States, PCs, Errors
  <1>3. HandlesTask /\ PriorityCleanedUp
    BY <1>1 DEF Init, HandlesTask, PriorityCleanedUp
  <1>4. QED
    BY <1>2, <1>3 DEF TypeInv

\* An insertion in ops.dispatch() adds one slot or raises an overflow.
LEMMA InsertType ==
    ASSUME TypeOK, NEW c \in CPUs, NEW p \in Tasks \cup {UserSched},
           NEW d \in DSQs, scx_bpf_dsq_insert(c, p, d)
    PROVE  dspbuf' \in [CPUs -> Seq(Slots)] /\ scx_error' \in Errors
  <1>1. Append(dspbuf[c], Slot(c, p, d)) \in Seq(Slots)
    BY SlotType, AppendProperties DEF TypeOK
  <1>2. QED
    BY <1>1 DEF scx_bpf_dsq_insert, TypeOK, Errors

\* A kernel action moves task p, which was not dead, somewhere.
LEMMA KernelTypeInv ==
    ASSUME TypeInv, NEW p \in Tasks, KernelStep(p)
    PROVE  TypeInv'
  <1> USE DEF TypeInv
  <1>0. /\ state \in [Tasks -> States] /\ dsq \in [Tasks -> DSQs]
        /\ cpus_ptr \in [Tasks -> Masks]
        /\ SHARED_DSQ \in DSQs
    BY DsqFacts DEF TypeOK
  <1>1. ASSUME NEW m \in Masks, NEW o, Outcome(p, m, o), Settle(p, o),
               cpus_ptr' \in [Tasks -> Masks], dspbuf' \in [CPUs -> Seq(Slots)],
               state[p] # "dead",
               UNCHANGED <<exiting, priority_tasks, held, dispatched, pc, msg, gone>>
        PROVE  TypeInv'
    <2>1. TypeOK'
      BY <1>0, <1>1 DEF TypeOK, Outcome, Settle, States
    <2>2. HandlesTask' /\ PriorityCleanedUp'
      BY <1>0, <1>1 DEF HandlesTask, PriorityCleanedUp, Outcome, Settle, Messages
    <2>3. QED
      BY <2>1, <2>2
  <1>2. ASSUME NEW s \in States, Move(p, s), s # "dead",
               UNCHANGED <<cpus_ptr, exiting, priority_tasks, userVars, cpuVars, scx_error>>
        PROVE  TypeInv'
    <2>1. TypeOK'
      BY <1>0, <1>2 DEF TypeOK, Move, userVars, cpuVars
    <2>2. HandlesTask' /\ PriorityCleanedUp'
      BY <1>0, <1>2 DEF HandlesTask, PriorityCleanedUp, Move, Messages, cpuVars
    <2>3. QED
      BY <2>1, <2>2
  <1>3. CASE Wakeup(p)
    <2>1. PICK o : Outcome(p, cpus_ptr[p], o) /\ Settle(p, o)
      BY <1>0, <1>3, EnqueueOutcome, DirectOutcome DEF Wakeup, goland_select_cpu
    <2>2. QED
      BY <1>0, <1>1, <1>3, <2>1 DEF Wakeup, TypeOK, cpuVars
  <1>4. CASE Run(p)
    BY <1>2, <1>4 DEF Run, States
  <1>5. CASE Stop(p)
    BY <1>2, <1>5 DEF Stop, States
  <1>6. CASE SliceEnd(p)
    <2>1. PICK o : Outcome(p, cpus_ptr[p], o) /\ Settle(p, o)
      BY <1>0, <1>6, EnqueueOutcome DEF SliceEnd
    <2>2. QED
      BY <1>0, <1>1, <1>6, <2>1 DEF SliceEnd, TypeOK, cpuVars
  <1>7. ASSUME NEW m \in Masks, SetAffinity(p, m)
        PROVE  TypeInv'
    <2>1. PICK o : Outcome(p, m, o) /\ Settle(p, o)
      BY <1>7, EnqueueOutcome DEF SetAffinity
    <2>2. dspbuf' \in [CPUs -> Seq(Slots)]
      BY <1>7, StaleShape DEF SetAffinity, StaleEverywhere, TypeOK
    <2>3. cpus_ptr' \in [Tasks -> Masks]
      BY <1>0, <1>7 DEF SetAffinity
    <2>4. QED
      BY <1>1, <1>7, <2>1, <2>2, <2>3 DEF SetAffinity
  <1>8. ASSUME NEW m \in Masks, SetAffinityInPlace(p, m)
        PROVE  TypeInv'
    <2>1. queued' \in Seq(Tasks) /\ scx_error' \in Errors
      BY <1>8, EnqueueOutcome DEF SetAffinityInPlace, Outcome, TypeOK
    <2>2. cpus_ptr' \in [Tasks -> Masks]
      BY <1>0, <1>8 DEF SetAffinityInPlace
    <2>3. TypeOK'
      BY <1>0, <1>8, <2>1, <2>2 DEF SetAffinityInPlace, TypeOK, cpuVars
    <2>4. HandlesTask' /\ PriorityCleanedUp'
      BY <1>8 DEF SetAffinityInPlace, HandlesTask, PriorityCleanedUp, cpuVars
    <2>5. QED
      BY <2>3, <2>4
  <1>9. CASE ReleaseTask(p)
    <2> DEFINE G == {c \in CPUs : msg[c].pid = p}
    <2>1. /\ state' = [state EXCEPT ![p] = "dead"] /\ dsq' = [dsq EXCEPT ![p] = SHARED_DSQ]
          /\ exiting' = exiting \cup {p} /\ gone' = gone \cup G
          /\ UNCHANGED <<cpus_ptr, priority_tasks, queued, held, dispatched, dspbuf, pc, msg, scx_error>>
      BY <1>9 DEF ReleaseTask, Move, userVars
    <2>2. \A c \in G : msg[c] # NoMsg
      BY TasksAssumption DEF NoMsg
    <2>3. gone' \subseteq {c \in CPUs : msg'[c] # NoMsg}
      BY <2>1, <2>2 DEF TypeOK
    <2>4. TypeOK'
      BY <1>0, <2>1, <2>3 DEF TypeOK, States
    <2>5. HandlesTask'
      <3>1. \A c \in CPUs : pc[c] \in {"insert", "map", "recheck"} => msg[c].pid \in Tasks
        BY DEF HandlesTask, Messages
      <3>2. QED
        BY <1>0, <2>1, <3>1 DEF HandlesTask
    <2>6. PriorityCleanedUp'
      BY <1>0, <2>1 DEF PriorityCleanedUp
    <2>7. QED
      BY <2>4, <2>5, <2>6
  <1>10. CASE goland_exit_task(p)
    <2>1. TypeOK'
      BY <1>0, <1>10 DEF goland_exit_task, userVars, cpuVars, TypeOK
    <2>2. HandlesTask'
      BY <1>10 DEF goland_exit_task, HandlesTask, cpuVars
    <2>3. PriorityCleanedUp'
      BY <1>10 DEF goland_exit_task, PriorityCleanedUp
    <2>4. QED
      BY <2>1, <2>2, <2>3
  <1>11. CASE goland_init_task(p)
    BY <1>2, <1>11 DEF goland_init_task, States
  <1>12. QED
    BY <1>3, <1>4, <1>5, <1>6, <1>7, <1>8, <1>9, <1>10, <1>11 DEF KernelStep

LEMMA UserTypeInv ==
    ASSUME TypeInv, UserStep
    PROVE  TypeInv'
  <1> USE DEF TypeInv
  <1>1. CASE UserDequeue
    <2>1. Head(queued) \in Tasks /\ Tail(queued) \in Seq(Tasks)
      BY <1>1, HeadTailProperties DEF UserDequeue, TypeOK
    <2>2. TypeOK'
      BY <1>1, <2>1 DEF UserDequeue, kernelVars, cpuVars, TypeOK
    <2>3. QED
      BY <1>1, <2>2 DEF UserDequeue, kernelVars, cpuVars, HandlesTask, PriorityCleanedUp
  <1>2. ASSUME NEW p \in Tasks, NEW cpu \in CPUs \cup {RL_CPU_ANY}, NEW vtime \in Vtimes,
               UserDispatch(p, cpu, vtime)
        PROVE  TypeInv'
    <2>1. [pid |-> p, cpu |-> cpu, vtime |-> vtime] \in Messages
      BY FlagsAssumption DEF Messages
    <2>2. dispatched' \in Seq(Messages)
      BY <1>2, <2>1, AppendProperties DEF UserDispatch, TypeOK
    <2>3. TypeOK'
      BY <1>2, <2>2 DEF UserDispatch, kernelVars, cpuVars, TypeOK
    <2>4. QED
      BY <1>2, <2>3 DEF UserDispatch, kernelVars, cpuVars, HandlesTask, PriorityCleanedUp
  <1>3. QED
    BY <1>1, <1>2 DEF UserStep

LEMMA CpuTypeInv ==
    ASSUME TypeInv, NEW c \in CPUs, CpuStep(c)
    PROVE  TypeInv'
  <1> USE DEF TypeInv, kernelVars, userVars
  <1>0. /\ pc \in [CPUs -> PCs] /\ msg \in [CPUs -> Messages \cup {NoMsg}]
        /\ \A b \in gone : b \in CPUs /\ msg[b] # NoMsg
    BY DEF TypeOK
  <1>r. ASSUME Return(c)
        PROVE  /\ gone' \subseteq {b \in CPUs : msg'[b] # NoMsg}
               /\ msg' \in [CPUs -> Messages \cup {NoMsg}] /\ pc' \in [CPUs -> PCs]
               /\ pc'[c] \in {"flush", "more"} /\ msg'[c] = NoMsg /\ c \notin gone'
    BY <1>0, <1>r DEF Return, PCs
  <1>h. ASSUME Return(c), UNCHANGED <<state, exiting>>
        PROVE  HandlesTask'
    <2>1. SUFFICES ASSUME NEW b \in CPUs
                   PROVE  /\ pc'[b] \in {"insert", "map", "recheck"} =>
                                /\ msg'[b] \in Messages
                                /\ msg'[b].cpu \in CPUs
                                /\ b \notin gone' => state'[msg'[b].pid] # "dead"
                          /\ pc'[b] \notin {"insert", "map", "recheck"} => msg'[b] = NoMsg
                          /\ b \in gone' => msg'[b].pid \in exiting'
      BY DEF HandlesTask
    <2>2. CASE b = c
      BY <1>h, <1>r, <2>2
    <2>3. CASE b # c
      <3>1. pc'[b] = pc[b] /\ msg'[b] = msg[b] /\ (b \in gone' <=> b \in gone)
        BY <1>0, <1>h, <2>3 DEF Return
      <3>2. state' = state /\ exiting' = exiting /\ HandlesTask
        BY <1>h
      <3>3. (b \notin gone' => state'[msg'[b].pid] # "dead") <=> (b \notin gone => state[msg[b].pid] # "dead")
        BY <3>1, <3>2
      <3>4. b \in gone' => msg'[b].pid \in exiting'
        BY <3>1, <3>2 DEF HandlesTask
      <3>5. pc'[b] \in {"insert", "map", "recheck"} =>
               msg'[b] \in Messages /\ msg'[b].cpu \in CPUs /\ (b \notin gone => state[msg[b].pid] # "dead")
        BY <3>1, <3>2 DEF HandlesTask
      <3>6. pc'[b] \notin {"insert", "map", "recheck"} => msg'[b] = NoMsg
        BY <3>1, <3>2 DEF HandlesTask
      <3>7. QED
        BY <3>3, <3>4, <3>5, <3>6
    <2>4. QED
      BY <2>2, <2>3
  <1>1. CASE goland_dispatch(c)
    <2>1. dspbuf' \in [CPUs -> Seq(Slots)] /\ scx_error' \in Errors
      BY <1>1, InsertType, DsqFacts DEF goland_dispatch, TypeOK
    <2>2. TypeOK'
      BY <1>1, <2>1 DEF goland_dispatch, TypeOK, PCs
    <2>3. QED
      BY <1>0, <1>1, <2>2 DEF goland_dispatch, HandlesTask, PriorityCleanedUp
  <1>2. CASE DrainEnd(c)
    <2>1. TypeOK'
      BY <1>2 DEF DrainEnd, TypeOK, PCs
    <2>2. QED
      BY <1>0, <1>2, <2>1 DEF DrainEnd, HandlesTask, PriorityCleanedUp
  <1>3. CASE dispatch_task(c)
    <2> DEFINE m == Head(dispatched)
    <2>1. m \in Messages /\ Tail(dispatched) \in Seq(Messages)
      BY <1>3, HeadTailProperties DEF dispatch_task, TypeOK
    <2>2. m.pid \in Tasks /\ m.cpu \in CPUs \cup {RL_CPU_ANY}
      BY <2>1 DEF Messages
    <2>3. CASE state[m.pid] = "dead" \/ m.cpu \notin cpus_ptr[m.pid]
      <3>1. /\ dspbuf' \in [CPUs -> Seq(Slots)] /\ scx_error' \in Errors
            /\ Return(c)
        <4>1. CASE state[m.pid] = "dead"
          BY <1>3, <4>1 DEF dispatch_task, TypeOK
        <4>2. CASE state[m.pid] # "dead" /\ m.cpu \notin cpus_ptr[m.pid]
          BY <1>3, <2>2, <4>2, InsertType, DsqFacts DEF dispatch_task
        <4>3. QED
          BY <2>3, <4>1, <4>2
      <3>2. TypeOK'
        BY <1>3, <1>r, <2>1, <3>1 DEF dispatch_task, TypeOK
      <3>3. HandlesTask' /\ PriorityCleanedUp'
        <4>1. UNCHANGED <<state, exiting, priority_tasks>>
          BY <1>3 DEF dispatch_task
        <4>2. QED
          BY <1>h, <3>1, <4>1 DEF PriorityCleanedUp
      <3>4. QED
        BY <3>2, <3>3
    <2>4. CASE state[m.pid] # "dead" /\ m.cpu \in cpus_ptr[m.pid]
      <3>1. m.cpu \in CPUs
        BY <2>2, <2>4, DsqFacts DEF TypeOK
      <3>2. m.cpu # RL_CPU_ANY
        BY <3>1, DsqFacts
      <3>3. /\ pc' = [pc EXCEPT ![c] = "insert"]
            /\ msg' = [msg EXCEPT ![c] = m]
            /\ UNCHANGED <<dspbuf, gone, scx_error, state, dsq, cpus_ptr, exiting, priority_tasks, queued, held>>
            /\ dispatched' = Tail(dispatched) /\ pc[c] \in {"drain", "more"}
        BY <1>3, <2>4, <3>2 DEF dispatch_task
      <3>g. c \notin gone
        BY <1>0, <3>3 DEF HandlesTask
      <3>4. TypeOK'
        BY <1>0, <2>1, <3>3, <3>g DEF TypeOK, PCs
      <3>5. HandlesTask' /\ PriorityCleanedUp'
        BY <1>0, <2>1, <2>4, <3>1, <3>3, <3>g DEF HandlesTask, PriorityCleanedUp
      <3>6. QED
        BY <3>4, <3>5
    <2>5. QED
      BY <2>3, <2>4
  <1>4. CASE InsertOnTarget(c)
    <2>1. msg[c] \in Messages /\ msg[c].cpu \in CPUs /\ msg[c].pid \in Tasks
      BY <1>4 DEF InsertOnTarget, HandlesTask, Messages
    <2>2. dspbuf' \in [CPUs -> Seq(Slots)] /\ scx_error' \in Errors
      BY <1>4, <2>1, InsertType, DsqFacts DEF InsertOnTarget, TypeOK
    <2>3. TypeOK'
      BY <1>4, <2>2 DEF InsertOnTarget, TypeOK, PCs
    <2>4. QED
      BY <1>0, <1>4, <2>3 DEF InsertOnTarget, HandlesTask, PriorityCleanedUp
  <1>5. CASE update_priority_task_map(c)
    <2>1. msg[c].pid \in Tasks /\ (state[msg[c].pid] # "dead" \/ msg[c].pid \in exiting)
      BY <1>5 DEF update_priority_task_map, HandlesTask, Messages
    <2>2. TypeOK'
      BY <1>5, <2>1 DEF update_priority_task_map, TypeOK, PCs
    <2>3. HandlesTask'
      BY <1>0, <1>5 DEF update_priority_task_map, HandlesTask
    <2>4. PriorityCleanedUp'
      BY <1>5, <2>1 DEF update_priority_task_map, PriorityCleanedUp
    <2>5. QED
      BY <2>2, <2>3, <2>4
  <1>6. CASE RecheckTarget(c)
    <2>1. dspbuf[c] \in Seq(Slots)
      BY DEF TypeOK
    <2>2. dspbuf[c] # <<>> => SubSeq(dspbuf[c], 1, Len(dspbuf[c]) - 1) \in Seq(Slots)
      BY <2>1, SubSeqProperties, ElementOfSeq
    <2>3. dspbuf' \in [CPUs -> Seq(Slots)] /\ scx_error' \in Errors
      BY <1>6, <2>2 DEF RecheckTarget, TypeOK, Errors
    <2>4. TypeOK'
      BY <1>6, <1>r, <2>3 DEF RecheckTarget, TypeOK
    <2>5. Return(c) /\ UNCHANGED <<state, exiting, priority_tasks>>
      BY <1>6 DEF RecheckTarget
    <2>6. QED
      BY <1>h, <2>4, <2>5 DEF PriorityCleanedUp
  <1>7. CASE Flush(c)
    <2> DEFINE s == Head(dspbuf[c])
    <2>1. dspbuf[c] \in Seq(Slots) /\ dspbuf[c] # <<>>
      BY <1>7 DEF Flush, TypeOK
    <2>2. s \in Slots /\ Tail(dspbuf[c]) \in Seq(Slots)
      BY <2>1, HeadTailProperties
    <2>3. StaleEverywhere(s.pid) \in [CPUs -> Seq(Slots)]
      BY StaleShape DEF StaleEverywhere, TypeOK
    <2>4. Tail(StaleEverywhere(s.pid)[c]) \in Seq(Slots)
      <3>1. StaleEverywhere(s.pid)[c] = Stale(dspbuf[c], s.pid)
        BY DEF StaleEverywhere
      <3>2. Stale(dspbuf[c], s.pid) # <<>> /\ Stale(dspbuf[c], s.pid) \in Seq(Slots)
        BY <2>1, StaleShape, EmptySeq, LenProperties
      <3>3. QED
        BY <3>1, <3>2, HeadTailProperties
    <2>5. dspbuf' \in [CPUs -> Seq(Slots)]
      BY <1>7, <2>2, <2>3, <2>4 DEF Flush, TypeOK
    <2>6. state' \in [Tasks -> States] /\ dsq' \in [Tasks -> DSQs]
      BY <1>7, <2>2 DEF Flush, TypeOK, States, Slots
    <2>7. TypeOK'
      BY <1>7, <2>5, <2>6 DEF Flush, TypeOK
    <2>8. \A p \in Tasks : state'[p] = "dead" => state[p] = "dead"
      BY <1>7 DEF Flush, TypeOK
    <2>9. UNCHANGED <<pc, msg, gone, exiting, priority_tasks>>
      BY <1>7 DEF Flush
    <2>10. HandlesTask' /\ PriorityCleanedUp'
      BY <2>8, <2>9 DEF HandlesTask, PriorityCleanedUp, Messages, TypeOK
    <2>11. QED
      BY <2>7, <2>10
  <1>8. CASE Consume(c)
    <2>1. \/ UNCHANGED <<state, dsq>>
          \/ \E p \in Tasks : Move(p, "local") /\ state[p] = "dsq"
      BY <1>8 DEF Consume, Takeable, OnDsq
    <2>2. /\ state' \in [Tasks -> States] /\ dsq' \in [Tasks -> DSQs]
          /\ \A p \in Tasks : state'[p] = "dead" => state[p] = "dead"
      <3>1. SHARED_DSQ \in DSQs
        BY DsqFacts
      <3>2. CASE UNCHANGED <<state, dsq>>
        BY <3>2 DEF TypeOK
      <3>3. ASSUME NEW p \in Tasks, Move(p, "local")
            PROVE  /\ state' \in [Tasks -> States] /\ dsq' \in [Tasks -> DSQs]
                   /\ \A q \in Tasks : state'[q] = "dead" => state[q] = "dead"
        BY <3>1, <3>3 DEF Move, TypeOK, States
      <3>4. QED
        BY <2>1, <3>2, <3>3
    <2>3. TypeOK'
      BY <1>8, <2>2 DEF Consume, TypeOK, PCs
    <2>4. HandlesTask' /\ PriorityCleanedUp'
      BY <1>0, <1>8, <2>2 DEF Consume, HandlesTask, PriorityCleanedUp, Messages, TypeOK
    <2>5. QED
      BY <2>3, <2>4
  <1>9. QED
    BY <1>1, <1>2, <1>3, <1>4, <1>5, <1>6, <1>7, <1>8 DEF CpuStep

LEMMA NextTypeInv ==
    TypeInv /\ [Next]_vars => TypeInv'
  <1>1. CASE Next
    BY <1>1, KernelTypeInv, UserTypeInv, CpuTypeInv DEF Next
  <1>2. CASE UNCHANGED vars
    BY <1>2 DEF vars, TypeInv, TypeOK, HandlesTask, PriorityCleanedUp
  <1>3. QED
    BY <1>1, <1>2

\* Every reachable state has the types TypeOK gives, for every number of tasks,
\* CPUs and records: dispatch_task never uses a CPU that has no DSQ.
THEOREM TypeCorrect == Spec => []TypeOK
  <1>1. TypeInv => TypeOK
    BY DEF TypeInv
  <1>2. QED
    BY <1>1, InitTypeInv, NextTypeInv, PTL DEF Spec

\* After the last goland_exit_task for a dead pid, the pid is not in priority_tasks,
\* whatever vtimes user space returns and however late: the kernel frees the pid
\* earlier, but the reference dispatch_task holds puts goland_exit_task off.
THEOREM PriorityCleanedUpCorrect == Spec => []PriorityCleanedUp
  <1>1. TypeInv => PriorityCleanedUp
    BY DEF TypeInv
  <1>2. QED
    BY <1>1, InitTypeInv, NextTypeInv, PTL DEF Spec

----------------------------------------------------------------------------
(***************************************************************************)
(* Custody, when no vtime is 0.                                            *)
(***************************************************************************)
\* No task is ever in priority_tasks, and no record will put one there.
NoPriority ==
    /\ priority_tasks = {}
    /\ \A i \in DOMAIN dispatched : dispatched[i].vtime # 0

\* The callback stops the drain after each record, and no record it handles
\* has a vtime of 0.
HandlingAt(c) ==
    /\ pc[c] # "more"
    /\ pc[c] \in {"insert", "map", "recheck"} => msg[c].vtime # 0

Handling == \A c \in CPUs : HandlingAt(c)

\* What each point of goland_dispatch knows of the CPU's dispatch buffer.
ShapeAt(c) ==
    /\ Len(dspbuf[c]) <= 2
    /\ pc[c] = "off" => dspbuf[c] = <<>>
    /\ pc[c] \in {"drain", "insert"} => Len(dspbuf[c]) <= 1
    /\ pc[c] \in {"map", "recheck"} =>
          /\ dspbuf[c] # <<>>
          /\ dspbuf[c][Len(dspbuf[c])].pid = msg[c].pid
          /\ dspbuf[c][Len(dspbuf[c])].dsq = msg[c].cpu

BufferShape == \A c \in CPUs : ShapeAt(c)

\* The last slot of CPU c's buffer is still to be tested by dispatch_task.
Untested(c, i) == pc[c] \in {"map", "recheck"} /\ i = Len(dspbuf[c])

\* A fresh slot belongs to a task in BPF custody, and targets a DSQ the task
\* may use unless dispatch_task still has to test it, which then has the task.
FreshAt(c) ==
    \A i \in DOMAIN dspbuf[c] :
        dspbuf[c][i].fresh =>
            /\ dspbuf[c][i].pid \in Tasks
            /\ state[dspbuf[c][i].pid] = "bpf"
            /\ \/ dspbuf[c][i].dsq = SHARED_DSQ
               \/ dspbuf[c][i].dsq \in cpus_ptr[dspbuf[c][i].pid]
               \/ Untested(c, i)
            /\ Untested(c, i) => c \notin gone

FreshSlots == \A c \in CPUs : FreshAt(c)

Control == NoPriority /\ Handling /\ BufferShape /\ NoScxError

\* NoLostTask is not inductive by itself: a slot may only be relied on while it
\* is fresh and no cancellation can hit it, which FreshSlots and BufferShape say.
IInv == TypeInv /\ Control /\ FreshSlots /\ NoLostTask

Tracked(p) == InPipe(p) \/ BeingInserted(p) \/ BeingFlushed(p)

LEMMA InitIInv ==
    Init => IInv
  <1>1. SUFFICES ASSUME Init PROVE IInv
    OBVIOUS
  <1>2. TypeInv
    BY <1>1, InitTypeInv
  <1>3. Control
    BY <1>1 DEF Init, Control, NoPriority, Handling, HandlingAt, BufferShape, ShapeAt, NoScxError
  <1>4. FreshSlots /\ NoLostTask
    BY <1>1 DEF Init, FreshSlots, FreshAt, NoLostTask
  <1>5. QED
    BY <1>2, <1>3, <1>4 DEF IInv

\* What a kernel action does to task p, the rings and the buffers: a task that
\* leaves BPF custody has its slots made stale, and one that enters it is queued.
KernelEffect(p, s, d, m) ==
    /\ state' = [state EXCEPT ![p] = s]
    /\ dsq' = [dsq EXCEPT ![p] = d]
    /\ cpus_ptr' = [cpus_ptr EXCEPT ![p] = m]
    /\ queued' = queued \/ queued' = Append(queued, p)
    /\ s = "bpf" => queued' = Append(queued, p)
    /\ dspbuf' = StaleEverywhere(p) \/ (dspbuf' = dspbuf /\ state[p] # "bpf")
    /\ priority_tasks' = {}
    /\ scx_error' = "none"
    /\ gone' = gone \/ gone' = gone \cup {c \in CPUs : msg[c].pid = p}
    /\ UNCHANGED <<held, dispatched, pc, msg>>

LEMMA KernelEffectHolds ==
    ASSUME IInv, NEW p \in Tasks, KernelStep(p), ~goland_exit_task(p)
    PROVE  \E s \in States, d \in DSQs, m \in Masks : KernelEffect(p, s, d, m)
  <1>0. /\ TypeOK /\ priority_tasks = {} /\ scx_error = "none"
        /\ state \in [Tasks -> States] /\ dsq \in [Tasks -> DSQs]
        /\ cpus_ptr \in [Tasks -> Masks]
        /\ SHARED_DSQ \in DSQs /\ SHARED_DSQ \notin CPUs
    BY DsqFacts DEF IInv, TypeInv, TypeOK, Control, NoPriority, NoScxError
  <1>1. ASSUME NEW m \in Masks, NEW o, Outcome(p, m, o), Settle(p, o),
               cpus_ptr' = [cpus_ptr EXCEPT ![p] = m],
               dspbuf' = StaleEverywhere(p) \/ (dspbuf' = dspbuf /\ state[p] # "bpf"),
               UNCHANGED <<priority_tasks, held, dispatched, pc, msg, gone>>
        PROVE  KernelEffect(p, o.state, o.dsq, m) /\ o.state \in States /\ o.dsq \in DSQs
    BY <1>0, <1>1 DEF Outcome, Settle, KernelEffect, States
  <1>2. ASSUME NEW s \in States \ {"bpf", "dsq"}, Move(p, s), state[p] # "bpf",
               gone' = gone \/ gone' = gone \cup {c \in CPUs : msg[c].pid = p},
               UNCHANGED <<cpus_ptr, priority_tasks, userVars, dspbuf, pc, msg, scx_error>>
        PROVE  KernelEffect(p, s, SHARED_DSQ, cpus_ptr[p])
    BY <1>0, <1>2 DEF Move, KernelEffect, userVars
  <1>3. CASE Wakeup(p)
    <2>1. PICK o : Outcome(p, cpus_ptr[p], o) /\ Settle(p, o)
      BY <1>0, <1>3, EnqueueOutcome, DirectOutcome DEF Wakeup, goland_select_cpu
    <2>2. KernelEffect(p, o.state, o.dsq, cpus_ptr[p]) /\ o.state \in States /\ o.dsq \in DSQs
      BY <1>0, <1>1, <1>3, <2>1 DEF Wakeup, cpuVars
    <2>3. QED
      BY <1>0, <2>2
  <1>4. CASE Run(p)
    BY <1>0, <1>2, <1>4 DEF Run, States, cpuVars
  <1>5. CASE Stop(p)
    BY <1>0, <1>2, <1>5 DEF Stop, States, cpuVars
  <1>6. CASE SliceEnd(p)
    <2>1. PICK o : Outcome(p, cpus_ptr[p], o) /\ Settle(p, o)
      BY <1>0, <1>6, EnqueueOutcome DEF SliceEnd
    <2>2. KernelEffect(p, o.state, o.dsq, cpus_ptr[p]) /\ o.state \in States /\ o.dsq \in DSQs
      BY <1>0, <1>1, <1>6, <2>1 DEF SliceEnd, cpuVars
    <2>3. QED
      BY <1>0, <2>2
  <1>7. ASSUME NEW m \in Masks, SetAffinity(p, m)
        PROVE  \E s \in States, d \in DSQs : KernelEffect(p, s, d, m)
    <2>1. PICK o : Outcome(p, m, o) /\ Settle(p, o)
      BY <1>0, <1>7, EnqueueOutcome DEF SetAffinity
    <2>2. KernelEffect(p, o.state, o.dsq, m) /\ o.state \in States /\ o.dsq \in DSQs
      BY <1>0, <1>1, <1>7, <2>1 DEF SetAffinity
    <2>3. QED
      BY <2>2
  <1>8. ASSUME NEW m \in Masks, SetAffinityInPlace(p, m)
        PROVE  KernelEffect(p, state[p], dsq[p], m)
    <2>1. /\ queued' = queued \/ queued' = Append(queued, p)
          /\ scx_error' = "none"
      BY <1>0, <1>8, EnqueueOutcome DEF SetAffinityInPlace, Outcome
    <2>2. QED
      BY <1>0, <1>8, <2>1 DEF SetAffinityInPlace, KernelEffect, cpuVars
  <1>9. CASE ReleaseTask(p)
    BY <1>0, <1>2, <1>9 DEF ReleaseTask, States
  <1>10. CASE goland_init_task(p)
    BY <1>0, <1>2, <1>10 DEF goland_init_task, States, cpuVars
  <1>11. QED
    BY <1>0, <1>3, <1>4, <1>5, <1>6, <1>7, <1>8, <1>9, <1>10 DEF KernelStep

LEMMA KernelIInv ==
    ASSUME IInv, NEW p \in Tasks, KernelStep(p), ~goland_exit_task(p)
    PROVE  IInv'
  <1>1. PICK s \in States, d \in DSQs, m \in Masks : KernelEffect(p, s, d, m)
    BY KernelEffectHolds
  <1>2. TypeInv /\ TypeInv' /\ TypeOK /\ TypeOK'
    BY KernelTypeInv DEF IInv, TypeInv
  <1>3. ASSUME NEW c \in CPUs
        PROVE  /\ Len(dspbuf'[c]) = Len(dspbuf[c])
               /\ DOMAIN dspbuf'[c] = DOMAIN dspbuf[c]
               /\ dspbuf[c] = <<>> <=> dspbuf'[c] = <<>>
               /\ \A i \in DOMAIN dspbuf[c] :
                     /\ dspbuf'[c][i].pid = dspbuf[c][i].pid
                     /\ dspbuf'[c][i].dsq = dspbuf[c][i].dsq
                     /\ dspbuf[c][i].pid # p => dspbuf'[c][i] = dspbuf[c][i]
                     /\ dspbuf'[c][i].fresh => dspbuf[c][i].fresh /\ dspbuf[c][i].pid # p
    <2>1. dspbuf[c] \in Seq(Slots) /\ dspbuf'[c] \in Seq(Slots)
      BY <1>2 DEF TypeOK
    <2>2. CASE dspbuf' = StaleEverywhere(p)
      <3>1. dspbuf'[c] = Stale(dspbuf[c], p)
        BY <2>2 DEF StaleEverywhere
      <3>2. Len(dspbuf'[c]) = Len(dspbuf[c]) /\ DOMAIN dspbuf'[c] = DOMAIN dspbuf[c]
        BY <2>1, <3>1, StaleShape
      <3>3. dspbuf[c] = <<>> <=> dspbuf'[c] = <<>>
        BY <2>1, <3>2, EmptySeq
      <3>4. \A i \in DOMAIN dspbuf[c] :
               /\ dspbuf'[c][i].pid = dspbuf[c][i].pid
               /\ dspbuf'[c][i].dsq = dspbuf[c][i].dsq
               /\ dspbuf[c][i].pid # p => dspbuf'[c][i] = dspbuf[c][i]
               /\ dspbuf[c][i].pid = p => ~dspbuf'[c][i].fresh
        BY <2>1, <3>1, StaleSlot
      <3>5. QED
        BY <3>2, <3>3, <3>4
    <2>3. CASE dspbuf' = dspbuf /\ state[p] # "bpf"
      BY <2>3 DEF IInv, FreshSlots, FreshAt
    <2>4. QED
      BY <1>1, <2>2, <2>3 DEF KernelEffect
  <1>4. Control'
    <2>1. NoPriority' /\ Handling' /\ NoScxError'
      BY <1>1 DEF KernelEffect, IInv, Control, NoPriority, Handling, HandlingAt, NoScxError
    <2>2. BufferShape'
      <3>1. ASSUME NEW c \in CPUs, pc[c] \in {"map", "recheck"}
            PROVE  Len(dspbuf[c]) \in DOMAIN dspbuf[c]
        <4>1. dspbuf[c] # <<>> /\ dspbuf[c] \in Seq(Slots)
          BY <1>2, <3>1 DEF IInv, Control, BufferShape, ShapeAt, TypeOK
        <4>2. QED
          BY <4>1, EmptySeq, LenProperties
      <3>2. QED
        BY <1>1, <1>3, <3>1 DEF KernelEffect, IInv, Control, BufferShape, ShapeAt
    <2>3. QED
      BY <2>1, <2>2 DEF Control
  <1>5. \A q \in Tasks \ {p} : state'[q] = state[q] /\ dsq'[q] = dsq[q] /\ cpus_ptr'[q] = cpus_ptr[q]
    BY <1>1, <1>2 DEF KernelEffect, TypeOK
  <1>g. ASSUME NEW c \in CPUs, msg[c].pid # p PROVE c \in gone' <=> c \in gone
    BY <1>1, <1>g DEF KernelEffect
  <1>6. FreshSlots'
    <2>1. SUFFICES ASSUME NEW c \in CPUs, NEW i \in DOMAIN dspbuf'[c], dspbuf'[c][i].fresh
                   PROVE  /\ dspbuf'[c][i].pid \in Tasks /\ state'[dspbuf'[c][i].pid] = "bpf"
                          /\ \/ dspbuf'[c][i].dsq = SHARED_DSQ
                             \/ dspbuf'[c][i].dsq \in cpus_ptr'[dspbuf'[c][i].pid]
                             \/ Untested(c, i)'
                          /\ Untested(c, i)' => c \notin gone'
      BY DEF FreshSlots, FreshAt
    <2>2. /\ i \in DOMAIN dspbuf[c] /\ dspbuf[c][i].fresh /\ dspbuf'[c][i] = dspbuf[c][i]
          /\ dspbuf[c][i].pid # p /\ Untested(c, i)' = Untested(c, i)
      BY <1>1, <1>3, <2>1 DEF KernelEffect, Untested
    <2>3. FreshAt(c) /\ ShapeAt(c)
      BY DEF IInv, FreshSlots, Control, BufferShape
    <2>4. Untested(c, i) => c \notin gone /\ msg[c].pid # p
      BY <2>2, <2>3 DEF FreshAt, ShapeAt, Untested
    <2>5. QED
      BY <1>5, <1>g, <2>2, <2>3, <2>4 DEF FreshAt
  <1>7. NoLostTask'
    <2>1. queued \in Seq(Tasks)
      BY <1>2 DEF TypeOK
    <2>2. \A q \in Tasks : InPipe(q) => InPipe(q)'
      BY <1>1, <2>1 DEF KernelEffect, InPipe
    <2>3. \A q \in Tasks \ {p} : BeingInserted(q) => BeingInserted(q)'
      BY <1>1, <1>5, <1>g DEF KernelEffect, BeingInserted
    <2>4. \A q \in Tasks \ {p} : BeingFlushed(q) => BeingFlushed(q)'
      BY <1>3, <1>5 DEF BeingFlushed, Delivers
    <2>5. state'[p] = "bpf" => InPipe(p)'
      <3>1. SUFFICES ASSUME state'[p] = "bpf" PROVE InPipe(p)'
        OBVIOUS
      <3>2. queued' = Append(queued, p)
        BY <1>1, <1>2, <3>1 DEF KernelEffect, TypeOK
      <3>3. QED
        BY <2>1, <3>2 DEF InPipe
    <2>6. QED
      BY <1>5, <2>2, <2>3, <2>4, <2>5 DEF IInv, NoLostTask
  <1>8. QED
    BY <1>2, <1>4, <1>6, <1>7 DEF IInv

\* The end of a released task: only priority_tasks could change, and it is empty.
LEMMA ExitIInv ==
    ASSUME IInv, NEW p \in Tasks, goland_exit_task(p)
    PROVE  IInv'
  <1>1. TypeInv'
    BY KernelTypeInv DEF IInv, KernelStep
  <1>2. /\ UNCHANGED <<state, dsq, cpus_ptr, queued, held, dispatched, dspbuf, pc, msg, gone, scx_error>>
        /\ priority_tasks' = {}
    BY DEF goland_exit_task, userVars, cpuVars, IInv, Control, NoPriority
  <1>3. Control' /\ FreshSlots'
    BY <1>2 DEF IInv, Control, NoPriority, NoScxError, Handling, HandlingAt,
         BufferShape, ShapeAt, FreshSlots, FreshAt, Untested
  <1>4. NoLostTask'
    BY <1>2 DEF IInv, NoLostTask, InPipe, BeingInserted, BeingFlushed, Delivers
  <1>5. QED
    BY <1>1, <1>3, <1>4 DEF IInv

\* Actions of user space move messages along the pipe and touch nothing else.
LEMMA UserIInv ==
    ASSUME IInv, UserStep, 0 \notin Vtimes
    PROVE  IInv'
  <1>1. TypeInv' /\ TypeOK
    BY UserTypeInv DEF IInv, TypeInv
  <1>2. UNCHANGED <<kernelVars, priority_tasks, dspbuf, pc, msg, gone, scx_error>>
    BY DEF UserStep, UserDequeue, UserDispatch, cpuVars
  <1>3. /\ Handling' /\ BufferShape' /\ NoScxError' /\ FreshSlots'
        /\ priority_tasks' = {}
    BY <1>2 DEF IInv, Control, Handling, HandlingAt, BufferShape, ShapeAt, NoScxError, FreshSlots, FreshAt, Untested,
         NoPriority, kernelVars
  <1>4. /\ \A i \in DOMAIN dispatched' : dispatched'[i].vtime # 0
        /\ \A p \in Tasks : InPipe(p) => InPipe(p)'
    <2>1. CASE UserDequeue
      <3>1. queued \in Seq(Tasks) /\ queued # <<>> /\ queued' = Tail(queued)
        BY <1>1, <2>1 DEF UserDequeue, TypeOK
      <3>2. /\ Head(queued) \in Tasks /\ dispatched' = dispatched
            /\ \A p \in Tasks : held[p] > 0 => held'[p] > 0
            /\ held'[Head(queued)] > 0
        BY <1>1, <2>1, <3>1, HeadTailProperties DEF UserDequeue, TypeOK
      <3>3. ASSUME NEW i \in DOMAIN queued, i # 1
            PROVE  i - 1 \in DOMAIN queued' /\ queued'[i - 1] = queued[i]
        BY <3>1, <3>3
      <3>4. Head(queued) = queued[1]
        BY <3>1
      <3>5. QED
        BY <3>2, <3>3, <3>4 DEF InPipe, IInv, Control, NoPriority
    <2>2. ASSUME NEW p \in Tasks, NEW cpu \in CPUs \cup {RL_CPU_ANY}, NEW vtime \in Vtimes,
                 UserDispatch(p, cpu, vtime)
          PROVE  /\ \A i \in DOMAIN dispatched' : dispatched'[i].vtime # 0
                 /\ \A q \in Tasks : InPipe(q) => InPipe(q)'
      <3> DEFINE r == [pid |-> p, cpu |-> cpu, vtime |-> vtime]
      <3>1. /\ dispatched \in Seq(Messages) /\ dispatched' = Append(dispatched, r)
            /\ queued' = queued
            /\ \A q \in Tasks \ {p} : held'[q] = held[q]
        BY <1>1, <2>2 DEF UserDispatch, TypeOK
      <3>2. r \in Messages /\ r.vtime # 0 /\ r.pid = p
        BY FlagsAssumption DEF Messages
      <3> HIDE DEF r
      <3>3. /\ DOMAIN dispatched' = 1 .. Len(dispatched) + 1
            /\ Len(dispatched) \in Nat
            /\ DOMAIN dispatched = 1 .. Len(dispatched)
            /\ \A i \in DOMAIN dispatched : dispatched'[i] = dispatched[i]
            /\ dispatched'[Len(dispatched) + 1] = r
        BY <3>1, <3>2, AppendProperties, LenProperties
      <3>4. \A i \in DOMAIN dispatched' : dispatched'[i].vtime # 0
        BY <3>2, <3>3 DEF IInv, Control, NoPriority
      <3>5. InPipe(p)'
        BY <3>2, <3>3 DEF InPipe
      <3>6. \A q \in Tasks \ {p} : InPipe(q) => InPipe(q)'
        BY <3>1, <3>3 DEF InPipe
      <3>7. QED
        BY <3>4, <3>5, <3>6
    <2>3. QED
      BY <2>1, <2>2 DEF UserStep
  <1>5. NoLostTask'
    BY <1>2, <1>4 DEF IInv, NoLostTask, BeingInserted, BeingFlushed, Delivers, kernelVars
  <1>6. QED
    BY <1>1, <1>3, <1>4, <1>5 DEF IInv, Control, NoPriority

\* With room in the buffer an insertion appends a slot and raises no error.
LEMMA InsertEffect ==
    ASSUME TypeOK, NEW c \in CPUs, NEW p \in Tasks \cup {UserSched}, NEW d \in DSQs,
           Len(dspbuf[c]) <= 1, scx_bpf_dsq_insert(c, p, d)
    PROVE  /\ scx_error' = scx_error
           /\ \A b \in CPUs \ {c} : dspbuf'[b] = dspbuf[b]
           /\ Len(dspbuf'[c]) = Len(dspbuf[c]) + 1
           /\ DOMAIN dspbuf'[c] = 1 .. Len(dspbuf[c]) + 1
           /\ \A i \in DOMAIN dspbuf[c] : dspbuf'[c][i] = dspbuf[c][i]
           /\ dspbuf'[c][Len(dspbuf[c]) + 1] = Slot(c, p, d)
  <1>1. dspbuf[c] \in Seq(Slots) /\ Slot(c, p, d) \in Slots
    BY SlotType DEF TypeOK
  <1>2. Len(dspbuf[c]) < MaxBatch
    BY <1>1, BoundsAssumption
  <1>3. /\ scx_error' = scx_error
        /\ dspbuf' = [dspbuf EXCEPT ![c] = Append(@, Slot(c, p, d))]
    BY <1>2 DEF scx_bpf_dsq_insert
  <1>4. dspbuf'[c] = Append(dspbuf[c], Slot(c, p, d)) /\ \A b \in CPUs \ {c} : dspbuf'[b] = dspbuf[b]
    BY <1>3 DEF TypeOK
  <1>5. QED
    BY <1>1, <1>3, <1>4, AppendProperties, LenProperties

\* The callback returns 1 as long as the buffer has room: the drain stops.
LEMMA ReturnEffect ==
    ASSUME NEW c \in CPUs, Return(c), dspbuf'[c] \in Seq(Slots), Len(dspbuf'[c]) <= 2
    PROVE  /\ pc' = [pc EXCEPT ![c] = "flush"] /\ msg' = [msg EXCEPT ![c] = NoMsg]
           /\ gone' = gone \ {c}
  <1>1. MaxBatch - Len(dspbuf'[c]) # 0
    BY BoundsAssumption
  <1>2. QED
    BY <1>1 DEF Return, handle_dispatched_task

LEMMA BufferFacts ==
    ASSUME TypeOK, NEW c \in CPUs
    PROVE  /\ dspbuf[c] \in Seq(Slots)
           /\ Len(dspbuf[c]) \in Nat
           /\ DOMAIN dspbuf[c] = 1 .. Len(dspbuf[c])
           /\ dspbuf[c] = <<>> <=> Len(dspbuf[c]) = 0
           /\ \A i \in DOMAIN dspbuf[c] : dspbuf[c][i] \in Slots
  <1>1. dspbuf[c] \in Seq(Slots)
    BY DEF TypeOK
  <1>2. QED
    BY <1>1, LenProperties, EmptySeq, ElementOfSeq

\* A step of CPU c inside ops.dispatch() that moves no task: what remains to be
\* shown of it is local to c's buffer and record.
LEMMA CpuFrame ==
    ASSUME IInv, TypeInv', NEW c \in CPUs,
           UNCHANGED <<kernelVars, queued, held>>,
           priority_tasks' = {}, scx_error' = "none",
           \A i \in DOMAIN dispatched' : dispatched'[i].vtime # 0,
           \A b \in CPUs \ {c} : dspbuf'[b] = dspbuf[b] /\ pc'[b] = pc[b] /\ msg'[b] = msg[b],
           gone' \in {gone, gone \ {c}},
           HandlingAt(c)', ShapeAt(c)', FreshAt(c)',
           \A p \in Tasks : state[p] = "bpf" /\ InPipe(p) => Tracked(p)',
           \A p \in Tasks : /\ pc[c] = "insert" /\ c \notin gone /\ msg[c].pid = p
                            /\ msg[c].cpu \in cpus_ptr[p] /\ state[p] = "bpf"
                            => Tracked(p)',
           \A p \in Tasks : \A i \in DOMAIN dspbuf[c] :
               Delivers(dspbuf[c][i], p) => BeingFlushed(p)'
    PROVE  IInv'
  <1>1. UNCHANGED <<state, dsq, cpus_ptr>>
    BY DEF kernelVars
  <1>2. Control'
    <2>1. NoPriority' /\ NoScxError'
      BY DEF NoPriority, NoScxError
    <2>2. \A b \in CPUs \ {c} : HandlingAt(b)' /\ ShapeAt(b)'
      BY DEF IInv, Control, Handling, HandlingAt, BufferShape, ShapeAt
    <2>3. QED
      BY <2>1, <2>2 DEF Control, Handling, BufferShape
  <1>3. FreshSlots'
    <2>1. \A b \in CPUs \ {c} : FreshAt(b)'
      BY <1>1 DEF IInv, FreshSlots, FreshAt, Untested
    <2>2. QED
      BY <2>1 DEF FreshSlots
  <1>4. NoLostTask'
    <2>1. SUFFICES ASSUME NEW p \in Tasks, state[p] = "bpf" PROVE Tracked(p)'
      BY <1>1 DEF NoLostTask, Tracked
    <2>2. CASE InPipe(p)
      BY <2>1, <2>2
    <2>3. CASE BeingInserted(p)
      <3>1. PICK b \in CPUs \ gone : pc[b] = "insert" /\ msg[b].pid = p /\ msg[b].cpu \in cpus_ptr[p]
        BY <2>3 DEF BeingInserted
      <3>2. CASE b = c
        BY <2>1, <3>1, <3>2
      <3>3. CASE b # c
        BY <1>1, <3>1, <3>3 DEF Tracked, BeingInserted
      <3>4. QED
        BY <3>2, <3>3
    <2>4. CASE BeingFlushed(p)
      <3>1. PICK b \in CPUs : \E i \in DOMAIN dspbuf[b] : Delivers(dspbuf[b][i], p)
        BY <2>4 DEF BeingFlushed
      <3>2. CASE b = c
        BY <3>1, <3>2 DEF Tracked
      <3>3. CASE b # c
        <4>1. PICK i \in DOMAIN dspbuf[b] : Delivers(dspbuf[b][i], p)
          BY <3>1
        <4>2. i \in DOMAIN dspbuf'[b] /\ dspbuf'[b][i] = dspbuf[b][i]
          BY <3>3, <4>1
        <4>3. QED
          BY <1>1, <4>1, <4>2 DEF Tracked, BeingFlushed, Delivers
      <3>4. QED
        BY <3>2, <3>3
    <2>5. QED
      BY <2>1, <2>2, <2>3, <2>4 DEF IInv, NoLostTask
  <1>5. QED
    BY <1>2, <1>3, <1>4 DEF IInv

\* ops.dispatch() up to the flush of the buffer.
LEMMA BufferingIInv ==
    ASSUME IInv, NEW c \in CPUs,
           \/ goland_dispatch(c) \/ DrainEnd(c) \/ dispatch_task(c)
           \/ InsertOnTarget(c) \/ update_priority_task_map(c) \/ RecheckTarget(c)
    PROVE  IInv'
  <1>0. /\ TypeInv /\ TypeInv' /\ TypeOK /\ TypeOK' /\ HandlesTask
        /\ pc \in [CPUs -> PCs] /\ msg \in [CPUs -> Messages \cup {NoMsg}]
        /\ dspbuf \in [CPUs -> Seq(Slots)] /\ dispatched \in Seq(Messages)
        /\ priority_tasks = {} /\ scx_error = "none"
        /\ \A i \in DOMAIN dispatched : dispatched[i].vtime # 0
        /\ HandlingAt(c) /\ ShapeAt(c) /\ FreshAt(c)
    BY CpuTypeInv DEF IInv, TypeInv, TypeOK, CpuStep, Control, NoPriority, NoScxError,
         Handling, BufferShape, FreshSlots
  <1>b. /\ dspbuf[c] \in Seq(Slots) /\ Len(dspbuf[c]) \in Nat
        /\ DOMAIN dspbuf[c] = 1 .. Len(dspbuf[c])
        /\ dspbuf[c] = <<>> <=> Len(dspbuf[c]) = 0
        /\ dspbuf'[c] \in Seq(Slots)
    BY <1>0, BufferFacts DEF TypeOK
  <1>1. CASE goland_dispatch(c)
    <2>1. /\ dspbuf[c] = <<>> /\ Len(dspbuf[c]) <= 1 /\ DOMAIN dspbuf[c] = {}
      BY <1>0, <1>1, <1>b DEF goland_dispatch, ShapeAt
    <2>2. ~Slot(c, UserSched, SCHED_DSQ).fresh
      BY TasksAssumption DEF Slot
    <2>3. \/ scx_bpf_dsq_insert(c, UserSched, SCHED_DSQ)
          \/ UNCHANGED <<dspbuf, scx_error>>
      BY <1>1 DEF goland_dispatch
    <2>4. /\ scx_error' = "none"
          /\ \A b \in CPUs \ {c} : dspbuf'[b] = dspbuf[b]
          /\ Len(dspbuf'[c]) <= 1
          /\ \A i \in DOMAIN dspbuf'[c] : ~dspbuf'[c][i].fresh
      <3>1. CASE scx_bpf_dsq_insert(c, UserSched, SCHED_DSQ)
        <4>1. /\ scx_error' = scx_error
              /\ \A b \in CPUs \ {c} : dspbuf'[b] = dspbuf[b]
              /\ Len(dspbuf'[c]) = Len(dspbuf[c]) + 1
              /\ DOMAIN dspbuf'[c] = 1 .. Len(dspbuf[c]) + 1
              /\ dspbuf'[c][Len(dspbuf[c]) + 1] = Slot(c, UserSched, SCHED_DSQ)
          <5>1. UserSched \in Tasks \cup {UserSched} /\ SCHED_DSQ \in DSQs
            BY DsqFacts
          <5>2. QED
            BY <1>0, <2>1, <3>1, <5>1, InsertEffect
        <4>2. QED
          BY <1>0, <1>b, <2>1, <2>2, <4>1
      <3>2. CASE UNCHANGED <<dspbuf, scx_error>>
        BY <1>0, <2>1, <3>2
      <3>3. QED
        BY <2>3, <3>1, <3>2
    <2>5. /\ UNCHANGED <<kernelVars, priority_tasks, queued, held, dispatched, msg, gone>>
          /\ pc' = [pc EXCEPT ![c] = "drain"] /\ pc[c] = "off"
      BY <1>1 DEF goland_dispatch, userVars
    <2>6. HandlingAt(c)' /\ ShapeAt(c)' /\ FreshAt(c)'
      BY <1>0, <2>4, <2>5 DEF HandlingAt, ShapeAt, FreshAt
    <2>7. \A p \in Tasks : InPipe(p) => Tracked(p)'
      BY <2>5 DEF InPipe, Tracked
    <2>8. QED
      BY <1>0, <2>1, <2>4, <2>5, <2>6, <2>7, CpuFrame
  <1>2. CASE DrainEnd(c)
    <2>1. /\ UNCHANGED <<kernelVars, priority_tasks, queued, held, dispatched, dspbuf, msg, gone, scx_error>>
          /\ pc' = [pc EXCEPT ![c] = "flush"] /\ pc[c] = "drain"
      BY <1>0, <1>2 DEF DrainEnd, userVars, HandlingAt
    <2>2. HandlingAt(c)' /\ ShapeAt(c)' /\ FreshAt(c)'
      BY <1>0, <2>1 DEF HandlingAt, ShapeAt, FreshAt, Untested, kernelVars
    <2>3. \A p \in Tasks : InPipe(p) => Tracked(p)'
      BY <2>1 DEF InPipe, Tracked
    <2>4. \A p \in Tasks : \A i \in DOMAIN dspbuf[c] :
             Delivers(dspbuf[c][i], p) => BeingFlushed(p)'
      BY <2>1 DEF Delivers, BeingFlushed, kernelVars
    <2>5. QED
      BY <1>0, <2>1, <2>2, <2>3, <2>4, CpuFrame
  <1>3. CASE dispatch_task(c)
    <2>0. PICK m : m = Head(dispatched)
      OBVIOUS
    <2>1. /\ dispatched # <<>> /\ dispatched' = Tail(dispatched) /\ pc[c] = "drain"
          /\ UNCHANGED <<kernelVars, priority_tasks, queued, held>>
      BY <1>0, <1>3 DEF dispatch_task, HandlingAt
    <2>2. m \in Messages /\ m = dispatched[1] /\ 1 \in DOMAIN dispatched
      BY <1>0, <2>0, <2>1, HeadTailProperties
    <2>3. /\ m.pid \in Tasks /\ m.cpu \in CPUs \cup {RL_CPU_ANY} /\ m.vtime # 0
      BY <1>0, <2>2 DEF Messages
    <2>4. \A i \in DOMAIN dispatched' :
             i + 1 \in DOMAIN dispatched /\ dispatched'[i] = dispatched[i + 1]
      BY <1>0, <2>1
    <2>5. \A i \in DOMAIN dispatched \ {1} :
             i - 1 \in DOMAIN dispatched' /\ dispatched'[i - 1] = dispatched[i]
      BY <1>0, <2>1
    <2>6. \A i \in DOMAIN dispatched' : dispatched'[i].vtime # 0
      BY <1>0, <2>4
    <2>7. \A p \in Tasks \ {m.pid} : InPipe(p) => Tracked(p)'
      BY <2>1, <2>2, <2>5 DEF InPipe, Tracked
    <2>8. Len(dspbuf[c]) <= 1 /\ c \notin gone
      BY <1>0, <2>1 DEF ShapeAt, HandlesTask, TypeOK
    <2>9. CASE state[m.pid] = "dead"
      <3>1. UNCHANGED <<dspbuf, scx_error>> /\ Return(c)
        BY <1>3, <2>0, <2>9 DEF dispatch_task
      <3>2. pc' = [pc EXCEPT ![c] = "flush"] /\ msg' = [msg EXCEPT ![c] = NoMsg] /\ gone' = gone \ {c}
        BY <1>b, <2>8, <3>1, ReturnEffect
      <3>3. HandlingAt(c)' /\ ShapeAt(c)' /\ FreshAt(c)'
        BY <1>0, <2>1, <2>8, <3>1, <3>2 DEF HandlingAt, ShapeAt, FreshAt, Untested, kernelVars
      <3>4. \A p \in Tasks : \A i \in DOMAIN dspbuf[c] :
               Delivers(dspbuf[c][i], p) => BeingFlushed(p)'
        BY <2>1, <3>1 DEF Delivers, BeingFlushed, kernelVars
      <3>5. \A p \in Tasks : state[p] = "bpf" /\ InPipe(p) => Tracked(p)'
        BY <2>7, <2>9
      <3>6. QED
        BY <1>0, <2>1, <2>6, <3>1, <3>2, <3>3, <3>4, <3>5, CpuFrame
    <2>10. CASE state[m.pid] # "dead" /\ m.cpu \notin cpus_ptr[m.pid]
      <3> DEFINE n == Len(dspbuf[c]) + 1
      <3>1. scx_bpf_dsq_insert(c, m.pid, SHARED_DSQ) /\ Return(c)
        BY <1>3, <2>0, <2>10 DEF dispatch_task
      <3>2. /\ scx_error' = scx_error
            /\ \A b \in CPUs \ {c} : dspbuf'[b] = dspbuf[b]
            /\ Len(dspbuf'[c]) = n /\ DOMAIN dspbuf'[c] = 1 .. n
            /\ \A i \in DOMAIN dspbuf[c] : dspbuf'[c][i] = dspbuf[c][i]
            /\ dspbuf'[c][n] = Slot(c, m.pid, SHARED_DSQ)
        BY <1>0, <2>3, <2>8, <3>1, InsertEffect, DsqFacts
      <3>3. pc' = [pc EXCEPT ![c] = "flush"] /\ msg' = [msg EXCEPT ![c] = NoMsg] /\ gone' = gone \ {c}
        BY <1>b, <2>8, <3>1, <3>2, ReturnEffect
      <3>4. n \in Nat /\ \A i \in 1 .. n : i = n \/ i \in DOMAIN dspbuf[c]
        BY <1>b
      <3>5. /\ Slot(c, m.pid, SHARED_DSQ).pid = m.pid
            /\ Slot(c, m.pid, SHARED_DSQ).dsq = SHARED_DSQ
            /\ Slot(c, m.pid, SHARED_DSQ).fresh <=> state[m.pid] = "bpf"
        BY <2>3, <2>8 DEF Slot
      <3>6. HandlingAt(c)' /\ ShapeAt(c)'
        BY <1>0, <1>b, <2>8, <3>2, <3>3 DEF HandlingAt, ShapeAt
      <3>7. FreshAt(c)'
        <4>1. pc'[c] = "flush" /\ pc[c] = "drain" /\ UNCHANGED <<state, cpus_ptr>>
          BY <1>0, <2>1, <3>3 DEF kernelVars
        <4>2. QED
          BY <1>0, <2>3, <3>2, <3>4, <3>5, <4>1 DEF FreshAt, Untested
      <3>8. \A p \in Tasks : \A i \in DOMAIN dspbuf[c] :
               Delivers(dspbuf[c][i], p) => BeingFlushed(p)'
        BY <1>b, <2>1, <3>2, <3>4 DEF Delivers, BeingFlushed, kernelVars
      <3>9. state[m.pid] = "bpf" => BeingFlushed(m.pid)'
        BY <3>2, <3>4, <3>5 DEF Delivers, BeingFlushed
      <3>10. \A p \in Tasks : state[p] = "bpf" /\ InPipe(p) => Tracked(p)'
        BY <2>7, <3>9 DEF Tracked
      <3>11. QED
        BY <1>0, <2>1, <2>6, <3>2, <3>3, <3>6, <3>7, <3>8, <3>10, CpuFrame
    <2>11. CASE state[m.pid] # "dead" /\ m.cpu \in cpus_ptr[m.pid]
      <3>1. m.cpu # RL_CPU_ANY
        BY <1>0, <2>3, <2>11, DsqFacts DEF TypeOK
      <3>2. /\ pc' = [pc EXCEPT ![c] = "insert"] /\ msg' = [msg EXCEPT ![c] = m]
            /\ UNCHANGED <<dspbuf, gone, scx_error>>
        BY <1>3, <2>0, <2>11, <3>1 DEF dispatch_task
      <3>3. HandlingAt(c)' /\ ShapeAt(c)' /\ FreshAt(c)'
        BY <1>0, <2>1, <2>3, <2>8, <3>2 DEF HandlingAt, ShapeAt, FreshAt, Untested, kernelVars
      <3>4. \A p \in Tasks : \A i \in DOMAIN dspbuf[c] :
               Delivers(dspbuf[c][i], p) => BeingFlushed(p)'
        BY <2>1, <3>2 DEF Delivers, BeingFlushed, kernelVars
      <3>5. BeingInserted(m.pid)'
        BY <1>0, <2>1, <2>8, <2>11, <3>2 DEF BeingInserted, kernelVars
      <3>6. \A p \in Tasks : state[p] = "bpf" /\ InPipe(p) => Tracked(p)'
        BY <2>7, <3>5 DEF Tracked
      <3>7. QED
        BY <1>0, <2>1, <2>6, <3>2, <3>3, <3>4, <3>6, CpuFrame
    <2>12. QED
      BY <2>9, <2>10, <2>11
  <1>4. CASE InsertOnTarget(c)
    <2> DEFINE n == Len(dspbuf[c]) + 1
               p0 == msg[c].pid
    <2>1. /\ pc[c] = "insert" /\ pc' = [pc EXCEPT ![c] = "map"]
          /\ UNCHANGED <<kernelVars, priority_tasks, queued, held, dispatched, msg, gone>>
          /\ msg[c] \in Messages /\ msg[c].cpu \in CPUs /\ p0 \in Tasks
          /\ msg[c].vtime # 0 /\ Len(dspbuf[c]) <= 1
      BY <1>0, <1>4 DEF InsertOnTarget, userVars, HandlesTask, HandlingAt, ShapeAt, Messages
    <2>2. scx_bpf_dsq_insert(c, p0, msg[c].cpu) /\ msg[c].cpu \in DSQs
      BY <1>4, <2>1, DsqFacts DEF InsertOnTarget
    <2>3. /\ scx_error' = scx_error
          /\ \A b \in CPUs \ {c} : dspbuf'[b] = dspbuf[b]
          /\ Len(dspbuf'[c]) = n /\ DOMAIN dspbuf'[c] = 1 .. n
          /\ \A i \in DOMAIN dspbuf[c] : dspbuf'[c][i] = dspbuf[c][i]
          /\ dspbuf'[c][n] = Slot(c, p0, msg[c].cpu)
      BY <1>0, <2>1, <2>2, InsertEffect
    <2>4. n \in Nat /\ \A i \in 1 .. n : i = n \/ i \in DOMAIN dspbuf[c]
      BY <1>b
    <2>5. /\ Slot(c, p0, msg[c].cpu).pid = p0
          /\ Slot(c, p0, msg[c].cpu).dsq = msg[c].cpu
          /\ Slot(c, p0, msg[c].cpu).fresh <=> state[p0] = "bpf" /\ c \notin gone
      BY <2>1 DEF Slot
    <2>6. HandlingAt(c)'
      BY <1>0, <2>1 DEF HandlingAt
    <2>7. ShapeAt(c)'
      <3>1. dspbuf'[c] # <<>>
        BY <1>b, <2>3, EmptySeq
      <3>2. QED
        BY <1>0, <1>b, <2>1, <2>3, <2>5, <3>1 DEF ShapeAt
    <2>8. FreshAt(c)'
      BY <1>0, <2>1, <2>3, <2>4, <2>5 DEF FreshAt, Untested, kernelVars
    <2>9. \A p \in Tasks : \A i \in DOMAIN dspbuf[c] :
             Delivers(dspbuf[c][i], p) => BeingFlushed(p)'
      BY <1>b, <2>1, <2>3, <2>4 DEF Delivers, BeingFlushed, kernelVars
    <2>10. c \notin gone /\ msg[c].cpu \in cpus_ptr[p0] /\ state[p0] = "bpf" => BeingFlushed(p0)'
      BY <1>b, <2>1, <2>3, <2>5 DEF Delivers, BeingFlushed, kernelVars
    <2>11. \A p \in Tasks : InPipe(p) => Tracked(p)'
      BY <2>1 DEF InPipe, Tracked
    <2>12. QED
      BY <1>0, <2>1, <2>3, <2>6, <2>7, <2>8, <2>9, <2>10, <2>11, CpuFrame DEF Tracked
  <1>5. CASE update_priority_task_map(c)
    <2>1. /\ UNCHANGED <<kernelVars, queued, held, dispatched, dspbuf, msg, gone, scx_error>>
          /\ priority_tasks' = {}
          /\ pc' = [pc EXCEPT ![c] = "recheck"] /\ pc[c] = "map"
      BY <1>0, <1>5 DEF update_priority_task_map, userVars, HandlingAt
    <2>2. HandlingAt(c)' /\ ShapeAt(c)' /\ FreshAt(c)'
      BY <1>0, <2>1 DEF HandlingAt, ShapeAt, FreshAt, Untested, kernelVars
    <2>3. \A p \in Tasks : InPipe(p) => Tracked(p)'
      BY <2>1 DEF InPipe, Tracked
    <2>4. \A p \in Tasks : \A i \in DOMAIN dspbuf[c] :
             Delivers(dspbuf[c][i], p) => BeingFlushed(p)'
      BY <2>1 DEF Delivers, BeingFlushed, kernelVars
    <2>5. QED
      BY <1>0, <2>1, <2>2, <2>3, <2>4, CpuFrame
  <1>6. CASE RecheckTarget(c)
    <2> DEFINE n == Len(dspbuf[c])
    <2>1. /\ pc[c] = "recheck"
          /\ UNCHANGED <<kernelVars, priority_tasks, queued, held, dispatched>>
          /\ Return(c)
          /\ msg[c] \in Messages /\ msg[c].cpu \in CPUs
          /\ n <= 2 /\ dspbuf[c] # <<>> /\ n \in DOMAIN dspbuf[c]
          /\ dspbuf[c][n].pid = msg[c].pid /\ dspbuf[c][n].dsq = msg[c].cpu
      BY <1>0, <1>6, <1>b DEF RecheckTarget, userVars, HandlesTask, ShapeAt
    <2>2. \A p \in Tasks : InPipe(p) => Tracked(p)'
      BY <2>1 DEF InPipe, Tracked
    <2>f. c \in gone => ~dspbuf[c][n].fresh
      BY <1>0, <2>1 DEF FreshAt, Untested
    <2>3. CASE (c \in gone \/ msg[c].cpu \in cpus_ptr[msg[c].pid]) /\ UNCHANGED <<dspbuf, scx_error>>
      <3>1. UNCHANGED <<dspbuf, scx_error>>
        BY <2>3
      <3>2. pc' = [pc EXCEPT ![c] = "flush"] /\ msg' = [msg EXCEPT ![c] = NoMsg] /\ gone' = gone \ {c}
        BY <1>b, <2>1, <3>1, ReturnEffect
      <3>3. HandlingAt(c)' /\ ShapeAt(c)'
        BY <1>0, <2>1, <3>1, <3>2 DEF HandlingAt, ShapeAt
      <3>4. FreshAt(c)'
        BY <1>0, <2>1, <2>3, <2>f, <3>1, <3>2 DEF FreshAt, Untested, kernelVars
      <3>5. \A p \in Tasks : \A i \in DOMAIN dspbuf[c] :
               Delivers(dspbuf[c][i], p) => BeingFlushed(p)'
        BY <2>1, <3>1 DEF Delivers, BeingFlushed, kernelVars
      <3>6. QED
        BY <1>0, <2>1, <2>2, <3>1, <3>2, <3>3, <3>4, <3>5, CpuFrame
    <2>4. CASE /\ c \in gone \/ msg[c].cpu \notin cpus_ptr[msg[c].pid]
               /\ dspbuf' = [dspbuf EXCEPT ![c] = SubSeq(@, 1, n - 1)] /\ scx_error' = scx_error
      <3>1. dspbuf' = [dspbuf EXCEPT ![c] = SubSeq(@, 1, n - 1)] /\ scx_error' = scx_error
        BY <2>4
      <3>2. dspbuf'[c] = SubSeq(dspbuf[c], 1, n - 1) /\ \A b \in CPUs \ {c} : dspbuf'[b] = dspbuf[b]
        BY <1>0, <3>1
      <3>3. /\ Len(dspbuf'[c]) = n - 1 /\ DOMAIN dspbuf'[c] = 1 .. n - 1
            /\ \A i \in 1 .. n - 1 : dspbuf'[c][i] = dspbuf[c][i] /\ i \in DOMAIN dspbuf[c]
        BY <1>b, <2>1, <3>2
      <3>4. pc' = [pc EXCEPT ![c] = "flush"] /\ msg' = [msg EXCEPT ![c] = NoMsg] /\ gone' = gone \ {c}
        BY <1>b, <2>1, <3>3, ReturnEffect
      <3>5. HandlingAt(c)' /\ ShapeAt(c)'
        <4>1. pc'[c] = "flush"
          BY <1>0, <3>4
        <4>2. Len(dspbuf'[c]) <= 2
          BY <1>b, <2>1, <3>3
        <4>3. QED
          BY <4>1, <4>2 DEF HandlingAt, ShapeAt
      <3>6. FreshAt(c)'
        <4>1. UNCHANGED <<state, cpus_ptr>> /\ pc'[c] = "flush"
          BY <1>0, <2>1, <3>4 DEF kernelVars
        <4>2. \A i \in DOMAIN dspbuf'[c] : i \in DOMAIN dspbuf[c] /\ i # n /\ dspbuf'[c][i] = dspbuf[c][i]
          BY <1>b, <3>3
        <4>3. QED
          BY <1>0, <4>1, <4>2 DEF FreshAt, Untested
      <3>7. ASSUME NEW p \in Tasks, NEW i \in DOMAIN dspbuf[c], Delivers(dspbuf[c][i], p)
            PROVE  BeingFlushed(p)'
        <4>1. i # n
          BY <2>1, <2>4, <2>f, <3>7, DsqFacts DEF Delivers
        <4>2. i \in DOMAIN dspbuf'[c] /\ dspbuf'[c][i] = dspbuf[c][i]
          BY <1>b, <3>3, <4>1
        <4>3. QED
          BY <2>1, <3>7, <4>2 DEF Delivers, BeingFlushed, kernelVars
      <3>8. QED
        BY <1>0, <2>1, <2>2, <3>1, <3>2, <3>4, <3>5, <3>6, <3>7, CpuFrame
    <2>5. QED
      BY <1>6, <2>1, <2>3, <2>4 DEF RecheckTarget
  <1>7. QED
    BY <1>1, <1>2, <1>3, <1>4, <1>5, <1>6

\* Dropping the first slot of a buffer.
LEMMA TailBuffer ==
    ASSUME NEW buf \in Seq(Slots), buf # <<>>
    PROVE  /\ Len(Tail(buf)) = Len(buf) - 1 /\ Len(buf) \in Nat
           /\ \A i \in DOMAIN Tail(buf) : i + 1 \in DOMAIN buf /\ Tail(buf)[i] = buf[i + 1]
           /\ \A i \in DOMAIN buf \ {1} : i - 1 \in DOMAIN Tail(buf) /\ Tail(buf)[i - 1] = buf[i]
           /\ 1 \in DOMAIN buf /\ Head(buf) = buf[1]
  OBVIOUS

LEMMA FlushIInv ==
    ASSUME IInv, NEW c \in CPUs, Flush(c)
    PROVE  IInv'
  <1>0. /\ TypeInv /\ TypeInv' /\ TypeOK /\ TypeOK'
        /\ pc[c] = "flush" /\ dspbuf[c] # <<>> /\ dspbuf[c] \in Seq(Slots)
        /\ dspbuf \in [CPUs -> Seq(Slots)]
        /\ UNCHANGED <<cpus_ptr, exiting, priority_tasks, queued, held, dispatched, pc, msg, gone, scx_error>>
        /\ priority_tasks = {} /\ scx_error = "none"
        /\ \A i \in DOMAIN dispatched : dispatched[i].vtime # 0
        /\ HandlingAt(c) /\ ShapeAt(c) /\ FreshAt(c)
    BY CpuTypeInv DEF Flush, userVars, IInv, TypeInv, TypeOK, CpuStep, Control, NoPriority,
         NoScxError, Handling, BufferShape, FreshSlots
  <1>1. PICK s : s = Head(dspbuf[c])
    OBVIOUS
  <1>2. s = dspbuf[c][1] /\ 1 \in DOMAIN dspbuf[c] /\ s \in Slots
    BY <1>0, <1>1, TailBuffer, ElementOfSeq
  <1>3. \A p \in Tasks : InPipe(p) => InPipe(p)'
    BY <1>0 DEF InPipe
  <1>4. CASE ~s.fresh
    <2>1. dspbuf' = [dspbuf EXCEPT ![c] = Tail(@)] /\ UNCHANGED <<state, dsq>>
      BY <1>1, <1>4 DEF Flush
    <2>2. dspbuf'[c] = Tail(dspbuf[c]) /\ \A b \in CPUs \ {c} : dspbuf'[b] = dspbuf[b]
      BY <1>0, <2>1
    <2>3. HandlingAt(c)' /\ ShapeAt(c)'
      BY <1>0, <2>2, TailBuffer DEF HandlingAt, ShapeAt
    <2>4. FreshAt(c)'
      BY <1>0, <2>1, <2>2, TailBuffer DEF FreshAt, Untested
    <2>5. ASSUME NEW p \in Tasks, NEW i \in DOMAIN dspbuf[c], Delivers(dspbuf[c][i], p)
          PROVE  BeingFlushed(p)'
      <3>1. i # 1
        BY <1>2, <1>4, <2>5 DEF Delivers
      <3>2. i - 1 \in DOMAIN dspbuf'[c] /\ dspbuf'[c][i - 1] = dspbuf[c][i]
        BY <1>0, <2>2, <3>1, TailBuffer
      <3>3. QED
        BY <1>0, <2>5, <3>2 DEF Delivers, BeingFlushed
    <2>6. QED
      BY <1>0, <1>3, <2>1, <2>2, <2>3, <2>4, <2>5, CpuFrame DEF kernelVars, Tracked
  <1>5. CASE s.fresh
    <2>1. /\ s.pid \in Tasks /\ state[s.pid] = "bpf"
          /\ s.dsq = SHARED_DSQ \/ s.dsq \in cpus_ptr[s.pid]
      BY <1>0, <1>2, <1>5 DEF FreshAt, Untested
    <2>2. /\ state' = [state EXCEPT ![s.pid] = "dsq"]
          /\ dsq' = [dsq EXCEPT ![s.pid] = s.dsq]
          /\ dspbuf' = [StaleEverywhere(s.pid) EXCEPT ![c] = Tail(@)]
      BY <1>1, <1>5 DEF Flush
    <2>3. /\ \A b \in CPUs \ {c} : dspbuf'[b] = Stale(dspbuf[b], s.pid)
          /\ dspbuf'[c] = Tail(Stale(dspbuf[c], s.pid))
      BY <2>2 DEF StaleEverywhere
    <2>4. /\ state'[s.pid] = "dsq" /\ dsq'[s.pid] = s.dsq
          /\ \A q \in Tasks \ {s.pid} : state'[q] = state[q] /\ dsq'[q] = dsq[q]
      BY <1>0, <2>1, <2>2 DEF TypeOK
    <2>5. /\ Stale(dspbuf[c], s.pid) \in Seq(Slots) /\ Stale(dspbuf[c], s.pid) # <<>>
          /\ Len(Stale(dspbuf[c], s.pid)) = Len(dspbuf[c])
          /\ DOMAIN Stale(dspbuf[c], s.pid) = DOMAIN dspbuf[c]
      BY <1>0, StaleShape, EmptySeq
    <2>6. Control'
      <3>1. NoPriority' /\ NoScxError' /\ Handling'
        BY <1>0 DEF IInv, Control, NoPriority, NoScxError, Handling, HandlingAt
      <3>2. ShapeAt(c)'
        BY <1>0, <2>3, <2>5, TailBuffer DEF ShapeAt
      <3>3. ASSUME NEW b \in CPUs \ {c} PROVE ShapeAt(b)'
        <4>1. /\ dspbuf[b] \in Seq(Slots) /\ Len(dspbuf[b]) \in Nat
              /\ DOMAIN dspbuf[b] = 1 .. Len(dspbuf[b])
              /\ dspbuf[b] = <<>> <=> Len(dspbuf[b]) = 0
          BY <1>0, BufferFacts
        <4>2. /\ Len(dspbuf'[b]) = Len(dspbuf[b])
              /\ dspbuf'[b] = <<>> <=> dspbuf[b] = <<>>
          BY <2>3, <4>1, StaleShape, EmptySeq
        <4>3. \A i \in DOMAIN dspbuf[b] :
                 dspbuf'[b][i].pid = dspbuf[b][i].pid /\ dspbuf'[b][i].dsq = dspbuf[b][i].dsq
          BY <2>3, <4>1, StaleSlot
        <4>4. ShapeAt(b)
          BY DEF IInv, Control, BufferShape
        <4>5. QED
          BY <1>0, <4>1, <4>2, <4>3, <4>4 DEF ShapeAt
      <3>4. QED
        BY <3>1, <3>2, <3>3 DEF Control, BufferShape
    <2>7. FreshSlots'
      <3>1. FreshAt(c)'
        <4>1. ASSUME NEW i \in DOMAIN dspbuf'[c], dspbuf'[c][i].fresh
              PROVE  /\ i + 1 \in DOMAIN dspbuf[c]
                     /\ dspbuf'[c][i] = dspbuf[c][i + 1] /\ dspbuf[c][i + 1].pid # s.pid
          <5>1. /\ i + 1 \in DOMAIN dspbuf[c]
                /\ dspbuf'[c][i] = Stale(dspbuf[c], s.pid)[i + 1]
            BY <2>3, <2>5, TailBuffer
          <5>2. QED
            BY <1>0, <4>1, <5>1, StaleSlot
        <4>2. UNCHANGED <<cpus_ptr, pc, gone>> /\ pc[c] = "flush" /\ FreshAt(c)
          BY <1>0
        <4>3. QED
          BY <2>4, <4>1, <4>2 DEF FreshAt, Untested
      <3>2. ASSUME NEW b \in CPUs \ {c} PROVE FreshAt(b)'
        <4>1. dspbuf[b] \in Seq(Slots)
          BY <1>0
        <4>2. ASSUME NEW i \in DOMAIN dspbuf'[b], dspbuf'[b][i].fresh
              PROVE  /\ i \in DOMAIN dspbuf[b]
                     /\ dspbuf'[b][i] = dspbuf[b][i] /\ dspbuf[b][i].pid # s.pid
          BY <2>3, <4>1, <4>2, StaleShape, StaleSlot
        <4>3. Len(dspbuf'[b]) = Len(dspbuf[b])
          BY <2>3, <4>1, StaleShape
        <4>4. FreshAt(b)
          BY DEF IInv, FreshSlots
        <4>5. UNCHANGED <<cpus_ptr, pc, gone>>
          BY <1>0
        <4>6. QED
          BY <2>4, <4>2, <4>3, <4>4, <4>5 DEF FreshAt, Untested
      <3>3. QED
        BY <3>1, <3>2 DEF FreshSlots
    <2>8. NoLostTask'
      <3>1. \A q \in Tasks : BeingInserted(q) => BeingInserted(q)'
        BY <1>0 DEF BeingInserted
      <3>2. ASSUME NEW q \in Tasks \ {s.pid}, BeingFlushed(q) PROVE BeingFlushed(q)'
        <4>1. PICK b \in CPUs : \E i \in DOMAIN dspbuf[b] : Delivers(dspbuf[b][i], q)
          BY <3>2 DEF BeingFlushed
        <4>2. PICK i \in DOMAIN dspbuf[b] : Delivers(dspbuf[b][i], q)
          BY <4>1
        <4>3. dspbuf[b] \in Seq(Slots) /\ dspbuf[b][i].pid = q
          BY <1>0, <4>2 DEF Delivers
        <4>4. Stale(dspbuf[b], s.pid)[i] = dspbuf[b][i] /\ i \in DOMAIN Stale(dspbuf[b], s.pid)
          BY <4>3, StaleSlot, StaleShape
        <4>5. CASE b # c
          BY <1>0, <2>3, <4>2, <4>4, <4>5 DEF Delivers, BeingFlushed
        <4>6. CASE b = c
          <5>1. i # 1
            BY <1>2, <4>3, <4>6
          <5>2. i - 1 \in DOMAIN dspbuf'[c] /\ dspbuf'[c][i - 1] = dspbuf[c][i]
            BY <2>3, <2>5, <4>4, <4>6, <5>1, TailBuffer
          <5>3. QED
            BY <1>0, <4>2, <4>6, <5>2 DEF Delivers, BeingFlushed
        <4>7. QED
          BY <4>5, <4>6
      <3>3. QED
        BY <1>3, <2>4, <3>1, <3>2 DEF IInv, NoLostTask
    <2>9. QED
      BY <1>0, <2>6, <2>7, <2>8 DEF IInv
  <1>6. QED
    BY <1>4, <1>5

LEMMA ConsumeIInv ==
    ASSUME IInv, NEW c \in CPUs, Consume(c)
    PROVE  IInv'
  <1>1. /\ TypeInv' /\ TypeOK /\ pc \in [CPUs -> PCs]
        /\ pc' = [pc EXCEPT ![c] = "off"] /\ pc[c] = "flush" /\ dspbuf[c] = <<>>
        /\ UNCHANGED <<cpus_ptr, priority_tasks, queued, held, dispatched, dspbuf, msg, gone, scx_error>>
    BY CpuTypeInv DEF IInv, TypeInv, TypeOK, CpuStep, Consume, userVars
  <1>2. \/ UNCHANGED <<state, dsq>>
        \/ \E p \in Tasks : Move(p, "local") /\ state[p] = "dsq"
    BY DEF Consume, Takeable, OnDsq
  <1>3. \A q \in Tasks : \/ state'[q] = state[q] /\ dsq'[q] = dsq[q]
                         \/ state[q] = "dsq" /\ state'[q] = "local"
    BY <1>1, <1>2 DEF Move, TypeOK
  <1>4. Control'
    BY <1>1 DEF IInv, Control, NoPriority, NoScxError, Handling, HandlingAt, BufferShape, ShapeAt
  <1>5. FreshSlots'
    <2>1. \A b \in CPUs : pc'[b] \in {"map", "recheck"} <=> pc[b] \in {"map", "recheck"}
      BY <1>1
    <2>2. \A q \in Tasks : state[q] = "bpf" => state'[q] = "bpf"
      BY <1>3
    <2>3. QED
      BY <1>1, <2>1, <2>2 DEF IInv, FreshSlots, FreshAt, Untested
  <1>6. NoLostTask'
    <2>1. \A q \in Tasks : BeingInserted(q) => BeingInserted(q)'
      BY <1>1 DEF BeingInserted
    <2>2. \A q \in Tasks : /\ InPipe(q) => InPipe(q)'
                           /\ BeingFlushed(q) => BeingFlushed(q)'
      BY <1>1 DEF InPipe, BeingFlushed, Delivers
    <2>3. QED
      BY <1>3, <2>1, <2>2 DEF IInv, NoLostTask
  <1>7. QED
    BY <1>1, <1>4, <1>5, <1>6 DEF IInv

LEMMA NextIInv ==
    ASSUME 0 \notin Vtimes
    PROVE  IInv /\ [Next]_vars => IInv'
  <1>1. SUFFICES ASSUME IInv, [Next]_vars PROVE IInv'
    OBVIOUS
  <1>2. CASE Next
    BY <1>1, <1>2, KernelIInv, ExitIInv, UserIInv, BufferingIInv, FlushIInv, ConsumeIInv DEF Next, CpuStep
  <1>3. CASE UNCHANGED vars
    <2>1. TypeInv'
      BY <1>1, <1>3, NextTypeInv DEF IInv
    <2>2. Control' /\ FreshSlots'
      BY <1>1, <1>3 DEF vars, IInv, Control, NoPriority, NoScxError, Handling, HandlingAt,
           BufferShape, ShapeAt, FreshSlots, FreshAt, Untested
    <2>3. NoLostTask'
      BY <1>1, <1>3 DEF vars, IInv, NoLostTask, InPipe, BeingInserted,
           BeingFlushed, Delivers
    <2>4. QED
      BY <2>1, <2>2, <2>3 DEF IInv
  <1>4. QED
    BY <1>1, <1>2, <1>3

LEMMA CancelFromIInv ==
    IInv => CancelsOwnSlot
  BY DEF IInv, Control, BufferShape, ShapeAt, CancelsOwnSlot

\* Without vtime 0, no task handed to goland_enqueue is ever forgotten between
\* @queued, user space, @dispatched, dispatch_task and the dispatch buffers,
\* whatever affinity changes, exits and pid reuse happen meanwhile.
THEOREM NoLostTaskCorrect ==
    ASSUME 0 \notin Vtimes
    PROVE  Spec => []NoLostTask
  <1>1. IInv => NoLostTask
    BY DEF IInv
  <1>2. IInv /\ [Next]_vars => IInv'
    BY NextIInv
  <1>3. QED
    BY <1>1, <1>2, InitIInv, PTL DEF Spec

\* scx_bpf_dispatch_cancel always hits the slot of the task being handled.
THEOREM CancelCorrect ==
    ASSUME 0 \notin Vtimes
    PROVE  Spec => []CancelsOwnSlot
  <1>1. IInv => CancelsOwnSlot
    BY CancelFromIInv
  <1>2. IInv /\ [Next]_vars => IInv'
    BY NextIInv
  <1>3. QED
    BY <1>1, <1>2, InitIInv, PTL DEF Spec

\* The callbacks never break a rule of the kernel that ejects the scheduler.
THEOREM NoScxErrorCorrect ==
    ASSUME 0 \notin Vtimes
    PROVE  Spec => []NoScxError
  <1>1. IInv => NoScxError
    BY DEF IInv, Control
  <1>2. IInv /\ [Next]_vars => IInv'
    BY NextIInv
  <1>3. QED
    BY <1>1, <1>2, InitIInv, PTL DEF Spec

----------------------------------------------------------------------------
(***************************************************************************)
(* The BPF half uses user space as a relay.                                *)
(***************************************************************************)
PidsOf(s) == [i \in DOMAIN s |-> s[i].pid]

LEMMA PidsOfType ==
    ASSUME NEW s \in Seq(Messages)
    PROVE  /\ PidsOf(s) \in Seq(Tasks) /\ Len(PidsOf(s)) = Len(s)
           /\ \A i \in 1 .. Len(s) : PidsOf(s)[i] = s[i].pid
  <1>1. DOMAIN s = 1 .. Len(s) /\ Len(s) \in Nat
    BY LenProperties
  <1>2. ASSUME NEW i \in 1 .. Len(s) PROVE s[i].pid \in Tasks
    <2>1. s[i] \in Messages
      BY <1>1, ElementOfSeq
    <2>2. QED
      BY <2>1 DEF Messages
  <1>3. PidsOf(s) \in [1 .. Len(s) -> Tasks]
    BY <1>1, <1>2 DEF PidsOf
  <1>4. QED
    BY <1>1, <1>3 DEF PidsOf

LEMMA PidsOfAppend ==
    ASSUME NEW s \in Seq(Messages), NEW m \in Messages
    PROVE  PidsOf(Append(s, m)) = Append(PidsOf(s), m.pid)
  <1> DEFINE t == Append(s, m)
             u == Append(PidsOf(s), m.pid)
  <1>1. /\ t \in Seq(Messages) /\ Len(t) = Len(s) + 1 /\ t[Len(s) + 1] = m
        /\ \A i \in 1 .. Len(s) : t[i] = s[i]
    BY AppendProperties
  <1>2. PidsOf(s) \in Seq(Tasks) /\ Len(PidsOf(s)) = Len(s) /\ m.pid \in Tasks /\ Len(s) \in Nat
    BY PidsOfType, LenProperties DEF Messages
  <1>3. /\ u \in Seq(Tasks) /\ Len(u) = Len(s) + 1 /\ u[Len(s) + 1] = m.pid
        /\ \A i \in 1 .. Len(s) : u[i] = PidsOf(s)[i]
    BY <1>2, AppendProperties
  <1>4. \A i \in 1 .. Len(s) : PidsOf(s)[i] = s[i].pid
    BY PidsOfType
  <1> HIDE DEF t, u
  <1>5. /\ PidsOf(t) \in Seq(Tasks) /\ Len(PidsOf(t)) = Len(s) + 1
        /\ \A i \in 1 .. Len(s) + 1 : PidsOf(t)[i] = t[i].pid
    BY <1>1, PidsOfType
  <1>6. \A i \in 1 .. Len(s) + 1 : PidsOf(t)[i] = u[i]
    BY <1>1, <1>2, <1>3, <1>4, <1>5
  <1>7. PidsOf(t) = u
    BY <1>3, <1>5, <1>6, SeqEqual
  <1>8. QED
    BY <1>7 DEF t, u

LEMMA PidsOfTail ==
    ASSUME NEW s \in Seq(Messages), s # <<>>
    PROVE  PidsOf(Tail(s)) = Tail(PidsOf(s)) /\ PidsOf(s) # <<>>
  <1> DEFINE t == Tail(s)
             r == PidsOf(s)
             u == Tail(r)
  <1>1. /\ t \in Seq(Messages) /\ Len(s) \in Nat \ {0} /\ Len(t) = Len(s) - 1
        /\ \A i \in 1 .. Len(t) : t[i] = s[i + 1]
    BY HeadTailProperties, LenProperties, EmptySeq
  <1>2. r \in Seq(Tasks) /\ Len(r) = Len(s) /\ \A i \in 1 .. Len(s) : r[i] = s[i].pid
    BY PidsOfType
  <1> HIDE DEF r
  <1>3. r # <<>>
    BY <1>1, <1>2, EmptySeq
  <1>4. u \in Seq(Tasks) /\ Len(u) = Len(s) - 1 /\ \A i \in 1 .. Len(u) : u[i] = r[i + 1]
    BY <1>2, <1>3, HeadTailProperties
  <1> HIDE DEF t, u
  <1>5. /\ PidsOf(t) \in Seq(Tasks) /\ Len(PidsOf(t)) = Len(s) - 1
        /\ \A i \in 1 .. Len(t) : PidsOf(t)[i] = t[i].pid
    BY <1>1, PidsOfType
  <1>6. \A i \in 1 .. Len(s) - 1 : PidsOf(t)[i] = u[i]
    BY <1>1, <1>2, <1>4, <1>5
  <1>7. PidsOf(t) = u
    BY <1>4, <1>5, <1>6, SeqEqual
  <1>8. QED
    BY <1>3, <1>7 DEF r, t, u

relayVars == <<queued, held, Answers, FALSE>>

LEMMA AnswersIs == Answers = PidsOf(dispatched) /\ Answers' = PidsOf(dispatched')
  BY DEF Answers, PidsOf

\* A callback for a task leaves @queued alone or adds the task at its end.
LEMMA KernelRelays ==
    ASSUME TypeOK, NEW p \in Tasks, KernelStep(p)
    PROVE  [Relay!RelayNext]_relayVars
  <1>1. UNCHANGED <<held, dispatched>>
    BY DEF KernelStep, Wakeup, Run, Stop, SliceEnd, SetAffinity, SetAffinityInPlace,
         ReleaseTask, goland_exit_task, goland_init_task, userVars
  <1>2. ASSUME NEW m \in Masks, NEW w \in BOOLEAN, NEW o \in goland_enqueue(p, m, w)
        PROVE  o.queued \in {queued, Append(queued, p)}
    BY EnqueueOutcome DEF Outcome
  <1>3. ASSUME NEW m \in Masks, NEW o \in goland_select_cpu(p, m)
        PROVE  o.queued = queued
    BY DEF goland_select_cpu, try_direct_dispatch, Inserted
  <1>4. cpus_ptr[p] \in Masks
    BY DEF TypeOK
  <1>5. queued' \in {queued, Append(queued, p)}
    <2>1. CASE Wakeup(p)
      BY <1>2, <1>3, <1>4, <2>1 DEF Wakeup, Settle
    <2>2. CASE SliceEnd(p)
      BY <1>2, <1>4, <2>2 DEF SliceEnd, Settle
    <2>3. CASE \E m \in Masks : SetAffinity(p, m) \/ SetAffinityInPlace(p, m)
      BY <1>2, <2>3 DEF SetAffinity, SetAffinityInPlace, Settle
    <2>4. CASE Run(p) \/ Stop(p) \/ ReleaseTask(p) \/ goland_exit_task(p) \/ goland_init_task(p)
      BY <2>4 DEF Run, Stop, ReleaseTask, goland_exit_task, goland_init_task, userVars
    <2>5. QED
      BY <2>1, <2>2, <2>3, <2>4 DEF KernelStep
  <1>6. Answers' = Answers
    BY <1>1, AnswersIs
  <1>7. CASE queued' = queued
    BY <1>1, <1>6, <1>7 DEF relayVars
  <1>8. CASE queued' = Append(queued, p)
    BY <1>1, <1>6, <1>8 DEF Relay!RelayNext, Relay!Enqueue
  <1>9. QED
    BY <1>5, <1>7, <1>8

LEMMA UserRelays ==
    ASSUME TypeOK,
           \/ UserDequeue
           \/ \E p \in Tasks, cpu \in CPUs \cup {RL_CPU_ANY}, v \in Vtimes : UserDispatch(p, cpu, v)
    PROVE  Relay!RelayNext
  <1>1. CASE UserDequeue
    <2>1. Answers' = Answers
      BY <1>1, AnswersIs DEF UserDequeue
    <2>2. QED
      BY <1>1, <2>1 DEF UserDequeue, Relay!RelayNext, Relay!Dequeue
  <1>2. ASSUME NEW p \in Tasks, NEW cpu \in CPUs \cup {RL_CPU_ANY}, NEW v \in Vtimes,
               UserDispatch(p, cpu, v)
        PROVE  Relay!RelayNext
    <2> DEFINE m == [pid |-> p, cpu |-> cpu, vtime |-> v]
    <2>1. m \in Messages /\ m.pid = p
      BY FlagsAssumption DEF Messages
    <2>2. dispatched' = Append(dispatched, m)
      BY <1>2 DEF UserDispatch
    <2> HIDE DEF m
    <2>3. Answers' = Append(Answers, p)
      BY <2>1, <2>2, AnswersIs, PidsOfAppend DEF TypeOK
    <2>4. Relay!Dispatch(p)
      BY <1>2, <2>3 DEF UserDispatch, Relay!Dispatch
    <2>5. QED
      BY <2>4 DEF Relay!RelayNext
  <1>3. QED
    BY <1>1, <1>2

LEMMA CpuRelays ==
    ASSUME TypeOK, NEW c \in CPUs, CpuStep(c)
    PROVE  [Relay!RelayNext]_relayVars
  <1>1. CASE dispatch_task(c)
    <2>1. dispatched # <<>> /\ dispatched' = Tail(dispatched) /\ UNCHANGED <<queued, held>>
      BY <1>1 DEF dispatch_task
    <2>2. Answers # <<>> /\ Answers' = Tail(Answers)
      BY <2>1, AnswersIs, PidsOfTail DEF TypeOK
    <2>3. QED
      BY <2>1, <2>2 DEF Relay!RelayNext, Relay!Drain
  <1>2. CASE UNCHANGED userVars
    <2>1. Answers' = Answers
      BY <1>2, AnswersIs DEF userVars
    <2>2. QED
      BY <1>2, <2>1 DEF userVars, relayVars
  <1>3. QED
    BY <1>1, <1>2 DEF CpuStep, goland_dispatch, DrainEnd, InsertOnTarget,
       update_priority_task_map, RecheckTarget, Flush, Consume

\* The BPF half keeps to its side of the relay: goland_enqueue adds a record at
\* the end of @queued, dispatch_task takes the first one of @dispatched, and no
\* other callback touches the rings, for any number of tasks, CPUs and records.
THEOREM RelayUse == Spec => UsesUserRelay
  <1>1. Init => Relay!RelayInit
    <2> SUFFICES ASSUME Init PROVE Relay!RelayInit
      OBVIOUS
    <2>1. Answers = <<>>
      BY DEF Init, Answers
    <2>2. QED
      BY <2>1 DEF Init, Relay!RelayInit
  <1>2. TypeOK /\ [Next]_vars => [Relay!RelayNext]_relayVars
    <2> SUFFICES ASSUME TypeOK, [Next]_vars PROVE [Relay!RelayNext]_relayVars
      OBVIOUS
    <2>1. CASE UNCHANGED vars
      BY <2>1, AnswersIs DEF vars, relayVars
    <2>2. CASE Next
      BY <2>2, KernelRelays, UserRelays, CpuRelays DEF Next, UserStep
    <2>3. QED
      BY <2>1, <2>2
  <1>3. QED
    BY <1>1, <1>2, TypeCorrect, PTL DEF Spec, UsesUserRelay, Relay!RelaySpec, relayVars

----------------------------------------------------------------------------
(***************************************************************************)
(* No stranded task: for all vtimes.                                       *)
(***************************************************************************)
\* What slot s of CPU c, the i-th of its buffer, may be while it is fresh: the
\* one dispatch_task has just inserted and is to test, or, once the buffer is
\* flushed, one with a DSQ its task may use.
TargetOf(s, c, i) ==
    /\ s.pid \in Tasks
    /\ state[s.pid] = "bpf"
    /\ \/ /\ pc[c] \in {"map", "recheck"} /\ c \notin gone
          /\ i = Len(dspbuf[c]) /\ s.pid = msg[c].pid /\ s.dsq = msg[c].cpu
       \/ /\ pc[c] = "flush"
          /\ s.dsq = SHARED_DSQ \/ s.dsq \in cpus_ptr[s.pid]

\* The buffer has room for every insertion, so that one record at most is
\* drained; with vtime 0 nothing may be in it when dispatch_task cancels.
RoomAt(c) ==
    /\ pc[c] # "more"
    /\ Len(dspbuf[c]) <= 2
    /\ pc[c] = "off" => Len(dspbuf[c]) = 0
    /\ pc[c] \in {"drain", "insert"} => Len(dspbuf[c]) <= 1

TargetsAt(c) ==
    /\ RoomAt(c)
    /\ \A i \in DOMAIN dspbuf[c] : dspbuf[c][i].fresh => TargetOf(dspbuf[c][i], c, i)

Targets == \A c \in CPUs : TargetsAt(c)

SInv == TypeInv /\ Targets /\ NoStrandedTask

\* What a kernel action means for the targets: the slots of the task it moves
\* are stale afterwards, and goland_enqueue only uses DSQs of its mask.
LEMMA KernelTargets ==
    ASSUME SInv, NEW p \in Tasks, KernelStep(p), ~goland_exit_task(p)
    PROVE  /\ \A q \in Tasks \ {p} : state'[q] = state[q] /\ dsq'[q] = dsq[q] /\ cpus_ptr'[q] = cpus_ptr[q]
           /\ state'[p] = "dsq" /\ dsq'[p] \in CPUs => dsq'[p] \in cpus_ptr'[p]
           /\ dspbuf' = StaleEverywhere(p) \/ (dspbuf' = dspbuf /\ state[p] # "bpf")
           /\ UNCHANGED <<pc, msg>>
           /\ gone' = gone \/ gone' = gone \cup {c \in CPUs : msg[c].pid = p}
  <1>0. /\ TypeOK /\ state \in [Tasks -> States] /\ dsq \in [Tasks -> DSQs]
        /\ cpus_ptr \in [Tasks -> Masks]
    BY DEF SInv, TypeInv, TypeOK
  <1>1. ASSUME NEW m \in Masks, NEW o, Outcome(p, m, o), Settle(p, o),
               cpus_ptr' = [cpus_ptr EXCEPT ![p] = m]
        PROVE  /\ \A q \in Tasks \ {p} : state'[q] = state[q] /\ dsq'[q] = dsq[q] /\ cpus_ptr'[q] = cpus_ptr[q]
               /\ state'[p] = "dsq" /\ dsq'[p] \in CPUs => dsq'[p] \in cpus_ptr'[p]
    BY <1>0, <1>1 DEF Outcome, Settle
  <1>2. ASSUME NEW s \in States \ {"bpf", "dsq"}, Move(p, s), cpus_ptr' = cpus_ptr
        PROVE  /\ \A q \in Tasks \ {p} : state'[q] = state[q] /\ dsq'[q] = dsq[q] /\ cpus_ptr'[q] = cpus_ptr[q]
               /\ state'[p] # "dsq"
    BY <1>0, <1>2 DEF Move
  <1>3. cpus_ptr = [cpus_ptr EXCEPT ![p] = cpus_ptr[p]] /\ cpus_ptr[p] \in Masks
    BY <1>0
  <1>4. CASE Wakeup(p)
    <2>1. PICK o : Outcome(p, cpus_ptr[p], o) /\ Settle(p, o)
      BY <1>0, <1>4, EnqueueOutcome, DirectOutcome DEF Wakeup, goland_select_cpu
    <2>2. UNCHANGED <<cpus_ptr, dspbuf, pc, msg, gone>> /\ state[p] # "bpf"
      BY <1>4 DEF Wakeup, cpuVars
    <2>3. QED
      BY <1>1, <1>3, <2>1, <2>2
  <1>5. CASE SliceEnd(p)
    <2>1. PICK o : Outcome(p, cpus_ptr[p], o) /\ Settle(p, o)
      BY <1>0, <1>5, EnqueueOutcome DEF SliceEnd
    <2>2. UNCHANGED <<cpus_ptr, dspbuf, pc, msg, gone>> /\ state[p] # "bpf"
      BY <1>5 DEF SliceEnd, cpuVars
    <2>3. QED
      BY <1>1, <1>3, <2>1, <2>2
  <1>6. ASSUME NEW m \in Masks, SetAffinity(p, m)
        PROVE  /\ \A q \in Tasks \ {p} : state'[q] = state[q] /\ dsq'[q] = dsq[q] /\ cpus_ptr'[q] = cpus_ptr[q]
               /\ state'[p] = "dsq" /\ dsq'[p] \in CPUs => dsq'[p] \in cpus_ptr'[p]
               /\ dspbuf' = StaleEverywhere(p) /\ UNCHANGED <<pc, msg, gone>>
    <2>1. PICK o : Outcome(p, m, o) /\ Settle(p, o)
      BY <1>0, <1>6, EnqueueOutcome DEF SetAffinity
    <2>2. /\ cpus_ptr' = [cpus_ptr EXCEPT ![p] = m]
          /\ dspbuf' = StaleEverywhere(p) /\ UNCHANGED <<pc, msg, gone>>
      BY <1>6 DEF SetAffinity
    <2>3. QED
      BY <1>1, <2>1, <2>2
  <1>7. ASSUME NEW m \in Masks, SetAffinityInPlace(p, m)
        PROVE  /\ \A q \in Tasks \ {p} : cpus_ptr'[q] = cpus_ptr[q]
               /\ state[p] \in {"running", "blocked"}
               /\ UNCHANGED <<state, dsq, dspbuf, pc, msg, gone>>
    BY <1>0, <1>7 DEF SetAffinityInPlace, cpuVars
  <1>8. CASE Run(p) \/ Stop(p) \/ ReleaseTask(p) \/ goland_init_task(p)
    <2>1. /\ \E s \in States \ {"bpf", "dsq"} : Move(p, s)
          /\ state[p] # "bpf" /\ UNCHANGED <<cpus_ptr, dspbuf, pc, msg>>
          /\ gone' = gone \/ gone' = gone \cup {c \in CPUs : msg[c].pid = p}
      BY <1>8 DEF Run, Stop, ReleaseTask, goland_init_task, States, cpuVars
    <2>2. QED
      BY <1>2, <2>1
  <1>9. QED
    BY <1>4, <1>5, <1>6, <1>7, <1>8 DEF KernelStep

LEMMA KernelSInv ==
    ASSUME SInv, NEW p \in Tasks, KernelStep(p), ~goland_exit_task(p)
    PROVE  SInv'
  <1>1. /\ \A q \in Tasks \ {p} : state'[q] = state[q] /\ dsq'[q] = dsq[q] /\ cpus_ptr'[q] = cpus_ptr[q]
        /\ state'[p] = "dsq" /\ dsq'[p] \in CPUs => dsq'[p] \in cpus_ptr'[p]
        /\ dspbuf' = StaleEverywhere(p) \/ (dspbuf' = dspbuf /\ state[p] # "bpf")
        /\ UNCHANGED <<pc, msg>>
        /\ gone' = gone \/ gone' = gone \cup {c \in CPUs : msg[c].pid = p}
    BY KernelTargets
  <1>2. TypeInv' /\ TypeOK
    BY KernelTypeInv DEF SInv, TypeInv
  <1>3. NoStrandedTask'
    BY <1>1 DEF SInv, NoStrandedTask
  <1>4. ASSUME NEW c \in CPUs
        PROVE  /\ Len(dspbuf'[c]) = Len(dspbuf[c])
               /\ \A i \in DOMAIN dspbuf'[c] :
                     dspbuf'[c][i].fresh =>
                         /\ i \in DOMAIN dspbuf[c] /\ dspbuf'[c][i] = dspbuf[c][i]
                         /\ dspbuf[c][i].pid # p
    <2>1. dspbuf[c] \in Seq(Slots)
      BY <1>2 DEF TypeOK
    <2>2. CASE dspbuf' = StaleEverywhere(p)
      <3>1. dspbuf'[c] = Stale(dspbuf[c], p)
        BY <2>2 DEF StaleEverywhere
      <3>2. Len(dspbuf'[c]) = Len(dspbuf[c]) /\ DOMAIN dspbuf'[c] = DOMAIN dspbuf[c]
        BY <2>1, <3>1, StaleShape
      <3>3. \A i \in DOMAIN dspbuf[c] :
               /\ dspbuf[c][i].pid # p => dspbuf'[c][i] = dspbuf[c][i]
               /\ dspbuf[c][i].pid = p => ~dspbuf'[c][i].fresh
        BY <2>1, <3>1, StaleSlot
      <3>4. QED
        BY <3>2, <3>3
    <2>3. CASE dspbuf' = dspbuf /\ state[p] # "bpf"
      BY <2>3 DEF SInv, Targets, TargetsAt, TargetOf
    <2>4. QED
      BY <1>1, <2>2, <2>3
  <1>5. ASSUME NEW c \in CPUs PROVE TargetsAt(c)'
    <2>1. TargetsAt(c)
      BY DEF SInv, Targets
    <2>2. RoomAt(c)'
      BY <1>1, <1>4, <2>1 DEF TargetsAt, RoomAt
    <2>3. ASSUME NEW i \in DOMAIN dspbuf'[c], dspbuf'[c][i].fresh
          PROVE  TargetOf(dspbuf[c][i], c, i)' /\ dspbuf'[c][i] = dspbuf[c][i]
      <3>1. i \in DOMAIN dspbuf[c] /\ dspbuf'[c][i] = dspbuf[c][i] /\ dspbuf[c][i].pid # p
        BY <1>4, <2>3
      <3>2. TargetOf(dspbuf[c][i], c, i)
        BY <2>1, <2>3, <3>1 DEF TargetsAt
      <3>3. QED
        BY <1>1, <1>4, <3>1, <3>2 DEF TargetOf
    <2>4. QED
      BY <2>2, <2>3 DEF TargetsAt
  <1>6. QED
    BY <1>2, <1>3, <1>5 DEF SInv, Targets

LEMMA ExitSInv ==
    ASSUME SInv, NEW p \in Tasks, goland_exit_task(p)
    PROVE  SInv'
  <1>1. TypeInv'
    BY KernelTypeInv DEF SInv, KernelStep
  <1>2. UNCHANGED <<state, dsq, cpus_ptr, dspbuf, pc, msg, gone>>
    BY DEF goland_exit_task, cpuVars
  <1>3. QED
    BY <1>1, <1>2 DEF SInv, Targets, TargetsAt, RoomAt, TargetOf, NoStrandedTask

\* A step of CPU c inside ops.dispatch() that moves no task.
LEMMA TargetFrame ==
    ASSUME SInv, TypeInv', NEW c \in CPUs,
           UNCHANGED kernelVars,
           \A b \in CPUs \ {c} : dspbuf'[b] = dspbuf[b] /\ pc'[b] = pc[b] /\ msg'[b] = msg[b],
           gone' \in {gone, gone \ {c}},
           TargetsAt(c)'
    PROVE  SInv'
  <1>1. \A b \in CPUs \ {c} : TargetsAt(b)'
    BY DEF SInv, Targets, TargetsAt, RoomAt, TargetOf, kernelVars
  <1>2. NoStrandedTask'
    BY DEF SInv, NoStrandedTask, kernelVars
  <1>3. QED
    BY <1>1, <1>2 DEF SInv, Targets

\* Where no slot is fresh, the targets are right whatever happens to the task.
LEMMA NothingFresh ==
    ASSUME NEW c \in CPUs, RoomAt(c)', \A i \in DOMAIN dspbuf'[c] : ~dspbuf'[c][i].fresh
    PROVE  TargetsAt(c)'
  BY DEF TargetsAt

LEMMA BufferingSInv ==
    ASSUME SInv, NEW c \in CPUs,
           \/ goland_dispatch(c) \/ DrainEnd(c) \/ dispatch_task(c)
           \/ InsertOnTarget(c) \/ update_priority_task_map(c) \/ RecheckTarget(c)
    PROVE  SInv'
  <1> DEFINE n == Len(dspbuf[c]) + 1
  <1>0. /\ TypeInv' /\ TypeOK /\ TypeOK' /\ HandlesTask
        /\ pc \in [CPUs -> PCs] /\ msg \in [CPUs -> Messages \cup {NoMsg}]
        /\ dspbuf \in [CPUs -> Seq(Slots)] /\ dispatched \in Seq(Messages)
        /\ dspbuf'[c] \in Seq(Slots)
        /\ RoomAt(c) /\ TargetsAt(c)
    BY CpuTypeInv DEF SInv, TypeInv, TypeOK, CpuStep, Targets, TargetsAt
  <1>b. /\ dspbuf[c] \in Seq(Slots) /\ Len(dspbuf[c]) \in Nat
        /\ DOMAIN dspbuf[c] = 1 .. Len(dspbuf[c])
        /\ n \in Nat /\ \A i \in 1 .. n : i = n \/ i \in DOMAIN dspbuf[c]
    <2>1. /\ dspbuf[c] \in Seq(Slots) /\ Len(dspbuf[c]) \in Nat
          /\ DOMAIN dspbuf[c] = 1 .. Len(dspbuf[c])
      BY <1>0, BufferFacts
    <2>2. QED
      BY <2>1
  <1>u. UNCHANGED kernelVars
    BY DEF goland_dispatch, DrainEnd, dispatch_task, InsertOnTarget, update_priority_task_map, RecheckTarget
  <1>e. pc[c] \in {"off", "drain", "insert"} => \A i \in DOMAIN dspbuf[c] : ~dspbuf[c][i].fresh
    BY <1>0 DEF TargetsAt, TargetOf
  <1>i. ASSUME NEW p \in Tasks \cup {UserSched}, NEW d \in DSQs,
               Len(dspbuf[c]) <= 1, scx_bpf_dsq_insert(c, p, d)
        PROVE  /\ \A b \in CPUs \ {c} : dspbuf'[b] = dspbuf[b]
               /\ Len(dspbuf'[c]) = n /\ DOMAIN dspbuf'[c] = 1 .. n
               /\ \A j \in DOMAIN dspbuf[c] : dspbuf'[c][j] = dspbuf[c][j]
               /\ dspbuf'[c][n] = Slot(c, p, d)
    BY <1>0, <1>i, InsertEffect
  <1>1. CASE goland_dispatch(c)
    <2>1. /\ pc[c] = "off" /\ pc' = [pc EXCEPT ![c] = "drain"] /\ UNCHANGED <<msg, gone>>
          /\ Len(dspbuf[c]) = 0
          /\ scx_bpf_dsq_insert(c, UserSched, SCHED_DSQ) \/ UNCHANGED dspbuf
      BY <1>0, <1>1 DEF goland_dispatch, RoomAt
    <2>2. /\ \A b \in CPUs \ {c} : dspbuf'[b] = dspbuf[b]
          /\ Len(dspbuf'[c]) <= 1 /\ \A i \in DOMAIN dspbuf'[c] : ~dspbuf'[c][i].fresh
      <3>1. CASE scx_bpf_dsq_insert(c, UserSched, SCHED_DSQ)
        <4>1. ~Slot(c, UserSched, SCHED_DSQ).fresh
          BY TasksAssumption DEF Slot
        <4>2. UserSched \in Tasks \cup {UserSched} /\ SCHED_DSQ \in DSQs /\ Len(dspbuf[c]) <= 1
          BY <2>1, DsqFacts
        <4>3. /\ \A b \in CPUs \ {c} : dspbuf'[b] = dspbuf[b]
              /\ Len(dspbuf'[c]) = n /\ DOMAIN dspbuf'[c] = 1 .. n
              /\ dspbuf'[c][n] = Slot(c, UserSched, SCHED_DSQ)
          BY <1>i, <3>1, <4>2
        <4>4. n = 1
          BY <2>1
        <4>5. QED
          BY <4>1, <4>3, <4>4
      <3>2. CASE UNCHANGED dspbuf
        BY <1>e, <2>1, <3>2
      <3>3. QED
        BY <2>1, <3>1, <3>2
    <2>3. RoomAt(c)'
      BY <1>0, <2>1, <2>2 DEF RoomAt
    <2>4. QED
      BY <1>0, <1>u, <2>1, <2>2, <2>3, NothingFresh, TargetFrame
  <1>2. CASE DrainEnd(c)
    <2>1. pc[c] = "drain" /\ pc' = [pc EXCEPT ![c] = "flush"] /\ UNCHANGED <<dspbuf, msg, gone>>
      BY <1>0, <1>2 DEF DrainEnd, RoomAt
    <2>2. RoomAt(c)'
      BY <1>0, <2>1 DEF RoomAt
    <2>3. QED
      BY <1>0, <1>e, <1>u, <2>1, <2>2, NothingFresh, TargetFrame
  <1>3. CASE dispatch_task(c)
    <2>0. PICK m : m = Head(dispatched)
      OBVIOUS
    <2>1. pc[c] = "drain" /\ dispatched # <<>> /\ Len(dspbuf[c]) <= 1
      BY <1>0, <1>3 DEF dispatch_task, RoomAt
    <2>2. m \in Messages /\ m.pid \in Tasks
      <3>1. m \in Messages
        BY <1>0, <2>0, <2>1, HeadTailProperties
      <3>2. QED
        BY <3>1 DEF Messages
    <2>3. CASE UNCHANGED dspbuf /\ Return(c)
      <3>1. pc' = [pc EXCEPT ![c] = "flush"] /\ msg' = [msg EXCEPT ![c] = NoMsg] /\ gone' = gone \ {c}
        BY <1>b, <2>1, <2>3, ReturnEffect
      <3>2. RoomAt(c)'
        BY <1>0, <1>b, <2>1, <2>3, <3>1 DEF RoomAt
      <3>3. QED
        BY <1>0, <1>e, <1>u, <2>1, <2>3, <3>1, <3>2, NothingFresh, TargetFrame
    <2>4. CASE scx_bpf_dsq_insert(c, m.pid, SHARED_DSQ) /\ Return(c)
      <3>1. /\ \A b \in CPUs \ {c} : dspbuf'[b] = dspbuf[b]
            /\ Len(dspbuf'[c]) = n /\ DOMAIN dspbuf'[c] = 1 .. n
            /\ \A i \in DOMAIN dspbuf[c] : dspbuf'[c][i] = dspbuf[c][i]
            /\ dspbuf'[c][n] = Slot(c, m.pid, SHARED_DSQ)
        BY <1>i, <2>1, <2>2, <2>4, DsqFacts
      <3>2. pc' = [pc EXCEPT ![c] = "flush"] /\ msg' = [msg EXCEPT ![c] = NoMsg] /\ gone' = gone \ {c}
        BY <1>0, <1>b, <2>1, <2>4, <3>1, ReturnEffect
      <3>3. RoomAt(c)'
        BY <1>0, <1>b, <2>1, <3>1, <3>2 DEF RoomAt
      <3>4. /\ Slot(c, m.pid, SHARED_DSQ).pid = m.pid
            /\ Slot(c, m.pid, SHARED_DSQ).dsq = SHARED_DSQ
            /\ Slot(c, m.pid, SHARED_DSQ).fresh => state[m.pid] = "bpf"
        BY <2>2 DEF Slot
      <3>5. pc'[c] = "flush" /\ state' = state
        BY <1>0, <1>u, <3>2 DEF kernelVars
      <3>6. ASSUME NEW i \in DOMAIN dspbuf'[c], dspbuf'[c][i].fresh
            PROVE  TargetOf(dspbuf[c][i], c, i)'
        <4>1. i = n
          BY <1>b, <1>e, <2>1, <3>1, <3>6
        <4>2. QED
          BY <2>2, <3>1, <3>4, <3>5, <3>6, <4>1 DEF TargetOf
      <3>7. TargetsAt(c)'
        BY <3>3, <3>6 DEF TargetsAt
      <3>8. QED
        BY <1>0, <1>u, <3>1, <3>2, <3>7, TargetFrame
    <2>5. CASE pc' = [pc EXCEPT ![c] = "insert"] /\ msg' = [msg EXCEPT ![c] = m] /\ UNCHANGED <<dspbuf, gone>>
      <3>1. RoomAt(c)'
        BY <1>0, <1>b, <2>1, <2>5 DEF RoomAt
      <3>2. QED
        BY <1>0, <1>e, <1>u, <2>1, <2>5, <3>1, NothingFresh, TargetFrame
    <2>6. QED
      BY <1>3, <2>0, <2>3, <2>4, <2>5 DEF dispatch_task
  <1>4. CASE InsertOnTarget(c)
    <2>1. /\ pc[c] = "insert" /\ pc' = [pc EXCEPT ![c] = "map"] /\ UNCHANGED <<msg, gone>>
          /\ msg[c].cpu \in CPUs /\ msg[c].pid \in Tasks /\ Len(dspbuf[c]) <= 1
      BY <1>0, <1>4 DEF InsertOnTarget, HandlesTask, RoomAt, Messages
    <2>2. CASE scx_bpf_dsq_insert(c, msg[c].pid, cpu_to_dsq(msg[c].cpu))
      <3>1. cpu_to_dsq(msg[c].cpu) = msg[c].cpu /\ msg[c].cpu \in DSQs
        BY <2>1, DsqFacts
      <3>2. /\ \A b \in CPUs \ {c} : dspbuf'[b] = dspbuf[b]
            /\ Len(dspbuf'[c]) = n /\ DOMAIN dspbuf'[c] = 1 .. n
            /\ \A i \in DOMAIN dspbuf[c] : dspbuf'[c][i] = dspbuf[c][i]
            /\ dspbuf'[c][n] = Slot(c, msg[c].pid, msg[c].cpu)
        BY <1>i, <2>1, <2>2, <3>1
      <3>3. RoomAt(c)'
        BY <1>0, <1>b, <2>1, <3>2 DEF RoomAt
      <3>4. /\ Slot(c, msg[c].pid, msg[c].cpu).pid = msg[c].pid
            /\ Slot(c, msg[c].pid, msg[c].cpu).dsq = msg[c].cpu
            /\ Slot(c, msg[c].pid, msg[c].cpu).fresh <=> state[msg[c].pid] = "bpf" /\ c \notin gone
        BY <2>1 DEF Slot
      <3>5. pc'[c] = "map" /\ state' = state
        BY <1>0, <1>u, <2>1 DEF kernelVars
      <3>6. ASSUME NEW i \in DOMAIN dspbuf'[c], dspbuf'[c][i].fresh
            PROVE  TargetOf(dspbuf[c][i], c, i)'
        <4>1. i = n
          BY <1>b, <1>e, <2>1, <3>2, <3>6
        <4>2. QED
          BY <2>1, <3>2, <3>4, <3>5, <3>6, <4>1 DEF TargetOf
      <3>7. TargetsAt(c)'
        BY <3>3, <3>6 DEF TargetsAt
      <3>8. QED
        BY <1>0, <1>u, <2>1, <3>2, <3>7, TargetFrame
    <2>3. CASE UNCHANGED dspbuf
      <3>1. RoomAt(c)'
        BY <1>0, <1>b, <2>1, <2>3 DEF RoomAt
      <3>2. QED
        BY <1>0, <1>e, <1>u, <2>1, <2>3, <3>1, NothingFresh, TargetFrame
    <2>4. QED
      BY <1>4, <2>2, <2>3 DEF InsertOnTarget
  <1>5. CASE update_priority_task_map(c)
    <2>1. pc[c] = "map" /\ pc' = [pc EXCEPT ![c] = "recheck"] /\ UNCHANGED <<dspbuf, msg, gone>>
      BY <1>5 DEF update_priority_task_map
    <2>2. TargetsAt(c)'
      BY <1>0, <1>u, <2>1 DEF TargetsAt, RoomAt, TargetOf, kernelVars
    <2>3. QED
      BY <1>0, <1>u, <2>1, <2>2, TargetFrame
  <1>6. CASE RecheckTarget(c)
    <2>1. pc[c] = "recheck" /\ Return(c) /\ Len(dspbuf[c]) <= 2
      BY <1>0, <1>6 DEF RecheckTarget, RoomAt
    <2>2. \A i \in DOMAIN dspbuf[c] : dspbuf[c][i].fresh =>
             /\ dspbuf[c][i].pid \in Tasks /\ state[dspbuf[c][i].pid] = "bpf"
             /\ i = Len(dspbuf[c]) /\ c \notin gone
             /\ dspbuf[c][i].pid = msg[c].pid /\ dspbuf[c][i].dsq = msg[c].cpu
      BY <1>0, <2>1 DEF TargetsAt, TargetOf
    <2>3. CASE UNCHANGED dspbuf /\ (c \in gone \/ msg[c].cpu \in cpus_ptr[msg[c].pid] \/ dspbuf[c] = <<>>)
      <3>1. pc' = [pc EXCEPT ![c] = "flush"] /\ msg' = [msg EXCEPT ![c] = NoMsg] /\ gone' = gone \ {c}
        BY <1>b, <2>1, <2>3, ReturnEffect
      <3>2. RoomAt(c)'
        BY <1>0, <1>b, <2>1, <2>3, <3>1 DEF RoomAt
      <3>3. UNCHANGED <<state, cpus_ptr>> /\ pc'[c] = "flush"
        BY <1>0, <1>u, <3>1 DEF kernelVars
      <3>4. TargetsAt(c)'
        BY <2>2, <2>3, <3>2, <3>3 DEF TargetsAt, TargetOf
      <3>5. QED
        BY <1>0, <1>u, <2>3, <3>1, <3>4, TargetFrame
    <2>4. CASE dspbuf[c] # <<>> /\ dspbuf' = [dspbuf EXCEPT ![c] = SubSeq(@, 1, Len(@) - 1)]
      <3> DEFINE k == Len(dspbuf[c])
      <3>1. dspbuf'[c] = SubSeq(dspbuf[c], 1, k - 1) /\ \A b \in CPUs \ {c} : dspbuf'[b] = dspbuf[b]
        BY <1>0, <2>4
      <3>2. k \in Nat \ {0}
        BY <1>b, <2>4, EmptySeq
      <3>3. /\ Len(dspbuf'[c]) = k - 1 /\ DOMAIN dspbuf'[c] = 1 .. k - 1
            /\ \A i \in 1 .. k - 1 : dspbuf'[c][i] = dspbuf[c][i] /\ i \in DOMAIN dspbuf[c]
        BY <1>b, <3>1, <3>2
      <3>4. Len(dspbuf'[c]) <= 2
        BY <2>1, <3>2, <3>3
      <3>5. pc' = [pc EXCEPT ![c] = "flush"] /\ msg' = [msg EXCEPT ![c] = NoMsg] /\ gone' = gone \ {c}
        BY <1>0, <2>1, <3>4, ReturnEffect
      <3>6. RoomAt(c)'
        BY <1>0, <3>4, <3>5 DEF RoomAt
      <3>7. \A i \in DOMAIN dspbuf'[c] : ~dspbuf'[c][i].fresh
        <4>1. \A i \in 1 .. k - 1 : i # k
          BY <3>2
        <4>2. QED
          BY <2>2, <3>3, <4>1
      <3>8. QED
        BY <1>0, <1>u, <3>1, <3>5, <3>6, <3>7, NothingFresh, TargetFrame
    <2>5. QED
      BY <1>6, <2>3, <2>4 DEF RecheckTarget
  <1>7. QED
    BY <1>1, <1>2, <1>3, <1>4, <1>5, <1>6

\* A flushed slot moves its task only if it is fresh, and then the buffers of
\* all CPUs forget the task.
LEMMA FlushSInv ==
    ASSUME SInv, NEW c \in CPUs, Flush(c)
    PROVE  SInv'
  <1>0. /\ TypeInv' /\ TypeOK /\ pc[c] = "flush"
        /\ dspbuf[c] # <<>> /\ dspbuf[c] \in Seq(Slots) /\ dspbuf \in [CPUs -> Seq(Slots)]
        /\ UNCHANGED <<cpus_ptr, exiting, pc, msg, gone>>
        /\ TargetsAt(c)
    BY CpuTypeInv DEF Flush, SInv, TypeInv, TypeOK, CpuStep, Targets
  <1>1. PICK s : s = Head(dspbuf[c])
    OBVIOUS
  <1>2. s = dspbuf[c][1] /\ 1 \in DOMAIN dspbuf[c] /\ s \in Slots
    BY <1>0, <1>1, TailBuffer, ElementOfSeq
  <1>3. CASE ~s.fresh
    <2>1. dspbuf' = [dspbuf EXCEPT ![c] = Tail(@)] /\ UNCHANGED <<state, dsq>>
      BY <1>1, <1>3 DEF Flush
    <2>2. dspbuf'[c] = Tail(dspbuf[c]) /\ \A b \in CPUs \ {c} : dspbuf'[b] = dspbuf[b]
      BY <1>0, <2>1
    <2>3. RoomAt(c)'
      BY <1>0, <2>2, TailBuffer DEF TargetsAt, RoomAt
    <2>4. \A i \in DOMAIN dspbuf'[c] : i + 1 \in DOMAIN dspbuf[c] /\ dspbuf'[c][i] = dspbuf[c][i + 1]
      BY <1>0, <2>2, TailBuffer
    <2>5. TargetsAt(c)'
      BY <1>0, <2>1, <2>3, <2>4 DEF TargetsAt, TargetOf
    <2>6. QED
      BY <1>0, <2>1, <2>2, <2>5, TargetFrame DEF kernelVars
  <1>4. CASE s.fresh
    <2>1. /\ s.pid \in Tasks
          /\ s.dsq = SHARED_DSQ \/ s.dsq \in cpus_ptr[s.pid]
      BY <1>0, <1>2, <1>4 DEF TargetsAt, TargetOf
    <2>2. /\ state' = [state EXCEPT ![s.pid] = "dsq"]
          /\ dsq' = [dsq EXCEPT ![s.pid] = s.dsq]
          /\ dspbuf' = [StaleEverywhere(s.pid) EXCEPT ![c] = Tail(@)]
      BY <1>1, <1>4 DEF Flush
    <2>3. /\ \A b \in CPUs \ {c} : dspbuf'[b] = Stale(dspbuf[b], s.pid)
          /\ dspbuf'[c] = Tail(Stale(dspbuf[c], s.pid))
      BY <2>2 DEF StaleEverywhere
    <2>4. /\ state'[s.pid] = "dsq" /\ dsq'[s.pid] = s.dsq
          /\ \A q \in Tasks \ {s.pid} : state'[q] = state[q] /\ dsq'[q] = dsq[q]
      BY <1>0, <2>1, <2>2 DEF TypeOK
    <2>5. NoStrandedTask'
      <3>1. SHARED_DSQ \notin CPUs
        BY DsqFacts
      <3>2. QED
        BY <1>0, <2>1, <2>4, <3>1 DEF SInv, NoStrandedTask
    <2>6. TargetsAt(c)'
      <3>1. /\ Stale(dspbuf[c], s.pid) \in Seq(Slots) /\ Stale(dspbuf[c], s.pid) # <<>>
            /\ Len(Stale(dspbuf[c], s.pid)) = Len(dspbuf[c])
            /\ DOMAIN Stale(dspbuf[c], s.pid) = DOMAIN dspbuf[c]
        BY <1>0, StaleShape, EmptySeq
      <3>2. RoomAt(c)'
        BY <1>0, <2>3, <3>1, TailBuffer DEF TargetsAt, RoomAt
      <3>3. ASSUME NEW i \in DOMAIN dspbuf'[c], dspbuf'[c][i].fresh
            PROVE  /\ i + 1 \in DOMAIN dspbuf[c]
                   /\ dspbuf'[c][i] = dspbuf[c][i + 1] /\ dspbuf[c][i + 1].pid # s.pid
        <4>1. i + 1 \in DOMAIN dspbuf[c] /\ dspbuf'[c][i] = Stale(dspbuf[c], s.pid)[i + 1]
          BY <2>3, <3>1, TailBuffer
        <4>2. QED
          BY <1>0, <3>3, <4>1, StaleSlot
      <3>4. QED
        BY <1>0, <2>4, <3>2, <3>3 DEF TargetsAt, TargetOf
    <2>7. ASSUME NEW b \in CPUs \ {c} PROVE TargetsAt(b)'
      <3>1. dspbuf[b] \in Seq(Slots) /\ TargetsAt(b)
        BY <1>0 DEF SInv, Targets
      <3>2. Len(dspbuf'[b]) = Len(dspbuf[b])
        BY <2>3, <3>1, StaleShape
      <3>3. ASSUME NEW i \in DOMAIN dspbuf'[b], dspbuf'[b][i].fresh
            PROVE  /\ i \in DOMAIN dspbuf[b]
                   /\ dspbuf'[b][i] = dspbuf[b][i] /\ dspbuf[b][i].pid # s.pid
        BY <2>3, <3>1, <3>3, StaleShape, StaleSlot
      <3>4. RoomAt(b)'
        BY <1>0, <3>1, <3>2 DEF TargetsAt, RoomAt
      <3>5. ASSUME NEW i \in DOMAIN dspbuf'[b], dspbuf'[b][i].fresh
            PROVE  TargetOf(dspbuf[b][i], b, i)'
        <4>1. i \in DOMAIN dspbuf[b] /\ dspbuf'[b][i] = dspbuf[b][i] /\ dspbuf[b][i].pid # s.pid
          BY <3>3, <3>5
        <4>2. TargetOf(dspbuf[b][i], b, i)
          BY <3>1, <3>5, <4>1 DEF TargetsAt
        <4>3. UNCHANGED <<cpus_ptr, pc, msg, gone>>
          BY <1>0
        <4>4. QED
          BY <2>4, <3>2, <4>1, <4>2, <4>3 DEF TargetOf
      <3>6. QED
        BY <3>4, <3>5 DEF TargetsAt
    <2>8. QED
      BY <1>0, <2>5, <2>6, <2>7 DEF SInv, Targets
  <1>5. QED
    BY <1>3, <1>4

LEMMA ConsumeSInv ==
    ASSUME SInv, NEW c \in CPUs, Consume(c)
    PROVE  SInv'
  <1>1. /\ TypeInv' /\ TypeOK /\ pc \in [CPUs -> PCs]
        /\ pc' = [pc EXCEPT ![c] = "off"] /\ dspbuf[c] = <<>>
        /\ UNCHANGED <<cpus_ptr, dspbuf, msg, gone>>
    BY CpuTypeInv DEF SInv, TypeInv, TypeOK, CpuStep, Consume
  <1>2. \/ UNCHANGED <<state, dsq>>
        \/ \E p \in Tasks : Move(p, "local") /\ state[p] = "dsq"
    BY DEF Consume, Takeable, OnDsq
  <1>3. \A q \in Tasks : \/ state'[q] = state[q] /\ dsq'[q] = dsq[q]
                         \/ state[q] = "dsq" /\ state'[q] = "local"
    BY <1>1, <1>2 DEF Move, TypeOK
  <1>4. NoStrandedTask'
    BY <1>1, <1>3 DEF SInv, NoStrandedTask
  <1>5. TargetsAt(c)'
    BY <1>1 DEF TargetsAt, RoomAt
  <1>6. ASSUME NEW b \in CPUs \ {c} PROVE TargetsAt(b)'
    <2>1. TargetsAt(b) /\ pc'[b] = pc[b]
      BY <1>1 DEF SInv, Targets
    <2>2. QED
      BY <1>1, <1>3, <2>1 DEF TargetsAt, RoomAt, TargetOf
  <1>7. QED
    BY <1>1, <1>4, <1>5, <1>6 DEF SInv, Targets

\* The second cpumask test of dispatch_task and the sequence numbers of the
\* kernel together keep every task out of the DSQs it cannot be taken from,
\* priority tasks and cancels of other slots included.
THEOREM NoStrandedTaskCorrect == Spec => []NoStrandedTask
  <1>1. Init => SInv
    <2> SUFFICES ASSUME Init PROVE SInv
      OBVIOUS
    <2>1. TypeInv
      BY InitTypeInv
    <2>2. QED
      BY <2>1 DEF Init, SInv, Targets, TargetsAt, RoomAt, NoStrandedTask
  <1>2. SInv /\ [Next]_vars => SInv'
    <2> SUFFICES ASSUME SInv, [Next]_vars PROVE SInv'
      OBVIOUS
    <2>1. CASE UNCHANGED <<kernelVars, dspbuf, pc, msg, gone>>
      <3>1. TypeInv'
        BY NextTypeInv DEF SInv
      <3>2. QED
        BY <2>1, <3>1 DEF SInv, Targets, TargetsAt, RoomAt, TargetOf, NoStrandedTask, kernelVars
    <2>2. CASE UserStep \/ UNCHANGED vars
      BY <2>1, <2>2 DEF UserStep, UserDequeue, UserDispatch, vars, kernelVars, cpuVars
    <2>3. CASE Next
      BY <2>2, <2>3, KernelSInv, ExitSInv, BufferingSInv, FlushSInv, ConsumeSInv DEF Next, CpuStep
    <2>4. QED
      BY <2>2, <2>3
  <1>3. SInv => NoStrandedTask
    BY DEF SInv
  <1>4. QED
    BY <1>1, <1>2, <1>3, PTL DEF Spec
===============================================================================
