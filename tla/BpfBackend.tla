------------------------------ MODULE BpfBackend ------------------------------
(***************************************************************************)
(* The BPF half of scx_goland_core (main.bpf.c): who holds a runnable task *)
(* from the moment the kernel hands it to goland_enqueue until a CPU runs  *)
(* it.  A task leaves the kernel's custody in goland_enqueue, travels as a *)
(* message through @queued, the user-space scheduler and @dispatched, and  *)
(* comes back through dispatch_task, the per-CPU dispatch buffer of        *)
(* sched_ext and a dispatch queue (DSQ).                                   *)
(*                                                                         *)
(* The kernel (sched_ext) and the user-space scheduler are external here:  *)
(* the kernel follows the custody rules of ops_state, and user space       *)
(* returns every message it took exactly once, in any order, with any CPU  *)
(* and any vtime of Vtimes.                                                *)
(***************************************************************************)
EXTENDS Integers, Sequences

CONSTANTS
    Tasks,        \* pids of the tasks under scx, usersched_pid excluded
    KTasks,       \* kswapd, khugepaged; per-CPU kthreads under early_processing
    GoThreads,    \* threads whose tgid (not pid) is usersched_pid
    UserSched,    \* usersched_pid
    NrCpus,       \* nr_cpu_ids
    MAX_CPUS,
    Masks,        \* the affinity masks tasks may have
    RL_CPU_ANY,
    BuiltinIdle,  \* rodata builtin_idle
    Vtimes,       \* the vtimes user space returns: 0 (priority task) or 1 (any other)
    RingCap,      \* records that fit in @queued
    HeldCap,      \* bound: messages of one pid held by user space
    DispatchedCap,\* records that fit in @dispatched
    MaxBatch      \* MAX_DISPATCH_SLOT, slots of a CPU's dispatch buffer

CPUs == 0 .. NrCpus - 1
SHARED_DSQ == MAX_CPUS
SCHED_DSQ == MAX_CPUS + 1
DSQs == CPUs \cup {SHARED_DSQ, SCHED_DSQ}

ASSUME TasksAssumption ==
    /\ KTasks \subseteq Tasks
    /\ GoThreads \subseteq Tasks
    /\ UserSched \notin Tasks
ASSUME CpusAssumption ==
    /\ NrCpus \in Nat \ {0}
    /\ MAX_CPUS \in Nat
    /\ NrCpus <= MAX_CPUS
    /\ RL_CPU_ANY \in Nat
    /\ MAX_CPUS + 1 < RL_CPU_ANY
    /\ Masks \subseteq SUBSET CPUs
    /\ {} \notin Masks
ASSUME FlagsAssumption == BuiltinIdle \in BOOLEAN /\ Vtimes \subseteq {0, 1}
ASSUME BoundsAssumption ==
    /\ RingCap \in Nat
    /\ HeldCap \in Nat
    /\ DispatchedCap \in Nat
    /\ MaxBatch \in Nat \ {0, 1, 2}

VARIABLES
    state,          \* kernel: where each task is
    dsq,            \* kernel: the DSQ of a task whose state is "dsq"
    cpus_ptr,       \* kernel: the affinity mask of each task
    exiting,        \* kernel: pids with a released task that waits for ops.exit_task
    priority_tasks, \* BPF map: the pids in it
    queued,         \* ring buffer to user space: pids
    held,           \* user space: messages it holds, per pid
    dispatched,     \* user ring buffer: dispatched_task_ctx records
    dspbuf,         \* kernel: dispatch buffer of each CPU
    pc,             \* where each CPU is in goland_dispatch
    msg,            \* the record dispatch_task handles on each CPU
    gone,           \* CPUs whose dispatch_task has a task that was released meanwhile
    scx_error       \* kernel: why the scheduler was ejected, or "none"

kernelVars == <<state, dsq, cpus_ptr, exiting>>
userVars == <<queued, held, dispatched>>
cpuVars == <<dspbuf, pc, msg, gone>>
vars == <<state, dsq, cpus_ptr, exiting, priority_tasks, queued, held, dispatched,
          dspbuf, pc, msg, gone, scx_error>>

States == {"blocked", "bpf", "dsq", "local", "running", "dead"}
Messages == [pid : Tasks, cpu : CPUs \cup {RL_CPU_ANY}, vtime : {0, 1}]
\* No record is being handled: dispatch_task's argument is out of scope.
NoMsg == [pid |-> UserSched, cpu |-> RL_CPU_ANY, vtime |-> 0]
Slots == [pid : Tasks \cup {UserSched}, dsq : DSQs, fresh : BOOLEAN]
PCs == {"off", "drain", "more", "insert", "map", "recheck", "flush"}
Errors == {"none", "double_insert", "buffer_overflow", "buffer_underflow"}

\* The type invariant.
TypeOK ==
    /\ state \in [Tasks -> States]
    /\ dsq \in [Tasks -> DSQs]
    /\ cpus_ptr \in [Tasks -> Masks]
    /\ exiting \subseteq Tasks
    /\ priority_tasks \subseteq Tasks
    /\ queued \in Seq(Tasks)
    /\ held \in [Tasks -> Nat]
    /\ dispatched \in Seq(Messages)
    /\ dspbuf \in [CPUs -> Seq(Slots)]
    /\ pc \in [CPUs -> PCs]
    /\ msg \in [CPUs -> Messages \cup {NoMsg}]
    /\ gone \subseteq {c \in CPUs : msg[c] # NoMsg}
    /\ scx_error \in Errors

----------------------------------------------------------------------------
(***************************************************************************)
(* goland_enqueue and what it calls.  Each operator is the set of outcomes *)
(* of the callback for task p with affinity m: the custody of the task,    *)
(* the ring buffer it leaves behind and the error it raises.               *)
(***************************************************************************)
OnDsq(d) == {p \in Tasks : state[p] = "dsq" /\ dsq[p] = d}

\* Mutant: DSQ ids taken to start at 1.
cpu_to_dsq_off_by_one(cpu) == cpu + 1

\* dsq_init creates the DSQ of CPU c with id c.
cpu_to_dsq(cpu) == cpu

Inserted(d) == [state |-> "dsq", dsq |-> d, queued |-> queued, error |-> "none"]

\* pick_idle_cpu may find any CPU, or none: what it returns is used only when
\* the task may run there and nobody waits before it.
try_direct_dispatch(p, m) ==
    {Inserted(cpu_to_dsq(c)) :
        c \in {c \in m : /\ BuiltinIdle
                         /\ OnDsq(SHARED_DSQ) \ {p} = {}
                         /\ OnDsq(cpu_to_dsq(c)) \ {p} = {}}}

\* Mutant: the SHARED_DSQ fallback of a full ring is missing.
QueueToUser_no_fallback(p) ==
    [state  |-> IF p \in priority_tasks THEN "local" ELSE "bpf",
     dsq    |-> SHARED_DSQ,
     queued |-> IF Len(queued) = RingCap THEN queued ELSE Append(queued, p),
     error  |-> "none"]

\* A priority task is inserted in a local DSQ at once and then falls through
\* to the ring buffer like every other task; a full ring sends the task to
\* SHARED_DSQ, the second insertion in this callback for a priority task.
QueueToUser(p) ==
    LET prio == p \in priority_tasks
        full == Len(queued) = RingCap
    IN  [state  |-> IF prio THEN "local" ELSE IF full THEN "dsq" ELSE "bpf",
         dsq    |-> SHARED_DSQ,
         queued |-> IF full THEN queued ELSE Append(queued, p),
         error  |-> IF prio /\ full THEN "double_insert" ELSE "none"]

\* Mutant: no return after a successful try_direct_dispatch.
goland_enqueue_no_return(p, m, wakeup) ==
    IF p \in GoThreads THEN {Inserted(SCHED_DSQ)}
    ELSE IF p \in KTasks THEN {Inserted(cpu_to_dsq(c)) : c \in m}
    ELSE  {[o EXCEPT !.queued = QueueToUser(p).queued,
                     !.error = IF Len(queued) = RingCap
                               THEN "double_insert" ELSE "none"] :
             o \in try_direct_dispatch(p, m)} \cup {QueueToUser(p)}

goland_enqueue(p, m, wakeup) ==
    IF p \in GoThreads THEN {Inserted(SCHED_DSQ)}
    ELSE IF p \in KTasks THEN {Inserted(cpu_to_dsq(c)) : c \in m}
    ELSE (IF wakeup THEN try_direct_dispatch(p, m) ELSE {}) \cup {QueueToUser(p)}

\* A task dispatched in goland_select_cpu never reaches goland_enqueue.
goland_select_cpu(p, m) == try_direct_dispatch(p, m)

----------------------------------------------------------------------------
(***************************************************************************)
(* The kernel side.  A slot of a dispatch buffer carries the sequence      *)
(* number ops_state had at the insertion; it is fresh while the task stays *)
(* in that very enqueue, and stale for good once it leaves "bpf".          *)
(***************************************************************************)
Stale(buf, p) ==
    [i \in DOMAIN buf |-> IF buf[i].pid = p THEN [buf[i] EXCEPT !.fresh = FALSE]
                          ELSE buf[i]]

StaleEverywhere(p) == [c \in CPUs |-> Stale(dspbuf[c], p)]

Settle(p, o) ==
    /\ state' = [state EXCEPT ![p] = o.state]
    /\ dsq' = [dsq EXCEPT ![p] = o.dsq]
    /\ queued' = o.queued
    /\ scx_error' = o.error

Move(p, s) ==
    /\ state' = [state EXCEPT ![p] = s]
    /\ dsq' = [dsq EXCEPT ![p] = SHARED_DSQ]

\* A blocked task wakes up, with or without ops.select_cpu().
Wakeup(p) ==
    /\ state[p] = "blocked"
    /\ \E o \in goland_select_cpu(p, cpus_ptr[p]) \cup
                goland_enqueue(p, cpus_ptr[p], TRUE) : Settle(p, o)
    /\ UNCHANGED <<cpus_ptr, exiting, priority_tasks, held, dispatched, cpuVars>>

\* A CPU picks a task of its local DSQ.
Run(p) ==
    /\ state[p] = "local"
    /\ Move(p, "running")
    /\ UNCHANGED <<cpus_ptr, exiting, priority_tasks, userVars, cpuVars, scx_error>>

\* The running task is preempted with slice left, or sleeps.
Stop(p) ==
    /\ state[p] = "running"
    /\ Move(p, "local") \/ Move(p, "blocked")
    /\ UNCHANGED <<cpus_ptr, exiting, priority_tasks, userVars, cpuVars, scx_error>>

\* The running task used up its slice: it is still rq->curr while enqueued.
SliceEnd(p) ==
    /\ state[p] = "running"
    /\ \E o \in goland_enqueue(p, cpus_ptr[p], FALSE) : Settle(p, o)
    /\ UNCHANGED <<cpus_ptr, exiting, priority_tasks, held, dispatched, cpuVars>>

\* sched_setaffinity: a runnable task is dequeued, its mask replaced and the
\* task enqueued again on a CPU of the new mask.
SetAffinity(p, m) ==
    /\ state[p] \in {"bpf", "dsq", "local"}
    /\ m # cpus_ptr[p]
    /\ cpus_ptr' = [cpus_ptr EXCEPT ![p] = m]
    /\ dspbuf' = StaleEverywhere(p)
    /\ \E o \in goland_enqueue(p, m, TRUE) : Settle(p, o)
    /\ UNCHANGED <<exiting, priority_tasks, held, dispatched, pc, msg, gone>>

\* The same for a running task: it is picked again right after the enqueue,
\* which leaves the message behind.  For a blocked one only the mask changes.
SetAffinityInPlace(p, m) ==
    /\ m # cpus_ptr[p]
    /\ cpus_ptr' = [cpus_ptr EXCEPT ![p] = m]
    /\ \/ /\ state[p] = "running"
          /\ \E o \in goland_enqueue(p, m, FALSE) :
                queued' = o.queued /\ scx_error' = o.error
       \/ /\ state[p] = "blocked"
          /\ UNCHANGED <<queued, scx_error>>
    /\ UNCHANGED <<state, dsq, exiting, priority_tasks, held, dispatched, cpuVars>>

\* A task that will not run again is released: its pid is free, and a dispatch_task
\* that looked it up before goes on with it.  Bound: one such task per pid.
ReleaseTask(p) ==
    /\ state[p] = "blocked"
    /\ p \notin exiting
    /\ Move(p, "dead")
    /\ exiting' = exiting \cup {p}
    /\ gone' = gone \cup {c \in CPUs : msg[c].pid = p}
    /\ UNCHANGED <<cpus_ptr, priority_tasks, userVars, dspbuf, pc, msg, scx_error>>

\* Mutant: the pid stays in priority_tasks.
goland_exit_task_no_cleanup(p) ==
    /\ p \in exiting
    /\ \A c \in gone : msg[c].pid # p
    /\ exiting' = exiting \ {p}
    /\ UNCHANGED <<state, dsq, cpus_ptr, priority_tasks, userVars, cpuVars, scx_error>>

\* A released task is freed once no dispatch_task refers to it (bpf_task_from_pid
\* takes a reference), whether or not a new task has its pid by then.
goland_exit_task(p) ==
    /\ p \in exiting
    /\ \A c \in gone : msg[c].pid # p
    /\ exiting' = exiting \ {p}
    /\ priority_tasks' = priority_tasks \ {p}
    /\ UNCHANGED <<state, dsq, cpus_ptr, userVars, cpuVars, scx_error>>

\* A new task is created with the pid of a released one.
goland_init_task(p) ==
    /\ state[p] = "dead"
    /\ Move(p, "blocked")
    /\ UNCHANGED <<cpus_ptr, exiting, priority_tasks, userVars, cpuVars, scx_error>>

----------------------------------------------------------------------------
(***************************************************************************)
(* The user-space scheduler, as the BPF half sees it.                      *)
(***************************************************************************)
UserDequeue ==
    /\ queued # <<>>
    /\ held[Head(queued)] < HeldCap
    /\ held' = [held EXCEPT ![Head(queued)] = @ + 1]
    /\ queued' = Tail(queued)
    /\ UNCHANGED <<kernelVars, priority_tasks, dispatched, cpuVars, scx_error>>

\* Mutant: the record stays with user space, which answers it again.
UserDispatch_keeps(p, cpu, vtime) ==
    /\ held[p] > 0
    /\ Len(dispatched) < DispatchedCap
    /\ dispatched' = Append(dispatched, [pid |-> p, cpu |-> cpu, vtime |-> vtime])
    /\ UNCHANGED <<kernelVars, priority_tasks, queued, held, cpuVars, scx_error>>

UserDispatch(p, cpu, vtime) ==
    /\ held[p] > 0
    /\ Len(dispatched) < DispatchedCap
    /\ held' = [held EXCEPT ![p] = @ - 1]
    /\ dispatched' = Append(dispatched, [pid |-> p, cpu |-> cpu, vtime |-> vtime])
    /\ UNCHANGED <<kernelVars, priority_tasks, queued, cpuVars, scx_error>>

----------------------------------------------------------------------------
(***************************************************************************)
(* goland_dispatch on CPU c, and dispatch_task, step by step: affinity and *)
(* custody of the task may change between any two of them.                 *)
(***************************************************************************)
Draining(c) == pc[c] \in {"more", "insert", "map", "recheck"}

\* The slot of a released task is not one of the new task with its pid.
Slot(c, p, d) ==
    [pid |-> p, dsq |-> d, fresh |-> p \in Tasks /\ state[p] = "bpf" /\ c \notin gone]

\* scx_bpf_dsq_insert{,_vtime} inside ops.dispatch().
scx_bpf_dsq_insert(c, p, d) ==
    IF Len(dspbuf[c]) < MaxBatch
    THEN /\ dspbuf' = [dspbuf EXCEPT ![c] = Append(@, Slot(c, p, d))]
         /\ UNCHANGED scx_error
    ELSE /\ scx_error' = "buffer_overflow"
         /\ UNCHANGED dspbuf

\* Mutant: the free slots are not looked at.
handle_dispatched_task_never_stops(buf) == 0

\* The callback's result: bpf_user_ringbuf_drain stops at anything but 0.
handle_dispatched_task(buf) == IF MaxBatch - Len(buf) # 0 THEN 1 ELSE 0

Return(c) ==
    /\ pc' = [pc EXCEPT ![c] = IF handle_dispatched_task(dspbuf'[c]) = 1 THEN "flush" ELSE "more"]
    /\ msg' = [msg EXCEPT ![c] = NoMsg]
    /\ gone' = gone \ {c}

\* Mutant: the callback returns once it has dispatched the scheduler.
goland_dispatch_returns(c) ==
    /\ pc[c] = "off"
    /\ \/ scx_bpf_dsq_insert(c, UserSched, SCHED_DSQ)
       \/ UNCHANGED <<dspbuf, scx_error>>
    /\ pc' = [pc EXCEPT ![c] = IF dspbuf'[c] = <<>> THEN "drain" ELSE "flush"]
    /\ UNCHANGED <<kernelVars, priority_tasks, userVars, msg, gone>>

\* usersched_needed may be set or not: dispatch_user_scheduler.
goland_dispatch(c) ==
    /\ pc[c] = "off"
    /\ \/ scx_bpf_dsq_insert(c, UserSched, SCHED_DSQ)
       \/ UNCHANGED <<dspbuf, scx_error>>
    /\ pc' = [pc EXCEPT ![c] = "drain"]
    /\ UNCHANGED <<kernelVars, priority_tasks, userVars, msg, gone>>

\* Nothing (more) to drain, or another CPU is draining (-EBUSY).
DrainEnd(c) ==
    /\ \/ pc[c] \in {"drain", "more"} /\ dispatched = <<>>
       \/ pc[c] = "drain" /\ \E b \in CPUs : Draining(b)
    /\ pc' = [pc EXCEPT ![c] = "flush"]
    /\ UNCHANGED <<kernelVars, priority_tasks, userVars, dspbuf, msg, gone, scx_error>>

\* Mutant: a task whose target became invalid is ignored, not bounced.
dispatch_task_no_bounce(c) ==
    LET m == Head(dispatched) IN
    /\ pc[c] \in {"drain", "more"}
    /\ \A b \in CPUs \ {c} : ~Draining(b)
    /\ dispatched # <<>>
    /\ dispatched' = Tail(dispatched)
    /\ \/ /\ state[m.pid] = "dead" \/ m.cpu \notin cpus_ptr[m.pid] \cup {RL_CPU_ANY}
          /\ UNCHANGED <<dspbuf, scx_error>>
          /\ Return(c)
       \/ /\ state[m.pid] # "dead" /\ m.cpu = RL_CPU_ANY
          /\ scx_bpf_dsq_insert(c, m.pid, SHARED_DSQ)
          /\ Return(c)
       \/ /\ state[m.pid] # "dead" /\ m.cpu \in cpus_ptr[m.pid]
          /\ pc' = [pc EXCEPT ![c] = "insert"]
          /\ msg' = [msg EXCEPT ![c] = m]
          /\ UNCHANGED <<dspbuf, gone, scx_error>>
    /\ UNCHANGED <<kernelVars, priority_tasks, queued, held>>

\* dispatch_task up to its last test of the target CPU: a dead task is
\* ignored, a task without a usable target goes to SHARED_DSQ.
dispatch_task(c) ==
    LET m == Head(dispatched) IN
    /\ pc[c] \in {"drain", "more"}
    /\ \A b \in CPUs \ {c} : ~Draining(b)
    /\ dispatched # <<>>
    /\ dispatched' = Tail(dispatched)
    /\ \/ /\ state[m.pid] = "dead"
          /\ UNCHANGED <<dspbuf, scx_error>>
          /\ Return(c)
       \/ /\ state[m.pid] # "dead"
          /\ m.cpu = RL_CPU_ANY \/ m.cpu \notin cpus_ptr[m.pid]
          /\ scx_bpf_dsq_insert(c, m.pid, SHARED_DSQ)
          /\ Return(c)
       \/ /\ state[m.pid] # "dead"
          /\ m.cpu \in cpus_ptr[m.pid]
          /\ pc' = [pc EXCEPT ![c] = "insert"]
          /\ msg' = [msg EXCEPT ![c] = m]
          /\ UNCHANGED <<dspbuf, gone, scx_error>>
    /\ UNCHANGED <<kernelVars, priority_tasks, queued, held>>

\* Mutant: the branches on the vtime are swapped.
InsertOnTarget_swapped(c) ==
    /\ pc[c] = "insert"
    /\ \/ /\ msg[c].vtime = 0 \/ msg[c].pid \in priority_tasks
          /\ scx_bpf_dsq_insert(c, msg[c].pid, msg[c].cpu)
       \/ /\ msg[c].vtime # 0 /\ msg[c].pid \notin priority_tasks
          /\ UNCHANGED <<dspbuf, scx_error>>
    /\ pc' = [pc EXCEPT ![c] = "map"]
    /\ UNCHANGED <<kernelVars, priority_tasks, userVars, msg, gone>>

\* A vtime of 0 is not inserted for a task that is already in priority_tasks.
InsertOnTarget(c) ==
    /\ pc[c] = "insert"
    /\ \/ /\ msg[c].vtime # 0 \/ msg[c].pid \notin priority_tasks
          /\ scx_bpf_dsq_insert(c, msg[c].pid, cpu_to_dsq(msg[c].cpu))
       \/ /\ msg[c].vtime = 0 /\ msg[c].pid \in priority_tasks
          /\ UNCHANGED <<dspbuf, scx_error>>
    /\ pc' = [pc EXCEPT ![c] = "map"]
    /\ UNCHANGED <<kernelVars, priority_tasks, userVars, msg, gone>>

update_priority_task_map(c) ==
    /\ pc[c] = "map"
    /\ priority_tasks' = IF msg[c].vtime = 0 THEN priority_tasks \cup {msg[c].pid}
                         ELSE priority_tasks \ {msg[c].pid}
    /\ pc' = [pc EXCEPT ![c] = "recheck"]
    /\ UNCHANGED <<kernelVars, userVars, dspbuf, msg, gone, scx_error>>

\* Mutant: the second cpumask test is missing.
RecheckTarget_no_test(c) ==
    /\ pc[c] = "recheck"
    /\ UNCHANGED <<dspbuf, scx_error>>
    /\ Return(c)
    /\ UNCHANGED <<kernelVars, priority_tasks, userVars>>

\* scx_bpf_dispatch_cancel drops the last slot of the buffer, whoever's it is.  The
\* mask of a released task is what it was then.
RecheckTarget(c) ==
    /\ pc[c] = "recheck"
    /\ \/ /\ c \in gone \/ msg[c].cpu \in cpus_ptr[msg[c].pid]
          /\ UNCHANGED <<dspbuf, scx_error>>
       \/ /\ c \in gone \/ msg[c].cpu \notin cpus_ptr[msg[c].pid]
          /\ IF dspbuf[c] # <<>>
             THEN /\ dspbuf' = [dspbuf EXCEPT ![c] = SubSeq(@, 1, Len(@) - 1)]
                  /\ UNCHANGED scx_error
             ELSE /\ scx_error' = "buffer_underflow"
                  /\ UNCHANGED dspbuf
    /\ Return(c)
    /\ UNCHANGED <<kernelVars, priority_tasks, userVars>>

\* The first scx_bpf_dsq_move_to_local flushes the buffer, slot by slot: a
\* fresh slot moves its task to the DSQ, a stale one is dropped.
Flush(c) ==
    LET s == Head(dspbuf[c]) IN
    /\ pc[c] = "flush"
    /\ dspbuf[c] # <<>>
    /\ \/ /\ s.fresh
          /\ state' = [state EXCEPT ![s.pid] = "dsq"]
          /\ dsq' = [dsq EXCEPT ![s.pid] = s.dsq]
          /\ dspbuf' = [StaleEverywhere(s.pid) EXCEPT ![c] = Tail(@)]
       \/ /\ ~s.fresh
          /\ dspbuf' = [dspbuf EXCEPT ![c] = Tail(@)]
          /\ UNCHANGED <<state, dsq>>
    /\ UNCHANGED <<cpus_ptr, exiting, priority_tasks, userVars, pc, msg, gone, scx_error>>

\* The tasks of DSQ d that CPU c may take.
Takeable(c, d) == {p \in OnDsq(d) : c \in cpus_ptr[p]}

\* The CPU's own DSQ, then SHARED_DSQ, then SCHED_DSQ; the first task wins.
Consume(c) ==
    LET own == Takeable(c, cpu_to_dsq(c))
        shared == Takeable(c, SHARED_DSQ)
        sched == Takeable(c, SCHED_DSQ)
        first == IF own # {} THEN own ELSE IF shared # {} THEN shared ELSE sched
    IN  /\ pc[c] = "flush"
        /\ dspbuf[c] = <<>>
        /\ \/ \E p \in first : Move(p, "local")
           \/ first = {} /\ UNCHANGED <<state, dsq>>
        /\ pc' = [pc EXCEPT ![c] = "off"]
        /\ UNCHANGED <<cpus_ptr, exiting, priority_tasks, userVars, dspbuf, msg, gone, scx_error>>

----------------------------------------------------------------------------
Init ==
    /\ state = [p \in Tasks |-> "blocked"]
    /\ dsq = [p \in Tasks |-> SHARED_DSQ]
    /\ cpus_ptr \in [Tasks -> Masks]
    /\ exiting = {}
    /\ priority_tasks = {}
    /\ queued = <<>>
    /\ held = [p \in Tasks |-> 0]
    /\ dispatched = <<>>
    /\ dspbuf = [c \in CPUs |-> <<>>]
    /\ pc = [c \in CPUs |-> "off"]
    /\ msg = [c \in CPUs |-> NoMsg]
    /\ gone = {}
    /\ scx_error = "none"

KernelStep(p) ==
    \/ Wakeup(p) \/ Run(p) \/ Stop(p) \/ SliceEnd(p)
    \/ \E m \in Masks : SetAffinity(p, m) \/ SetAffinityInPlace(p, m)
    \/ ReleaseTask(p) \/ goland_exit_task(p) \/ goland_init_task(p)

UserStep ==
    \/ UserDequeue
    \/ \E p \in Tasks, cpu \in CPUs \cup {RL_CPU_ANY}, vtime \in Vtimes :
          UserDispatch(p, cpu, vtime)

CpuStep(c) ==
    \/ goland_dispatch(c) \/ DrainEnd(c) \/ dispatch_task(c)
    \/ InsertOnTarget(c) \/ update_priority_task_map(c) \/ RecheckTarget(c)
    \/ Flush(c) \/ Consume(c)

\* An ejected scheduler takes no further step.
Next ==
    /\ scx_error = "none"
    /\ \/ \E p \in Tasks : KernelStep(p)
       \/ UserStep
       \/ \E c \in CPUs : CpuStep(c)

Spec == Init /\ [][Next]_vars

\* CPUs that entered goland_dispatch get to its end, and CPUs keep calling it.
\* Nothing is assumed of user space.
FairSpec == Spec /\ \A c \in CPUs : WF_vars(CpuStep(c))

----------------------------------------------------------------------------
(***************************************************************************)
(* Properties.                                                             *)
(***************************************************************************)
\* A message for p is on its way between goland_enqueue and dispatch_task.
InPipe(p) ==
    \/ \E i \in DOMAIN queued : queued[i] = p
    \/ held[p] > 0
    \/ \E i \in DOMAIN dispatched : dispatched[i].pid = p

\* dispatch_task is about to insert p on a CPU p may use.
BeingInserted(p) ==
    \E c \in CPUs \ gone : pc[c] = "insert" /\ msg[c].pid = p /\ msg[c].cpu \in cpus_ptr[p]

\* Slot s will move task p to a DSQ from which a CPU may take it.
Delivers(s, p) == s.pid = p /\ s.fresh /\ (s.dsq = SHARED_DSQ \/ s.dsq \in cpus_ptr[p])

BeingFlushed(p) == \E c \in CPUs : \E i \in DOMAIN dspbuf[c] : Delivers(dspbuf[c][i], p)

\* A task handed to goland_enqueue and not dispatched yet is never forgotten:
\* a message for it is still travelling to dispatch_task, or dispatch_task has
\* it, or a valid slot of a dispatch buffer does ("Add tasks to the @queued
\* list, they will be processed by the user-space scheduler").
NoLostTask ==
    \A p \in Tasks : state[p] = "bpf" => InPipe(p) \/ BeingInserted(p) \/ BeingFlushed(p)

\* A task never sits in the DSQ of a CPU outside its affinity mask, where no
\* CPU would ever take it: the second cpumask test of dispatch_task.
NoStrandedTask ==
    \A p \in Tasks : state[p] = "dsq" /\ dsq[p] \in CPUs => dsq[p] \in cpus_ptr[p]

\* When dispatch_task is to cancel a dispatch, the last slot of the buffer is
\* the one of its own task: scx_bpf_dispatch_cancel names none.
CancelsOwnSlot ==
    \A c \in CPUs :
        pc[c] = "recheck" /\ (c \in gone \/ msg[c].cpu \notin cpus_ptr[msg[c].pid])
        => dspbuf[c] # <<>> /\ dspbuf[c][Len(dspbuf[c])].pid = msg[c].pid

\* The callbacks never break a rule of sched_ext that ejects the scheduler: two
\* insertions in one goland_enqueue, a dispatch buffer over- or underflow.
NoScxError == scx_error = "none"

\* Once goland_exit_task has run for every task that had the pid, the pid is not in
\* priority_tasks ("Clean up the task from priority tasks map"): a dispatch_task
\* that still handles the task, released or not, cannot put it back afterwards.
\* (A task created earlier, between release_task and ops.exit_task, does inherit.)
PriorityCleanedUp == \A p \in priority_tasks : state[p] = "dead" => p \in exiting

\* The pids of the records in @dispatched.
Answers == [i \in DOMAIN dispatched |-> dispatched[i].pid]

Relay == INSTANCE UserRelay WITH
    Pids <- Tasks,
    broken <- FALSE,
    dispatched <- Answers

\* A task handed to goland_enqueue gets to a dispatch queue, if user space answers
\* the records (what UserSched shows of main.go under load) and once its affinity
\* is left alone: records that are ignored, bounced, cancelled or stale only delay
\* it ("potentially selecting a different CPU", main.bpf.c:703).
LeavesCustody ==
    Relay!AnswersAll /\ <>[][cpus_ptr' = cpus_ptr]_vars
    => \A p \in Tasks : state[p] = "bpf" ~> state[p] # "bpf"

\* The other side of IsUserRelay: goland_enqueue only adds to @queued, at its end,
\* dispatch_task only takes from @dispatched, one record at a time, and nothing
\* else touches the rings, however the custody of the tasks changes meanwhile.
UsesUserRelay == Relay!RelaySpec

\* A CPU that drains @dispatched stops when it is empty or when the dispatch
\* buffer is full ("Consume all tasks from the @dispatched list", main.bpf.c:1074).
DrainsAll ==
    [][\A c \in CPUs :
          /\ pc[c] \in {"drain", "more", "recheck"}
          /\ pc'[c] = "flush"
          /\ \A b \in CPUs \ {c} : ~Draining(b)
          => dispatched' = <<>> \/ Len(dspbuf'[c]) = MaxBatch]_vars
=============================================================================
