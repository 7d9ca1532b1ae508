------------------------------ MODULE Accounting ------------------------------
(***************************************************************************)
(* What the scheduler knows about the time a task used: the timestamps of   *)
(* task_ctx and nr_running, kept by goland_runnable, goland_running,        *)
(* goland_stopping and goland_enable (main.bpf.c), copied                   *)
(* into a record by get_task_info, turned into a vruntime by                *)
(* updatedEnqueueTask (main.go), and written back to the task by            *)
(* dispatch_task, after which it is the input of the next round.            *)
(*                                                                         *)
(* The kernel decides when a task wakes up, runs and stops; scx_bpf_now()   *)
(* never goes back on one CPU, and the clocks of two CPUs are unrelated.    *)
(* In which queue a task waits is BpfBackend's business, the order of the   *)
(* pool TaskPool's: a waiting task may be run at any time, and records are  *)
(* answered in any order.                                                  *)
(***************************************************************************)
EXTENDS Integers, FiniteSets, Sequences

CONSTANTS
    Tasks,       \* pids of the tasks under scx, usersched_pid excluded
    UserSched,   \* usersched_pid
    CPUs,
    Nobody,      \* no task runs
    Weights,     \* the values p->scx.weight may have
    Favoured,    \* tasks user space returns vtime 0 for: none in main.go
    SLICE_NS_DEFAULT,
    TwoTo64,     \* the range of u64
    MaxTime,     \* bound: the last instant of a CPU's clock
    MaxVtime,    \* bound: user space stops answering above this vtime
    MaxRecords   \* bound: records between goland_enqueue and dispatch_task

ASSUME AccountingAssumption ==
    /\ Favoured \subseteq Tasks
    /\ UserSched \notin Tasks
    /\ Nobody \notin Tasks \cup {UserSched}
    /\ Weights \subseteq Nat \ {0}
    /\ SLICE_NS_DEFAULT \in Nat
    /\ \A w \in Weights : (SLICE_NS_DEFAULT * 100) \div w > 0
    /\ MaxTime \in Nat
    /\ MaxVtime \in Nat
    /\ MaxRecords \in Nat
    /\ TwoTo64 \in Nat
    /\ MaxTime < TwoTo64
    /\ IsFiniteSet(CPUs)

\* Vruntimes stay far below 2^64: one more start bonus and one more charge do
\* not wrap around.
ASSUME VtimeAssumption ==
    MaxVtime + SLICE_NS_DEFAULT * 100 + TwoTo64 \div 100 < TwoTo64

VARIABLES
    clock,          \* kernel: scx_bpf_now() on each CPU
    cur,            \* kernel: who runs on each CPU
    where,          \* kernel: whether a task sleeps, waits for a CPU, runs or is dead
    dsq_vtime,      \* kernel: p->scx.dsq_vtime
    tctx,           \* task storage: task_ctx of each task
    nr_running,     \* bss
    priority_tasks, \* BPF map: the pids in it
    queued,         \* records on their way to updatedEnqueueTask
    pool,           \* records on their way to dispatch_task
    minVruntime,    \* main.go
    ran,            \* history: ticks each task ran since it last slept
    moved           \* history: tasks whose affinity changed since they last slept

kernelVars == <<clock, cur, where>>
userVars == <<queued, pool, minVruntime>>
vars == <<clock, cur, where, dsq_vtime, tctx, nr_running,
          priority_tasks, queued, pool, minVruntime, ran, moved>>

U64 == 0 .. TwoTo64 - 1
TaskCtx == [start_ts : U64, stop_ts : U64, exec_runtime : U64]
Records == [pid : Tasks, start_ts : U64, stop_ts : U64, exec_runtime : U64,
            weight : Weights, vtime : U64]

\* The type invariant.
TypeOK ==
    /\ clock \in [CPUs -> 0 .. MaxTime]
    /\ cur \in [CPUs -> Tasks \cup {UserSched, Nobody}]
    /\ where \in [Tasks -> {"sleeping", "waiting", "running", "dead"}]
    /\ dsq_vtime \in [Tasks -> U64]
    /\ tctx \in [Tasks -> TaskCtx]
    /\ nr_running \in Nat
    /\ priority_tasks \subseteq Tasks
    /\ queued \in Seq(Records)
    /\ pool \in Seq([pid : Tasks, vtime : U64])
    /\ minVruntime \in U64
    /\ ran \in [Tasks -> Nat]
    /\ moved \subseteq Tasks

----------------------------------------------------------------------------
(***************************************************************************)
(* The callbacks.                                                          *)
(***************************************************************************)
\* Unsigned 64-bit arithmetic.
Add(a, b) == (a + b) % TwoTo64
Sub(a, b) == (a - b) % TwoTo64

\* Mutant: the task's run is taken to start when it becomes runnable.
goland_runnable_starts(p) ==
    \E c \in CPUs : tctx' = [tctx EXCEPT ![p].start_ts = clock[c], ![p].exec_runtime = 0]

goland_runnable(p) == tctx' = [tctx EXCEPT ![p].exec_runtime = 0]

\* Mutant: a task that starts is not counted.
goland_running_uncounted(c, p) ==
    IF p = UserSched THEN UNCHANGED <<nr_running, tctx>>
    ELSE /\ tctx' = [tctx EXCEPT ![p].start_ts = clock[c]]
         /\ UNCHANGED nr_running

\* The user-space scheduler is not counted.  running_task is left out: only the
\* priority branch of goland_enqueue reads it.
goland_running(c, p) ==
    IF p = UserSched THEN UNCHANGED <<nr_running, tctx>>
    ELSE /\ nr_running' = nr_running + 1
         /\ tctx' = [tctx EXCEPT ![p].start_ts = clock[c]]

\* Mutant: the user-space scheduler is counted off as well.
goland_stopping_everyone(c, p) ==
    /\ nr_running' = nr_running - 1
    /\ tctx' = IF p = UserSched THEN tctx
               ELSE [tctx EXCEPT ![p] = [@ EXCEPT !.stop_ts = clock[c],
                       !.exec_runtime = Add(@, Sub(clock[c], tctx[p].start_ts))]]

\* Mutant: the last run replaces the sum.
goland_stopping_last_run(c, p) ==
    IF p = UserSched THEN UNCHANGED <<nr_running, tctx>>
    ELSE /\ nr_running' = nr_running - 1
         /\ tctx' = [tctx EXCEPT ![p].stop_ts = clock[c],
                                 ![p].exec_runtime = Sub(clock[c], tctx[p].start_ts)]

goland_stopping(c, p) ==
    IF p = UserSched THEN UNCHANGED <<nr_running, tctx>>
    ELSE /\ nr_running' = nr_running - 1
         /\ tctx' = [tctx EXCEPT ![p].stop_ts = clock[c],
                                 ![p].exec_runtime = Add(@, Sub(clock[c], tctx[p].start_ts))]

\* The record for task p with context t.
get_task_info(p, t, weight) ==
    [pid |-> p, start_ts |-> t.start_ts, stop_ts |-> t.stop_ts,
     exec_runtime |-> t.exec_runtime, weight |-> weight, vtime |-> dsq_vtime[p]]

\* goland_enqueue sends a record, or dispatches the task without user space.
goland_enqueue(p) ==
    \/ UNCHANGED queued
    \/ /\ Len(queued) + Len(pool) < MaxRecords
       /\ \E w \in Weights : queued' = Append(queued, get_task_info(p, tctx'[p], w))

----------------------------------------------------------------------------
(***************************************************************************)
(* The kernel.                                                             *)
(***************************************************************************)
Tick(c) ==
    /\ clock[c] < MaxTime
    /\ clock' = [clock EXCEPT ![c] = @ + 1]
    /\ ran' = IF cur[c] \in Tasks THEN [ran EXCEPT ![cur[c]] = @ + 1] ELSE ran
    /\ UNCHANGED <<cur, where, dsq_vtime, tctx, nr_running, priority_tasks, userVars, moved>>

\* A task wakes up, or is dequeued and enqueued again for sched_setaffinity:
\* the kernel calls ops.runnable in both cases.
Enqueue(p) ==
    /\ where[p] \in {"sleeping", "waiting"}
    /\ where' = [where EXCEPT ![p] = "waiting"]
    /\ goland_runnable(p)
    /\ goland_enqueue(p)
    /\ \/ where[p] = "sleeping" /\ ran' = [ran EXCEPT ![p] = 0] /\ moved' = moved \ {p}
       \/ where[p] = "waiting" /\ moved' = moved \cup {p} /\ UNCHANGED ran
    /\ UNCHANGED <<clock, cur, dsq_vtime, nr_running, priority_tasks, pool, minVruntime>>

\* A CPU takes a waiting task, or the user-space scheduler.
Run(c, p) ==
    /\ cur[c] = Nobody
    /\ IF p = UserSched THEN \A b \in CPUs : cur[b] # p ELSE where[p] = "waiting"
    /\ cur' = [cur EXCEPT ![c] = p]
    /\ where' = [q \in Tasks |-> IF q = p THEN "running" ELSE where[q]]
    /\ goland_running(c, p)
    /\ UNCHANGED <<clock, dsq_vtime, priority_tasks, userVars, ran, moved>>

\* The task leaves its CPU: it sleeps (or leaves the class), is preempted with
\* slice left, or has used up its slice and is enqueued again.
Stop(c) ==
    LET p == cur[c] IN
    /\ p # Nobody
    /\ cur' = [cur EXCEPT ![c] = Nobody]
    /\ goland_stopping(c, p)
    /\ \/ /\ \E w \in {"sleeping", "waiting"} :
               where' = [q \in Tasks |-> IF q = p THEN w ELSE where[q]]
          /\ UNCHANGED queued
       \/ /\ p \in Tasks
          /\ where' = [where EXCEPT ![p] = "waiting"]
          /\ goland_enqueue(p)
    /\ UNCHANGED <<clock, dsq_vtime, priority_tasks, pool, minVruntime, ran, moved>>

\* A task comes back to the scheduling class.
goland_enable(p) ==
    /\ where[p] = "sleeping"
    /\ dsq_vtime' = [dsq_vtime EXCEPT ![p] = 0]
    /\ UNCHANGED <<kernelVars, tctx, nr_running, priority_tasks, userVars, ran, moved>>

NewCtx == [start_ts |-> 0, stop_ts |-> 0, exec_runtime |-> 0]

\* The task goes, and its task storage with it.
goland_exit_task(p) ==
    /\ where[p] = "sleeping"
    /\ where' = [where EXCEPT ![p] = "dead"]
    /\ priority_tasks' = priority_tasks \ {p}
    /\ tctx' = [tctx EXCEPT ![p] = NewCtx]
    /\ dsq_vtime' = [dsq_vtime EXCEPT ![p] = 0]
    /\ ran' = [ran EXCEPT ![p] = 0]
    /\ moved' = moved \ {p}
    /\ UNCHANGED <<clock, cur, nr_running, userVars>>

\* A new task with the pid of a dead one: fresh task storage, goland_enable.
goland_init_task(p) ==
    /\ where[p] = "dead"
    /\ where' = [where EXCEPT ![p] = "sleeping"]
    /\ UNCHANGED <<clock, cur, dsq_vtime, tctx, nr_running, priority_tasks, userVars, ran, moved>>

----------------------------------------------------------------------------
(***************************************************************************)
(* The user-space scheduler, and dispatch_task.                            *)
(***************************************************************************)
saturating_sub(a, b) == IF a > b THEN a - b ELSE 0

\* Mutant: a task without a vruntime starts at the floor.
Vruntime_no_bonus(r, min) ==
    LET floor == saturating_sub(min, SLICE_NS_DEFAULT) IN
    IF r.vtime < floor \/ r.vtime = 0 THEN floor ELSE r.vtime

\* The vruntime of record r before its last run is charged: min is the largest
\* vruntime seen so far.
Vruntime(r, min) ==
    LET floor == saturating_sub(min, SLICE_NS_DEFAULT) IN
    IF r.vtime = 0 THEN Add(floor, (SLICE_NS_DEFAULT * 100) \div r.weight)
    ELSE IF r.vtime < floor THEN floor
    ELSE r.vtime

updatedEnqueueTask ==
    LET r == Head(queued)
        min == IF minVruntime < r.vtime THEN r.vtime ELSE minVruntime
        charge == ((Sub(r.stop_ts, r.start_ts) * r.weight) % TwoTo64) \div 100
        vtime == Add(Vruntime(r, min), charge)
    IN  /\ queued # <<>>
        /\ vtime <= MaxVtime
        /\ minVruntime' = min
        /\ queued' = Tail(queued)
        /\ pool' = Append(pool, [pid |-> r.pid, vtime |-> vtime])
        /\ UNCHANGED <<kernelVars, dsq_vtime, tctx, nr_running, priority_tasks, ran, moved>>

Without(s, i) == SubSeq(s, 1, i - 1) \o SubSeq(s, i + 1, Len(s))

\* The insertion writes dsq_vtime even if the task is no longer waiting for it.
\* A record without a usable target CPU leaves priority_tasks alone.
dispatch_task(i) ==
    LET p == pool[i].pid
        vtime == IF p \in Favoured THEN 0 ELSE pool[i].vtime
        Insert == dsq_vtime' = [dsq_vtime EXCEPT ![p] = vtime]
    IN  /\ pool' = Without(pool, i)
        /\ \/ where[p] = "dead" /\ UNCHANGED <<dsq_vtime, priority_tasks>>
           \/ where[p] # "dead" /\ Insert /\ UNCHANGED priority_tasks
           \/ /\ where[p] # "dead"
              /\ IF vtime = 0 /\ p \in priority_tasks THEN UNCHANGED dsq_vtime ELSE Insert
              /\ priority_tasks' = IF vtime = 0 THEN priority_tasks \cup {p} ELSE priority_tasks \ {p}
        /\ UNCHANGED <<kernelVars, tctx, nr_running, queued, minVruntime, ran, moved>>

----------------------------------------------------------------------------
Init ==
    /\ clock \in [CPUs -> {0}]
    /\ cur = [c \in CPUs |-> Nobody]
    /\ where = [p \in Tasks |-> "sleeping"]
    /\ dsq_vtime = [p \in Tasks |-> 0]
    /\ tctx = [p \in Tasks |-> NewCtx]
    /\ nr_running = 0
    /\ priority_tasks = {}
    /\ queued = <<>>
    /\ pool = <<>>
    /\ minVruntime = 0
    /\ ran = [p \in Tasks |-> 0]
    /\ moved = {}

Next ==
    \/ \E c \in CPUs : Tick(c) \/ Stop(c) \/ (\E p \in Tasks \cup {UserSched} : Run(c, p))
    \/ \E p \in Tasks : Enqueue(p) \/ goland_enable(p) \/ goland_exit_task(p) \/ goland_init_task(p)
    \/ updatedEnqueueTask
    \/ \E i \in DOMAIN pool : dispatch_task(i)

Spec == Init /\ [][Next]_vars

----------------------------------------------------------------------------
(***************************************************************************)
(* Properties.                                                             *)
(***************************************************************************)
\* The run a record reports has ended: (StopTs - StartTs) * Weight in
\* updatedEnqueueTask, on unsigned integers, never gets a start after the stop,
\* although the task moves between CPUs whose clocks disagree.
RunsForward == \A i \in DOMAIN queued : queued[i].start_ts <= queued[i].stop_ts

\* What exec_runtime will hold when the task stops.
Measures(p) ==
    tctx[p].exec_runtime
    + (IF where[p] = "running" THEN clock[CHOOSE c \in CPUs : cur[c] = p] - tctx[p].start_ts ELSE 0)

\* exec_runtime never exceeds the time the task really ran since it last slept,
\* over all CPUs, and is that time unless the affinity of the task was changed in
\* between: goland_runnable then starts again from 0 although the task did not
\* sleep.
ExecRuntimeExact ==
    \A p \in Tasks : Measures(p) <= ran[p] /\ (p \notin moved => Measures(p) = ran[p])

\* nr_running is the "amount of currently running tasks", the user-space
\* scheduler excluded.
NrRunningExact == nr_running = Cardinality({c \in CPUs : cur[c] \in Tasks})

\* No task gets into priority_tasks unless user space meant it: the arithmetic
\* of updatedEnqueueTask never gives a vruntime of 0, which the BPF half takes
\* for a request.
NoAccidentalPriority == priority_tasks \subseteq Favoured
===============================================================================
