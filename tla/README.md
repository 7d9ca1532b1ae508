# A TLA+ verification project for scx_goland_core

scx_goland_core is a Linux CPU scheduler in two halves. The **BPF half**
(`src/main.bpf.c`) is a set of sched_ext callbacks: it takes runnable tasks from the
kernel and gives them back through dispatch queues (DSQs). The **user-space half**
(`src/goland_core/`, with the sample scheduler `src/main.go`) decides the order. Tasks
travel between the two as records in ring buffers, so every scheduling decision is a
short distributed protocol: the task may exit, change its affinity, run, or be enqueued
again while its record is on the way.

This directory holds TLA+ models of that protocol, TLC configurations that check them on
small instances, and TLAPS proofs of every safety property for all instances.

## Inventory

| Component | State | Operations | Interacts through |
|---|---|---|---|
| Task custody (BPF half) | `priority_tasks` map, `queued` and `dispatched` rings; kernel: `ops_state`, DSQs, dispatch buffers | `goland_select_cpu`, `goland_enqueue`, `goland_dispatch`, `dispatch_task`, `goland_init_task`, `goland_exit_task` | records to and from user space, kfuncs of sched_ext |
| Idle CPU selection | idle masks (kernel), per-CPU cache domains, per-task scratch masks | `pick_idle_cpu`, `try_direct_dispatch`, `kick_task_cpu`, `rs_select_cpu`, `enable_sibling_cpu` | idle bits shared with the kernel; a CPU number carried in a record |
| Wake-up of the user-space scheduler | `usersched_needed`, `usersched_last_run_at`, `SCHED_DSQ`, heartbeat timer | `usersched_timer_fn`, `goland_cpu_release`, the head and tail of `goland_dispatch` | the flag; `nr_queued`, `nr_scheduled` |
| Scheduling goroutine | Go channels `queue`, `dispatch`; counters in bss | main loop, `DequeueTask`, `BlockTilReadyForDequeue`, `DispatchTask`, `NotifyComplete` | channels fed by libbpfgo goroutines, counters mapped into both halves |
| Task pool | a ring of 4096 slots sorted by deadline | `DrainQueuedTask`, `InsertTaskToPool`, `GetTaskFromPool` | called by the goroutine |
| vruntime and slices | `minVruntime` | `updatedEnqueueTask`, slice formula | fields of a record |
| Accounting | `start_ts`, `stop_ts`, `exec_runtime`, `nr_running`, `running_task` | `goland_runnable`, `goland_running`, `goland_stopping`, `goland_enable` | fields of a record |
| Loader, exit info, encoding | rodata, links, maps | `LoadModule`, `Start`, `Attach`, `uei`, `fastDecode`/`fastEncode` | libbpf |

What is hard in this code:

* **interleavings**: `dispatch_task` runs on one CPU while the task's affinity, or the
  task itself, changes on another; two calls of `pick_idle_cpu` share one task's scratch
  masks; `sub_nr_queued` decrements a counter without a lock while BPF programs add to it;
* **stale messages**: a record outlives the enqueue it stands for, and pids are reused;
* **time**: timestamps are taken on CPUs whose clocks disagree and subtracted as unsigned
  integers; a vruntime of 0 is not a number but a request for priority;
* **limits**: a full `queued` ring, a full dispatch buffer, full channels, a full pool;
* **liveness**: nobody schedules the scheduler but the heartbeat; the goroutine waits for
  a batch of ten, on a channel it also writes to.

What makes each part correct: no task handed to `goland_enqueue` is forgotten, and none is
put where no CPU takes it (custody); a claimed CPU is woken up, and the closest one that stays
idle is found (idle selection); a scheduler that can run does run (wake-up); a record is
answered exactly once and `nr_queued` never wraps (goroutine); the ring is a sorted bag
(pool); a run that is charged has ended, run times add up, and no task becomes a priority
task by arithmetic (accounting, vruntime). `PROJECT.json` lists the hazards with their lines.

## Modules

| Module | Models | Kind |
|---|---|---|
| `BpfBackend` | task custody, `main.bpf.c` | component, uses `UserRelay` |
| `UserRelay` | what the BPF half relies on from user space | abstract specification, checked from both sides |
| `UserSched` | goroutine, channels, shared counters | component, implements `UserRelay` |
| `SortedPool` | a sorted bag of bounded size | abstract specification |
| `TaskPool` | the ring of `main.go` | component, implements `SortedPool` |
| `IdleCpus` | idle CPU selection and kicks | component |
| `Heartbeat` | wake-up of the user-space scheduler | component |
| `Accounting` | timestamps, run times, vruntime: `main.bpf.c` and `main.go` together | component |
| `MCBpfBackend`, `MCUserSched`, `MCIdleCpus`, `MCAccounting` | model values and symmetry for TLC | instances |
| `BpfBackendProofs`, `UserSchedProofs`, `TaskPoolProofs`, `IdleCpusProofs`, `HeartbeatProofs`, `AccountingProofs` | TLAPS proofs about the component of that name | proofs |

Every variable keeps its name in the source where it has one. Variables marked "kernel" in
a module, and the actions that only move them, stand for sched_ext and the Linux scheduler,
which are not part of this repository; they follow the rules the code relies on. An
operator whose comment starts with "Mutant" is a plausible bug of the definition below
it: replacing the definition by it breaks a property.

### BpfBackend

A task is `blocked`, in BPF custody (`bpf`, the kernel's QUEUED state), in a `dsq`, in a
`local` DSQ, `running` or `dead`. `goland_enqueue(p, m, wakeup)` is the set of outcomes of
that callback, since what it does depends only on the ring, the map and the answer of
`pick_idle_cpu` (any CPU or none here; `IdleCpus` looks inside). The kernel's actions
`Wakeup`, `SliceEnd`, `SetAffinity` call it. The fall-through of a priority task
(inserted in a local DSQ *and* sent to user space) and the second insertion when the ring
is full are modelled as they are written.

`goland_dispatch` is cut wherever another CPU can interfere: `goland_dispatch` (the
user-space scheduler's slot), `dispatch_task` (lookup, `RL_CPU_ANY`, first cpumask test,
bounce), `InsertOnTarget`, `update_priority_task_map`, `RecheckTarget` (second cpumask test
and cancel), then `handle_dispatched_task`'s result, `Flush` slot by slot and `Consume`.
One CPU at a time drains `dispatched` (the others get `-EBUSY`). A dispatch-buffer slot is
`fresh` while the task is in the very enqueue that was current at the insertion: this is
the sequence number of `ops_state`. Breaking a rule for which the kernel ejects a scheduler
sets `scx_error`, after which nothing happens.

The life of a pid has three steps. `ReleaseTask` is the kernel's `release_task`: the pid is free,
and records that name it are ignored unless a `dispatch_task` has looked the task up before
(`gone`: the CPUs that hold a reference to a released task). `goland_exit_task` comes after the last such
reference is dropped. `goland_init_task` may give the pid to a new task before or after that; if
before, the new task inherits the old one's entry in `priority_tasks`, and the late
`goland_exit_task` deletes it under the new task's feet. `exiting` are the pids whose old
task is still to be freed.

A vtime is 0 (priority task) or 1 (any other), the only distinction the BPF half makes.

`Spec` has no fairness and is what the proofs are about; `FairSpec` adds the fairness of the CPUs, and
of nothing else. `LeavesCustody` (a task in BPF custody gets to a dispatch queue) has the promise it needs
from user space as a premise: `AnswersAll`, that every record is answered.

### UserSched and UserRelay

`UserSched` follows the loop of `main.go` step by step: `GetTaskFromPool`, the fill loop,
`DrainQueuedTask` (which returns 0 for a full pool, whatever it counted),
`BlockTilReadyForDequeue` (which receives a record and sends it back), `DispatchTask`
(checks `urb.Error()`, then a blocking send) and `NotifyComplete`. `sub_nr_queued` is a
test, any number of loads and a store, because the C code is neither atomic nor volatile.
`Submit` and `AddNrQueued` are separate, as in `goland_enqueue`. `PollSend` and `UrbSend`
are libbpfgo's goroutines. The pool is a bag here: its order is `TaskPool`'s subject.

`UserRelay` is the contract: records are taken in order, held, and each is answered once;
records are dropped only after a write to `dispatched` failed (`main.go` logs it and goes
on). It is the interface at which the two halves are composed, and it is checked on both sides:
`IsUserRelay` says that the goroutine, with its channels and pool, does nothing else, and
`UsesUserRelay` that the user side `BpfBackend` is written against (`UserDequeue`,
`UserDispatch`) assumes nothing else. So every safety property of `BpfBackend` holds with `UserSched`
as its user half, without the product of the two state spaces. Liveness does not compose for free: the
premise `AnswersAll` of `LeavesCustody` is not part of the contract, since `main.go` answers nobody before ten
tasks are in the pool, and can block for good (`resend_blocks`). It is what `ProcessedUnderLoad` concludes, on
a machine where tasks keep arriving and nothing fails or fills up.

### TaskPool and SortedPool

Head, tail, count and slots as in `main.go`; `InsertIdx` is the result of the search loop,
`Shifted` the backward shift with wrap-around. `SortedPool` is a bag from which a task that
no other precedes is taken, with its number of tasks. `Live` is the ring read from its head, and
`LiveBag` the bag the refinement maps it to. A pooled task has a vtime and a run time; the deadline is their
sum as in `updatedEnqueueTask`.

### IdleCpus

Each attempt of `pick_idle_cpu` is a step (the order is in `Where`), so CPUs go idle or busy,
others claim them, and affinities change between attempts. A task that may not run
everywhere searches in its own scratch masks, which a second caller may overwrite. A CPU that is in no
list of an L2 or L3 cache has a NULL domain, for which the search takes the task's whole mask; a task
whose migration is disabled (`pinned`) looks at its previous CPU only.

CPUs are claimed by wakers in the kernel (serialised per task by `pi_lock`) in `try_direct_dispatch`, by a priority
task in `goland_enqueue`, by `kick_task_cpu`, by the heartbeat timer, and by `rs_select_cpu`, whose claim
travels in a record until `dispatch_task`. The kick is where the code has it: in `try_direct_dispatch` only
for a CPU the task cannot use, else in its callers.

History variables: `alone` are the searches that no other one for the same task overlaps; `avail` and
`availCore` the usable CPUs (and those in full-idle cores) that were idle during the whole of such a
search; `userClaimed` the CPUs that `rs_select_cpu` claimed and that have not been idle or busy since.
A search that is not alone promises nothing: its masks may be those of the other one, made for another
previous CPU.

### Heartbeat

`usersched_needed` with its three setters, the slot `dispatch_user_scheduler` inserts
(the kernel ignores it unless the scheduler waits to be dispatched: `scx_bpf_dsq_insert`), the drain of one
CPU at a time (the others get `-EBUSY`), `SCHED_DSQ` as the last queue
consumed, the timer, and the scheduler's own slice. Time is one bit: whether the heartbeat
period has passed since the scheduler last started to run. Other tasks are two numbers: those in
a DSQ (`work`) and those whose record waits in `dispatched`, of which each `goland_dispatch` takes
one. `goland_cpu_release` may or may not set the flag, whoever loses the CPU: it looks at `args->task`,
which is the task that takes the CPU. Nothing tells a CPU that a record was written to that ring, so draining it depends on
the same wake-ups as the scheduler does.

### Accounting

The life of a number: `goland_running` and `goland_stopping` write timestamps, `get_task_info`
copies them into a record, `updatedEnqueueTask` turns them into a vruntime, `dispatch_task` writes
that to `dsq_vtime`, and the next record carries it back. The module also has `nr_running`, which the
same callbacks keep. Arithmetic is modulo `TwoTo64`, and each CPU has a clock of its own.

The kernel rules it relies on: `ops.runnable` precedes the enqueue of a wake-up and of an
affinity change; `ops.running` and `ops.stopping` come in pairs on one CPU, and a task that ran is
enqueued only after `ops.stopping`; `scx_bpf_now()` never goes back on a CPU. The queues are left
out: a waiting task may be run at any time, and the pool is answered in any order, so a late
record may overwrite the `dsq_vtime` of a newer one, as in the code. `ran`, the time
since the task last slept, and `moved`, the tasks whose affinity changed since then, are history variables.
`Favoured` are the tasks for which a user of the library returns vtime 0; there are none in
`main.go`, and `NoAccidentalPriority` says that no other task gets into `priority_tasks`. This is
the premise `0 \notin Vtimes` of the proofs about `BpfBackend`.

## Runs

`tlc -config <cfg> <module>` in this directory.

| Run | Result | Shows |
|---|---|---|
| `custody` | pass, 525k states | `TypeOK`, `NoLostTask`, `NoStrandedTask`, `CancelsOwnSlot`, `NoScxError`, and `LeavesCustody`: two CPUs, affinity changes at any point, pid reuse before and after `goland_exit_task`; user space never returns vtime 0 |
| `custody_mixed` | pass, 176k | no losses and errors with a kernel task, a scheduler thread and two ordinary tasks that compete for a ring of one record; `UsesUserRelay` |
| `custody_priority` | pass, 3.4M | what survives when vtime 0 is used: `NoStrandedTask`, and `PriorityCleanedUp`: no entry outlives `goland_exit_task` |
| `priority_lost` | violation | `NoLostTask` fails with vtime 0 |
| `drain_all` | violation | `goland_dispatch` does not consume all of `dispatched` |
| `pool` | pass, 125k | the ring implements `SortedPool` (`IsSortedPool`); its three tests for full and empty agree |
| `relay` | pass, 25k | `IsUserRelay`, `NrQueuedNeverWraps`, with every buffer full at some point and failed writes; while the scheduler is healthy, `BatchIsDispatched` and `ProcessedUnderLoad`: as long as tasks keep arriving every record is answered |
| `resend_blocks` | violation | the goroutine blocks on its own channel |
| `idle` | pass, 1.2M | `KernelClaimsKicked`: every claim of the kernel side ends in a kick; `ClosestIdle`: a search that is alone finds the closest idle CPU; both with the timer and `rs_select_cpu` at work |
| `idle_locked` | violation | `NoIdleLocked`: a CPU that `rs_select_cpu` claimed is left neither idle nor kicked |
| `heartbeat` | pass, 23k | `UserschedRuns`; `RecordsAreDrained`: the drain never stops for good with records left |
| `accounting` | pass, 3.8M | `RunsForward`, `ExecRuntimeExact`, `NrRunningExact`, `NoAccidentalPriority`: a priority task and an ordinary one, two weights, two CPUs with unrelated clocks, pid reuse |

**Bounds.** `HeldCap`, `MaxRecords`, `MaxNrQueued`, `MaxWork`, `MaxTime`, `MaxVtime` cut
unbounded counters, and
are named as bounds where they are declared; the ring, channel and pool sizes are the
code's limits made small, so that every "full" branch is taken. Two CPUs are enough for a
`dispatch_task` to race with a second drain and with a flush; one task is enough for a
record to race with later enqueues of its own task, and `custody_mixed` and `drain_all` have
several. `MaxBatch` is 3, the least value at which a dispatch buffer holds the scheduler's
slot, a record's slot and one more. At most one released task per pid waits for its
`goland_exit_task`. `idle` uses three CPUs, two of them an SMT pair with a common L2 cache and the third in
no L2 list, a mask with two CPUs and one with all, and pinned tasks; wakers search from one
CPU of the pair (`PrevCPUs`), which may be outside the mask, and user space from the one without an L2 list
(`UserPrevCPUs`), so that overlapping searches want different scratch masks. `custody` keeps one record in user space and
one in `dispatched`, since a liveness check costs more and the safety part is proved for
all bounds. In `accounting` a clock has two instants: enough for a start on a CPU that is ahead
followed by a stop on one that is behind, and for one task to run on both; `MaxVtime` is three
slices, so that the floor is above 0 and a task can fall below it. One record at a time is on
its way there, which is enough for it to be overtaken by later runs and exits of its task.

**Deadlock.** It is checked except where the system may really stop: an ejected scheduler
(`custody_priority`, `priority_lost`) and a goroutine blocked for good
(`relay`, `resend_blocks`).

**Fairness.** `IdleCpus` and `Accounting` have none; only safety is claimed. `BpfBackend`'s
`FairSpec` has weak fairness of each CPU's steps (a CPU with something to do is kicked or finds it
at the heartbeat, which is what `RecordsAreDrained` shows) and nothing of user space: that is the premise of
`LeavesCustody`. `UserSched`:
weak fairness of the goroutine, of libbpfgo's two goroutines, of the increment that follows
a submitted record, and of the drain of `dispatched` (the Go runtime runs every runnable
goroutine; an eBPF program runs to its end; CPUs keep calling `goland_dispatch`). No task
is assumed to wake up: `ProcessedUnderLoad` has that as a premise, and both liveness properties
have the premise `Healthy` (no failed write, no block on the own channel: `resend_blocks`). The
reload of `nr_queued` is not fair: it is a choice of the compiler. `Heartbeat`: weak fairness of
the callbacks, the timer and time; strong fairness of `Pick` and of the end of the scheduler's
run, because a task that is interrupted by higher classes over and over still uses up its slice.
`UserschedRuns` has as premise that
tasks stop being added before the scheduler in the DSQs: `SCHED_DSQ` is consumed last, so
without it the scheduler can starve, as the comment in `goland_dispatch` intends ("it will
run only if no other task needs to run").

## Where code and comments disagree

Kept as runs:

* `priority_lost` (`main.bpf.c:688`): a priority task whose dispatch was cancelled stays
  runnable without any record.
* `drain_all` (`main.bpf.c:1051`): the callback's result is inverted with respect to "Consume
  all tasks from the @dispatched list"; one record is handled per `goland_dispatch`. It
  costs latency, not correctness: `NoLostTask` holds with it.
* `resend_blocks` (`goland_core/task.go:34`): with a full pool the goroutine waits for the channel instead of
  dispatching, and blocks for good: on an empty channel if nothing arrives any more, or in its own resend to
  a full one.
* `idle_locked` (`main.bpf.c:841`): `rs_select_cpu` is to "Select and wake-up an idle CPU", but only
  the last statement of `dispatch_task` kicks it, which a record that is ignored, bounced or cancelled does not
  reach.

Seen in the models while they were built, and not kept as runs:

* `main.bpf.c:706` cancels even when nothing was inserted (vtime 0, known priority task).
* `main.bpf.c:997` inserts a priority task a second time when the ring is full.
* `main.bpf.c:658-672`: records for `RL_CPU_ANY` and bounced ones never reach
  `update_priority_task_map`.
* `main.go:174`: fewer than ten tasks wait until others arrive (hence the premise of
  `ProcessedUnderLoad`).
* `wrapper.c:53-57`: `nr_queued` drifts from the number of queued records; it never wraps.
* `main.go:199`: tasks in the pool are invisible to `usersched_has_pending_tasks` until the
  first dispatch.
* `main.bpf.c:1474`: between `release_task` and `ops.exit_task` a new task with the same pid inherits the
  priority of the old one; the late `goland_exit_task` then deletes the new task's entry.
* `main.bpf.c:507`, `:516`: the search of `rs_select_cpu` overwrites the scratch masks of a waker of the same task,
  which may then pass over the closest CPU (hence `alone` in `ClosestIdle`).
* `main.bpf.c:483`: with an L3 domain but no L2 domain known, the attempt meant for the L2 domain looks at
  the whole mask, so a CPU outside the L3 domain may win.
* `main.bpf.c:1195`: the comment speaks of the scheduler being interrupted; `args->task` is the task that
  interrupts.
* `main.bpf.c:528`, `:566`: the previous CPU is claimed without a test of the task's mask; the
  callers test it afterwards.
* `main.bpf.c:1051`: a record left in `dispatched` when every CPU goes idle waits for the
  heartbeat.
* `main.bpf.c:1183` says "since last sleep"; `exec_runtime` is also reset when the affinity of a
  runnable task changes (`moved` in `ExecRuntimeExact`).
* `main.go:58` divides by the weight, `:62` multiplies by it: a heavier task is charged more.
* `main.go:62` charges the last run once per record: twice when a waiting task is enqueued again,
  not at all when it was dispatched without user space.
* `main.bpf.c:1026`: the "infinite" slice of the scheduler is `default_slice`.
* `README.md:39` says lowest vruntime first; `main.go:103` orders by deadline.

## Proofs

`tlapm <module>` in this directory. Each theorem holds for every value of the constants its
component's named ASSUMEs allow; the last column is what it assumes beyond them.

| Module | Theorem | States | Also assumes |
|---|---|---|---|
| `BpfBackendProofs` | `TypeCorrect` | `Spec => []TypeOK` | |
| | `PriorityCleanedUpCorrect` | `Spec => []PriorityCleanedUp` | |
| | `NoLostTaskCorrect` | `Spec => []NoLostTask` | `0 \notin Vtimes` |
| | `NoStrandedTaskCorrect` | `Spec => []NoStrandedTask` | |
| | `CancelCorrect` | `Spec => []CancelsOwnSlot` | `0 \notin Vtimes` |
| | `NoScxErrorCorrect` | `Spec => []NoScxError` | `0 \notin Vtimes` |
| | `RelayUse` | `Spec => UsesUserRelay` | |
| `UserSchedProofs` | `TypeCorrect` | `Spec => []TypeOK` | |
| | `NrQueuedCorrect` | `Spec => []NrQueuedNeverWraps` | |
| | `RelayRefinement` | `Spec => IsUserRelay` | |
| `TaskPoolProofs` | `TypeCorrect` | `Spec => []TypeOK` | |
| | `TestsCorrect` | `Spec => []TestsAgree` | |
| | `SortedPoolRefinement` | `Spec => IsSortedPool` | |
| `IdleCpusProofs` | `TypeCorrect` | `Spec => []TypeOK` | |
| | `KernelClaimsKickedCorrect` | `Spec => []KernelClaimsKicked` | |
| | `ClosestIdleCorrect` | `Spec => []ClosestIdle` | |
| `HeartbeatProofs` | `TypeCorrect` | `Spec => []TypeOK` | |
| `AccountingProofs` | `TypeCorrect` | `Spec => []TypeOK` | |
| | `RunsForwardCorrect` | `Spec => []RunsForward` | |
| | `NrRunningCorrect` | `Spec => []NrRunningExact` | |
| | `NoAccidentalPriorityCorrect` | `Spec => []NoAccidentalPriority` | |
| | `ExecRuntimeCorrect` | `Spec => []ExecRuntimeExact` | `[]NoOverflow` |

**The assumptions.**

* `0 \notin Vtimes` is what the sample scheduler does: `updatedEnqueueTask` raises a zero
  vtime, which is `NoAccidentalPriorityCorrect`. It cannot be dropped from `NoLostTaskCorrect`:
  `priority_lost` is the counterexample.
* `VtimeAssumption` (in `Accounting`): `MaxVtime`, the bound on vruntimes, leaves room in a u64 for
  one start bonus and one charge (a product modulo 2^64, divided by 100): vruntimes up to 98% of
  2^64 are covered. Beyond that the sum could wrap around to 0, a request for priority.
* `[]NoOverflow`: no task runs for 2^64 ns, more than 500 years, without a sleep. `ran`, the history
  variable, does not wrap while `exec_runtime` does.
* `IsFiniteSet(CPUs)` (in `Accounting`): `nr_running` counts them.

**BpfBackend.** `NoLostTask` is not inductive. The record that represents a task in BPF custody
leaves `dispatched` and becomes the local state of `dispatch_task`, then a slot, and the slot may
be cancelled because the affinity changed; then the task must have another record. The
argument is that an affinity change of a task in BPF custody enqueues it again, which
makes its slots stale and puts a new record in the ring. The invariant says so in parts:

* `TypeInv`: `TypeOK`, `PriorityCleanedUp`, and `HandlesTask`: the record being handled names a
  CPU of the system and a task that is not dead, or one that was released and is still to be freed;
* `Control`: `NoPriority` (the map stays empty), `Handling` (the drain stops after each
  record, and no record being handled has vtime 0), `BufferShape` (what a buffer can hold at
  each program counter: at most two slots, and before a cancel the last one is the task's
  own), `NoScxError`;
* `FreshSlots`: a fresh slot belongs to a task in BPF custody and names `SHARED_DSQ` or a CPU
  of its current mask, except for the last slot while `dispatch_task` still has to test it;
* `NoLostTask` itself.

One lemma describes the outcomes of `goland_enqueue` (`Outcome`), and the step lemmas have one
case per action. `TypeInv` is proved on its own first, because it holds for all vtimes.

`NoStrandedTask` also holds for all vtimes, with an invariant of its own, `SInv`. With vtime 0 a
record may insert nothing, so a cancel may hit another slot or an empty buffer. What survives is
`Targets`: until the flush, the only slot that can be fresh is the one `dispatch_task` has just
inserted, and it names the CPU that the second test looks at; a flushed one has passed that test, and
an affinity change since then has made it stale. `RelayUse`
maps `dispatched` to its pids (`Answers`); a step of the BPF half appends to `queued`, takes the
head of `dispatched`, or leaves both alone.

**UserSched.** `NrQueuedNeverWraps` needs `CounterPositive`: between the test of `sub_nr_queued` and
its store the counter stays positive, because BPF programs only add to it and the goroutine is its only
subtractor. `HandShape` says at which program counters a record is in hand, `RoomLeft` that the pool has
room for it, `PoolCounted` that `taskPoolCount` is the size of the pool; `Fits` is the bound on the channels. The refinement maps
`held` to the number of copies of each pid in the poller, the channels, the hand and the pool (`Held`); the
lemmas count a pid in a sequence before and after `Append`, `Tail` and concatenation. A resend
moves a record from the hand back to a channel, which is a stutter of the relay.

**TaskPool.** The invariant is `Ring` (the tail is `taskPoolCount` slots after the head, modulo the
size), `LiveTasks` (no cleared slot between them) and `Sorted` (the ring read from its head is in the
order of deadlines). The main lemma describes one insertion by `Live`: what was before `InsertIdx` stays,
what was after it moves by one, across the end of the array or not; it rests on arithmetic modulo the
ring size (`At`, `Distance`). The bag of the refinement is the cardinality of each task's positions in
`Live`, and its head is minimal by `Sorted`.

**IdleCpus.** `KernelClaimsKicked` needs `WakerFrames`: a waker holds a claimed CPU only between the claim and the
kick. `ClosestIdle` needs three facts: the scratch masks of a search that is alone hold the
task's part of the previous CPU's domains for the whole call (`MasksRight`, with `ScratchKept` for the steps of
the other callers); each mask it looks at covers the CPUs at that distance (`Covers`, which is where NULL domains and
masks that changed meanwhile are dealt with); therefore each attempt that failed rules its domain
out for the CPUs that were idle all the time (`AllRuledOut`).

**Heartbeat.** `Bounded` is for the types: a drained record becomes work, so the two share a bound. What the
module is about is liveness, which stays with TLC.

**Accounting.** `Placed` (a task is running exactly if one CPU runs it) and `Timed` (the last run of a
task that does not run has ended; the start of one that runs is in the past of its own CPU's clock) give
`RunsForward` and `ExecRuntimeExact` with no relation between the clocks (`Measured`). `Carried` follows the numbers through records,
pool and `dsq_vtime`: every answer is at least 1 and at most `MaxVtime`. Every inductive invariant was
checked with TLC on the instances of the runs before it was proved.

**Model-checked only.** Liveness, which the provers cannot do: `LeavesCustody`, `BatchIsDispatched`,
`ProcessedUnderLoad`, `UserschedRuns`, `RecordsAreDrained`. And the four violations, which are
counterexamples.

## Not modelled

* Loader, rodata, skeleton, attachment and exit information: one sequence of libbpf calls at start,
  without a state to go wrong between them that the code handles; a failure ends the process.
* Shutdown: `main.go` closes the module while its goroutine may still run; what happens then is
  decided by libbpfgo and the Go runtime.
* Wire encoding: fixed-offset copies of fields; records are reduced to the fields each module needs.
* The slice formula: it has no state. Its divisor is positive as long as `nr_queued` does not wrap.
* The capacity of `priority_tasks` (4096).
* `running_task`: its one reader chooses between two insertion flags of a priority task (preempt, or queue at the
  head), which the custody model does not tell apart.
* Parsing of the sysfs cache lists; the lists themselves are constants of `IdleCpus`.
* `ReadyForDequeue`, `PreemptCpu`, `calcAvg` and `now`, which nothing calls.

## Plan

What can be modelled faithfully is modelled, and each safety property of a passing run has a theorem.
What is left is upkeep:

1. `BpfBackend` with vtime 0: how much of `CancelsOwnSlot` and `NoLostTask` can be saved, stated for the
   tasks that are never in `priority_tasks`.
2. Lemmas shared by the step lemmas of `BpfBackendProofs` (`IInv` and `SInv` describe the same buffers)
   and of `IdleCpusProofs`.
