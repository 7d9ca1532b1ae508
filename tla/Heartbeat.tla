------------------------------ MODULE Heartbeat ------------------------------
(***************************************************************************)
(* How the user-space scheduler itself gets a CPU (main.bpf.c).  Nobody     *)
(* schedules the scheduler: goland_enqueue ignores it, and it runs only     *)
(* when goland_dispatch finds usersched_needed set, inserts it in           *)
(* SCHED_DSQ and has nothing else to run.  The flag is set by the heartbeat *)
(* timer, by goland_dispatch when work is pending, and by                   *)
(* goland_cpu_release.                                                      *)
(*                                                                         *)
(* Time is abstracted to whether USERSCHED_TIMER_NS have passed since the   *)
(* scheduler started to run; all other tasks to how many wait in a DSQ or   *)
(* have a record in @dispatched.                                           *)
(***************************************************************************)
EXTENDS Integers

CONSTANTS
    CPUs,
    MaxWork     \* bound: other tasks waiting in DSQs or in @dispatched

ASSUME HeartbeatAssumption == CPUs # {} /\ MaxWork \in Nat

VARIABLES
    usersched,          \* where the scheduler's main thread is
    usersched_needed,   \* the wake-up flag
    slot,               \* CPUs whose dispatch buffer has a valid slot for it
    inactive,           \* usersched_last_run_at is USERSCHED_TIMER_NS ago
    pending,            \* nr_scheduled is not 0, or @queued holds data
    work,               \* other tasks in the DSQs
    dispatched,         \* records in @dispatched
    cpu,                \* what each CPU does
    prev,               \* kernel: who is still runnable on a CPU that picks
    idle,               \* kernel: the idle mask
    kicked              \* kernel: CPUs asked to reschedule

vars == <<usersched, usersched_needed, slot, inactive, pending, work, dispatched, cpu, prev, idle, kicked>>

\* The type invariant.
TypeOK ==
    /\ usersched \in {"blocked", "bpf", "dsq", "local", "running", "expired"}
    /\ usersched_needed \in BOOLEAN
    /\ slot \subseteq CPUs
    /\ inactive \in BOOLEAN
    /\ pending \in BOOLEAN
    /\ work \in 0 .. MaxWork
    /\ dispatched \in 0 .. MaxWork
    /\ cpu \in [CPUs -> {"idle", "pick", "drain", "flush", "task", "usersched", "rt", "rt_usersched"}]
    /\ prev \in [CPUs -> {"none", "task", "usersched"}]
    /\ idle \subseteq {c \in CPUs : cpu[c] = "idle"}
    /\ kicked \subseteq {c \in CPUs : cpu[c] = "idle"}

----------------------------------------------------------------------------
Be(c, what) == cpu' = [cpu EXCEPT ![c] = what]

\* scx_bpf_kick_cpu(c, SCX_KICK_IDLE).
Kick(c) == kicked' = IF cpu[c] = "idle" THEN kicked \cup {c} ELSE kicked

\* A wake-up reschedules an idle CPU; goland_select_cpu and goland_enqueue
\* leave the scheduler alone.
Wakeup ==
    /\ usersched = "blocked"
    /\ usersched' = "bpf"
    /\ \E c \in CPUs : Kick(c)
    /\ UNCHANGED <<dispatched, prev, usersched_needed, slot, inactive, pending, work, cpu, idle>>

\* An idle CPU that was kicked, or one whose task slept or used up its slice,
\* picks a task.
Pick(c) ==
    /\ \/ c \in kicked /\ UNCHANGED prev
       \/ cpu[c] = "task" /\ \E w \in {"none", "task"} : prev' = [prev EXCEPT ![c] = w]
    /\ Be(c, "pick")
    /\ idle' = idle \ {c}
    /\ kicked' = kicked \ {c}
    /\ UNCHANGED <<dispatched, usersched, usersched_needed, slot, inactive, pending, work>>

\* The kernel ignores the slot of a task that is not waiting to be dispatched
\* when it is inserted.
scx_bpf_dsq_insert(c) == slot' = IF usersched = "bpf" THEN slot \cup {c} ELSE slot

dispatch_user_scheduler(c) == scx_bpf_dsq_insert(c)

\* test_and_clear_usersched_needed, then the drain, unless another CPU is at it
\* (-EBUSY).
goland_dispatch(c) ==
    /\ cpu[c] = "pick"
    /\ usersched_needed' = FALSE
    /\ IF usersched_needed THEN dispatch_user_scheduler(c) ELSE UNCHANGED slot
    /\ Be(c, IF \E d \in CPUs : cpu[d] = "drain" THEN "flush" ELSE "drain")
    /\ UNCHANGED <<dispatched, prev, usersched, inactive, pending, work, idle, kicked>>

\* bpf_user_ringbuf_drain stops after one record: a CPU is kicked for its task,
\* unless the task is gone.
handle_dispatched_task(c) ==
    /\ cpu[c] = "drain"
    /\ Be(c, "flush")
    /\ \/ dispatched = 0 /\ UNCHANGED <<dispatched, work, kicked>>
       \/ /\ dispatched > 0
          /\ dispatched' = dispatched - 1
          /\ \/ work' = work + 1 /\ \E k \in CPUs : Kick(k)
             \/ UNCHANGED <<work, kicked>>
    /\ UNCHANGED <<prev, usersched, usersched_needed, slot, inactive, pending, idle>>

\* nr_scheduled, or data in @queued.
usersched_has_pending_tasks == pending

\* The scheduler starts to run: usersched_last_run_at is now.
goland_running == inactive' = FALSE

\* Mutant: the result of scx_bpf_dsq_move_to_local is not looked at.
Consume_no_result(c) ==
    LET us == IF c \in slot THEN "dsq" ELSE usersched IN
    /\ cpu[c] = "flush"
    /\ prev' = [prev EXCEPT ![c] = "none"]
    /\ slot' = IF c \in slot THEN {} ELSE slot
    /\ \/ /\ work' = work - 1
          /\ Be(c, "task")
          /\ usersched' = IF prev[c] = "usersched" THEN "bpf" ELSE us
          /\ UNCHANGED <<usersched_needed, inactive, idle, kicked>>
       \/ /\ us = "dsq"
          /\ usersched' = "running"
          /\ goland_running
          /\ Be(c, "usersched")
          /\ UNCHANGED <<usersched_needed, work, idle, kicked>>
       \/ /\ work = 0 /\ us # "dsq"
          /\ usersched_needed' = (usersched_needed \/ usersched_has_pending_tasks)
          /\ \/ /\ prev[c] # "none"
                /\ Be(c, prev[c])
                /\ UNCHANGED <<idle, kicked>>
             \/ /\ prev[c] = "none"
                /\ Be(c, "idle")
                /\ idle' = idle \cup {c}
                /\ kicked' = IF usersched_has_pending_tasks THEN kicked \cup {c} ELSE kicked
          /\ usersched' = IF prev[c] = "usersched" THEN "running" ELSE usersched
          /\ UNCHANGED <<inactive, work>>
    /\ UNCHANGED <<pending, dispatched>>

\* The rest of goland_dispatch: the buffer is flushed, then the CPU's own DSQ and
\* SHARED_DSQ (work) come before SCHED_DSQ; with nothing to run and work pending
\* for the scheduler, the flag is set and the CPU kicks itself.  A previous task
\* that is still runnable goes on with a new slice, else it is enqueued again:
\* goland_enqueue does nothing for the scheduler.
Consume(c) ==
    LET us == IF c \in slot THEN "dsq" ELSE usersched IN
    /\ cpu[c] = "flush"
    /\ prev' = [prev EXCEPT ![c] = "none"]
    /\ slot' = IF c \in slot THEN {} ELSE slot
    /\ \/ /\ work > 0
          /\ work' = work - 1
          /\ Be(c, "task")
          /\ usersched' = IF prev[c] = "usersched" THEN "bpf" ELSE us
          /\ UNCHANGED <<usersched_needed, inactive, idle, kicked>>
       \/ /\ work = 0 /\ us = "dsq"
          /\ usersched' = "running"
          /\ goland_running
          /\ Be(c, "usersched")
          /\ UNCHANGED <<usersched_needed, work, idle, kicked>>
       \/ /\ work = 0 /\ us # "dsq"
          /\ usersched_needed' = (usersched_needed \/ usersched_has_pending_tasks)
          /\ \/ /\ prev[c] # "none"
                /\ Be(c, prev[c])
                /\ UNCHANGED <<idle, kicked>>
             \/ /\ prev[c] = "none"
                /\ Be(c, "idle")
                /\ idle' = idle \cup {c}
                /\ kicked' = IF usersched_has_pending_tasks THEN kicked \cup {c} ELSE kicked
          /\ usersched' = IF prev[c] = "usersched" THEN "running" ELSE usersched
          /\ UNCHANGED <<inactive, work>>
    /\ UNCHANGED <<pending, dispatched>>

\* The scheduler blocks, having emptied its queues or not.
Block(c) ==
    /\ cpu[c] = "usersched"
    /\ usersched' = "blocked"
    /\ pending' \in {pending, FALSE}
    /\ Be(c, "pick")
    /\ UNCHANGED <<dispatched, prev, usersched_needed, slot, inactive, work, idle, kicked>>

\* The scheduler's slice (default_slice) ends.
SliceEnd(c) ==
    /\ cpu[c] = "usersched"
    /\ usersched' = "expired"
    /\ prev' = [prev EXCEPT ![c] = "usersched"]
    /\ Be(c, "pick")
    /\ UNCHANGED <<dispatched, usersched_needed, slot, inactive, pending, work, idle, kicked>>

\* A higher class takes the CPU of the scheduler or of another task, which stays
\* in the CPU's local DSQ.  The flag is set if the task in args is a thread of the
\* scheduler's process: that is the task which takes the CPU, not the one which
\* loses it, so both outcomes are possible in either case.
goland_cpu_release(c) ==
    /\ \/ /\ cpu[c] = "usersched"
          /\ usersched' = "local"
          /\ Be(c, "rt_usersched")
       \/ /\ cpu[c] = "task"
          /\ Be(c, "rt")
          /\ UNCHANGED usersched
    /\ usersched_needed' \in {usersched_needed, TRUE}
    /\ UNCHANGED <<dispatched, prev, slot, inactive, pending, work, idle, kicked>>

\* The higher class gives the CPU back to the task in its local DSQ.
Reacquire(c) ==
    /\ \/ /\ cpu[c] = "rt_usersched"
          /\ usersched' = "running"
          /\ goland_running
          /\ Be(c, "usersched")
       \/ /\ cpu[c] = "rt"
          /\ Be(c, "task")
          /\ UNCHANGED <<usersched, inactive>>
    /\ UNCHANGED <<dispatched, prev, usersched_needed, slot, pending, work, idle, kicked>>

\* Mutant: the timer kicks an idle CPU without setting the flag.
usersched_timer_fn_no_flag ==
    /\ inactive
    /\ \/ \E c \in idle : idle' = idle \ {c} /\ Kick(c)
       \/ idle = {} /\ UNCHANGED <<idle, kicked>>
    /\ UNCHANGED <<dispatched, prev, usersched, usersched_needed, slot, inactive, pending, work, cpu>>

\* Mutant: the timer sets the flag and wakes up nobody.
usersched_timer_fn_no_kick ==
    /\ inactive
    /\ usersched_needed' = TRUE
    /\ UNCHANGED <<dispatched, prev, usersched, slot, inactive, pending, work, cpu, idle, kicked>>

\* The timer re-arms itself; it acts when the scheduler has not started to run
\* for a whole period.
usersched_timer_fn ==
    /\ inactive
    /\ usersched_needed' = TRUE
    /\ \/ \E c \in idle : idle' = idle \ {c} /\ Kick(c)
       \/ idle = {} /\ UNCHANGED <<idle, kicked>>
    /\ UNCHANGED <<dispatched, prev, usersched, slot, inactive, pending, work, cpu>>

\* USERSCHED_TIMER_NS pass without the scheduler starting to run.
PeriodPasses ==
    /\ ~inactive
    /\ inactive' = TRUE
    /\ UNCHANGED <<dispatched, prev, usersched, usersched_needed, slot, pending, work, cpu, idle, kicked>>

\* Another task is put in a DSQ, and a CPU kicked for it.
NewWork ==
    /\ work + dispatched < MaxWork
    /\ work' = work + 1
    /\ \E c \in CPUs : Kick(c)
    /\ UNCHANGED <<dispatched, prev, usersched, usersched_needed, slot, inactive, pending, cpu, idle>>

\* The scheduler, or a thread of its process, answers a record.
Dispatch ==
    /\ \E c \in CPUs : cpu[c] \in {"usersched", "task"}
    /\ work + dispatched < MaxWork
    /\ dispatched' = dispatched + 1
    /\ UNCHANGED <<prev, usersched, usersched_needed, slot, inactive, pending, work, cpu, idle, kicked>>

\* Another task is sent to user space, and a CPU kicked for it.
Queued ==
    /\ pending' = TRUE
    /\ \E c \in CPUs : Kick(c)
    /\ UNCHANGED <<dispatched, prev, usersched, usersched_needed, slot, inactive, work, cpu, idle>>

----------------------------------------------------------------------------
Init ==
    /\ usersched = "blocked"
    /\ usersched_needed = FALSE
    /\ slot = {}
    /\ inactive = TRUE
    /\ pending = FALSE
    /\ work = 0
    /\ dispatched = 0
    /\ cpu = [c \in CPUs |-> "idle"]
    /\ prev = [c \in CPUs |-> "none"]
    /\ idle = CPUs
    /\ kicked = {}

CpuStep(c) == Pick(c) \/ goland_dispatch(c) \/ handle_dispatched_task(c) \/ Consume(c) \/ Reacquire(c)

Next ==
    \/ \E c \in CPUs : CpuStep(c) \/ Block(c) \/ SliceEnd(c) \/ goland_cpu_release(c)
    \/ usersched_timer_fn \/ PeriodPasses
    \/ Wakeup \/ NewWork \/ Dispatch \/ Queued

\* CPUs keep running, tasks (the scheduler too) use up their slices, and time
\* passes.  The strong fairness: a slice is used up even if higher classes take
\* the CPU from the task again and again.
Fairness ==
    /\ \A c \in CPUs : SF_vars(Pick(c)) /\ WF_vars(goland_dispatch(c))
    /\ \A c \in CPUs : WF_vars(handle_dispatched_task(c))
    /\ \A c \in CPUs : WF_vars(Consume(c)) /\ WF_vars(Reacquire(c))
    /\ \A c \in CPUs : SF_vars(Block(c) \/ SliceEnd(c))
    /\ WF_vars(usersched_timer_fn)
    /\ WF_vars(PeriodPasses)

Spec == Init /\ [][Next]_vars /\ Fairness

----------------------------------------------------------------------------
(***************************************************************************)
(* Properties.                                                             *)
(***************************************************************************)
\* A scheduler that is ready to run does run, once no more tasks are put in the
\* DSQs before it: the heartbeat makes up for every lost wake-up (a flag that
\* was cleared while the scheduler could not be dispatched, a flag never set).
UserschedRuns ==
    <>[][work' + dispatched' <= work + dispatched]_vars
    => (usersched = "bpf" ~> usersched = "running")

\* The drain never stops while records wait in @dispatched ("Consume all tasks
\* from the @dispatched list"), although goland_dispatch takes one at a time and
\* nothing else looks at that ring before a CPU goes idle.
RecordsAreDrained == <>[][dispatched' >= dispatched]_vars => []<>(dispatched = 0)
==============================================================================
