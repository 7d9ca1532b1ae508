------------------------------- MODULE IdleCpus -------------------------------
(***************************************************************************)
(* Who claims an idle CPU, and who wakes it up (main.bpf.c).  A claim       *)
(* clears the CPU's bit in the idle mask; the bit comes back only when the  *)
(* CPU passes through its idle loop again, so a claimed CPU that nobody     *)
(* kicks is lost to everybody ("idle-locked").                              *)
(*                                                                         *)
(* Callers: kernel paths that enqueue a task (goland_select_cpu and         *)
(* goland_enqueue, through try_direct_dispatch) and the user-space          *)
(* scheduler (rs_select_cpu), whose answer comes back in a record that      *)
(* dispatch_task handles later; besides, the heartbeat timer claims CPUs.   *)
(* The idle masks and the CPUs are external.                                *)
(***************************************************************************)
EXTENDS Integers, FiniteSets

CONSTANTS
    CPUs,
    Cores,          \* the SMT siblings: a partition of CPUs
    L2Lists,        \* the shared_cpu_lists of L2 caches; a CPU may be in none
    L3Lists,        \* and of L3 caches
    Tasks,
    Masks,          \* the affinity masks tasks may have
    PrevCPUs,       \* bound: the CPUs the searches of wakers start from
    UserPrevCPUs,   \* bound: and those of rs_select_cpu
    Wakers,         \* kernel-side callers
    UserCalls,      \* records of the user-space scheduler
    smt_enabled,
    NoCpu           \* -EBUSY; RL_CPU_ANY in a record

Callers == Wakers \cup UserCalls

ASSUME IdleCpusAssumption ==
    /\ UNION Cores = CPUs
    /\ L2Lists \cup L3Lists \subseteq SUBSET CPUs
    /\ Masks \subseteq SUBSET CPUs \ {{}}
    /\ PrevCPUs \cup UserPrevCPUs \subseteq CPUs
    /\ Wakers \cap UserCalls = {}
    /\ smt_enabled \in BOOLEAN
    /\ NoCpu \notin CPUs

VARIABLES
    idle,       \* kernel: the idle mask
    busy,       \* kernel: CPUs that run a task
    kicked,     \* kernel: CPUs asked to reschedule
    cpus_ptr,   \* kernel: the affinity mask of each task
    alive,      \* kernel: the tasks that exist
    scratch,    \* task_ctx: l2_cpumask and l3_cpumask of each task
    call,       \* the frame of each caller
    alone,      \* history: searches with no other one for the same task meanwhile
    avail,      \* history: usable CPUs that were idle during the whole of such a search
    availCore,  \* history: the same for full-idle cores
    userClaimed \* history: CPUs claimed for rs_select_cpu and not woken up since

kernelVars == <<busy, cpus_ptr, alive>>
vars == <<idle, busy, kicked, cpus_ptr, alive, scratch, call, avail, availCore, alone, userClaimed>>

\* In pick_idle_cpu: step is the next attempt, or the last one, with cpu the answer.
Searches == [pc : {"pick", "return"}, p : Tasks, prev : CPUs, step : 0 .. 8,
             cpu : CPUs \cup {NoCpu},
             l2 : {"domain", "scratch", "null"}, l3 : {"domain", "scratch", "null"}]

\* After it: the rest of an enqueue, or the record of user space, with the CPU picked.
Orders == [pc : {"enqueue", "kick", "sent", "recheck"}, p : Tasks, cpu : CPUs \cup {NoCpu}]

Order(pc, p, cpu) == [pc |-> pc, p |-> p, cpu |-> cpu]

\* A caller that is not in any of these functions.
Off == [pc |-> "off"]

\* The type invariant.
TypeOK ==
    /\ idle \subseteq CPUs
    /\ busy \subseteq CPUs
    /\ kicked \subseteq CPUs
    /\ cpus_ptr \in [Tasks -> Masks]
    /\ alive \subseteq Tasks
    /\ scratch \in [Tasks -> [l2 : SUBSET CPUs, l3 : SUBSET CPUs]]
    /\ call \in [Callers -> Searches \cup Orders \cup {Off}]
    /\ avail \in [Callers -> SUBSET CPUs]
    /\ availCore \in [Callers -> SUBSET CPUs]
    /\ alone \subseteq Callers
    /\ userClaimed \subseteq CPUs

----------------------------------------------------------------------------
\* initCacheDomains and enable_sibling_cpu: every CPU of a shared_cpu_list
\* gets all the CPUs of the list; the mask of a CPU in no list stays NULL.
l2_cpumask(c) == UNION {l \in L2Lists : c \in l}
l3_cpumask(c) == UNION {l \in L3Lists : c \in l}

\* The domain pick_idle_cpu uses: the task's own cpumask for a NULL one.
l2_domain(p, prev) == IF l2_cpumask(prev) = {} THEN cpus_ptr[p] ELSE l2_cpumask(prev)
l3_domain(p, prev) == IF l3_cpumask(prev) = {} THEN cpus_ptr[p] ELSE l3_cpumask(prev)

\* The CPUs of full-idle cores: the idle SMT mask.
FullIdle(m) == {c \in m : \A core \in Cores : c \in core => core \subseteq m}

\* The mask behind the pointer l2_mask or l3_mask.
Mask(f, l, domain) ==
    IF f[l] = "domain" THEN domain
    ELSE IF f[l] = "scratch" THEN scratch[f.p][l]
    ELSE {}

\* Mutant: the attempts on the two cache levels are swapped.
Where_swapped(f) ==
    IF f.step \in {0, 1, 5} THEN {f.prev}
    ELSE IF f.step \in {3, 7} THEN Mask(f, "l2", l2_domain(f.p, f.prev))
    ELSE IF f.step \in {2, 6} THEN Mask(f, "l3", l3_domain(f.p, f.prev))
    ELSE cpus_ptr[f.p]

\* Where the attempts look: 1-4 for a full-idle core, 5-8 for any idle CPU,
\* each time at prev_cpu, then its L2 domain, its L3 domain, the whole cpumask.
\* Attempt 0 is the only one for a task with one CPU.
Where(f) ==
    IF f.step \in {0, 1, 5} THEN {f.prev}
    ELSE IF f.step \in {2, 6} THEN Mask(f, "l2", l2_domain(f.p, f.prev))
    ELSE IF f.step \in {3, 7} THEN Mask(f, "l3", l3_domain(f.p, f.prev))
    ELSE cpus_ptr[f.p]

Candidates(f) == Where(f) \cap (IF f.step \in 1 .. 4 THEN FullIdle(idle) ELSE idle)

NoScratch == [l2 |-> {}, l3 |-> {}]

Set(a, f) == call' = [call EXCEPT ![a] = f]

Done(a) == Set(a, Off)

Refers(a, p) == call[a].pc # "off" /\ call[a].p = p

\* pick_idle_cpu returns cpu: its masks go out of scope.
Return(f, cpu) == [f EXCEPT !.pc = "return", !.cpu = cpu, !.l2 = "null", !.l3 = "null"]

\* scx_bpf_kick_cpu(cpu, SCX_KICK_IDLE): nothing happens to a busy CPU.
Kick(cpus) == kicked' = kicked \cup (cpus \ busy)

\* A waker has the task's pi_lock; SelectCPU is called by one goroutine.  The
\* previous CPU need not be in the mask: the affinity may have changed since.
MayStart(a, p) ==
    /\ call[a].pc = "off"
    /\ p \in alive
    /\ a \in Wakers => \A b \in Wakers : ~Refers(b, p)
    /\ a \in UserCalls => \A b \in UserCalls : call[b].pc # "pick"

\* pick_idle_cpu up to its first attempt: the masks of the search are the
\* domains themselves for a task that may run anywhere, else intersections
\* written to the task's own scratch masks.  pinned is is_migration_disabled.
StartPick(a, p, prev, pinned) ==
    LET all == cpus_ptr[p] = CPUs
        one == pinned \/ Cardinality(cpus_ptr[p]) = 1
        l2 == cpus_ptr[p] \cap l2_domain(p, prev)
        l3 == cpus_ptr[p] \cap l3_domain(p, prev)
        Kind(m) == IF one THEN "null" ELSE IF all THEN "domain"
                   ELSE IF m = {} THEN "null" ELSE "scratch"
    IN  /\ MayStart(a, p)
        /\ Set(a, [pc |-> "pick", p |-> p, prev |-> prev, cpu |-> NoCpu,
                   step |-> IF one THEN 0 ELSE IF smt_enabled THEN 1 ELSE 5,
                   l2 |-> Kind(l2), l3 |-> Kind(l3)])
        /\ scratch' = IF all \/ one THEN scratch
                      ELSE [scratch EXCEPT ![p] = [l2 |-> l2, l3 |-> l3]]
        /\ UNCHANGED <<idle, kicked, kernelVars>>

\* Mutant: the attempts are not counted right.
pick_idle_cpu_one_more(a) ==
    LET f == call[a] IN
    /\ f.pc = "pick"
    /\ \/ \E c \in Candidates(f) :
            /\ idle' = idle \ {c}
            /\ Set(a, Return(f, c))
       \/ /\ Candidates(f) = {}
          /\ Set(a, IF f.step \in {0, 9} THEN Return(f, NoCpu)
                    ELSE [f EXCEPT !.step = @ + 1])
          /\ UNCHANGED idle
    /\ scratch' = IF call'[a].pc = "pick" \/ (\E b \in Callers \ {a} : call[b].pc = "pick" /\ call[b].p = f.p)
                  THEN scratch ELSE [scratch EXCEPT ![f.p] = NoScratch]
    /\ UNCHANGED <<kicked, kernelVars>>

\* One attempt: claim a candidate, or go on to the next attempt.  The scratch
\* masks are temporaries: when nobody uses them any more, they are forgotten.
pick_idle_cpu(a) ==
    LET f == call[a] IN
    /\ f.pc = "pick"
    /\ \/ \E c \in Candidates(f) :
            /\ idle' = idle \ {c}
            /\ Set(a, Return(f, c))
       \/ /\ Candidates(f) = {}
          /\ Set(a, IF f.step \in {0, 8} THEN Return(f, NoCpu)
                    ELSE [f EXCEPT !.step = @ + 1])
          /\ UNCHANGED idle
    /\ scratch' = IF call'[a].pc = "pick" \/ (\E b \in Callers \ {a} : call[b].pc = "pick" /\ call[b].p = f.p)
                  THEN scratch ELSE [scratch EXCEPT ![f.p] = NoScratch]
    /\ UNCHANGED <<kicked, kernelVars>>

\* Mutant: a CPU the task cannot use is not kicked.
try_direct_dispatch_no_kick(a) ==
    LET f == call[a] IN
    /\ f.pc = "return"
    /\ a \in Wakers
    /\ Set(a, Order("enqueue", f.p, IF f.cpu \in cpus_ptr[f.p] THEN f.cpu ELSE NoCpu))
    /\ UNCHANGED <<idle, kicked, kernelVars, scratch>>

\* A CPU the task cannot use is kicked; one it can use is the result.
try_direct_dispatch(a) ==
    LET f == call[a] IN
    /\ f.pc = "return"
    /\ a \in Wakers
    /\ \/ /\ f.cpu \in cpus_ptr[f.p]
          /\ Set(a, Order("enqueue", f.p, f.cpu))
          /\ UNCHANGED kicked
       \/ /\ f.cpu \notin cpus_ptr[f.p]
          /\ Kick({f.cpu} \ {NoCpu})
          /\ Set(a, Order("enqueue", f.p, NoCpu))
    /\ UNCHANGED <<idle, kernelVars, scratch>>

\* goland_enqueue where no CPU is picked: the slice ended, or the task is a thread of
\* the user-space scheduler.  (A per-CPU kernel thread claims and kicks no CPU here.)
StartEnqueue(a, p) ==
    /\ a \in Wakers
    /\ MayStart(a, p)
    /\ Set(a, Order("enqueue", p, NoCpu))
    /\ UNCHANGED <<idle, kicked, kernelVars, scratch>>

\* goland_enqueue after try_direct_dispatch.  The CPU of a task dispatched directly is
\* kicked, and the kernel itself wakes up the CPU that ops.select_cpu() returned.  A
\* priority task may claim any idle CPU it can use, and its insertion in the local
\* DSQ wakes that CPU up; tasks not dispatched directly go on to kick_task_cpu.
goland_enqueue(a) ==
    LET f == call[a] IN
    /\ f.pc = "enqueue"
    /\ \/ /\ f.cpu # NoCpu
          /\ Kick({f.cpu})
          /\ Done(a)
          /\ UNCHANGED idle
       \/ /\ \/ UNCHANGED <<idle, kicked>>
             \/ \E c \in cpus_ptr[f.p] \cap idle : idle' = idle \ {c} /\ Kick({c})
          /\ Set(a, Order("kick", f.p, f.cpu))
    /\ UNCHANGED <<kernelVars, scratch>>

\* The CPU picked, else the one the task is on (any at all, its affinity may have
\* changed), is kicked even if the task cannot use it; another idle CPU is then
\* claimed and kicked as well.
kick_task_cpu(a) ==
    LET f == call[a] IN
    /\ f.pc = "kick"
    /\ \E cpu \in IF f.cpu # NoCpu THEN {f.cpu} ELSE CPUs :
         LET others == IF cpu \in cpus_ptr[f.p] THEN {} ELSE cpus_ptr[f.p] \cap idle
         IN  \/ /\ others = {}
                /\ Kick({cpu})
                /\ UNCHANGED idle
             \/ \E c \in others :
                  /\ Kick({cpu, c})
                  /\ idle' = idle \ {c}
    /\ Done(a)
    /\ UNCHANGED <<kernelVars, scratch>>

\* SelectCPU returns to the goroutine, which sends the record: an error of
\* pick_idle_cpu is above 2147483647 and becomes RL_CPU_ANY.
rs_select_cpu(a) ==
    /\ call[a].pc = "return"
    /\ a \in UserCalls
    /\ Set(a, Order("sent", call[a].p, call[a].cpu))
    /\ UNCHANGED <<idle, kicked, kernelVars, scratch>>

\* dispatch_task up to the insertion.
dispatch_task(a) ==
    LET f == call[a] IN
    /\ f.pc = "sent"
    /\ \/ f.p \notin alive /\ Done(a)
       \/ /\ f.p \in alive /\ f.cpu \notin cpus_ptr[f.p]
          /\ Set(a, Order("kick", f.p, NoCpu))
       \/ /\ f.p \in alive /\ f.cpu \in cpus_ptr[f.p]
          /\ Set(a, Order("recheck", f.p, f.cpu))
    /\ UNCHANGED <<idle, kicked, kernelVars, scratch>>

\* The second test: a cancelled dispatch kicks no CPU.
RecheckTarget(a) ==
    LET f == call[a] IN
    /\ f.pc = "recheck"
    /\ Kick({f.cpu} \cap cpus_ptr[f.p])
    /\ Done(a)
    /\ UNCHANGED <<idle, kernelVars, scratch>>

\* The heartbeat claims an idle CPU for the user-space scheduler, and kicks it.
usersched_timer_fn(c) ==
    /\ c \in idle
    /\ idle' = idle \ {c}
    /\ Kick({c})
    /\ UNCHANGED <<kernelVars, scratch, call>>

----------------------------------------------------------------------------
\* A kicked CPU goes through its idle loop, or takes a task.
Kicked(c) ==
    /\ c \in kicked
    /\ kicked' = kicked \ {c}
    /\ \/ idle' = idle \cup {c} /\ UNCHANGED busy
       \/ idle' = idle \ {c} /\ busy' = busy \cup {c}
    /\ UNCHANGED <<cpus_ptr, alive, scratch, call>>

\* A CPU runs out of tasks, or wakes up on its own.
GoIdle(c) ==
    /\ c \in busy
    /\ busy' = busy \ {c}
    /\ idle' = idle \cup {c}
    /\ UNCHANGED <<kicked, cpus_ptr, alive, scratch, call>>

GoBusy(c) ==
    /\ c \notin busy
    /\ busy' = busy \cup {c}
    /\ idle' = idle \ {c}
    /\ kicked' = kicked \ {c}
    /\ UNCHANGED <<cpus_ptr, alive, scratch, call>>

\* sched_setaffinity takes the pi_lock: not while a waker selects a CPU.
SetAffinity(p, m) ==
    /\ \A a \in Wakers : ~Refers(a, p)
    /\ cpus_ptr' = [cpus_ptr EXCEPT ![p] = m]
    /\ UNCHANGED <<idle, busy, kicked, alive, scratch, call>>

\* A task exits: not while a caller holds a reference to it.
Exit(p) ==
    /\ \A a \in Callers : ~(call[a].pc # "sent" /\ Refers(a, p))
    /\ alive' = alive \ {p}
    /\ UNCHANGED <<idle, busy, kicked, cpus_ptr, scratch, call>>

Fork(p) ==
    /\ p \notin alive
    /\ alive' = alive \cup {p}
    /\ UNCHANGED <<idle, busy, kicked, cpus_ptr, scratch, call>>

----------------------------------------------------------------------------
Init ==
    /\ idle = CPUs /\ busy = {} /\ kicked = {}
    /\ cpus_ptr \in [Tasks -> Masks]
    /\ alive = Tasks
    /\ scratch = [p \in Tasks |-> NoScratch]
    /\ call = [a \in Callers |-> Off]
    /\ avail = [a \in Callers |-> {}]
    /\ availCore = [a \in Callers |-> {}]
    /\ alone = {}
    /\ userClaimed = {}

Prevs(a) == IF a \in Wakers THEN PrevCPUs ELSE UserPrevCPUs

Call(a) ==
    \/ \E p \in Tasks :
          \/ \E prev \in Prevs(a), pinned \in BOOLEAN : StartPick(a, p, prev, pinned)
          \/ StartEnqueue(a, p)
    \/ pick_idle_cpu(a) \/ try_direct_dispatch(a) \/ goland_enqueue(a) \/ kick_task_cpu(a)
    \/ rs_select_cpu(a) \/ dispatch_task(a) \/ RecheckTarget(a)

\* What the history variables record.
History ==
    LET Since(a, old, now) == IF a \notin alone' THEN {}
                              ELSE IF call[a].pc = "pick" THEN old \cap now ELSE now
        Usable(a) == cpus_ptr'[call'[a].p]
    IN  /\ alone' = {a \in Callers :
               /\ call[a].pc = "pick" \/ call'[a].pc = "pick"
               /\ call[a].pc = "pick" => a \in alone
               /\ \A b \in Callers \ {a} : ~(call'[b].pc = "pick" /\ call'[b].p = call'[a].p)}
        /\ avail' = [a \in Callers |-> Since(a, avail[a], idle' \cap Usable(a))]
        /\ availCore' = [a \in Callers |-> Since(a, availCore[a], FullIdle(idle') \cap Usable(a))]
        /\ userClaimed' = {c \in CPUs \ (idle' \cup busy') :
               \/ c \in userClaimed \ idle
               \/ \E a \in UserCalls :
                     call[a].pc = "pick" /\ call'[a].pc = "return" /\ call'[a].cpu = c}

Step ==
    \/ \E a \in Callers : Call(a)
    \/ \E c \in CPUs : usersched_timer_fn(c) \/ Kicked(c) \/ GoIdle(c) \/ GoBusy(c)
    \/ \E p \in Tasks : Exit(p) \/ Fork(p) \/ (\E m \in Masks : SetAffinity(p, m))

Next == Step /\ History

Spec == Init /\ [][Next]_vars

----------------------------------------------------------------------------
(***************************************************************************)
(* Properties.                                                             *)
(***************************************************************************)
\* A CPU whose idle bit was claimed by try_direct_dispatch, goland_enqueue,
\* kick_task_cpu or the timer is never forgotten, whatever the affinity of the
\* tasks and the user-space callers do meanwhile ("idle-locked, so it can't be
\* chosen by other tasks", main.bpf.c:763): it is kicked, or in the hands of a
\* kernel-side caller that will kick it.
KernelClaimsKicked ==
    \A c \in CPUs \ (busy \cup idle \cup userClaimed) :
        c \in kicked \/ \E a \in Wakers : call[a].pc # "off" /\ call[a].cpu = c

\* The claims of rs_select_cpu included, which is to "select and wake-up an idle CPU"
\* (main.bpf.c:827): once all calls are over, every CPU that was claimed has been
\* kicked.
NoIdleLocked ==
    (\A a \in Callers : call[a].pc = "off") => CPUs \ (busy \cup idle) \subseteq kicked

\* The distance of CPU c from prev, as far as the topology is known: the other
\* CPUs are all at the same distance from one with no L2 list, and so for L3.
Rank(prev, c) ==
    IF c = prev THEN 1 ELSE IF l2_cpumask(prev) = {} \/ c \in l2_cpumask(prev) THEN 2
    ELSE IF l3_cpumask(prev) = {} \/ c \in l3_cpumask(prev) THEN 3 ELSE 4

\* "Pick the idle CPU closest to prev_cpu usable by the task" (main.bpf.c:751),
\* full-idle cores first: no usable CPU that is closer was idle during the
\* whole call, and none in a full-idle core if the CPU picked is not in one.  Only
\* a search for the same task at the same time, in the kernel or for user space,
\* may spoil this: the two share the task's scratch masks.
ClosestIdle ==
    \A a \in alone :
        LET f == call[a]
            core == f.step \in 1 .. 4
        IN  f.pc = "return" /\ f.cpu # NoCpu /\ f.step # 0
            => /\ smt_enabled /\ ~core => availCore[a] = {}
               /\ \A c \in IF core THEN availCore[a] ELSE avail[a] :
                     Rank(f.prev, f.cpu) <= Rank(f.prev, c)
===============================================================================
