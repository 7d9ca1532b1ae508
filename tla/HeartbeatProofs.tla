--------------------------- MODULE HeartbeatProofs ---------------------------
(***************************************************************************)
(* Proofs about Heartbeat: the type invariant.  That the scheduler gets a  *)
(* CPU (UserschedRuns, RecordsAreDrained) is liveness and stays with TLC.  *)
(***************************************************************************)
EXTENDS Heartbeat, TLAPS

\* A record that is drained becomes work: the two share one bound.
Bounded == work + dispatched <= MaxWork

IInv == TypeOK /\ Bounded

----------------------------------------------------------------------------
(***************************************************************************)
(* One step per action.                                                    *)
(***************************************************************************)
\* scx_bpf_kick_cpu only marks idle CPUs.
LEMMA KickType ==
    ASSUME TypeOK, NEW c \in CPUs, Kick(c)
    PROVE  kicked' \subseteq {d \in CPUs : cpu[d] = "idle"}
  BY DEF TypeOK, Kick

LEMMA QuietSteps ==
    ASSUME IInv,
           usersched_timer_fn \/ PeriodPasses \/ NewWork \/ Dispatch \/ Queued
    PROVE  IInv'
  <1>1. UNCHANGED <<cpu, prev, slot, usersched>>
    BY DEF usersched_timer_fn, PeriodPasses, NewWork, Dispatch, Queued
  <1>2. Bounded' /\ work' \in 0 .. MaxWork /\ dispatched' \in 0 .. MaxWork
    BY HeartbeatAssumption DEF IInv, TypeOK, Bounded, usersched_timer_fn, PeriodPasses, NewWork, Dispatch, Queued
  <1>3. kicked' \subseteq {d \in CPUs : cpu[d] = "idle"} /\ idle' \subseteq idle
    <2>1. UNCHANGED kicked \/ \E c \in CPUs : Kick(c)
      BY DEF IInv, TypeOK, usersched_timer_fn, PeriodPasses, NewWork, Dispatch, Queued
    <2>2. idle' \subseteq idle
      BY DEF usersched_timer_fn, PeriodPasses, NewWork, Dispatch, Queued
    <2>3. QED
      BY <2>1, <2>2, KickType DEF IInv, TypeOK
  <1>4. usersched_needed' \in BOOLEAN /\ inactive' \in BOOLEAN /\ pending' \in BOOLEAN
    BY DEF IInv, TypeOK, usersched_timer_fn, PeriodPasses, NewWork, Dispatch, Queued
  <1>5. QED
    BY <1>1, <1>2, <1>3, <1>4 DEF IInv, TypeOK

LEMMA PickStep ==
    ASSUME IInv, NEW c \in CPUs, Pick(c)
    PROVE  IInv'
  <1>1. /\ cpu' = [cpu EXCEPT ![c] = "pick"]
        /\ UNCHANGED <<dispatched, usersched, usersched_needed, slot, inactive, pending, work>>
        /\ idle' = idle \ {c} /\ kicked' = kicked \ {c}
    BY DEF Pick, Be
  <1>2. prev' \in [CPUs -> {"none", "task", "usersched"}]
    BY DEF Pick, IInv, TypeOK
  <1>3. QED
    BY <1>1, <1>2 DEF IInv, TypeOK, Bounded

LEMMA DispatchStep ==
    ASSUME IInv, NEW c \in CPUs, goland_dispatch(c)
    PROVE  IInv'
  <1>1. /\ cpu[c] = "pick" /\ cpu' \in {[cpu EXCEPT ![c] = "flush"], [cpu EXCEPT ![c] = "drain"]}
        /\ slot' \subseteq slot \cup {c}
        /\ usersched_needed' = FALSE
        /\ UNCHANGED <<dispatched, prev, usersched, inactive, pending, work, idle, kicked>>
    BY DEF goland_dispatch, dispatch_user_scheduler, scx_bpf_dsq_insert, Be
  <1>2. QED
    BY <1>1 DEF IInv, TypeOK, Bounded

LEMMA DrainStep ==
    ASSUME IInv, NEW c \in CPUs, handle_dispatched_task(c)
    PROVE  IInv'
  <1>1. /\ cpu[c] = "drain" /\ cpu' = [cpu EXCEPT ![c] = "flush"]
        /\ UNCHANGED <<prev, usersched, usersched_needed, slot, inactive, pending, idle>>
    BY DEF handle_dispatched_task, Be
  <1>2. Bounded' /\ work' \in 0 .. MaxWork /\ dispatched' \in 0 .. MaxWork
    BY HeartbeatAssumption DEF IInv, TypeOK, Bounded, handle_dispatched_task
  <1>3. kicked' \subseteq {d \in CPUs : cpu[d] = "idle"}
    BY KickType DEF IInv, TypeOK, handle_dispatched_task
  <1>4. QED
    BY <1>1, <1>2, <1>3 DEF IInv, TypeOK

LEMMA ConsumeStep ==
    ASSUME IInv, NEW c \in CPUs, Consume(c)
    PROVE  IInv'
  <1> DEFINE us == IF c \in slot THEN "dsq" ELSE usersched
  <1>1. /\ cpu[c] = "flush" /\ prev' = [prev EXCEPT ![c] = "none"]
        /\ slot' \subseteq slot
        /\ UNCHANGED <<pending, dispatched>>
    BY DEF Consume
  <1>2. CASE /\ work > 0 /\ work' = work - 1 /\ Be(c, "task")
             /\ usersched' = (IF prev[c] = "usersched" THEN "bpf" ELSE us)
             /\ UNCHANGED <<usersched_needed, inactive, idle, kicked>>
    <2>1. work' \in 0 .. MaxWork /\ Bounded'
      BY <1>1, <1>2, HeartbeatAssumption DEF IInv, TypeOK, Bounded
    <2>2. /\ cpu' = [cpu EXCEPT ![c] = "task"]
          /\ usersched' \in {usersched, "bpf", "dsq"}
          /\ UNCHANGED <<usersched_needed, inactive, idle, kicked>>
      BY <1>2 DEF Be
    <2>3. QED
      BY <1>1, <2>1, <2>2 DEF IInv, TypeOK
  <1>3. CASE /\ us = "dsq" /\ usersched' = "running" /\ inactive' = FALSE
             /\ Be(c, "usersched")
             /\ UNCHANGED <<usersched_needed, work, idle, kicked>>
    BY <1>1, <1>3 DEF IInv, TypeOK, Be, Bounded
  <1>4. CASE /\ us # "dsq"
             /\ usersched_needed' = (usersched_needed \/ pending)
             /\ \/ /\ prev[c] # "none" /\ Be(c, prev[c])
                   /\ UNCHANGED <<idle, kicked>>
                \/ /\ prev[c] = "none" /\ Be(c, "idle")
                   /\ idle' = idle \cup {c}
                   /\ kicked' = IF pending THEN kicked \cup {c} ELSE kicked
             /\ usersched' = (IF prev[c] = "usersched" THEN "running" ELSE usersched)
             /\ UNCHANGED <<inactive, work>>
    BY <1>1, <1>4 DEF IInv, TypeOK, Be, Bounded
  <1>5. QED
    BY <1>2, <1>3, <1>4 DEF Consume, goland_running, usersched_has_pending_tasks

LEMMA SchedulerSteps ==
    ASSUME IInv, NEW c \in CPUs,
           Block(c) \/ SliceEnd(c) \/ goland_cpu_release(c) \/ Reacquire(c)
    PROVE  IInv'
  <1>1. TypeOK'
    BY DEF IInv, TypeOK, Be, Block, SliceEnd, goland_cpu_release, Reacquire, goland_running
  <1>2. Bounded'
    BY DEF IInv, Bounded, Block, SliceEnd, goland_cpu_release, Reacquire
  <1>3. QED
    BY <1>1, <1>2 DEF IInv

LEMMA WakeupStep ==
    ASSUME IInv, Wakeup
    PROVE  IInv'
  BY KickType DEF IInv, TypeOK, Bounded, Wakeup

----------------------------------------------------------------------------
\* In every reachable state, for any set of CPUs and any bound on the other work,
\* the records in @dispatched and the tasks made of them never exceed the bound
\* they share, and only idle CPUs are in the idle mask or wait for a kick.
THEOREM TypeCorrect == Spec => []TypeOK
  <1>1. Init => IInv
    <2> SUFFICES ASSUME Init PROVE IInv
      OBVIOUS
    <2>1. 0 \in 0 .. MaxWork /\ Bounded
      BY HeartbeatAssumption DEF Init, Bounded
    <2>2. /\ cpu \in [CPUs -> {"idle", "pick", "drain", "flush", "task", "usersched", "rt", "rt_usersched"}]
          /\ prev \in [CPUs -> {"none", "task", "usersched"}]
          /\ idle \subseteq {c \in CPUs : cpu[c] = "idle"}
      BY DEF Init
    <2>3. QED
      BY <2>1, <2>2 DEF Init, IInv, TypeOK
  <1>2. IInv /\ [Next]_vars => IInv'
    <2> SUFFICES ASSUME IInv, [Next]_vars PROVE IInv'
      OBVIOUS
    <2>1. CASE UNCHANGED vars
      BY <2>1 DEF vars, IInv, TypeOK, Bounded
    <2>2. CASE Next
      BY <2>2, QuietSteps, WakeupStep, PickStep, DispatchStep, DrainStep, ConsumeStep,
         SchedulerSteps DEF Next, CpuStep
    <2>3. QED
      BY <2>1, <2>2
  <1>3. QED
    BY <1>1, <1>2, PTL DEF Spec, IInv
==============================================================================
