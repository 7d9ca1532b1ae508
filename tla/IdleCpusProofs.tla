---------------------------- MODULE IdleCpusProofs ----------------------------
(***************************************************************************)
(* TLAPS proofs about IdleCpus, for every topology and every number of     *)
(* CPUs, tasks and callers, of the kernel and of user space.               *)
(***************************************************************************)
EXTENDS IdleCpus, TLAPS

----------------------------------------------------------------------------
(***************************************************************************)
(* Frames.                                                                 *)
(***************************************************************************)
LEMMA SearchFields ==
    ASSUME NEW f \in Searches
    PROVE  /\ f.pc \in {"pick", "return"}
           /\ f.p \in Tasks /\ f.prev \in CPUs /\ f.step \in 0 .. 8
           /\ f.cpu \in CPUs \cup {NoCpu}
           /\ f.l2 \in {"domain", "scratch", "null"} /\ f.l3 \in {"domain", "scratch", "null"}
  BY DEF Searches

LEMMA OrderFields ==
    ASSUME NEW f \in Orders
    PROVE  /\ f.pc \in {"enqueue", "kick", "sent", "recheck"}
           /\ f.p \in Tasks /\ f.cpu \in CPUs \cup {NoCpu}
  BY DEF Orders

LEMMA NewOrder ==
    ASSUME NEW pc \in {"enqueue", "kick", "sent", "recheck"}, NEW p \in Tasks,
           NEW c \in CPUs \cup {NoCpu}
    PROVE  /\ Order(pc, p, c) \in Orders
           /\ Order(pc, p, c).pc = pc /\ Order(pc, p, c).p = p /\ Order(pc, p, c).cpu = c
  BY DEF Orders, Order

LEMMA InFrame ==
    ASSUME TypeOK, NEW a \in Callers, call[a].pc # "off"
    PROVE  /\ call[a].p \in Tasks /\ call[a].cpu \in CPUs \cup {NoCpu}
           /\ call[a].pc \in {"pick", "return"} => call[a] \in Searches
           /\ call[a].pc \in {"pick", "return", "enqueue", "kick", "sent", "recheck"}
  <1>1. call[a] \in Searches \/ call[a] \in Orders
    BY DEF TypeOK, Off
  <1>2. QED
    BY <1>1, SearchFields, OrderFields

LEMMA ReturnFrame ==
    ASSUME NEW f \in Searches, NEW c \in CPUs \cup {NoCpu}
    PROVE  /\ Return(f, c) \in Searches
           /\ Return(f, c).pc = "return" /\ Return(f, c).cpu = c
           /\ Return(f, c).p = f.p /\ Return(f, c).prev = f.prev /\ Return(f, c).step = f.step
  BY DEF Searches, Return

\* The next attempt of pick_idle_cpu.
Attempt(f) == [f EXCEPT !.step = @ + 1]

LEMMA AttemptFrame ==
    ASSUME NEW f \in Searches, f.step # 8
    PROVE  /\ Attempt(f) \in Searches
           /\ Attempt(f).pc = f.pc /\ Attempt(f).cpu = f.cpu /\ Attempt(f).p = f.p
           /\ Attempt(f).prev = f.prev /\ Attempt(f).step = f.step + 1
           /\ Attempt(f).l2 = f.l2 /\ Attempt(f).l3 = f.l3
  BY DEF Searches, Attempt

----------------------------------------------------------------------------
(***************************************************************************)
(* Types.                                                                  *)
(***************************************************************************)
\* The part of the state a step of a caller may write.
Shared ==
    /\ idle \subseteq CPUs
    /\ busy \subseteq CPUs
    /\ kicked \subseteq CPUs
    /\ cpus_ptr \in [Tasks -> Masks]
    /\ alive \subseteq Tasks
    /\ scratch \in [Tasks -> [l2 : SUBSET CPUs, l3 : SUBSET CPUs]]

Frames == Searches \cup Orders \cup {Off}

LEMMA InitTypes == Init => TypeOK
  <1> SUFFICES ASSUME Init PROVE TypeOK
    OBVIOUS
  <1>1. NoScratch \in [l2 : SUBSET CPUs, l3 : SUBSET CPUs]
    BY DEF NoScratch
  <1>2. QED
    BY <1>1 DEF Init, TypeOK

LEMMA SetType ==
    ASSUME TypeOK, NEW a \in Callers, NEW f \in Frames, Set(a, f)
    PROVE  /\ call' \in [Callers -> Frames]
           /\ call'[a] = f
           /\ \A b \in Callers : b # a => call'[b] = call[b]
  BY DEF TypeOK, Set, Frames

LEMMA SetOrder ==
    ASSUME TypeOK, NEW a \in Callers, NEW pc \in {"enqueue", "kick", "sent", "recheck"},
           NEW p \in Tasks, NEW c \in CPUs \cup {NoCpu}, Set(a, Order(pc, p, c))
    PROVE  call'[a].pc = pc /\ call'[a].p = p /\ call'[a].cpu = c
  <1>1. Order(pc, p, c) \in Frames
    BY NewOrder DEF Frames
  <1>2. call'[a] = Order(pc, p, c)
    BY <1>1, SetType
  <1>3. QED
    BY <1>2, NewOrder

LEMMA StartPickFrame ==
    ASSUME TypeOK, NEW a \in Callers, NEW p \in Tasks, NEW prev \in CPUs,
           NEW pinned \in BOOLEAN, StartPick(a, p, prev, pinned)
    PROVE  \E f \in Searches :
              /\ Set(a, f)
              /\ f.pc = "pick" /\ f.p = p /\ f.prev = prev /\ f.cpu = NoCpu
              /\ f.step \in {0, 1, 5} /\ (f.step = 5 => ~smt_enabled)
              /\ \/ cpus_ptr[p] = CPUs /\ f.l2 = "domain" /\ f.l3 = "domain"
                 \/ f.step = 0
                 \/ /\ f.l2 = IF cpus_ptr[p] \cap l2_domain(p, prev) = {} THEN "null" ELSE "scratch"
                    /\ f.l3 = IF cpus_ptr[p] \cap l3_domain(p, prev) = {} THEN "null" ELSE "scratch"
                    /\ scratch' = [scratch EXCEPT ![p] =
                          [l2 |-> cpus_ptr[p] \cap l2_domain(p, prev),
                           l3 |-> cpus_ptr[p] \cap l3_domain(p, prev)]]
  <1> DEFINE all == cpus_ptr[p] = CPUs
             l2 == cpus_ptr[p] \cap l2_domain(p, prev)
             l3 == cpus_ptr[p] \cap l3_domain(p, prev)
             one == pinned \/ Cardinality(cpus_ptr[p]) = 1
             Kind(m) == IF one THEN "null" ELSE IF all THEN "domain"
                        ELSE IF m = {} THEN "null" ELSE "scratch"
             f == [pc |-> "pick", p |-> p, prev |-> prev, cpu |-> NoCpu,
                   step |-> IF one THEN 0 ELSE IF smt_enabled THEN 1 ELSE 5,
                   l2 |-> Kind(l2), l3 |-> Kind(l3)]
  <1>1. Set(a, f)
    BY DEF StartPick
  <1>2. scratch' = IF all \/ one THEN scratch ELSE [scratch EXCEPT ![p] = [l2 |-> l2, l3 |-> l3]]
    BY DEF StartPick
  <1>3. f \in Searches
    BY DEF Searches
  <1>4. /\ f.pc = "pick" /\ f.p = p /\ f.prev = prev /\ f.cpu = NoCpu
        /\ f.step = IF one THEN 0 ELSE IF smt_enabled THEN 1 ELSE 5
        /\ f.l2 = Kind(l2) /\ f.l3 = Kind(l3)
    OBVIOUS
  <1> HIDE DEF f
  <1>5. QED
    BY <1>1, <1>2, <1>3, <1>4

\* A search starts.
Starts(a) == \E p \in Tasks, prev \in Prevs(a), pinned \in BOOLEAN : StartPick(a, p, prev, pinned)

LEMMA StartsFrame ==
    ASSUME TypeOK, NEW a \in Callers, Starts(a)
    PROVE  /\ call[a].pc = "off" /\ call'[a] \in Searches /\ Set(a, call'[a])
           /\ call'[a].pc = "pick" /\ call'[a].cpu = NoCpu
           /\ call'[a].step \in {0, 1, 5} /\ (call'[a].step = 5 => ~smt_enabled)
  <1>1. PICK p \in Tasks, prev \in CPUs, pinned \in BOOLEAN : StartPick(a, p, prev, pinned)
    BY IdleCpusAssumption DEF Starts, Prevs
  <1>2. call[a].pc = "off"
    BY <1>1 DEF StartPick, MayStart
  <1>3. PICK f \in Searches : /\ Set(a, f) /\ f.pc = "pick" /\ f.cpu = NoCpu
                              /\ f.step \in {0, 1, 5} /\ (f.step = 5 => ~smt_enabled)
    BY <1>1, StartPickFrame
  <1>4. f \in Frames
    BY DEF Frames
  <1>5. call'[a] = f
    BY <1>3, <1>4, SetType
  <1>6. QED
    BY <1>2, <1>3, <1>5

LEMMA PickEffect ==
    ASSUME TypeOK, NEW a \in Callers, pick_idle_cpu(a)
    PROVE  /\ call[a] \in Searches /\ call[a].pc = "pick"
           /\ UNCHANGED <<kicked, kernelVars>>
           /\ \/ \E c \in Candidates(call[a]) :
                    idle' = idle \ {c} /\ call'[a] = Return(call[a], c)
              \/ /\ Candidates(call[a]) = {} /\ call[a].step \in {0, 8} /\ idle' = idle
                 /\ call'[a] = Return(call[a], NoCpu)
              \/ /\ Candidates(call[a]) = {} /\ call[a].step \notin {0, 8} /\ idle' = idle
                 /\ call'[a] = Attempt(call[a])
           /\ call'[a] \in Searches /\ Set(a, call'[a])
  <1>1. call[a].pc = "pick" /\ UNCHANGED <<kicked, kernelVars>>
    BY DEF pick_idle_cpu
  <1>2. call[a] \in Searches
    BY <1>1, InFrame
  <1>3. ASSUME NEW f \in Searches, Set(a, f) PROVE call'[a] = f
    BY <1>3, SetType DEF Frames
  <1>4. CASE \E c \in Candidates(call[a]) : idle' = idle \ {c} /\ Set(a, Return(call[a], c))
    <2>1. PICK c \in Candidates(call[a]) : idle' = idle \ {c} /\ Set(a, Return(call[a], c))
      BY <1>4
    <2>2. c \in CPUs
      BY DEF Candidates, FullIdle, TypeOK
    <2>3. Return(call[a], c) \in Searches
      BY <1>2, <2>2, ReturnFrame
    <2>4. call'[a] = Return(call[a], c)
      BY <1>3, <2>1, <2>3
    <2>5. QED
      BY <1>1, <1>2, <2>1, <2>3, <2>4
  <1>5. CASE /\ Candidates(call[a]) = {} /\ idle' = idle /\ call[a].step \in {0, 8}
             /\ Set(a, Return(call[a], NoCpu))
    <2>1. Return(call[a], NoCpu) \in Searches
      BY <1>2, ReturnFrame
    <2>2. call'[a] = Return(call[a], NoCpu)
      BY <1>3, <1>5, <2>1
    <2>3. QED
      BY <1>1, <1>2, <1>5, <2>1, <2>2
  <1>6. CASE /\ Candidates(call[a]) = {} /\ idle' = idle /\ call[a].step \notin {0, 8}
             /\ Set(a, Attempt(call[a]))
    <2>1. Attempt(call[a]) \in Searches
      BY <1>2, <1>6, AttemptFrame
    <2>2. call'[a] = Attempt(call[a])
      BY <1>3, <1>6, <2>1
    <2>3. QED
      BY <1>1, <1>2, <1>6, <2>1, <2>2
  <1>7. QED
    BY <1>4, <1>5, <1>6 DEF pick_idle_cpu, Attempt

LEMMA CandidatesIdle ==
    ASSUME NEW f
    PROVE  Candidates(f) \subseteq idle
  BY DEF Candidates, FullIdle

\* The steps of a caller that neither start a search nor are part of one.
Orderly(a) ==
    \/ \E p \in Tasks : StartEnqueue(a, p)
    \/ try_direct_dispatch(a) \/ goland_enqueue(a) \/ kick_task_cpu(a)
    \/ rs_select_cpu(a) \/ dispatch_task(a) \/ RecheckTarget(a)

LEMMA CallCases ==
    ASSUME NEW a \in Callers, Call(a)
    PROVE  Starts(a) \/ pick_idle_cpu(a) \/ Orderly(a)
  BY DEF Call, Starts, Orderly

LEMMA OrderlyFrame ==
    ASSUME TypeOK, NEW a \in Callers, Orderly(a)
    PROVE  /\ call[a].pc # "pick"
           /\ call'[a] \in Orders \cup {Off} /\ Set(a, call'[a])
           /\ UNCHANGED <<kernelVars, scratch>>
  <1>1. call[a].pc # "pick" /\ UNCHANGED <<kernelVars, scratch>>
    BY DEF Orderly, StartEnqueue, MayStart, try_direct_dispatch, goland_enqueue, kick_task_cpu,
       rs_select_cpu, dispatch_task, RecheckTarget
  <1>2. ASSUME NEW f \in Orders \cup {Off}, Set(a, f) PROVE call'[a] = f
    BY <1>2, SetType DEF Frames
  <1>3. CASE \E p \in Tasks : StartEnqueue(a, p)
    <2>1. PICK p \in Tasks : Set(a, Order("enqueue", p, NoCpu))
      BY <1>3 DEF StartEnqueue
    <2>2. QED
      BY <1>1, <1>2, <2>1, NewOrder
  <1>4. CASE ~\E p \in Tasks : StartEnqueue(a, p)
    <2>1. call[a].pc # "off"
      BY <1>4 DEF Orderly, try_direct_dispatch, goland_enqueue, kick_task_cpu,
         rs_select_cpu, dispatch_task, RecheckTarget
    <2>2. call[a].p \in Tasks /\ call[a].cpu \in CPUs \cup {NoCpu}
      BY <2>1, InFrame
    <2>3. \/ Set(a, Off)
          \/ \E pc \in {"enqueue", "kick", "sent", "recheck"}, c \in {call[a].cpu, NoCpu} :
                Set(a, Order(pc, call[a].p, c))
      BY <1>4 DEF Orderly, try_direct_dispatch, goland_enqueue, kick_task_cpu,
         rs_select_cpu, dispatch_task, RecheckTarget, Done
    <2>4. QED
      BY <1>1, <1>2, <2>2, <2>3, NewOrder
  <1>5. QED
    BY <1>3, <1>4

\* The next frame of the caller that makes a step is a frame.
LEMMA CallFrames ==
    ASSUME TypeOK, NEW a \in Callers, Call(a)
    PROVE  /\ call' \in [Callers -> Frames]
           /\ \A b \in Callers : b # a => call'[b] = call[b]
  <1>1. call'[a] \in Frames /\ Set(a, call'[a])
    BY CallCases, StartsFrame, PickEffect, OrderlyFrame DEF Frames
  <1>2. QED
    BY <1>1, SetType

\* What a step of a caller does to the CPUs.
LEMMA CallCpus ==
    ASSUME TypeOK, NEW a \in Callers, Call(a)
    PROVE  UNCHANGED kernelVars /\ idle' \subseteq idle /\ kicked \subseteq kicked'
  <1>1. CASE Starts(a)
    BY <1>1 DEF Starts, StartPick
  <1>2. CASE pick_idle_cpu(a)
    BY <1>2, PickEffect
  <1>3. CASE Orderly(a)
    <2>1. idle' \subseteq idle /\ kicked \subseteq kicked'
      BY <1>3 DEF Orderly, StartEnqueue, try_direct_dispatch, goland_enqueue, kick_task_cpu,
         rs_select_cpu, dispatch_task, RecheckTarget, Kick
    <2>2. QED
      BY <1>3, <2>1, OrderlyFrame
  <1>4. QED
    BY <1>1, <1>2, <1>3, CallCases

LEMMA CallKicks ==
    ASSUME TypeOK, NEW a \in Callers, Call(a)
    PROVE  kicked' \subseteq CPUs
  <1> USE IdleCpusAssumption
  <1>1. CASE UNCHANGED kicked
    BY <1>1 DEF TypeOK
  <1>2. CASE kick_task_cpu(a) \/ goland_enqueue(a) \/ RecheckTarget(a) \/ try_direct_dispatch(a)
    <2>1. call[a].p \in Tasks /\ call[a].cpu \in CPUs \cup {NoCpu}
      BY <1>2, InFrame DEF kick_task_cpu, goland_enqueue, RecheckTarget, try_direct_dispatch
    <2>2. cpus_ptr[call[a].p] \subseteq CPUs
      BY <2>1 DEF TypeOK
    <2>3. CASE kick_task_cpu(a)
      BY <2>1, <2>2, <2>3 DEF kick_task_cpu, Kick, TypeOK
    <2>4. CASE goland_enqueue(a)
      BY <2>1, <2>2, <2>4 DEF goland_enqueue, Kick, TypeOK
    <2>5. CASE RecheckTarget(a)
      BY <2>1, <2>2, <2>5 DEF RecheckTarget, Kick, TypeOK
    <2>6. CASE try_direct_dispatch(a)
      BY <2>1, <2>2, <2>6 DEF try_direct_dispatch, Kick, TypeOK
    <2>7. QED
      BY <1>2, <2>3, <2>4, <2>5, <2>6
  <1>3. QED
    BY <1>1, <1>2 DEF Call, StartPick, StartEnqueue, pick_idle_cpu, rs_select_cpu, dispatch_task

LEMMA CallScratch ==
    ASSUME TypeOK, NEW a \in Callers, Call(a)
    PROVE  scratch' \in [Tasks -> [l2 : SUBSET CPUs, l3 : SUBSET CPUs]]
  <1>1. CASE Starts(a)
    <2>1. PICK p \in Tasks, prev \in Prevs(a), pinned \in BOOLEAN : StartPick(a, p, prev, pinned)
      BY <1>1 DEF Starts
    <2>2. cpus_ptr[p] \subseteq CPUs
      BY IdleCpusAssumption DEF TypeOK
    <2>3. [l2 |-> cpus_ptr[p] \cap l2_domain(p, prev), l3 |-> cpus_ptr[p] \cap l3_domain(p, prev)]
             \in [l2 : SUBSET CPUs, l3 : SUBSET CPUs]
      BY <2>2
    <2>4. QED
      BY <2>1, <2>3 DEF StartPick, TypeOK
  <1>2. CASE pick_idle_cpu(a)
    <2>1. NoScratch \in [l2 : SUBSET CPUs, l3 : SUBSET CPUs]
      BY DEF NoScratch
    <2>2. QED
      BY <1>2, <2>1 DEF pick_idle_cpu, TypeOK
  <1>3. CASE Orderly(a)
    BY <1>3, OrderlyFrame DEF TypeOK
  <1>4. QED
    BY <1>1, <1>2, <1>3, CallCases

LEMMA NextTypes ==
    ASSUME TypeOK, [Next]_vars
    PROVE  TypeOK'
  <1> USE IdleCpusAssumption
  <1>1. CASE UNCHANGED vars
    BY <1>1 DEF vars, TypeOK
  <1>2. CASE Next
    <2>1. call' \in [Callers -> Frames]
      <3>1. CASE \E a \in Callers : Call(a)
        BY <3>1, CallFrames
      <3>2. CASE call' = call
        BY <3>2 DEF TypeOK, Frames
      <3>3. QED
        BY <1>2, <3>1, <3>2 DEF Next, Step, usersched_timer_fn, Kicked, GoIdle, GoBusy, Exit, Fork,
           SetAffinity
    <2>2. Shared'
      <3>1. CASE \E a \in Callers : Call(a)
        <4>1. PICK a \in Callers : Call(a)
          BY <3>1
        <4>2. UNCHANGED kernelVars /\ idle' \subseteq idle
          BY <4>1, CallCpus
        <4>3. QED
          BY <4>1, <4>2, CallKicks, CallScratch DEF TypeOK, Shared, kernelVars
      <3>2. CASE \E c \in CPUs : usersched_timer_fn(c) \/ Kicked(c) \/ GoIdle(c) \/ GoBusy(c)
        BY <3>2 DEF usersched_timer_fn, Kicked, GoIdle, GoBusy, Kick, kernelVars, TypeOK, Shared
      <3>3. CASE \E p \in Tasks : Exit(p) \/ Fork(p) \/ (\E m \in Masks : SetAffinity(p, m))
        BY <3>3 DEF Exit, Fork, SetAffinity, TypeOK, Shared
      <3>4. QED
        BY <1>2, <3>1, <3>2, <3>3 DEF Next, Step
    <2>3. /\ avail' \in [Callers -> SUBSET CPUs] /\ availCore' \in [Callers -> SUBSET CPUs]
          /\ alone' \subseteq Callers /\ userClaimed' \subseteq CPUs
      <3>1. alone' \subseteq Callers /\ userClaimed' \subseteq CPUs
        BY <1>2 DEF Next, History
      <3>2. idle' \subseteq CPUs /\ FullIdle(idle') \subseteq CPUs
        BY <2>2 DEF Shared, FullIdle
      <3>3. QED
        BY <1>2, <3>1, <3>2 DEF Next, History, TypeOK
    <2>4. QED
      BY <2>1, <2>2, <2>3 DEF TypeOK, Shared, Frames
  <1>3. QED
    BY <1>1, <1>2

\* The state of the idle-CPU model has its type: claims and kicks concern CPUs,
\* and every caller is in a frame of its function or in none.
THEOREM TypeCorrect == Spec => []TypeOK
  <1>1. TypeOK /\ [Next]_vars => TypeOK'
    BY NextTypes
  <1>2. QED
    BY <1>1, InitTypes, PTL DEF Spec

----------------------------------------------------------------------------
(***************************************************************************)
(* No claim of the kernel is forgotten.                                    *)
(***************************************************************************)
\* A step leaves the frame of a caller alone, or is a step of that caller.
LEMMA OneCaller ==
    ASSUME TypeOK, Next, NEW a \in Callers, ~Call(a)
    PROVE  call'[a] = call[a]
  <1>1. CASE \E b \in Callers : Call(b)
    <2>1. PICK b \in Callers : Call(b)
      BY <1>1
    <2>2. a # b
      BY <2>1
    <2>3. QED
      BY <2>1, <2>2, CallFrames
  <1>2. CASE call' = call
    BY <1>2
  <1>3. QED
    BY <1>1, <1>2 DEF Next, Step, usersched_timer_fn, Kicked, GoIdle, GoBusy, Exit, Fork, SetAffinity

\* The frames of a waker: it has no CPU before the claim, and sends no record.
WakerFrames ==
    \A a \in Wakers :
        /\ call[a].pc = "pick" => call[a].cpu = NoCpu
        /\ call[a].pc \notin {"sent", "recheck"}

LEMMA NextWakerFrames ==
    ASSUME TypeOK, WakerFrames, [Next]_vars
    PROVE  WakerFrames'
  <1>1. CASE UNCHANGED vars
    BY <1>1 DEF vars, WakerFrames
  <1>2. CASE Next
    <2> SUFFICES ASSUME NEW a \in Wakers
                 PROVE  /\ call'[a].pc = "pick" => call'[a].cpu = NoCpu
                        /\ call'[a].pc \notin {"sent", "recheck"}
      BY DEF WakerFrames
    <2>0. a \in Callers /\ a \notin UserCalls
      BY IdleCpusAssumption DEF Callers
    <2>1. CASE ~Call(a)
      BY <1>2, <2>0, <2>1, OneCaller DEF WakerFrames
    <2>2. CASE Starts(a)
      BY <2>0, <2>2, StartsFrame
    <2>3. CASE pick_idle_cpu(a)
      <3>1. /\ call[a] \in Searches /\ call[a].cpu = NoCpu
            /\ call'[a] \in Searches
            /\ \/ \E c \in CPUs \cup {NoCpu} : call'[a] = Return(call[a], c)
               \/ call[a].step # 8 /\ call'[a] = Attempt(call[a])
        BY <2>0, <2>3, PickEffect, CandidatesIdle DEF TypeOK, WakerFrames
      <3>2. call'[a].pc \in {"pick", "return"}
        BY <3>1, SearchFields
      <3>3. QED
        BY <3>1, <3>2, ReturnFrame, AttemptFrame
    <2>4. CASE Orderly(a)
      <3>1. ~(rs_select_cpu(a) \/ dispatch_task(a) \/ RecheckTarget(a))
        BY <2>0 DEF rs_select_cpu, dispatch_task, RecheckTarget, WakerFrames
      <3>2. CASE \E p \in Tasks : StartEnqueue(a, p)
        <4>1. PICK p \in Tasks : Set(a, Order("enqueue", p, NoCpu))
          BY <3>2 DEF StartEnqueue
        <4>2. QED
          BY <2>0, <4>1, SetOrder
      <3>3. CASE try_direct_dispatch(a) \/ goland_enqueue(a) \/ kick_task_cpu(a)
        <4>1. call[a].pc # "off"
          BY <3>3 DEF try_direct_dispatch, goland_enqueue, kick_task_cpu
        <4>2. call[a].p \in Tasks /\ call[a].cpu \in CPUs \cup {NoCpu}
          BY <2>0, <4>1, InFrame
        <4>3. \/ Set(a, Off)
              \/ \E pc \in {"enqueue", "kick"}, c \in {call[a].cpu, NoCpu} :
                    Set(a, Order(pc, call[a].p, c))
          BY <3>3 DEF try_direct_dispatch, goland_enqueue, kick_task_cpu, Done
        <4>4. CASE Set(a, Off)
          BY <2>0, <4>4, SetType DEF Off, Frames
        <4>5. QED
          BY <2>0, <4>2, <4>3, <4>4, SetOrder
      <3>4. QED
        BY <2>4, <3>1, <3>2, <3>3 DEF Orderly
    <2>5. QED
      BY <2>0, <2>1, <2>2, <2>3, <2>4, CallCases
  <1>3. QED
    BY <1>1, <1>2

\* A waker that has a CPU keeps it until it kicks it.
LEMMA WakerKeeps ==
    ASSUME TypeOK, WakerFrames, Next, NEW a \in Wakers, NEW c \in CPUs,
           call[a].pc # "off", call[a].cpu = c, c \notin kicked', c \notin busy'
    PROVE  call'[a].pc # "off" /\ call'[a].cpu = c
  <1>0. a \in Callers /\ a \notin UserCalls /\ c # NoCpu /\ call[a].p \in Tasks
    BY InFrame, IdleCpusAssumption DEF Callers
  <1>1. CASE ~Call(a)
    BY <1>0, <1>1, OneCaller
  <1>2. CASE Call(a)
    <2>0. c \notin busy
      BY <1>0, <1>2, CallCpus DEF kernelVars
    <2>1. call[a].pc \in {"return", "enqueue", "kick"}
      BY <1>0, InFrame DEF WakerFrames
    <2>2. try_direct_dispatch(a) \/ goland_enqueue(a) \/ kick_task_cpu(a)
      BY <1>0, <1>2, <2>1 DEF Call, StartPick, StartEnqueue, MayStart, pick_idle_cpu,
         rs_select_cpu, dispatch_task, RecheckTarget
    <2>3. CASE try_direct_dispatch(a)
      <3>1. Set(a, Order("enqueue", call[a].p, c))
        BY <1>0, <2>0, <2>3 DEF try_direct_dispatch, Kick
      <3>2. QED
        BY <1>0, <3>1, SetOrder
    <2>4. CASE goland_enqueue(a)
      <3>1. Set(a, Order("kick", call[a].p, c))
        BY <1>0, <2>0, <2>4 DEF goland_enqueue, Kick
      <3>2. QED
        BY <1>0, <3>1, SetOrder
    <2>5. CASE kick_task_cpu(a)
      <3>1. c \in kicked'
        BY <1>0, <2>0, <2>5 DEF kick_task_cpu, Kick
      <3>2. QED
        BY <3>1
    <2>6. QED
      BY <2>2, <2>3, <2>4, <2>5
  <1>3. QED
    BY <1>1, <1>2

LEMMA NextKernelClaimsKicked ==
    ASSUME TypeOK, WakerFrames, KernelClaimsKicked, [Next]_vars
    PROVE  KernelClaimsKicked'
  <1>1. CASE UNCHANGED vars
    BY <1>1 DEF vars, KernelClaimsKicked
  <1>2. CASE Next
    <2> SUFFICES ASSUME NEW c \in CPUs, c \notin busy', c \notin idle', c \notin userClaimed',
                        c \notin kicked'
                 PROVE  \E a \in Wakers : call'[a].pc # "off" /\ call'[a].cpu = c
      BY DEF KernelClaimsKicked
    \* A CPU that was claimed before.
    <2>1. ASSUME c \notin busy, c \notin idle, c \notin kicked
          PROVE  \E a \in Wakers : call'[a].pc # "off" /\ call'[a].cpu = c
      <3>1. c \notin userClaimed
        BY <1>2, <2>1 DEF Next, History
      <3>2. PICK a \in Wakers : call[a].pc # "off" /\ call[a].cpu = c
        BY <2>1, <3>1 DEF KernelClaimsKicked
      <3>3. QED
        BY <1>2, <3>2, WakerKeeps
    <2>2. CASE \E a \in Callers : Call(a)
      <3>1. PICK a \in Callers : Call(a)
        BY <2>2
      <3>2. busy' = busy /\ kicked \subseteq kicked'
        BY <3>1, CallCpus DEF kernelVars
      <3>3. CASE c \notin idle
        BY <2>1, <3>2, <3>3
      <3>4. CASE c \in idle
        <4>1. CASE pick_idle_cpu(a)
          <5>1. call'[a] = Return(call[a], c) /\ call[a] \in Searches /\ call[a].pc = "pick"
            BY <3>1, <3>4, <4>1, PickEffect
          <5>2. call'[a].pc = "return" /\ call'[a].cpu = c
            BY <5>1, ReturnFrame
          <5>3. a \notin UserCalls
            BY <1>2, <5>1, <5>2 DEF Next, History
          <5>4. QED
            BY <5>2, <5>3 DEF Callers
        <4>2. CASE goland_enqueue(a)
          BY <3>2, <3>4, <4>2 DEF goland_enqueue, Kick
        <4>3. CASE kick_task_cpu(a)
          BY <3>2, <3>4, <4>3 DEF kick_task_cpu, Kick
        <4>4. QED
          BY <3>1, <3>4, <4>1, <4>2, <4>3 DEF Call, StartPick, StartEnqueue, try_direct_dispatch,
             rs_select_cpu, dispatch_task, RecheckTarget
      <3>5. QED
        BY <3>3, <3>4
    <2>3. CASE \E x \in CPUs : usersched_timer_fn(x) \/ Kicked(x) \/ GoIdle(x) \/ GoBusy(x)
      <3>1. c \notin busy /\ c \notin idle /\ c \notin kicked
        BY <2>3 DEF usersched_timer_fn, Kicked, GoIdle, GoBusy, Kick, kernelVars
      <3>2. QED
        BY <2>1, <3>1
    <2>4. CASE \E p \in Tasks : Exit(p) \/ Fork(p) \/ (\E m \in Masks : SetAffinity(p, m))
      <3>1. c \notin busy /\ c \notin idle /\ c \notin kicked
        BY <2>4 DEF Exit, Fork, SetAffinity
      <3>2. QED
        BY <2>1, <3>1
    <2>5. QED
      BY <1>2, <2>2, <2>3, <2>4 DEF Next, Step
  <1>3. QED
    BY <1>1, <1>2

\* Every CPU the kernel side claims is kicked or about to be, on every path of
\* try_direct_dispatch, goland_enqueue, kick_task_cpu and the timer, whatever
\* user space claims and the affinity does in between.
THEOREM KernelClaimsKickedCorrect == Spec => []KernelClaimsKicked
  <1>1. Init => WakerFrames /\ KernelClaimsKicked
    BY DEF Init, WakerFrames, KernelClaimsKicked, Callers, Off
  <1>2. TypeOK /\ WakerFrames /\ [Next]_vars => WakerFrames'
    BY NextWakerFrames
  <1>3. TypeOK /\ WakerFrames /\ KernelClaimsKicked /\ [Next]_vars => KernelClaimsKicked'
    BY NextKernelClaimsKicked
  <1>4. QED
    BY <1>1, <1>2, <1>3, TypeCorrect, PTL DEF Spec

----------------------------------------------------------------------------
(***************************************************************************)
(* The CPU picked is the closest one.                                      *)
(***************************************************************************)
\* The mask m of a search covers the CPUs of the list, all of them if there is none:
\* it has no other CPU, and it misses no CPU that could have been picked all the time.
Covers(m, list, usable) ==
    /\ \A d \in m : list = {} \/ d \in list
    /\ \A d \in usable : list = {} \/ d \in list => d \in m

Usables(a) == avail[a] \cup availCore[a]

\* The masks of a search that is alone are right.
MaskRight(a) ==
    LET f == call[a] IN
    a \in alone /\ f.pc = "pick" /\ f.step # 0 =>
        /\ Covers(Mask(f, "l2", l2_domain(f.p, f.prev)), l2_cpumask(f.prev), Usables(a))
        /\ Covers(Mask(f, "l3", l3_domain(f.p, f.prev)), l3_cpumask(f.prev), Usables(a))

\* What the attempts before this one have ruled out.
RuledOut(a) ==
    LET f == call[a] IN
    a \in alone /\ f.pc = "pick" =>
        /\ f.step \in 1 .. 4 => \A d \in availCore[a] : Rank(f.prev, d) >= f.step
        /\ f.step \in 5 .. 8 => /\ smt_enabled => availCore[a] = {}
                                /\ \A d \in avail[a] : Rank(f.prev, d) >= f.step - 4

MasksRight == \A a \in Callers : MaskRight(a)
AllRuledOut == \A a \in Callers : RuledOut(a)

LEMMA RankType ==
    ASSUME NEW prev, NEW c
    PROVE  Rank(prev, c) \in 1 .. 4
  BY DEF Rank

LEMMA HistoryEffect ==
    ASSUME History, NEW a \in Callers, a \in alone'
    PROVE  /\ call[a].pc = "pick" =>
                 /\ a \in alone
                 /\ avail'[a] = avail[a] \cap (idle' \cap cpus_ptr'[call'[a].p])
                 /\ availCore'[a] = availCore[a] \cap (FullIdle(idle') \cap cpus_ptr'[call'[a].p])
           /\ call[a].pc # "pick" =>
                 /\ call'[a].pc = "pick"
                 /\ avail'[a] = idle' \cap cpus_ptr'[call'[a].p]
                 /\ availCore'[a] = FullIdle(idle') \cap cpus_ptr'[call'[a].p]
           /\ \A b \in Callers : b # a => ~(call'[b].pc = "pick" /\ call'[b].p = call'[a].p)
  BY DEF History

LEMMA UsablesShrink ==
    ASSUME History, NEW a \in Callers, a \in alone'
    PROVE  /\ call[a].pc = "pick" => Usables(a)' \subseteq Usables(a)
           /\ Usables(a)' \subseteq cpus_ptr'[call'[a].p]
  BY HistoryEffect DEF Usables

LEMMA PickingStep ==
    ASSUME TypeOK, Next, NEW a \in Callers, call[a].pc = "pick"
    PROVE  call'[a] = call[a] \/ pick_idle_cpu(a)
  <1>1. CASE Call(a)
    BY <1>1, CallCases, StartsFrame, OrderlyFrame
  <1>2. CASE ~Call(a)
    BY <1>2, OneCaller
  <1>3. QED
    BY <1>1, <1>2

\* A search begins with StartPick, and goes on with the same frame or the next
\* attempt.
LEMMA PickingFrame ==
    ASSUME TypeOK, Next, NEW a \in Callers, call'[a].pc = "pick"
    PROVE  \/ Starts(a)
           \/ call[a].pc = "pick" /\ call'[a] = call[a]
           \/ /\ call[a].pc = "pick" /\ call[a].step \notin {0, 8} /\ call'[a] = Attempt(call[a])
              /\ Candidates(call[a]) = {} /\ idle' = idle /\ cpus_ptr' = cpus_ptr
  <1>1. CASE call[a].pc = "pick" /\ call'[a] # call[a]
    <2>1. pick_idle_cpu(a) /\ call[a] \in Searches
      BY <1>1, PickingStep, InFrame
    <2>2. ASSUME NEW c \in CPUs \cup {NoCpu}, call'[a] = Return(call[a], c) PROVE FALSE
      BY <2>1, <2>2, ReturnFrame
    <2>3. /\ Candidates(call[a]) = {} /\ call[a].step \notin {0, 8} /\ idle' = idle
          /\ call'[a] = Attempt(call[a]) /\ cpus_ptr' = cpus_ptr
      BY <2>1, <2>2, PickEffect, CandidatesIdle DEF TypeOK, kernelVars
    <2>4. QED
      BY <1>1, <2>3
  <1>2. CASE call[a].pc # "pick"
    <2>1. Call(a)
      BY <1>2, OneCaller
    <2>2. ~pick_idle_cpu(a)
      BY <1>2 DEF pick_idle_cpu
    <2>3. CASE Orderly(a)
      <3>1. call'[a] \in Orders \/ call'[a] = Off
        BY <2>3, OrderlyFrame
      <3>2. QED
        BY <3>1, OrderFields DEF Off
    <2>4. QED
      BY <2>1, <2>2, <2>3, CallCases
  <1>3. QED
    BY <1>1, <1>2

\* Nobody else writes the scratch masks of a task during a search that is alone:
\* another search would have to start, and one that ends leaves them to this one.
LEMMA ScratchKept ==
    ASSUME TypeOK, Next, NEW a \in Callers, a \in alone',
           call[a].pc = "pick", call'[a].pc = "pick", call'[a].p = call[a].p
    PROVE  scratch'[call[a].p] = scratch[call[a].p]
  <1>0. call[a].p \in Tasks
    BY InFrame
  <1>1. CASE \E b \in Callers : Call(b)
    <2>1. PICK b \in Callers : Call(b)
      BY <1>1
    <2>2. CASE Starts(b)
      <3>1. PICK p \in Tasks, prev \in CPUs, pinned \in BOOLEAN : StartPick(b, p, prev, pinned)
        BY <2>2, IdleCpusAssumption DEF Starts, Prevs
      <3>2. PICK f \in Searches : Set(b, f) /\ f.pc = "pick" /\ f.p = p
        BY <3>1, StartPickFrame
      <3>3. call'[b] = f
        BY <3>2, SetType DEF Frames
      <3>4. b # a
        BY <2>2, StartsFrame
      <3>5. p # call[a].p
        BY <3>2, <3>3, <3>4, HistoryEffect DEF Next
      <3>6. QED
        BY <1>0, <3>1, <3>5 DEF StartPick, TypeOK
    <2>3. CASE pick_idle_cpu(b)
      <3>1. CASE b = a
        BY <2>3, <3>1 DEF pick_idle_cpu
      <3>2. CASE b # a
        <4>1. CASE call[b].p = call[a].p
          BY <2>3, <3>2, <4>1 DEF pick_idle_cpu
        <4>2. CASE call[b].p # call[a].p
          BY <1>0, <2>3, <4>2 DEF pick_idle_cpu, TypeOK
        <4>3. QED
          BY <4>1, <4>2
      <3>3. QED
        BY <3>1, <3>2
    <2>4. CASE Orderly(b)
      BY <2>4, OrderlyFrame
    <2>5. QED
      BY <2>1, <2>2, <2>3, <2>4, CallCases
  <1>2. CASE UNCHANGED scratch
    BY <1>2
  <1>3. QED
    BY <1>1, <1>2 DEF Next, Step, usersched_timer_fn, Kicked, GoIdle, GoBusy, Exit, Fork, SetAffinity

LEMMA NextMasksRight ==
    ASSUME TypeOK, MasksRight, [Next]_vars
    PROVE  MasksRight'
  <1>1. CASE UNCHANGED vars
    BY <1>1 DEF vars, MasksRight, MaskRight, Mask, Usables, l2_domain, l3_domain
  <1>2. CASE Next
    <2> DEFINE g(a) == call'[a]
               usable(a) == avail'[a] \cup availCore'[a]
               mask(a, l, d) == IF g(a)[l] = "domain" THEN d
                                ELSE IF g(a)[l] = "scratch" THEN scratch'[g(a).p][l] ELSE {}
               domain(a, list) == IF list = {} THEN cpus_ptr'[g(a).p] ELSE list
    <2> SUFFICES ASSUME NEW a \in Callers, a \in alone', call'[a].pc = "pick", call'[a].step # 0
                 PROVE  LET x == l2_cpumask(g(a).prev)
                            y == l3_cpumask(g(a).prev)
                        IN  /\ Covers(mask(a, "l2", domain(a, x)), x, usable(a))
                            /\ Covers(mask(a, "l3", domain(a, y)), y, usable(a))
      BY DEF MasksRight, MaskRight, Mask, Usables, l2_domain, l3_domain
    <2> DEFINE x == l2_cpumask(g(a).prev)
               y == l3_cpumask(g(a).prev)
    <2>0. usable(a) \subseteq cpus_ptr'[g(a).p]
      BY <1>2, UsablesShrink DEF Usables, Next
    <2>1. CASE Starts(a)
      <3>1. PICK p \in Tasks, prev \in CPUs, pinned \in BOOLEAN : StartPick(a, p, prev, pinned)
        BY <2>1, IdleCpusAssumption DEF Starts, Prevs
      <3> DEFINE m2 == cpus_ptr[p] \cap l2_domain(p, prev)
                 m3 == cpus_ptr[p] \cap l3_domain(p, prev)
      <3>2. /\ g(a).p = p /\ g(a).prev = prev
            /\ \/ cpus_ptr[p] = CPUs /\ g(a).l2 = "domain" /\ g(a).l3 = "domain"
               \/ /\ g(a).l2 = IF m2 = {} THEN "null" ELSE "scratch"
                  /\ g(a).l3 = IF m3 = {} THEN "null" ELSE "scratch"
                  /\ scratch'[p] = [l2 |-> m2, l3 |-> m3]
        <4>1. PICK e \in Searches :
                /\ Set(a, e) /\ e.p = p /\ e.prev = prev
                /\ \/ cpus_ptr[p] = CPUs /\ e.l2 = "domain" /\ e.l3 = "domain"
                   \/ e.step = 0
                   \/ /\ e.l2 = IF m2 = {} THEN "null" ELSE "scratch"
                      /\ e.l3 = IF m3 = {} THEN "null" ELSE "scratch"
                      /\ scratch' = [scratch EXCEPT ![p] = [l2 |-> m2, l3 |-> m3]]
          BY <3>1, StartPickFrame
        <4>2. call'[a] = e
          BY <4>1, SetType DEF Frames
        <4>3. e.step # 0
          BY <4>2
        <4>4. ASSUME NEW v, scratch' = [scratch EXCEPT ![p] = v] PROVE scratch'[p] = v
          BY <4>4 DEF TypeOK
        <4> HIDE DEF m2, m3
        <4>5. QED
          BY <4>1, <4>2, <4>3, <4>4
      <3>3. cpus_ptr' = cpus_ptr
        BY <3>1 DEF StartPick, kernelVars
      <3>4. m2 = cpus_ptr'[g(a).p] \cap domain(a, x) /\ m3 = cpus_ptr'[g(a).p] \cap domain(a, y)
        BY <3>2, <3>3 DEF l2_domain, l3_domain
      <3>5. CASE g(a).l2 = "domain" /\ g(a).l3 = "domain"
        <4>1. mask(a, "l2", domain(a, x)) = domain(a, x) /\ mask(a, "l3", domain(a, y)) = domain(a, y)
          BY <3>5
        <4>2. Covers(mask(a, "l2", domain(a, x)), x, usable(a)) /\ Covers(mask(a, "l3", domain(a, y)), y, usable(a))
          <5> HIDE DEF g, usable, mask, x, y
          <5>1. QED
            BY <2>0, <4>1 DEF Covers
        <4>3. QED
          BY <4>2
      <3>6. CASE /\ g(a).l2 = IF m2 = {} THEN "null" ELSE "scratch"
                 /\ g(a).l3 = IF m3 = {} THEN "null" ELSE "scratch"
                 /\ scratch'[p] = [l2 |-> m2, l3 |-> m3]
        <4>1. mask(a, "l2", domain(a, x)) = m2
          BY <3>2, <3>6
        <4>2. mask(a, "l3", domain(a, y)) = m3
          BY <3>2, <3>6
        <4>3. Covers(mask(a, "l2", domain(a, x)), x, usable(a)) /\ Covers(mask(a, "l3", domain(a, y)), y, usable(a))
          <5> HIDE DEF g, usable, mask, x, y, m2, m3
          <5>1. QED
            BY <2>0, <3>4, <4>1, <4>2 DEF Covers
        <4>4. QED
          BY <4>3
      <3>7. QED
        BY <3>2, <3>5, <3>6
    <2>2. CASE /\ call[a].pc = "pick"
               /\ call'[a] = call[a] \/ (call'[a] = Attempt(call[a]) /\ call[a].step \notin {0, 8})
      <3> DEFINE f == call[a]
      <3>1. f \in Searches
        BY <2>2, InFrame
      <3>2. g(a).p = f.p /\ g(a).prev = f.prev /\ g(a).l2 = f.l2 /\ g(a).l3 = f.l3 /\ f.step # 0
        BY <2>2, <3>1, AttemptFrame
      <3>3. scratch'[f.p] = scratch[f.p]
        BY <1>2, <2>2, <3>2, ScratchKept
      <3>4. a \in alone /\ usable(a) \subseteq Usables(a)
        BY <1>2, <2>2, HistoryEffect, UsablesShrink DEF Usables, Next
      <3>5. /\ Covers(Mask(f, "l2", l2_domain(f.p, f.prev)), x, Usables(a))
            /\ Covers(Mask(f, "l3", l3_domain(f.p, f.prev)), y, Usables(a))
        BY <2>2, <3>2, <3>4 DEF MasksRight, MaskRight
      <3>6. Covers(mask(a, "l2", domain(a, x)), x, usable(a))
        <4>1. CASE f.l2 = "domain"
          <5>1. mask(a, "l2", domain(a, x)) = domain(a, x)
            BY <3>2, <4>1
          <5> HIDE DEF g, usable, mask, x
          <5>2. QED
            BY <2>0, <5>1 DEF Covers
        <4>2. CASE f.l2 # "domain"
          <5>1. mask(a, "l2", domain(a, x)) = Mask(f, "l2", l2_domain(f.p, f.prev))
            BY <3>2, <3>3, <4>2 DEF Mask
          <5> HIDE DEF g, usable, mask, x
          <5>2. QED
            BY <3>4, <3>5, <5>1 DEF Covers
        <4>3. QED
          BY <4>1, <4>2
      <3>7. Covers(mask(a, "l3", domain(a, y)), y, usable(a))
        <4>1. CASE f.l3 = "domain"
          <5>1. mask(a, "l3", domain(a, y)) = domain(a, y)
            BY <3>2, <4>1
          <5> HIDE DEF g, usable, mask, y
          <5>2. QED
            BY <2>0, <5>1 DEF Covers
        <4>2. CASE f.l3 # "domain"
          <5>1. mask(a, "l3", domain(a, y)) = Mask(f, "l3", l3_domain(f.p, f.prev))
            BY <3>2, <3>3, <4>2 DEF Mask
          <5> HIDE DEF g, usable, mask, y
          <5>2. QED
            BY <3>4, <3>5, <5>1 DEF Covers
        <4>3. QED
          BY <4>1, <4>2
      <3>8. QED
        BY <3>6, <3>7
    <2>3. QED
      BY <1>2, <2>1, <2>2, PickingFrame
  <1>3. QED
    BY <1>1, <1>2

\* An attempt looks at every usable CPU of its distance, and at none farther away.
LEMMA AttemptLooks ==
    ASSUME TypeOK, MasksRight, NEW a \in Callers, a \in alone,
           call[a].pc = "pick", call[a].step # 0,
           NEW k \in 1 .. 4, call[a].step \in {k, k + 4}, NEW d
    PROVE  /\ d \in Where(call[a]) => Rank(call[a].prev, d) <= k
           /\ /\ d \in Usables(a) /\ d \in cpus_ptr[call[a].p]
              /\ Rank(call[a].prev, d) = k
              => d \in Where(call[a])
  <1> DEFINE f == call[a]
             m2 == Mask(f, "l2", l2_domain(f.p, f.prev))
             m3 == Mask(f, "l3", l3_domain(f.p, f.prev))
  <1>1. Covers(m2, l2_cpumask(f.prev), Usables(a)) /\ Covers(m3, l3_cpumask(f.prev), Usables(a))
    BY DEF MasksRight, MaskRight
  <1>2. CASE k = 1
    <2>1. Where(f) = {f.prev}
      BY <1>2 DEF Where
    <2>2. QED
      BY <1>2, <2>1 DEF Rank
  <1>3. CASE k = 2
    <2>1. Where(f) = m2
      BY <1>3 DEF Where
    <2> HIDE DEF m2, m3
    <2>2. QED
      BY <1>1, <1>3, <2>1 DEF Rank, Covers
  <1>4. CASE k = 3
    <2>1. Where(f) = m3
      BY <1>4 DEF Where
    <2> HIDE DEF m2, m3
    <2>2. QED
      BY <1>1, <1>4, <2>1 DEF Rank, Covers
  <1>5. CASE k = 4
    <2>1. Where(f) = cpus_ptr[f.p]
      BY <1>5 DEF Where
    <2>2. QED
      BY <1>5, <2>1, RankType
  <1>6. QED
    BY <1>2, <1>3, <1>4, <1>5

\* What a failed attempt rules out.
LEMMA AttemptRulesOut ==
    ASSUME TypeOK, MasksRight, NEW a \in Callers, a \in alone,
           call[a].pc = "pick", call[a].step # 0,
           NEW k \in 1 .. 4, call[a].step \in {k, k + 4}, Candidates(call[a]) = {},
           NEW d \in cpus_ptr[call[a].p], d \in Usables(a), Rank(call[a].prev, d) >= k,
           d \in IF call[a].step \in 1 .. 4 THEN FullIdle(idle) ELSE idle
    PROVE  Rank(call[a].prev, d) >= k + 1
  <1>1. d \notin Where(call[a])
    BY DEF Candidates
  <1>2. Rank(call[a].prev, d) # k
    BY <1>1, AttemptLooks
  <1>3. QED
    BY <1>2, RankType

LEMMA NextRuledOut ==
    ASSUME TypeOK, MasksRight, AllRuledOut, [Next]_vars
    PROVE  AllRuledOut'
  <1>1. CASE UNCHANGED vars
    BY <1>1 DEF vars, AllRuledOut, RuledOut
  <1>2. CASE Next
    <2> SUFFICES ASSUME NEW a \in Callers, a \in alone', call'[a].pc = "pick"
                 PROVE  RuledOut(a)'
      BY DEF AllRuledOut, RuledOut
    <2>1. CASE Starts(a)
      <3>1. call'[a].step \in {0, 1, 5} /\ (call'[a].step = 5 => ~smt_enabled)
        BY <2>1, StartsFrame
      <3>2. QED
        BY <3>1, RankType DEF RuledOut
    <2> DEFINE f == call[a]
               g == call'[a]
    <2>2. CASE f.pc = "pick" /\ g = f
      <3>1. a \in alone /\ avail'[a] \subseteq avail[a] /\ availCore'[a] \subseteq availCore[a]
        BY <1>2, <2>2, HistoryEffect DEF Next
      <3>2. RuledOut(a)
        BY DEF AllRuledOut
      <3>3. QED
        BY <2>2, <3>1, <3>2 DEF RuledOut
    <2>3. CASE /\ f.pc = "pick" /\ f.step \notin {0, 8} /\ g = Attempt(f)
               /\ Candidates(f) = {} /\ idle' = idle /\ cpus_ptr' = cpus_ptr
      <3>1. f \in Searches /\ f.step \in 1 .. 7
        <4>1. f \in Searches
          BY <2>3, InFrame
        <4>2. QED
          BY <2>3, <4>1, SearchFields
      <3>2. g.p = f.p /\ g.prev = f.prev /\ g.step = f.step + 1
        BY <2>3, <3>1, AttemptFrame
      <3>3. /\ a \in alone
            /\ avail'[a] = avail[a] \cap (idle \cap cpus_ptr[f.p])
            /\ availCore'[a] = availCore[a] \cap (FullIdle(idle) \cap cpus_ptr[f.p])
        BY <1>2, <2>3, <3>2, HistoryEffect DEF Next
      <3>4. RuledOut(a)
        BY DEF AllRuledOut
      <3>5. CASE f.step \in 1 .. 4
        <4>1. ASSUME NEW d \in availCore'[a] PROVE Rank(f.prev, d) >= f.step + 1
          <5>1. Rank(f.prev, d) >= f.step
            BY <2>3, <3>3, <3>4, <3>5, <4>1 DEF RuledOut
          <5>2. d \in cpus_ptr[f.p] /\ d \in FullIdle(idle) /\ d \in Usables(a)
            BY <3>3 DEF Usables
          <5>3. QED
            BY <2>3, <3>1, <3>3, <3>5, <5>1, <5>2, AttemptRulesOut
        <4>2. CASE f.step # 4
          BY <3>2, <3>5, <4>1, <4>2 DEF RuledOut
        <4>3. CASE f.step = 4
          <5>1. availCore'[a] = {}
            BY <4>1, <4>3, RankType
          <5>2. \A d : Rank(f.prev, d) >= 1
            BY RankType
          <5>3. QED
            BY <3>2, <4>3, <5>1, <5>2 DEF RuledOut
        <4>4. QED
          BY <4>2, <4>3
      <3>6. CASE f.step \in 5 .. 7
        <4> DEFINE k == f.step - 4
        <4>1. k \in 1 .. 4 /\ f.step = k + 4 /\ f.step \notin 1 .. 4
          BY <3>6
        <4> HIDE DEF k
        <4>2. ASSUME NEW d \in avail'[a] PROVE Rank(f.prev, d) >= k + 1
          <5>1. Rank(f.prev, d) >= k
            BY <2>3, <3>3, <3>4, <3>6 DEF RuledOut, k
          <5>2. d \in cpus_ptr[f.p] /\ d \in idle /\ d \in Usables(a)
            BY <3>3 DEF Usables
          <5>3. QED
            BY <2>3, <3>1, <3>3, <4>1, <5>1, <5>2, AttemptRulesOut
        <4>3. smt_enabled => availCore'[a] = {}
          BY <2>3, <3>3, <3>4, <3>6 DEF RuledOut
        <4>4. QED
          BY <3>2, <3>6, <4>2, <4>3 DEF RuledOut, k
      <3>7. QED
        BY <3>1, <3>5, <3>6
    <2>4. QED
      BY <1>2, <2>1, <2>2, <2>3, PickingFrame
  <1>3. QED
    BY <1>1, <1>2

LEMMA NextClosestIdle ==
    ASSUME TypeOK, MasksRight, AllRuledOut, ClosestIdle, [Next]_vars
    PROVE  ClosestIdle'
  <1>1. CASE UNCHANGED vars
    BY <1>1 DEF vars, ClosestIdle
  <1>2. CASE Next
    <2> DEFINE Good(a) ==
          LET f == call'[a]
              core == f.step \in 1 .. 4
          IN  /\ smt_enabled /\ ~core => availCore'[a] = {}
              /\ \A d \in IF core THEN availCore'[a] ELSE avail'[a] :
                    Rank(f.prev, f.cpu) <= Rank(f.prev, d)
    <2>1. ASSUME NEW a \in Callers, a \in alone',
                 call'[a].pc = "return", call'[a].cpu # NoCpu, call'[a].step # 0
          PROVE  Good(a)
      <3> DEFINE f == call[a]
                 g == call'[a]
      <3>1. f.pc = "pick" /\ a \in alone
        BY <1>2, <2>1, HistoryEffect DEF Next
      <3>2. pick_idle_cpu(a) /\ f \in Searches
        BY <1>2, <2>1, <3>1, PickingStep, InFrame
      <3>3. PICK c \in Candidates(f) : g = Return(f, c) /\ idle' = idle \ {c}
        <4>1. ASSUME g = Return(f, NoCpu) PROVE FALSE
          BY <2>1, <3>2, <4>1, ReturnFrame
        <4>2. ASSUME f.step \notin {0, 8}, g = Attempt(f) PROVE FALSE
          BY <2>1, <3>1, <3>2, <4>2, AttemptFrame
        <4>3. QED
          BY <3>2, <4>1, <4>2, PickEffect
      <3>4. c \in CPUs /\ c \in Where(f)
        BY CandidatesIdle DEF Candidates, TypeOK
      <3>5. g.cpu = c /\ g.p = f.p /\ g.prev = f.prev /\ g.step = f.step /\ f.step # 0
        BY <2>1, <3>2, <3>3, <3>4, ReturnFrame
      <3>6. avail'[a] \subseteq avail[a] /\ availCore'[a] \subseteq availCore[a]
        BY <1>2, <2>1, <3>1, HistoryEffect DEF Next
      <3>7. RuledOut(a) /\ f.step \in 1 .. 8
        <4>1. f.step \in 0 .. 8
          BY <3>2, SearchFields
        <4>2. QED
          BY <3>5, <4>1 DEF AllRuledOut
      <3>8. CASE f.step \in 1 .. 4
        <4>1. Rank(f.prev, c) <= f.step
          BY <3>1, <3>4, <3>5, <3>8, AttemptLooks
        <4>2. \A d \in availCore'[a] : Rank(f.prev, d) >= f.step
          BY <3>1, <3>6, <3>7, <3>8 DEF RuledOut
        <4>3. \A d : Rank(f.prev, d) \in Int
          BY RankType
        <4>4. QED
          BY <3>5, <3>8, <4>1, <4>2, <4>3
      <3>9. CASE f.step \in 5 .. 8
        <4> DEFINE k == f.step - 4
        <4>1. k \in 1 .. 4 /\ f.step = k + 4 /\ f.step \notin 1 .. 4
          BY <3>9
        <4>2. \A d \in avail'[a] : Rank(f.prev, d) >= k
          BY <3>1, <3>6, <3>7, <3>9 DEF RuledOut
        <4>3. smt_enabled => availCore'[a] = {}
          BY <3>1, <3>6, <3>7, <3>9 DEF RuledOut
        <4> HIDE DEF k
        <4>4. Rank(f.prev, c) <= k
          BY <3>1, <3>4, <3>5, <4>1, AttemptLooks
        <4>5. \A d : Rank(f.prev, d) \in Int
          BY RankType
        <4>6. QED
          BY <3>5, <4>1, <4>2, <4>3, <4>4, <4>5
      <3>10. QED
        BY <3>7, <3>8, <3>9
    <2>2. alone' \subseteq Callers
      BY <1>2 DEF Next, History
    <2>3. QED
      BY <2>1, <2>2 DEF ClosestIdle
  <1>3. QED
    BY <1>1, <1>2

\* pick_idle_cpu returns the closest CPU to every search, of the kernel or of user
\* space, that has the scratch masks of its task for itself: no usable CPU of a
\* full-idle core, and else no usable CPU, that is closer to prev_cpu was idle during
\* the whole call, for every topology, known or not, and whatever the affinity does.
THEOREM ClosestIdleCorrect == Spec => []ClosestIdle
  <1> DEFINE J == MasksRight /\ AllRuledOut /\ ClosestIdle
  <1>1. Init => J
    BY DEF Init, MasksRight, MaskRight, AllRuledOut, RuledOut, ClosestIdle
  <1>2. TypeOK /\ J /\ [Next]_vars => J'
    BY NextMasksRight, NextRuledOut, NextClosestIdle
  <1>3. J => ClosestIdle
    OBVIOUS
  <1> HIDE DEF J
  <1>4. QED
    BY <1>1, <1>2, <1>3, TypeCorrect, PTL DEF Spec
===============================================================================
