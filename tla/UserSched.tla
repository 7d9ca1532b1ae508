------------------------------ MODULE UserSched ------------------------------
(***************************************************************************)
(* The user-space scheduler: the scheduling goroutine of main.go with the  *)
(* calls of goland_core/task.go and wrapper.c it makes, the two Go         *)
(* channels of goland_core/obj.go, and the counters nr_queued and          *)
(* nr_scheduled it shares with the BPF half.                               *)
(*                                                                         *)
(* The order of the task pool is TaskPool's business: here the pool is a   *)
(* bag.  The two libbpfgo goroutines that move records between the rings   *)
(* and the channels, and the BPF half, are external.                       *)
(***************************************************************************)
EXTENDS Integers, Sequences, FiniteSets

CONSTANTS
    Pids,
    Batch,          \* 10: tasks the goroutine waits for before it dispatches
    PoolCap,        \* taskPoolSize - 1
    QueueCap,       \* 4096: capacity of the channel queue
    DispatchCap,    \* 4096: capacity of the channel dispatch
    UrbErrors,      \* whether a write to @dispatched may fail
    NrCpus,         \* CPUs that may be in goland_enqueue
    MaxRecords,     \* bound: records between goland_enqueue and dispatch_task
    MaxNrQueued     \* bound: nr_queued sticks at this value

ASSUME UserSchedAssumption ==
    /\ Batch \in Nat \ {0}
    /\ PoolCap \in Nat
    /\ Batch <= PoolCap
    /\ QueueCap \in Nat \ {0}
    /\ DispatchCap \in Nat \ {0}
    /\ UrbErrors \in BOOLEAN
    /\ NrCpus \in Nat \ {0}
    /\ MaxRecords \in Nat
    /\ MaxNrQueued \in Nat

VARIABLES
    ring,           \* @queued: records not yet handed to the channel queue
    adds,           \* records submitted whose __sync_fetch_and_add is still to come
    nr_queued,      \* bss, written by both halves
    nr_scheduled,   \* bss, written by notify_complete
    queue,          \* channel: @queued to the goroutine
    taskPool,       \* records in the pool, per pid
    taskPoolCount,
    dispatch,       \* channel: the goroutine to @dispatched
    urb,            \* @dispatched
    urb_failed,     \* urb.Error() is not nil
    pc,             \* where the goroutine is
    hand,           \* the record it holds outside the pool (<<>> or <<pid>>)
    num,            \* whether DrainQueuedTask has counted a task
    loaded          \* nr_queued as read by sub_nr_queued

goVars == <<taskPool, taskPoolCount, pc, hand, num, loaded>>
vars == <<ring, adds, nr_queued, nr_scheduled, queue, taskPool, taskPoolCount,
          dispatch, urb, urb_failed, pc, hand, num, loaded>>

PCs == {"pool", "fill", "drain", "sub", "store", "block", "resend", "dispatch", "send", "notify"}

Types ==
    /\ ring \in Seq(Pids)
    /\ adds \in 0 .. NrCpus
    /\ nr_queued \in Int
    /\ nr_scheduled \in Nat
    /\ queue \in Seq(Pids)
    /\ taskPool \in [Pids -> Nat]
    /\ taskPoolCount \in 0 .. PoolCap
    /\ dispatch \in Seq(Pids)
    /\ urb \in Seq(Pids)
    /\ urb_failed \in BOOLEAN
    /\ pc \in PCs
    /\ hand \in {<<>>} \cup {<<p>> : p \in Pids}
    /\ num \in BOOLEAN
    /\ loaded \in Int

\* The type invariant: the pool and the two channels hold what they have room for.
TypeOK == Types /\ Len(queue) <= QueueCap /\ Len(dispatch) <= DispatchCap

Records ==
    Len(ring) + Len(queue) + taskPoolCount + Len(hand) + Len(dispatch) + Len(urb)

----------------------------------------------------------------------------
(***************************************************************************)
(* The BPF half and libbpfgo.                                              *)
(***************************************************************************)
\* The end of goland_enqueue: the record is submitted, then counted.
Submit(p) ==
    /\ Records < MaxRecords
    /\ adds < NrCpus
    /\ ring' = Append(ring, p)
    /\ adds' = adds + 1
    /\ UNCHANGED <<nr_queued, nr_scheduled, queue, dispatch, urb, urb_failed, goVars>>

AddNrQueued ==
    /\ adds > 0
    /\ adds' = adds - 1
    /\ nr_queued' = IF nr_queued < MaxNrQueued THEN nr_queued + 1 ELSE nr_queued
    /\ UNCHANGED <<ring, nr_scheduled, queue, dispatch, urb, urb_failed, goVars>>

\* The poller's send on the channel blocks while it is full; the record is
\* consumed from the ring after the send.
PollSend ==
    /\ ring # <<>>
    /\ Len(queue) < QueueCap
    /\ queue' = Append(queue, Head(ring))
    /\ ring' = Tail(ring)
    /\ UNCHANGED <<adds, nr_queued, nr_scheduled, dispatch, urb, urb_failed, goVars>>

UrbSend ==
    /\ dispatch # <<>>
    /\ ~urb_failed
    /\ urb' = Append(urb, Head(dispatch))
    /\ dispatch' = Tail(dispatch)
    /\ UNCHANGED <<ring, adds, nr_queued, nr_scheduled, queue, urb_failed, goVars>>

\* A failed write is kept as urb.Error() and ends the writer.
UrbFail ==
    /\ UrbErrors
    /\ dispatch # <<>>
    /\ ~urb_failed
    /\ urb_failed' = TRUE
    /\ UNCHANGED <<ring, adds, nr_queued, nr_scheduled, queue, dispatch, urb, goVars>>

BpfDrain ==
    /\ urb # <<>>
    /\ urb' = Tail(urb)
    /\ UNCHANGED <<ring, adds, nr_queued, nr_scheduled, queue, dispatch, urb_failed, goVars>>

----------------------------------------------------------------------------
(***************************************************************************)
(* The goroutine.                                                          *)
(***************************************************************************)
shared == <<ring, adds, nr_queued, nr_scheduled, queue, dispatch, urb, urb_failed>>

\* Mutant: the pool is filled again whenever it is below the batch size.
GetTaskFromPool_refills ==
    /\ pc = "pool"
    /\ \/ /\ taskPoolCount < Batch
          /\ pc' = "fill"
          /\ UNCHANGED <<taskPool, taskPoolCount, hand>>
       \/ \E p \in Pids :
            /\ taskPoolCount >= Batch
            /\ taskPool[p] > 0
            /\ taskPool' = [taskPool EXCEPT ![p] = @ - 1]
            /\ taskPoolCount' = taskPoolCount - 1
            /\ hand' = <<p>>
            /\ pc' = "dispatch"
    /\ UNCHANGED <<shared, num, loaded>>

\* Mutant: the counter goes down before the pool is tested for empty.
GetTaskFromPool_count_first ==
    /\ pc = "pool"
    /\ taskPoolCount' = taskPoolCount - 1
    /\ \/ /\ taskPoolCount = 0
          /\ pc' = "fill"
          /\ UNCHANGED <<taskPool, hand>>
       \/ \E p \in Pids :
            /\ taskPool[p] > 0
            /\ taskPool' = [taskPool EXCEPT ![p] = @ - 1]
            /\ hand' = <<p>>
            /\ pc' = "dispatch"
    /\ UNCHANGED <<shared, num, loaded>>

\* An empty pool is filled before anything is dispatched; otherwise the pool
\* is emptied, task by task.
GetTaskFromPool ==
    /\ pc = "pool"
    /\ \/ /\ taskPoolCount = 0
          /\ pc' = "fill"
          /\ UNCHANGED <<taskPool, taskPoolCount, hand>>
       \/ \E p \in Pids :
            /\ taskPool[p] > 0
            /\ taskPool' = [taskPool EXCEPT ![p] = @ - 1]
            /\ taskPoolCount' = taskPoolCount - 1
            /\ hand' = <<p>>
            /\ pc' = "dispatch"
    /\ UNCHANGED <<shared, num, loaded>>

\* The test of the fill loop.
Fill ==
    /\ pc = "fill"
    /\ pc' = IF taskPoolCount < Batch THEN "drain" ELSE "pool"
    /\ UNCHANGED <<shared, taskPool, taskPoolCount, hand, num, loaded>>

\* DrainQueuedTask returns 0 for a full pool, whatever it counted, and the
\* number of tasks it took when the channel is empty.
DrainQueuedTask ==
    /\ pc = "drain"
    /\ \/ /\ taskPoolCount < PoolCap
          /\ queue # <<>>
          /\ hand' = <<Head(queue)>>
          /\ queue' = Tail(queue)
          /\ pc' = "sub"
          /\ UNCHANGED num
       \/ /\ taskPoolCount = PoolCap \/ queue = <<>>
          /\ pc' = IF taskPoolCount < PoolCap /\ num THEN "fill" ELSE "block"
          /\ num' = FALSE
          /\ UNCHANGED <<hand, queue>>
    /\ UNCHANGED <<ring, adds, nr_queued, nr_scheduled, dispatch, urb, urb_failed,
                   taskPool, taskPoolCount, loaded>>

\* The rest of the loop body: the task goes into the pool and is counted.
InsertTaskToPool ==
    /\ taskPool' = [taskPool EXCEPT ![hand[1]] = @ + 1]
    /\ taskPoolCount' = taskPoolCount + 1
    /\ hand' = <<>>
    /\ num' = TRUE
    /\ loaded' = 0
    /\ pc' = "drain"

\* Mutant: the counter is not tested against 0.
sub_nr_queued_no_test ==
    /\ pc = "sub"
    /\ loaded' = nr_queued
    /\ pc' = "store"
    /\ UNCHANGED <<shared, taskPool, taskPoolCount, hand, num>>

\* sub_nr_queued is neither atomic nor volatile: it tests the counter...
sub_nr_queued ==
    /\ pc = "sub"
    /\ \/ /\ nr_queued # 0
          /\ loaded' = nr_queued
          /\ pc' = "store"
          /\ UNCHANGED <<taskPool, taskPoolCount, hand, num>>
       \/ /\ nr_queued = 0
          /\ InsertTaskToPool
    /\ UNCHANGED shared

\* ...may or may not read it again for the decrement...
sub_nr_queued_reload ==
    /\ pc = "store"
    /\ loaded' = nr_queued
    /\ UNCHANGED <<shared, taskPool, taskPoolCount, pc, hand, num>>

\* ...and stores what it computed over whatever the BPF half added meanwhile.
sub_nr_queued_store ==
    /\ pc = "store"
    /\ nr_queued' = loaded - 1
    /\ InsertTaskToPool
    /\ UNCHANGED <<ring, adds, nr_scheduled, queue, dispatch, urb, urb_failed>>

\* Waits for a record by taking one from the channel...
BlockTilReadyForDequeue ==
    /\ pc = "block"
    /\ queue # <<>>
    /\ hand' = <<Head(queue)>>
    /\ queue' = Tail(queue)
    /\ pc' = "resend"
    /\ UNCHANGED <<ring, adds, nr_queued, nr_scheduled, dispatch, urb, urb_failed,
                   taskPool, taskPoolCount, num, loaded>>

\* Mutant: the record taken while waiting is not put back.
Resend_dropped ==
    /\ pc = "resend"
    /\ hand' = <<>>
    /\ pc' = "fill"
    /\ UNCHANGED <<shared, taskPool, taskPoolCount, num, loaded>>

\* ...and sending it back, which blocks while the channel is full.
Resend ==
    /\ pc = "resend"
    /\ Len(queue) < QueueCap
    /\ queue' = Append(queue, hand[1])
    /\ hand' = <<>>
    /\ pc' = "fill"
    /\ UNCHANGED <<ring, adds, nr_queued, nr_scheduled, dispatch, urb, urb_failed,
                   taskPool, taskPoolCount, num, loaded>>

\* After an error of the ring the task is dropped ("continue").
DispatchTask ==
    /\ pc = "dispatch"
    /\ \/ /\ urb_failed
          /\ hand' = <<>>
          /\ pc' = "pool"
       \/ /\ ~urb_failed
          /\ pc' = "send"
          /\ UNCHANGED hand
    /\ UNCHANGED <<shared, taskPool, taskPoolCount, num, loaded>>

\* The send blocks while the channel is full: for good once the writer ended.
SendDispatch ==
    /\ pc = "send"
    /\ Len(dispatch) < DispatchCap
    /\ dispatch' = Append(dispatch, hand[1])
    /\ hand' = <<>>
    /\ pc' = "notify"
    /\ UNCHANGED <<ring, adds, nr_queued, nr_scheduled, queue, urb, urb_failed,
                   taskPool, taskPoolCount, num, loaded>>

NotifyComplete ==
    /\ pc = "notify"
    /\ nr_scheduled' = taskPoolCount
    /\ pc' = "pool"
    /\ UNCHANGED <<ring, adds, nr_queued, queue, dispatch, urb, urb_failed,
                   taskPool, taskPoolCount, hand, num, loaded>>

----------------------------------------------------------------------------
Init ==
    /\ ring = <<>> /\ queue = <<>> /\ dispatch = <<>> /\ urb = <<>>
    /\ adds = 0 /\ nr_queued = 0 /\ nr_scheduled = 0
    /\ taskPool = [p \in Pids |-> 0]
    /\ taskPoolCount = 0
    /\ urb_failed = FALSE
    /\ pc = "pool" /\ hand = <<>> /\ num = FALSE /\ loaded = 0

Go ==
    \/ GetTaskFromPool \/ Fill \/ DrainQueuedTask
    \/ sub_nr_queued \/ sub_nr_queued_store
    \/ BlockTilReadyForDequeue \/ Resend
    \/ DispatchTask \/ SendDispatch \/ NotifyComplete

Next ==
    \/ \E p \in Pids : Submit(p)
    \/ AddNrQueued \/ PollSend \/ UrbSend \/ UrbFail \/ BpfDrain
    \/ sub_nr_queued_reload
    \/ Go

\* Every goroutine keeps running, an enqueue that submitted its record also
\* counts it, and some CPU keeps calling goland_dispatch.  No task has to wake up.
Fairness ==
    /\ WF_vars(Go)
    /\ WF_vars(AddNrQueued)
    /\ WF_vars(PollSend)
    /\ WF_vars(UrbSend)
    /\ WF_vars(BpfDrain)

Spec == Init /\ [][Next]_vars /\ Fairness

----------------------------------------------------------------------------
(***************************************************************************)
(* Properties.                                                             *)
(***************************************************************************)
CountOf(s, p) == Cardinality({i \in DOMAIN s : s[i] = p})

\* The records between the two rings, wherever the goroutine has them.
Held == [p \in Pids |-> CountOf(queue, p) + taskPool[p] + CountOf(hand, p) + CountOf(dispatch, p)]

Relay == INSTANCE UserRelay WITH
    queued <- ring, held <- Held, dispatched <- urb, broken <- urb_failed

\* Through channels, pool and the take-and-resend of BlockTilReadyForDequeue no
\* record is lost, duplicated or invented, as long as no write to @dispatched
\* fails: user space is a UserRelay, which is what BpfBackend relies on.
IsUserRelay == Relay!RelaySpec

\* nr_queued never wraps below 0, although sub_nr_queued tests and decrements
\* it in separate steps while the BPF half adds to it.
NrQueuedNeverWraps == nr_queued >= 0

\* No write to @dispatched fails, and neither the pool nor the channel of records
\* to it is ever full.
Healthy == [](~urb_failed /\ taskPoolCount < PoolCap /\ Len(queue) < QueueCap)

\* A pool that reached the batch size is emptied: the goroutine dispatches all
\* of it before it waits again.
BatchIsDispatched == Healthy => (taskPoolCount >= Batch ~> taskPoolCount = 0)

\* "Add tasks to the @queued list, they will be processed by the user-space
\* scheduler" (main.bpf.c:986): every record gets to @dispatched.
QueuedIsProcessed == Relay!AnswersAll

\* The same for as long as tasks keep being enqueued, as on a busy machine: this
\* is the premise of BpfBackend's LeavesCustody.
ProcessedUnderLoad == Healthy /\ []<><<\E p \in Pids : Submit(p)>>_vars => QueuedIsProcessed
==============================================================================
