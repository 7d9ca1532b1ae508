------------------------------- MODULE TaskPool -------------------------------
(***************************************************************************)
(* The task pool of the sample scheduler (main.go): a ring of taskPoolSize  *)
(* slots kept sorted by insertion, with a head, a tail and a count that the *)
(* callers test in different ways.                                          *)
(***************************************************************************)
EXTENDS Integers, FiniteSets

CONSTANTS
    taskPoolSize,
    Pids,       \* int32 pids
    Vtimes,     \* vtimes updatedEnqueueTask leaves in a task
    Runtimes,   \* SumExecRuntime
    RuntimeCap  \* SLICE_NS_DEFAULT * 100

ASSUME PoolAssumption ==
    /\ taskPoolSize \in Nat \ {0, 1}
    /\ Pids \subseteq Nat \ {0}
    /\ Vtimes \subseteq Nat
    /\ Runtimes \subseteq Nat
    /\ RuntimeCap \in Nat

\* Timestamp is left out: no code sets it.
Tasks == [Pid : Pids, Vtime : Vtimes, SumExecRuntime : Runtimes]
\* Go's zero value of a slot, and nil.
NoTask == [Pid |-> 0, Vtime |-> 0, SumExecRuntime |-> 0]

VARIABLES
    taskPool,       \* the slots of the ring
    taskPoolHead, taskPoolTail, taskPoolCount,
    out,            \* the answer of the last GetTaskFromPool
    ok              \* the answer of the last InsertTaskToPool

vars == <<taskPool, taskPoolHead, taskPoolTail, taskPoolCount, out, ok>>

Slots == 0 .. taskPoolSize - 1

\* The type invariant.
TypeOK ==
    /\ taskPool \in [Slots -> Tasks \cup {NoTask}]
    /\ taskPoolHead \in Slots
    /\ taskPoolTail \in Slots
    /\ taskPoolCount \in Slots
    /\ out \in Tasks \cup {NoTask}
    /\ ok \in BOOLEAN

\* The last line of updatedEnqueueTask.
Deadline(t) ==
    t.Vtime + IF t.SumExecRuntime < RuntimeCap THEN t.SumExecRuntime ELSE RuntimeCap

LessQueuedTask(a, b) ==
    \/ Deadline(a) < Deadline(b)
    \/ Deadline(a) = Deadline(b) /\ a.Pid < b.Pid

\* The slot of the i-th live task.
Slot(i) == (taskPoolHead + i) % taskPoolSize

\* Mutant: the search compares the wrong way round and stops too early.
InsertIdx_reversed(t) ==
    LET greater == {i \in 0 .. taskPoolCount - 1 : LessQueuedTask(taskPool[Slot(i)], t)}
    IN  IF greater = {} THEN taskPoolTail
        ELSE Slot(CHOOSE i \in greater : \A j \in greater : i <= j)

\* The slot of the first live task the new one precedes, else the tail.
InsertIdx(t) ==
    LET greater == {i \in 0 .. taskPoolCount - 1 : LessQueuedTask(t, taskPool[Slot(i)])}
    IN  IF greater = {} THEN taskPoolTail
        ELSE Slot(CHOOSE i \in greater : \A j \in greater : i <= j)

\* Mutant: the shift does not wrap around the end of the array.
Shifted_no_wrap(t, idx) ==
    [s \in Slots |-> IF s = idx THEN t
                     ELSE IF s > idx /\ s <= taskPoolTail THEN taskPool[s - 1]
                     ELSE taskPool[s]]

\* The slots from idx to the tail move up by one, backwards from the tail.
Shifted(t, idx) ==
    [s \in Slots |->
        IF s = idx THEN t
        ELSE IF (s - idx) % taskPoolSize <= (taskPoolTail - idx) % taskPoolSize
             THEN taskPool[(s - 1 + taskPoolSize) % taskPoolSize]
        ELSE taskPool[s]]

\* Mutant: the last slot is used too.
InsertTaskToPool_full(t) ==
    \/ /\ taskPoolCount >= taskPoolSize
       /\ ok' = FALSE
       /\ UNCHANGED <<taskPool, taskPoolHead, taskPoolTail, taskPoolCount, out>>
    \/ /\ taskPoolCount < taskPoolSize
       /\ taskPool' = Shifted(t, InsertIdx(t))
       /\ taskPoolTail' = (taskPoolTail + 1) % taskPoolSize
       /\ taskPoolCount' = taskPoolCount + 1
       /\ ok' = TRUE
       /\ UNCHANGED <<taskPoolHead, out>>

InsertTaskToPool(t) ==
    \/ /\ taskPoolCount >= taskPoolSize - 1
       /\ ok' = FALSE
       /\ UNCHANGED <<taskPool, taskPoolHead, taskPoolTail, taskPoolCount, out>>
    \/ /\ taskPoolCount < taskPoolSize - 1
       /\ taskPool' = Shifted(t, InsertIdx(t))
       /\ taskPoolTail' = (taskPoolTail + 1) % taskPoolSize
       /\ taskPoolCount' = taskPoolCount + 1
       /\ ok' = TRUE
       /\ UNCHANGED <<taskPoolHead, out>>

\* Mutant: the count is not kept.
GetTaskFromPool_no_count ==
    \/ /\ taskPoolHead = taskPoolTail
       /\ out' = NoTask
       /\ UNCHANGED <<taskPool, taskPoolHead, taskPoolTail, taskPoolCount, ok>>
    \/ /\ taskPoolHead # taskPoolTail
       /\ out' = taskPool[taskPoolHead]
       /\ taskPoolHead' = (taskPoolHead + 1) % taskPoolSize
       /\ UNCHANGED <<taskPool, taskPoolTail, taskPoolCount, ok>>

GetTaskFromPool ==
    \/ /\ taskPoolHead = taskPoolTail
       /\ out' = NoTask
       /\ UNCHANGED <<taskPool, taskPoolHead, taskPoolTail, taskPoolCount, ok>>
    \/ /\ taskPoolHead # taskPoolTail
       /\ out' = taskPool[taskPoolHead]
       /\ taskPoolHead' = (taskPoolHead + 1) % taskPoolSize
       /\ taskPoolCount' = taskPoolCount - 1
       /\ UNCHANGED <<taskPool, taskPoolTail, ok>>

Init ==
    /\ taskPool = [s \in Slots |-> NoTask]
    /\ taskPoolHead = 0 /\ taskPoolTail = 0 /\ taskPoolCount = 0
    /\ out = NoTask /\ ok = TRUE

Next == (\E t \in Tasks : InsertTaskToPool(t)) \/ GetTaskFromPool

Spec == Init /\ [][Next]_vars

----------------------------------------------------------------------------
\* DrainQueuedTask's test for a full pool, made before it takes a task from the
\* channel.
DrainStops == (taskPoolTail + 1) % taskPoolSize = taskPoolHead

\* The three ways the code tests the pool agree: DrainQueuedTask stops exactly
\* when InsertTaskToPool would refuse (a task it refused would be lost), and
\* GetTaskFromPool returns nil exactly when the count is 0.
TestsAgree ==
    /\ DrainStops <=> taskPoolCount >= taskPoolSize - 1
    /\ taskPoolHead = taskPoolTail <=> taskPoolCount = 0

\* The live tasks from the head on, and how often each task is among them.
Live == [i \in 0 .. taskPoolCount - 1 |-> taskPool[Slot(i)]]
LiveBag == [t \in Tasks |-> Cardinality({i \in 0 .. taskPoolCount - 1 : Live[i] = t})]

SP == INSTANCE SortedPool WITH
        Elements <- Tasks,
        Nil <- NoTask,
        Precedes <- LessQueuedTask,
        Capacity <- taskPoolSize - 1,
        bag <- LiveBag,
        size <- taskPoolCount

\* The ring is a sorted pool: through insertion, shifting and wrap-around no task
\* is lost or duplicated, and GetTaskFromPool always returns a task that no
\* pooled task precedes.
IsSortedPool == SP!SPSpec
===============================================================================
