------------------------------ MODULE SortedPool ------------------------------
(***************************************************************************)
(* What the task pool of main.go promises its caller: a bag of at most     *)
(* Capacity tasks from which a task no other task precedes is taken.       *)
(***************************************************************************)
EXTENDS Integers

CONSTANTS
    Elements,       \* the tasks that may be pooled
    Nil,            \* the answer of an empty pool
    Precedes(_, _), \* the order of dispatch
    Capacity        \* tasks the pool holds at most

VARIABLES
    bag,    \* how many times each task is in the pool
    size,   \* the number of tasks in the pool
    out,    \* the answer of the last Take
    ok      \* the answer of the last Put

Pooled == {t \in Elements : bag[t] > 0}

SPInit ==
    /\ bag = [t \in Elements |-> 0] /\ size = 0
    /\ out = Nil /\ ok = TRUE

\* A full pool refuses the task, and only a full one does.
Put(t) ==
    /\ \/ /\ size < Capacity
          /\ bag' = [bag EXCEPT ![t] = @ + 1]
          /\ size' = size + 1
          /\ ok' = TRUE
       \/ /\ size >= Capacity
          /\ ok' = FALSE
          /\ UNCHANGED <<bag, size>>
    /\ UNCHANGED out

Take ==
    /\ \/ \E t \in Pooled :
             /\ \A u \in Pooled : ~Precedes(u, t)
             /\ bag' = [bag EXCEPT ![t] = @ - 1]
             /\ size' = size - 1
             /\ out' = t
       \/ Pooled = {} /\ out' = Nil /\ UNCHANGED <<bag, size>>
    /\ UNCHANGED ok

SPNext ==
    \/ \E t \in Elements : Put(t)
    \/ Take

SPSpec == SPInit /\ [][SPNext]_<<bag, size, out, ok>>
===============================================================================
