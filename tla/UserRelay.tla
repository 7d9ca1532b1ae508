------------------------------ MODULE UserRelay ------------------------------
(***************************************************************************)
(* What the BPF half relies on from user space (main.go, goland_core): it  *)
(* takes the records of @queued in order, holds them for a while, and      *)
(* answers each of them with exactly one record in @dispatched, in any     *)
(* order.  Only after a failed write to @dispatched does it drop records.  *)
(* UserDequeue and UserDispatch of BpfBackend are Dequeue and Dispatch     *)
(* here.                                                                   *)
(***************************************************************************)
EXTENDS Integers, Sequences

CONSTANT Pids

VARIABLES
    queued,     \* pids in the ring buffer to user space
    held,       \* records user space holds, per pid
    dispatched, \* pids in the ring buffer to the BPF half
    broken      \* a write to that ring buffer has failed

RelayInit ==
    /\ queued = <<>>
    /\ held = [p \in Pids |-> 0]
    /\ dispatched = <<>>
    /\ broken = FALSE

Enqueue(p) ==
    /\ queued' = Append(queued, p)
    /\ UNCHANGED <<held, dispatched, broken>>

Dequeue ==
    /\ queued # <<>>
    /\ held' = [held EXCEPT ![Head(queued)] = @ + 1]
    /\ queued' = Tail(queued)
    /\ UNCHANGED <<dispatched, broken>>

Dispatch(p) ==
    /\ ~broken
    /\ held[p] > 0
    /\ held' = [held EXCEPT ![p] = @ - 1]
    /\ dispatched' = Append(dispatched, p)
    /\ UNCHANGED <<queued, broken>>

Drain ==
    /\ dispatched # <<>>
    /\ dispatched' = Tail(dispatched)
    /\ UNCHANGED <<queued, held, broken>>

Break ==
    /\ ~broken
    /\ broken' = TRUE
    /\ UNCHANGED <<queued, held, dispatched>>

Drop(p) ==
    /\ broken
    /\ held[p] > 0
    /\ held' = [held EXCEPT ![p] = @ - 1]
    /\ UNCHANGED <<queued, dispatched, broken>>

RelayNext ==
    \/ \E p \in Pids : Enqueue(p) \/ Dispatch(p) \/ Drop(p)
    \/ Dequeue
    \/ Drain
    \/ Break

\* User space owes an answer for task p, and has given one.
WithUser(p) == (\E i \in DOMAIN queued : queued[i] = p) \/ held[p] > 0
Answered(p) == \E i \in DOMAIN dispatched : dispatched[i] = p

\* What the BPF half would need for progress; RelaySpec does not promise it, and
\* main.go gives it only under load (UserSched, ProcessedUnderLoad).
AnswersAll == \A p \in Pids : WithUser(p) ~> Answered(p)

RelaySpec == RelayInit /\ [][RelayNext]_<<queued, held, dispatched, broken>>
==============================================================================
