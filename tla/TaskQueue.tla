------------------------------ MODULE TaskQueue ------------------------------
(***************************************************************************)
(* What the thread pool promises to the threads that launch operations: a  *)
(* bounded first-in first-out queue.  An operation enters at most once,    *)
(* leaves once and in the order of arrival; while the queue is open the    *)
(* operation that leaves is started, after it was closed what leaves is    *)
(* discarded.                                                              *)
(***************************************************************************)
EXTENDS Integers, Sequences

CONSTANTS Task, Final, Capacity

VARIABLES queue, started, discarded, closed

tvars == <<queue, started, discarded, closed>>

Queued == {queue[i] : i \in DOMAIN queue}

TaskInit ==
    /\ queue = <<>> /\ started = {} /\ discarded = {} /\ closed = FALSE

Submit(x) ==
    /\ ~closed /\ Len(queue) < Capacity
    /\ x \notin Queued \cup started \cup discarded
    /\ queue' = Append(queue, x)
    /\ UNCHANGED <<started, discarded, closed>>

Start ==
    /\ ~closed /\ queue # <<>>
    /\ started' = started \cup {Head(queue)}
    /\ queue' = Tail(queue)
    /\ UNCHANGED <<discarded, closed>>

Close ==
    /\ ~closed /\ closed' = TRUE
    /\ UNCHANGED <<queue, started, discarded>>

SubmitFinal ==
    /\ closed /\ Len(queue) < Capacity
    /\ queue' = Append(queue, Final)
    /\ UNCHANGED <<started, discarded, closed>>

Discard ==
    /\ closed /\ queue # <<>>
    /\ discarded' = discarded \cup ({Head(queue)} \ {Final})
    /\ queue' = Tail(queue)
    /\ UNCHANGED <<started, closed>>

TaskNext ==
    \/ \E x \in Task : Submit(x)
    \/ Start \/ Close \/ SubmitFinal \/ Discard

TaskSpec == TaskInit /\ [][TaskNext]_tvars

=============================================================================
