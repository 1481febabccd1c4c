------------------------------ MODULE TaskQueue ------------------------------
(***************************************************************************)
(* What the ring of StarsRing promises: a first-in first-out queue of      *)
(* tasks, which are numbered in the order they are built.  A kernel        *)
(* appends a batch of tasks with the next numbers, or gives numbers up;    *)
(* the engine takes the oldest task.  So every task is executed at most    *)
(* once, whole and in order.                                               *)
(***************************************************************************)
EXTENDS Integers, Sequences

CONSTANTS
    Kinds,      \* the kinds of tasks
    MaxBatch    \* the largest batch

VARIABLES
    queue,      \* the tasks, each <<kind, number>>
    next        \* the number of the next task

Init == queue = <<>> /\ next = 0

Put ==
    /\ queue' \in Seq(Kinds \X Nat)
    /\ Len(queue') - Len(queue) \in 1..MaxBatch
    /\ next' = next + (Len(queue') - Len(queue))
    /\ \A i \in 1..Len(queue') :
          IF i <= Len(queue) THEN queue'[i] = queue[i]
                             ELSE queue'[i][2] = next + (i - Len(queue)) - 1

GiveUp == next' > next /\ queue' = queue

Take == queue # <<>> /\ queue' = Tail(queue) /\ next' = next

Next == Put \/ GiveUp \/ Take

Spec == Init /\ [][Next]_<<queue, next>>
=============================================================================
