----------------------------- MODULE MCConnects -----------------------------
(***************************************************************************)
(* The calls on the pool of links and the executor of asynchronous         *)
(* connects for TLC.  Nothing of one part is read by the other, so a       *)
(* behaviour is about one of them and leaves the other at its start.       *)
(***************************************************************************)
EXTENDS ClientManager, ConnectPoolExecutor

CONSTANTS r1, r2

VARIABLE about

Setup(pool, auto, unlinks, ops, remotes, calls) ==
    [pool |-> pool, max |-> 1, auto |-> auto, unlinks |-> unlinks, ops |-> ops,
     remotes |-> remotes, calls |-> calls]

\* Two connects that need each other's only slot; transfers and the heartbeat
\* on one link; asynchronous requests of two links; connects while everything
\* is unlinked; no pool.
Deployments ==
    {Setup(TRUE, FALSE, FALSE, {"connect", "disconnect"}, {r1, r2}, 1),
     Setup(TRUE, TRUE, FALSE, {"transfer", "notify"}, {r1}, 1),
     Setup(TRUE, FALSE, FALSE, {"connect", "transfer", "async", "poll"}, {r1, r2}, 2),
     Setup(TRUE, TRUE, TRUE, {"connect"}, {r1}, 1),
     Setup(FALSE, FALSE, TRUE, {"connect", "transfer"}, {r1}, 1)}

all == <<about, vars, executor>>

MCInit ==
    /\ about \in {"executor", "pool"}
    /\ Init
    /\ ExecutorInit
    /\ about = "executor" => setup = CHOOSE s \in Deployments : TRUE

MCNext ==
    /\ UNCHANGED about
    /\ \/ about = "executor" /\ ExecutorNext /\ UNCHANGED vars
       \/ about = "pool" /\ Next /\ UNCHANGED executor

\* The fairness of either part, for the behaviours that are about it.
ExecutorStep(A) == about = "executor" /\ A /\ UNCHANGED <<about, vars>>
PoolStep(A) == about = "pool" /\ A /\ UNCHANGED <<about, executor>>

MCSpec ==
    /\ MCInit /\ [][MCNext]_all
    /\ \A w \in Workers : WF_all(ExecutorStep(WorkerHandler(w)))
    /\ WF_all(ExecutorStep(FinalizeEngine))
    /\ \A t \in Actors : WF_all(PoolStep(Step(t)))
    /\ WF_all(PoolStep(SendHeartbeat))
    /\ WF_all(PoolStep(FinalizeMove \/ FinalizeEnd \/ \E c \in Clients : FinalizeClose(c)))

\* Whatever was begun comes to an end: the operations of the executor and its
\* Shutdown, the calls on the pool, Finalize and Disconnect().
CallsReturn == <>[](TasksDone /\ AllReturned)
=============================================================================
