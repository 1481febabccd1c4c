------------------------ MODULE ConnectPoolExecutor ------------------------
(***************************************************************************)
(* The executor of asynchronous connects and disconnects, with the tasks   *)
(* HixlImpl submits to it and HixlImpl::Finalize.                          *)
(*                                                                         *)
(* A critical section of task_queue_mutex_ is one step, and so is one of   *)
(* task_result_mutex_.  The condition variable is the set of workers with  *)
(* at "wait": a notify moves one of them, or all, to "lock", from where    *)
(* they evaluate the predicate again.                                      *)
(***************************************************************************)
EXTENDS Integers, Sequences, FiniteSets

CONSTANTS
  RemoteEngines,      \* remote engines
  Workers,            \* worker threads
  TaskQueueCapacity,  \* task_queue_capacity_
  MaxSubmits,         \* bound: ConnectAsync and DisconnectAsync calls
  Idle                \* no task

ASSUME ExecutorAssumption ==
  /\ TaskQueueCapacity \in Nat \ {0}
  /\ MaxSubmits \in Nat
  /\ Idle \notin [remote : RemoteEngines, connect : BOOLEAN]

VARIABLES
  isInitialized,  \* is_initialized_
  taskList,       \* task_list_
  doing,          \* task_doing_set_
  taskResult,     \* task_result_, NOT_CONNECT for an absent entry
  at,             \* worker -> where it is
  cur,            \* worker -> executor_task
  linked,         \* remote -> the engine has a link to it
  fin,            \* where HixlImpl::Finalize is
  submits,        \* calls made so far
  lastOp          \* remote -> the operation submitted last (history)

executor == <<isInitialized, taskList, doing, taskResult, at, cur, linked, fin,
              submits, lastOp>>

Tasks == [remote : RemoteEngines, connect : BOOLEAN]

Statuses == {"NOT_CONNECT", "CONNECT_PENDING", "CONNECTING", "CONNECTED",
             "CONNECT_FAILED", "DISCONNECT_PENDING", "DISCONNECTING"}

ExecutorInit ==
  /\ isInitialized = TRUE
  /\ taskList = <<>>
  /\ doing = {}
  /\ taskResult = [r \in RemoteEngines |-> "NOT_CONNECT"]
  /\ at = [w \in Workers |-> "lock"]
  /\ cur = [w \in Workers |-> Idle]
  /\ linked = [r \in RemoteEngines |-> FALSE]
  /\ fin = "none"
  /\ submits = 0
  /\ lastOp = [r \in RemoteEngines |-> "none"]

----------------------------------------------------------------------------
(* task_queue_cv_ *)

Waiting == {w \in Workers : at[w] = "wait"}

(* notify_one, by a worker that goes on at "lock" or by a caller (p = at) *)
NotifyOne(p) ==
  IF Waiting = {}
  THEN at' = p
  ELSE \E w \in Waiting : at' = [p EXCEPT ![w] = "lock"]

NotifyAll(p) == at' = [w \in Workers |-> IF p[w] = "wait" THEN "lock" ELSE p[w]]

----------------------------------------------------------------------------
(* SetStatus *)

(* an older task's progress does not hide a newer operation that waits *)
DropsStatus(old, new) ==
  \/ new \in {"CONNECTING", "CONNECTED", "CONNECT_FAILED"} /\ old = "DISCONNECT_PENDING"
  \/ new \in {"DISCONNECTING", "NOT_CONNECT"} /\ old = "CONNECT_PENDING"

SetStatus(r, s) ==
  taskResult' = [taskResult EXCEPT ![r] = IF DropsStatus(@, s) THEN @ ELSE s]

HasRoom == Len(taskList) < TaskQueueCapacity

(* ConnectAsync, DisconnectAsync and Submit; a full list changes nothing *)
Submit(r, connect) ==
  /\ isInitialized
  /\ submits < MaxSubmits
  /\ HasRoom
  /\ SetStatus(r, IF connect THEN "CONNECT_PENDING" ELSE "DISCONNECT_PENDING")
  /\ taskList' = Append(taskList, [remote |-> r, connect |-> connect])
  /\ NotifyOne(at)
  /\ submits' = submits + 1
  /\ lastOp' = [lastOp EXCEPT ![r] = IF connect THEN "connect" ELSE "disconnect"]
  /\ UNCHANGED <<isInitialized, doing, cur, linked, fin>>

----------------------------------------------------------------------------
(* WorkerHandler *)

(* Mutant: a remote a worker is at is not skipped *)
StartableAny(i) == i \in 1 .. Len(taskList)
(* no task of that remote is being executed *)
Startable(i) == taskList[i].remote \notin doing

(* Mutant: the newest task that can start is taken *)
TakesLast(i) ==
  /\ Startable(i)
  /\ \A j \in i + 1 .. Len(taskList) : ~Startable(j)
(* the first task that can start *)
Takes(i) ==
  /\ Startable(i)
  /\ \A j \in 1 .. i - 1 : ~Startable(j)

Without(s, i) == [j \in 1 .. Len(s) - 1 |-> IF j < i THEN s[j] ELSE s[j + 1]]

(* cv_wait_func is false: the worker waits *)
WorkerWait(w) ==
  /\ at[w] = "lock"
  /\ isInitialized
  /\ \A i \in 1 .. Len(taskList) : ~Startable(i)
  /\ at' = [at EXCEPT ![w] = "wait"]
  /\ UNCHANGED <<isInitialized, taskList, doing, taskResult, cur, linked, fin, submits,
                 lastOp>>

SpuriousWakeup(w) ==
  /\ at[w] = "wait"
  /\ at' = [at EXCEPT ![w] = "lock"]
  /\ UNCHANGED <<isInitialized, taskList, doing, taskResult, cur, linked, fin, submits,
                 lastOp>>

WorkerExit(w) ==
  /\ at[w] = "lock"
  /\ ~isInitialized
  /\ at' = [at EXCEPT ![w] = "exited"]
  /\ UNCHANGED <<isInitialized, taskList, doing, taskResult, cur, linked, fin, submits,
                 lastOp>>

TakeTask(w) ==
  /\ at[w] = "lock"
  /\ isInitialized
  /\ \E i \in 1 .. Len(taskList) :
       /\ Takes(i)
       /\ cur' = [cur EXCEPT ![w] = taskList[i]]
       /\ doing' = doing \cup {taskList[i].remote}
       /\ SetStatus(taskList[i].remote,
                    IF taskList[i].connect THEN "CONNECTING" ELSE "DISCONNECTING")
       /\ taskList' = Without(taskList, i)
  /\ at' = [at EXCEPT ![w] = "run"]
  /\ UNCHANGED <<isInitialized, linked, fin, submits, lastOp>>

(* engine_->Connect or engine_->Disconnect; a connect succeeds on a link   *)
(* that exists (ALREADY_CONNECTED)                                         *)
RunTask(w) ==
  LET r == cur[w].remote IN
  /\ at[w] = "run"
  /\ \E ok \in BOOLEAN :
       linked' = [linked EXCEPT ![r] = cur[w].connect /\ (@ \/ ok)]
  /\ at' = [at EXCEPT ![w] = "report"]
  /\ UNCHANGED <<isInitialized, taskList, doing, taskResult, cur, fin, submits, lastOp>>

Report(w) ==
  LET r == cur[w].remote IN
  /\ at[w] = "report"
  /\ SetStatus(r, IF ~cur[w].connect THEN "NOT_CONNECT"
                  ELSE IF linked[r] THEN "CONNECTED" ELSE "CONNECT_FAILED")
  /\ at' = [at EXCEPT ![w] = "finish"]
  /\ UNCHANGED <<isInitialized, taskList, doing, cur, linked, fin, submits, lastOp>>

FinishTask(w) ==
  /\ at[w] = "finish"
  /\ doing' = doing \ {cur[w].remote}
  /\ cur' = [cur EXCEPT ![w] = Idle]
  /\ NotifyOne([at EXCEPT ![w] = "lock"])
  /\ UNCHANGED <<isInitialized, taskList, taskResult, linked, fin, submits, lastOp>>

----------------------------------------------------------------------------
(* HixlImpl::Finalize *)

Shutdown ==
  /\ fin = "none"
  /\ isInitialized' = FALSE
  /\ NotifyAll(at)
  /\ fin' = "join"
  /\ UNCHANGED <<taskList, doing, taskResult, cur, linked, submits, lastOp>>

(* Mutant: the workers are not joined *)
JoinedAny == TRUE
Joined == \A w \in Workers : at[w] = "exited"

(* the workers are joined, then the engine is finalized *)
FinalizeEngine ==
  /\ fin = "join"
  /\ Joined
  /\ linked' = [r \in RemoteEngines |-> FALSE]
  /\ fin' = "done"
  /\ UNCHANGED <<isInitialized, taskList, doing, taskResult, at, cur, submits, lastOp>>

AllJoined == fin = "done" /\ Joined /\ UNCHANGED executor

WorkerHandler(w) ==
  \/ WorkerWait(w) \/ WorkerExit(w) \/ TakeTask(w) \/ RunTask(w) \/ Report(w)
  \/ FinishTask(w)

ExecutorNext ==
  \/ \E r \in RemoteEngines, connect \in BOOLEAN : Submit(r, connect)
  \/ \E w \in Workers : WorkerHandler(w) \/ SpuriousWakeup(w)
  \/ Shutdown
  \/ FinalizeEngine
  \/ AllJoined

ExecutorSpec == ExecutorInit /\ [][ExecutorNext]_executor

(* A worker that can go on does: mutexes are released and the engine's     *)
(* connect and disconnect end by their timeout.                            *)
FairExecutor ==
  /\ ExecutorSpec
  /\ \A w \in Workers : WF_executor(WorkerHandler(w))
  /\ WF_executor(FinalizeEngine)

----------------------------------------------------------------------------
(* Properties *)

(* The variables hold values of their kinds; the list respects its         *)
(* capacity.                                                               *)
ExecutorTypeOK ==
  /\ isInitialized \in BOOLEAN
  /\ taskList \in Seq(Tasks)
  /\ Len(taskList) <= TaskQueueCapacity
  /\ doing \subseteq RemoteEngines
  /\ taskResult \in [RemoteEngines -> Statuses]
  /\ at \in [Workers -> {"lock", "wait", "run", "report", "finish", "exited"}]
  /\ cur \in [Workers -> Tasks \cup {Idle}]
  /\ linked \in [RemoteEngines -> BOOLEAN]
  /\ fin \in {"none", "join", "done"}
  /\ submits \in Nat
  /\ lastOp \in [RemoteEngines -> {"none", "connect", "disconnect"}]

(* A task of r is queued or under way *)
Outstanding(r) ==
  r \in doing \/ \E i \in 1 .. Len(taskList) : taskList[i].remote = r

(* When nothing is left to do for a remote, GetAsyncConnectStatus tells    *)
(* the outcome of the operation submitted last and, for a connect, whether *)
(* the link exists: no overtaken or late SetStatus leaves an older one     *)
(* behind.                                                                 *)
QuiescentStatus ==
  fin # "done" =>
    \A r \in RemoteEngines : ~Outstanding(r) =>
      taskResult[r] = IF lastOp[r] # "connect" THEN "NOT_CONNECT"
                      ELSE IF linked[r] THEN "CONNECTED" ELSE "CONNECT_FAILED"

(* The comment in WorkerHandler: one remote has one task at a time.  The   *)
(* workers' tasks are for different remotes, and task_doing_set_ holds     *)
(* exactly those.                                                          *)
OneTaskPerRemote ==
  /\ \A v, w \in Workers :
       cur[v] # Idle /\ cur[w] # Idle /\ cur[v].remote = cur[w].remote => v = w
  /\ doing = {cur[w].remote : w \in {v \in Workers : cur[v] # Idle}}

(* No task calls an engine that HixlImpl::Finalize has finalized.          *)
EngineOutlivesTasks == fin = "done" => \A w \in Workers : cur[w] = Idle

(* Nothing is left to do.  As finitely many operations are submitted,      *)
(* <>[]TasksDone says that every accepted operation is carried out unless  *)
(* the executor is shut down first, so no wakeup is lost, and that the     *)
(* joins of Shutdown end: no worker sleeps through it.                     *)
TasksDone ==
  /\ isInitialized => \A r \in RemoteEngines : ~Outstanding(r)
  /\ fin # "join"

(* The tasks of one remote run one at a time and in the order of their     *)
(* submission, whatever the workers do.                                    *)
KindOf(t) == IF t.connect THEN "connect" ELSE "disconnect"
Abs == INSTANCE AsyncConnects WITH
  Remotes <- RemoteEngines,
  queue <- [r \in RemoteEngines |->
              LET mine == SelectSeq(taskList, LAMBDA t : t.remote = r)
              IN  [i \in 1 .. Len(mine) |-> KindOf(mine[i])]],
  active <- [r \in RemoteEngines |->
               IF \E w \in Workers : cur[w] # Idle /\ cur[w].remote = r
               THEN KindOf(cur[CHOOSE w \in Workers : cur[w] # Idle /\ cur[w].remote = r])
               ELSE Idle],
  accepting <- isInitialized
RunsInOrder == Abs!Spec
=============================================================================
