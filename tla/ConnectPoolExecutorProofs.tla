--------------------- MODULE ConnectPoolExecutorProofs ---------------------
(***************************************************************************)
(* Proofs about ConnectPoolExecutor for any number of remotes and workers  *)
(* and any capacity of the task list.                                      *)
(***************************************************************************)
EXTENDS ConnectPoolExecutor, TLAPS

BusyPcs == {"run", "report", "finish"}

QueuedIn(s, r) == \E i \in 1 .. Len(s) : s[i].remote = r

Final(r) == IF lastOp[r] # "connect" THEN "NOT_CONNECT"
            ELSE IF linked[r] THEN "CONNECTED" ELSE "CONNECT_FAILED"

(* A worker has a task exactly while it executes one *)
Working == \A w \in Workers : cur[w] # Idle <=> at[w] \in BusyPcs

Stopping ==
  /\ fin = "none" <=> isInitialized
  /\ fin = "done" => \A w \in Workers : at[w] = "exited"

(* The last task of a remote that is not yet finished is its latest operation *)
LastQueued ==
  \A i \in 1 .. Len(taskList) :
    (\A j \in i + 1 .. Len(taskList) : taskList[j].remote # taskList[i].remote)
      => lastOp[taskList[i].remote] = KindOf(taskList[i])
LastRunning ==
  \A w \in Workers :
    at[w] \in BusyPcs /\ ~QueuedIn(taskList, cur[w].remote) => lastOp[cur[w].remote] = KindOf(cur[w])

(* A pending status is that of the latest operation *)
PendingIsLatest ==
  \A r \in RemoteEngines :
    /\ taskResult[r] = "CONNECT_PENDING" => lastOp[r] = "connect"
    /\ taskResult[r] = "DISCONNECT_PENDING" => lastOp[r] = "disconnect"

(* The status of the latest operation is final once it is reported *)
Reported ==
  \A w \in Workers :
    at[w] = "finish" /\ ~QueuedIn(taskList, cur[w].remote)
      => taskResult[cur[w].remote] = Final(cur[w].remote)

StatusInv == LastQueued /\ LastRunning /\ PendingIsLatest /\ Reported /\ QuiescentStatus

IInv == ExecutorTypeOK /\ Working /\ Stopping /\ OneTaskPerRemote /\ StatusInv

(* What removing one task from the list leaves *)
LEMMA WithoutFacts ==
  ASSUME NEW S, NEW s \in Seq(S), NEW i \in 1 .. Len(s)
  PROVE  /\ Without(s, i) \in Seq(S)
         /\ Len(Without(s, i)) = Len(s) - 1
         /\ \A j \in 1 .. Len(s) - 1 : Without(s, i)[j] = IF j < i THEN s[j] ELSE s[j + 1]
<1>1. Len(s) - 1 \in Nat
  OBVIOUS
<1>2. Without(s, i) \in [1 .. Len(s) - 1 -> S]
  BY DEF Without
<1>3. Without(s, i) \in Seq(S) /\ Len(Without(s, i)) = Len(s) - 1
  BY <1>1, <1>2
<1>4. QED
  BY <1>3 DEF Without

LEMMA Element ==
  ASSUME NEW S, NEW s \in Seq(S), NEW i \in 1 .. Len(s)
  PROVE  s[i] \in S
  OBVIOUS

LEMMA TaskAt ==
  ASSUME ExecutorTypeOK, NEW i \in 1 .. Len(taskList)
  PROVE  /\ taskList[i] \in Tasks /\ taskList[i] # Idle
         /\ taskList[i].remote \in RemoteEngines /\ taskList[i].connect \in BOOLEAN
<1>1. taskList[i] \in Tasks
  BY Element DEF ExecutorTypeOK
<1>2. QED
  BY <1>1, ExecutorAssumption DEF Tasks

(* What a submission adds to the list *)
LEMMA AppendFacts ==
  ASSUME NEW S, NEW s \in Seq(S), NEW x \in S
  PROVE  /\ Append(s, x) \in Seq(S)
         /\ Len(Append(s, x)) = Len(s) + 1
         /\ Append(s, x)[Len(s) + 1] = x
         /\ \A j \in 1 .. Len(s) : Append(s, x)[j] = s[j]
  OBVIOUS

(* A notify changes the at of workers that wait, to "lock" *)
LEMMA NotifyOneFacts ==
  ASSUME NEW p, p = [w \in Workers |-> p[w]], NotifyOne(p)
  PROVE  /\ at' = [w \in Workers |-> at'[w]]
         /\ \A w \in Workers : at'[w] = p[w] \/ (at'[w] = "lock" /\ at[w] = "wait")
  BY DEF NotifyOne, Waiting

LEMMA CurRemote ==
  ASSUME ExecutorTypeOK, Working, NEW w \in Workers, at[w] \in BusyPcs
  PROVE  cur[w] \in Tasks /\ cur[w].remote \in RemoteEngines /\ cur[w].connect \in BOOLEAN
<1>1. cur[w] \in Tasks
  BY DEF ExecutorTypeOK, Working
<1>2. QED
  BY <1>1 DEF Tasks

LEMMA WorkStatus ==
  ASSUME ExecutorTypeOK, Working, OneTaskPerRemote, StatusInv, NEW w \in Workers,
         RunTask(w) \/ Report(w) \/ FinishTask(w)
  PROVE  StatusInv'
<1> DEFINE r == cur[w].remote
<1>1. at[w] \in BusyPcs /\ cur[w] \in Tasks /\ r \in RemoteEngines /\ cur[w].connect \in BOOLEAN
      /\ r \in doing
  <2>1. at[w] \in BusyPcs
    BY DEF RunTask, Report, FinishTask, BusyPcs
  <2>2. QED
    BY SMTT(60), <2>1, CurRemote DEF Working, OneTaskPerRemote
<1>2. \A v \in Workers \ {w} : at[v] \in BusyPcs => cur[v].remote # r /\ cur[v].remote \in RemoteEngines
  BY <1>1, CurRemote DEF Working, OneTaskPerRemote
<1>3. taskList' = taskList /\ lastOp' = lastOp /\ fin' = fin
  BY DEF RunTask, Report, FinishTask
<1>4. LastQueued'
  BY <1>3 DEF StatusInv, LastQueued, KindOf
<1>5. CASE RunTask(w)
  <2>1. /\ cur' = cur /\ taskResult' = taskResult /\ doing' = doing
        /\ at'[w] = "report" /\ \A v \in Workers \ {w} : at'[v] = at[v]
        /\ \A x \in RemoteEngines \ {r} : linked'[x] = linked[x]
    BY SMTT(60), <1>1, <1>5 DEF RunTask, ExecutorTypeOK
  <2>2. LastRunning' /\ PendingIsLatest'
    BY ZenonT(60), <1>1, <1>3, <2>1 DEF StatusInv, LastRunning, PendingIsLatest, KindOf, BusyPcs
  <2>3. Reported'
    BY SMTT(60), <1>2, <1>3, <2>1 DEF StatusInv, Reported, Final, BusyPcs
  <2>4. QuiescentStatus'
    BY <1>1, <1>3, <2>1 DEF StatusInv, QuiescentStatus, Outstanding
  <2>5. QED
    BY <1>4, <2>2, <2>3, <2>4 DEF StatusInv
<1>6. CASE Report(w)
  <2>1. /\ cur' = cur /\ linked' = linked /\ doing' = doing
        /\ at'[w] = "finish" /\ \A v \in Workers \ {w} : at'[v] = at[v]
        /\ \A x \in RemoteEngines \ {r} : taskResult'[x] = taskResult[x]
        /\ at[w] = "report"
    BY SMTT(60), <1>1, <1>6 DEF Report, SetStatus, ExecutorTypeOK
  <2>2. LastRunning'
    BY ZenonT(60), <1>1, <1>3, <2>1 DEF StatusInv, LastRunning, KindOf, BusyPcs
  <2>3. PendingIsLatest'
    BY <1>1, <1>3, <1>6, <2>1 DEF StatusInv, PendingIsLatest, Report, SetStatus, ExecutorTypeOK
  <2>4. ASSUME ~QueuedIn(taskList, r) PROVE taskResult'[r] = Final(r)
    <3>1. lastOp[r] = KindOf(cur[w])
      BY SMTT(60), <1>1, <2>4 DEF StatusInv, LastRunning
    <3>2. taskResult' =
            [taskResult EXCEPT ![r] =
               IF DropsStatus(taskResult[r], Final(r)) THEN taskResult[r] ELSE Final(r)]
      BY ZenonT(60), <1>1, <1>6, <3>1 DEF Report, SetStatus, KindOf, Final
    <3>3. ~DropsStatus(taskResult[r], Final(r))
      BY SMTT(60), <1>1, <3>1 DEF StatusInv, PendingIsLatest, DropsStatus, Final, KindOf
    <3>4. QED
      BY <1>1, <3>2, <3>3 DEF ExecutorTypeOK
  <2>5. Reported'
    BY SMTT(60), <1>2, <1>3, <2>1, <2>4 DEF StatusInv, Reported, Final, BusyPcs
  <2>6. QuiescentStatus'
    BY <1>1, <1>3, <2>1 DEF StatusInv, QuiescentStatus, Outstanding
  <2>7. QED
    BY <1>4, <2>2, <2>3, <2>5, <2>6 DEF StatusInv
<1>7. CASE FinishTask(w)
  <2>1. /\ linked' = linked /\ taskResult' = taskResult /\ doing' = doing \ {r}
        /\ at[w] = "finish"
        /\ \A v \in Workers \ {w} : cur'[v] = cur[v]
    BY <1>7 DEF FinishTask, ExecutorTypeOK
  <2>2. at'[w] = "lock" /\ \A v \in Workers \ {w} : at'[v] \in BusyPcs => at'[v] = at[v]
    <3> DEFINE p == [at EXCEPT ![w] = "lock"]
    <3>1. p = [v \in Workers |-> p[v]] /\ NotifyOne(p) /\ p[w] = "lock"
          /\ \A v \in Workers \ {w} : p[v] = at[v]
      BY ZenonT(60), <1>7 DEF FinishTask, ExecutorTypeOK
    <3> HIDE DEF p
    <3>2. QED
      BY <3>1, NotifyOneFacts DEF BusyPcs
  <2>3. LastRunning' /\ Reported'
    BY SMTT(60), <1>3, <2>1, <2>2 DEF StatusInv, LastRunning, Reported, Final, KindOf, BusyPcs
  <2>4. PendingIsLatest'
    BY <1>3, <2>1 DEF StatusInv, PendingIsLatest
  <2>5. QuiescentStatus'
    <3>1. ASSUME NEW x \in RemoteEngines, ~Outstanding(x)', fin # "done"
          PROVE  taskResult[x] = Final(x)
      <4>1. CASE x = r
        BY <1>3, <2>1, <3>1, <4>1 DEF StatusInv, Reported, Outstanding, QueuedIn
      <4>2. CASE x # r
        BY <1>3, <2>1, <3>1, <4>2 DEF StatusInv, QuiescentStatus, Outstanding, Final
      <4>3. QED
        BY <4>1, <4>2
    <3>2. QED
      BY <1>3, <2>1, <3>1 DEF QuiescentStatus, Final
  <2>6. QED
    BY <1>4, <2>3, <2>4, <2>5 DEF StatusInv
<1>8. QED
  BY <1>5, <1>6, <1>7

LEMMA InitIInv == ExecutorInit => IInv
<1> SUFFICES ASSUME ExecutorInit PROVE IInv
  OBVIOUS
<1>1. ExecutorTypeOK
  BY ExecutorAssumption DEF ExecutorInit, ExecutorTypeOK, Tasks, Statuses
<1>2. Working /\ Stopping /\ OneTaskPerRemote
  BY DEF ExecutorInit, Working, Stopping, OneTaskPerRemote, BusyPcs
<1>3. StatusInv
  BY DEF ExecutorInit, StatusInv, LastQueued, LastRunning, PendingIsLatest, Reported,
         QuiescentStatus, Outstanding, BusyPcs
<1>4. QED
  BY <1>1, <1>2, <1>3 DEF IInv

(* SetStatus keeps the table a table of statuses *)
LEMMA SetStatusType ==
  ASSUME taskResult \in [RemoteEngines -> Statuses], NEW r \in RemoteEngines, NEW s \in Statuses,
         SetStatus(r, s)
  PROVE  taskResult' \in [RemoteEngines -> Statuses]
  BY DEF SetStatus

LEMMA TypeStep == ExecutorTypeOK /\ Working /\ [ExecutorNext]_executor => ExecutorTypeOK'
<1> SUFFICES ASSUME ExecutorTypeOK, Working, [ExecutorNext]_executor PROVE ExecutorTypeOK'
  OBVIOUS
<1> USE DEF ExecutorTypeOK, Statuses
<1>1. ASSUME NEW r \in RemoteEngines, NEW connect \in BOOLEAN, Submit(r, connect) PROVE ExecutorTypeOK'
  <2>1. taskResult' \in [RemoteEngines -> Statuses]
    BY <1>1 DEF Submit, SetStatus
  <2>2. taskList' \in Seq(Tasks) /\ Len(taskList') <= TaskQueueCapacity
    <3>1. [remote |-> r, connect |-> connect] \in Tasks
      BY DEF Tasks
    <3>2. QED
      BY <1>1, <3>1, AppendFacts, ExecutorAssumption DEF Submit, HasRoom
  <2>3. at' \in [Workers -> {"lock", "wait", "run", "report", "finish", "exited"}]
    BY <1>1, NotifyOneFacts DEF Submit
  <2>4. lastOp' \in [RemoteEngines -> {"none", "connect", "disconnect"}] /\ submits' \in Nat
    BY <1>1 DEF Submit
  <2>5. UNCHANGED <<isInitialized, doing, cur, linked, fin>>
    BY <1>1 DEF Submit
  <2>6. QED
    BY <2>1, <2>2, <2>3, <2>4, <2>5
<1>2. ASSUME NEW w \in Workers, WorkerHandler(w) \/ SpuriousWakeup(w) PROVE ExecutorTypeOK'
  <2>1. CASE WorkerWait(w) \/ WorkerExit(w) \/ SpuriousWakeup(w)
    BY <2>1 DEF WorkerWait, WorkerExit, SpuriousWakeup
  <2>2. CASE TakeTask(w)
    <3>1. PICK i \in 1 .. Len(taskList) :
            /\ cur' = [cur EXCEPT ![w] = taskList[i]]
            /\ doing' = doing \cup {taskList[i].remote}
            /\ SetStatus(taskList[i].remote,
                         IF taskList[i].connect THEN "CONNECTING" ELSE "DISCONNECTING")
            /\ taskList' = Without(taskList, i)
      BY ZenonT(60), <2>2 DEF TakeTask
    <3>2. taskList[i] \in Tasks /\ taskList[i].remote \in RemoteEngines
      BY TaskAt
    <3>3. taskList' \in Seq(Tasks) /\ Len(taskList') <= TaskQueueCapacity
      BY <3>1, WithoutFacts, ExecutorAssumption
    <3>4. taskResult' \in [RemoteEngines -> Statuses]
      BY <3>1, <3>2 DEF SetStatus
    <3>5. QED
      BY <2>2, <3>1, <3>2, <3>3, <3>4 DEF TakeTask
  <2>3. CASE RunTask(w)
    BY ZenonT(60), <2>3 DEF RunTask
  <2>4. CASE Report(w)
    BY ZenonT(60), <2>4 DEF Report, SetStatus
  <2>5. CASE FinishTask(w)
    <3>1. at' \in [Workers -> {"lock", "wait", "run", "report", "finish", "exited"}]
      <4> DEFINE p == [at EXCEPT ![w] = "lock"]
      <4>1. /\ p = [v \in Workers |-> p[v]] /\ NotifyOne(p)
            /\ p \in [Workers -> {"lock", "wait", "run", "report", "finish", "exited"}]
        BY ZenonT(60), <2>5 DEF FinishTask
      <4> HIDE DEF p
      <4>2. QED
        BY <4>1, NotifyOneFacts
    <3>2. QED
      BY ZenonT(60), <2>5, <3>1 DEF FinishTask
  <2>6. QED
    BY <1>2, <2>1, <2>2, <2>3, <2>4, <2>5 DEF WorkerHandler
<1>3. CASE Shutdown
  BY ZenonT(60), <1>3 DEF Shutdown, NotifyAll
<1>4. CASE FinalizeEngine
  BY <1>4 DEF FinalizeEngine
<1>5. CASE UNCHANGED executor
  BY <1>5 DEF executor
<1>6. QED
  BY <1>1, <1>2, <1>3, <1>4, <1>5 DEF ExecutorNext, AllJoined

LEMMA ControlStep ==
  ExecutorTypeOK /\ Working /\ Stopping /\ OneTaskPerRemote /\ [ExecutorNext]_executor
    => Working' /\ Stopping' /\ OneTaskPerRemote'
<1> SUFFICES ASSUME ExecutorTypeOK, Working, Stopping, OneTaskPerRemote, [ExecutorNext]_executor
             PROVE  Working' /\ Stopping' /\ OneTaskPerRemote'
  OBVIOUS
<1>0. /\ \A w \in Workers : cur[w] # Idle => cur[w].remote \in RemoteEngines
      /\ at = [w \in Workers |-> at[w]] /\ cur = [w \in Workers |-> cur[w]]
  BY DEF ExecutorTypeOK, Tasks
<1>1. ASSUME NEW r \in RemoteEngines, NEW connect \in BOOLEAN, Submit(r, connect)
      PROVE  Working' /\ Stopping' /\ OneTaskPerRemote'
  <2>1. \A w \in Workers : at'[w] = at[w] \/ (at'[w] = "lock" /\ at[w] = "wait")
    BY <1>0, <1>1, NotifyOneFacts DEF Submit
  <2>2. QED
    BY <1>1, <2>1 DEF Submit, Working, Stopping, OneTaskPerRemote, BusyPcs
<1>2. ASSUME NEW w \in Workers, WorkerHandler(w) \/ SpuriousWakeup(w)
      PROVE  Working' /\ Stopping' /\ OneTaskPerRemote'
  <2>1. CASE WorkerWait(w) \/ WorkerExit(w) \/ SpuriousWakeup(w)
    BY <1>0, <2>1 DEF WorkerWait, WorkerExit, SpuriousWakeup, Working, Stopping,
                      OneTaskPerRemote, BusyPcs
  <2>2. CASE TakeTask(w)
    <3>1. PICK i \in 1 .. Len(taskList) :
            /\ taskList[i].remote \notin doing
            /\ cur' = [cur EXCEPT ![w] = taskList[i]]
            /\ doing' = doing \cup {taskList[i].remote}
      BY ZenonT(60), <2>2 DEF TakeTask, Takes, Startable
    <3>2. taskList[i] \in Tasks /\ taskList[i] # Idle
      BY TaskAt
    <3>3. cur[w] = Idle
      BY <2>2 DEF TakeTask, Working, BusyPcs
    <3>4. Working' /\ Stopping'
      BY <1>0, <2>2, <3>1, <3>2 DEF TakeTask, Working, Stopping, BusyPcs
    <3>5. OneTaskPerRemote'
      <4>1. \A v \in Workers : cur[v] # Idle => cur[v].remote # taskList[i].remote
        BY <3>1 DEF OneTaskPerRemote
      <4>2. cur'[w] = taskList[i] /\ \A v \in Workers \ {w} : cur'[v] = cur[v]
        BY <1>0, <3>1
      <4>3. doing' = {cur'[v].remote : v \in {u \in Workers : cur'[u] # Idle}}
        BY <3>1, <3>2, <3>3, <4>2 DEF OneTaskPerRemote
      <4>4. QED
        BY <4>1, <4>2, <4>3 DEF OneTaskPerRemote
    <3>6. QED
      BY <3>4, <3>5
  <2>3. CASE RunTask(w) \/ Report(w)
    BY <1>0, <2>3 DEF RunTask, Report, Working, Stopping, OneTaskPerRemote, BusyPcs
  <2>4. CASE FinishTask(w)
    <3>1. /\ at'[w] = "lock"
          /\ \A v \in Workers \ {w} : at'[v] = at[v] \/ (at'[v] = "lock" /\ at[v] = "wait")
      BY <1>0, <2>4, NotifyOneFacts DEF FinishTask
    <3>2. cur'[w] = Idle /\ \A v \in Workers \ {w} : cur'[v] = cur[v]
      BY <1>0, <2>4 DEF FinishTask
    <3>3. Working' /\ Stopping'
      BY <2>4, <3>1, <3>2 DEF FinishTask, Working, Stopping, BusyPcs
    <3>4. cur[w] # Idle
      BY <2>4 DEF FinishTask, Working, BusyPcs
    <3>5. doing' = {cur'[v].remote : v \in {u \in Workers : cur'[u] # Idle}}
      BY <2>4, <3>2, <3>4 DEF FinishTask, OneTaskPerRemote
    <3>6. OneTaskPerRemote'
      BY <3>2, <3>5 DEF OneTaskPerRemote
    <3>7. QED
      BY <3>3, <3>6
  <2>5. QED
    BY <1>2, <2>1, <2>2, <2>3, <2>4 DEF WorkerHandler
<1>3. CASE Shutdown
  BY <1>3 DEF Shutdown, NotifyAll, Working, Stopping, OneTaskPerRemote, BusyPcs
<1>4. CASE FinalizeEngine
  BY <1>4 DEF FinalizeEngine, Joined, Working, Stopping, OneTaskPerRemote, BusyPcs
<1>5. CASE UNCHANGED executor
  BY <1>5 DEF executor, Working, Stopping, OneTaskPerRemote
<1>6. QED
  BY <1>1, <1>2, <1>3, <1>4, <1>5 DEF ExecutorNext, AllJoined

(* A step that changes neither the list, the tasks under way nor the        *)
(* statuses, and lets no worker begin or end a task                         *)
Still ==
  /\ UNCHANGED <<taskList, doing, taskResult, cur, linked, lastOp>>
  /\ \A w \in Workers : /\ at'[w] \in BusyPcs => at[w] \in BusyPcs
                        /\ at'[w] = "finish" => at[w] = "finish"
  /\ fin' # "done" => fin # "done"

LEMMA StillStep == StatusInv /\ Still => StatusInv'
  BY DEF StatusInv, Still, LastQueued, LastRunning, PendingIsLatest, Reported,
         QuiescentStatus, Outstanding, QueuedIn, Final, KindOf

LEMMA SubmitStatus ==
  ASSUME ExecutorTypeOK, Working, StatusInv, NEW r \in RemoteEngines, NEW connect \in BOOLEAN,
         Submit(r, connect)
  PROVE  StatusInv'
<1> DEFINE n == Len(taskList)
<1>1. n \in Nat
  BY DEF ExecutorTypeOK
<1>2. /\ Len(taskList') = n + 1
      /\ taskList'[n + 1] = [remote |-> r, connect |-> connect]
      /\ \A j \in 1 .. n : taskList'[j] = taskList[j]
  <2>1. [remote |-> r, connect |-> connect] \in Tasks
    BY DEF Tasks
  <2>2. QED
    BY <2>1, AppendFacts DEF Submit, ExecutorTypeOK
<1>3. /\ lastOp'[r] = IF connect THEN "connect" ELSE "disconnect"
      /\ taskResult'[r] = IF connect THEN "CONNECT_PENDING" ELSE "DISCONNECT_PENDING"
      /\ \A x \in RemoteEngines \ {r} : lastOp'[x] = lastOp[x] /\ taskResult'[x] = taskResult[x]
  BY DEF Submit, SetStatus, DropsStatus, ExecutorTypeOK
<1>4. /\ UNCHANGED <<doing, cur, linked, fin>>
      /\ \A w \in Workers : at'[w] \in BusyPcs => at'[w] = at[w]
  BY ZenonT(60), NotifyOneFacts DEF Submit, ExecutorTypeOK, BusyPcs
<1>5. \A i \in 1 .. n : taskList[i].remote \in RemoteEngines
  BY TaskAt
<1>6. \A x \in RemoteEngines : QueuedIn(taskList', x) <=> QueuedIn(taskList, x) \/ x = r
  BY <1>1, <1>2 DEF QueuedIn
<1>7. \A w \in Workers : at[w] \in BusyPcs /\ ~QueuedIn(taskList', cur[w].remote) => cur[w].remote # r
  BY <1>4, <1>1, <1>2 DEF QueuedIn
<1> HIDE DEF n
<1>8. LastQueued'
  <2> SUFFICES ASSUME NEW i \in 1 .. n + 1,
                      \A j \in i + 1 .. n + 1 : taskList'[j].remote # taskList'[i].remote
               PROVE  lastOp'[taskList'[i].remote] = KindOf(taskList'[i])
    BY <1>2 DEF LastQueued, KindOf
  <2>1. CASE i = n + 1
    BY <1>2, <1>3, <2>1 DEF KindOf
  <2>2. CASE i \in 1 .. n
    <3>1. taskList[i].remote # r
      BY <1>1, <1>2, <2>2
    <3>2. \A j \in i + 1 .. n : taskList[j].remote # taskList[i].remote
      BY <1>1, <1>2, <2>2
    <3>3. lastOp[taskList[i].remote] = KindOf(taskList[i])
      BY <2>2, <3>2 DEF StatusInv, LastQueued, n
    <3>4. QED
      BY <1>2, <1>3, <1>5, <2>2, <3>1, <3>3 DEF KindOf
  <2>3. QED
    BY <1>1, <2>1, <2>2
<1>9. LastRunning' /\ Reported'
  <2>1. ASSUME NEW w \in Workers, at'[w] \in BusyPcs, ~QueuedIn(taskList', cur[w].remote)
        PROVE  /\ lastOp'[cur[w].remote] = lastOp[cur[w].remote]
               /\ taskResult'[cur[w].remote] = taskResult[cur[w].remote]
               /\ ~QueuedIn(taskList, cur[w].remote)
    <3>1. cur[w].remote # r
      BY <1>4, <1>7, <2>1
    <3>2. ~QueuedIn(taskList, cur[w].remote)
      BY <1>1, <1>2, <2>1 DEF QueuedIn, n
    <3>3. cur[w].remote \in RemoteEngines
      BY <1>4, <2>1, CurRemote
    <3>4. QED
      BY <1>3, <3>1, <3>2, <3>3
  <2>2. LastRunning'
    BY <1>4, <2>1 DEF StatusInv, LastRunning, KindOf
  <2>3. Reported'
    BY <1>4, <2>1 DEF StatusInv, Reported, Final, BusyPcs
  <2>4. QED
    BY <2>2, <2>3
<1>10. PendingIsLatest'
  BY <1>3 DEF StatusInv, PendingIsLatest
<1>11. QuiescentStatus'
  <2>1. \A x \in RemoteEngines : ~Outstanding(x)' => x # r /\ ~Outstanding(x)
    BY <1>4, <1>6 DEF Outstanding, QueuedIn
  <2>2. QED
    BY <1>3, <1>4, <2>1 DEF StatusInv, QuiescentStatus
<1>12. QED
  BY <1>8, <1>9, <1>10, <1>11 DEF StatusInv

LEMMA TakeStatus ==
  ASSUME ExecutorTypeOK, Working, OneTaskPerRemote, StatusInv, NEW w \in Workers, TakeTask(w)
  PROVE  StatusInv'
<1> DEFINE n == Len(taskList)
<1>1. n \in Nat
  BY DEF ExecutorTypeOK
<1>2. PICK i \in 1 .. n :
        /\ Takes(i)
        /\ cur' = [cur EXCEPT ![w] = taskList[i]]
        /\ doing' = doing \cup {taskList[i].remote}
        /\ SetStatus(taskList[i].remote,
                     IF taskList[i].connect THEN "CONNECTING" ELSE "DISCONNECTING")
        /\ taskList' = Without(taskList, i)
  BY ZenonT(60) DEF TakeTask
<1> DEFINE r == taskList[i].remote
<1>3. \A k \in 1 .. n : taskList[k].remote \in RemoteEngines
  BY TaskAt
<1>4. r \in RemoteEngines /\ r \notin doing /\ taskList[i].connect \in BOOLEAN
      /\ \A k \in 1 .. i - 1 : taskList[k].remote # r
  BY <1>2, TaskAt DEF Takes, Startable
<1>5. /\ Len(taskList') = n - 1
      /\ \A j \in 1 .. n - 1 :
           taskList'[j] = IF j < i THEN taskList[j] ELSE taskList[j + 1]
  BY ZenonT(60), <1>2, WithoutFacts DEF ExecutorTypeOK
<1>6. /\ UNCHANGED <<linked, fin, lastOp>>
      /\ at'[w] = "run" /\ cur'[w] = taskList[i]
      /\ \A v \in Workers \ {w} : at'[v] = at[v] /\ cur'[v] = cur[v]
  BY <1>2 DEF TakeTask, ExecutorTypeOK
<1>7. /\ \A x \in RemoteEngines \ {r} : taskResult'[x] = taskResult[x]
      /\ taskResult'[r] = taskResult[r]
         \/ taskResult'[r] \notin {"CONNECT_PENDING", "DISCONNECT_PENDING"}
  BY <1>2, <1>4 DEF SetStatus, ExecutorTypeOK
<1>8. \A v \in Workers \ {w} : at[v] \in BusyPcs =>
        /\ cur[v].remote # r /\ cur[v].remote \in RemoteEngines
        /\ QueuedIn(taskList', cur[v].remote) <=> QueuedIn(taskList, cur[v].remote)
  <2>1. ASSUME NEW v \in Workers \ {w}, at[v] \in BusyPcs
        PROVE  cur[v].remote # r /\ cur[v].remote \in RemoteEngines
    BY <1>4, <2>1, CurRemote DEF Working, OneTaskPerRemote
  <2>2. \A x : x # r => (QueuedIn(taskList', x) <=> QueuedIn(taskList, x))
    <3>1. ASSUME NEW x, x # r, QueuedIn(taskList, x) PROVE QueuedIn(taskList', x)
      <4>1. PICK k \in 1 .. n : taskList[k].remote = x
        BY <3>1 DEF QueuedIn
      <4>2. k # i
        BY <3>1, <4>1
      <4>3. CASE k < i
        BY <1>1, <1>5, <4>1, <4>3 DEF QueuedIn
      <4>4. CASE k > i
        <5>1. k - 1 \in 1 .. n - 1 /\ taskList'[k - 1].remote = x
          BY <1>1, <1>5, <4>1, <4>4
        <5>2. QED
          BY <1>5, <5>1 DEF QueuedIn
      <4>5. QED
        BY <1>1, <4>2, <4>3, <4>4
    <3>2. ASSUME NEW x, QueuedIn(taskList', x) PROVE QueuedIn(taskList, x)
      BY <1>1, <1>5, <3>2 DEF QueuedIn
    <3>3. QED
      BY <3>1, <3>2
  <2>3. QED
    BY <2>1, <2>2
<1>9. LastQueued'
  <2> SUFFICES ASSUME NEW j \in 1 .. n - 1,
                      \A k \in j + 1 .. n - 1 : taskList'[k].remote # taskList'[j].remote
               PROVE  lastOp[taskList'[j].remote] = KindOf(taskList'[j])
    BY <1>5, <1>6 DEF LastQueued, KindOf
  <2>1. CASE j < i
    <3>1. taskList[j].remote # r /\ taskList'[j] = taskList[j]
      BY <1>1, <1>4, <1>5, <2>1
    <3>2. ASSUME NEW k \in j + 1 .. n PROVE taskList[k].remote # taskList[j].remote
      <4>1. CASE k < i
        BY <1>1, <1>5, <2>1, <3>1, <4>1
      <4>2. CASE k = i
        BY <3>1, <4>2
      <4>3. CASE k > i
        <5>1. k - 1 \in j + 1 .. n - 1 /\ taskList'[k - 1] = taskList[k]
          BY <1>1, <1>5, <2>1, <4>3
        <5>2. QED
          BY <3>1, <5>1
      <4>4. QED
        BY <1>1, <4>1, <4>2, <4>3
    <3>3. QED
      BY <1>1, <3>1, <3>2 DEF StatusInv, LastQueued
  <2>2. CASE j >= i
    <3>1. taskList'[j] = taskList[j + 1] /\ j + 1 \in 1 .. n
      BY <1>1, <1>5, <2>2
    <3>2. ASSUME NEW k \in j + 2 .. n PROVE taskList[k].remote # taskList[j + 1].remote
      <4>1. k - 1 \in j + 1 .. n - 1 /\ taskList'[k - 1] = taskList[k]
        BY <1>1, <1>5, <2>2
      <4>2. QED
        BY <3>1, <4>1
    <3>3. QED
      BY <1>1, <3>1, <3>2 DEF StatusInv, LastQueued
  <2>3. QED
    BY <1>1, <2>1, <2>2
<1>10. LastRunning'
  <2>1. ASSUME ~QueuedIn(taskList', r) PROVE lastOp[r] = KindOf(taskList[i])
    <3>1. ASSUME NEW k \in i + 1 .. n PROVE taskList[k].remote # r
      <4>1. k - 1 \in 1 .. n - 1 /\ taskList'[k - 1] = taskList[k]
        BY <1>1, <1>5
      <4>2. QED
        BY <1>5, <2>1, <4>1 DEF QueuedIn
    <3>2. QED
      BY <3>1 DEF StatusInv, LastQueued
  <2>2. ASSUME NEW v \in Workers, at'[v] \in BusyPcs, ~QueuedIn(taskList', cur'[v].remote)
        PROVE  lastOp[cur'[v].remote] = KindOf(cur'[v])
    BY <1>6, <1>8, <2>1, <2>2 DEF StatusInv, LastRunning
  <2>3. QED
    BY <1>6, <2>2 DEF LastRunning, KindOf
<1>11. PendingIsLatest'
  BY <1>6, <1>7 DEF StatusInv, PendingIsLatest
<1>12. Reported'
  <2>1. ASSUME NEW v \in Workers, at'[v] = "finish", ~QueuedIn(taskList', cur'[v].remote)
        PROVE  taskResult'[cur'[v].remote] = Final(cur'[v].remote)
    BY <1>6, <1>7, <1>8, <2>1 DEF StatusInv, Reported, BusyPcs
  <2>2. QED
    BY <1>6, <2>1 DEF Reported, Final
<1>13. QuiescentStatus'
  <2>1. \A x \in RemoteEngines : ~Outstanding(x)' => x # r /\ ~Outstanding(x)
    <3>1. ASSUME NEW x \in RemoteEngines, Outstanding(x), x # r PROVE Outstanding(x)'
      <4>1. CASE x \in doing
        BY <1>2, <4>1 DEF Outstanding
      <4>2. ASSUME NEW k \in 1 .. n, taskList[k].remote = x PROVE Outstanding(x)'
        <5>1. CASE k < i
          BY <1>1, <1>5, <4>2, <5>1 DEF Outstanding
        <5>2. CASE k > i
          <6>1. k - 1 \in 1 .. n - 1 /\ taskList'[k - 1].remote = x
            BY <1>1, <1>5, <4>2, <5>2
          <6>2. QED
            BY <1>5, <6>1 DEF Outstanding
        <5>3. QED
          BY <1>1, <3>1, <4>2, <5>1, <5>2
      <4>3. QED
        BY <3>1, <4>1, <4>2 DEF Outstanding
    <3>2. ASSUME NEW x \in RemoteEngines, x = r PROVE Outstanding(x)'
      BY <1>2, <3>2 DEF Outstanding
    <3>3. QED
      BY <3>1, <3>2
  <2>2. QED
    BY <1>6, <1>7, <2>1 DEF StatusInv, QuiescentStatus
<1>14. QED
  BY <1>9, <1>10, <1>11, <1>12, <1>13 DEF StatusInv

LEMMA StepIInv == IInv /\ [ExecutorNext]_executor => IInv'
<1> SUFFICES ASSUME IInv, [ExecutorNext]_executor PROVE IInv'
  OBVIOUS
<1>1. ExecutorTypeOK' /\ Working' /\ Stopping' /\ OneTaskPerRemote'
  BY TypeStep, ControlStep DEF IInv
<1> SUFFICES StatusInv'
  BY <1>1 DEF IInv
<1>2. ASSUME NEW r \in RemoteEngines, NEW connect \in BOOLEAN, Submit(r, connect) PROVE StatusInv'
  BY <1>2, SubmitStatus DEF IInv
<1>3. ASSUME NEW w \in Workers, WorkerHandler(w) \/ SpuriousWakeup(w) PROVE StatusInv'
  <2>1. CASE WorkerWait(w) \/ WorkerExit(w) \/ SpuriousWakeup(w)
    <3>1. Still
      BY <2>1 DEF WorkerWait, WorkerExit, SpuriousWakeup, Still, BusyPcs, IInv, ExecutorTypeOK
    <3>2. QED
      BY <3>1, StillStep DEF IInv
  <2>2. CASE TakeTask(w)
    BY <2>2, TakeStatus DEF IInv
  <2>3. CASE RunTask(w) \/ Report(w) \/ FinishTask(w)
    BY <2>3, WorkStatus DEF IInv
  <2>4. QED
    BY <1>3, <2>1, <2>2, <2>3 DEF WorkerHandler
<1>4. CASE Shutdown
  <2>1. Still
    BY <1>4 DEF Shutdown, NotifyAll, Still, BusyPcs, IInv, ExecutorTypeOK
  <2>2. QED
    BY <2>1, StillStep DEF IInv
<1>5. CASE FinalizeEngine
  <2>1. /\ \A w \in Workers : at'[w] = "exited"
        /\ UNCHANGED <<taskList, taskResult, lastOp>> /\ fin' = "done"
    BY <1>5 DEF FinalizeEngine, Joined
  <2>2. LastQueued' /\ PendingIsLatest'
    BY <2>1 DEF IInv, StatusInv, LastQueued, PendingIsLatest, KindOf
  <2>3. LastRunning' /\ Reported' /\ QuiescentStatus'
    BY <2>1 DEF LastRunning, Reported, QuiescentStatus, BusyPcs
  <2>4. QED
    BY <2>2, <2>3 DEF StatusInv
<1>6. CASE UNCHANGED executor
  <2>1. Still
    BY <1>6 DEF executor, Still
  <2>2. QED
    BY <2>1, StillStep DEF IInv
<1>7. QED
  BY <1>2, <1>3, <1>4, <1>5, <1>6 DEF ExecutorNext, AllJoined

(* The variables keep their types and the list its capacity, for any       *)
(* number of workers and remotes.                                          *)
THEOREM TypeCorrect == ExecutorSpec => []ExecutorTypeOK
<1>1. IInv => ExecutorTypeOK
  BY DEF IInv
<1>2. QED
  BY <1>1, InitIInv, StepIInv, PTL DEF ExecutorSpec

(* Workers never execute two tasks of one remote, and task_doing_set_ is   *)
(* exactly the remotes being worked at.                                    *)
THEOREM OneTaskAtATime == ExecutorSpec => []OneTaskPerRemote
<1>1. IInv => OneTaskPerRemote
  BY DEF IInv
<1>2. QED
  BY <1>1, InitIInv, StepIInv, PTL DEF ExecutorSpec

(* At rest GetAsyncConnectStatus reports the outcome of the operation      *)
(* submitted last and whether the link exists.                             *)
THEOREM StatusAtRest == ExecutorSpec => []QuiescentStatus
<1>1. IInv => QuiescentStatus
  BY DEF IInv, StatusInv
<1>2. QED
  BY <1>1, InitIInv, StepIInv, PTL DEF ExecutorSpec

(* HixlImpl::Finalize finalizes the engine only when no task can use it.   *)
THEOREM TasksEndBeforeEngine == ExecutorSpec => []EngineOutlivesTasks
<1>1. IInv => EngineOutlivesTasks
  BY DEF IInv, Working, Stopping, EngineOutlivesTasks, BusyPcs
<1>2. QED
  BY <1>1, InitIInv, StepIInv, PTL DEF ExecutorSpec

=============================================================================
