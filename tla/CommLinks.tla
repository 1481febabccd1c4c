----------------------------- MODULE CommLinks -----------------------------
(***************************************************************************)
(* The links of LLM DataDist: how two clusters come to hold a communication *)
(* entity for each other, and how they lose it.                            *)
(*                                                                         *)
(* A client links a server through the server's daemon: both create a      *)
(* communicator and an entity in the same handshake (LinkMsgHandler). Or   *)
(* each side is given a rank table and prepares its entities in a pool     *)
(* thread (CommLinkManager). Entities live in the CommEntityManager, found *)
(* through an index of cluster ids; pulls use them, a thread of the        *)
(* manager serves the peer's requests and removes destroyed entities, and  *)
(* unlinking destroys them.                                                *)
(*                                                                         *)
(* The state of a cluster is spread over ent (every entity ever made: a    *)
(* pull may hold one that left the map), map and index (the manager), lock *)
(* (who holds the manager's mutex while it waits for a pull), comm (the    *)
(* communicators of rank tables) and listening (the daemon). A process is  *)
(* a user's thread, a connection the daemon serves, or the task that       *)
(* prepares a communicator.                                                *)
(*                                                                         *)
(* Left out: addresses and the wording of messages, TLS, and failing       *)
(* allocations other than the ones of a handshake as a whole.              *)
(***************************************************************************)
EXTENDS Integers, Sequences, FiniteSets, SequencesExt, FiniteSetsExt

CONSTANTS
    Clusters,       \* the two clusters
    Setups,         \* [service, calls: thread -> [at, todo]]
    MaxLinkNum      \* communicators of rank tables a cluster may hold

VARIABLES setup, ent, map, index, lock, comm, listening, engine, proc, todo, hs, late,
          result

vars == <<setup, ent, map, index, lock, comm, listening, engine, proc, todo, hs, late, result>>

manager == <<ent, map, index, lock>>

Other(c) == CHOOSE d \in Clusters : d # c

None == 0

Callers == DOMAIN setup.calls

\* Processes that are no user threads are numbered after them, by handshake
\* or communicator.
Behind(h) == Len(setup.calls) + h

Process(c, op, h, force) ==
    [pc |-> "start", at |-> c, op |-> op, h |-> h, force |-> force, ent |-> None, ret |-> "none"]

Idle == [Process(None, "none", None, FALSE) EXCEPT !.pc = "idle"]

IsClient(q) == q \in Callers

\* The client of the connection a daemon's process serves has given up.
Abandoned(q) == ~IsClient(q) /\ \A t \in Callers : proc[t].h # proc[q].h

\* What such a process does to the entities of its cluster is late for every
\* handshake begun so far (history: the newest one).
ActsLate(q) == late' = IF Abandoned(q) THEN [late EXCEPT ![proc[q].at] = hs] ELSE late

Go(q, pc) == proc' = [proc EXCEPT ![q].pc = pc]

-----------------------------------------------------------------------------
(* CommEntity and CommEntityManager.                                       *)

NewEntity(via, state, ip) == [via |-> via, state |-> state, up |-> TRUE, ip |-> ip]

\* The entity a pull or a handshake finds for the other cluster.
GetEntityByRemoteClusterId(c) ==
    IF index[c] \in map[c] /\ ent[c][index[c]].state \notin {"destroyed", "init"}
    THEN index[c] ELSE None

\* The mutex is free: nobody waits for a pull inside DestroyEntity.
MutexFree(c) == lock[c] = None

\* An entity joins the map and takes over the index.
AddEntity(c, e) ==
    LET id == Len(ent[c]) + 1
    IN  /\ MutexFree(c)
        /\ ent' = [ent EXCEPT ![c] = Append(@, e)]
        /\ map' = [map EXCEPT ![c] = @ \cup {id}]
        /\ index' = [index EXCEPT ![c] = id]
        /\ UNCHANGED lock

\* CommEntity::Finalize on a set of entities: stream and communicator go.
FinalizeAll(c, ids) == [i \in DOMAIN ent[c] |->
    IF i \in ids THEN [ent[c][i] EXCEPT !.up = FALSE] ELSE ent[c][i]]

MarkDestroyed(es, ids) == [i \in DOMAIN es |->
    IF i \in ids THEN [es[i] EXCEPT !.state = "destroyed"] ELSE es[i]]

\* Nobody pulls through entity i.
PullMutexFree(c, i) ==
    \A q \in DOMAIN proc : proc[q].pc = "pulling" /\ proc[q].at = c => proc[q].ent # i

\* DestroyEntity takes the mutex and looks the entity up; with one found, it
\* keeps the mutex and waits for the pull on it.
DestroyEntityFind(q, c, then) ==
    /\ MutexFree(c)
    /\ UNCHANGED <<ent, map>>
    /\ IF index[c] \in map[c]
       THEN lock' = [lock EXCEPT ![c] = q] /\ Go(q, "destroy") /\ UNCHANGED index
       ELSE index' = [index EXCEPT ![c] = None] /\ Go(q, then) /\ UNCHANGED lock

\* It finalizes the entity. With the service running the entity stays in the
\* map, marked, for the service to remove; otherwise it leaves at once.
DestroyEntity(q, c, then) ==
    LET i == index[c]
    IN  /\ lock[c] = q /\ PullMutexFree(c, i)
        /\ lock' = [lock EXCEPT ![c] = None]
        /\ IF setup.service
           THEN /\ ent' = [ent EXCEPT ![c] = MarkDestroyed(FinalizeAll(c, {i}), {i})]
                /\ UNCHANGED <<map, index>>
           ELSE /\ ent' = [ent EXCEPT ![c] = FinalizeAll(c, {i})]
                /\ map' = [map EXCEPT ![c] = @ \ {i}]
                /\ index' = [index EXCEPT ![c] = None]
        /\ Go(q, then)

Destroyed(c) == {i \in map[c] : ent[c][i].state = "destroyed"}

\* The service removes destroyed entities, and the index entry of their
\* cluster with them, whatever it points to.
HandleAllEntities(c) ==
    /\ setup.service /\ MutexFree(c) /\ Destroyed(c) # {}
    /\ map' = [map EXCEPT ![c] = @ \ Destroyed(c)]
    /\ index' = [index EXCEPT ![c] = None]
    /\ UNCHANGED <<setup, late, ent, lock, comm, listening, engine, proc, todo, hs, result>>

GetEntitySize(c) == Cardinality(map[c] \ Destroyed(c))

-----------------------------------------------------------------------------
(* Calls of the users' threads.                                            *)

Begin(q) ==
    /\ q \in Callers /\ proc[q].pc = "idle" /\ todo[q] # <<>>
    /\ proc' = [proc EXCEPT ![q] = Process(setup.calls[q].at, Head(todo[q]).op, None,
                                           Head(todo[q]).force)]
    /\ todo' = [todo EXCEPT ![q] = Tail(@)]
    /\ UNCHANGED <<setup, late, manager, comm, listening, engine, hs, result>>

Return(q, ok) ==
    /\ proc' = [proc EXCEPT ![q] = Idle]
    /\ result' = [result EXCEPT ![q] = [op |-> proc[q].op, ok |-> ok, h |-> proc[q].h]]

At(q, pc) == q \in DOMAIN proc /\ proc[q].pc = pc

\* A connection to the other cluster's daemon: a process serves it there.
Connect(q, op, force) ==
    LET c == proc[q].at
    IN  /\ listening[Other(c)]
        /\ hs' = hs + 1
        /\ proc' = [p \in DOMAIN proc \cup {Behind(hs + 1)} |->
                      IF p = q THEN [proc[q] EXCEPT !.pc = IF op = "accept" THEN "recv" ELSE "find",
                                                    !.h = hs + 1, !.force = force]
                      ELSE IF p = Behind(hs + 1)
                      THEN [Process(Other(c), op, hs + 1, force) EXCEPT !.pc = "reply"]
                      ELSE proc[p]]

ConnectFails(q) == Return(q, FALSE) /\ UNCHANGED <<setup, late, manager, comm, listening, engine, todo, hs>>

\* LinkCluster connects and sends its exchange info. It asks the server to
\* drop its old entity exactly if it holds none itself.
LinkCluster(q) ==
    /\ At(q, "start") /\ proc[q].op = "link"
    /\ \/ /\ MutexFree(proc[q].at)
          /\ Connect(q, "accept", GetEntityByRemoteClusterId(proc[q].at) = None)
          /\ UNCHANGED <<setup, late, manager, comm, listening, engine, todo, result>>
       \/ ConnectFails(q)

\* UnlinkCluster tells the server, unless it is forced, and destroys its own
\* entity.
UnlinkCluster(q) ==
    /\ At(q, "start") /\ proc[q].op = "unlink"
    /\ \/ /\ ~proc[q].force
          /\ \/ Connect(q, "drop", FALSE) /\ UNCHANGED <<setup, late, manager, comm, listening, engine, todo, result>>
             \/ ConnectFails(q)
       \/ /\ proc[q].force
          /\ Go(q, "find")
          /\ UNCHANGED <<setup, late, manager, comm, listening, engine, todo, hs, result>>

\* The client reads the server's exchange info, or gives up.
RecvExchange(q) ==
    /\ At(q, "recv")
    /\ LET d == proc[Behind(proc[q].h)]
       IN  \/ /\ d.pc # "reply" /\ d.ret # "refused"
              /\ Go(q, "rank")
              /\ UNCHANGED <<setup, late, manager, comm, listening, engine, todo, hs, result>>
           \/ ConnectFails(q)


\* The client reads the server's status, or gives up; the call succeeds if
\* both ends did.
RecvStatus(q) ==
    /\ At(q, "status")
    /\ LET d == proc[Behind(proc[q].h)]
       IN  \/ d.pc = "done" /\ Return(q, d.ret = "ok" /\ proc[q].ret # "failed")
           \/ Return(q, FALSE)
    /\ UNCHANGED <<setup, late, manager, comm, listening, engine, todo, hs>>

-----------------------------------------------------------------------------
(* ExchangeInfoProcess, run by both ends of a handshake, and the daemon.   *)

\* An end of a handshake is through: the client waits for the status, the
\* server sends it.
Ends(q, ret) ==
    proc' = [proc EXCEPT ![q].pc = IF IsClient(q) THEN "status" ELSE "done", ![q].ret = ret]

\* The server answers with its own exchange info, or cannot set up its buffers.
SendExchange(q) ==
    /\ At(q, "reply")
    /\ \/ Go(q, "validate")
       \/ proc[q].op = "accept" /\ proc' = [proc EXCEPT ![q].pc = "done", ![q].ret = "refused"]
    /\ UNCHANGED <<setup, late, manager, comm, listening, engine, todo, hs, result>>

\* Only who came through the daemon may have its entity destroyed through it.
ValidateEntityOwner(q) ==
    LET c == proc[q].at
        i == GetEntityByRemoteClusterId(c)
    IN  /\ At(q, "validate") /\ MutexFree(c)
        /\ CASE (proc[q].op = "drop" \/ proc[q].force) /\ i # None /\ ent[c][i].ip = None -> Ends(q, "failed")
             [] (proc[q].op = "drop") /\ (i = None \/ ent[c][i].ip # None) -> Go(q, "find")
             [] OTHER -> Go(q, "rank")
        /\ UNCHANGED <<setup, late, manager, comm, listening, engine, todo, hs, result>>

GenerateRankInfo(q) ==
    /\ At(q, "rank")
    /\ \/ Go(q, IF proc[q].force THEN "find" ELSE "check")
       \/ Ends(q, "failed")
    /\ UNCHANGED <<setup, late, manager, comm, listening, engine, todo, hs, result>>

AfterDestroy(q) ==
    CASE proc[q].op \in {"link", "accept"} -> "check"
      [] proc[q].op = "drop" -> "dropped"
      [] proc[q].op = "unlink" /\ ~proc[q].force -> "status"
      [] OTHER -> "unlinked"

FindToDestroy(q) ==
    /\ At(q, "find")
    /\ DestroyEntityFind(q, proc[q].at, AfterDestroy(q))
    /\ ActsLate(q)
    /\ UNCHANGED <<setup, comm, listening, engine, todo, hs, result>>

Destroy(q) ==
    /\ At(q, "destroy")
    /\ DestroyEntity(q, proc[q].at, AfterDestroy(q))
    /\ engine' = [engine EXCEPT ![proc[q].at] = IF proc[q].op = "unlinkHixl" THEN "off" ELSE @]
    /\ ActsLate(q)
    /\ UNCHANGED <<setup, comm, listening, todo, hs, result>>

ProcessDisconnectRequest(q) ==
    /\ At(q, "dropped") /\ Ends(q, "ok")
    /\ UNCHANGED <<setup, late, manager, comm, listening, engine, todo, hs, result>>

ForcedUnlinkEnds(q) ==
    /\ At(q, "unlinked") /\ Return(q, TRUE)
    /\ UNCHANGED <<setup, late, manager, comm, listening, engine, todo, hs>>

\* A link that is there already is left alone.
CheckLinked(q) ==
    LET c == proc[q].at
    IN  /\ At(q, "check") /\ MutexFree(c)
        /\ IF GetEntityByRemoteClusterId(c) = None THEN Go(q, "init") ELSE Ends(q, "failed")
        /\ UNCHANGED <<setup, late, manager, comm, listening, engine, todo, hs, result>>

\* The other end of handshake h is in its communicator's set-up, or past it.
Reached(c, h) ==
    \/ \E q \in DOMAIN proc : proc[q].pc \in {"init", "add"} /\ proc[q].at = c /\ proc[q].h = h
    \/ \E i \in DOMAIN ent[c] : ent[c][i].via = h

\* EntityCommInfo::Initialize: it takes both ends, and may fail at each.
InitializeComm(q) ==
    /\ At(q, "init")
    /\ \/ Reached(Other(proc[q].at), proc[q].h) /\ Go(q, "add")
       \/ Ends(q, "failed")
    /\ UNCHANGED <<setup, late, manager, comm, listening, engine, todo, hs, result>>

ExchangeInfoProcess(q) ==
    /\ At(q, "add")
    /\ AddEntity(proc[q].at, NewEntity(proc[q].h, "idle", proc[q].h))
    /\ Ends(q, "ok")
    /\ ActsLate(q)
    /\ UNCHANGED <<setup, comm, listening, engine, todo, hs, result>>

-----------------------------------------------------------------------------
(* Pulls through a link.                                                   *)

PullCache(q) ==
    LET i == GetEntityByRemoteClusterId(proc[q].at)
    IN  /\ At(q, "start") /\ proc[q].op = "pull" /\ MutexFree(proc[q].at)
        /\ IF i = None THEN Return(q, FALSE)
           ELSE proc' = [proc EXCEPT ![q].pc = "waiting", ![q].ent = i] /\ UNCHANGED result
        /\ UNCHANGED <<setup, late, manager, comm, listening, engine, todo, hs>>

\* Mutant: the entity is not looked at again once the lock is there.
PullLockUnchecked(q) ==
    /\ At(q, "waiting") /\ PullMutexFree(proc[q].at, proc[q].ent)
    /\ Go(q, "pulling")
    /\ UNCHANGED <<setup, late, manager, comm, listening, engine, todo, hs, result>>

\* The pull takes the entity's pull mutex and looks at the entity again.
PullLock(q) ==
    LET c == proc[q].at
    IN  /\ At(q, "waiting") /\ PullMutexFree(c, proc[q].ent)
        /\ IF ent[c][proc[q].ent].state = "destroyed" THEN Return(q, FALSE)
           ELSE Go(q, "pulling") /\ UNCHANGED result
        /\ UNCHANGED <<setup, late, manager, comm, listening, engine, todo, hs>>

\* The entity of the other cluster that serves the pull. With the service it
\* takes the other cluster's thread, which needs the manager's mutex; entities
\* in error are passed over. What the peer of a rank table does is not modelled.
Served(q) ==
    LET c == proc[q].at
        d == Other(c)
    IN  IF setup.service /\ ent[c][proc[q].ent].ip # None
        THEN MutexFree(d) /\ \E i \in map[d] : /\ ent[d][i].via = ent[c][proc[q].ent].via
                                              /\ ent[d][i].state = "idle"
        ELSE TRUE

\* The pull is served, or times out.
PullEnds(q) ==
    /\ At(q, "pulling")
    /\ (Served(q) /\ Return(q, TRUE)) \/ Return(q, FALSE)
    /\ UNCHANGED <<setup, late, manager, comm, listening, engine, todo, hs>>

\* The service fails on a pull: the entity that served it is in error.
ProcessStateFails(q) ==
    LET c == proc[q].at
        d == Other(c)
    IN  /\ At(q, "pulling") /\ setup.service /\ MutexFree(d)
        /\ \E i \in map[d] :
            /\ ent[d][i].via = ent[c][proc[q].ent].via /\ ent[d][i].state = "idle"
            /\ ent' = [ent EXCEPT ![d][i].state = "error"]
        /\ UNCHANGED <<setup, late, map, index, lock, comm, listening, engine, proc, todo, hs, result>>

-----------------------------------------------------------------------------
(* Links by rank table: CommLinkManager. The task of communicator h runs   *)
(* as process Behind(h).                                                   *)

NewStatus == [unlink |-> FALSE, prepare |-> FALSE, ptr |-> "none", status |-> "preparing", fut |-> TRUE]

\* What operator[] of the map leaves behind for a communicator it has not: all
\* fields zero, and the status that is zero says prepared.
Recreated == [NewStatus EXCEPT !.fut = FALSE, !.status = "prepared"]

Known(c, h) == h \in DOMAIN comm[c]

With(f, h, s) == [x \in DOMAIN f \cup {h} |-> IF x = h THEN s ELSE f[x]]

\* The calls of one cluster that link or unlink by rank table exclude each other.
CallMutexFree(q) ==
    \A p \in Callers \ {q} : proc[p].at = proc[q].at => proc[p].pc \notin {"quit", "erase", "join"}

\* Link: a new communicator, and a task that prepares its entities.
Link(q) ==
    LET c == proc[q].at
    IN  /\ At(q, "start") /\ proc[q].op = "linkRanks" /\ CallMutexFree(q)
        /\ \/ /\ Cardinality(DOMAIN comm[c]) < MaxLinkNum
              /\ hs' = hs + 1
              /\ comm' = [comm EXCEPT ![c] = With(@, hs + 1, NewStatus)]
              /\ proc' = [p \in DOMAIN proc \cup {Behind(hs + 1)} |->
                            IF p = q THEN Idle
                            ELSE IF p = Behind(hs + 1)
                            THEN [Process(c, "prepare", hs + 1, FALSE) EXCEPT !.pc = "prepare"]
                            ELSE proc[p]]
              /\ result' = [result EXCEPT ![q] = [op |-> "linkRanks", ok |-> TRUE, h |-> hs + 1]]
              /\ UNCHANGED <<setup, late, manager, listening, engine, todo>>
           \/ Return(q, FALSE) /\ UNCHANGED <<setup, late, manager, comm, listening, engine, todo, hs>>

\* The task announces itself; a communicator unlinked meanwhile ends it.
PrepareMem(q) ==
    LET c == proc[q].at
        h == proc[q].h
    IN  /\ At(q, "prepare")
        /\ IF Known(c, h)
           THEN comm' = [comm EXCEPT ![c][h].prepare = TRUE] /\ Go(q, "first")
           ELSE Go(q, "failed") /\ UNCHANGED comm
        /\ UNCHANGED <<setup, late, manager, listening, engine, todo, hs, result>>

\* The state of the communicators after the unlink flag was looked at.
CheckUnlink(c, h) ==
    LET s == IF Known(c, h) THEN comm[c][h] ELSE Recreated
    IN  With(comm[c], h, IF s.unlink THEN [s EXCEPT !.prepare = FALSE] ELSE s)

\* The first look ends a task that is being unlinked. Then it creates the
\* entities, which may fail, and takes its flag back for the slow set-up.
CreateClustersEntity(q) ==
    LET c == proc[q].at
        h == proc[q].h
    IN  /\ At(q, "first")
        /\ \/ /\ comm' = [comm EXCEPT ![c] = CheckUnlink(c, h)]
              /\ Go(q, IF Known(c, h) /\ comm[c][h].unlink THEN "failed" ELSE "comm")
           \/ /\ ~(Known(c, h) /\ comm[c][h].unlink)
              /\ comm' = [comm EXCEPT ![c] = CheckUnlink(c, h)]
              /\ Go(q, "undo")
        /\ UNCHANGED <<setup, late, manager, listening, engine, todo, hs, result>>

\* FreeFlagGuard and FlagGuard.
SetPrepare(c, h, b) == IF Known(c, h) THEN [comm EXCEPT ![c][h].prepare = b] ELSE comm

\* PrepareComm: the communicator is now the map's to destroy, if it is known.
PrepareComm(q) ==
    LET c == proc[q].at
        h == proc[q].h
    IN  /\ At(q, "comm")
        /\ comm' = IF Known(c, h) THEN [comm EXCEPT ![c][h].prepare = FALSE, ![c][h].ptr = "setup"] ELSE comm
        /\ Go(q, "prepareComm")
        /\ UNCHANGED <<setup, late, manager, listening, engine, todo, hs, result>>

\* Its set-up ends; a failed one destroyed the communicator.
PrepareHcclComm(q) ==
    LET c == proc[q].at
        h == proc[q].h
        Ptr(p) == IF Known(c, h) THEN [comm EXCEPT ![c][h].ptr = p] ELSE comm
    IN  /\ At(q, "prepareComm")
        /\ \/ comm' = Ptr("up") /\ Go(q, "flag")
           \/ comm' = Ptr("down") /\ Go(q, "undo")
        /\ UNCHANGED <<setup, late, manager, listening, engine, todo, hs, result>>

FlagGuard(q) ==
    /\ At(q, "flag")
    /\ comm' = SetPrepare(proc[q].at, proc[q].h, TRUE)
    /\ Go(q, "look")
    /\ UNCHANGED <<setup, late, manager, listening, engine, todo, hs, result>>

\* The second look clears the flag of a task being unlinked, and goes on.
LookAgain(q) ==
    /\ At(q, "look")
    /\ comm' = [comm EXCEPT ![proc[q].at] = CheckUnlink(proc[q].at, proc[q].h)]
    /\ Go(q, "exchange")
    /\ UNCHANGED <<setup, late, manager, listening, engine, todo, hs, result>>

\* ExchangeMem and SetInfo: fail on a communicator that is gone, may fail.
ExchangeMem(q) ==
    LET c == proc[q].at
        h == proc[q].h
    IN  /\ At(q, "exchange")
        /\ \/ Known(c, h) /\ comm[c][h].ptr = "up" /\ Go(q, "insert")
           \/ Go(q, "undo")
        /\ UNCHANGED <<setup, late, manager, comm, listening, engine, todo, hs, result>>

\* The entity is entered, also when its communicator is destroyed meanwhile.
InsertPrepared(q) ==
    LET c == proc[q].at
        h == proc[q].h
    IN  /\ At(q, "insert")
        /\ AddEntity(c, [NewEntity(h, "init", None) EXCEPT
                           !.up = Known(c, h) /\ comm[c][h].ptr = "up"])
        /\ Go(q, "mark")
        /\ UNCHANGED <<setup, late, comm, listening, engine, todo, hs, result>>

OfComm(c, h) == {i \in map[c] : ent[c][i].via = h}

MarkEntityIdle(q) ==
    LET c == proc[q].at
    IN  /\ At(q, "mark")
        /\ ent' = [ent EXCEPT ![c] = [i \in DOMAIN @ |-> IF ent[c][i].via = proc[q].h
                                        THEN [ent[c][i] EXCEPT !.state = "idle"] ELSE ent[c][i]]]
        /\ comm' = SetPrepare(c, proc[q].h, FALSE)
        /\ Go(q, "prepared")
        /\ UNCHANGED <<setup, late, map, index, lock, listening, engine, todo, hs, result>>

\* The guards of a task that failed: flag back, entities finalized.
Undo(q) ==
    /\ At(q, "undo")
    /\ comm' = SetPrepare(proc[q].at, proc[q].h, FALSE)
    /\ Go(q, "failed")
    /\ UNCHANGED <<setup, late, manager, listening, engine, todo, hs, result>>

\* Unlink: the flag first.
Unlink(q) ==
    LET c == proc[q].at
    IN  /\ At(q, "start") /\ proc[q].op = "unlinkRanks" /\ CallMutexFree(q)
        /\ \/ \E h \in DOMAIN comm[c] :
                /\ comm' = [comm EXCEPT ![c][h].unlink = TRUE]
                /\ proc' = [proc EXCEPT ![q].pc = "quit", ![q].h = h]
                /\ UNCHANGED result
           \/ DOMAIN comm[c] = {} /\ Return(q, FALSE) /\ UNCHANGED comm
        /\ UNCHANGED <<setup, late, manager, listening, engine, todo, hs>>

\* With the task's flag down, its entities are destroyed, and deleted where no
\* service would do it; the communicator goes once its set-up is over.
DestroyRes(q) ==
    LET c == proc[q].at
        h == proc[q].h
        mine == OfComm(c, h)
        gone == IF setup.service THEN {} ELSE mine \cup Destroyed(c)
    IN  /\ At(q, "quit") /\ MutexFree(c)
        /\ ~comm[c][h].prepare /\ comm[c][h].ptr # "setup"
        /\ \A i \in mine : PullMutexFree(c, i)
        /\ ent' = [ent EXCEPT ![c] = MarkDestroyed(FinalizeAll(c, mine), mine)]
        /\ map' = [map EXCEPT ![c] = @ \ gone]
        /\ index' = [index EXCEPT ![c] = IF gone # {} THEN None ELSE @]
        /\ comm' = [comm EXCEPT ![c][h].ptr = IF @ = "none" THEN @ ELSE "down"]
        /\ Go(q, "erase")
        /\ UNCHANGED <<setup, late, lock, listening, engine, todo, hs, result>>

EraseComm(q) ==
    LET c == proc[q].at
    IN  /\ At(q, "erase")
        /\ comm' = [comm EXCEPT ![c] = [x \in DOMAIN @ \ {proc[q].h} |-> @[x]]]
        /\ Go(q, "join")
        /\ UNCHANGED <<setup, late, manager, listening, engine, todo, hs, result>>

JoinTask(q) ==
    /\ At(q, "join") /\ proc[Behind(proc[q].h)].pc \in {"prepared", "failed"}
    /\ Return(q, TRUE)
    /\ UNCHANGED <<setup, late, manager, comm, listening, engine, todo, hs>>

\* The status of a communicator settles when its task has ended.
QueryRegisterMemStatus(q) ==
    LET c == proc[q].at
    IN  /\ At(q, "start") /\ proc[q].op = "query"
        /\ \/ \E h \in DOMAIN comm[c] :
                LET ended == comm[c][h].fut /\ proc[Behind(h)].pc \in {"prepared", "failed"}
                IN  /\ comm' = IF comm[c][h].status = "preparing" /\ ended
                               THEN [comm EXCEPT ![c][h].status = proc[Behind(h)].pc, ![c][h].fut = FALSE]
                               ELSE comm
                    /\ result' = [result EXCEPT ![q] = [op |-> "query", ok |-> comm'[c][h].status = "prepared", h |-> h]]
           \/ DOMAIN comm[c] = {} /\ UNCHANGED comm
              /\ result' = [result EXCEPT ![q] = [op |-> "query", ok |-> FALSE, h |-> None]]
        /\ proc' = [proc EXCEPT ![q] = Idle]
        /\ UNCHANGED <<setup, late, manager, listening, engine, todo, hs>>

-----------------------------------------------------------------------------
(* Links of the HIXL backend: an entity stands for the engine's connection. *)

\* HixlEntity::Initialize connects the engine first.
HixlConnect(q) ==
    LET c == proc[q].at
    IN  /\ At(q, "start") /\ proc[q].op = "linkHixl"
        /\ \/ /\ engine[c] = "off"
              /\ engine' = [engine EXCEPT ![c] = "on"]
              /\ hs' = hs + 1
              /\ proc' = [proc EXCEPT ![q].pc = "table", ![q].h = hs + 1]
              /\ UNCHANGED result
           \/ Return(q, FALSE) /\ UNCHANGED <<engine, hs>>
        /\ UNCHANGED <<setup, late, manager, comm, listening, todo>>

\* Then it asks for the cache table. If that fails the engine stays connected.
RecvCacheTableResp(q) ==
    /\ At(q, "table")
    /\ \/ Go(q, "enter") /\ UNCHANGED <<engine, result>>
       \/ Return(q, FALSE) /\ engine' = [engine EXCEPT ![proc[q].at] = "left"]
    /\ UNCHANGED <<setup, late, manager, comm, listening, todo, hs>>

\* The entity is entered, or, when its info cannot be set, finalized.
HixlLinkCluster(q) ==
    LET c == proc[q].at
    IN  /\ At(q, "enter")
        /\ \/ AddEntity(c, NewEntity(proc[q].h, "idle", None)) /\ Return(q, TRUE) /\ UNCHANGED engine
           \/ /\ Return(q, FALSE) /\ UNCHANGED manager
              /\ engine' = [engine EXCEPT ![c] = "off"]
        /\ UNCHANGED <<setup, late, comm, listening, todo, hs>>

HixlUnlinkCluster(q) ==
    /\ At(q, "start") /\ proc[q].op = "unlinkHixl"
    /\ Go(q, "find")
    /\ UNCHANGED <<setup, late, manager, comm, listening, engine, todo, hs, result>>

-----------------------------------------------------------------------------
(* Changing the role.                                                      *)

\* A cluster with links keeps its role. Otherwise the daemon is stopped, or
\* started, as the new role asks for (the call's force field).
SwitchRole(q) ==
    LET c == proc[q].at
    IN  /\ At(q, "start") /\ proc[q].op = "switch" /\ MutexFree(c)
        /\ IF GetEntitySize(c) > 0 THEN Return(q, FALSE)
           ELSE Go(q, "daemon") /\ UNCHANGED result
        /\ UNCHANGED <<setup, late, manager, comm, listening, engine, todo, hs>>

\* Stopping waits for the connections being served.
StopDaemon(q) ==
    LET c == proc[q].at
    IN  /\ At(q, "daemon")
        /\ ~proc[q].force =>
            \A d \in DOMAIN proc \ Callers : proc[d].at = c /\ proc[d].op # "prepare" => proc[d].pc = "done"
        /\ listening' = [listening EXCEPT ![c] = proc[q].force]
        /\ Return(q, TRUE)
        /\ UNCHANGED <<setup, late, manager, comm, engine, todo, hs>>

-----------------------------------------------------------------------------

Init ==
    /\ setup \in Setups
    /\ ent = [c \in Clusters |-> <<>>]
    /\ map = [c \in Clusters |-> {}]
    /\ index = [c \in Clusters |-> None]
    /\ lock = [c \in Clusters |-> None]
    /\ comm = [c \in Clusters |-> <<>>]
    /\ listening = [c \in Clusters |-> TRUE]
    /\ engine = [c \in Clusters |-> "off"]
    /\ proc = [t \in DOMAIN setup.calls |-> Idle]
    /\ todo = [t \in DOMAIN setup.calls |-> setup.calls[t].todo]
    /\ hs = 0
    /\ late = [c \in Clusters |-> 0]
    /\ result = [t \in DOMAIN setup.calls |-> [op |-> "none", ok |-> FALSE, h |-> None]]

AtRest == /\ \A q \in DOMAIN proc : proc[q].pc \in {"idle", "done", "prepared", "failed"}
          /\ \A t \in Callers : todo[t] = <<>>

Rest == AtRest /\ (\A c \in Clusters : ~setup.service \/ Destroyed(c) = {}) /\ UNCHANGED vars

Step(q) ==
    \/ LinkCluster(q) \/ UnlinkCluster(q) \/ RecvExchange(q) \/ RecvStatus(q)
    \/ SendExchange(q) \/ ValidateEntityOwner(q) \/ GenerateRankInfo(q) \/ FindToDestroy(q)
    \/ Destroy(q) \/ ProcessDisconnectRequest(q) \/ ForcedUnlinkEnds(q) \/ CheckLinked(q)
    \/ InitializeComm(q) \/ ExchangeInfoProcess(q)
    \/ PullCache(q) \/ PullLock(q) \/ PullEnds(q) \/ ProcessStateFails(q)
    \/ Link(q) \/ PrepareMem(q) \/ CreateClustersEntity(q) \/ PrepareComm(q) \/ PrepareHcclComm(q)
    \/ FlagGuard(q) \/ LookAgain(q) \/ ExchangeMem(q) \/ InsertPrepared(q) \/ MarkEntityIdle(q) \/ Undo(q)
    \/ Unlink(q) \/ DestroyRes(q) \/ EraseComm(q) \/ JoinTask(q) \/ QueryRegisterMemStatus(q)
    \/ HixlConnect(q) \/ RecvCacheTableResp(q) \/ HixlLinkCluster(q) \/ HixlUnlinkCluster(q)
    \/ SwitchRole(q) \/ StopDaemon(q)

Next ==
    \/ \E q \in Callers : Begin(q)
    \/ \E q \in DOMAIN proc : Step(q)
    \/ \E c \in Clusters : HandleAllEntities(c)
    \/ Rest

Spec == Init /\ [][Next]_vars

-----------------------------------------------------------------------------

\* A pull that has its entity's lock works on an entity that still has its
\* communicator: an unlink waits for the pull, and a pull that waited for an
\* unlink looks at the entity again.
PullsOnLiveLinks ==
    \A q \in DOMAIN proc : At(q, "pulling") => ent[proc[q].at][proc[q].ent].up

\* The communicator of a rank table is gone, or being unlinked.
UnlinkAsked(c, h) == ~Known(c, h) \/ comm[c][h].unlink \/ comm[c][h].ptr # "up"

\* The same with two exceptions. A task that prepares a communicator and is past
\* its last look at the unlink flag marks the entity idle that the unlink has
\* destroyed, and a pull may find it. And where no service runs an entity is not
\* marked when it is destroyed but leaves the map, so that a pull that found it
\* before and waited cannot tell.
PullsOnKeptLinks ==
    \A q \in DOMAIN proc : At(q, "pulling") =>
        LET c == proc[q].at
            e == ent[c][proc[q].ent]
        IN  \/ e.up
            \/ e.ip = None /\ UnlinkAsked(c, e.via)
            \/ ~setup.service /\ proc[q].ent \notin map[c]

Linked(c, h) ==
    LET i == GetEntityByRemoteClusterId(c)
    IN  i # None /\ ent[c][i].via = h /\ ent[c][i].up

\* The call of thread t is the only one that changes links.
Alone(t) ==
    \A u \in Callers \ {t} : \A k \in DOMAIN setup.calls[u].todo :
        setup.calls[u].todo[k].op \in {"pull", "query"}

\* A cluster holds an entity of handshake h. Where the service runs, it may have
\* removed the index with an older entity.
Holds(c, h) ==
    \/ Linked(c, h)
    \/ /\ setup.service /\ index[c] = None
       /\ \E i \in OfComm(c, h) : ent[c][i].up /\ ent[c][i].state # "destroyed"

=============================================================================
