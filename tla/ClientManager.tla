--------------------------- MODULE ClientManager ---------------------------
(***************************************************************************)
(* The client side link pool of the HIXL engine: ClientManager, the busy   *)
(* state of the HixlClient objects it owns, the API calls of HixlEngine    *)
(* that use them, the heartbeat thread, HixlEngine::Finalize and           *)
(* HixlEngine::Disconnect() without a remote, which unlinks everything.    *)
(*                                                                         *)
(* A critical section of ClientManager::mutex_ is one step.  The mutex of  *)
(* a remote engine (client_mutexes_) is an object with an identity: a      *)
(* thread first fetches it from the map and later locks it, so that a      *)
(* mutex taken out of the map by DestroyClientMutex can still be waited    *)
(* for.  last_access_seq_ is kept as the order it induces (newer[r] are    *)
(* the links accessed after r's).  A mutex lives as long as a shared_ptr refers to it; one that   *)
(* is freed while still locked may be allocated again, unlocked, for the   *)
(* next remote that needs a mutex, and is then unlocked by the old owner.  *)
(***************************************************************************)
EXTENDS Integers, FiniteSets

CONSTANTS
  Threads,      \* threads that call the engine's API
  Heartbeat,    \* the thread started by StartHeartbeat
  Remotes,      \* remote engines
  Clients,      \* identities of HixlClient objects, never reused
  Mutexes,      \* identities of per-remote mutexes
  None,         \* null pointer, absent map entry
  Setups,       \* options of the engine, and what the application does with it
  MaxInflight   \* bound: unfinished asynchronous requests of one client

Actors == Threads \cup {Heartbeat}

AllOps == {"connect", "disconnect", "transfer", "async", "poll", "notify"}

CallKinds == AllOps \cup {"none", "heartbeat"}

ASSUME PoolAssumption ==
  /\ \A s \in Setups : /\ s.max \in Nat \ {0}
                       /\ s.pool \in BOOLEAN /\ s.auto \in BOOLEAN /\ s.unlinks \in BOOLEAN
                       /\ s.ops \subseteq AllOps /\ s.remotes \subseteq Remotes
                       /\ s.calls \in Nat
  /\ MaxInflight \in Nat
  /\ IsFiniteSet(Threads) /\ IsFiniteSet(Remotes)
  /\ Heartbeat \notin Threads
  /\ None \notin Clients \cup Mutexes \cup Actors \cup Remotes

VARIABLES
  setup,      \* the deployment; fixed when the engine is initialized
  clients,    \* clients_: remote -> client or None
  newer,      \* last_access_seq_: remote -> the remotes accessed after it
  creating,   \* creating_count_
  finalized,  \* finalized_
  mutexMap,   \* client_mutexes_: remote -> mutex or None
  owner,      \* mutex -> the actor that has locked it
  remoteOf,   \* client -> its remote_engine_, None before it is created
  open,       \* client -> created and not is_finalized_
  useCount,   \* client -> use_count_
  inflight,   \* client -> size of req_map_
  clientLock, \* client -> the actor inside HixlClient::mutex_
  pc,         \* where each actor is
  op,         \* the API call it is in
  rem,        \* the remote engine of that call
  cl,         \* client_ptr of the call
  claimed,    \* transfer_use of the call
  resv,       \* slot_reserved of the call
  mtx,        \* the per-remote mutex it waits for or holds
  chosen,     \* admit.victims
  victims,    \* those DestroyIdleClients has still to visit
  victim,     \* the one it is at
  closing,    \* the client it has taken out of the pool to finalize
  budget,     \* API calls the thread may still make
  snap,       \* clients_copy of SendHeartbeat
  inited,     \* HixlEngine::is_initialized_
  stop,       \* stop_signal_
  fpc,        \* where ClientManager::Finalize is
  moved       \* clients Finalize has moved out of the pool

poolVars   == <<clients, newer, creating, finalized>>
mutexVars  == <<mutexMap, owner>>
clientVars == <<remoteOf, open, useCount, inflight, clientLock>>
callVars   == <<op, rem, cl, claimed, resv, budget>>
evictVars  == <<chosen, victims, victim, closing>>
finVars    == <<setup, inited, stop, fpc, moved>>
vars == <<poolVars, mutexVars, clientVars, callVars, evictVars, finVars,
          pc, mtx, snap>>

----------------------------------------------------------------------------
(* Helpers *)

PoolEnabled == setup.pool      \* max_channel_.has_value()
MaxChannel  == setup.max       \* max_channel_.value()
AutoConnect == setup.auto      \* auto_connect_
Ops         == setup.ops       \* the API calls the threads make

Pooled == {r \in Remotes : clients[r] # None}
Occupied == Cardinality(Pooled) + creating

(* Mutant: unfinished asynchronous requests are not looked at *)
IsBusyIgnoringRequests(c) == useCount[c] > 0 \/ clientLock[c] # None

(* HixlClient::IsBusy: claimed, locked by another thread, or with requests *)
IsBusy(c) == useCount[c] > 0 \/ clientLock[c] # None \/ inflight[c] > 0

TouchClientLocked(r) ==
  IF PoolEnabled
  THEN [x \in Remotes |-> IF x \in Pooled \ {r} THEN newer[x] \cup {r} ELSE {}]
  ELSE newer

Forget(r) == [x \in Remotes |-> IF x = r THEN {} ELSE newer[x] \ {r}]

(* The n idle links, or all of them, that were accessed least recently *)
SelectLruIdleClientsLocked(n) ==
  LET idle == {r \in Pooled : ~IsBusy(clients[r])}
  IN  {r \in idle : Cardinality({x \in idle : r \in newer[x]}) < n}

(* Mutant: the bound is off by one *)
HasFreeSlotOneMore == Occupied <= MaxChannel
HasFreeSlot == Occupied < MaxChannel

EvictCount == Occupied - MaxChannel + 1

(* pcs in which the caller is inside GetOrCreateClient and so holds the    *)
(* engine's mutex_ shared                                                  *)
SharedPcs == {"getm", "lock", "evget", "evlock", "evclose",
              "create", "insert", "relslot"}

(* HixlEngine::Finalize clears is_initialized_ and holds mutex_ exclusively *)
(* around ClientManager::Finalize; Disconnect() calls it without mutex_.    *)
ExclLocked == ~inited /\ fpc \in {"join", "close"}

Goto(t, l) == pc' = [pc EXCEPT ![t] = l]

(* HixlClient::Finalize, under the client's own mutex *)
Close(c) ==
  /\ clientLock[c] = None
  /\ open' = [open EXCEPT ![c] = FALSE]
  /\ inflight' = [inflight EXCEPT ![c] = 0]
  /\ UNCHANGED <<remoteOf, useCount, clientLock>>

(* pcs in which the actor still has the shared_ptr of its mutex: it goes   *)
(* out of scope when ReserveChannelSlot returns, and DestroyClient resets  *)
(* it before it unlocks.                                                   *)
SharedPtrPcs == {"lock", "evlock", "evclose", "dlock", "dclose"}

(* mutexes no shared_ptr refers to; unused memory is interchangeable, so   *)
(* a new mutex takes either some unused memory or that of a freed mutex    *)
(* an actor has yet to unlock                                              *)
FreeMutexes ==
  LET free == {m \in Mutexes :
                 /\ \A r \in Remotes : mutexMap[r] # m
                 /\ \A a \in Actors : pc[a] \in SharedPtrPcs => mtx[a] # m}
      dangling == {m \in free : \E a \in Actors : mtx[a] = m}
      unused == free \ dangling
  IN  dangling \cup (IF unused = {} THEN {} ELSE {CHOOSE m \in unused : TRUE})

(* GetClientMutex: the mutex of the map, or a new one entered into it *)
GetClientMutex(t, r) ==
  IF mutexMap[r] # None
  THEN /\ mtx' = [mtx EXCEPT ![t] = mutexMap[r]]
       /\ UNCHANGED mutexVars
  ELSE \E m \in FreeMutexes :
         /\ mutexMap' = [mutexMap EXCEPT ![r] = m]
         /\ owner' = [owner EXCEPT ![m] = None]
         /\ mtx' = [mtx EXCEPT ![t] = m]

MutexFree(t) == owner[mtx[t]] = None
LockMutex(t) == owner' = [owner EXCEPT ![mtx[t]] = t]
UnlockMutex(t) ==
  /\ owner' = [owner EXCEPT ![mtx[t]] = None]
  /\ mtx' = [mtx EXCEPT ![t] = None]

(* ClaimTransferUseLocked for the client c handed to the call of t *)
Claims(t) == PoolEnabled /\ op[t] \in {"transfer", "async", "notify"}
ClaimTransferUseLocked(t, c) ==
  IF Claims(t)
  THEN /\ useCount' = [useCount EXCEPT ![c] = @ + 1]
       /\ claimed' = [claimed EXCEPT ![t] = TRUE]
  ELSE UNCHANGED <<useCount, claimed>>

----------------------------------------------------------------------------
Init ==
  /\ setup \in Setups
  /\ clients = [r \in Remotes |-> None]
  /\ newer = [r \in Remotes |-> {}]
  /\ creating = 0
  /\ finalized = FALSE
  /\ mutexMap = [r \in Remotes |-> None]
  /\ owner = [m \in Mutexes |-> None]
  /\ remoteOf = [c \in Clients |-> None]
  /\ open = [c \in Clients |-> FALSE]
  /\ useCount = [c \in Clients |-> 0]
  /\ inflight = [c \in Clients |-> 0]
  /\ clientLock = [c \in Clients |-> None]
  /\ pc = [t \in Actors |-> IF t \in Threads THEN "idle"
                            ELSE IF AutoConnect THEN "hsleep" ELSE "stopped"]
  /\ op = [t \in Actors |-> IF t \in Threads THEN "none" ELSE "heartbeat"]
  /\ rem = [t \in Actors |-> None]
  /\ cl = [t \in Actors |-> None]
  /\ claimed = [t \in Actors |-> FALSE]
  /\ resv = [t \in Actors |-> FALSE]
  /\ budget = [t \in Actors |-> setup.calls]
  /\ mtx = [t \in Actors |-> None]
  /\ chosen = [t \in Actors |-> {}]
  /\ victims = [t \in Actors |-> {}]
  /\ victim = [t \in Actors |-> None]
  /\ closing = [t \in Actors |-> None]
  /\ snap = [r \in Remotes |-> None]
  /\ inited = TRUE
  /\ stop = FALSE
  /\ fpc = "none"
  /\ moved = {}

----------------------------------------------------------------------------
(* API calls *)

Begin(t, o, r) ==
  /\ pc[t] = "idle"
  /\ o \in Ops /\ r \in setup.remotes
  /\ budget[t] > 0
  /\ budget' = [budget EXCEPT ![t] = @ - 1]
  /\ op' = [op EXCEPT ![t] = o]
  /\ rem' = [rem EXCEPT ![t] = r]

(* Connect up to the point where it asks for the engine's mutex_ *)
Connect(t, r) ==
  /\ inited
  /\ Begin(t, "connect", r)
  /\ Goto(t, "conn")
  /\ UNCHANGED <<poolVars, mutexVars, clientVars, cl, claimed, resv, evictVars,
                 finVars, mtx, snap>>

(* TransferSync, TransferAsync and SendNotify that find the link: GetClientForUse *)
UseClient(t, o, r) ==
  LET c == clients[r] IN
  /\ o \in {"transfer", "async", "notify"}
  /\ o # "notify" => inited
  /\ c # None
  /\ Begin(t, o, r)
  /\ cl' = [cl EXCEPT ![t] = c]
  /\ useCount' = IF PoolEnabled THEN [useCount EXCEPT ![c] = @ + 1] ELSE useCount
  /\ claimed' = [claimed EXCEPT ![t] = PoolEnabled]
  /\ newer' = TouchClientLocked(r)
  /\ Goto(t, "xfer")
  /\ UNCHANGED <<clients, creating, finalized, mutexVars, remoteOf, open, inflight,
                 clientLock, resv, evictVars, finVars, mtx, snap>>

(* the same calls when AutoConnect has to create the link *)
AutoConnectTransfer(t, o, r) ==
  /\ AutoConnect
  /\ o \in {"transfer", "async"}
  /\ inited
  /\ clients[r] = None
  /\ Begin(t, o, r)
  /\ Goto(t, "conn")
  /\ UNCHANGED <<poolVars, mutexVars, clientVars, cl, claimed, resv, evictVars,
                 finVars, mtx, snap>>

Disconnect(t, r) ==
  /\ Begin(t, "disconnect", r)
  /\ Goto(t, "dget")
  /\ UNCHANGED <<poolVars, mutexVars, clientVars, cl, claimed, resv, evictVars,
                 finVars, mtx, snap>>

(* GetTransferStatus: GetClientByReq takes no claim on the client *)
Poll(t, c) ==
  /\ inflight[c] > 0
  /\ \/ clients[remoteOf[c]] = c
     \/ \E a \in Actors : cl[a] = c
  /\ Begin(t, "poll", remoteOf[c])
  /\ cl' = [cl EXCEPT ![t] = c]
  /\ Goto(t, "poll")
  /\ UNCHANGED <<poolVars, mutexVars, clientVars, claimed, resv, evictVars,
                 finVars, mtx, snap>>

----------------------------------------------------------------------------
(* GetOrCreateClient *)

EnterShared(t) ==
  /\ pc[t] = "conn"
  /\ ~ExclLocked
  /\ Goto(t, "getm")
  /\ UNCHANGED <<poolVars, mutexVars, clientVars, callVars, evictVars, finVars,
                 mtx, snap>>

ReserveGetMutex(t) ==
  /\ pc[t] = "getm"
  /\ GetClientMutex(t, rem[t])
  /\ Goto(t, "lock")
  /\ UNCHANGED <<poolVars, clientVars, callVars, evictVars, finVars, snap>>

(* EvaluateChannelAdmit: the link already exists *)
AdmitConnected(t) ==
  LET c == clients[rem[t]] IN
  /\ pc[t] = "lock" /\ MutexFree(t)
  /\ c # None
  /\ ClaimTransferUseLocked(t, c)
  /\ newer' = TouchClientLocked(rem[t])
  /\ cl' = [cl EXCEPT ![t] = IF op[t] = "connect" THEN None ELSE c]
  /\ Goto(t, IF op[t] = "connect" THEN "release" ELSE "xfer")
  /\ UnlockMutex(t)
  /\ UNCHANGED <<clients, creating, finalized, mutexMap, remoteOf, open, inflight,
                 clientLock, op, rem, resv, budget, evictVars, finVars, snap>>

AdmitUnlimited(t) ==
  /\ pc[t] = "lock" /\ MutexFree(t)
  /\ clients[rem[t]] = None
  /\ ~PoolEnabled
  /\ LockMutex(t)
  /\ Goto(t, "create")
  /\ UNCHANGED <<poolVars, mutexMap, clientVars, callVars, evictVars, finVars,
                 mtx, snap>>

AdmitReserve(t) ==
  /\ pc[t] = "lock" /\ MutexFree(t)
  /\ clients[rem[t]] = None
  /\ PoolEnabled
  /\ HasFreeSlot
  /\ creating' = creating + 1
  /\ resv' = [resv EXCEPT ![t] = TRUE]
  /\ LockMutex(t)
  /\ Goto(t, "create")
  /\ UNCHANGED <<clients, newer, finalized, mutexMap, clientVars, op, rem, cl, claimed,
                 budget, evictVars, finVars, mtx, snap>>

AdmitEvict(t) ==
  LET vs == SelectLruIdleClientsLocked(EvictCount) IN
  /\ pc[t] = "lock" /\ MutexFree(t)
  /\ clients[rem[t]] = None
  /\ PoolEnabled
  /\ ~HasFreeSlot
  /\ Cardinality(vs) >= EvictCount
  /\ chosen' = [chosen EXCEPT ![t] = vs]
  /\ victims' = [victims EXCEPT ![t] = vs]
  /\ UnlockMutex(t)
  /\ Goto(t, "evget")
  /\ UNCHANGED <<poolVars, mutexMap, clientVars, callVars, victim, closing, finVars, snap>>

(* ReportPoolExhausted *)
AdmitExhausted(t) ==
  /\ pc[t] = "lock" /\ MutexFree(t)
  /\ clients[rem[t]] = None
  /\ PoolEnabled
  /\ ~HasFreeSlot
  /\ Cardinality(SelectLruIdleClientsLocked(EvictCount)) < EvictCount
  /\ UnlockMutex(t)
  /\ Goto(t, "release")
  /\ UNCHANGED <<poolVars, mutexMap, clientVars, callVars, evictVars, finVars, snap>>

(* DestroyIdleClients takes the victims one by one *)
EvictGetMutex(t) ==
  /\ pc[t] = "evget"
  /\ \E v \in victims[t] :
       /\ victim' = [victim EXCEPT ![t] = v]
       /\ victims' = [victims EXCEPT ![t] = @ \ {v}]
       /\ GetClientMutex(t, v)
  /\ Goto(t, "evlock")
  /\ UNCHANGED <<poolVars, clientVars, callVars, chosen, closing, finVars, snap>>

(* The second look at the victim, now under mutex_ and its own lock *)
MayEvict(c) == ~IsBusy(c)

(* DestroyIdleClient: gone or busy by now, left alone *)
EvictSkip(t) ==
  LET c == clients[victim[t]] IN
  /\ pc[t] = "evlock" /\ MutexFree(t)
  /\ c # None => ~MayEvict(c)
  /\ victim' = [victim EXCEPT ![t] = None]
  /\ UnlockMutex(t)
  /\ Goto(t, "evget")
  /\ UNCHANGED <<poolVars, mutexMap, clientVars, callVars, chosen, victims, closing,
                 finVars, snap>>

(* DestroyIdleClient: still idle, taken out of the pool *)
EvictErase(t) ==
  LET c == clients[victim[t]] IN
  /\ pc[t] = "evlock" /\ MutexFree(t)
  /\ c # None
  /\ MayEvict(c)
  /\ closing' = [closing EXCEPT ![t] = c]
  /\ clients' = [clients EXCEPT ![victim[t]] = None]
  /\ newer' = Forget(victim[t])
  /\ victim' = [victim EXCEPT ![t] = None]
  /\ LockMutex(t)
  /\ Goto(t, "evclose")
  /\ UNCHANGED <<creating, finalized, mutexMap, clientVars, callVars, chosen, victims,
                 finVars, mtx, snap>>

EvictClose(t) ==
  /\ pc[t] = "evclose"
  /\ Close(closing[t])
  /\ closing' = [closing EXCEPT ![t] = None]
  /\ UnlockMutex(t)
  /\ Goto(t, "evget")
  /\ UNCHANGED <<poolVars, mutexMap, callVars, chosen, victims, victim, finVars, snap>>

(* FinishEvict fails if every victim is still in the pool; otherwise the  *)
(* loop of ReserveChannelSlot starts over                                 *)
FinishEvict(t) ==
  /\ pc[t] = "evget"
  /\ victims[t] = {}
  /\ Goto(t, IF chosen[t] \subseteq Pooled THEN "release" ELSE "getm")
  /\ chosen' = [chosen EXCEPT ![t] = {}]
  /\ UNCHANGED <<poolVars, mutexVars, clientVars, callVars, victims, victim, closing,
                 finVars, mtx, snap>>

(* Mutant: finalized_ is not looked at *)
MayCreateAlways == TRUE
MayCreate == ~finalized

FreshClients == {c \in Clients : remoteOf[c] = None}

(* CreateClient refuses when the manager is finalized, or fails to initialize *)
CreateFails(t) ==
  /\ pc[t] = "create"
  /\ UnlockMutex(t)
  /\ Goto(t, IF resv[t] THEN "relslot" ELSE "release")
  /\ UNCHANGED <<poolVars, mutexMap, clientVars, callVars, evictVars, finVars, snap>>

CreateClient(t) ==
  /\ pc[t] = "create"
  /\ MayCreate
  /\ FreshClients # {}
  /\ LET c == CHOOSE c \in FreshClients : TRUE IN
       /\ remoteOf' = [remoteOf EXCEPT ![c] = rem[t]]
       /\ open' = [open EXCEPT ![c] = TRUE]
       /\ cl' = [cl EXCEPT ![t] = c]
  /\ Goto(t, "insert")
  /\ UNCHANGED <<poolVars, mutexVars, useCount, inflight, clientLock, op, rem,
                 claimed, resv, budget, evictVars, finVars, mtx, snap>>

(* Mutant: the slot is not returned *)
SlotKept == creating
SlotReturned == IF creating > 0 THEN creating - 1 ELSE creating

(* RegisterMem or Connect of the new client fails: fail_guard finalizes it *)
ConnectFails(t) ==
  /\ pc[t] = "insert"
  /\ Close(cl[t])
  /\ cl' = [cl EXCEPT ![t] = None]
  /\ UnlockMutex(t)
  /\ Goto(t, IF resv[t] THEN "relslot" ELSE "release")
  /\ UNCHANGED <<poolVars, mutexMap, op, rem, claimed, resv, budget, evictVars,
                 finVars, snap>>

(* clients_.emplace keeps an entry that is already there *)
InsertClient(t) ==
  /\ pc[t] = "insert"
  /\ clients' = [clients EXCEPT ![rem[t]] = IF @ = None THEN cl[t] ELSE @]
  /\ ClaimTransferUseLocked(t, cl[t])
  /\ newer' = TouchClientLocked(rem[t])
  /\ creating' = IF resv[t] THEN SlotReturned ELSE creating
  /\ resv' = [resv EXCEPT ![t] = FALSE]
  /\ cl' = [cl EXCEPT ![t] = IF op[t] = "connect" THEN None ELSE @]
  /\ UnlockMutex(t)
  /\ Goto(t, IF op[t] = "connect" THEN "release" ELSE "xfer")
  /\ UNCHANGED <<finalized, mutexMap, remoteOf, open, inflight, clientLock, op,
                 rem, budget, evictVars, finVars, snap>>

(* slot_guard, after the client lock is gone *)
ReleaseChannelSlot(t) ==
  /\ pc[t] = "relslot"
  /\ creating' = SlotReturned
  /\ resv' = [resv EXCEPT ![t] = FALSE]
  /\ Goto(t, "release")
  /\ UNCHANGED <<clients, newer, finalized, mutexVars, clientVars, op, rem, cl, claimed,
                 budget, evictVars, finVars, mtx, snap>>

----------------------------------------------------------------------------
(* Transfers on a client *)

TransferBegin(t) ==
  /\ pc[t] = "xfer"
  /\ clientLock[cl[t]] = None
  /\ clientLock' = [clientLock EXCEPT ![cl[t]] = t]
  /\ Goto(t, "xrun")
  /\ UNCHANGED <<poolVars, mutexVars, remoteOf, open, useCount, inflight,
                 callVars, evictVars, finVars, mtx, snap>>

TransferOk(t) ==
  /\ pc[t] = "xrun"
  /\ open[cl[t]]
  /\ op[t] = "async" => inflight[cl[t]] < MaxInflight
  /\ inflight' = [inflight EXCEPT ![cl[t]] = IF op[t] = "async" THEN @ + 1 ELSE @]
  /\ clientLock' = [clientLock EXCEPT ![cl[t]] = None]
  /\ Goto(t, "release")
  /\ UNCHANGED <<poolVars, mutexVars, remoteOf, open, useCount, callVars,
                 evictVars, finVars, mtx, snap>>

(* a failed transfer of an auto connected engine cleans the link up *)
AfterFailure(t) == IF AutoConnect /\ op[t] # "notify" THEN "adget" ELSE "release"

(* Mutant: the failed link is cleaned up under its own lock *)
TransferFailsLocked(t) ==
  /\ pc[t] = "xrun"
  /\ UNCHANGED clientLock
  /\ Goto(t, AfterFailure(t))
  /\ UNCHANGED <<poolVars, mutexVars, remoteOf, open, useCount, inflight, callVars,
                 evictVars, finVars, mtx, snap>>

TransferFails(t) ==
  /\ pc[t] = "xrun"
  /\ clientLock' = [clientLock EXCEPT ![cl[t]] = None]
  /\ Goto(t, AfterFailure(t))
  /\ UNCHANGED <<poolVars, mutexVars, remoteOf, open, useCount, inflight, callVars,
                 evictVars, finVars, mtx, snap>>

RemoveTransferReq(c) == inflight' = [inflight EXCEPT ![c] = IF @ > 0 THEN @ - 1 ELSE 0]

(* HixlClient::GetTransferStatus: the request has ended, or is still waiting *)
PollDone(t) ==
  /\ pc[t] = "poll"
  /\ clientLock[cl[t]] = None
  /\ inflight[cl[t]] > 0
  /\ \/ RemoveTransferReq(cl[t])
     \/ UNCHANGED inflight
  /\ Goto(t, "release")
  /\ UNCHANGED <<poolVars, mutexVars, remoteOf, open, useCount, clientLock,
                 callVars, evictVars, finVars, mtx, snap>>

(* the query fails, or the client is finalized and has forgotten the request *)
PollFails(t) ==
  /\ pc[t] = "poll"
  /\ clientLock[cl[t]] = None
  /\ RemoveTransferReq(cl[t])
  /\ Goto(t, AfterFailure(t))
  /\ UNCHANGED <<poolVars, mutexVars, remoteOf, open, useCount, clientLock, callVars,
                 evictVars, finVars, mtx, snap>>

(* AutoDisconnect looks the remote up again by name *)
AutoDisconnect(t) ==
  /\ pc[t] = "adget"
  /\ IF clients[rem[t]] = None
     THEN Goto(t, "release") /\ UNCHANGED newer
     ELSE Goto(t, "dget") /\ newer' = TouchClientLocked(rem[t])
  /\ UNCHANGED <<clients, creating, finalized, mutexVars, clientVars, callVars,
                 evictVars, finVars, mtx, snap>>

(* Mutant: a link closed during the transfer keeps its claim *)
OwnsUseOfOpen(t) == claimed[t] /\ open[cl[t]]
OwnsUse(t) == claimed[t]

(* TransferUseGuard, and the call returns *)
ReleaseUse(t) ==
  /\ pc[t] = "release"
  /\ useCount' = IF OwnsUse(t) THEN [useCount EXCEPT ![cl[t]] = @ - 1] ELSE useCount
  /\ claimed' = [claimed EXCEPT ![t] = FALSE]
  /\ cl' = [cl EXCEPT ![t] = None]
  /\ op' = [op EXCEPT ![t] = IF t = Heartbeat THEN @ ELSE "none"]
  /\ rem' = [rem EXCEPT ![t] = None]
  /\ resv' = [resv EXCEPT ![t] = FALSE]
  /\ Goto(t, IF t = Heartbeat THEN "hcheck" ELSE "idle")
  /\ UNCHANGED <<poolVars, mutexVars, remoteOf, open, inflight, clientLock,
                 budget, evictVars, finVars, mtx, snap>>

----------------------------------------------------------------------------
(* DestroyClient: Disconnect, AutoDisconnect and the heartbeat *)

DestroyGetMutex(t) ==
  /\ pc[t] = "dget"
  /\ GetClientMutex(t, rem[t])
  /\ Goto(t, "dlock")
  /\ UNCHANGED <<poolVars, clientVars, callVars, evictVars, finVars, snap>>

DestroyErase(t) ==
  /\ pc[t] = "dlock" /\ MutexFree(t)
  /\ closing' = [closing EXCEPT ![t] = clients[rem[t]]]
  /\ clients' = [clients EXCEPT ![rem[t]] = None]
  /\ newer' = Forget(rem[t])
  /\ LockMutex(t)
  /\ Goto(t, IF clients[rem[t]] = None THEN "dmutex" ELSE "dclose")
  /\ UNCHANGED <<creating, finalized, mutexMap, clientVars, callVars, chosen, victims, victim,
                 finVars, mtx, snap>>

DestroyClose(t) ==
  /\ pc[t] = "dclose"
  /\ Close(closing[t])
  /\ closing' = [closing EXCEPT ![t] = None]
  /\ Goto(t, "dmutex")
  /\ UNCHANGED <<poolVars, mutexVars, callVars, chosen, victims, victim, finVars, mtx, snap>>

(* DestroyClientMutex forgets the mutex although others may wait for it *)
DestroyClientMutex(t) ==
  /\ pc[t] = "dmutex"
  /\ mutexMap' = [mutexMap EXCEPT ![rem[t]] = None]
  /\ Goto(t, "dunlock")
  /\ UNCHANGED <<poolVars, owner, clientVars, callVars, evictVars, finVars, mtx, snap>>

(* client_lock goes out of scope last *)
DestroyUnlock(t) ==
  /\ pc[t] = "dunlock"
  /\ UnlockMutex(t)
  /\ Goto(t, "release")
  /\ UNCHANGED <<poolVars, mutexMap, clientVars, callVars, evictVars, finVars, snap>>

----------------------------------------------------------------------------
(* SendHeartbeat *)

HeartbeatCopy ==
  /\ pc[Heartbeat] = "hsleep"
  /\ ~stop
  /\ snap' = clients
  /\ Goto(Heartbeat, "hcheck")
  /\ UNCHANGED <<poolVars, mutexVars, clientVars, callVars, evictVars, finVars, mtx>>

(* CheckAlive of a client of the copy; it fails on a finalized client *)
CheckAlive(r, alive) ==
  LET c == snap[r] IN
  /\ pc[Heartbeat] = "hcheck"
  /\ c # None
  /\ clientLock[c] = None
  /\ alive => open[c]
  /\ snap' = [snap EXCEPT ![r] = None]
  /\ rem' = [rem EXCEPT ![Heartbeat] = IF alive THEN None ELSE r]
  /\ Goto(Heartbeat, IF alive THEN "hcheck" ELSE "dget")
  /\ UNCHANGED <<poolVars, mutexVars, remoteOf, open, useCount, inflight, clientLock, op,
                 cl, claimed, resv, budget, evictVars, finVars, mtx>>

HeartbeatSleep ==
  /\ pc[Heartbeat] = "hcheck"
  /\ \A r \in Remotes : snap[r] = None
  /\ Goto(Heartbeat, "hsleep")
  /\ UNCHANGED <<poolVars, mutexVars, clientVars, callVars, evictVars, finVars, mtx,
                 snap>>

HeartbeatStop ==
  /\ pc[Heartbeat] = "hsleep"
  /\ stop
  /\ Goto(Heartbeat, "stopped")
  /\ UNCHANGED <<poolVars, mutexVars, clientVars, callVars, evictVars, finVars, mtx,
                 snap>>

----------------------------------------------------------------------------
(* HixlEngine::Finalize and ClientManager::Finalize *)

StopHeartbeat == stop' = TRUE

(* HixlEngine::Disconnect(), from UnlinkAllClusters: the manager is        *)
(* finalized, the engine is not, and calls may be inside GetOrCreateClient *)
DisconnectAll ==
  /\ setup.unlinks
  /\ fpc = "none"
  /\ StopHeartbeat
  /\ fpc' = "join"
  /\ UNCHANGED <<poolVars, mutexVars, clientVars, callVars, evictVars, setup, inited, moved,
                 pc, mtx, snap>>

FinalizeBegin ==
  /\ fpc \in {"none", "off"}
  /\ \A t \in Threads : pc[t] \notin SharedPcs
  /\ inited' = FALSE
  /\ StopHeartbeat
  /\ fpc' = "join"
  /\ UNCHANGED <<poolVars, mutexVars, clientVars, callVars, evictVars, setup, moved, pc,
                 mtx, snap>>

FinalizeMove ==
  /\ fpc = "join"
  /\ pc[Heartbeat] = "stopped"
  /\ finalized' = TRUE
  /\ moved' = {clients[r] : r \in Pooled}
  /\ clients' = [r \in Remotes |-> None]
  /\ newer' = [r \in Remotes |-> {}]
  /\ fpc' = "close"
  /\ UNCHANGED <<creating, mutexVars, clientVars, callVars, evictVars, setup, inited, stop,
                 pc, mtx, snap>>

FinalizeClose(c) ==
  /\ fpc = "close"
  /\ c \in moved
  /\ Close(c)
  /\ moved' = moved \ {c}
  /\ UNCHANGED <<poolVars, mutexVars, callVars, evictVars, setup, inited, stop, fpc, pc,
                 mtx, snap>>

(* clients_.clear() drops what a call inserted after the move as well; its *)
(* destructor does not finalize it                                         *)
FinalizeEnd ==
  /\ fpc = "close"
  /\ moved = {}
  /\ clients' = [r \in Remotes |-> None]
  /\ mutexMap' = [r \in Remotes |-> None]
  /\ fpc' = IF inited THEN "off" ELSE "done"
  /\ UNCHANGED <<newer, creating, finalized, owner, clientVars, callVars, evictVars, setup,
                 inited, stop, moved, pc, mtx, snap>>

----------------------------------------------------------------------------
(* Every call has returned and the engine is finalized *)
Finished ==
  /\ fpc = "done"
  /\ \A t \in Threads : pc[t] = "idle"
  /\ UNCHANGED vars

Call(t) ==
  \/ \E r \in Remotes : Connect(t, r) \/ Disconnect(t, r)
  \/ \E r \in Remotes, o \in Ops : UseClient(t, o, r) \/ AutoConnectTransfer(t, o, r)
  \/ \E c \in Clients : Poll(t, c)

Admit(t) ==
  \/ AdmitConnected(t) \/ AdmitUnlimited(t) \/ AdmitReserve(t)
  \/ AdmitEvict(t) \/ AdmitExhausted(t)

Evict(t) ==
  EvictGetMutex(t) \/ EvictSkip(t) \/ EvictErase(t) \/ EvictClose(t) \/ FinishEvict(t)

Create(t) ==
  \/ CreateFails(t) \/ CreateClient(t) \/ ConnectFails(t) \/ InsertClient(t)
  \/ ReleaseChannelSlot(t)

Transfer(t) ==
  \/ TransferBegin(t) \/ TransferOk(t) \/ TransferFails(t) \/ PollDone(t) \/ PollFails(t)
  \/ AutoDisconnect(t) \/ ReleaseUse(t)

DestroyClient(t) ==
  \/ DestroyGetMutex(t) \/ DestroyErase(t) \/ DestroyClose(t) \/ DestroyClientMutex(t)
  \/ DestroyUnlock(t)

Step(t) ==
  \/ EnterShared(t) \/ ReserveGetMutex(t)
  \/ Admit(t) \/ Evict(t) \/ Create(t) \/ Transfer(t) \/ DestroyClient(t)

SendHeartbeat ==
  \/ HeartbeatCopy \/ HeartbeatSleep \/ HeartbeatStop
  \/ \E r \in Remotes, alive \in BOOLEAN : CheckAlive(r, alive)

Finalize ==
  DisconnectAll \/ FinalizeBegin \/ FinalizeMove \/ FinalizeEnd \/ \E c \in Clients : FinalizeClose(c)

Next ==
  \/ \E t \in Threads : Call(t)
  \/ \E t \in Actors : Step(t)
  \/ SendHeartbeat
  \/ Finalize
  \/ Finished

Spec == Init /\ [][Next]_vars

(* Calls return: connects and transfers have a timeout, mutexes are       *)
(* released, and the heartbeat's wait_for wakes up at least every 10 s.   *)
FairSpec ==
  /\ Spec
  /\ \A t \in Actors : WF_vars(Step(t))
  /\ WF_vars(SendHeartbeat)
  /\ WF_vars(FinalizeMove \/ FinalizeEnd \/ \E c \in Clients : FinalizeClose(c))

----------------------------------------------------------------------------
(* Properties *)

Pcs == SharedPcs \cup
       {"idle", "conn", "xfer", "xrun", "poll", "adget", "release",
        "dget", "dlock", "dclose", "dmutex", "dunlock", "hsleep", "hcheck", "stopped"}

PoolType ==
  /\ clients \in [Remotes -> Clients \cup {None}]
  /\ newer \in [Remotes -> SUBSET Remotes]
  /\ creating \in Nat
  /\ finalized \in BOOLEAN

MutexType ==
  /\ mutexMap \in [Remotes -> Mutexes \cup {None}]
  /\ owner \in [Mutexes -> Actors \cup {None}]
  /\ mtx \in [Actors -> Mutexes \cup {None}]

ClientType ==
  /\ remoteOf \in [Clients -> Remotes \cup {None}]
  /\ open \in [Clients -> BOOLEAN]
  /\ useCount \in [Clients -> Int]
  /\ inflight \in [Clients -> Nat]
  /\ clientLock \in [Clients -> Actors \cup {None}]

CallType ==
  /\ pc \in [Actors -> Pcs]
  /\ op \in [Actors -> CallKinds]
  /\ rem \in [Actors -> Remotes \cup {None}]
  /\ cl \in [Actors -> Clients \cup {None}]
  /\ claimed \in [Actors -> BOOLEAN]
  /\ resv \in [Actors -> BOOLEAN]
  /\ budget \in [Actors -> Nat]

EvictType ==
  /\ chosen \in [Actors -> SUBSET Remotes]
  /\ victims \in [Actors -> SUBSET Remotes]
  /\ victim \in [Actors -> Remotes \cup {None}]
  /\ closing \in [Actors -> Clients \cup {None}]

FinType ==
  /\ setup \in Setups
  /\ snap \in [Remotes -> Clients \cup {None}]
  /\ inited \in BOOLEAN
  /\ stop \in BOOLEAN
  /\ fpc \in {"none", "join", "close", "off", "done"}
  /\ moved \subseteq Clients

(* The variables hold values of the kinds the code gives them *)
TypeOK == PoolType /\ MutexType /\ ClientType /\ CallType /\ EvictType /\ FinType

(* The comment in GetOrCreateClient: the links of the pool and the slots  *)
(* reserved for connects in progress never exceed max_channel, whatever   *)
(* connects, evictions and disconnects overlap.                           *)
PoolBound == PoolEnabled => Occupied <= MaxChannel

(* creating_count_ is exactly the number of GetOrCreateClient calls that  *)
(* hold a reservation: no exit path forgets its slot or returns it twice, *)
(* and the "> 0" tests of ReleaseChannelSlot never hide a double release. *)
ReservationsExact == creating = Cardinality({t \in Actors : resv[t]})

(* use_count_ of a client is exactly the number of calls that claimed it: *)
(* every claim of ClaimTransferUseLocked is undone once, by the guard of  *)
(* the call that made it.                                                 *)
UseCountExact ==
  \A c \in Clients :
    useCount[c] = Cardinality({t \in Actors : claimed[t] /\ cl[t] = c})

(* Eviction never tears a transfer down: while DestroyIdleClient          *)
(* finalizes the client it took out of the pool, no call is transferring  *)
(* on that client and it has no unfinished asynchronous request.          *)
EvictionSparesTransfers ==
  \A t \in Actors : pc[t] = "evclose" =>
    /\ inflight[closing[t]] = 0
    /\ \A a \in Actors : pc[a] \in {"xfer", "xrun"} => cl[a] # closing[t]

(* Once HixlEngine::Finalize has emptied the pool nothing enters it again, *)
(* although Connect and AutoConnect calls that passed CheckInitialized are *)
(* still on their way to GetOrCreateClient, and although a Disconnect()    *)
(* before it, which takes no engine lock, may have let a connect in        *)
(* progress insert its client behind it.                                   *)
NoClientAfterFinalize ==
  ~inited /\ fpc \in {"close", "done"}
    => Pooled = {} /\ \A t \in Actors : pc[t] # "insert"

(* No call is in progress.  As a thread makes finitely many calls,        *)
(* <>[]AllReturned says that none waits for ever: connecting threads that *)
(* evict each other's links, transfers, disconnects, and Finalize, which  *)
(* joins the heartbeat thread while holding the engine's mutex_.          *)
AllReturned ==
  /\ \A t \in Threads : pc[t] = "idle"
  /\ fpc \in {"none", "off", "done"}
=============================================================================
