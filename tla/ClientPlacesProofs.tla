------------------------- MODULE ClientPlacesProofs ------------------------
(***************************************************************************)
(* The calls of ClientManager keep their types (CallInv), Finalize has the *)
(* engine for itself (FinInv), and a client is in one place at a time      *)
(* (PlaceInv).                                                             *)
(***************************************************************************)
EXTENDS ClientCallsProofs

LEMMA CallInvInit == Init => CallInv
<1> SUFFICES ASSUME Init PROVE CallInv
  OBVIOUS
<1> USE PoolAssumption DEF Init, Actors
<1>1. PoolType /\ MutexType
  BY ZenonT(60) DEF PoolType, MutexType
<1> ClientType
  BY DEF ClientType
<1> EvictType
  BY ZenonT(60) DEF EvictType
<1> FinType
  BY ZenonT(60) DEF FinType
<1>2. CallType
  BY ZenonT(60) DEF CallType, Pcs, SharedPcs, CallKinds, AllOps
<1>3. \A t \in Actors : OwnCall(t)
  BY ZenonT(60) DEF OwnCall, RemotePcs, SharedPcs, UsePcs, UnclaimedPcs
<1>4. pc[Heartbeat] \in HeartbeatPcs
  BY ZenonT(60) DEF HeartbeatPcs
<1>5. QED
  BY ZenonT(60), <1>1, <1>2, <1>3, <1>4 DEF CallInv, TypeOK

LEMMA HeartbeatTypes ==
  ASSUME CallInv, SendHeartbeat
  PROVE  CallInv' /\ OthersKept(Heartbeat)
<1> USE DEF SendHeartbeat, HeartbeatCopy, CheckAlive, HeartbeatSleep, HeartbeatStop
<1>0. TypeOK /\ Heartbeat \in Actors /\ OwnCall(Heartbeat)
  BY ZenonT(60) DEF CallInv, Actors
<1>1. UNCHANGED <<poolVars, mutexVars, mtx, evictVars, finVars>>
  BY ZenonT(60)
<1>2. FinType'
  BY SMTT(60), <1>0 DEF TypeOK, PoolType, FinType, finVars
<1>3. ClientType'
  <2>1. ASSUME NEW r, NEW alive, CheckAlive(r, alive) PROVE ClientType'
    BY ZenonT(60), <1>0, <2>1 DEF TypeOK, ClientType
  <2>2. QED
    BY ZenonT(60), <1>0, <2>1 DEF TypeOK, ClientType, clientVars
<1>4. /\ UNCHANGED <<op, cl, claimed, resv, budget>>
      /\ OnlyAt(Heartbeat, pc) /\ OnlyAt(Heartbeat, rem)
  BY ZenonT(60) DEF OnlyAt, Goto, callVars
<1>5. /\ pc'[Heartbeat] \in {"hcheck", "hsleep", "stopped", "dget"}
      /\ rem'[Heartbeat] \in Remotes \cup {None}
      /\ pc'[Heartbeat] = "dget" => rem'[Heartbeat] \in Remotes
  BY SMTT(60), <1>0 DEF TypeOK, CallType, Goto, callVars
<1> HIDE DEF SendHeartbeat, HeartbeatCopy, CheckAlive, HeartbeatSleep, HeartbeatStop
<1>6. OnlyOwn(Heartbeat)
  BY ZenonT(60), <1>1, <1>4 DEF OnlyOwn, OnlyAt, evictVars
<1>7. CallValues(Heartbeat) /\ pc'[Heartbeat] \in Pcs
  BY SMTT(60), <1>0, <1>4, <1>5 DEF CallValues, TypeOK, CallType, Pcs, SharedPcs
<1>8. CallType' /\ OthersKept(Heartbeat)
  BY ZenonT(60), <1>0, <1>6, <1>7, OwnEntries
<1>9. OwnCall(Heartbeat)'
  <2>1. pc[Heartbeat] \in {"hcheck", "hsleep"}
    BY ZenonT(60)
    DEF SendHeartbeat, HeartbeatCopy, CheckAlive, HeartbeatSleep, HeartbeatStop
  <2>2. QED
    BY SMTT(60), <1>0, <1>4, <1>5, <2>1
    DEF OwnCall, RemotePcs, UnclaimedPcs, SharedPcs, UsePcs
<1>10. PoolType' /\ MutexType' /\ EvictType' /\ UNCHANGED setup
  BY ZenonT(60), <1>0, <1>1
  DEF TypeOK, PoolType, MutexType, EvictType, poolVars, mutexVars, evictVars, finVars
<1>11. \A u \in Actors : OwnCall(u)'
  BY ZenonT(60), <1>0, <1>8, <1>9, <1>10, OthersOwn
<1>12. pc'[Heartbeat] \in HeartbeatPcs
  BY ZenonT(60), <1>5 DEF HeartbeatPcs
<1>13. QED
  BY ZenonT(60), <1>2, <1>3, <1>8, <1>10, <1>11, <1>12 DEF CallInv, TypeOK

LEMMA FinalizeTypes == ASSUME CallInv, Finalize \/ UNCHANGED vars PROVE CallInv'
<1> USE DEF Finalize, DisconnectAll, FinalizeBegin, FinalizeMove, FinalizeClose, FinalizeEnd, vars
<1>0. TypeOK
  BY ZenonT(60) DEF CallInv
<1>1. UNCHANGED <<callVars, evictVars, setup, pc, mtx, snap>>
  BY ZenonT(60) DEF evictVars, finVars
<1>2. PoolType'
  BY ZenonT(60), <1>0 DEF TypeOK, PoolType, poolVars
<1>3. MutexType'
  BY ZenonT(60), <1>0 DEF TypeOK, MutexType, mutexVars
<1>4. ClientType'
  <2>1. ASSUME NEW c, FinalizeClose(c) PROVE ClientType'
    BY ZenonT(60), <1>0, <2>1 DEF TypeOK, ClientType, Close
  <2>2. QED
    BY ZenonT(60), <1>0, <2>1 DEF TypeOK, ClientType, clientVars
<1>5. FinType'
  <2>1. ASSUME FinalizeMove PROVE FinType'
    BY ZenonT(60), <1>0, <2>1 DEF TypeOK, FinType, PoolType, Pooled
  <2>2. QED
    BY ZenonT(60), <1>0, <2>1 DEF TypeOK, FinType, finVars, StopHeartbeat
<1> HIDE DEF Finalize, DisconnectAll, FinalizeBegin, FinalizeMove, FinalizeClose, FinalizeEnd, vars
<1>6. CallType' /\ EvictType'
  BY ZenonT(60), <1>0, <1>1 DEF TypeOK, CallType, EvictType, callVars, evictVars
<1>7. \A u \in Actors : OwnCall(u)'
  BY ZenonT(60), <1>1 DEF CallInv, OwnCall, PoolEnabled, callVars, evictVars
<1>8. QED
  BY ZenonT(60), <1>1, <1>2, <1>3, <1>4, <1>5, <1>6, <1>7 DEF CallInv, TypeOK

(* What every call of the API begins with *)
Begun(t, o, r) ==
  /\ pc[t] = "idle" /\ op'[t] = o /\ rem'[t] = r /\ r \in Remotes /\ budget'[t] \in Nat

LEMMA BeginFacts ==
  ASSUME CallType, FinType, NEW t \in Actors, NEW o, NEW r, Begin(t, o, r)
  PROVE  Begun(t, o, r) /\ o \in AllOps
  BY SMTT(60), PoolAssumption DEF Begin, Begun, CallType, FinType, Ops, CallKinds

LEMMA CallOwns ==
  ASSUME CallInv, NEW t \in Threads, Call(t)
  PROVE  CallValues(t) /\ pc'[t] \in Pcs /\ OwnCall(t)'
<1> DEFINE G == CallValues(t) /\ pc'[t] \in Pcs /\ OwnCall(t)'
<1>0. t \in Actors /\ CallType /\ FinType /\ PoolType /\ OwnCall(t) /\ PoolEnabled \in BOOLEAN
  BY ZenonT(60), PoolAssumption DEF Actors, CallInv, TypeOK, PoolEnabled, FinType
<1>1. ASSUME NEW r, NEW o,
             (Connect(t, r) /\ o = "connect") \/ AutoConnectTransfer(t, o, r)
      PROVE  G
  <2>1. Begun(t, o, r) /\ o \in {"connect", "transfer", "async"}
    BY ZenonT(60), <1>0, <1>1, BeginFacts DEF Connect, AutoConnectTransfer
  <2>2. pc'[t] = "conn" /\ UNCHANGED <<cl, claimed, resv>>
    BY ZenonT(60), <1>0, <1>1 DEF Connect, AutoConnectTransfer, Goto, CallType
  <2>3. QED
    BY SMTT(60), <1>0, <2>1, <2>2
    DEF Begun, CallValues, CallType, OwnCall, Pcs, RemotePcs, UnclaimedPcs, SharedPcs,
        UsePcs,
        CallKinds, AllOps
<1>2. ASSUME NEW r, Disconnect(t, r) PROVE G
  <2>1. Begun(t, "disconnect", r)
    BY ZenonT(60), <1>0, <1>2, BeginFacts DEF Disconnect
  <2>2. pc'[t] = "dget" /\ UNCHANGED <<cl, claimed, resv>>
    BY ZenonT(60), <1>0, <1>2 DEF Disconnect, Goto, CallType
  <2>3. QED
    BY SMTT(60), <1>0, <2>1, <2>2
    DEF Begun, CallValues, CallType, OwnCall, Pcs, RemotePcs, UnclaimedPcs, SharedPcs,
        UsePcs,
        CallKinds, AllOps
<1>3. ASSUME NEW r, NEW o, UseClient(t, o, r) PROVE G
  <2>1. Begun(t, o, r) /\ o \in AllOps
    BY ZenonT(60), <1>0, <1>3, BeginFacts DEF UseClient
  <2>2. /\ pc'[t] = "xfer" /\ cl'[t] = clients[r] /\ claimed'[t] = PoolEnabled
        /\ clients[r] # None /\ UNCHANGED <<resv, setup>>
    BY ZenonT(60), <1>0, <1>3 DEF UseClient, Goto, CallType, finVars
  <2>3. clients[r] \in Clients
    BY ZenonT(60), <1>0, <2>1, <2>2 DEF PoolType, Begun
  <2>4. QED
    BY SMTT(60), <1>0, <2>1, <2>2, <2>3
    DEF Begun, CallValues, CallType, OwnCall, Pcs, RemotePcs, UnclaimedPcs, SharedPcs,
        UsePcs,
        CallKinds, AllOps, PoolEnabled
<1>4. ASSUME NEW c \in Clients, Poll(t, c) PROVE G
  <2>1. Begun(t, "poll", remoteOf[c])
    BY ZenonT(60), <1>0, <1>4, BeginFacts DEF Poll
  <2>2. pc'[t] = "poll" /\ cl'[t] = c /\ UNCHANGED <<claimed, resv>>
    BY ZenonT(60), <1>0, <1>4 DEF Poll, Goto, CallType
  <2>3. QED
    BY SMTT(60), <1>0, <2>1, <2>2
    DEF Begun, CallValues, CallType, OwnCall, Pcs, RemotePcs, UnclaimedPcs, SharedPcs,
        UsePcs,
        CallKinds, AllOps
<1> HIDE DEF G
<1>5. G
  BY ZenonT(60), <1>1, <1>2, <1>3, <1>4 DEF Call
<1>6. QED
  BY ZenonT(60), <1>5 DEF G

LEMMA CallTypes == ASSUME CallInv, NEW t \in Threads, Call(t) PROVE CallInv'
<1> USE DEF Call, Connect, Disconnect, UseClient, AutoConnectTransfer, Poll
<1>0. t \in Actors /\ TypeOK /\ OwnCall(t)
  BY ZenonT(60) DEF Actors, CallInv
<1>1. PoolType'
  BY ZenonT(60), <1>0, TouchType DEF TypeOK, PoolType, poolVars
<1>2. MutexType'
  BY ZenonT(60), <1>0 DEF TypeOK, MutexType, mutexVars
<1>3. ClientType'
  BY SMTT(60), <1>0 DEF TypeOK, ClientType, PoolType, clientVars
<1>4. EvictType' /\ FinType'
  BY ZenonT(60), <1>0 DEF TypeOK, EvictType, FinType, evictVars, finVars
<1>5. OnlyOwn(t) /\ UNCHANGED setup
  BY ZenonT(60) DEF OnlyOwn, OnlyAt, Begin, Goto, evictVars, finVars
<1>7. CallValues(t) /\ pc'[t] \in Pcs /\ OwnCall(t)'
  BY ZenonT(60), CallOwns
<1> HIDE DEF Call, Connect, Disconnect, UseClient, AutoConnectTransfer, Poll
<1>8. CallType' /\ OthersKept(t)
  BY ZenonT(60), <1>0, <1>5, <1>7, OwnEntries
<1>9. \A u \in Actors : OwnCall(u)'
  BY ZenonT(60), <1>0, <1>5, <1>7, <1>8, OthersOwn
<1>10. pc'[Heartbeat] \in HeartbeatPcs
  BY ZenonT(60), <1>8, PoolAssumption DEF OthersKept, CallInv, Actors
<1>11. QED
  BY ZenonT(60), <1>1, <1>2, <1>3, <1>4, <1>8, <1>9, <1>10 DEF CallInv, TypeOK

LEMMA CallInvStep == CallInv /\ [Next]_vars => CallInv'
  BY ZenonT(60), CallTypes, StepTypes, HeartbeatTypes, FinalizeTypes DEF Next, Finished

(* A step of t that puts no client anywhere *)
PlaceKept(t) ==
  /\ UNCHANGED remoteOf /\ pc'[t] \notin {"insert", "evclose"}
  /\ \A r \in Remotes : clients'[r] = clients[r] \/ clients'[r] = None
  /\ \A u \in Actors \ {t} :
       /\ pc'[u] = pc[u] /\ cl'[u] = cl[u] /\ rem'[u] = rem[u] /\ closing'[u] = closing[u]

(* The clients of the calls that make or evict one *)
LEMMA PlaceTypes ==
  ASSUME CallInv
  PROVE  /\ None \notin Clients /\ None \notin Remotes
         /\ clients \in [Remotes -> Clients \cup {None}]
         /\ remoteOf \in [Clients -> Remotes \cup {None}]
         /\ \A u \in Actors : pc[u] = "insert" => cl[u] \in Clients /\ rem[u] \in Remotes
         /\ \A u \in Actors : pc[u] = "evclose" => closing[u] \in Clients
<1>1. "insert" \in RemotePcs
  BY ZenonT(60) DEF RemotePcs, SharedPcs
<1>2. QED
  BY ZenonT(60), <1>1, PoolAssumption DEF CallInv, OwnCall, TypeOK, PoolType, ClientType

LEMMA PlaceKeptStep ==
  ASSUME CallInv, PlaceInv, NEW t \in Actors, PlaceKept(t) PROVE PlaceInv'
<1>1. \A r \in Remotes : clients'[r] # None => remoteOf'[clients'[r]] = r
  BY SMTT(60) DEF PlaceInv, PlaceKept
<1>2. ASSUME NEW u \in Actors, pc'[u] = "insert"
      PROVE  /\ remoteOf'[cl'[u]] = rem'[u] /\ \A r \in Remotes : clients'[r] # cl'[u]
             /\ \A a \in Actors : pc'[a] = "insert" /\ cl'[a] = cl'[u] => a = u
             /\ \A a \in Actors : pc'[a] = "evclose" => closing'[a] # cl'[u]
  <2>1. u # t /\ pc[u] = "insert" /\ cl'[u] = cl[u] /\ rem'[u] = rem[u] /\ cl[u] # None
    BY ZenonT(60), <1>2, PlaceTypes DEF PlaceKept
  <2>2. QED
    BY SMTT(60), <2>1 DEF PlaceInv, PlaceKept
<1>3. ASSUME NEW u \in Actors, pc'[u] = "evclose"
      PROVE  /\ remoteOf'[closing'[u]] # None
             /\ \A r \in Remotes : clients'[r] # closing'[u]
  <2>1. u # t /\ pc[u] = "evclose" /\ closing'[u] = closing[u] /\ closing[u] # None
    BY ZenonT(60), <1>3, PlaceTypes DEF PlaceKept
  <2>2. QED
    BY SMTT(60), <2>1 DEF PlaceInv, PlaceKept
<1>4. QED
  BY ZenonT(60), <1>1, <1>2, <1>3 DEF PlaceInv

MovesClient(t) == CreateClient(t) \/ InsertClient(t) \/ EvictErase(t)

LEMMA StepPlaceKept ==
  ASSUME CallInv, NEW t \in Actors, Step(t), ~MovesClient(t)
  PROVE  PlaceKept(t)
<1> DEFINE Rest == UNCHANGED <<clients, remoteOf>> /\ pc'[t] \notin {"insert", "evclose"}
<1>0. pc \in [Actors -> Pcs] /\ OthersKept(t)
  BY ZenonT(60), StepOthers DEF CallInv, TypeOK, CallType
<1>1. ASSUME EnterShared(t) \/ ReserveGetMutex(t) \/ AdmitConnected(t) \/
             AdmitUnlimited(t)
      PROVE  Rest
  BY ZenonT(60), <1>1, <1>0 DEF EnterShared, ReserveGetMutex, AdmitConnected,
      AdmitUnlimited, Goto, poolVars, clientVars
<1>2. ASSUME AdmitReserve(t) \/ AdmitEvict(t) \/ AdmitExhausted(t) \/
             EvictGetMutex(t)
      PROVE  Rest
  BY ZenonT(60), <1>2, <1>0 DEF AdmitReserve, AdmitEvict, AdmitExhausted,
      EvictGetMutex, Goto, poolVars, clientVars
<1>3. ASSUME EvictSkip(t) \/ EvictClose(t) \/ FinishEvict(t) \/ CreateFails(t)
      PROVE  Rest
  BY ZenonT(60), <1>3, <1>0 DEF EvictSkip, EvictClose, FinishEvict, CreateFails,
      Close, Goto, poolVars, clientVars
<1>4. ASSUME ConnectFails(t) \/ ReleaseChannelSlot(t) \/ TransferBegin(t) \/
             TransferOk(t)
      PROVE  Rest
  BY ZenonT(60), <1>4, <1>0 DEF ConnectFails, ReleaseChannelSlot, TransferBegin,
      TransferOk, Close, Goto, poolVars, clientVars
<1>5. ASSUME TransferFails(t) \/ PollDone(t) \/ PollFails(t) \/
             AutoDisconnect(t)
      PROVE  Rest
  BY ZenonT(60), <1>5, <1>0 DEF TransferFails, PollDone, PollFails,
      AutoDisconnect, AfterFailure, Goto, poolVars, clientVars
<1>6. ASSUME ReleaseUse(t) \/ DestroyGetMutex(t) \/ DestroyClose(t) \/
             DestroyClientMutex(t)
      PROVE  Rest
  BY ZenonT(60), <1>6, <1>0 DEF ReleaseUse, DestroyGetMutex, DestroyClose,
      DestroyClientMutex, Close, Goto, poolVars, clientVars
<1>7. ASSUME DestroyUnlock(t) PROVE Rest
  BY ZenonT(60), <1>7, <1>0 DEF DestroyUnlock, Goto, poolVars, clientVars
<1>8. ASSUME DestroyErase(t) PROVE PlaceKept(t)
  <2>1. \A r \in Remotes : clients'[r] = clients[r] \/ clients'[r] = None
    BY ZenonT(60), <1>8 DEF DestroyErase, CallInv, TypeOK, PoolType
  <2>2. UNCHANGED remoteOf /\ pc'[t] \notin {"insert", "evclose"}
    BY ZenonT(60), <1>0, <1>8 DEF DestroyErase, Goto, clientVars
  <2>3. QED
    BY ZenonT(60), <1>0, <2>1, <2>2 DEF PlaceKept, OthersKept
<1> HIDE DEF Rest
<1>9. Rest \/ DestroyErase(t)
  BY ZenonT(60), <1>1, <1>2, <1>3, <1>4, <1>5,
     <1>6, <1>7
  DEF Step, Admit, Evict, Create, Transfer, DestroyClient, MovesClient
<1>10. QED
  BY ZenonT(60), <1>0, <1>8, <1>9 DEF PlaceKept, OthersKept, Rest

LEMMA StepPlaces == ASSUME CallInv, PlaceInv, NEW t \in Actors, Step(t) PROVE PlaceInv'
<1>0. /\ pc \in [Actors -> Pcs] /\ cl \in [Actors -> Clients \cup {None}] /\ OwnCall(t)
      /\ closing \in [Actors -> Clients \cup {None}]
      /\ \A u \in Actors \ {t} :
           /\ pc'[u] = pc[u] /\ cl'[u] = cl[u] /\ rem'[u] = rem[u] /\ closing'[u] = closing[u]
  BY ZenonT(60), StepOthers DEF CallInv, TypeOK, CallType, EvictType, OthersKept
<1>1. ASSUME CreateClient(t) PROVE PlaceInv'
  <2> DEFINE c == CHOOSE c \in FreshClients : TRUE
  <2>1. c \in Clients /\ remoteOf[c] = None
    BY ZenonT(60), <1>1 DEF CreateClient, FreshClients
  <2>2. /\ remoteOf' = [remoteOf EXCEPT ![c] = rem[t]] /\ cl'[t] = c /\ pc'[t] = "insert"
        /\ UNCHANGED <<clients, rem, closing>>
    BY ZenonT(60), <1>0, <1>1 DEF CreateClient, Goto, poolVars, evictVars
  <2>3. rem[t] \in Remotes
    BY ZenonT(60), <1>0, <1>1 DEF CreateClient, OwnCall, RemotePcs, SharedPcs
  <2> HIDE DEF c
  <2>4. \A r \in Remotes : clients[r] # None => clients[r] \in Clients /\ clients[r] # c
    BY ZenonT(60), <2>1, PlaceTypes DEF PlaceInv
  <2>5. \A u \in Actors : pc[u] = "insert" => cl[u] \in Clients /\ cl[u] # c
    BY ZenonT(60), <2>1, PlaceTypes DEF PlaceInv
  <2>6. \A u \in Actors : pc[u] = "evclose" => closing[u] \in Clients /\ closing[u] # c
    BY ZenonT(60), <2>1, PlaceTypes DEF PlaceInv
  <2>7. \A d \in Clients \ {c} : remoteOf'[d] = remoteOf[d]
    BY ZenonT(60), <2>2, PlaceTypes
  <2>8. remoteOf'[c] = rem[t]
    BY ZenonT(60), <2>1, <2>2, PlaceTypes
  <2>9. \A r \in Remotes : clients'[r] # None => remoteOf'[clients'[r]] = r
    BY ZenonT(60), <2>2, <2>4, <2>7 DEF PlaceInv
  <2>10. ASSUME NEW u \in Actors, pc'[u] = "insert"
         PROVE  /\ remoteOf'[cl'[u]] = rem'[u] /\ \A r \in Remotes : clients'[r] # cl'[u]
                /\ \A a \in Actors : pc'[a] = "insert" /\ cl'[a] = cl'[u] => a = u
                /\ \A a \in Actors : pc'[a] = "evclose" => closing'[a] # cl'[u]
    <3>1. CASE u = t
      BY SMTT(60), <1>0, <2>1, <2>2, <2>4, <2>5, <2>6, <2>8, <3>1, PlaceTypes
    <3>2. CASE u # t
      <4>1. pc[u] = "insert" /\ cl'[u] = cl[u] /\ cl[u] \in Clients \ {c} /\ rem'[u] = rem[u]
        BY ZenonT(60), <1>0, <2>5, <2>10, <3>2
      <4>2. QED
        BY SMTT(60), <1>0, <2>2, <2>7, <4>1 DEF PlaceInv
    <3>3. QED
      BY ZenonT(60), <3>1, <3>2
  <2>11. ASSUME NEW u \in Actors, pc'[u] = "evclose"
         PROVE  /\ remoteOf'[closing'[u]] # None
                /\ \A r \in Remotes : clients'[r] # closing'[u]
    <3>1. u # t /\ pc[u] = "evclose"
      BY ZenonT(60), <1>0, <2>2, <2>11
    <3>2. QED
      BY SMTT(60), <2>2, <2>6, <2>7, <3>1 DEF PlaceInv
  <2>12. QED
    BY ZenonT(60), <2>9, <2>10, <2>11 DEF PlaceInv
<1>2. ASSUME InsertClient(t) PROVE PlaceInv'
  <2>1. /\ pc[t] = "insert" /\ rem[t] \in Remotes /\ remoteOf[cl[t]] = rem[t]
        /\ \A u \in Actors : pc[u] = "evclose" => closing[u] # cl[t]
    BY ZenonT(60), <1>2, PlaceTypes DEF InsertClient, PlaceInv
  <2>2. /\ pc'[t] \notin {"insert", "evclose"} /\ UNCHANGED <<remoteOf, rem, closing>>
        /\ \A r \in Remotes : \/ clients'[r] = clients[r]
                              \/ r = rem[t] /\ clients'[r] = cl[t]
    BY ZenonT(60), <1>0, <1>2, PlaceTypes DEF InsertClient, Goto, evictVars
  <2>3. \A r \in Remotes : clients'[r] # None => remoteOf'[clients'[r]] = r
    BY ZenonT(60), <2>1, <2>2 DEF PlaceInv
  <2>4. ASSUME NEW u \in Actors, pc'[u] = "insert"
        PROVE  /\ remoteOf'[cl'[u]] = rem'[u] /\ \A r \in Remotes : clients'[r] # cl'[u]
               /\ \A a \in Actors : pc'[a] = "insert" /\ cl'[a] = cl'[u] => a = u
               /\ \A a \in Actors : pc'[a] = "evclose" => closing'[a] # cl'[u]
    <3>1. u # t /\ pc[u] = "insert" /\ cl'[u] = cl[u]
      BY ZenonT(60), <1>0, <2>2, <2>4
    <3>2. cl[u] # cl[t]
      BY ZenonT(60), <2>1, <3>1 DEF PlaceInv
    <3>3. QED
      BY SMTT(60), <1>0, <2>2, <3>1, <3>2 DEF PlaceInv
  <2>5. ASSUME NEW u \in Actors, pc'[u] = "evclose"
        PROVE  /\ remoteOf'[closing'[u]] # None
               /\ \A r \in Remotes : clients'[r] # closing'[u]
    <3>1. u # t /\ pc[u] = "evclose"
      BY ZenonT(60), <1>0, <2>2, <2>5
    <3>2. QED
      BY ZenonT(60), <2>1, <2>2, <3>1 DEF PlaceInv
  <2>6. QED
    BY ZenonT(60), <2>3, <2>4, <2>5 DEF PlaceInv
<1>3. ASSUME EvictErase(t) PROVE PlaceInv'
  <2> DEFINE c == clients[victim[t]]
  <2>1. victim[t] \in Remotes /\ c # None /\ c \in Clients
    BY ZenonT(60), <1>0, <1>3, PlaceTypes DEF EvictErase, OwnCall
  <2>2. /\ pc'[t] = "evclose" /\ UNCHANGED <<remoteOf, rem, cl>> /\ closing'[t] = c
        /\ clients' = [clients EXCEPT ![victim[t]] = None]
    BY ZenonT(60), <1>0, <1>3 DEF EvictErase, Goto, clientVars, callVars
  <2> HIDE DEF c
  <2>3. \A r \in Remotes : \/ r # victim[t] /\ clients'[r] = clients[r]
                           \/ r = victim[t] /\ clients'[r] = None
    BY ZenonT(60), <2>2, PlaceTypes
  <2>4. remoteOf[c] = victim[t] /\ \A r \in Remotes : clients[r] = c => r = victim[t]
    BY ZenonT(60), <2>1 DEF PlaceInv, c
  <2>5. \A r \in Remotes : clients'[r] # None => remoteOf'[clients'[r]] = r
    BY ZenonT(60), <2>2, <2>3 DEF PlaceInv
  <2>6. ASSUME NEW u \in Actors, pc'[u] = "insert"
        PROVE  /\ remoteOf'[cl'[u]] = rem'[u] /\ \A r \in Remotes : clients'[r] # cl'[u]
               /\ \A a \in Actors : pc'[a] = "insert" /\ cl'[a] = cl'[u] => a = u
               /\ \A a \in Actors : pc'[a] = "evclose" => closing'[a] # cl'[u]
    <3>1. u # t /\ pc[u] = "insert" /\ cl[u] # None
      BY ZenonT(60), <1>0, <2>2, <2>6, PlaceTypes
    <3>2. cl[u] # c
      BY ZenonT(60), <2>1, <3>1 DEF PlaceInv, c
    <3>3. \A a \in Actors : pc'[a] = "insert" => pc[a] = "insert"
      BY ZenonT(60), <1>0, <2>2
    <3>4. QED
      BY SMTT(60), <1>0, <2>2, <2>3, <3>1, <3>2, <3>3 DEF PlaceInv
  <2>7. ASSUME NEW u \in Actors, pc'[u] = "evclose"
        PROVE  /\ remoteOf'[closing'[u]] # None
               /\ \A r \in Remotes : clients'[r] # closing'[u]
    <3>1. CASE u = t
      BY SMTT(60), <2>1, <2>2, <2>3, <2>4, <3>1, PlaceTypes
    <3>2. CASE u # t
      <4>1. pc[u] = "evclose" /\ closing'[u] = closing[u] /\ closing[u] # None
        BY ZenonT(60), <1>0, <2>7, <3>2, PlaceTypes
      <4>2. QED
        BY SMTT(60), <2>2, <2>3, <4>1 DEF PlaceInv
    <3>3. QED
      BY ZenonT(60), <3>1, <3>2
  <2>8. QED
    BY ZenonT(60), <2>5, <2>6, <2>7 DEF PlaceInv
<1>4. CASE ~MovesClient(t)
  BY ZenonT(60), <1>4, StepPlaceKept, PlaceKeptStep
<1>5. QED
  BY ZenonT(60), <1>1, <1>2, <1>3, <1>4 DEF MovesClient

(* What a step of a call may do to the pool with regard to Finalize *)
Moves(t) ==
  /\ UNCHANGED finalized
  /\ pc'[t] \in SharedPcs => pc[t] \in SharedPcs \/ ~ExclLocked
  /\ pc'[t] = "insert" => ~finalized
  /\ \A r \in Remotes : clients'[r] # None => clients[r] # None \/ pc[t] = "insert"

LEMMA StepMoves == ASSUME CallInv, NEW t \in Actors, Step(t) PROVE Moves(t)
<1>0. pc \in [Actors -> Pcs] /\ clients \in [Remotes -> Clients \cup {None}]
  BY ZenonT(60) DEF CallInv, TypeOK, CallType, PoolType
<1>1. ASSUME EnterShared(t) \/ ReserveGetMutex(t) \/ AdmitConnected(t) \/
             AdmitUnlimited(t)
      PROVE  Moves(t)
  BY ZenonT(60), <1>1, <1>0 DEF EnterShared, ReserveGetMutex, AdmitConnected,
      AdmitUnlimited, Moves, SharedPcs, Goto, poolVars
<1>2. ASSUME AdmitReserve(t) \/ AdmitEvict(t) \/ AdmitExhausted(t) \/
             EvictGetMutex(t)
      PROVE  Moves(t)
  BY ZenonT(60), <1>2, <1>0 DEF AdmitReserve, AdmitEvict, AdmitExhausted,
      EvictGetMutex, Moves, SharedPcs, Goto, poolVars
<1>3. ASSUME EvictSkip(t) \/ EvictClose(t) \/ FinishEvict(t) \/ CreateFails(t)
      PROVE  Moves(t)
  BY ZenonT(60), <1>3, <1>0 DEF EvictSkip, EvictClose, FinishEvict, CreateFails,
      Moves, SharedPcs, Goto, poolVars
<1>4. ASSUME CreateClient(t) \/ ConnectFails(t) \/ ReleaseChannelSlot(t) \/
             TransferBegin(t)
      PROVE  Moves(t)
  BY ZenonT(60), <1>4, <1>0 DEF CreateClient, ConnectFails, ReleaseChannelSlot,
      TransferBegin, MayCreate, Moves, SharedPcs, Goto, poolVars
<1>5. ASSUME TransferOk(t) \/ TransferFails(t) \/ PollDone(t) \/ PollFails(t)
      PROVE  Moves(t)
  BY ZenonT(60), <1>5, <1>0 DEF TransferOk, TransferFails, PollDone, PollFails,
      AfterFailure, Moves, SharedPcs, Goto, poolVars
<1>6. ASSUME AutoDisconnect(t) \/ ReleaseUse(t) \/ DestroyGetMutex(t) \/
             DestroyClose(t)
      PROVE  Moves(t)
  BY ZenonT(60), <1>6, <1>0 DEF AutoDisconnect, ReleaseUse, DestroyGetMutex,
      DestroyClose, Moves, SharedPcs, Goto, poolVars
<1>7. ASSUME DestroyClientMutex(t) \/ DestroyUnlock(t)
      PROVE  Moves(t)
  BY ZenonT(60), <1>7, <1>0 DEF DestroyClientMutex, DestroyUnlock, Moves,
      SharedPcs, Goto, poolVars
<1>8. ASSUME EvictErase(t) PROVE Moves(t)
  BY ZenonT(60), <1>8, <1>0 DEF EvictErase, Moves, SharedPcs, Goto
<1>9. ASSUME DestroyErase(t) PROVE Moves(t)
  BY ZenonT(60), <1>9, <1>0 DEF DestroyErase, Moves, SharedPcs, Goto
<1>10. ASSUME InsertClient(t) PROVE Moves(t)
  BY ZenonT(60), <1>10, <1>0 DEF InsertClient, Moves, SharedPcs, Goto
<1> QED
  BY ZenonT(60), <1>1, <1>2, <1>3, <1>4, <1>5, <1>6, <1>7, <1>8, <1>9,
     <1>10
  DEF Step, Admit, Evict, Create, Transfer, DestroyClient

(* What the begin of a call does *)
CallBegins(t) ==
  /\ UNCHANGED <<clients, creating, finalized, inited, fpc, setup, remoteOf, inflight, closing>>
  /\ pc[t] = "idle" /\ pc'[t] \in {"conn", "xfer", "dget", "poll"}
  /\ \A u \in Actors \ {t} :
       /\ pc'[u] = pc[u] /\ cl'[u] = cl[u] /\ rem'[u] = rem[u] /\ claimed'[u] = claimed[u]

LEMMA CallMoves == ASSUME CallInv, NEW t \in Threads, Call(t) PROVE CallBegins(t)
<1> USE DEF Call, Connect, Disconnect, UseClient, AutoConnectTransfer, Poll
<1>0. t \in Actors /\ CallType
  BY ZenonT(60) DEF CallInv, TypeOK, Actors
<1>1. UNCHANGED <<clients, creating, finalized, inited, fpc, setup, remoteOf, inflight, closing>>
  BY ZenonT(60) DEF poolVars, clientVars, evictVars, finVars
<1>2. pc[t] = "idle" /\ pc'[t] \in {"conn", "xfer", "dget", "poll"}
  BY ZenonT(60), <1>0 DEF Begin, Goto, CallType
<1>3. OnlyAt(t, pc) /\ OnlyAt(t, cl) /\ OnlyAt(t, rem) /\ OnlyAt(t, claimed)
  BY ZenonT(60) DEF OnlyAt, Begin, Goto
<1> HIDE DEF Call, Connect, Disconnect, UseClient, AutoConnectTransfer, Poll
<1>4. QED
  BY ZenonT(60), <1>0, <1>1, <1>2, <1>3 DEF OnlyAt, CallBegins, CallType

FinInv == FinalizeInv /\ NoClientAfterFinalize

LEMMA FinInvStep == CallInv /\ FinInv /\ [Next]_vars => FinInv'
<1> SUFFICES ASSUME CallInv, FinInv, [Next]_vars PROVE FinInv'
  OBVIOUS
<1> USE DEF FinInv, FinalizeInv, NoClientAfterFinalize, Pooled, ExclLocked
<1>1. ASSUME NEW t \in Threads, Call(t) PROVE FinInv'
  <2>1. CallBegins(t) /\ t \in Actors
    BY ZenonT(60), <1>1, CallMoves DEF Actors
  <2>2. {"conn", "xfer", "dget", "poll"} \cap SharedPcs = {} /\ "insert" \in SharedPcs
    BY ZenonT(60) DEF SharedPcs
  <2>3. \A u \in Actors : /\ pc'[u] \in SharedPcs => pc[u] \in SharedPcs
                          /\ pc'[u] = "insert" => pc[u] = "insert"
    BY ZenonT(60), <2>1, <2>2 DEF CallBegins
  <2>4. QED
    BY ZenonT(60), <2>1, <2>3 DEF CallBegins
<1>2. ASSUME NEW t \in Actors, Step(t) PROVE FinInv'
  <2>1. Moves(t) /\ UNCHANGED <<fpc, inited>> /\ \A u \in Actors \ {t} : pc'[u] = pc[u]
    BY ZenonT(60), <1>2, StepMoves, StepFins, StepOthers DEF OthersKept, finVars
  <2>2. QED
    BY SMTT(60), <2>1 DEF Moves, SharedPcs
<1>3. ASSUME SendHeartbeat PROVE FinInv'
  <2>1. UNCHANGED <<finalized, inited, fpc, clients>>
    BY ZenonT(60), <1>3
    DEF SendHeartbeat, HeartbeatCopy, CheckAlive, HeartbeatSleep, HeartbeatStop,
        poolVars, finVars
  <2>2. \A u \in Actors \ {Heartbeat} : pc'[u] = pc[u]
    BY ZenonT(60), <1>3, HeartbeatTypes DEF OthersKept
  <2>3. pc'[Heartbeat] \notin SharedPcs /\ pc'[Heartbeat] # "insert"
    BY ZenonT(60), <1>3, HeartbeatTypes DEF CallInv, HeartbeatPcs, SharedPcs
  <2>4. \A u \in Actors : /\ pc'[u] \in SharedPcs => pc[u] \in SharedPcs
                          /\ pc'[u] = "insert" => pc[u] = "insert"
    BY ZenonT(60), <2>2, <2>3
  <2>5. QED
    BY ZenonT(60), <2>1, <2>4
<1>10. ASSUME DisconnectAll PROVE FinInv'
  BY ZenonT(60), <1>10 DEF DisconnectAll, poolVars
<1>4. ASSUME FinalizeBegin PROVE FinInv'
  BY ZenonT(60), <1>4, PoolAssumption
  DEF FinalizeBegin, CallInv, HeartbeatPcs, Actors, poolVars, SharedPcs
<1>5. ASSUME FinalizeMove PROVE FinInv'
  <2>1. "insert" \in SharedPcs
    BY ZenonT(60) DEF SharedPcs
  <2>2. QED
    BY ZenonT(60), <1>5, <2>1 DEF FinalizeMove
<1>6. ASSUME NEW c \in Clients, FinalizeClose(c) PROVE FinInv'
  BY ZenonT(60), <1>6 DEF FinalizeClose, poolVars
<1>7. ASSUME FinalizeEnd PROVE FinInv'
  BY ZenonT(60), <1>7 DEF FinalizeEnd
<1>8. ASSUME UNCHANGED vars PROVE FinInv'
  BY ZenonT(60), <1>8 DEF vars, poolVars, finVars
<1> HIDE DEF FinInv
<1>9. QED
  BY ZenonT(60), <1>1, <1>2, <1>3, <1>4, <1>5, <1>6, <1>7, <1>8, <1>10
  DEF Next, Finalize, Finished

LEMMA PlaceInvStep == CallInv /\ PlaceInv /\ [Next]_vars => PlaceInv'
<1> SUFFICES ASSUME CallInv, PlaceInv, [Next]_vars PROVE PlaceInv'
  OBVIOUS
<1>1. ASSUME NEW t \in Threads, Call(t) PROVE PlaceInv'
  <2>1. t \in Actors /\ PlaceKept(t)
    BY ZenonT(60), <1>1, CallMoves DEF CallBegins, PlaceKept, Actors
  <2>2. QED
    BY ZenonT(60), <2>1, PlaceKeptStep
<1>2. ASSUME NEW t \in Actors, Step(t) PROVE PlaceInv'
  BY ZenonT(60), <1>2, StepPlaces
<1>3. ASSUME SendHeartbeat PROVE PlaceInv'
  <2>1. UNCHANGED <<clients, remoteOf>>
    BY ZenonT(60), <1>3
    DEF SendHeartbeat, HeartbeatCopy, CheckAlive, HeartbeatSleep, HeartbeatStop,
        poolVars, clientVars
  <2>2. pc'[Heartbeat] \notin {"insert", "evclose"} /\ Heartbeat \in Actors
    BY ZenonT(60), <1>3, HeartbeatTypes DEF CallInv, HeartbeatPcs, Actors
  <2>3. PlaceKept(Heartbeat)
    BY ZenonT(60), <1>3, <2>1, <2>2, HeartbeatTypes DEF PlaceKept, OthersKept
  <2>4. QED
    BY ZenonT(60), <2>2, <2>3, PlaceKeptStep
<1>4. ASSUME Finalize \/ UNCHANGED vars PROVE PlaceInv'
  <2>1. /\ UNCHANGED <<remoteOf, closing, cl, rem, pc>>
        /\ \A r \in Remotes : clients'[r] = clients[r] \/ clients'[r] = None
    BY ZenonT(60), <1>4
    DEF Finalize, DisconnectAll, FinalizeBegin, FinalizeMove, FinalizeClose, FinalizeEnd,
        Close, vars, poolVars,
        clientVars, callVars, evictVars
  <2>2. Heartbeat \in Actors /\ pc[Heartbeat] \notin {"insert", "evclose"}
    BY ZenonT(60) DEF CallInv, HeartbeatPcs, Actors
  <2>3. PlaceKept(Heartbeat)
    BY ZenonT(60), <2>1, <2>2 DEF PlaceKept
  <2>4. QED
    BY ZenonT(60), <2>2, <2>3, PlaceKeptStep
<1>5. QED
  BY ZenonT(60), <1>1, <1>2, <1>3, <1>4 DEF Next, Finished

(* The inductive invariant of the calls *)
PlacesInv == CallInv /\ FinInv /\ PlaceInv

LEMMA PlacesAlways == Init /\ [][Next]_vars => []PlacesInv
<1>1. Init => PlacesInv
  <2>1. ASSUME Init PROVE FinInv /\ PlaceInv
    <3>1. \A t \in Actors : pc[t] \in {"idle", "hsleep", "stopped"}
      BY ZenonT(60), <2>1 DEF Init
    <3>2. QED
      BY ZenonT(60), <2>1, <3>1
      DEF Init, PlaceInv, FinInv, FinalizeInv, NoClientAfterFinalize, Pooled, ExclLocked,
          SharedPcs
  <2>2. QED
    BY ZenonT(60), <2>1, CallInvInit DEF PlacesInv
<1>2. PlacesInv /\ [Next]_vars => PlacesInv'
  BY ZenonT(60), CallInvStep, FinInvStep, PlaceInvStep DEF PlacesInv
<1>3. QED
  BY <1>1, <1>2, PTL

(* Every call, client and mutex of the pool stays in its type, whichever   *)
(* step of ClientManager runs.                                             *)
THEOREM TypeCorrect == Spec => []TypeOK
<1>1. PlacesInv => TypeOK
  BY ZenonT(60) DEF PlacesInv, CallInv
<1>2. QED
  BY <1>1, PlacesAlways, PTL DEF Spec

(* Once HixlEngine::Finalize has emptied the pool nothing enters it again: *)
(* it takes the engine's mutex_ exclusively, so no Connect is between its  *)
(* look at finalized_ and InsertClient at that moment, and a call that     *)
(* comes later finds finalized_ set.  A Disconnect() that finalized the    *)
(* manager before, without mutex_, does not change that.                   *)
THEOREM FinalizedStaysEmpty == Spec => []NoClientAfterFinalize
<1>1. PlacesInv => NoClientAfterFinalize
  BY ZenonT(60) DEF PlacesInv, FinInv
<1>2. QED
  BY <1>1, PlacesAlways, PTL DEF Spec

============================================================================
