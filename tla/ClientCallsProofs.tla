------------------------- MODULE ClientCallsProofs -------------------------
(***************************************************************************)
(* What a step of a ClientManager call does to the state: the lemmas that  *)
(* the invariant of the calls, CallInv, and the theorems of                *)
(* ClientClaimsProofs rest on.  Each goes through the actions of Step; an   *)
(* action is cited with the definitions that its conjunct needs.           *)
(***************************************************************************)
EXTENDS ClientManager, TLAPS

(* pcs in which a call has the name of its remote *)
RemotePcs == SharedPcs \cup {"conn", "xfer", "xrun", "poll", "adget", "dget", "dlock",
                             "dclose", "dmutex", "dunlock"}

(* pcs in which a call has made no claim yet *)
UnclaimedPcs == SharedPcs \cup {"idle", "conn"}

(* where the heartbeat thread can be *)
HeartbeatPcs == {"hsleep", "hcheck", "stopped", "dget", "dlock", "dclose", "dmutex",
                 "dunlock", "release"}

UsePcs == {"xfer", "xrun"}

(* What an actor knows about its own call at each of its pcs *)
OwnCall(t) ==
  /\ pc[t] \in RemotePcs => rem[t] \in Remotes
  /\ pc[t] \in UsePcs \cup {"poll", "insert"} => cl[t] \in Clients
  /\ pc[t] \in UnclaimedPcs => ~claimed[t]
  /\ claimed[t] => cl[t] \in Clients
  /\ pc[t] \in SharedPcs \cup {"conn"} => op[t] \in {"connect", "transfer", "async"}
  /\ PoolEnabled /\ pc[t] \in UsePcs => claimed[t]
  /\ pc[t] \in {"evget", "evlock", "evclose"} => PoolEnabled
  /\ pc[t] = "evlock" => victim[t] \in Remotes
  /\ pc[t] \in {"evclose", "dclose"} => closing[t] \in Clients

CallInv ==
  /\ TypeOK
  /\ \A t \in Actors : OwnCall(t)
  /\ pc[Heartbeat] \in HeartbeatPcs

(* Where a client is: in the pool under the name of its remote, in the     *)
(* hands of the call that made it, or with the call that evicts it.        *)
PlaceInv ==
  /\ \A r \in Remotes : clients[r] # None => remoteOf[clients[r]] = r
  /\ \A t \in Actors : pc[t] = "insert" =>
       /\ remoteOf[cl[t]] = rem[t]
       /\ \A r \in Remotes : clients[r] # cl[t]
       /\ \A u \in Actors : pc[u] = "insert" /\ cl[u] = cl[t] => u = t
       /\ \A u \in Actors : pc[u] = "evclose" => closing[u] # cl[t]
  /\ \A t \in Actors : pc[t] = "evclose" =>
       /\ remoteOf[closing[t]] # None
       /\ \A r \in Remotes : clients[r] # closing[t]

(* HixlEngine::Finalize has the engine for itself until it is through, and *)
(* has finalized the manager then; Disconnect() has not                    *)
FinalizeInv ==
  /\ ~inited /\ fpc \in {"close", "done"} => finalized
  /\ fpc = "done" => ~inited
  /\ fpc \in {"none", "off"} => inited
  /\ ExclLocked => \A t \in Actors : pc[t] \notin SharedPcs

(* What the calls do to the mutexes of the remotes *)
LEMMA MutexSteps ==
  ASSUME MutexType, NEW t \in Actors
  PROVE  /\ \A r \in Remotes : GetClientMutex(t, r) => MutexType'
         /\ LockMutex(t) /\ UNCHANGED <<mutexMap, mtx>> => MutexType'
         /\ UnlockMutex(t) /\ UNCHANGED mutexMap => MutexType'
<1> USE DEF MutexType
<1>1. FreeMutexes \subseteq Mutexes
  BY ZenonT(60) DEF FreeMutexes
<1>2. ASSUME NEW r \in Remotes, GetClientMutex(t, r), mutexMap[r] # None
      PROVE  MutexType'
  BY ZenonT(60), <1>2 DEF GetClientMutex, mutexVars
<1>3. ASSUME NEW r \in Remotes, GetClientMutex(t, r), mutexMap[r] = None
      PROVE  MutexType'
  <2>1. PICK m \in Mutexes : /\ mutexMap' = [mutexMap EXCEPT ![r] = m]
                             /\ owner' = [owner EXCEPT ![m] = None]
                             /\ mtx' = [mtx EXCEPT ![t] = m]
    BY ZenonT(60), <1>1, <1>3 DEF GetClientMutex
  <2>2. QED
    BY ZenonT(60), <2>1
<1>4. ASSUME LockMutex(t), UNCHANGED <<mutexMap, mtx>> PROVE MutexType'
  BY ZenonT(60), <1>4 DEF LockMutex
<1>5. ASSUME UnlockMutex(t), UNCHANGED mutexMap PROVE MutexType'
  BY ZenonT(60), <1>5 DEF UnlockMutex
<1>6. QED
  BY ZenonT(60), <1>2, <1>3, <1>4, <1>5

LEMMA StepMutexes == ASSUME CallInv, NEW t \in Actors, Step(t) PROVE MutexType'
<1> USE MutexSteps DEF CallInv, TypeOK
<1> MutexType
  OBVIOUS
<1>1. ASSUME ReserveGetMutex(t) \/ DestroyGetMutex(t) PROVE MutexType'
  BY ZenonT(60), <1>1
  DEF ReserveGetMutex, DestroyGetMutex, OwnCall, RemotePcs, SharedPcs
<1>2. ASSUME EvictGetMutex(t) PROVE MutexType'
  BY ZenonT(60), <1>2 DEF EvictGetMutex, EvictType
<1>3. ASSUME AdmitConnected(t) \/ AdmitUnlimited(t) \/ AdmitReserve(t) \/
             AdmitEvict(t) \/ AdmitExhausted(t) \/ EvictSkip(t) \/
             EvictErase(t) \/ EvictClose(t) \/ CreateFails(t) \/
             ConnectFails(t) \/ InsertClient(t) \/ DestroyErase(t) \/
             DestroyUnlock(t)
      PROVE  MutexType'
  BY ZenonT(60), <1>3 DEF AdmitConnected, AdmitUnlimited, AdmitReserve, AdmitEvict,
      AdmitExhausted, EvictSkip, EvictErase, EvictClose, CreateFails,
      ConnectFails, InsertClient, DestroyErase, DestroyUnlock
<1>4. ASSUME EnterShared(t) \/ FinishEvict(t) \/ CreateClient(t) \/
             ReleaseChannelSlot(t) \/ TransferBegin(t) \/ TransferOk(t) \/
             TransferFails(t) \/ PollDone(t) \/ PollFails(t) \/
             AutoDisconnect(t) \/ ReleaseUse(t) \/ DestroyClose(t) \/
             DestroyClientMutex(t)
      PROVE  MutexType'
  BY ZenonT(60), <1>4 DEF EnterShared, FinishEvict, CreateClient, ReleaseChannelSlot,
      TransferBegin, TransferOk, TransferFails, PollDone, PollFails,
      AutoDisconnect, ReleaseUse, DestroyClose, DestroyClientMutex, mutexVars,
      MutexType
<1> QED
  BY ZenonT(60), <1>1, <1>2, <1>3, <1>4
  DEF Step, Admit, Evict, Create, Transfer, DestroyClient

(* The touched link is newer than the others of the pool *)
LEMMA TouchType ==
  ASSUME PoolType, NEW r \in Remotes
  PROVE  TouchClientLocked(r) \in [Remotes -> SUBSET Remotes]
  BY ZenonT(60) DEF PoolType, TouchClientLocked, Pooled

LEMMA StepPool == ASSUME CallInv, NEW t \in Actors, Step(t) PROVE PoolType'
<1>1. ASSUME EnterShared(t) \/ ReserveGetMutex(t) \/ AdmitUnlimited(t) \/
             AdmitEvict(t) \/ AdmitExhausted(t) \/ EvictGetMutex(t) \/
             EvictSkip(t) \/ EvictClose(t) \/ FinishEvict(t) \/
             CreateFails(t) \/ CreateClient(t) \/ ConnectFails(t) \/
             TransferBegin(t) \/ TransferOk(t) \/ TransferFails(t) \/
             PollDone(t) \/ PollFails(t) \/ ReleaseUse(t) \/
             DestroyGetMutex(t) \/ DestroyClose(t) \/ DestroyClientMutex(t) \/
             DestroyUnlock(t)
      PROVE  PoolType'
  <2>1. UNCHANGED poolVars
    BY ZenonT(60), <1>1 DEF EnterShared, ReserveGetMutex, AdmitUnlimited,
      AdmitEvict, AdmitExhausted, EvictGetMutex, EvictSkip, EvictClose,
      FinishEvict, CreateFails, CreateClient, ConnectFails, TransferBegin,
      TransferOk, TransferFails, PollDone, PollFails, ReleaseUse,
      DestroyGetMutex, DestroyClose, DestroyClientMutex, DestroyUnlock, poolVars
  <2>2. QED
    BY SMTT(60), <2>1 DEF CallInv, TypeOK, PoolType, poolVars
<1>2. ASSUME AdmitConnected(t) PROVE PoolType'
  BY SMTT(60), <1>2, TouchType DEF AdmitConnected, OwnCall, RemotePcs,
      SharedPcs, CallInv, TypeOK, PoolType
<1>3. ASSUME AdmitReserve(t) PROVE PoolType'
  BY SMTT(60), <1>3, TouchType DEF AdmitReserve, CallInv, TypeOK, PoolType
<1>4. ASSUME EvictErase(t) PROVE PoolType'
  BY SMTT(60), <1>4, TouchType DEF EvictErase, Forget, OwnCall, CallInv, TypeOK,
      PoolType
<1>5. ASSUME InsertClient(t) PROVE PoolType'
  BY SMTT(60), <1>5, TouchType DEF InsertClient, SlotReturned, OwnCall,
      RemotePcs, SharedPcs, UsePcs, CallInv, TypeOK, PoolType
<1>6. ASSUME ReleaseChannelSlot(t) PROVE PoolType'
  BY SMTT(60), <1>6, TouchType DEF ReleaseChannelSlot, SlotReturned, CallInv,
      TypeOK, PoolType
<1>7. ASSUME AutoDisconnect(t) PROVE PoolType'
  BY SMTT(60), <1>7, TouchType DEF AutoDisconnect, OwnCall, RemotePcs, CallInv,
      TypeOK, PoolType
<1>8. ASSUME DestroyErase(t) PROVE PoolType'
  BY SMTT(60), <1>8, TouchType DEF DestroyErase, Forget, OwnCall, RemotePcs,
      CallInv, TypeOK, PoolType
<1> QED
  BY ZenonT(60), <1>1, <1>2, <1>3, <1>4, <1>5, <1>6, <1>7, <1>8
  DEF Step, Admit, Evict, Create, Transfer, DestroyClient

LEMMA StepClients == ASSUME CallInv, NEW t \in Actors, Step(t) PROVE ClientType'
<1>1. ASSUME EnterShared(t) \/ ReserveGetMutex(t) \/ AdmitUnlimited(t) \/
             AdmitReserve(t) \/ AdmitEvict(t) \/ AdmitExhausted(t) \/
             EvictGetMutex(t) \/ EvictSkip(t) \/ EvictErase(t) \/
             FinishEvict(t) \/ CreateFails(t) \/ ReleaseChannelSlot(t) \/
             AutoDisconnect(t) \/ DestroyGetMutex(t) \/ DestroyErase(t) \/
             DestroyClientMutex(t) \/ DestroyUnlock(t)
      PROVE  ClientType'
  <2>1. UNCHANGED clientVars
    BY ZenonT(60), <1>1 DEF EnterShared, ReserveGetMutex, AdmitUnlimited,
      AdmitReserve, AdmitEvict, AdmitExhausted, EvictGetMutex, EvictSkip,
      EvictErase, FinishEvict, CreateFails, ReleaseChannelSlot, AutoDisconnect,
      DestroyGetMutex, DestroyErase, DestroyClientMutex, DestroyUnlock,
      clientVars
  <2>2. QED
    BY SMTT(60), <2>1 DEF CallInv, TypeOK, ClientType, clientVars
<1>2. ASSUME AdmitConnected(t) PROVE ClientType'
  BY SMTT(60), <1>2 DEF AdmitConnected, ClaimTransferUseLocked, PoolType,
      OwnCall, RemotePcs, SharedPcs, CallInv, TypeOK, ClientType
<1>3. ASSUME EvictClose(t) PROVE ClientType'
  BY ZenonT(60), <1>3 DEF EvictClose, Close, CallInv, TypeOK, ClientType
<1>4. ASSUME CreateClient(t) PROVE ClientType'
  BY SMTT(60), <1>4 DEF CreateClient, FreshClients, OwnCall, RemotePcs,
      SharedPcs, CallInv, TypeOK, ClientType
<1>5. ASSUME ConnectFails(t) PROVE ClientType'
  BY ZenonT(60), <1>5 DEF ConnectFails, Close, CallInv, TypeOK, ClientType
<1>6. ASSUME InsertClient(t) PROVE ClientType'
  BY SMTT(60), <1>6 DEF InsertClient, ClaimTransferUseLocked, OwnCall, UsePcs,
      CallInv, TypeOK, ClientType
<1>7. ASSUME TransferBegin(t) PROVE ClientType'
  BY ZenonT(60), <1>7 DEF TransferBegin, CallInv, TypeOK, ClientType
<1>8. ASSUME TransferOk(t) PROVE ClientType'
  BY SMTT(60), <1>8 DEF TransferOk, OwnCall, UsePcs, CallInv, TypeOK, ClientType
<1>9. ASSUME TransferFails(t) PROVE ClientType'
  BY ZenonT(60), <1>9 DEF TransferFails, CallInv, TypeOK, ClientType
<1>10. ASSUME PollDone(t) PROVE ClientType'
  BY SMTT(60), <1>10 DEF PollDone, RemoveTransferReq, OwnCall, CallInv, TypeOK,
      ClientType
<1>11. ASSUME PollFails(t) PROVE ClientType'
  BY SMTT(60), <1>11 DEF PollFails, RemoveTransferReq, OwnCall, CallInv, TypeOK,
      ClientType
<1>12. ASSUME ReleaseUse(t) PROVE ClientType'
  BY SMTT(60), <1>12 DEF ReleaseUse, OwnsUse, OwnCall, CallInv, TypeOK,
      ClientType
<1>13. ASSUME DestroyClose(t) PROVE ClientType'
  BY ZenonT(60), <1>13 DEF DestroyClose, Close, CallInv, TypeOK, ClientType
<1> QED
  BY ZenonT(60), <1>1, <1>2, <1>3, <1>4, <1>5, <1>6, <1>7, <1>8, <1>9,
     <1>10, <1>11, <1>12, <1>13
  DEF Step, Admit, Evict, Create, Transfer, DestroyClient

LEMMA StepEvicts == ASSUME CallInv, NEW t \in Actors, Step(t) PROVE EvictType'
<1>1. ASSUME EnterShared(t) \/ ReserveGetMutex(t) \/ AdmitConnected(t) \/
             AdmitUnlimited(t) \/ AdmitReserve(t) \/ AdmitExhausted(t) \/
             CreateFails(t) \/ CreateClient(t) \/ ConnectFails(t) \/
             InsertClient(t) \/ ReleaseChannelSlot(t) \/ TransferBegin(t) \/
             TransferOk(t) \/ TransferFails(t) \/ PollDone(t) \/ PollFails(t) \/
             AutoDisconnect(t) \/ ReleaseUse(t) \/ DestroyGetMutex(t) \/
             DestroyClientMutex(t) \/ DestroyUnlock(t)
      PROVE  EvictType'
  <2>1. UNCHANGED evictVars
    BY ZenonT(60), <1>1 DEF EnterShared, ReserveGetMutex, AdmitConnected,
      AdmitUnlimited, AdmitReserve, AdmitExhausted, CreateFails, CreateClient,
      ConnectFails, InsertClient, ReleaseChannelSlot, TransferBegin, TransferOk,
      TransferFails, PollDone, PollFails, AutoDisconnect, ReleaseUse,
      DestroyGetMutex, DestroyClientMutex, DestroyUnlock, evictVars
  <2>2. QED
    BY SMTT(60), <2>1 DEF CallInv, TypeOK, EvictType, evictVars
<1>2. ASSUME AdmitEvict(t) PROVE EvictType'
  BY SMTT(60), <1>2 DEF AdmitEvict, SelectLruIdleClientsLocked, Pooled, CallInv,
      TypeOK, EvictType
<1>3. ASSUME EvictGetMutex(t) PROVE EvictType'
  BY SMTT(60), <1>3 DEF EvictGetMutex, CallInv, TypeOK, EvictType
<1>4. ASSUME EvictSkip(t) PROVE EvictType'
  BY SMTT(60), <1>4 DEF EvictSkip, CallInv, TypeOK, EvictType
<1>5. ASSUME EvictErase(t) PROVE EvictType'
  BY SMTT(60), <1>5 DEF EvictErase, PoolType, OwnCall, CallInv, TypeOK,
      EvictType
<1>6. ASSUME EvictClose(t) PROVE EvictType'
  BY SMTT(60), <1>6 DEF EvictClose, CallInv, TypeOK, EvictType
<1>7. ASSUME FinishEvict(t) PROVE EvictType'
  BY SMTT(60), <1>7 DEF FinishEvict, CallInv, TypeOK, EvictType
<1>8. ASSUME DestroyErase(t) PROVE EvictType'
  BY SMTT(60), <1>8 DEF DestroyErase, PoolType, OwnCall, RemotePcs, SharedPcs,
      CallInv, TypeOK, EvictType
<1>9. ASSUME DestroyClose(t) PROVE EvictType'
  BY SMTT(60), <1>9 DEF DestroyClose, CallInv, TypeOK, EvictType
<1> QED
  BY ZenonT(60), <1>1, <1>2, <1>3, <1>4, <1>5, <1>6, <1>7, <1>8, <1>9
  DEF Step, Admit, Evict, Create, Transfer, DestroyClient

(* No call touches what Finalize and the heartbeat keep *)
LEMMA StepFins ==
  ASSUME CallInv, NEW t \in Actors, Step(t)
  PROVE  UNCHANGED <<finVars, setup, snap>>
<1>1. ASSUME EnterShared(t) \/ ReserveGetMutex(t) \/ AdmitConnected(t) \/
             AdmitUnlimited(t) \/ AdmitReserve(t) \/ AdmitEvict(t) \/
             AdmitExhausted(t) \/ EvictGetMutex(t) \/ EvictSkip(t) \/
             EvictErase(t) \/ EvictClose(t) \/ FinishEvict(t) \/
             CreateFails(t) \/ CreateClient(t) \/ ConnectFails(t)
      PROVE  UNCHANGED <<finVars, setup, snap>>
  BY ZenonT(60), <1>1 DEF EnterShared, ReserveGetMutex, AdmitConnected,
      AdmitUnlimited, AdmitReserve, AdmitEvict, AdmitExhausted, EvictGetMutex,
      EvictSkip, EvictErase, EvictClose, FinishEvict, CreateFails, CreateClient,
      ConnectFails, finVars
<1>2. ASSUME InsertClient(t) \/ ReleaseChannelSlot(t) \/ TransferBegin(t) \/
             TransferOk(t) \/ TransferFails(t) \/ PollDone(t) \/ PollFails(t) \/
             AutoDisconnect(t) \/ ReleaseUse(t) \/ DestroyGetMutex(t) \/
             DestroyErase(t) \/ DestroyClose(t) \/ DestroyClientMutex(t) \/
             DestroyUnlock(t)
      PROVE  UNCHANGED <<finVars, setup, snap>>
  BY ZenonT(60), <1>2 DEF InsertClient, ReleaseChannelSlot, TransferBegin,
      TransferOk, TransferFails, PollDone, PollFails, AutoDisconnect,
      ReleaseUse, DestroyGetMutex, DestroyErase, DestroyClose,
      DestroyClientMutex, DestroyUnlock, finVars
<1> QED
  BY ZenonT(60), <1>1, <1>2
  DEF Step, Admit, Evict, Create, Transfer, DestroyClient

(* A step of t changes the entries of t only *)
OnlyAt(t, f) == f' = f \/ \E x : f' = [f EXCEPT ![t] = x]
OnlyOwn(t) ==
  /\ OnlyAt(t, pc) /\ OnlyAt(t, op) /\ OnlyAt(t, rem) /\ OnlyAt(t, cl) /\ OnlyAt(t, claimed)
  /\ OnlyAt(t, resv) /\ OnlyAt(t, budget) /\ OnlyAt(t, victim) /\ OnlyAt(t, closing)

LEMMA StepOnlyOwn == ASSUME CallInv, NEW t \in Actors, Step(t) PROVE OnlyOwn(t)
<1>1. ASSUME EnterShared(t) \/ ReserveGetMutex(t) \/ AdmitUnlimited(t) \/
             AdmitReserve(t) \/ AdmitEvict(t)
      PROVE  OnlyOwn(t)
  BY ZenonT(60), <1>1 DEF EnterShared, ReserveGetMutex, AdmitUnlimited,
      AdmitReserve, AdmitEvict, OnlyOwn, OnlyAt, Goto, callVars, evictVars
<1>2. ASSUME AdmitExhausted(t) \/ EvictGetMutex(t) \/ EvictSkip(t) \/
             EvictErase(t) \/ EvictClose(t)
      PROVE  OnlyOwn(t)
  BY ZenonT(60), <1>2 DEF AdmitExhausted, EvictGetMutex, EvictSkip, EvictErase,
      EvictClose, OnlyOwn, OnlyAt, Goto, callVars, evictVars
<1>3. ASSUME FinishEvict(t) \/ CreateFails(t) \/ CreateClient(t) \/
             ConnectFails(t) \/ ReleaseChannelSlot(t)
      PROVE  OnlyOwn(t)
  BY ZenonT(60), <1>3 DEF FinishEvict, CreateFails, CreateClient, ConnectFails,
      ReleaseChannelSlot, OnlyOwn, OnlyAt, Goto, callVars, evictVars
<1>4. ASSUME TransferBegin(t) \/ TransferOk(t) \/ TransferFails(t) \/
             PollDone(t) \/ PollFails(t)
      PROVE  OnlyOwn(t)
  BY ZenonT(60), <1>4 DEF TransferBegin, TransferOk, TransferFails, PollDone,
      PollFails, OnlyOwn, OnlyAt, Goto, callVars, evictVars
<1>5. ASSUME AutoDisconnect(t) \/ DestroyGetMutex(t) \/ DestroyErase(t) \/
             DestroyClose(t) \/ DestroyClientMutex(t)
      PROVE  OnlyOwn(t)
  BY ZenonT(60), <1>5 DEF AutoDisconnect, DestroyGetMutex, DestroyErase,
      DestroyClose, DestroyClientMutex, OnlyOwn, OnlyAt, Goto, callVars,
      evictVars
<1>6. ASSUME DestroyUnlock(t) PROVE OnlyOwn(t)
  BY ZenonT(60), <1>6 DEF DestroyUnlock, OnlyOwn, OnlyAt, Goto, callVars,
      evictVars
<1>7. ASSUME AdmitConnected(t) PROVE OnlyOwn(t)
  BY ZenonT(60), <1>7 DEF AdmitConnected, OnlyOwn, OnlyAt, Goto,
      ClaimTransferUseLocked, callVars, evictVars
<1>8. ASSUME InsertClient(t) PROVE OnlyOwn(t)
  BY ZenonT(60), <1>8 DEF InsertClient, OnlyOwn, OnlyAt, Goto,
      ClaimTransferUseLocked, callVars, evictVars
<1>9. ASSUME ReleaseUse(t) PROVE OnlyOwn(t)
  BY ZenonT(60), <1>9 DEF ReleaseUse, OnlyOwn, OnlyAt, Goto,
      ClaimTransferUseLocked, callVars, evictVars
<1> QED
  BY ZenonT(60), <1>1, <1>2, <1>3, <1>4, <1>5, <1>6, <1>7, <1>8, <1>9
  DEF Step, Admit, Evict, Create, Transfer, DestroyClient

(* Where the actors can go *)
PcKept(t) == pc'[t] \in Pcs /\ (t = Heartbeat => pc'[t] \in HeartbeatPcs)

LEMMA StepPcs == ASSUME CallInv, NEW t \in Actors, Step(t) PROVE PcKept(t)
<1>0. pc \in [Actors -> Pcs] /\ (t = Heartbeat => pc[t] \in HeartbeatPcs)
  BY ZenonT(60) DEF CallInv, TypeOK, CallType
<1>1. ASSUME EnterShared(t) \/ ReserveGetMutex(t) \/ AdmitConnected(t) \/
             AdmitUnlimited(t)
      PROVE  PcKept(t)
  BY ZenonT(60), <1>1, <1>0 DEF EnterShared, ReserveGetMutex, AdmitConnected,
      AdmitUnlimited, PcKept, Pcs, SharedPcs, HeartbeatPcs, Goto
<1>2. ASSUME AdmitReserve(t) \/ AdmitEvict(t) \/ AdmitExhausted(t) \/
             EvictGetMutex(t)
      PROVE  PcKept(t)
  BY ZenonT(60), <1>2, <1>0 DEF AdmitReserve, AdmitEvict, AdmitExhausted,
      EvictGetMutex, PcKept, Pcs, SharedPcs, HeartbeatPcs, Goto
<1>3. ASSUME EvictSkip(t) \/ EvictErase(t) \/ EvictClose(t) \/ FinishEvict(t)
      PROVE  PcKept(t)
  BY ZenonT(60), <1>3, <1>0 DEF EvictSkip, EvictErase, EvictClose, FinishEvict,
      PcKept, Pcs, SharedPcs, HeartbeatPcs, Goto
<1>4. ASSUME CreateFails(t) \/ CreateClient(t) \/ ConnectFails(t) \/
             InsertClient(t)
      PROVE  PcKept(t)
  BY ZenonT(60), <1>4, <1>0 DEF CreateFails, CreateClient, ConnectFails,
      InsertClient, PcKept, Pcs, SharedPcs, HeartbeatPcs, Goto
<1>5. ASSUME ReleaseChannelSlot(t) \/ TransferBegin(t) \/ TransferOk(t) \/
             TransferFails(t)
      PROVE  PcKept(t)
  BY ZenonT(60), <1>5, <1>0 DEF ReleaseChannelSlot, TransferBegin, TransferOk,
      TransferFails, AfterFailure, PcKept, Pcs, SharedPcs, HeartbeatPcs, Goto
<1>6. ASSUME PollDone(t) \/ PollFails(t) \/ AutoDisconnect(t) \/ ReleaseUse(t)
      PROVE  PcKept(t)
  BY ZenonT(60), <1>6, <1>0 DEF PollDone, PollFails, AutoDisconnect, ReleaseUse,
      AfterFailure, PcKept, Pcs, SharedPcs, HeartbeatPcs, Goto
<1>7. ASSUME DestroyGetMutex(t) \/ DestroyErase(t) \/ DestroyClose(t) \/
             DestroyClientMutex(t)
      PROVE  PcKept(t)
  BY ZenonT(60), <1>7, <1>0 DEF DestroyGetMutex, DestroyErase, DestroyClose,
      DestroyClientMutex, PcKept, Pcs, SharedPcs, HeartbeatPcs, Goto
<1>8. ASSUME DestroyUnlock(t) PROVE PcKept(t)
  BY ZenonT(60), <1>8, <1>0 DEF DestroyUnlock, PcKept, Pcs, SharedPcs,
      HeartbeatPcs, Goto
<1> QED
  BY ZenonT(60), <1>1, <1>2, <1>3, <1>4, <1>5, <1>6, <1>7, <1>8
  DEF Step, Admit, Evict, Create, Transfer, DestroyClient

(* What t knows of its own call after a step *)
LEMMA StepOwns == ASSUME CallInv, NEW t \in Actors, Step(t) PROVE OwnCall(t)'
<1>1. ASSUME EnterShared(t) PROVE OwnCall(t)'
  BY ZenonT(60), <1>1 DEF EnterShared, CallInv, TypeOK, CallType, OwnCall,
      RemotePcs, UnclaimedPcs, SharedPcs, UsePcs, Goto, callVars, evictVars,
      finVars, PoolEnabled
<1>2. ASSUME ReserveGetMutex(t) PROVE OwnCall(t)'
  BY ZenonT(60), <1>2 DEF ReserveGetMutex, CallInv, TypeOK, CallType, OwnCall,
      RemotePcs, UnclaimedPcs, SharedPcs, UsePcs, Goto, callVars, evictVars,
      finVars, PoolEnabled
<1>3. ASSUME AdmitConnected(t) PROVE OwnCall(t)'
  BY ZenonT(60), <1>3 DEF AdmitConnected, ClaimTransferUseLocked, Claims,
      CallInv, TypeOK, PoolType, CallType, OwnCall, RemotePcs, UnclaimedPcs,
      SharedPcs, UsePcs, Goto, callVars, evictVars, finVars, PoolEnabled
<1>4. ASSUME AdmitUnlimited(t) PROVE OwnCall(t)'
  BY ZenonT(60), <1>4 DEF AdmitUnlimited, CallInv, TypeOK, CallType, OwnCall,
      RemotePcs, UnclaimedPcs, SharedPcs, UsePcs, Goto, callVars, evictVars,
      finVars, PoolEnabled
<1>5. ASSUME AdmitReserve(t) PROVE OwnCall(t)'
  BY ZenonT(60), <1>5 DEF AdmitReserve, CallInv, TypeOK, CallType, OwnCall,
      RemotePcs, UnclaimedPcs, SharedPcs, UsePcs, Goto, callVars, evictVars,
      finVars, PoolEnabled
<1>6. ASSUME AdmitEvict(t) PROVE OwnCall(t)'
  BY ZenonT(60), <1>6 DEF AdmitEvict, CallInv, TypeOK, CallType, OwnCall,
      RemotePcs, UnclaimedPcs, SharedPcs, UsePcs, Goto, callVars, evictVars,
      finVars, PoolEnabled
<1>7. ASSUME AdmitExhausted(t) PROVE OwnCall(t)'
  BY ZenonT(60), <1>7 DEF AdmitExhausted, CallInv, TypeOK, CallType, OwnCall,
      RemotePcs, UnclaimedPcs, SharedPcs, UsePcs, Goto, callVars, evictVars,
      finVars, PoolEnabled
<1>8. ASSUME EvictGetMutex(t) PROVE OwnCall(t)'
  BY SMTT(60), <1>8 DEF EvictGetMutex, CallInv, TypeOK, EvictType, CallType,
      OwnCall, RemotePcs, UnclaimedPcs, SharedPcs, UsePcs, Goto, callVars,
      evictVars, finVars, PoolEnabled
<1>9. ASSUME EvictSkip(t) PROVE OwnCall(t)'
  BY ZenonT(60), <1>9 DEF EvictSkip, CallInv, TypeOK, EvictType, CallType,
      OwnCall, RemotePcs, UnclaimedPcs, SharedPcs, UsePcs, Goto, callVars,
      evictVars, finVars, PoolEnabled
<1>10. ASSUME EvictErase(t) PROVE OwnCall(t)'
  BY ZenonT(60), <1>10 DEF EvictErase, CallInv, TypeOK, EvictType, PoolType,
      CallType, OwnCall, RemotePcs, UnclaimedPcs, SharedPcs, UsePcs, Goto,
      callVars, evictVars, finVars, PoolEnabled
<1>11. ASSUME EvictClose(t) PROVE OwnCall(t)'
  BY ZenonT(60), <1>11 DEF EvictClose, CallInv, TypeOK, EvictType, CallType,
      OwnCall, RemotePcs, UnclaimedPcs, SharedPcs, UsePcs, Goto, callVars,
      evictVars, finVars, PoolEnabled
<1>12. ASSUME FinishEvict(t) PROVE OwnCall(t)'
  BY ZenonT(60), <1>12 DEF FinishEvict, CallInv, TypeOK, CallType, OwnCall,
      RemotePcs, UnclaimedPcs, SharedPcs, UsePcs, Goto, callVars, evictVars,
      finVars, PoolEnabled
<1>13. ASSUME CreateFails(t) PROVE OwnCall(t)'
  BY ZenonT(60), <1>13 DEF CreateFails, CallInv, TypeOK, CallType, OwnCall,
      RemotePcs, UnclaimedPcs, SharedPcs, UsePcs, Goto, callVars, evictVars,
      finVars, PoolEnabled
<1>14. ASSUME CreateClient(t) PROVE OwnCall(t)'
  BY ZenonT(60), <1>14 DEF CreateClient, FreshClients, CallInv, TypeOK,
      CallType, OwnCall, RemotePcs, UnclaimedPcs, SharedPcs, UsePcs, Goto,
      callVars, evictVars, finVars, PoolEnabled
<1>15. ASSUME ConnectFails(t) PROVE OwnCall(t)'
  BY ZenonT(60), <1>15 DEF ConnectFails, CallInv, TypeOK, CallType, OwnCall,
      RemotePcs, UnclaimedPcs, SharedPcs, UsePcs, Goto, callVars, evictVars,
      finVars, PoolEnabled
<1>16. ASSUME InsertClient(t) PROVE OwnCall(t)'
  BY ZenonT(60), <1>16 DEF InsertClient, ClaimTransferUseLocked, Claims,
      CallInv, TypeOK, CallType, OwnCall, RemotePcs, UnclaimedPcs, SharedPcs,
      UsePcs, Goto, callVars, evictVars, finVars, PoolEnabled
<1>17. ASSUME ReleaseChannelSlot(t) PROVE OwnCall(t)'
  BY ZenonT(60), <1>17 DEF ReleaseChannelSlot, CallInv, TypeOK, CallType,
      OwnCall, RemotePcs, UnclaimedPcs, SharedPcs, UsePcs, Goto, callVars,
      evictVars, finVars, PoolEnabled
<1>18. ASSUME TransferBegin(t) PROVE OwnCall(t)'
  BY ZenonT(60), <1>18 DEF TransferBegin, CallInv, TypeOK, CallType, OwnCall,
      RemotePcs, UnclaimedPcs, SharedPcs, UsePcs, Goto, callVars, evictVars,
      finVars, PoolEnabled
<1>19. ASSUME TransferOk(t) PROVE OwnCall(t)'
  BY ZenonT(60), <1>19 DEF TransferOk, CallInv, TypeOK, CallType, OwnCall,
      RemotePcs, UnclaimedPcs, SharedPcs, UsePcs, Goto, callVars, evictVars,
      finVars, PoolEnabled
<1>20. ASSUME TransferFails(t) PROVE OwnCall(t)'
  BY ZenonT(60), <1>20 DEF TransferFails, AfterFailure, CallInv, TypeOK,
      CallType, OwnCall, RemotePcs, UnclaimedPcs, SharedPcs, UsePcs, Goto,
      callVars, evictVars, finVars, PoolEnabled
<1>21. ASSUME PollDone(t) PROVE OwnCall(t)'
  BY ZenonT(60), <1>21 DEF PollDone, CallInv, TypeOK, CallType, OwnCall,
      RemotePcs, UnclaimedPcs, SharedPcs, UsePcs, Goto, callVars, evictVars,
      finVars, PoolEnabled
<1>22. ASSUME PollFails(t) PROVE OwnCall(t)'
  BY ZenonT(60), <1>22 DEF PollFails, AfterFailure, CallInv, TypeOK, CallType,
      OwnCall, RemotePcs, UnclaimedPcs, SharedPcs, UsePcs, Goto, callVars,
      evictVars, finVars, PoolEnabled
<1>23. ASSUME AutoDisconnect(t) PROVE OwnCall(t)'
  BY ZenonT(60), <1>23 DEF AutoDisconnect, CallInv, TypeOK, CallType, OwnCall,
      RemotePcs, UnclaimedPcs, SharedPcs, UsePcs, Goto, callVars, evictVars,
      finVars, PoolEnabled
<1>24. ASSUME ReleaseUse(t) PROVE OwnCall(t)'
  BY ZenonT(60), <1>24 DEF ReleaseUse, CallInv, TypeOK, CallType, OwnCall,
      RemotePcs, UnclaimedPcs, SharedPcs, UsePcs, Goto, callVars, evictVars,
      finVars, PoolEnabled
<1>25. ASSUME DestroyGetMutex(t) PROVE OwnCall(t)'
  BY ZenonT(60), <1>25 DEF DestroyGetMutex, CallInv, TypeOK, CallType, OwnCall,
      RemotePcs, UnclaimedPcs, SharedPcs, UsePcs, Goto, callVars, evictVars,
      finVars, PoolEnabled
<1>26. ASSUME DestroyErase(t) PROVE OwnCall(t)'
  BY ZenonT(60), <1>26 DEF DestroyErase, CallInv, TypeOK, EvictType, PoolType,
      CallType, OwnCall, RemotePcs, UnclaimedPcs, SharedPcs, UsePcs, Goto,
      callVars, evictVars, finVars, PoolEnabled
<1>27. ASSUME DestroyClose(t) PROVE OwnCall(t)'
  BY ZenonT(60), <1>27 DEF DestroyClose, CallInv, TypeOK, EvictType, CallType,
      OwnCall, RemotePcs, UnclaimedPcs, SharedPcs, UsePcs, Goto, callVars,
      evictVars, finVars, PoolEnabled
<1>28. ASSUME DestroyClientMutex(t) PROVE OwnCall(t)'
  BY ZenonT(60), <1>28 DEF DestroyClientMutex, CallInv, TypeOK, CallType,
      OwnCall, RemotePcs, UnclaimedPcs, SharedPcs, UsePcs, Goto, callVars,
      evictVars, finVars, PoolEnabled
<1>29. ASSUME DestroyUnlock(t) PROVE OwnCall(t)'
  BY ZenonT(60), <1>29 DEF DestroyUnlock, CallInv, TypeOK, CallType, OwnCall,
      RemotePcs, UnclaimedPcs, SharedPcs, UsePcs, Goto, callVars, evictVars,
      finVars, PoolEnabled
<1> QED
  BY ZenonT(60), <1>1, <1>2, <1>3, <1>4, <1>5, <1>6, <1>7, <1>8, <1>9,
     <1>10, <1>11, <1>12, <1>13, <1>14, <1>15, <1>16, <1>17, <1>18, <1>19,
     <1>20, <1>21, <1>22, <1>23, <1>24, <1>25, <1>26, <1>27, <1>28, <1>29
  DEF Step, Admit, Evict, Create, Transfer, DestroyClient

(* The values of the call of t *)
CallValues(t) ==
  /\ op'[t] \in CallKinds /\ rem'[t] \in Remotes \cup {None}
  /\ cl'[t] \in Clients \cup {None} /\ claimed'[t] \in BOOLEAN
  /\ resv'[t] \in BOOLEAN /\ budget'[t] \in Nat

LEMMA StepValues == ASSUME CallInv, NEW t \in Actors, Step(t) PROVE CallValues(t)
<1>1. ASSUME EnterShared(t) \/ ReserveGetMutex(t) \/ AdmitUnlimited(t) \/
             AdmitEvict(t) \/ AdmitExhausted(t) \/ EvictGetMutex(t) \/
             EvictSkip(t) \/ EvictErase(t) \/ EvictClose(t) \/ FinishEvict(t) \/
             CreateFails(t) \/ TransferBegin(t) \/ TransferOk(t) \/
             TransferFails(t) \/ PollDone(t) \/ PollFails(t) \/
             AutoDisconnect(t) \/ DestroyGetMutex(t) \/ DestroyErase(t) \/
             DestroyClose(t) \/ DestroyClientMutex(t) \/ DestroyUnlock(t)
      PROVE  CallValues(t)
  <2>1. UNCHANGED callVars
    BY ZenonT(60), <1>1 DEF EnterShared, ReserveGetMutex, AdmitUnlimited,
      AdmitEvict, AdmitExhausted, EvictGetMutex, EvictSkip, EvictErase,
      EvictClose, FinishEvict, CreateFails, TransferBegin, TransferOk,
      TransferFails, PollDone, PollFails, AutoDisconnect, DestroyGetMutex,
      DestroyErase, DestroyClose, DestroyClientMutex, DestroyUnlock, callVars
  <2>2. QED
    BY SMTT(60), <2>1 DEF CallInv, TypeOK, CallType, CallValues, callVars
<1>2. ASSUME AdmitConnected(t) PROVE CallValues(t)
  <2>1. clients[rem[t]] \in Clients
    BY ZenonT(60), <1>2
    DEF AdmitConnected, CallInv, TypeOK, PoolType, OwnCall, RemotePcs, SharedPcs, UsePcs
  <2>2. claimed'[t] \in BOOLEAN
    BY ZenonT(60), <1>2
    DEF AdmitConnected, ClaimTransferUseLocked, CallInv, TypeOK, CallType
  <2>3. cl'[t] \in Clients \cup {None}
    BY ZenonT(60), <1>2, <2>1 DEF AdmitConnected, CallInv, TypeOK, CallType
  <2>4. UNCHANGED <<op, rem, resv, budget>>
    BY ZenonT(60), <1>2 DEF AdmitConnected
  <2>5. QED
    BY SMTT(60), <2>2, <2>3, <2>4 DEF CallInv, TypeOK, CallType, CallValues
<1>3. ASSUME InsertClient(t) PROVE CallValues(t)
  <2>1. cl[t] \in Clients
    BY ZenonT(60), <1>3
    DEF InsertClient, CallInv, TypeOK, PoolType, OwnCall, RemotePcs, SharedPcs, UsePcs
  <2>2. claimed'[t] \in BOOLEAN
    BY ZenonT(60), <1>3
    DEF InsertClient, ClaimTransferUseLocked, CallInv, TypeOK, CallType
  <2>3. cl'[t] \in Clients \cup {None}
    BY ZenonT(60), <1>3, <2>1 DEF InsertClient, CallInv, TypeOK, CallType
  <2>4. UNCHANGED <<op, rem, budget>> /\ resv' = [resv EXCEPT ![t] = FALSE]
    BY ZenonT(60), <1>3 DEF InsertClient
  <2>5. QED
    BY SMTT(60), <2>2, <2>3, <2>4 DEF CallInv, TypeOK, CallType, CallValues
<1>4. ASSUME AdmitReserve(t) PROVE CallValues(t)
  BY SMTT(60), <1>4 DEF AdmitReserve, CallInv, TypeOK, CallValues, CallType
<1>5. ASSUME CreateClient(t) PROVE CallValues(t)
  BY SMTT(60), <1>5 DEF CreateClient, FreshClients, CallInv, TypeOK, CallValues,
      CallType
<1>6. ASSUME ConnectFails(t) PROVE CallValues(t)
  BY SMTT(60), <1>6 DEF ConnectFails, CallInv, TypeOK, CallValues, CallType
<1>7. ASSUME ReleaseChannelSlot(t) PROVE CallValues(t)
  BY SMTT(60), <1>7 DEF ReleaseChannelSlot, CallInv, TypeOK, CallValues,
      CallType
<1>8. ASSUME ReleaseUse(t) PROVE CallValues(t)
  BY SMTT(60), <1>8 DEF ReleaseUse, CallKinds, OwnsUse, CallInv, TypeOK,
      CallValues, CallType
<1> QED
  BY ZenonT(60), <1>1, <1>2, <1>3, <1>4, <1>5, <1>6, <1>7, <1>8
  DEF Step, Admit, Evict, Create, Transfer, DestroyClient

LEMMA EntryType ==
  ASSUME NEW t \in Actors, NEW S, NEW f \in [Actors -> S], NEW g, g[t] \in S,
         g = f \/ \E x : g = [f EXCEPT ![t] = x]
  PROVE  g \in [Actors -> S] /\ \A u \in Actors \ {t} : g[u] = f[u]
  BY ZenonT(60)

(* A step of t leaves what the other actors know of their calls alone *)
OthersKept(t) ==
  \A u \in Actors \ {t} :
    /\ pc'[u] = pc[u] /\ rem'[u] = rem[u] /\ op'[u] = op[u]
    /\ cl'[u] = cl[u] /\ claimed'[u] = claimed[u]
    /\ victim'[u] = victim[u] /\ closing'[u] = closing[u]

LEMMA OwnEntries ==
  ASSUME TypeOK, NEW t \in Actors, OnlyOwn(t), CallValues(t), pc'[t] \in Pcs
  PROVE  CallType' /\ OthersKept(t)
<1>1. pc' \in [Actors -> Pcs] /\ \A u \in Actors \ {t} : pc'[u] = pc[u]
  BY ZenonT(60), EntryType DEF OnlyOwn, OnlyAt, TypeOK, CallType
<1>2. op' \in [Actors -> CallKinds] /\ \A u \in Actors \ {t} : op'[u] = op[u]
  BY ZenonT(60), EntryType DEF OnlyOwn, OnlyAt, CallValues, TypeOK, CallType
<1>3. rem' \in [Actors -> Remotes \cup {None}] /\ \A u \in Actors \ {t} : rem'[u] = rem[u]
  BY ZenonT(60), EntryType DEF OnlyOwn, OnlyAt, CallValues, TypeOK, CallType
<1>4. cl' \in [Actors -> Clients \cup {None}] /\ \A u \in Actors \ {t} : cl'[u] = cl[u]
  BY ZenonT(60), EntryType DEF OnlyOwn, OnlyAt, CallValues, TypeOK, CallType
<1>5. claimed' \in [Actors -> BOOLEAN] /\ \A u \in Actors \ {t} : claimed'[u] = claimed[u]
  BY ZenonT(60), EntryType DEF OnlyOwn, OnlyAt, CallValues, TypeOK, CallType
<1>6. resv' \in [Actors -> BOOLEAN] /\ \A u \in Actors \ {t} : resv'[u] = resv[u]
  BY ZenonT(60), EntryType DEF OnlyOwn, OnlyAt, CallValues, TypeOK, CallType
<1>7. budget' \in [Actors -> Nat] /\ \A u \in Actors \ {t} : budget'[u] = budget[u]
  BY ZenonT(60), EntryType DEF OnlyOwn, OnlyAt, CallValues, TypeOK, CallType
<1>8. \A u \in Actors \ {t} : victim'[u] = victim[u] /\ closing'[u] = closing[u]
  BY ZenonT(60) DEF OnlyOwn, OnlyAt, TypeOK, EvictType
<1>9. QED
  BY ZenonT(60), <1>1, <1>2, <1>3, <1>4, <1>5, <1>6, <1>7, <1>8 DEF CallType, OthersKept

LEMMA StepOthers ==
  ASSUME CallInv, NEW t \in Actors, Step(t) PROVE CallType' /\ OthersKept(t)
  BY ZenonT(60), StepOnlyOwn, StepPcs, StepValues, OwnEntries DEF PcKept, CallInv

LEMMA OthersOwn ==
  ASSUME CallInv, NEW t \in Actors, OthersKept(t), UNCHANGED setup, NEW u \in Actors \ {t}
  PROVE  OwnCall(u)'
<1>1. OwnCall(u)
  BY ZenonT(60) DEF CallInv
<1>2. /\ pc'[u] = pc[u] /\ rem'[u] = rem[u] /\ op'[u] = op[u]
      /\ cl'[u] = cl[u] /\ claimed'[u] = claimed[u]
      /\ victim'[u] = victim[u] /\ closing'[u] = closing[u]
  BY ZenonT(60) DEF OthersKept
<1>3. QED
  BY ZenonT(60), <1>1, <1>2 DEF OwnCall, PoolEnabled

LEMMA StepTypes == ASSUME CallInv, NEW t \in Actors, Step(t) PROVE CallInv'
<1>1. FinType'
  BY ZenonT(60), StepFins DEF CallInv, TypeOK, FinType, finVars
<1>2. TypeOK'
  BY ZenonT(60), <1>1, StepPool, StepMutexes, StepClients, StepOthers, StepEvicts
  DEF TypeOK
<1>3. ASSUME NEW u \in Actors PROVE OwnCall(u)'
  BY ZenonT(60), StepOwns, StepOthers, StepFins, OthersOwn
<1>4. pc'[Heartbeat] \in HeartbeatPcs
  BY ZenonT(60), StepPcs, StepOthers DEF PcKept, OthersKept, CallInv, Actors
<1>5. QED
  BY ZenonT(60), <1>2, <1>3, <1>4 DEF CallInv

============================================================================
