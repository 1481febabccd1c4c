------------------------- MODULE ClientClaimsProofs ------------------------
(***************************************************************************)
(* The pool of HIXL clients: the use counts are exact and an eviction      *)
(* spares the transfers, for every number of threads, remotes and clients. *)
(* The inductive invariant is ClaimsInv, at the end of the module.         *)
(***************************************************************************)
EXTENDS ClientPlacesProofs, FiniteSetTheorems

LEMMA FiniteActors == IsFiniteSet(Actors)
  BY ZenonT(60), PoolAssumption, FS_AddElement DEF Actors

Claimers(c) == {t \in Actors : claimed[t] /\ cl[t] = c}

(* A step that makes and undoes no claim *)
ClaimsKept ==
  /\ UNCHANGED useCount
  /\ \A u \in Actors : claimed'[u] = claimed[u] /\ (claimed[u] => cl'[u] = cl[u])

LEMMA KeepsCounts == ASSUME UseCountExact, ClaimsKept PROVE UseCountExact'
<1>1. ASSUME NEW c \in Clients PROVE Claimers(c)' = Claimers(c)
  BY ZenonT(60) DEF Claimers, ClaimsKept
<1>2. QED
  BY ZenonT(60), <1>1 DEF UseCountExact, Claimers, ClaimsKept

LEMMA ClaimersFinite ==
  ASSUME CallInv, UseCountExact, NEW c \in Clients
  PROVE  /\ IsFiniteSet(Claimers(c)) /\ Cardinality(Claimers(c)) \in Nat
         /\ useCount[c] = Cardinality(Claimers(c))
<1>1. IsFiniteSet(Claimers(c))
  BY ZenonT(60), FiniteActors, FS_Subset DEF Claimers
<1>2. QED
  BY ZenonT(60), <1>1, FS_CardinalityType DEF UseCountExact, Claimers

(* ClaimTransferUseLocked: one more call claims c *)
LEMMA ClaimCounts ==
  ASSUME CallInv, UseCountExact, NEW t \in Actors, ~claimed[t], NEW c \in Clients,
         useCount' = [useCount EXCEPT ![c] = @ + 1],
         claimed' = [claimed EXCEPT ![t] = TRUE],
         cl'[t] = c, \A u \in Actors \ {t} : cl'[u] = cl[u]
  PROVE  UseCountExact'
<1>0. claimed \in [Actors -> BOOLEAN] /\ useCount \in [Clients -> Int]
  BY ZenonT(60) DEF CallInv, TypeOK, CallType, ClientType
<1> DEFINE S == Claimers(c)
<1>1. Claimers(c)' = S \cup {t} /\ t \notin S
  BY ZenonT(60), <1>0 DEF Claimers
<1>6. IsFiniteSet(S)
  BY ZenonT(60), ClaimersFinite
<1>7. Cardinality(S \cup {t}) = Cardinality(S) + 1
  BY ZenonT(60), <1>1, <1>6, FS_AddElement
<1>2. Cardinality(Claimers(c)') = Cardinality(Claimers(c)) + 1
  BY ZenonT(60), <1>1, <1>7
<1>3. ASSUME NEW d \in Clients, d # c PROVE Claimers(d)' = Claimers(d)
  BY ZenonT(60), <1>0, <1>3 DEF Claimers
<1>4. ASSUME NEW d \in Clients PROVE useCount'[d] = Cardinality(Claimers(d)')
  <2>0. useCount[d] = Cardinality(Claimers(d)) /\ Cardinality(Claimers(d)) \in Nat
    BY ZenonT(60), ClaimersFinite
  <2>1. CASE d = c
    <3>1. useCount'[c] = useCount[c] + 1
      BY ZenonT(60), <1>0
    <3>2. QED
      BY ZenonT(60), <1>2, <2>0, <2>1, <3>1
  <2>2. CASE d # c
    <3>1. useCount'[d] = useCount[d]
      BY ZenonT(60), <1>0, <2>2
    <3>2. QED
      BY ZenonT(60), <1>3, <2>0, <2>2, <3>1
  <2>3. QED
    BY ZenonT(60), <2>1, <2>2
<1>5. QED
  BY ZenonT(60), <1>4 DEF UseCountExact, Claimers

(* TransferUseGuard: the call that claimed cl[t] returns *)
LEMMA ReleaseCounts ==
  ASSUME CallInv, UseCountExact, NEW t \in Actors, claimed[t],
         useCount' = [useCount EXCEPT ![cl[t]] = @ - 1],
         claimed' = [claimed EXCEPT ![t] = FALSE],
         \A u \in Actors \ {t} : cl'[u] = cl[u]
  PROVE  UseCountExact'
<1> USE DEF CallInv, TypeOK, CallType, ClientType
<1>0. cl[t] \in Clients
  BY ZenonT(60) DEF OwnCall
<1>1. Claimers(cl[t]) \ {t} = {u \in Actors : claimed'[u] /\ cl'[u] = cl[t]} /\ t \in Claimers(cl[t])
  BY ZenonT(60) DEF Claimers
<1> DEFINE S == Claimers(cl[t])
<1>6. IsFiniteSet(S)
  BY ZenonT(60), <1>0, ClaimersFinite
<1>7. Cardinality(S \ {t}) = Cardinality(S) - 1
  BY ZenonT(60), <1>1, <1>6, FS_RemoveElement
<1>2. Cardinality({u \in Actors : claimed'[u] /\ cl'[u] = cl[t]}) = Cardinality(Claimers(cl[t])) - 1
  BY ZenonT(60), <1>1, <1>7
<1>3. ASSUME NEW d \in Clients, d # cl[t] PROVE Claimers(d)' = Claimers(d)
  BY ZenonT(60), <1>3 DEF Claimers
<1>4. ASSUME NEW d \in Clients
      PROVE  useCount'[d] = Cardinality({u \in Actors : claimed'[u] /\ cl'[u] = d})
  <2>0. useCount[d] = Cardinality(Claimers(d)) /\ Cardinality(Claimers(d)) \in Nat
    BY ZenonT(60), ClaimersFinite
  <2>1. CASE d = cl[t]
    <3>1. useCount'[d] = useCount[d] - 1
      BY ZenonT(60), <1>0, <2>1
    <3>2. QED
      BY ZenonT(60), <1>2, <2>0, <2>1, <3>1
  <2>2. CASE d # cl[t]
    <3>1. useCount'[d] = useCount[d]
      BY ZenonT(60), <1>0, <2>2
    <3>2. QED
      BY ZenonT(60), <1>3, <2>0, <2>2, <3>1 DEF Claimers
  <2>3. QED
    BY ZenonT(60), <2>1, <2>2
<1>5. QED
  BY ZenonT(60), <1>4 DEF UseCountExact

ClaimsOrReleases(t) == AdmitConnected(t) \/ InsertClient(t) \/ ReleaseUse(t)

(* The other actions of a call make and undo no claim *)
LEMMA StepClaimsKept ==
  ASSUME CallInv, NEW t \in Actors, Step(t), ~ClaimsOrReleases(t)
  PROVE  UNCHANGED <<useCount, claimed>> /\ (claimed[t] => cl'[t] = cl[t])
<1>1. ASSUME EnterShared(t) \/ ReserveGetMutex(t) \/ AdmitUnlimited(t) \/
             AdmitReserve(t) \/ AdmitEvict(t) \/ AdmitExhausted(t) \/
             EvictGetMutex(t) \/ EvictSkip(t)
      PROVE  UNCHANGED <<useCount, claimed>> /\ (claimed[t] => cl'[t] = cl[t])
  BY ZenonT(60), <1>1 DEF EnterShared, ReserveGetMutex, AdmitUnlimited,
      AdmitReserve, AdmitEvict, AdmitExhausted, EvictGetMutex, EvictSkip,
      clientVars, callVars
<1>2. ASSUME EvictErase(t) \/ EvictClose(t) \/ FinishEvict(t) \/
             CreateFails(t) \/ ReleaseChannelSlot(t) \/ TransferBegin(t) \/
             TransferOk(t) \/ TransferFails(t)
      PROVE  UNCHANGED <<useCount, claimed>> /\ (claimed[t] => cl'[t] = cl[t])
  BY ZenonT(60), <1>2 DEF EvictErase, EvictClose, FinishEvict, CreateFails,
      ReleaseChannelSlot, TransferBegin, TransferOk, TransferFails, Close,
      clientVars, callVars
<1>3. ASSUME PollDone(t) \/ PollFails(t) \/ AutoDisconnect(t) \/
             DestroyGetMutex(t) \/ DestroyErase(t) \/ DestroyClose(t) \/
             DestroyClientMutex(t) \/ DestroyUnlock(t)
      PROVE  UNCHANGED <<useCount, claimed>> /\ (claimed[t] => cl'[t] = cl[t])
  BY ZenonT(60), <1>3 DEF PollDone, PollFails, AutoDisconnect, DestroyGetMutex,
      DestroyErase, DestroyClose, DestroyClientMutex, DestroyUnlock, Close,
      clientVars, callVars
<1>4. ASSUME CreateClient(t)
      PROVE  UNCHANGED <<useCount, claimed>> /\ (claimed[t] => cl'[t] = cl[t])
  BY ZenonT(60), <1>4 DEF CreateClient, CallInv, OwnCall, UnclaimedPcs,
      SharedPcs, Close, clientVars
<1>5. ASSUME ConnectFails(t)
      PROVE  UNCHANGED <<useCount, claimed>> /\ (claimed[t] => cl'[t] = cl[t])
  BY ZenonT(60), <1>5 DEF ConnectFails, CallInv, OwnCall, UnclaimedPcs,
      SharedPcs, Close, clientVars
<1> QED
  BY ZenonT(60), <1>1, <1>2, <1>3, <1>4, <1>5
  DEF Step, Admit, Evict, Create, Transfer, DestroyClient, ClaimsOrReleases

LEMMA StepCounts ==
  ASSUME CallInv, UseCountExact, NEW t \in Actors, Step(t)
  PROVE  UseCountExact'
<1>0. /\ OwnCall(t) /\ OthersKept(t) /\ PoolType /\ cl \in [Actors -> Clients \cup {None}]
      /\ claimed \in [Actors -> BOOLEAN]
  BY ZenonT(60), StepOthers DEF CallInv, TypeOK, CallType
<1>1. ASSUME AdmitConnected(t) \/ InsertClient(t), Claims(t) PROVE UseCountExact'
  <2> DEFINE c == IF pc[t] = "lock" THEN clients[rem[t]] ELSE cl[t]
  <2>1. ~claimed[t] /\ c \in Clients
    BY ZenonT(60), <1>0, <1>1
    DEF AdmitConnected, InsertClient, PoolType, OwnCall, RemotePcs, UnclaimedPcs,
        SharedPcs
  <2>2. op[t] # "connect"
    BY ZenonT(60), <1>1 DEF Claims
  <2>3. /\ useCount' = [useCount EXCEPT ![c] = @ + 1]
        /\ claimed' = [claimed EXCEPT ![t] = TRUE]
    BY ZenonT(60), <1>1 DEF AdmitConnected, InsertClient, ClaimTransferUseLocked
  <2>4. cl'[t] = c
    BY ZenonT(60), <1>0, <1>1, <2>2 DEF AdmitConnected, InsertClient
  <2> HIDE DEF c
  <2>5. \A u \in Actors \ {t} : cl'[u] = cl[u]
    BY ZenonT(60), <1>0 DEF OthersKept
  <2>6. QED
    BY ZenonT(60), <2>1, <2>3, <2>4, <2>5, ClaimCounts
<1>2. ASSUME ReleaseUse(t), claimed[t] PROVE UseCountExact'
  <2>1. /\ useCount' = [useCount EXCEPT ![cl[t]] = @ - 1]
        /\ claimed' = [claimed EXCEPT ![t] = FALSE]
        /\ \A u \in Actors \ {t} : cl'[u] = cl[u]
    BY ZenonT(60), <1>0, <1>2 DEF ReleaseUse, OwnsUse, OthersKept
  <2>2. QED
    BY ZenonT(60), <1>2, <2>1, ReleaseCounts
<1>3. ASSUME \/ (AdmitConnected(t) \/ InsertClient(t)) /\ ~Claims(t)
             \/ ReleaseUse(t) /\ ~claimed[t]
             \/ ~ClaimsOrReleases(t)
      PROVE  UseCountExact'
  <2>1. UNCHANGED useCount /\ claimed'[t] = claimed[t] /\ (claimed[t] => cl'[t] = cl[t])
    <3>1. ASSUME AdmitConnected(t) \/ InsertClient(t), ~Claims(t)
          PROVE  UNCHANGED <<useCount, claimed>> /\ ~claimed[t]
      BY ZenonT(60), <1>0, <3>1
      DEF AdmitConnected, InsertClient, ClaimTransferUseLocked, OwnCall, UnclaimedPcs,
          SharedPcs
    <3>2. ASSUME ReleaseUse(t), ~claimed[t]
          PROVE  UNCHANGED useCount /\ claimed'[t] = claimed[t]
      BY ZenonT(60), <1>0, <3>2 DEF ReleaseUse, OwnsUse
    <3>3. QED
      BY ZenonT(60), <1>3, <3>1, <3>2, StepClaimsKept
  <2>2. ClaimsKept
    BY ZenonT(60), <1>0, <2>1 DEF ClaimsKept, OthersKept
  <2>3. QED
    BY ZenonT(60), <2>2, KeepsCounts
<1>4. QED
  BY ZenonT(60), <1>1, <1>2, <1>3 DEF ClaimsOrReleases

LEMMA UseCountStep == CallInv /\ UseCountExact /\ [Next]_vars => UseCountExact'
<1> SUFFICES ASSUME CallInv, UseCountExact, [Next]_vars PROVE UseCountExact'
  OBVIOUS
<1> USE DEF CallInv, TypeOK, ClientType, CallType
<1>1. ASSUME NEW t \in Threads, NEW r \in Remotes, NEW o \in Ops, UseClient(t, o, r)
      PROVE  UseCountExact'
  <2>1. ~claimed[t] /\ t \in Actors
    BY ZenonT(60), <1>1 DEF UseClient, Begin, OwnCall, UnclaimedPcs, Actors
  <2>2. CASE PoolEnabled
    <3>1. /\ clients[r] \in Clients
          /\ useCount' = [useCount EXCEPT ![clients[r]] = @ + 1]
          /\ claimed' = [claimed EXCEPT ![t] = TRUE]
          /\ cl'[t] = clients[r] /\ \A u \in Actors \ {t} : cl'[u] = cl[u]
      BY SMTT(60), <1>1, <2>1, <2>2 DEF UseClient, PoolType
    <3>2. QED
      BY ZenonT(60), <2>1, <3>1, ClaimCounts
  <2>3. CASE ~PoolEnabled
    <3>1. UNCHANGED useCount /\ claimed'[t] = FALSE /\ claimed[t] = FALSE
      BY SMTT(60), <1>1, <2>1, <2>3, PoolAssumption DEF UseClient, FinType, PoolEnabled
    <3>2. \A u \in Actors \ {t} : claimed'[u] = claimed[u] /\ cl'[u] = cl[u]
      BY SMTT(60), <1>1 DEF UseClient
    <3>3. ClaimsKept
      BY ZenonT(60), <2>1, <3>1, <3>2 DEF ClaimsKept
    <3>4. QED
      BY ZenonT(60), <3>3, KeepsCounts
  <2>4. QED
    BY ZenonT(60), <2>2, <2>3
<1>2. ASSUME NEW t \in Threads, NEW r \in Remotes, Connect(t, r) \/ Disconnect(t, r)
      PROVE  UseCountExact'
  BY ZenonT(60), <1>2, KeepsCounts
  DEF ClaimsKept, Connect, Disconnect, Begin, clientVars
<1>3. ASSUME NEW t \in Threads, NEW r \in Remotes, NEW o \in Ops, AutoConnectTransfer(t, o, r)
      PROVE  UseCountExact'
  BY ZenonT(60), <1>3, KeepsCounts
  DEF ClaimsKept, AutoConnectTransfer, Begin, clientVars
<1>4. ASSUME NEW t \in Threads, NEW c \in Clients, Poll(t, c) PROVE UseCountExact'
  <2>1. ~claimed[t] /\ t \in Actors
    BY ZenonT(60), <1>4 DEF Poll, Begin, OwnCall, UnclaimedPcs, Actors
  <2>2. QED
    BY ZenonT(60), <1>4, <2>1, KeepsCounts DEF ClaimsKept, Poll, Begin, clientVars
<1>5. ASSUME NEW t \in Actors, Step(t) PROVE UseCountExact'
  BY ZenonT(60), <1>5, StepCounts
<1>6. ASSUME SendHeartbeat \/ Finalize \/ UNCHANGED vars PROVE UseCountExact'
  <2>1. ClaimsKept
    BY ZenonT(60), <1>6
    DEF ClaimsKept, SendHeartbeat, HeartbeatCopy, CheckAlive, HeartbeatSleep,
        HeartbeatStop,
        Finalize, DisconnectAll, FinalizeBegin, FinalizeMove, FinalizeClose, FinalizeEnd,
        Close, clientVars, callVars, vars
  <2>2. QED
    BY ZenonT(60), <2>1, KeepsCounts
<1>7. QED
  BY ZenonT(60), <1>1, <1>2, <1>3, <1>4, <1>5, <1>6 DEF Next, Call, Finished

(* What a step of t may do to the transfers and to the clients that are   *)
(* being evicted                                                           *)
Uses(t) ==
  /\ \A u \in Actors \ {t} : pc'[u] = pc[u] /\ cl'[u] = cl[u] /\ closing'[u] = closing[u]
  /\ pc'[t] # "evclose"
  /\ pc'[t] \in UsePcs => \/ (pc[t] \in UsePcs \cup {"insert"} /\ cl'[t] = cl[t])
                          \/ (\E r \in Remotes : cl'[t] = clients[r])
  /\ \A c \in Clients : inflight[c] = 0 /\ inflight'[c] # 0
                           => pc[t] = "xrun" /\ cl[t] = c

UsesOwn(t) ==
  /\ pc'[t] # "evclose"
  /\ pc'[t] \in UsePcs => \/ (pc[t] \in UsePcs \cup {"insert"} /\ cl'[t] = cl[t])
                          \/ (\E r \in Remotes : cl'[t] = clients[r])

LEMMA StepUsesOwn ==
  ASSUME CallInv, NEW t \in Actors, Step(t), ~EvictErase(t)
  PROVE  UsesOwn(t)
<1>0. /\ pc \in [Actors -> Pcs] /\ cl \in [Actors -> Clients \cup {None}]
      /\ (pc[t] \in SharedPcs => rem[t] \in Remotes)
  BY ZenonT(60) DEF CallInv, TypeOK, CallType, OwnCall, RemotePcs
<1>1. ASSUME ReserveGetMutex(t) \/ AdmitUnlimited(t) \/ AdmitReserve(t) \/
             AdmitEvict(t)
      PROVE  UsesOwn(t)
  BY ZenonT(60), <1>1, <1>0 DEF ReserveGetMutex, AdmitUnlimited, AdmitReserve,
      AdmitEvict, UsesOwn, UsePcs, Goto, callVars
<1>2. ASSUME AdmitExhausted(t) \/ EvictGetMutex(t) \/ EvictSkip(t) \/
             EvictClose(t)
      PROVE  UsesOwn(t)
  BY ZenonT(60), <1>2, <1>0 DEF AdmitExhausted, EvictGetMutex, EvictSkip,
      EvictClose, UsesOwn, UsePcs, Goto, callVars
<1>3. ASSUME FinishEvict(t) \/ CreateFails(t) \/ CreateClient(t) \/
             ConnectFails(t)
      PROVE  UsesOwn(t)
  BY ZenonT(60), <1>3, <1>0 DEF FinishEvict, CreateFails, CreateClient,
      ConnectFails, UsesOwn, UsePcs, Goto, callVars
<1>4. ASSUME ReleaseChannelSlot(t) \/ TransferBegin(t) \/ TransferOk(t) \/
             TransferFails(t)
      PROVE  UsesOwn(t)
  BY ZenonT(60), <1>4, <1>0 DEF ReleaseChannelSlot, TransferBegin, TransferOk,
      TransferFails, AfterFailure, UsesOwn, UsePcs, Goto, callVars
<1>5. ASSUME PollDone(t) \/ PollFails(t) \/ AutoDisconnect(t) \/ ReleaseUse(t)
      PROVE  UsesOwn(t)
  BY ZenonT(60), <1>5, <1>0 DEF PollDone, PollFails, AutoDisconnect, ReleaseUse,
      AfterFailure, UsesOwn, UsePcs, Goto, callVars
<1>6. ASSUME DestroyGetMutex(t) \/ DestroyErase(t) \/ DestroyClose(t) \/
             DestroyClientMutex(t)
      PROVE  UsesOwn(t)
  BY ZenonT(60), <1>6, <1>0 DEF DestroyGetMutex, DestroyErase, DestroyClose,
      DestroyClientMutex, UsesOwn, UsePcs, Goto, callVars
<1>7. ASSUME DestroyUnlock(t) PROVE UsesOwn(t)
  BY ZenonT(60), <1>7, <1>0 DEF DestroyUnlock, UsesOwn, UsePcs, Goto, callVars
<1>8. ASSUME AdmitConnected(t) PROVE UsesOwn(t)
  BY ZenonT(60), <1>8, <1>0 DEF AdmitConnected, SharedPcs, UsesOwn, UsePcs,
      Goto, callVars
<1>9. ASSUME InsertClient(t) PROVE UsesOwn(t)
  BY ZenonT(60), <1>9, <1>0 DEF InsertClient, UsesOwn, UsePcs, Goto, callVars
<1>10. ASSUME EnterShared(t) PROVE UsesOwn(t)
  BY ZenonT(60), <1>10, <1>0 DEF EnterShared, UsesOwn, UsePcs, Goto, callVars
<1> QED
  BY ZenonT(60), <1>1, <1>2, <1>3, <1>4, <1>5, <1>6, <1>7, <1>8, <1>9,
     <1>10
  DEF Step, Admit, Evict, Create, Transfer, DestroyClient

(* Only a transfer puts a request in flight *)
RequestsOwn(t) ==
  \A c \in Clients : inflight[c] = 0 /\ inflight'[c] # 0 => pc[t] = "xrun" /\ cl[t] = c

LEMMA StepRequests == ASSUME CallInv, NEW t \in Actors, Step(t) PROVE RequestsOwn(t)
<1>0. inflight \in [Clients -> Nat] /\ ~(0 > 0)
  BY DEF CallInv, TypeOK, ClientType
<1>1. ASSUME EnterShared(t) \/ ReserveGetMutex(t) \/ AdmitConnected(t) \/
             AdmitUnlimited(t) \/ AdmitReserve(t) \/ AdmitEvict(t) \/
             AdmitExhausted(t) \/ EvictGetMutex(t) \/ EvictSkip(t) \/
             EvictErase(t) \/ FinishEvict(t) \/ CreateFails(t)
      PROVE  RequestsOwn(t)
  BY ZenonT(60), <1>1 DEF EnterShared, ReserveGetMutex, AdmitConnected,
      AdmitUnlimited, AdmitReserve, AdmitEvict, AdmitExhausted, EvictGetMutex,
      EvictSkip, EvictErase, FinishEvict, CreateFails, RequestsOwn, clientVars
<1>2. ASSUME CreateClient(t) \/ InsertClient(t) \/ ReleaseChannelSlot(t) \/
             TransferBegin(t) \/ TransferFails(t) \/ AutoDisconnect(t) \/
             ReleaseUse(t) \/ DestroyGetMutex(t) \/ DestroyErase(t) \/
             DestroyClientMutex(t) \/ DestroyUnlock(t)
      PROVE  RequestsOwn(t)
  BY ZenonT(60), <1>2 DEF CreateClient, InsertClient, ReleaseChannelSlot,
      TransferBegin, TransferFails, AutoDisconnect, ReleaseUse, DestroyGetMutex,
      DestroyErase, DestroyClientMutex, DestroyUnlock, RequestsOwn, clientVars
<1>3. ASSUME EvictClose(t) PROVE RequestsOwn(t)
  BY ZenonT(60), <1>3, <1>0 DEF EvictClose, RequestsOwn, Close
<1>4. ASSUME DestroyClose(t) PROVE RequestsOwn(t)
  BY ZenonT(60), <1>4, <1>0 DEF DestroyClose, RequestsOwn, Close
<1>5. ASSUME ConnectFails(t) PROVE RequestsOwn(t)
  BY ZenonT(60), <1>5, <1>0 DEF ConnectFails, RequestsOwn, Close
<1>6. ASSUME PollDone(t) PROVE RequestsOwn(t)
  BY ZenonT(60), <1>6, <1>0 DEF PollDone, RequestsOwn, RemoveTransferReq
<1>7. ASSUME PollFails(t) PROVE RequestsOwn(t)
  BY ZenonT(60), <1>7, <1>0 DEF PollFails, RequestsOwn, RemoveTransferReq
<1>8. ASSUME TransferOk(t) PROVE RequestsOwn(t)
  BY ZenonT(60), <1>8, <1>0 DEF TransferOk, RequestsOwn, RemoveTransferReq
<1> QED
  BY ZenonT(60), <1>1, <1>2, <1>3, <1>4, <1>5, <1>6, <1>7, <1>8
  DEF Step, Admit, Evict, Create, Transfer, DestroyClient

LEMMA StepUses ==
  ASSUME CallInv, NEW t \in Actors, Step(t), ~EvictErase(t)
  PROVE  Uses(t)
  BY ZenonT(60), StepUsesOwn, StepRequests, StepOthers
  DEF Uses, UsesOwn, RequestsOwn, OthersKept

LEMMA SparesKept ==
  ASSUME CallInv, PlaceInv, EvictionSparesTransfers, NEW t \in Actors, Uses(t)
  PROVE  EvictionSparesTransfers'
<1> SUFFICES ASSUME NEW u \in Actors, pc'[u] = "evclose"
             PROVE  /\ inflight'[closing'[u]] = 0
                    /\ \A a \in Actors : pc'[a] \in UsePcs => cl'[a] # closing'[u]
  BY ZenonT(60) DEF EvictionSparesTransfers, UsePcs
<1>1. u # t /\ pc[u] = "evclose" /\ closing'[u] = closing[u] /\ closing[u] \in Clients
  BY ZenonT(60) DEF Uses, CallInv, OwnCall
<1>2. /\ inflight[closing[u]] = 0
      /\ \A a \in Actors : pc[a] \in UsePcs => cl[a] # closing[u]
  BY ZenonT(60), <1>1 DEF EvictionSparesTransfers, UsePcs
<1>3. inflight'[closing[u]] = 0
  BY ZenonT(60), <1>1, <1>2 DEF Uses, UsePcs
<1>4. ASSUME NEW a \in Actors, pc'[a] \in UsePcs PROVE cl'[a] # closing[u]
  <2>1. CASE a # t
    BY ZenonT(60), <1>2, <1>4, <2>1 DEF Uses
  <2>2. CASE a = t
    BY <1>1, <1>2, <1>4, <2>2 DEF Uses, PlaceInv
  <2>3. QED
    BY ZenonT(60), <2>1, <2>2
<1>5. QED
  BY ZenonT(60), <1>1, <1>3, <1>4

(* DestroyIdleClient has seen the client idle under mutex_ *)
LEMMA EvictsIdle ==
  ASSUME CallInv, PlaceInv, UseCountExact, EvictionSparesTransfers, NEW t \in Actors,
         EvictErase(t)
  PROVE  EvictionSparesTransfers'
<1> USE DEF CallInv, TypeOK, ClientType, CallType, EvictType
<1> DEFINE c == clients[victim[t]]
<1>1. c \in Clients /\ PoolEnabled
  BY ZenonT(60) DEF EvictErase, PoolType, OwnCall
<1>2. ~(useCount[c] > 0) /\ ~(inflight[c] > 0)
  BY ZenonT(60) DEF EvictErase, MayEvict, IsBusy
<1>9. useCount[c] \in Nat /\ inflight[c] \in Nat
  <2>1. useCount[c] \in Nat
    BY ZenonT(60), <1>1, ClaimersFinite
  <2>2. inflight[c] \in Nat
    BY ZenonT(60), <1>1
  <2>3. QED
    BY ZenonT(60), <2>1, <2>2
<1> HIDE DEF c, CallInv, TypeOK, ClientType, CallType, EvictType
<1>3. useCount[c] = 0 /\ inflight[c] = 0
  BY <1>2, <1>9
<1>4. Claimers(c) = {}
  BY ZenonT(60), <1>1, <1>3, ClaimersFinite, FS_EmptySet
<1>5. \A a \in Actors : pc[a] \in UsePcs => cl[a] # c
  BY ZenonT(60), <1>1, <1>4 DEF Claimers, OwnCall, CallInv
<1>6. /\ pc' = [pc EXCEPT ![t] = "evclose"] /\ UNCHANGED <<cl, inflight>>
      /\ closing' = [closing EXCEPT ![t] = c]
  BY ZenonT(60) DEF EvictErase, Goto, callVars, clientVars, c
<1> USE DEF CallInv, TypeOK, CallType, EvictType
<1>7. ASSUME NEW u \in Actors, pc'[u] = "evclose"
      PROVE  /\ inflight'[closing'[u]] = 0
             /\ \A a \in Actors : pc'[a] \in UsePcs => cl'[a] # closing'[u]
  <2>1. CASE u = t
    BY ZenonT(60), <1>3, <1>5, <1>6, <2>1 DEF UsePcs
  <2>2. CASE u # t
    BY ZenonT(60), <1>6, <1>7, <2>2 DEF EvictionSparesTransfers, UsePcs
  <2>3. QED
    BY ZenonT(60), <2>1, <2>2
<1>8. QED
  BY ZenonT(60), <1>7 DEF EvictionSparesTransfers, UsePcs

LEMMA SparesStep ==
  CallInv /\ PlaceInv /\ UseCountExact /\ EvictionSparesTransfers /\ [Next]_vars
    => EvictionSparesTransfers'
<1> SUFFICES ASSUME CallInv, PlaceInv, UseCountExact, EvictionSparesTransfers, [Next]_vars
             PROVE  EvictionSparesTransfers'
  OBVIOUS
<1>1. ASSUME NEW t \in Threads, Call(t) PROVE EvictionSparesTransfers'
  <2>1. CallBegins(t) /\ t \in Actors
    BY ZenonT(60), <1>1, CallMoves DEF Actors
  <2>2. pc'[t] = "xfer" => \E r \in Remotes : cl'[t] = clients[r]
    <3>1. ASSUME NEW r \in Remotes, NEW o \in Ops, UseClient(t, o, r)
          PROVE  cl'[t] = clients[r]
      BY ZenonT(60), <2>1, <3>1 DEF UseClient, CallInv, TypeOK, CallType
    <3>2. ASSUME NEW r \in Remotes, Connect(t, r) \/ Disconnect(t, r)
          PROVE  pc'[t] # "xfer"
      BY ZenonT(60), <2>1, <3>2 DEF Connect, Disconnect, Goto, CallInv, TypeOK, CallType
    <3>3. ASSUME NEW r \in Remotes, NEW o \in Ops, AutoConnectTransfer(t, o, r)
          PROVE  pc'[t] # "xfer"
      BY ZenonT(60), <2>1, <3>3 DEF AutoConnectTransfer, Goto, CallInv, TypeOK, CallType
    <3>4. ASSUME NEW c \in Clients, Poll(t, c) PROVE pc'[t] # "xfer"
      BY ZenonT(60), <2>1, <3>4 DEF Poll, Goto, CallInv, TypeOK, CallType
    <3>5. QED
      BY ZenonT(60), <1>1, <3>1, <3>2, <3>3, <3>4 DEF Call
  <2>3. Uses(t)
    BY ZenonT(60), <2>1, <2>2 DEF CallBegins, Uses, UsePcs
  <2>4. QED
    BY ZenonT(60), <2>1, <2>3, SparesKept
<1>2. ASSUME NEW t \in Actors, Step(t) PROVE EvictionSparesTransfers'
  BY ZenonT(60), <1>2, StepUses, SparesKept, EvictsIdle DEF Uses
<1>3. ASSUME SendHeartbeat PROVE EvictionSparesTransfers'
  <2>1. UNCHANGED <<inflight, closing, cl>>
    BY ZenonT(60), <1>3
    DEF SendHeartbeat, HeartbeatCopy, CheckAlive, HeartbeatSleep, HeartbeatStop,
        clientVars, evictVars, callVars
  <2>2. Heartbeat \in Actors /\ pc'[Heartbeat] \notin UsePcs \cup {"evclose"}
        /\ \A u \in Actors \ {Heartbeat} : pc'[u] = pc[u]
    BY ZenonT(60), <1>3, HeartbeatTypes
    DEF CallInv, HeartbeatPcs, UsePcs, OthersKept, Actors
  <2>3. Uses(Heartbeat)
    BY ZenonT(60), <2>1, <2>2 DEF Uses, UsePcs
  <2>4. QED
    BY ZenonT(60), <2>2, <2>3, SparesKept
<1>4. ASSUME Finalize \/ UNCHANGED vars PROVE EvictionSparesTransfers'
  <2>1. UNCHANGED <<closing, cl, pc>>
    BY ZenonT(60), <1>4
    DEF Finalize, DisconnectAll, FinalizeBegin, FinalizeMove, FinalizeClose, FinalizeEnd,
        evictVars,
        callVars, vars
  <2>2. \A c \in Clients : inflight'[c] # inflight[c] => inflight'[c] = 0
    BY ZenonT(60), <1>4
    DEF Finalize, DisconnectAll, FinalizeBegin, FinalizeMove, FinalizeClose, FinalizeEnd,
        Close,
        clientVars, vars,
      CallInv, TypeOK, ClientType
  <2>3. Uses(Heartbeat) /\ Heartbeat \in Actors
    BY ZenonT(60), <2>1, <2>2 DEF Uses, UsePcs, CallInv, HeartbeatPcs, Actors
  <2>4. QED
    BY ZenonT(60), <2>3, SparesKept
<1>5. QED
  BY ZenonT(60), <1>1, <1>2, <1>3, <1>4 DEF Next, Finished

LEMMA ClaimsInit == Init => UseCountExact /\ EvictionSparesTransfers
<1> SUFFICES ASSUME Init PROVE UseCountExact /\ EvictionSparesTransfers
  OBVIOUS
<1>1. EvictionSparesTransfers
  BY ZenonT(60) DEF Init, EvictionSparesTransfers
<1>2. \A c \in Clients : {t \in Actors : claimed[t] /\ cl[t] = c} = {}
  BY ZenonT(60) DEF Init
<1>3. \A c \in Clients : useCount[c] = 0
  BY ZenonT(60) DEF Init
<1>4. UseCountExact
  BY ZenonT(60), <1>2, <1>3, FS_EmptySet DEF UseCountExact
<1>5. QED
  BY ZenonT(60), <1>1, <1>4

(* The inductive invariant of the pool *)
ClaimsInv == PlacesInv /\ UseCountExact /\ EvictionSparesTransfers

LEMMA ClaimsAlways == Spec => []ClaimsInv
<1>1. Init => UseCountExact /\ EvictionSparesTransfers
  BY ZenonT(60), ClaimsInit
<1>2. /\ PlacesInv /\ UseCountExact /\ EvictionSparesTransfers /\ [Next]_vars
      => UseCountExact' /\ EvictionSparesTransfers'
  BY ZenonT(60), UseCountStep, SparesStep DEF PlacesInv
<1>3. QED
  BY <1>1, <1>2, PlacesAlways, PTL DEF Spec, ClaimsInv

(* GetUseCount is exactly the number of calls between                      *)
(* ClaimTransferUseLocked and the end of their TransferUseGuard: a failed  *)
(* transfer, AutoDisconnect and the eviction of another link neither lose  *)
(* a claim nor release one twice.                                          *)
THEOREM ClaimsAreExact == Spec => []UseCountExact
<1>1. ClaimsInv => UseCountExact
  BY ZenonT(60) DEF ClaimsInv
<1>2. QED
  BY <1>1, ClaimsAlways, PTL

(* DestroyIdleClient never finalizes a client that a call is about to use  *)
(* or uses, or that has an asynchronous request in flight, for any number  *)
(* of threads.                                                             *)
THEOREM EvictionIsSafe == Spec => []EvictionSparesTransfers
<1>1. ClaimsInv => EvictionSparesTransfers
  BY ZenonT(60) DEF ClaimsInv
<1>2. QED
  BY <1>1, ClaimsAlways, PTL

============================================================================
