------------------------ MODULE ClientManagerProofs ------------------------
(***************************************************************************)
(* Proofs about ClientManager for any number of threads, remotes, clients  *)
(* and any max_channel.                                                    *)
(***************************************************************************)
EXTENDS ClientManager, FiniteSetTheorems, TLAPS

(* pcs of a GetOrCreateClient call between its admission and its end *)
SlotPcs == {"create", "insert", "relslot"}

Reserved == {t \in Actors : resv[t]}

PoolFrame ==
  /\ setup \in Setups
  /\ creating \in Nat
  /\ resv \in [Actors -> BOOLEAN]
  /\ pc = [t \in Actors |-> pc[t]]
  /\ clients = [r \in Remotes |-> clients[r]]

SlotHeld == \A t \in Actors : resv[t] <=> PoolEnabled /\ pc[t] \in SlotPcs

PoolInv == PoolFrame /\ SlotHeld /\ ReservationsExact /\ PoolBound

(* A step that leaves the pool alone and no actor in or out of SlotPcs *)
Quiet ==
  /\ UNCHANGED <<setup, clients, creating, resv>>
  /\ pc' = [t \in Actors |-> pc'[t]]
  /\ \A t \in Actors : pc'[t] \in SlotPcs <=> pc[t] \in SlotPcs

(* Every deployment has room for a link *)
LEMMA SetupType ==
  ASSUME setup \in Setups PROVE PoolEnabled \in BOOLEAN /\ MaxChannel \in Nat \ {0}
  BY PoolAssumption DEF PoolEnabled, MaxChannel

(* A step that keeps the deployment keeps its options *)
LEMMA SetupKept ==
  ASSUME UNCHANGED setup PROVE PoolEnabled' = PoolEnabled /\ MaxChannel' = MaxChannel
  BY DEF PoolEnabled, MaxChannel

LEMMA FiniteActors == IsFiniteSet(Actors)
  BY PoolAssumption, FS_AddElement DEF Actors

LEMMA ReservedFinite ==
  ASSUME PoolInv
  PROVE  /\ IsFiniteSet(Reserved) /\ creating = Cardinality(Reserved)
         /\ IsFiniteSet(Pooled) /\ Cardinality(Pooled) \in Nat
<1>1. IsFiniteSet(Reserved)
  BY FiniteActors, FS_Subset DEF Reserved
<1>2. IsFiniteSet(Pooled)
  BY PoolAssumption, FS_Subset DEF Pooled
<1>3. QED
  BY <1>1, <1>2, FS_CardinalityType DEF PoolInv, ReservationsExact, Reserved

LEMMA PoolInit == Init => PoolInv
<1> SUFFICES ASSUME Init PROVE PoolInv
  OBVIOUS
<1>1. PoolFrame
  BY DEF Init, PoolFrame
<1>2. SlotHeld
  BY DEF Init, SlotHeld, SlotPcs
<1>3. ReservationsExact
  <2>1. {t \in Actors : resv[t]} = {}
    BY DEF Init
  <2>2. QED
    BY ZenonT(60), <2>1, FS_EmptySet DEF Init, ReservationsExact
<1>4. PoolBound
  <2>1. Pooled = {}
    BY DEF Init, Pooled
  <2>2. QED
    BY <2>1, FS_EmptySet, SetupType DEF Init, PoolBound, Occupied
<1>5. QED
  BY <1>1, <1>2, <1>3, <1>4 DEF PoolInv

LEMMA QuietStep == PoolInv /\ Quiet => PoolInv'
<1> SUFFICES ASSUME PoolInv, Quiet PROVE PoolInv'
  OBVIOUS
<1>1. PoolFrame'
  BY DEF PoolInv, PoolFrame, Quiet
<1>2. SlotHeld'
  BY SetupKept DEF PoolInv, PoolFrame, SlotHeld, Quiet
<1>3. ReservationsExact' /\ PoolBound'
  BY SetupKept DEF PoolInv, ReservationsExact, PoolBound, Occupied, Pooled, Quiet
<1>4. QED
  BY <1>1, <1>2, <1>3 DEF PoolInv

LEMMA QuietCalls == PoolFrame => \A t \in Threads : Call(t) => Quiet
<1> SUFFICES ASSUME PoolFrame, NEW t \in Threads, Call(t) PROVE Quiet
  OBVIOUS
<1> USE DEF Quiet, PoolFrame, Actors, SlotPcs, Goto, Begin, poolVars, finVars
<1>1. ASSUME NEW r \in Remotes, Connect(t, r) PROVE Quiet
  BY ZenonT(60), <1>1 DEF Connect
<1>2. ASSUME NEW r \in Remotes, Disconnect(t, r) PROVE Quiet
  BY ZenonT(60), <1>2 DEF Disconnect
<1>3. ASSUME NEW r \in Remotes, NEW o \in Ops, UseClient(t, o, r) PROVE Quiet
  BY ZenonT(60), <1>3 DEF UseClient
<1>4. ASSUME NEW r \in Remotes, NEW o \in Ops, AutoConnectTransfer(t, o, r) PROVE Quiet
  BY ZenonT(60), <1>4 DEF AutoConnectTransfer
<1>5. ASSUME NEW c \in Clients, Poll(t, c) PROVE Quiet
  BY ZenonT(60), <1>5 DEF Poll
<1>6. QED
  BY ZenonT(60), <1>1, <1>2, <1>3, <1>4, <1>5 DEF Call

QuietActions(t) ==
  \/ EnterShared(t) \/ ReserveGetMutex(t) \/ AdmitConnected(t) \/ AdmitEvict(t)
  \/ AdmitExhausted(t) \/ EvictGetMutex(t) \/ EvictSkip(t) \/ EvictClose(t)
  \/ FinishEvict(t) \/ TransferBegin(t) \/ TransferOk(t) \/ TransferFails(t)
  \/ PollDone(t) \/ PollFails(t) \/ AutoDisconnect(t) \/ DestroyGetMutex(t)
  \/ DestroyClose(t) \/ DestroyClientMutex(t) \/ DestroyUnlock(t)

LEMMA QuietSteps == PoolFrame => \A t \in Actors : QuietActions(t) => Quiet
<1> SUFFICES ASSUME PoolFrame, NEW t \in Actors, QuietActions(t) PROVE Quiet
  OBVIOUS
<1> USE DEF Quiet, PoolFrame, SlotPcs, Goto, poolVars, finVars
<1>1. ASSUME EnterShared(t) \/ ReserveGetMutex(t) \/ AdmitExhausted(t) \/
            EvictGetMutex(t) \/ EvictSkip(t) \/ EvictClose(t) \/ FinishEvict(t)
      PROVE  Quiet
  BY SMTT(60), <1>1 DEF EnterShared, ReserveGetMutex, AdmitExhausted,
       EvictGetMutex, EvictSkip, EvictClose, FinishEvict, callVars
<1>2. ASSUME AdmitConnected(t) \/ AdmitEvict(t)
      PROVE  Quiet
  BY SMTT(60), <1>2 DEF AdmitConnected, AdmitEvict, callVars
<1>3. ASSUME TransferBegin(t) \/ TransferOk(t) \/ TransferFails(t) \/
            PollDone(t) \/ PollFails(t)
      PROVE  Quiet
  BY SMTT(60), <1>3 DEF TransferBegin, TransferOk, TransferFails, PollDone,
       PollFails, callVars, AfterFailure
<1>4. ASSUME AutoDisconnect(t) \/ DestroyGetMutex(t) \/ DestroyClose(t) \/
            DestroyClientMutex(t) \/ DestroyUnlock(t)
      PROVE  Quiet
  BY SMTT(60), <1>4 DEF AutoDisconnect, DestroyGetMutex, DestroyClose,
       DestroyClientMutex, DestroyUnlock, callVars
<1> HIDE DEF Quiet, PoolFrame, SlotPcs, Goto, poolVars, finVars
<1>5. QED
  BY <1>1, <1>2, <1>3, <1>4 DEF QuietActions

LEMMA QuietBackground ==
  PoolFrame /\ (SendHeartbeat \/ DisconnectAll \/ FinalizeBegin \/ (\E c \in Clients : FinalizeClose(c))
                 \/ Finished) => Quiet
<1> SUFFICES ASSUME PoolFrame PROVE
      (SendHeartbeat \/ DisconnectAll \/ FinalizeBegin \/ (\E c \in Clients : FinalizeClose(c)) \/ Finished)
        => Quiet
  OBVIOUS
<1> USE DEF Quiet, PoolFrame, SlotPcs, Goto, poolVars, callVars, finVars, Actors
<1>1. HeartbeatCopy => Quiet
  BY SMTT(60) DEF HeartbeatCopy
<1>2. ASSUME NEW r \in Remotes, NEW alive \in BOOLEAN, CheckAlive(r, alive) PROVE Quiet
  BY ZenonT(60), <1>2 DEF CheckAlive
<1>3. HeartbeatSleep => Quiet
  BY SMTT(60) DEF HeartbeatSleep
<1>4. HeartbeatStop => Quiet
  BY DEF HeartbeatStop
<1>5. DisconnectAll \/ FinalizeBegin => Quiet
  BY DEF DisconnectAll, FinalizeBegin
<1>6. ASSUME NEW c \in Clients, FinalizeClose(c) PROVE Quiet
  BY <1>6 DEF FinalizeClose
<1>7. Finished => Quiet
  BY DEF Finished, vars
<1>8. QED
  BY ZenonT(60), <1>1, <1>2, <1>3, <1>4, <1>5, <1>6, <1>7 DEF SendHeartbeat

(* A step that takes links out of the pool *)
Shrinking ==
  /\ UNCHANGED <<setup, creating, resv>>
  /\ clients' = [r \in Remotes |-> clients'[r]]
  /\ Pooled' \subseteq Pooled
  /\ pc' = [t \in Actors |-> pc'[t]]
  /\ \A t \in Actors : pc'[t] \in SlotPcs <=> pc[t] \in SlotPcs

LEMMA ShrinkingStep == PoolInv /\ Shrinking => PoolInv'
<1> SUFFICES ASSUME PoolInv, Shrinking PROVE PoolInv'
  OBVIOUS
<1>1. PoolFrame'
  BY DEF PoolInv, PoolFrame, Shrinking
<1>2. SlotHeld' /\ ReservationsExact'
  BY SetupKept DEF PoolInv, SlotHeld, ReservationsExact, Shrinking
<1>3. PoolBound'
  <2>1. Cardinality(Pooled') <= Cardinality(Pooled) /\ Cardinality(Pooled') \in Nat
    BY ReservedFinite, FS_Subset, FS_CardinalityType DEF Shrinking
  <2>2. /\ PoolEnabled' = PoolEnabled /\ MaxChannel' = MaxChannel
        /\ creating' = creating
    BY SetupKept DEF Shrinking
  <2>3. creating \in Nat /\ MaxChannel \in Nat /\ Cardinality(Pooled) \in Nat
    BY ReservedFinite, SetupType DEF PoolInv, PoolFrame
  <2>4. QED
    BY <2>1, <2>2, <2>3 DEF PoolInv, PoolBound, Occupied
<1>4. QED
  BY <1>1, <1>2, <1>3 DEF PoolInv

LEMMA ShrinkingSteps ==
  PoolFrame /\ (FinalizeMove \/ FinalizeEnd
                 \/ \E t \in Actors : EvictErase(t) \/ DestroyErase(t)) => Shrinking
<1> SUFFICES ASSUME PoolFrame PROVE
      (FinalizeMove \/ FinalizeEnd \/ \E t \in Actors : EvictErase(t) \/ DestroyErase(t))
        => Shrinking
  OBVIOUS
<1> USE DEF Shrinking, PoolFrame, Pooled, SlotPcs, Goto, callVars, finVars
<1>1. FinalizeMove => Shrinking
  BY DEF FinalizeMove
<1>2. FinalizeEnd => Shrinking
  BY DEF FinalizeEnd
<1>3. ASSUME NEW t \in Actors, EvictErase(t) PROVE Shrinking
  BY <1>3 DEF EvictErase
<1>4. ASSUME NEW t \in Actors, DestroyErase(t) PROVE Shrinking
  BY <1>4 DEF DestroyErase
<1>5. QED
  BY <1>1, <1>2, <1>3, <1>4

LEMMA ReserveStep == ASSUME PoolInv, NEW t \in Actors, AdmitReserve(t) PROVE PoolInv'
<1> USE DEF AdmitReserve, Goto
<1>0. setup' = setup /\ PoolEnabled' = PoolEnabled /\ MaxChannel' = MaxChannel
  BY SetupKept DEF finVars
<1>1. pc[t] \notin SlotPcs /\ t \notin Reserved
  BY DEF PoolInv, SlotHeld, SlotPcs, Reserved
<1>2. PoolFrame'
  BY <1>0 DEF PoolInv, PoolFrame
<1>3. SlotHeld'
  BY <1>0 DEF PoolInv, PoolFrame, SlotHeld, SlotPcs
<1>4. ReservationsExact'
  <2>1. Reserved' = Reserved \cup {t}
    BY DEF PoolInv, PoolFrame, Reserved
  <2>2. Cardinality(Reserved') = Cardinality(Reserved) + 1
    BY ZenonT(60), <1>1, <2>1, ReservedFinite, FS_AddElement
  <2>3. QED
    BY <2>2, ReservedFinite DEF ReservationsExact, Reserved
<1>5. PoolBound'
  BY <1>0, SetupType, ReservedFinite
  DEF PoolInv, PoolFrame, HasFreeSlot, PoolBound, Occupied, Pooled
<1>6. QED
  BY <1>2, <1>3, <1>4, <1>5 DEF PoolInv

LEMMA ReturnSlot ==
  ASSUME PoolInv, NEW t \in Actors, resv[t], resv' = [resv EXCEPT ![t] = FALSE],
         creating' = SlotReturned
  PROVE  /\ creating > 0 /\ creating' = creating - 1 /\ creating' \in Nat
         /\ ReservationsExact'
<1>1. Reserved' = Reserved \ {t} /\ t \in Reserved
  BY DEF PoolInv, PoolFrame, Reserved
<1>2. Cardinality(Reserved') = Cardinality(Reserved) - 1
  BY ZenonT(60), <1>1, ReservedFinite, FS_RemoveElement
<1>3. creating > 0
  BY <1>1, ReservedFinite, FS_EmptySet DEF PoolInv, PoolFrame
<1>4. QED
  BY <1>2, <1>3, ReservedFinite
  DEF PoolInv, PoolFrame, SlotReturned, ReservationsExact, Reserved

LEMMA AddBound ==
  ASSUME NEW S, NEW x, IsFiniteSet(S)
  PROVE  IsFiniteSet(S \cup {x}) /\ Cardinality(S \cup {x}) <= Cardinality(S) + 1
<1>1. Cardinality(S) \in Nat
  BY FS_CardinalityType
<1>2. CASE x \in S
  BY <1>1, <1>2, FS_AddElement
<1>3. CASE x \notin S
  BY <1>1, <1>3, FS_AddElement
<1>4. QED
  BY <1>2, <1>3

LEMMA InsertStep == ASSUME PoolInv, NEW t \in Actors, InsertClient(t) PROVE PoolInv'
<1> USE DEF InsertClient, Goto
<1>0. setup' = setup /\ PoolEnabled' = PoolEnabled /\ MaxChannel' = MaxChannel
  BY SMTT(60), SetupKept DEF finVars
<1>1. resv[t] <=> PoolEnabled
  BY DEF PoolInv, SlotHeld, SlotPcs
<1>2. CASE PoolEnabled
  <2>1. /\ creating > 0 /\ creating' = creating - 1 /\ creating' \in Nat
        /\ ReservationsExact'
    BY ZenonT(60), <1>1, <1>2, ReturnSlot
  <2>2. PoolFrame' /\ SlotHeld'
    BY SMTT(60), <1>0, <2>1 DEF PoolInv, PoolFrame, SlotHeld, SlotPcs
  <2>3. Cardinality(Pooled') <= Cardinality(Pooled) + 1 /\ Cardinality(Pooled') \in Nat
    <3>1. Pooled' \subseteq Pooled \cup {rem[t]}
      BY SMTT(60) DEF PoolInv, PoolFrame, Pooled
    <3>2. /\ IsFiniteSet(Pooled \cup {rem[t]})
          /\ Cardinality(Pooled \cup {rem[t]}) <= Cardinality(Pooled) + 1
      BY ZenonT(60), ReservedFinite, AddBound
    <3> HIDE DEF InsertClient, Goto
    <3>3. /\ IsFiniteSet(Pooled')
          /\ Cardinality(Pooled') <= Cardinality(Pooled \cup {rem[t]})
      BY ZenonT(60), <3>1, <3>2, FS_Subset
    <3>4. QED
      BY SMTT(60), <3>2, <3>3, ReservedFinite, FS_CardinalityType
  <2>4. PoolBound'
    BY SMTT(60), <1>0, <2>1, <2>3, SetupType, ReservedFinite
    DEF PoolInv, PoolFrame, PoolBound, Occupied
  <2>5. QED
    BY SMTT(60), <2>1, <2>2, <2>4 DEF PoolInv
<1>3. CASE ~PoolEnabled
  <2>1. UNCHANGED <<creating, resv>>
    BY SMTT(60), <1>1, <1>3 DEF PoolInv, PoolFrame
  <2>2. PoolFrame' /\ SlotHeld' /\ ReservationsExact' /\ PoolBound'
    BY ZenonT(60), <1>0, <1>3, <2>1 DEF PoolInv, PoolFrame, SlotHeld, ReservationsExact, PoolBound
  <2>3. QED
    BY <2>2 DEF PoolInv
<1>4. QED
  BY SMTT(60), <1>2, <1>3

LEMMA ReleaseSlotStep ==
  ASSUME PoolInv, NEW t \in Actors, ReleaseChannelSlot(t) PROVE PoolInv'
<1> USE DEF ReleaseChannelSlot, Goto
<1>0. setup' = setup /\ PoolEnabled' = PoolEnabled /\ MaxChannel' = MaxChannel
  BY SetupKept DEF finVars
<1>1. CASE resv[t]
  <2>1. /\ creating > 0 /\ creating' = creating - 1 /\ creating' \in Nat
        /\ ReservationsExact'
    BY ZenonT(60), <1>1, ReturnSlot
  <2>2. PoolFrame' /\ SlotHeld'
    BY <1>0, <2>1 DEF PoolInv, PoolFrame, SlotHeld, SlotPcs
  <2>3. PoolBound'
    BY <1>0, <2>1, SetupType, ReservedFinite
    DEF PoolInv, PoolFrame, PoolBound, Occupied, Pooled
  <2>4. QED
    BY <2>1, <2>2, <2>3 DEF PoolInv
<1>2. CASE ~resv[t]
  <2>1. ~PoolEnabled /\ \A a \in Actors : ~resv[a]
    BY <1>2 DEF PoolInv, SlotHeld, SlotPcs
  <2>2. creating = 0
    BY <2>1, FS_EmptySet DEF PoolInv, ReservationsExact
  <2>3. UNCHANGED <<creating, resv>>
    BY <2>1, <2>2 DEF PoolInv, PoolFrame, SlotReturned
  <2>4. QED
    BY <1>0, <2>1, <2>3 DEF PoolInv, PoolFrame, SlotHeld, ReservationsExact, PoolBound
<1>3. QED
  BY <1>1, <1>2

LEMMA CreateSteps ==
  ASSUME PoolInv, NEW t \in Actors,
         CreateFails(t) \/ CreateClient(t) \/ ConnectFails(t) \/ AdmitUnlimited(t)
           \/ ReleaseUse(t)
  PROVE  PoolInv'
<1> USE DEF Goto, callVars, poolVars
<1>0. setup' = setup /\ PoolEnabled' = PoolEnabled /\ MaxChannel' = MaxChannel
  BY SMTT(60), SetupKept DEF finVars, CreateFails, CreateClient, ConnectFails, AdmitUnlimited, ReleaseUse
<1>1. UNCHANGED <<clients, creating>> /\ PoolFrame' /\ UNCHANGED resv
  BY ZenonT(60), <1>0 DEF CreateFails, CreateClient, ConnectFails, AdmitUnlimited, ReleaseUse, PoolInv,
         PoolFrame, SlotHeld, SlotPcs
<1>2. SlotHeld'
  BY SMTT(60), <1>0, <1>1 DEF CreateFails, CreateClient, ConnectFails, AdmitUnlimited, ReleaseUse, PoolInv,
              PoolFrame, SlotHeld, SlotPcs
<1>3. ReservationsExact' /\ PoolBound'
  BY <1>0, <1>1 DEF PoolInv, ReservationsExact, PoolBound, Occupied, Pooled
<1>4. QED
  BY SMTT(60), <1>1, <1>2, <1>3 DEF PoolInv

LEMMA PoolNext == PoolInv /\ [Next]_vars => PoolInv'
<1> SUFFICES ASSUME PoolInv, [Next]_vars PROVE PoolInv'
  OBVIOUS
<1>1. PoolFrame
  BY DEF PoolInv
<1>2. ASSUME NEW t \in Threads, Call(t) PROVE PoolInv'
  BY <1>1, <1>2, QuietCalls, QuietStep
<1>3. ASSUME NEW t \in Actors, Step(t) PROVE PoolInv'
  <2>1. CASE QuietActions(t)
    BY <1>1, <2>1, QuietSteps, QuietStep
  <2>2. CASE EvictErase(t) \/ DestroyErase(t)
    BY <1>1, <2>2, ShrinkingSteps, ShrinkingStep
  <2>3. CASE AdmitReserve(t) \/ InsertClient(t) \/ ReleaseChannelSlot(t)
    BY <2>3, ReserveStep, InsertStep, ReleaseSlotStep
  <2>4. CASE CreateFails(t) \/ CreateClient(t) \/ ConnectFails(t) \/ AdmitUnlimited(t)
               \/ ReleaseUse(t)
    BY <2>4, CreateSteps
  <2>5. QED
    BY <1>3, <2>1, <2>2, <2>3, <2>4
    DEF Step, QuietActions, Admit, Evict, Create, Transfer, DestroyClient
<1>4. CASE SendHeartbeat \/ Finished
  BY <1>1, <1>4, QuietBackground, QuietStep
<1>5. CASE Finalize
  BY SMTT(60), <1>1, <1>5, QuietBackground, QuietStep, ShrinkingSteps, ShrinkingStep DEF Finalize
<1>6. CASE UNCHANGED vars
  BY <1>6, QuietStep DEF Quiet, vars, poolVars, callVars, finVars, PoolInv, PoolFrame
<1>7. QED
  BY <1>2, <1>3, <1>4, <1>5, <1>6 DEF Next

(* For every number of threads and remotes and every max_channel, the      *)
(* links of the pool and the connects in progress never exceed             *)
(* max_channel: EvaluateChannelAdmit reserves under mutex_, and            *)
(* GetOrCreateClient turns the reservation into a link in one section.     *)
THEOREM PoolIsBounded == Spec => []PoolBound
<1>1. PoolInv => PoolBound
  BY DEF PoolInv
<1>2. QED
  BY <1>1, PoolInit, PoolNext, PTL DEF Spec

(* creating_count_ counts exactly the calls that hold a reservation, on    *)
(* every path through GetOrCreateClient.                                   *)
THEOREM ReservationsAreExact == Spec => []ReservationsExact
<1>1. PoolInv => ReservationsExact
  BY DEF PoolInv
<1>2. QED
  BY <1>1, PoolInit, PoolNext, PTL DEF Spec

=============================================================================
