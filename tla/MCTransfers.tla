---------------------------- MODULE MCTransfers ----------------------------
(***************************************************************************)
(* The transfers of the client server layer for TLC: the ring of the UB    *)
(* memory kernels, the clients of one transfer pool, and a client with a   *)
(* host endpoint.  Nothing of one part is read by another, so a behaviour  *)
(* is about one of them and leaves the others at their start.              *)
(***************************************************************************)
EXTENDS StarsRing

CONSTANTS
    Parts,                                            \* what a behaviour may be about
    c1, c2, Handles, NoHandle, MaxPoolSize, Pools,   \* of the pool
    HostHandles, FlagCount, ListNum, HostBatch        \* of the host client

VARIABLES
    about,
    setup, refCnt, poolSize, freeList, slots, step, active, abortActive, latched, pending,
    cur, left, hstate, flag, todo, stale, misuse, bad,
    avail, hostFlag, live, nic, hostLatched, hostState, sync, remote, open

Clients == {c1, c2}

Device(clients, sizes, initMayFail, errMapped) ==
    [device |-> clients, ubmem |-> {}, memcpy |-> FALSE, sizes |-> sizes,
     handles |-> Handles, chunks |-> 2,
     initMayFail |-> initMayFail, reinitMayFail |-> TRUE, errMapped |-> errMapped]

UbMem(clients, memcpy) ==
    [device |-> {}, ubmem |-> clients, memcpy |-> memcpy, sizes |-> {1},
     handles |-> Handles, chunks |-> 2,
     initMayFail |-> FALSE, reinitMayFail |-> TRUE, errMapped |-> TRUE]

(***************************************************************************)
(* Two device clients; two that ask for different sizes; one on a device   *)
(* without error flags whose pool may fail to initialize; a UB memory      *)
(* client in either mode, and two of them on one slot.                     *)
(***************************************************************************)
UbMemPair == [UbMem(Clients, FALSE) EXCEPT !.chunks = 1]

PoolSetups ==
    {Device(Clients, {2}, FALSE, TRUE),
     [Device(Clients, {1, 2}, FALSE, TRUE) EXCEPT !.handles = {CHOOSE h \in Handles : TRUE}],
     Device({c1}, {1, 2}, TRUE, FALSE), UbMemPair, UbMem({c1}, FALSE), UbMem({c1}, TRUE)}

UbMemSetups == {UbMemPair}

Pool == INSTANCE UbMemTransfers WITH Setups <- Pools

Host == INSTANCE HostTransfers WITH
    Handles <- HostHandles, BatchSize <- HostBatch,
    flag <- hostFlag, latched <- hostLatched, hstate <- hostState

ASSUME PoolAgrees == Pool!PoolAssumption /\ Pool!ClientAssumption /\ Pool!ModeAssumption
ASSUME HostAgrees == Host!HostAssumption

poolVars == <<setup, refCnt, poolSize, freeList, slots, step, active, abortActive, latched,
              pending, cur, left, hstate, flag, todo, stale, misuse, bad>>
hostVarsAll == <<avail, hostFlag, live, nic, hostLatched, hostState, sync, remote, open>>
all == <<about, vars, poolVars, hostVarsAll>>

MCInit ==
    /\ about \in Parts
    /\ Init /\ Pool!UbInit /\ Host!Init
    /\ about # "pool" => setup = CHOOSE s \in Pools : TRUE

MCNext ==
    /\ UNCHANGED about
    /\ \/ about = "ring" /\ Next /\ UNCHANGED <<poolVars, hostVarsAll>>
       \/ about = "pool" /\ Pool!PoolNext /\ UNCHANGED <<vars, hostVarsAll>>
       \/ about = "host" /\ Host!Next /\ UNCHANGED <<vars, poolVars>>

(***************************************************************************)
(* The fairness of each part, for the behaviours that are about it.        *)
(***************************************************************************)
RingStep(A) == about = "ring" /\ A /\ UNCHANGED <<about, poolVars, hostVarsAll>>
PoolStep(A) == about = "pool" /\ A /\ Pool!Disown /\ UNCHANGED <<about, setup, bad, vars, hostVarsAll>>
HostStep(A) == about = "host" /\ A /\ UNCHANGED <<about, vars, poolVars>>

MCSpec ==
    /\ MCInit /\ [][MCNext]_all
    /\ WF_all(RingStep(Kernel)) /\ WF_all(RingStep(Retire))
    /\ \A c \in Clients :
          /\ WF_all(c \in setup.device /\ PoolStep(Pool!CallStep(c)))
          /\ \A h \in Handles : WF_all(c \in setup.device /\ PoolStep(Pool!CheckStatus(c, h)))
    /\ \A i \in 0..MaxPoolSize - 1 : WF_all(setup.device # {} /\ PoolStep(Pool!DeviceStep(i)))
    /\ WF_all(HostStep(Host!Channel)) /\ WF_all(HostStep(Host!Poll))

-----------------------------------------------------------------------------
(***************************************************************************)
(* A client holds the slot it acquired until it gives it back: neither an  *)
(* Abort nor a Finalize of another client takes it away.                   *)
(***************************************************************************)
SlotsKept == Pool!SlotsKept

(***************************************************************************)
(* Nobody keeps or shares a slot of the pool by mistake: ref_cnt_ counts   *)
(* the clients that initialized the pool, a slot has one owner, and a free *)
(* slot is clean; but for what follows the two calls of misuse.            *)
(***************************************************************************)
PoolExact == Pool!RefCountExact /\ Pool!SlotsHaveOneOwner /\ Pool!FreeSlotsAreClean

(***************************************************************************)
(* COMPLETED is the truth for device, UB memory and host transfers, and    *)
(* the slot of a pending transfer is not given away under it.              *)
(***************************************************************************)
CompletedReally == Pool!CompletedReally /\ Pool!PendingKeepsSlot /\ Host!CompletedReally

(***************************************************************************)
(* The flags of a host client: every one is on the stack or belongs to one *)
(* pending transfer.                                                       *)
(***************************************************************************)
FlagsExact == Host!FlagsExact

(***************************************************************************)
(* What was submitted comes to an end: the polled transfers of a device    *)
(* and of a host client, and the wait for the notify of a batch.           *)
(***************************************************************************)
TransfersEnd == <>[](Pool!NoneWaits /\ Host!NonePending /\ NotWaiting)
=============================================================================
