---------------------------- MODULE TransferPool ----------------------------
(***************************************************************************)
(* The per-device pool of transfer slots of src/src/hixl/cs/               *)
(* transfer_pool.cc.  A slot bundles a runtime context, its default        *)
(* stream, an hcomm thread, a notify and one byte of error flag; a client  *)
(* acquires a slot, launches work on the slot's stream, and gives it back  *)
(* by Release (the stream is idle) or Abort (the stream is torn down and   *)
(* the slot rebuilt).  The pool is reference counted by its Initialize and *)
(* Finalize calls, which every device client and the server make.          *)
(*                                                                         *)
(* Every public method holds mu_ from its first to its last access, so     *)
(* each is one step.  inited_ is set and cleared together with pool_size_  *)
(* inside the lock, so Inited is a reading of pool_size_.                  *)
(***************************************************************************)
EXTENDS Naturals, Sequences, FiniteSets

CONSTANTS
    MaxPoolSize,   \* kMaxPoolSize: the largest pool a configuration may ask for
    Setups         \* the devices and the clients that are looked at

PoolAssumption ==
    /\ MaxPoolSize \in Nat \ {0}
    /\ \A s \in Setups : {s.initMayFail, s.reinitMayFail, s.errMapped} \subseteq BOOLEAN

VARIABLES
    setup,     \* the device, the kinds of clients and their options; never changes
    refCnt,    \* ref_cnt_
    poolSize,  \* pool_size_
    freeList,  \* free_list_, the head is acquired next
    slots      \* slots_ and the work queued on their streams

poolVars == <<refCnt, poolSize, freeList, slots>>

InitMayFail == setup.initMayFail      \* creating the resources of a pool can fail
ReinitMayFail == setup.reinitMayFail  \* rebuilding an aborted slot can fail
ErrMapped == setup.errMapped          \* the error flag block is mapped for host and device

Indices == 0 .. MaxPoolSize - 1

Inited == poolSize > 0

(***************************************************************************)
(* Slot{}: up says that the context, stream, thread and notify exist; err  *)
(* is the slot's byte of the error flag block; stream is the queue of the  *)
(* slot's stream and halted that a task of it failed: the stream runs with *)
(* ACL_STOP_ON_FAILURE, so nothing behind a failed task runs.              *)
(***************************************************************************)
NoSlot ==
    [inUse |-> FALSE, up |-> FALSE, err |-> FALSE, halted |-> FALSE, stream |-> <<>>]

FreshSlot == [NoSlot EXCEPT !.up = TRUE]

PoolInit ==
    /\ setup \in Setups
    /\ refCnt = 0
    /\ poolSize = 0
    /\ freeList = <<>>
    /\ slots = [i \in Indices |-> NoSlot]

-----------------------------------------------------------------------------
(***************************************************************************)
(* Initialize: a later caller shares the pool, if it asks for the same     *)
(* size; the first one builds the slots and the free list.                 *)
(***************************************************************************)
InitFreeList(size) == [i \in 1 .. size |-> i - 1]

Initialize(size) ==
    \/ /\ Inited
       /\ size = poolSize
       /\ refCnt' = refCnt + 1
       /\ UNCHANGED <<poolSize, freeList, slots>>
    \/ /\ ~Inited
       /\ poolSize' = size
       /\ refCnt' = 1
       /\ freeList' = InitFreeList(size)
       /\ slots' = [i \in Indices |-> IF i < size THEN FreshSlot ELSE NoSlot]

(***************************************************************************)
(* Initialize fails on another size, or on a resource; init_rollback then  *)
(* leaves the pool as it was, empty.                                       *)
(***************************************************************************)
InitializeFails(size) ==
    /\ IF Inited THEN size # poolSize ELSE InitMayFail
    /\ UNCHANGED poolVars

(***************************************************************************)
(* DeinitAllSlotsLocked destroys every slot and forgets the size.          *)
(***************************************************************************)
DeinitAllSlots ==
    /\ poolSize' = 0
    /\ freeList' = <<>>
    /\ slots' = [i \in Indices |-> NoSlot]

(***************************************************************************)
(* Finalize drops a reference; the last one aborts the streams in use and  *)
(* destroys every slot.  Without a reference it does nothing.              *)
(***************************************************************************)
Finalize ==
    CASE refCnt = 0 -> UNCHANGED poolVars
      [] refCnt > 1 -> refCnt' = refCnt - 1 /\ UNCHANGED <<poolSize, freeList, slots>>
      [] refCnt = 1 -> refCnt' = 0 /\ DeinitAllSlots

(***************************************************************************)
(* Acquire takes the slot at the front of the free list; it fails when     *)
(* there is none (RESOURCE_EXHAUSTED) or no pool.                          *)
(***************************************************************************)
Acquire(i) ==
    /\ freeList # <<>>
    /\ i = Head(freeList)
    /\ freeList' = Tail(freeList)
    /\ slots' = [slots EXCEPT ![i].inUse = TRUE]
    /\ UNCHANGED <<refCnt, poolSize>>

AcquireFails == freeList = <<>>

(***************************************************************************)
(* Release returns a slot in use to the back of the free list and clears   *)
(* its error flag; the stream keeps what is queued on it.                  *)
(***************************************************************************)
Release(i) ==
    IF i < poolSize /\ slots[i].inUse
    THEN /\ slots' = [slots EXCEPT ![i].inUse = FALSE, ![i].err = FALSE]
         /\ freeList' = Append(freeList, i)
         /\ UNCHANGED <<refCnt, poolSize>>
    ELSE UNCHANGED poolVars

(***************************************************************************)
(* AbortSlotByIndexLocked stops the stream, deletes the transfer context   *)
(* and rebuilds the slot.  A slot that cannot be rebuilt is in no list any *)
(* more: in_use is cleared and nobody gives it back before the whole pool  *)
(* is finalized.                                                           *)
(***************************************************************************)
RebuildSlot(i) ==
    /\ slots' = [slots EXCEPT ![i] = FreshSlot]
    /\ freeList' = Append(freeList, i)

LoseSlot(i) ==
    /\ ReinitMayFail
    /\ slots' = [slots EXCEPT ![i] = NoSlot]
    /\ UNCHANGED freeList

Abort(i) ==
    IF i < poolSize /\ slots[i].inUse
    THEN (RebuildSlot(i) \/ LoseSlot(i)) /\ UNCHANGED <<refCnt, poolSize>>
    ELSE UNCHANGED poolVars

-----------------------------------------------------------------------------
(***************************************************************************)
(* The work of a slot's stream: a task is a kernel or the copy of the      *)
(* completion word of a transfer.                                          *)
(***************************************************************************)
Enqueue(i, task) ==
    slots' = [slots EXCEPT ![i].stream = Append(@, task)]

(***************************************************************************)
(* What the host reads in the error flag of a slot, and what a failing     *)
(* task leaves there: nothing without a mapping.                           *)
(***************************************************************************)
ErrFlag(i) == ErrMapped /\ slots[i].err

FailHead(i) == slots' = [slots EXCEPT ![i].halted = TRUE, ![i].err = ErrMapped]

FinishHead(i) == slots' = [slots EXCEPT ![i].stream = Tail(@)]

Runnable(i) == slots[i].stream # <<>> /\ ~slots[i].halted

Lost(i) == i < poolSize /\ ~slots[i].up

FreeSlots == {freeList[k] : k \in DOMAIN freeList}

PoolTypeOK(Tasks) ==
    /\ setup \in Setups
    /\ refCnt \in Nat
    /\ poolSize \in 0 .. MaxPoolSize
    /\ freeList \in Seq(Indices)
    /\ slots \in [Indices -> [inUse : BOOLEAN, up : BOOLEAN, err : BOOLEAN,
                              halted : BOOLEAN, stream : Seq(Tasks)]]
=============================================================================
