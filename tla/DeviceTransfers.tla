-------------------------- MODULE DeviceTransfers --------------------------
(***************************************************************************)
(* The device transfers of the clients of one device: HixlCSClient of      *)
(* src/src/hixl/cs/hixl_cs_client.cc with a device endpoint, over the      *)
(* shared TransferPool.  All pending transfers of a client share one slot, *)
(* its active_slot_, a shared_ptr; the last reference gives the slot back. *)
(*                                                                         *)
(* mutex_ serializes the calls of one client.  A call is one step from one *)
(* access of the pool, or of a stream the device is working on, to the     *)
(* next; the device and the other clients run in between.                  *)
(***************************************************************************)
EXTENDS TransferPool

CONSTANTS
    Clients,   \* the device clients of the process
    Handles,   \* the transfers; each is submitted at most once, those of setup.handles
    NoHandle   \* a null handle

ClientAssumption ==
    /\ NoHandle \notin Handles
    /\ \A s \in Setups :
          /\ s.device \subseteq Clients /\ s.sizes \subseteq 1 .. MaxPoolSize
          /\ s.handles \subseteq Handles /\ s.chunks \in Nat \ {0}

Chunks == setup.chunks   \* the kernels of one transfer

NoIndex == MaxPoolSize

VARIABLES
    step,         \* what each client is doing
    active,       \* active_slot_: the index of the slot, or NoIndex
    abortActive,  \* abort_active_slot_
    latched,      \* transfer_failure_latched_
    pending,      \* pending_device_handles_
    cur,          \* the transfer of the call in progress
    left,         \* the kernels that call still has to launch
    hstate,       \* what the caller knows of each transfer
    flag,         \* the host_flag of a transfer
    todo,         \* the kernels of a transfer the device has not finished
    stale,        \* the clients whose active_slot_ was torn down in the pool
    misuse        \* the calls of the pool by clients that had no right to them

clientVars == <<step, active, abortActive, latched, pending, cur, left>>
transferVars == <<hstate, flag, todo>>
ownerVars == <<stale, misuse>>
vars == <<poolVars, clientVars, transferVars>>

(***************************************************************************)
(* absent: no client object; broken: a client whose InitDeviceResource     *)
(* failed after it had set device_id_; made: the pool is initialized, the  *)
(* rest of Create is not done; idle: no call in progress; async, sync:     *)
(* in such a call; closing: between the two aborts of the Finalize of a UB *)
(* memory engine; final: Destroy is about to finalize the pool.            *)
(***************************************************************************)
Steps == {"absent", "broken", "made", "idle", "async", "sync", "closing", "final"}

(***************************************************************************)
(* unused; live: submitted, or being submitted; completed, failed: the     *)
(* verdict of CheckStatus or of a synchronous call; rejected: the          *)
(* submitting call failed; dropped: Destroy released the handle.           *)
(***************************************************************************)
HStates == {"unused", "live", "completed", "failed", "rejected", "dropped"}

Kernel(h) == <<"kernel", h>>
Copy(h) == <<"copy", h>>
Tasks == {"kernel", "copy"} \X Handles

Init ==
    /\ PoolInit
    /\ step = [c \in Clients |-> "absent"]
    /\ active = [c \in Clients |-> NoIndex]
    /\ abortActive = [c \in Clients |-> FALSE]
    /\ latched = [c \in Clients |-> FALSE]
    /\ pending = [c \in Clients |-> {}]
    /\ cur = [c \in Clients |-> NoHandle]
    /\ left = [c \in Clients |-> 0]
    /\ hstate = [h \in Handles |-> "unused"]
    /\ flag = [h \in Handles |-> FALSE]
    /\ todo = [h \in Handles |-> 0]
    /\ stale = {}
    /\ misuse = {}

Goto(c, s) == step' = [step EXCEPT ![c] = s]
Verdict(h, v) == hstate' = [hstate EXCEPT ![h] = v]

-----------------------------------------------------------------------------
(***************************************************************************)
(* Create: InitDeviceResource stores the device and initializes the pool.  *)
(* When that fails, pool_rollback is not armed yet and device_id_ stays    *)
(* set, so the destructor of the failed client finalizes the pool as well. *)
(***************************************************************************)
Create(c, size) ==
    /\ step[c] = "absent"
    /\ \/ Initialize(size) /\ Goto(c, "made")
       \/ InitializeFails(size) /\ Goto(c, "broken")
    /\ latched' = [latched EXCEPT ![c] = FALSE]
    /\ abortActive' = [abortActive EXCEPT ![c] = FALSE]
    /\ UNCHANGED <<active, pending, cur, left, transferVars>>

(***************************************************************************)
(* The rest of Create; pool_rollback undoes the Initialize on an error.    *)
(***************************************************************************)
CreateRest(c) ==
    /\ step[c] = "made"
    /\ \/ Goto(c, "idle") /\ UNCHANGED poolVars
       \/ Finalize /\ Goto(c, "absent")
    /\ UNCHANGED <<active, abortActive, latched, pending, cur, left, transferVars>>

-----------------------------------------------------------------------------
(***************************************************************************)
(* ReleaseSharedSlotRef for the reference of transfer h, when the caller   *)
(* has left marked in abort_active_slot_ and failed in                     *)
(* transfer_failure_latched_.  The last reference clears the error flag    *)
(* and returns the slot: by Abort after a failure, by Release otherwise.   *)
(***************************************************************************)
ReleaseSharedSlotRef(c, h, marked, failed) ==
    IF pending[c] \ {h} # {}
    THEN /\ abortActive' = [abortActive EXCEPT ![c] = marked]
         /\ UNCHANGED <<poolVars, active>>
    ELSE /\ IF failed \/ marked THEN Abort(active[c]) ELSE Release(active[c])
         /\ abortActive' = [abortActive EXCEPT ![c] = FALSE]
         /\ active' = [active EXCEPT ![c] = NoIndex]

\* Mutant: a transfer takes a slot of its own although one is active.
SubmitAcquires(c, h, s) ==
    /\ step[c] = "idle"
    /\ ~latched[c]
    /\ h \in setup.handles /\ hstate[h] = "unused"
    /\ \E i \in Indices : Acquire(i) /\ active' = [active EXCEPT ![c] = i]
    /\ Goto(c, s)
    /\ cur' = [cur EXCEPT ![c] = h]
    /\ left' = [left EXCEPT ![c] = Chunks]
    /\ Verdict(h, "live")
    /\ todo' = [todo EXCEPT ![h] = Chunks]
    /\ UNCHANGED <<abortActive, latched, pending, flag>>

(***************************************************************************)
(* BatchTransferDeviceAsync and BatchTransferDeviceSync up to the launch:  *)
(* the call is refused after a latched failure, and shares the active slot *)
(* or acquires one.                                                        *)
(***************************************************************************)
Submit(c, h, s) ==
    /\ step[c] = "idle"
    /\ ~latched[c]
    /\ h \in setup.handles /\ hstate[h] = "unused"
    /\ \/ /\ active[c] # NoIndex
          /\ UNCHANGED <<poolVars, active>>
       \/ /\ active[c] = NoIndex
          /\ \E i \in Indices : Acquire(i) /\ active' = [active EXCEPT ![c] = i]
    /\ Goto(c, s)
    /\ cur' = [cur EXCEPT ![c] = h]
    /\ left' = [left EXCEPT ![c] = Chunks]
    /\ Verdict(h, "live")
    /\ todo' = [todo EXCEPT ![h] = Chunks]
    /\ UNCHANGED <<abortActive, latched, pending, flag>>

SubmitExhausted(c, h) ==
    /\ step[c] = "idle"
    /\ ~latched[c]
    /\ h \in setup.handles /\ hstate[h] = "unused"
    /\ active[c] = NoIndex
    /\ AcquireFails
    /\ Verdict(h, "rejected")
    /\ UNCHANGED <<poolVars, clientVars, flag, todo>>

(***************************************************************************)
(* The call of client c ends with an error.  Its status is latched when it *)
(* is FAILED or TIMEOUT, after the handle guard has run; a bare status of  *)
(* the runtime is not latched.                                             *)
(***************************************************************************)
CallFails(c, marks, latches, v) ==
    /\ ReleaseSharedSlotRef(c, cur[c], abortActive[c] \/ marks, latched[c])
    /\ latched' = [latched EXCEPT ![c] = @ \/ latches]
    /\ Goto(c, "idle")
    /\ Verdict(cur[c], v)
    /\ cur' = [cur EXCEPT ![c] = NoHandle]
    /\ left' = [left EXCEPT ![c] = 0]
    /\ UNCHANGED <<pending, flag, todo>>

(***************************************************************************)
(* An allocation before the first launch fails: the slot saw no work.      *)
(***************************************************************************)
PrepareFails(c) ==
    /\ step[c] \in {"async", "sync"}
    /\ left[c] = Chunks
    /\ \E latches \in BOOLEAN : CallFails(c, FALSE, latches, "rejected")

(***************************************************************************)
(* LaunchDeviceChunkedKernels launches the next kernel and waits for its   *)
(* notify on the stream.  The SlotHandle of a client is a copy: it names   *)
(* the stream the slot had when it was acquired, and once that stream is   *)
(* destroyed the runtime refuses it.                                       *)
(***************************************************************************)
LaunchKernel(c) ==
    /\ step[c] \in {"async", "sync"}
    /\ c \notin stale
    /\ left[c] > 0
    /\ Enqueue(active[c], Kernel(cur[c]))
    /\ left' = [left EXCEPT ![c] = @ - 1]
    /\ UNCHANGED <<refCnt, poolSize, freeList, step, active, abortActive, latched, pending, cur,
                   transferVars>>

(***************************************************************************)
(* A launch, the wait for its notify, or the copy of the completion word   *)
(* fails: kernels of the call may be on the stream, so the slot is marked  *)
(* for Abort.                                                              *)
(***************************************************************************)
LaunchFails(c) ==
    /\ step[c] \in {"async", "sync"}
    /\ \E latches \in BOOLEAN : CallFails(c, TRUE, latches, "rejected")

(***************************************************************************)
(* The end of BatchTransferDeviceAsync: the copy of the completion word is *)
(* queued behind the kernels and the caller gets the handle.               *)
(***************************************************************************)
LaunchCopy(c) ==
    /\ step[c] = "async"
    /\ c \notin stale
    /\ left[c] = 0
    /\ Enqueue(active[c], Copy(cur[c]))
    /\ pending' = [pending EXCEPT ![c] = @ \cup {cur[c]}]
    /\ cur' = [cur EXCEPT ![c] = NoHandle]
    /\ Goto(c, "idle")
    /\ UNCHANGED <<refCnt, poolSize, freeList, active, abortActive, latched, left, transferVars>>

(***************************************************************************)
(* aclrtSynchronizeStreamWithTimeout: the stream has run dry, it reports a *)
(* failed task, or the time is over (TIMEOUT, which is latched).           *)
(***************************************************************************)
SyncDone(c) ==
    /\ step[c] = "sync"
    /\ left[c] = 0
    /\ c \notin stale
    /\ slots[active[c]].stream = <<>>
    /\ ReleaseSharedSlotRef(c, cur[c], abortActive[c], latched[c])
    /\ Goto(c, "idle")
    /\ Verdict(cur[c], "completed")
    /\ cur' = [cur EXCEPT ![c] = NoHandle]
    /\ UNCHANGED <<latched, pending, left, flag, todo>>

SyncFails(c) ==
    /\ step[c] = "sync"
    /\ left[c] = 0
    /\ c \in stale \/ slots[active[c]].halted
    /\ CallFails(c, TRUE, FALSE, "failed")

SyncTimeout(c) ==
    /\ step[c] = "sync"
    /\ left[c] = 0
    /\ CallFails(c, TRUE, TRUE, "failed")

-----------------------------------------------------------------------------
(***************************************************************************)
(* What client c reads at the address of its slot's error flag.  The flags *)
(* outlive an Abort; after a Finalize of the whole pool it is freed memory.*)
(***************************************************************************)
ErrFlagRead(c) ==
    IF c \in stale /\ "finalize" \in misuse THEN BOOLEAN ELSE {ErrFlag(active[c])}

(***************************************************************************)
(* CheckStatusDevice: the completion word decides first, then a latched    *)
(* failure, then the error flag of the slot, which is latched.             *)
(***************************************************************************)
CheckStatus(c, h) ==
    /\ step[c] = "idle"
    /\ h \in pending[c]
    /\ \E err \in ErrFlagRead(c) :
       /\ flag[h] \/ latched[c] \/ err
       /\ Verdict(h, IF flag[h] THEN "completed" ELSE "failed")
       /\ latched' = [latched EXCEPT ![c] = @ \/ ~flag[h]]
       /\ ReleaseSharedSlotRef(c, h, abortActive[c], latched'[c])
    /\ pending' = [pending EXCEPT ![c] = @ \ {h}]
    /\ UNCHANGED <<step, cur, left, flag, todo>>

(***************************************************************************)
(* Destroy: AbortAllPendingDeviceHandles releases every handle, the last   *)
(* one aborts the slot; the pool is finalized at the end.                  *)
(***************************************************************************)
Destroy(c) ==
    /\ step[c] = "idle"
    /\ IF active[c] # NoIndex THEN Abort(active[c]) ELSE UNCHANGED poolVars
    /\ active' = [active EXCEPT ![c] = NoIndex]
    /\ abortActive' = [abortActive EXCEPT ![c] = FALSE]
    /\ hstate' = [h \in Handles |-> IF h \in pending[c] THEN "dropped" ELSE hstate[h]]
    /\ pending' = [pending EXCEPT ![c] = {}]
    /\ Goto(c, "final")
    /\ UNCHANGED <<latched, cur, left, flag, todo>>

DestroyPool(c) ==
    /\ step[c] \in {"final", "broken"}
    /\ Finalize
    /\ Goto(c, "absent")
    /\ UNCHANGED <<active, abortActive, latched, pending, cur, left, transferVars>>

\* Mutant: a failed kernel does not write the error flag.
KernelFailsSilently(i) ==
    /\ Runnable(i)
    /\ Head(slots[i].stream)[1] = "kernel"
    /\ slots' = [slots EXCEPT ![i].halted = TRUE]
    /\ UNCHANGED <<refCnt, poolSize, freeList, clientVars, transferVars>>

-----------------------------------------------------------------------------
(***************************************************************************)
(* The device runs the head of a stream.  A kernel that fails writes the   *)
(* error flag of its slot and halts the stream; the copy sets the          *)
(* completion word of its transfer.                                        *)
(***************************************************************************)
RunKernel(i) ==
    /\ Runnable(i)
    /\ LET task == Head(slots[i].stream) IN
       /\ task[1] = "kernel"
       /\ todo' = [todo EXCEPT ![task[2]] = @ - 1]
    /\ FinishHead(i)
    /\ UNCHANGED <<refCnt, poolSize, freeList, clientVars, hstate, flag>>

KernelFails(i) ==
    /\ Runnable(i)
    /\ Head(slots[i].stream)[1] = "kernel"
    /\ FailHead(i)
    /\ UNCHANGED <<refCnt, poolSize, freeList, clientVars, transferVars>>

RunCopy(i) ==
    /\ Runnable(i)
    /\ LET task == Head(slots[i].stream) IN
       /\ task[1] = "copy"
       /\ flag' = [flag EXCEPT ![task[2]] = TRUE]
    /\ FinishHead(i)
    /\ UNCHANGED <<refCnt, poolSize, freeList, clientVars, hstate, todo>>

ClientStep(c) ==
    \/ \E size \in setup.sizes : Create(c, size)
    \/ CreateRest(c)
    \/ \E h \in Handles : \/ \E s \in {"async", "sync"} : Submit(c, h, s)
                          \/ SubmitExhausted(c, h)
                          \/ CheckStatus(c, h)
    \/ PrepareFails(c) \/ LaunchKernel(c) \/ LaunchFails(c) \/ LaunchCopy(c)
    \/ SyncDone(c) \/ SyncFails(c) \/ SyncTimeout(c)
    \/ Destroy(c) \/ DestroyPool(c)

DeviceStep(i) == RunKernel(i) \/ KernelFails(i) \/ RunCopy(i)

(***************************************************************************)
(* Whose slot a step tears down.  A client that still names a slot whose   *)
(* in_use is cleared has a stale handle from then on.  Two calls are made  *)
(* by clients that had no right to them: the Finalize of a client whose    *)
(* Initialize had failed, when others have references, and the second      *)
(* Abort of a slot by the same client, when another has acquired it since. *)
(***************************************************************************)
Disown ==
    /\ stale' = {c \in Clients :
                   /\ active'[c] # NoIndex
                   /\ c \in stale \/ (slots[active'[c]].inUse /\ ~slots'[active'[c]].inUse)}
    /\ misuse' = misuse
         \cup {x \in {"finalize"} : refCnt > 0 /\ \E c \in Clients :
                                     step[c] = "broken" /\ step'[c] = "absent"}
         \cup {x \in {"abort"} : \E c \in stale :
                                  /\ step[c] = "closing" /\ step'[c] = "final"
                                  /\ slots[active[c]].inUse}

Next ==
    /\ \/ \E c \in setup.device : ClientStep(c)
       \/ \E i \in Indices : setup.device # {} /\ DeviceStep(i)
    /\ Disown /\ UNCHANGED setup

Spec == Init /\ [][Next]_<<setup, vars, ownerVars>>

-----------------------------------------------------------------------------
(***************************************************************************)
(* Types: the pool, every client's control state and every transfer.       *)
(***************************************************************************)
TypeOK ==
    /\ PoolTypeOK(Tasks)
    /\ step \in [Clients -> Steps]
    /\ active \in [Clients -> Indices \cup {NoIndex}]
    /\ abortActive \in [Clients -> BOOLEAN]
    /\ latched \in [Clients -> BOOLEAN]
    /\ pending \in [Clients -> SUBSET Handles]
    /\ cur \in [Clients -> Handles \cup {NoHandle}]
    /\ left \in [Clients -> 0 .. Chunks]
    /\ hstate \in [Handles -> HStates]
    /\ flag \in [Handles -> BOOLEAN]
    /\ todo \in [Handles -> 0 .. Chunks]
    /\ stale \subseteq Clients
    /\ misuse \subseteq {"finalize", "abort"}

(***************************************************************************)
(* The references of the pool are those of the clients that initialized it *)
(* and have not finalized it: ref_cnt_ counts nothing else, and is lower   *)
(* only after the Finalize of a client whose Initialize had failed.        *)
(***************************************************************************)
RefCountExact ==
    LET members == Cardinality({c \in Clients : step[c] \notin {"absent", "broken"}})
    IN  /\ refCnt <= members
        /\ refCnt < members => "finalize" \in misuse

(***************************************************************************)
(* A client holds the slot it acquired until it gives it back.             *)
(***************************************************************************)
SlotsKept == \A c \in stale : step[c] = "closing"

Holds(c) == active[c] # NoIndex /\ c \notin stale

OwnersExact ==
    /\ SlotsKept
    /\ \A j, k \in DOMAIN freeList : freeList[j] = freeList[k] => j = k
    /\ \A c, d \in Clients : Holds(c) /\ Holds(d) /\ active[c] = active[d] => c = d
    /\ \A c \in Clients :
          Holds(c) => /\ active[c] \notin FreeSlots
                      /\ slots[active[c]].inUse /\ slots[active[c]].up
    /\ \A i \in Indices :
          i < poolSize => \/ i \in FreeSlots
                          \/ \E c \in Clients : Holds(c) /\ active[c] = i
                          \/ Lost(i)
    /\ \A c \in setup.device :
          active[c] # NoIndex <=> pending[c] # {} \/ cur[c] # NoHandle

(***************************************************************************)
(* A slot is in the hands of one owner.  The free list names no slot twice *)
(* and no slot a client holds, no two clients hold the same slot, and a    *)
(* slot that is neither free nor held is one that could not be rebuilt.  A *)
(* device client holds its slot exactly while one of its transfers needs   *)
(* it: a pending one or that of the call in progress.  Only the two calls  *)
(* of misuse take a slot from its owner.                                   *)
(***************************************************************************)
SlotsHaveOneOwner == TypeOK /\ (misuse = {} => OwnersExact)

(***************************************************************************)
(* A slot is returned clean.  Whoever acquires a free slot finds it built, *)
(* with an idle stream that is not stuck behind a failed task of the       *)
(* former owner, and with no error flag that would fail its transfers.     *)
(* This is what device clients promise each other.                         *)
(***************************************************************************)
FreeSlotsAreClean ==
    setup.device # {} /\ misuse = {} => \A i \in FreeSlots : slots[i] = FreshSlot

(***************************************************************************)
(* COMPLETED is the truth: a transfer reported as completed, by            *)
(* CheckStatus or by a synchronous call, has run all of its kernels.       *)
(***************************************************************************)
CompletedReally ==
    \A h \in Handles : hstate[h] = "completed" => todo[h] = 0

-----------------------------------------------------------------------------
(***************************************************************************)
(* A call in progress goes on and its timeout is finite, the caller keeps  *)
(* polling its handles, and the device runs its streams: a kernel either   *)
(* ends or is failed by the timeout it was launched with.                  *)
(***************************************************************************)
CallStep(c) ==
    LaunchKernel(c) \/ LaunchCopy(c) \/ SyncDone(c) \/ SyncFails(c) \/ SyncTimeout(c)

Fairness ==
    /\ \A c \in Clients :
          /\ WF_vars(c \in setup.device /\ CallStep(c) /\ Disown)
          /\ \A h \in Handles : WF_vars(c \in setup.device /\ CheckStatus(c, h) /\ Disown)
    /\ \A i \in Indices : WF_vars(setup.device # {} /\ DeviceStep(i) /\ Disown)

FairSpec == Spec /\ Fairness

(***************************************************************************)
(* No transfer is without a verdict.  As a transfer is submitted at most   *)
(* once, <>[]NoneWaits says that one whose handle is polled does not stay  *)
(* WAITING for ever, also when a kernel of it, or of another transfer on   *)
(* the same stream, fails.  The error flag is mapped and no slot was taken *)
(* from its owner; otherwise nothing tells a poller of the failure.        *)
(***************************************************************************)
NoneWaits == setup.device # {} /\ ErrMapped /\ misuse = {} => \A h \in Handles : hstate[h] # "live"
=============================================================================
