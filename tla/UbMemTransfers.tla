--------------------------- MODULE UbMemTransfers ---------------------------
(***************************************************************************)
(* The transfers of a client of the UB memory protocol: UbMemEngine of     *)
(* src/src/hixl/cs/ubmem/ubmem_engine.cc, to which HixlCSClient hands its  *)
(* transfers when the endpoint is a UB_MEM one.  The client around it is   *)
(* the one of DeviceTransfers; active and pending are now the active_slot_ *)
(* and pending_handles_ of the engine.                                     *)
(*                                                                         *)
(* A transfer is a number of kernels (AICPU mode) or of copies (memcpy     *)
(* mode) on the stream of the slot, followed by the copy of its completion *)
(* word.  An AICPU kernel reports its result in a status word.             *)
(***************************************************************************)
EXTENDS DeviceTransfers

ModeAssumption ==
    \A s \in Setups : s.ubmem \subseteq Clients \ s.device /\ s.memcpy \in BOOLEAN

Memcpy == setup.memcpy   \* UseMemcpyMode(): enable_aicpu_unfold is off

VARIABLE
    bad      \* the transfers with a non-zero word in their status_buf

ubVars == <<vars, bad>>

UbInit == Init /\ bad = {}

-----------------------------------------------------------------------------
(***************************************************************************)
(* What the host does when a synchronous call fails: the error flag of the *)
(* slot is raised, if it is mapped.                                        *)
(***************************************************************************)
RaiseErrFlag(i) == slots' = [slots EXCEPT ![i].err = ErrMapped]

EndCall(c, v, latches) ==
    /\ Goto(c, "idle")
    /\ Verdict(cur[c], v)
    /\ latched' = [latched EXCEPT ![c] = @ \/ latches]
    /\ cur' = [cur EXCEPT ![c] = NoHandle]
    /\ left' = [left EXCEPT ![c] = 0]

(***************************************************************************)
(* ReleaseUbMemSlot: the engine's own reference is the last one when no    *)
(* handle is pending; the error flag decides between Abort and Release.    *)
(***************************************************************************)
ReleaseUbMemSlot(c) ==
    IF pending[c] # {}
    THEN UNCHANGED <<poolVars, active>>
    ELSE /\ IF ErrFlag(active[c]) THEN Abort(active[c]) ELSE Release(active[c])
         /\ active' = [active EXCEPT ![c] = NoIndex]

(***************************************************************************)
(* The host flag or the handle cannot be allocated: slot_guard runs.       *)
(***************************************************************************)
AllocFails(c) ==
    /\ step[c] \in {"async", "sync"}
    /\ left[c] = Chunks
    /\ ReleaseUbMemSlot(c)
    /\ \E latches \in BOOLEAN : EndCall(c, "rejected", latches)
    /\ UNCHANGED <<abortActive, pending, flag, todo, bad>>

(***************************************************************************)
(* A later step of the submission fails: handle_guard frees the handle and *)
(* drops its reference; the slot stays with the engine, with whatever was  *)
(* launched on its stream.                                                 *)
(***************************************************************************)
SubmissionFails(c) ==
    /\ step[c] \in {"async", "sync"}
    /\ cur[c] \notin pending[c]
    /\ \E latches \in BOOLEAN : EndCall(c, "rejected", latches)
    /\ UNCHANGED <<poolVars, active, abortActive, pending, flag, todo, bad>>

(***************************************************************************)
(* The end of SubmitAicpuAsync and SubmitMemcpyAsync, which the            *)
(* synchronous calls go through as well.                                   *)
(***************************************************************************)
UbLaunchCopy(c) ==
    /\ step[c] \in {"async", "sync"}
    /\ c \notin stale
    /\ left[c] = 0
    /\ cur[c] \notin pending[c]
    /\ Enqueue(active[c], Copy(cur[c]))
    /\ pending' = [pending EXCEPT ![c] = @ \cup {cur[c]}]
    /\ IF step[c] = "async"
       THEN cur' = [cur EXCEPT ![c] = NoHandle] /\ Goto(c, "idle")
       ELSE UNCHANGED <<cur, step>>
    /\ UNCHANGED <<refCnt, poolSize, freeList, active, abortActive, latched, left, transferVars, bad>>

-----------------------------------------------------------------------------
InSync(c) == step[c] = "sync" /\ cur[c] \in pending[c]

FreeHandle(c, h) == pending' = [pending EXCEPT ![c] = @ \ {h}]

(***************************************************************************)
(* SubmitAicpuSync: the stream has run dry; the status words decide.  On   *)
(* success handle_guard is dismissed and the handle stays in               *)
(* pending_handles_.                                                       *)
(***************************************************************************)
AicpuSyncDone(c) ==
    /\ ~Memcpy
    /\ InSync(c)
    /\ c \notin stale
    /\ slots[active[c]].stream = <<>>
    /\ IF cur[c] \in bad
       THEN EndCall(c, "failed", TRUE) /\ FreeHandle(c, cur[c])
       ELSE EndCall(c, "completed", FALSE) /\ UNCHANGED pending
    /\ UNCHANGED <<poolVars, active, abortActive, flag, todo, bad>>

(***************************************************************************)
(* SubmitMemcpySync polls CheckStatus: the completion word, then the error *)
(* flag, which an earlier failure on the same slot may have raised.        *)
(***************************************************************************)
MemcpySyncDone(c) ==
    /\ Memcpy
    /\ InSync(c)
    /\ \E err \in ErrFlagRead(c) : flag[cur[c]] \/ err
    /\ FreeHandle(c, cur[c])
    /\ EndCall(c, IF flag[cur[c]] THEN "completed" ELSE "failed", ~flag[cur[c]])
    /\ UNCHANGED <<poolVars, active, abortActive, flag, todo, bad>>

(***************************************************************************)
(* The synchronous call fails: the stream reports an error (AICPU mode; a  *)
(* bare status that is not latched) or the time is over.                   *)
(***************************************************************************)
UbSyncFails(c) ==
    /\ InSync(c)
    /\ \E timeout \in BOOLEAN :
          /\ timeout \/ (~Memcpy /\ (c \in stale \/ slots[active[c]].halted))
          /\ EndCall(c, "failed", timeout)
    /\ FreeHandle(c, cur[c])
    /\ RaiseErrFlag(active[c])
    /\ UNCHANGED <<refCnt, poolSize, freeList, active, abortActive, flag, todo, bad>>

\* Mutant: the status words of the kernels are not consulted.
UbCheckStatusByFlag(c, h) ==
    /\ step[c] = "idle"
    /\ h \in pending[c]
    /\ hstate[h] = "live"
    /\ \/ flag[h] /\ Verdict(h, "completed") /\ UNCHANGED latched
       \/ /\ ~flag[h] /\ ErrFlag(active[c])
          /\ Verdict(h, "failed")
          /\ latched' = [latched EXCEPT ![c] = TRUE]
    /\ FreeHandle(c, h)
    /\ UNCHANGED <<poolVars, step, active, abortActive, cur, left, flag, todo, bad>>

(***************************************************************************)
(* CheckStatus: the completion word with the status words, which may not   *)
(* be readable, or the error flag.  A FAILED verdict is latched by the     *)
(* client, the bare status of a failed read is not.  The handle drops its  *)
(* reference; nothing returns the slot.                                    *)
(***************************************************************************)
UbCheckStatus(c, h) ==
    /\ step[c] = "idle"
    /\ h \in pending[c]
    /\ hstate[h] = "live"
    /\ \/ flag[h] /\ h \notin bad /\ Verdict(h, "completed") /\ UNCHANGED latched
       \/ flag[h] /\ ~Memcpy /\ Verdict(h, "failed") /\ UNCHANGED latched
       \/ /\ \E err \in ErrFlagRead(c) : IF flag[h] THEN h \in bad ELSE err
          /\ Verdict(h, "failed")
          /\ latched' = [latched EXCEPT ![c] = TRUE]
    /\ FreeHandle(c, h)
    /\ UNCHANGED <<poolVars, step, active, abortActive, cur, left, flag, todo, bad>>

-----------------------------------------------------------------------------
(***************************************************************************)
(* Destroy calls UbMemEngine::Finalize: AbortPendingHandles aborts the     *)
(* slot of the pending handles, then the active slot is aborted.  These    *)
(* are two calls of the pool.                                              *)
(***************************************************************************)
AbortPendingHandles(c) ==
    /\ step[c] = "idle"
    /\ IF pending[c] # {} THEN Abort(active[c]) ELSE UNCHANGED poolVars
    /\ hstate' = [h \in Handles |->
                     IF h \in pending[c] /\ hstate[h] = "live" THEN "dropped" ELSE hstate[h]]
    /\ pending' = [pending EXCEPT ![c] = {}]
    /\ Goto(c, "closing")
    /\ UNCHANGED <<active, abortActive, latched, cur, left, flag, todo, bad>>

AbortActiveSlot(c) ==
    /\ step[c] = "closing"
    /\ IF active[c] # NoIndex THEN Abort(active[c]) ELSE UNCHANGED poolVars
    /\ active' = [active EXCEPT ![c] = NoIndex]
    /\ Goto(c, "final")
    /\ UNCHANGED <<abortActive, latched, pending, cur, left, transferVars, bad>>

(***************************************************************************)
(* A kernel fails: it writes its status word, and the runtime halts the    *)
(* stream or goes on.  A failed copy halts the stream and leaves no word.  *)
(***************************************************************************)
UbTaskFails(i) ==
    /\ Runnable(i)
    /\ LET task == Head(slots[i].stream) IN
       /\ task[1] = "kernel"
       /\ bad' = IF Memcpy THEN bad ELSE bad \cup {task[2]}
    /\ \/ slots' = [slots EXCEPT ![i].halted = TRUE]
       \/ ~Memcpy /\ FinishHead(i)
    /\ UNCHANGED <<refCnt, poolSize, freeList, clientVars, transferVars>>

UbClientStep(c) ==
    \/ /\ \/ \E size \in setup.sizes : Create(c, size)
          \/ CreateRest(c)
          \/ \E h \in Handles : \/ \E s \in {"async", "sync"} : Submit(c, h, s)
                                \/ SubmitExhausted(c, h)
          \/ LaunchKernel(c)
          \/ DestroyPool(c)
       /\ UNCHANGED bad
    \/ AllocFails(c) \/ SubmissionFails(c) \/ UbLaunchCopy(c)
    \/ AicpuSyncDone(c) \/ MemcpySyncDone(c) \/ UbSyncFails(c)
    \/ \E h \in Handles : UbCheckStatus(c, h)
    \/ AbortPendingHandles(c) \/ AbortActiveSlot(c)

UbDeviceStep(i) == UbTaskFails(i) \/ ((RunKernel(i) \/ RunCopy(i)) /\ UNCHANGED bad)

(***************************************************************************)
(* The clients of a pool are device clients, or UB memory clients.         *)
(***************************************************************************)
PoolNext ==
    /\ \/ \E c \in setup.device : ClientStep(c) /\ UNCHANGED bad
       \/ \E c \in setup.ubmem : UbClientStep(c)
       \/ \E i \in Indices :
             \/ setup.device # {} /\ DeviceStep(i) /\ UNCHANGED bad
             \/ setup.ubmem # {} /\ UbDeviceStep(i)
    /\ Disown /\ UNCHANGED setup

PoolSpec == UbInit /\ [][PoolNext]_<<setup, ubVars, ownerVars>>

-----------------------------------------------------------------------------
(***************************************************************************)
(* A handle's slot is not given away under it: while a handle is pending   *)
(* the engine holds the slot it was submitted on, unless one of the two    *)
(* calls of misuse was made.                                               *)
(***************************************************************************)
PendingKeepsSlot ==
    misuse = {} => \A c \in Clients : pending[c] # {} => Holds(c)
=============================================================================
