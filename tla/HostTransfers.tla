--------------------------- MODULE HostTransfers ---------------------------
(***************************************************************************)
(* The transfers of a client with a host endpoint: HixlCSClient of         *)
(* src/src/hixl/cs/hixl_cs_client.cc.  The client posts reads and writes   *)
(* on its channel, closes each batch with a fence, and then reads a        *)
(* constant 1 of the server into a flag of its own; the flag is 1 when the *)
(* transfer is complete.  Flags are handed out from a stack.               *)
(*                                                                         *)
(* mutex_ serializes the calls; only a synchronous transfer lets the       *)
(* channel work during a call, so that its wait is a state.                *)
(***************************************************************************)
EXTENDS Naturals, Sequences, SequencesExt

CONSTANTS
    Handles,    \* the transfers; each is submitted at most once
    NoHandle,   \* a null handle
    FlagCount,  \* kFlagQueueSize
    ListNum,    \* the descriptors of a transfer
    BatchSize   \* the descriptors between two fences

HostAssumption ==
    /\ NoHandle \notin Handles
    /\ {FlagCount, ListNum, BatchSize} \subseteq Nat \ {0}

VARIABLES
    avail,    \* available_indices_ below top_index_; the last is taken first
    flag,     \* flag_queue_
    live,     \* live_handles_
    nic,      \* the operations of the channel that are not complete
    latched,  \* transfer_failure_latched_
    hstate,   \* what the caller knows of each transfer
    sync,     \* the transfer a synchronous call waits for
    remote,   \* the remote memory is imported and recorded
    open      \* Destroy has not been called

vars == <<avail, flag, live, nic, latched, hstate, sync, remote, open>>

Flags == 0..FlagCount - 1
Fence == <<"fence">>
Ops == {Fence} \cup ({"data"} \X Handles) \cup ({"flag"} \X Flags)
AllFlags == [i \in 1..FlagCount |-> i - 1]

Init ==
    /\ avail = AllFlags
    /\ flag = [f \in Flags |-> 0]
    /\ live = [f \in Flags |-> NoHandle]
    /\ nic = <<>>
    /\ latched = FALSE
    /\ hstate = [h \in Handles |-> "new"]
    /\ sync = NoHandle
    /\ remote = FALSE
    /\ open = TRUE

-----------------------------------------------------------------------------

(***************************************************************************)
(* What TransferWithRetry and BatchTransferTask have posted after n of the *)
(* descriptors, the last batch of them closed or not; the posts in again   *)
(* met HCCL_E_AGAIN and were repeated behind a fence.                      *)
(***************************************************************************)
BatchTransfer(h, n, closed, again) ==
    FlattenSeq([i \in 1..n |->
        (IF i \in again THEN <<Fence>> ELSE <<>>)
        \o << <<"data", h>> >>
        \o (IF i \in {k \in 1..n : k % BatchSize = 0 \/ k = ListNum} /\ (i < n \/ closed)
            THEN <<Fence>> ELSE <<>>)])

Posts(h, n, closed) == {BatchTransfer(h, n, closed, again) : again \in SUBSET (1..n)}

ReleaseFlagIndex(f) ==
    IF Len(avail) < FlagCount
    THEN avail' = Append(avail, f) /\ flag' = [flag EXCEPT ![f] = 0]
    ELSE UNCHANGED <<avail, flag>>

\* Mutant: the handle stays in live_handles_.
ReleaseKeepsHandle(f) ==
    /\ ReleaseFlagIndex(f)
    /\ UNCHANGED live

ReleaseCompleteHandle(f) ==
    /\ ReleaseFlagIndex(f)
    /\ live' = [live EXCEPT ![f] = NoHandle]

(***************************************************************************)
(* LatchTransferFailureIfNeeded: FAILED and TIMEOUT close the client for   *)
(* further transfers, other errors do not.                                 *)
(***************************************************************************)
LatchTransferFailureIfNeeded(ret) == latched' = (latched \/ ret \in {"FAILED", "TIMEOUT"})

Submit(h) ==
    /\ open /\ sync = NoHandle /\ ~latched
    /\ remote
    /\ hstate[h] = "new"
    /\ UNCHANGED <<remote, open>>

Give(h, ret) ==
    /\ hstate' = [hstate EXCEPT ![h] = "failed"]
    /\ LatchTransferFailureIfNeeded(ret)
    /\ UNCHANGED <<live, sync>>

(***************************************************************************)
(* A post or a fence of the data fails; what was posted stays posted.      *)
(***************************************************************************)
DataFails(h, ret) ==
    /\ Submit(h)
    /\ \E n \in 0..ListNum, closed \in BOOLEAN :
          /\ n < ListNum \/ ~closed
          /\ \E ops \in Posts(h, n, closed) : nic' = nic \o ops
    /\ Give(h, ret)
    /\ UNCHANGED <<avail, flag>>

(***************************************************************************)
(* All flags are taken; the data is on its way nevertheless.               *)
(***************************************************************************)
NoFlagLeft(h) ==
    /\ Submit(h)
    /\ avail = <<>>
    /\ \E ops \in Posts(h, ListNum, TRUE) : nic' = nic \o ops
    /\ Give(h, "RESOURCE_EXHAUSTED")
    /\ UNCHANGED <<avail, flag>>

(***************************************************************************)
(* The read of the flag cannot be posted, or it is posted and there is no  *)
(* memory for the handle: the guard releases the flag.                     *)
(***************************************************************************)
FlagFails(h, ret) ==
    /\ Submit(h)
    /\ avail # <<>>
    /\ \E ops \in Posts(h, ListNum, TRUE) : nic' = nic \o ops
    /\ flag' = [flag EXCEPT ![Last(avail)] = 0]
    /\ Give(h, ret)
    /\ UNCHANGED avail

HandleFails(h) ==
    /\ Submit(h)
    /\ avail # <<>>
    /\ \E ops \in Posts(h, ListNum, TRUE) : nic' = nic \o ops \o << <<"flag", Last(avail)>> >>
    /\ flag' = [flag EXCEPT ![Last(avail)] = 0]
    /\ Give(h, "FAILED")
    /\ UNCHANGED avail

(***************************************************************************)
(* BatchTransferHostAsync succeeds; BatchTransferHostSync goes on to wait. *)
(***************************************************************************)
BatchTransferHost(h, waits) ==
    /\ Submit(h)
    /\ avail # <<>>
    /\ \E ops \in Posts(h, ListNum, TRUE) : nic' = nic \o ops \o << <<"flag", Last(avail)>> >>
    /\ avail' = Front(avail)
    /\ live' = [live EXCEPT ![Last(avail)] = h]
    /\ hstate' = [hstate EXCEPT ![h] = "pending"]
    /\ sync' = IF waits THEN h ELSE NoHandle
    /\ UNCHANGED <<flag, latched>>

(***************************************************************************)
(* CheckStatusHost on a transfer whose flag is set, by the caller or in    *)
(* the wait of a synchronous transfer.                                     *)
(***************************************************************************)
CheckStatusHost(f) ==
    /\ open
    /\ live[f] # NoHandle
    /\ sync \in {NoHandle, live[f]}
    /\ flag[f] = 1
    /\ hstate' = [hstate EXCEPT ![live[f]] = "completed"]
    /\ ReleaseCompleteHandle(f)
    /\ sync' = NoHandle
    /\ UNCHANGED <<nic, latched, remote, open>>

SyncTimeout(f) ==
    /\ sync # NoHandle /\ live[f] = sync
    /\ hstate' = [hstate EXCEPT ![sync] = "failed"]
    /\ ReleaseCompleteHandle(f)
    /\ LatchTransferFailureIfNeeded("TIMEOUT")
    /\ sync' = NoHandle
    /\ UNCHANGED <<nic, remote, open>>

(***************************************************************************)
(* GetRemoteMem: what was imported is dropped before the new import, which *)
(* may fail and then leaves nothing recorded.                              *)
(***************************************************************************)
GetRemoteMem(ok) ==
    /\ open /\ sync = NoHandle
    /\ remote' = ok
    /\ UNCHANGED <<avail, flag, live, nic, latched, hstate, sync, open>>

(***************************************************************************)
(* Destroy.  ReleaseLegacyHandles deletes the handles that are left and    *)
(* refills the stack.                                                      *)
(***************************************************************************)
Destroy ==
    /\ open /\ sync = NoHandle
    /\ open' = FALSE
    /\ remote' = FALSE
    /\ live' = [f \in Flags |-> NoHandle]
    /\ avail' = IF \E f \in Flags : live[f] # NoHandle THEN AllFlags ELSE avail
    /\ hstate' = [h \in Handles |-> IF hstate[h] = "pending" THEN "lost" ELSE hstate[h]]
    /\ UNCHANGED <<flag, nic, latched, sync>>

(***************************************************************************)
(* The channel: an operation may overtake those before it up to the last   *)
(* fence.                                                                  *)
(***************************************************************************)
Complete(i) ==
    /\ i = 1 \/ \A j \in 1..i : nic[j] # Fence
    /\ nic' = RemoveAt(nic, i)
    /\ flag' = IF nic[i][1] = "flag" THEN [flag EXCEPT ![nic[i][2]] = 1] ELSE flag
    /\ UNCHANGED <<avail, live, latched, hstate, sync, remote, open>>

Channel == \E i \in 1..Len(nic) : Complete(i)

Poll == \E f \in Flags : CheckStatusHost(f)

Next ==
    \/ \E h \in Handles, ret \in {"FAILED", "TIMEOUT", "PARAM_INVALID"} :
          DataFails(h, ret) \/ FlagFails(h, ret)
    \/ \E h \in Handles : NoFlagLeft(h) \/ HandleFails(h)
    \/ \E h \in Handles, waits \in BOOLEAN : BatchTransferHost(h, waits)
    \/ Poll
    \/ \E f \in Flags : SyncTimeout(f)
    \/ \E ok \in BOOLEAN : GetRemoteMem(ok)
    \/ Destroy
    \/ Channel

Spec == Init /\ [][Next]_vars

(***************************************************************************)
(* The channel completes what is posted and the caller polls.              *)
(***************************************************************************)
FairSpec == Spec /\ WF_vars(Channel) /\ WF_vars(Poll)

-----------------------------------------------------------------------------
TypeOK ==
    /\ avail \in Seq(Flags) /\ Len(avail) <= FlagCount
    /\ flag \in [Flags -> 0..1]
    /\ live \in [Flags -> Handles \cup {NoHandle}]
    /\ nic \in Seq(Ops)
    /\ {latched, remote, open} \subseteq BOOLEAN
    /\ hstate \in [Handles -> {"new", "pending", "completed", "failed", "lost"}]
    /\ sync \in Handles \cup {NoHandle}

(***************************************************************************)
(* COMPLETED is told only of a transfer whose data the channel has moved:  *)
(* the fence keeps the flag behind the data, and a flag that was used      *)
(* before cannot speak for a later transfer.                               *)
(***************************************************************************)
CompletedReally ==
    \A h \in Handles : hstate[h] = "completed" => \A i \in 1..Len(nic) : nic[i] # <<"data", h>>

(***************************************************************************)
(* A flag is on the stack once or belongs to one pending transfer, and     *)
(* every pending transfer has its flag, through failures, timeouts and the *)
(* refill in Destroy.  As long as transfers are accepted, a flag on the    *)
(* stack is 0 and no read into it is outstanding.                          *)
(***************************************************************************)
FlagsExact ==
    /\ TypeOK
    /\ \A i, j \in 1..Len(avail) : avail[i] = avail[j] => i = j
    /\ {avail[i] : i \in 1..Len(avail)} = {f \in Flags : live[f] = NoHandle}
    /\ \A f, g \in Flags : live[f] = live[g] /\ live[f] # NoHandle => f = g
    /\ {h \in Handles : hstate[h] = "pending"} = {live[f] : f \in Flags} \ {NoHandle}
    /\ open /\ ~latched =>
          \A k \in 1..Len(avail) :
              /\ flag[avail[k]] = 0
              /\ \A i \in 1..Len(nic) : nic[i] # <<"flag", avail[k]>>

(***************************************************************************)
(* No transfer is pending.  As each is submitted at most once,             *)
(* <>[]NonePending says that one that was submitted is completed in the    *)
(* end, also after other transfers failed, unless it times out or the      *)
(* client is destroyed.                                                    *)
(***************************************************************************)
NonePending == \A h \in Handles : hstate[h] # "pending"
=============================================================================
