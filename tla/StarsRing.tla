------------------------------ MODULE StarsRing ------------------------------
(***************************************************************************)
(* The submission ring (RTSQ) of a slot of the UB memory protocol: the     *)
(* AICPU kernels of src/src/ops/hixl_kernel/ubmem_stars_sdma.cc write SDMA *)
(* and NotifyRecord entries into it, the engine retires them.  The host    *)
(* cuts a transfer into kernels and puts a wait for the notify behind      *)
(* every logical batch (LaunchAicpuChunks of                               *)
(* src/src/hixl/cs/ubmem/ubmem_engine.cc), all on one ordered stream.      *)
(*                                                                         *)
(* An entry is <<kind, number>>; the number, which grows with every        *)
(* entry built, stands for the addresses and the task id it carries.       *)
(***************************************************************************)
EXTENDS Integers, Sequences, FiniteSetsExt

CONSTANTS
    Depth,        \* DRV_SQCQ_PROP_SQ_DEPTH, the depth of the ring
    MaxPublish,   \* kMaxRtsqEntriesPerPublish
    KernelMax,    \* kUbMemMaxKernelBatchSize, descriptors per kernel
    BatchSize,    \* max_transfer_count_per_batch, descriptors per logical batch
    MaxTasks      \* bound: the number of entries built in a behaviour

(***************************************************************************)
(* LoadRtsqQueueState rejects a ring no deeper than one publication;       *)
(* kUbMemMinRtsqDepth is the depth the budget of the host asks for.        *)
(***************************************************************************)
ASSUME RingAssumption ==
    /\ {Depth, MaxPublish, KernelMax, BatchSize, MaxTasks} \subseteq Nat \ {0}
    /\ Depth > MaxPublish
    /\ Depth >= BatchSize + 2

VARIABLES
    ring,       \* the entries of the ring, by position
    head,       \* SQ_HEAD: the oldest entry that is not retired
    tail,       \* SQ_TAIL: the position behind the newest entry
    notified,   \* the notify has been recorded and not been waited for
    pc,         \* where the stream and its kernel are, see Pcs
    kHead,      \* state.head, the kernel's copy of head
    kTail,      \* state.tail
    batch,      \* the entries of UbMemRtsqBatch
    descs,      \* descriptors of the kernel still to be built
    emit,       \* the NotifyRecord of the kernel: "no", "due" or "built"
    failed,     \* a publication or the completion queue of the kernel has failed
    broken,     \* some kernel has failed
    rest,       \* descriptors of the transfer that no kernel has taken
    room,       \* batch_remaining
    built       \* the number of entries built so far

ringVars == <<ring, head, tail>>
kernelVars == <<kHead, kTail, batch, descs, emit, failed, broken, built>>
hostVars == <<rest, room>>
vars == <<ringVars, notified, pc, kernelVars, hostVars>>

(***************************************************************************)
(* idle: between kernels; data, notify: a kernel builds SDMA entries or    *)
(* the NotifyRecord; dataCopied, notifyCopied: CopySqeBatchToRing is done; *)
(* wait: in aclrtWaitAndResetNotify; halted: the stream has failed.        *)
(***************************************************************************)
Pcs == {"idle", "data", "dataCopied", "notify", "notifyCopied", "wait", "halted"}

Positions == 0..Depth - 1
Blank == <<"blank", 0>>
Entries == {"sdma", "record"} \X Nat

Init ==
    /\ ring = [p \in Positions |-> Blank]
    /\ head = 0 /\ tail = 0 /\ kHead = 0 /\ kTail = 0
    /\ notified = FALSE
    /\ pc = "idle"
    /\ batch = <<>> /\ descs = 0 /\ emit = "no" /\ failed = FALSE /\ broken = FALSE
    /\ rest = 0 /\ room = 0 /\ built = 0

Used(h, t) == (t + Depth - h) % Depth

HasRtsqCapacity(h, t, count) == Used(h, t) + count < Depth

-----------------------------------------------------------------------------
(***************************************************************************)
(* The host starts a transfer of n descriptors.                            *)
(***************************************************************************)
StartTransfer(n) ==
    /\ pc = "idle"
    /\ rest = 0
    /\ built + 2 * n <= MaxTasks
    /\ rest' = n
    /\ room' = BatchSize
    /\ UNCHANGED <<ringVars, notified, pc, kernelVars>>

\* Mutant: the notify comes behind the last kernel of the transfer only.
TakeChunkNotifyAtEnd ==
    /\ pc = "idle"
    /\ rest > 0
    /\ LET chunk == Min({KernelMax, room, rest}) IN
       /\ descs' = chunk
       /\ rest' = rest - chunk
       /\ room' = IF chunk = room THEN BatchSize ELSE room - chunk
       /\ emit' = IF chunk = rest THEN "due" ELSE "no"

(***************************************************************************)
(* The next kernel of LaunchAicpuChunks takes what is left of the logical  *)
(* batch, at most KernelMax descriptors; the last kernel of the batch or   *)
(* of the transfer records the notify.                                     *)
(***************************************************************************)
TakeChunk ==
    /\ pc = "idle"
    /\ rest > 0
    /\ LET chunk == Min({KernelMax, room, rest}) IN
       /\ descs' = chunk
       /\ rest' = rest - chunk
       /\ room' = IF chunk = room THEN BatchSize ELSE room - chunk
       /\ emit' = IF chunk \in {room, rest} THEN "due" ELSE "no"

(***************************************************************************)
(* A kernel is over; a failed one may halt the stream, otherwise the wait  *)
(* for its notify, if it has one, is next.                                 *)
(***************************************************************************)
EndKernel(fails, notify) ==
    /\ broken' = (broken \/ fails)
    /\ pc' \in {IF notify = "no" THEN "idle" ELSE "wait"}
                \cup (IF fails THEN {"halted"} ELSE {})
    /\ UNCHANGED failed

(***************************************************************************)
(* A kernel starts: InitializeRtsq reads the state of the ring.            *)
(***************************************************************************)
StartKernel ==
    /\ TakeChunk
    /\ kHead' = head
    /\ kTail' = tail
    /\ batch' = <<>>
    /\ failed' = FALSE
    /\ pc' = "data"
    /\ UNCHANGED <<ringVars, notified, broken, built>>

(***************************************************************************)
(* ExecuteBatch, ValidateSubmitArgs, InitializeRtsq or BuildSubmitDeadline *)
(* turns the kernel down: it publishes nothing, no NotifyRecord either.    *)
(***************************************************************************)
RejectKernel ==
    /\ TakeChunk
    /\ EndKernel(TRUE, emit')
    /\ UNCHANGED <<ringVars, notified, kHead, kTail, batch, built>>

Build(kind) ==
    /\ batch' = Append(batch, <<kind, built>>)
    /\ built' = built + 1

(***************************************************************************)
(* AppendDescriptorTasks: one entry per descriptor.                        *)
(***************************************************************************)
AppendDescriptorTask ==
    /\ pc = "data"
    /\ descs > 0
    /\ Len(batch) < MaxPublish
    /\ Build("sdma")
    /\ descs' = descs - 1
    /\ UNCHANGED <<ringVars, notified, pc, kHead, kTail, emit, failed, broken, hostVars>>

AppendNotifyTask ==
    /\ pc = "notify"
    /\ emit = "due"
    /\ Len(batch) < MaxPublish
    /\ Build("record")
    /\ emit' = "built"
    /\ UNCHANGED <<ringVars, notified, pc, kHead, kTail, descs, failed, broken, hostVars>>

(***************************************************************************)
(* PublishRtsqBatch is called on a full batch, behind the last descriptor  *)
(* and behind the NotifyRecord.                                            *)
(***************************************************************************)
Publishing ==
    \/ pc = "data" /\ (descs = 0 \/ Len(batch) = MaxPublish)
    \/ pc = "notify" /\ (emit = "built" \/ Len(batch) = MaxPublish)

\* Mutant: the wrapped part of a batch is not copied.
CopyFirstSegment ==
    /\ Publishing
    /\ kHead' = IF HasRtsqCapacity(kHead, kTail, Len(batch)) THEN kHead ELSE head
    /\ HasRtsqCapacity(kHead', kTail, Len(batch))
    /\ ring' = [p \in Positions |->
                   IF p - kTail \in 0..Len(batch) - 1 THEN batch[p - kTail + 1] ELSE ring[p]]
    /\ pc' = IF pc = "data" THEN "dataCopied" ELSE "notifyCopied"
    /\ UNCHANGED <<head, tail, notified, kTail, batch, descs, emit, failed, broken, hostVars, built>>

(***************************************************************************)
(* EnsureRtsqCapacity finds room, with the cached head or, when that does  *)
(* not do, with a fresh one; then CopySqeBatchToRing writes the entries    *)
(* behind the tail, around the end of the ring.                            *)
(***************************************************************************)
CopySqeBatchToRing ==
    /\ Publishing
    /\ kHead' = IF HasRtsqCapacity(kHead, kTail, Len(batch)) THEN kHead ELSE head
    /\ HasRtsqCapacity(kHead', kTail, Len(batch))
    /\ ring' = [p \in Positions |->
                   IF Used(kTail, p) < Len(batch) THEN batch[Used(kTail, p) + 1] ELSE ring[p]]
    /\ pc' = IF pc = "data" THEN "dataCopied" ELSE "notifyCopied"
    /\ UNCHANGED <<head, tail, notified, kTail, batch, descs, emit, failed, broken, hostVars, built>>

(***************************************************************************)
(* CommitRtsqTail.  Behind the data of the kernel comes the NotifyRecord,  *)
(* if it is due, after a look at the completion queue that may fail.       *)
(***************************************************************************)
CommitRtsqTail ==
    /\ pc \in {"dataCopied", "notifyCopied"}
    /\ tail' = (kTail + Len(batch)) % Depth
    /\ kTail' = tail'
    /\ batch' = <<>>
    /\ \/ /\ pc = "dataCopied" /\ descs > 0
          /\ pc' = "data" /\ UNCHANGED <<failed, broken>>
       \/ /\ pc = "dataCopied" /\ descs = 0 /\ emit = "no"
          /\ EndKernel(FALSE, emit)
       \/ /\ \/ pc = "dataCopied" /\ descs = 0
             \/ pc = "notifyCopied"
          /\ emit = "due"
          /\ pc' = "notify" /\ failed' \in {failed, TRUE} /\ UNCHANGED broken
       \/ /\ pc = "notifyCopied" /\ emit = "built"
          /\ EndKernel(failed, emit)
    /\ UNCHANGED <<ring, head, notified, kHead, descs, emit, hostVars, built>>

(***************************************************************************)
(* PublishRtsqBatch fails: no capacity even with a fresh head, a failed    *)
(* look at the completion queue while refreshing, or a failed write of the *)
(* tail.  The batch is kept.  After a failure of the data the NotifyRecord *)
(* is still tried.                                                         *)
(***************************************************************************)
PublishFails ==
    /\ \/ pc \in {"dataCopied", "notifyCopied"}
       \/ Publishing /\ ~HasRtsqCapacity(kHead, kTail, Len(batch))
    /\ IF pc \in {"data", "dataCopied"} /\ emit = "due"
       THEN pc' = "notify" /\ failed' = TRUE /\ UNCHANGED broken
       ELSE EndKernel(TRUE, emit)
    /\ kHead' \in {kHead, head}
    /\ UNCHANGED <<ringVars, notified, kTail, batch, descs, emit, hostVars, built>>

-----------------------------------------------------------------------------
(***************************************************************************)
(* aclrtWaitAndResetNotify, and its timeout, which is taken to be longer   *)
(* than the engine needs for the entries it has.                           *)
(***************************************************************************)
WaitAndResetNotify ==
    /\ pc = "wait"
    /\ notified
    /\ notified' = FALSE
    /\ pc' = "idle"
    /\ UNCHANGED <<ringVars, kernelVars, hostVars>>

NotifyTimeout ==
    /\ pc = "wait"
    /\ ~notified
    /\ head = tail
    /\ pc' = "halted"
    /\ UNCHANGED <<ringVars, notified, kernelVars, hostVars>>

(***************************************************************************)
(* The engine executes and retires the oldest entry.                       *)
(***************************************************************************)
Retire ==
    /\ head # tail
    /\ head' = (head + 1) % Depth
    /\ notified' = (notified \/ ring[head][1] = "record")
    /\ UNCHANGED <<ring, tail, pc, kernelVars, hostVars>>

Kernel ==
    \/ StartKernel \/ RejectKernel \/ AppendDescriptorTask \/ AppendNotifyTask
    \/ CopySqeBatchToRing \/ CommitRtsqTail \/ PublishFails
    \/ WaitAndResetNotify \/ NotifyTimeout

Next == (\E n \in 1..MaxTasks : StartTransfer(n)) \/ Kernel \/ Retire

Spec == Init /\ [][Next]_vars

(***************************************************************************)
(* The kernel runs, and the engine goes on retiring entries.               *)
(***************************************************************************)
FairSpec == Spec /\ WF_vars(Kernel) /\ WF_vars(Retire)

-----------------------------------------------------------------------------
TypeOK ==
    /\ ring \in [Positions -> Entries \cup {Blank}]
    /\ {head, tail, kHead, kTail} \subseteq Positions
    /\ notified \in BOOLEAN /\ failed \in BOOLEAN /\ broken \in BOOLEAN
    /\ pc \in Pcs
    /\ batch \in Seq(Entries) /\ Len(batch) <= MaxPublish
    /\ descs \in 0..KernelMax
    /\ emit \in {"no", "due", "built"}
    /\ rest \in Nat /\ room \in 0..BatchSize /\ built \in Nat

(***************************************************************************)
(* The ring is a queue: what lies between head and tail changes only by a  *)
(* batch of the next entries at its end or by the oldest entry being       *)
(* retired, whatever the kernel writes, however stale its head is and      *)
(* wherever a publication fails.                                           *)
(***************************************************************************)
Queue == INSTANCE TaskQueue WITH
    Kinds <- {"sdma", "record"},
    MaxBatch <- MaxPublish,
    queue <- [i \in 1..Used(head, tail) |-> ring[(head + i - 1) % Depth]],
    next <- built - Len(batch)

RingIsQueue == Queue!Spec

(***************************************************************************)
(* "Publishing never has to wait for RTSQ capacity": as long as no kernel  *)
(* has failed, the head that the kernel read when it started leaves room   *)
(* for every batch, however slowly the engine retires entries.             *)
(***************************************************************************)
NeverFull == Publishing /\ ~failed /\ ~broken => HasRtsqCapacity(kHead, kTail, Len(batch))

(***************************************************************************)
(* The notify closes a logical batch: once it has been waited for, and no  *)
(* kernel has failed, every entry of the transfer so far is retired.       *)
(***************************************************************************)
BatchDrained == pc = "idle" /\ room = BatchSize /\ ~broken => head = tail /\ ~notified

(***************************************************************************)
(* The budget of the ring: a publication finds room, and the notify of a   *)
(* logical batch finds the ring drained.                                   *)
(***************************************************************************)
RingExact == NeverFull /\ BatchDrained

(***************************************************************************)
(* The host does not wait for a notify.  As a behaviour has finitely many  *)
(* entries, <>[]NotWaiting says that it is not left waiting: the notify of *)
(* a kernel that succeeded comes.                                          *)
(***************************************************************************)
NotWaiting == pc # "wait" \/ broken
=============================================================================
