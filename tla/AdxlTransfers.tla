--------------------------- MODULE AdxlTransfers ---------------------------
(***************************************************************************)
(* Direct transfers of the ADXL engine: TransferSync, TransferAsync and    *)
(* GetTransferStatus of src/src/llm_datadist/adxl/adxl_inner_engine.cc,    *)
(* the channel of src/src/llm_datadist/adxl/comm_channel.cc and its slots  *)
(* (AdxlSlotPool).                                                         *)
(*                                                                         *)
(* The engine finds a channel by the name of the remote engine; an object  *)
(* <<remote, n>> is the n-th channel made under that name.  What runs      *)
(* under device_launch_mu_ of a channel is one step, except that a         *)
(* synchronous transfer keeps the lock while the device works.             *)
(***************************************************************************)
EXTENDS Integers, Sequences, FiniteSets, AdxlSlotPool

CONSTANTS
    Remotes,      \* remote engines
    Reqs,         \* transfers; each is started at most once
    NoReq,        \* nobody
    NoChannel,    \* nullptr
    NoFlag,       \* no host flag
    MaxConnects,  \* how often a remote is connected at most
    Setups        \* to: the transfers made and their remote engines; connects: how
                  \* often a remote is connected; max: max_slot_num_; failFast:
                  \* fail_fast_enabled_; autoConnect: auto_connect_; noMemory:
                  \* aclrtMallocHost may fail

TransferAssumption ==
    /\ NoReq \notin Reqs /\ NoFlag \notin Flags /\ MaxConnects \in Nat
    /\ \A x \in Setups : x.max \in Indices /\ x.connects \in 0..MaxConnects

VARIABLES
    setup,
    pool,    \* slot_pool_
    flag,    \* the values of the host flags
    chan,    \* channels_ of the ChannelManager, the clients
    born,    \* how many channels were made for a remote
    obj,     \* the channel objects
    pc,      \* where a transfer is
    held,    \* the channel object its caller works with
    done,    \* the transfers the device has carried out
    result,  \* what the caller was told
    early    \* the transfers whose record was released with their copy to come

engineVars == <<chan, born>>
callVars == <<pc, held, result>>
vars == <<setup, early, pool, flag, engineVars, obj, callVars, done>>

Objects == Remotes \X (1..MaxConnects)
NoRecord == [slot |-> NoSlot, flag |-> NoFlag]

(***************************************************************************)
(* comm: channel_info_.comm is not null; active: active_slot_; recs:       *)
(* req_2_async_record_; launch: who keeps device_launch_mu_.               *)
(***************************************************************************)
Unborn == [comm |-> FALSE, unavailable |-> FALSE, active |-> NoSlot,
           recs |-> [r \in Reqs |-> NoRecord], launch |-> NoReq]

Init ==
    /\ setup \in Setups
    /\ pool = Fresh
    /\ flag = [f \in Flags |-> 0]
    /\ chan = [n \in Remotes |-> NoChannel]
    /\ born = [n \in Remotes |-> 0]
    /\ obj = [o \in Objects |-> Unborn]
    /\ pc = [r \in Reqs |-> "new"]
    /\ held = [r \in Reqs |-> NoChannel]
    /\ done = {}
    /\ early = {}
    /\ result = [r \in Reqs |-> "none"]

Pending(x) == {r \in Reqs : x.recs[r] # NoRecord}
Allocated ==
    UNION {pool.slot[i].flags : i \in Indices}
      \cup {obj[o].recs[r].flag : o \in Objects, r \in Reqs}

(***************************************************************************)
(* PurgeAllAsyncRecords and AbortSharedSlot: every record gives its flag   *)
(* back, then the slot is torn down and unbound.                           *)
(***************************************************************************)
Purged(p, x) ==
    [p EXCEPT !.slot = [i \in Indices |->
        [@[i] EXCEPT !.flags =
            @ \cup {x.recs[r].flag : r \in {q \in Pending(x) : x.recs[q].slot = i}}]]]

\* Mutant: the aborted slot stays bound to the channel.
TornKeepsSlot(p, x) ==
    {[pool |-> a, obj |-> [x EXCEPT !.recs = Unborn.recs]] :
        a \in IF x.active = NoSlot THEN {p} ELSE Abort(Purged(p, x), x.active)}

Torn(p, x) ==
    LET q == Purged(p, x) IN
    {[pool |-> a, obj |-> [x EXCEPT !.recs = Unborn.recs, !.active = NoSlot]] :
        a \in IF x.active = NoSlot THEN {q} ELSE Abort(q, x.active)}

Cleared(x) ==
    [f \in Flags |-> IF \E r \in Pending(x) : x.recs[r].flag = f THEN 0 ELSE flag[f]]

(***************************************************************************)
(* ReleaseSharedSlotRef: the caller drops its reference; the slot goes     *)
(* back to the pool when only active_slot_ is left.  others tells whether  *)
(* the call stack holds a further reference.                               *)
(***************************************************************************)
LastReference(x, others) == Pending(x) = {} /\ ~others

Unbound(p, x, others) ==
    IF LastReference(x, others)
    THEN [pool |-> Release(p, x.active), obj |-> [x EXCEPT !.active = NoSlot]]
    ELSE [pool |-> p, obj |-> x]

(***************************************************************************)
(* ReleaseAsyncRecord, with the references its caller holds.               *)
(***************************************************************************)
Reaped(p, x, r, others) ==
    LET rec == x.recs[r]
        q == ReleaseHostFlag(p, rec.slot, rec.flag)
        y == [x EXCEPT !.recs[r] = NoRecord]
    IN  IF x.active = rec.slot THEN Unbound(q, y, others) ELSE [pool |-> q, obj |-> y]

(***************************************************************************)
(* AcquireSharedSlot.                                                      *)
(***************************************************************************)
AcquireSharedSlot(x) ==
    IF x.active # NoSlot THEN {[pool |-> pool, slot |-> x.active]} ELSE Acquire(pool, setup.max)

Rejected(x) == setup.failFast /\ x.unavailable  \* CheckAvailableLocked

---------------------------------------------------------------------------
(***************************************************************************)
(* Channels come and go: a connect makes one, a disconnect, the eviction,  *)
(* a heartbeat failure or the peer destroys it.                            *)
(***************************************************************************)
CreateChannel(n) ==
    /\ chan[n] = NoChannel /\ born[n] < setup.connects
    /\ born' = [born EXCEPT ![n] = @ + 1]
    /\ chan' = [chan EXCEPT ![n] = <<n, born[n] + 1>>]
    /\ obj' = [obj EXCEPT ![<<n, born[n] + 1>>].comm = TRUE]
    /\ UNCHANGED <<setup, early, pool, flag, callVars, done>>

Finalize(o) ==
    /\ obj[o].launch = NoReq
    /\ \E t \in Torn(pool, obj[o]) :
        /\ pool' = t.pool
        /\ obj' = [obj EXCEPT ![o] = [t.obj EXCEPT !.comm = FALSE, !.unavailable = FALSE]]
    /\ flag' = Cleared(obj[o])

DestroyChannel(n) ==
    /\ chan[n] # NoChannel
    /\ Finalize(chan[n])
    /\ chan' = [chan EXCEPT ![n] = NoChannel]

Disconnect(n) ==
    /\ DestroyChannel(n)
    /\ UNCHANGED <<setup, early, born, callVars, done>>

---------------------------------------------------------------------------
Goto(r, where) == pc' = [pc EXCEPT ![r] = where]

(***************************************************************************)
(* A call fails: the caller is told once the engine has disconnected, if   *)
(* auto_connect_ asks for that.                                            *)
(***************************************************************************)
Fails(r) ==
    /\ Goto(r, IF setup.autoConnect THEN "error" ELSE "over")
    /\ result' = [result EXCEPT ![r] = "failed"]

(***************************************************************************)
(* DisconnectOnError finds the channel by name.                            *)
(***************************************************************************)
DisconnectOnError(r) ==
    /\ pc[r] = "error"
    /\ \/ DestroyChannel(setup.to[r])
       \/ chan[setup.to[r]] = NoChannel /\ UNCHANGED <<chan, pool, obj, flag>>
    /\ Goto(r, "over")
    /\ UNCHANGED <<setup, early, born, held, done, result>>

(***************************************************************************)
(* TransferSync and TransferAsync of the engine fetch the channel.         *)
(***************************************************************************)
Start(r, kind) ==
    /\ pc[r] = "new" /\ r \in DOMAIN setup.to /\ chan[setup.to[r]] # NoChannel
    /\ Goto(r, kind)
    /\ held' = [held EXCEPT ![r] = chan[setup.to[r]]]
    /\ UNCHANGED <<setup, early, pool, flag, engineVars, obj, done, result>>

Free(r) == obj[held[r]].launch = NoReq
Keep(r, x) == obj' = [obj EXCEPT ![held[r]] = x]
Refuse(r) == Fails(r) /\ UNCHANGED <<setup, early, engineVars, held, done>>

(***************************************************************************)
(* FailChannel for an object in state x and a pool p; an error that is not *)
(* link-fatal leaves the channel available.                                *)
(***************************************************************************)
FailChannel(r, p, x) ==
    \E t \in Torn(p, x), fatal \in BOOLEAN :
        /\ pool' = t.pool
        /\ Keep(r, [t.obj EXCEPT !.unavailable = @ \/ fatal, !.launch = NoReq])
        /\ flag' = Cleared(x)

(***************************************************************************)
(* TransferAsync of the channel: refused, out of slots, out of memory for  *)
(* the flag, failed to issue, or issued.  On the stream the batch of the   *)
(* request is followed by the copy that sets its flag.                     *)
(***************************************************************************)
AsyncRefused(r) ==
    /\ pc[r] = "async" /\ Free(r)
    /\ Rejected(obj[held[r]]) \/ ~obj[held[r]].comm
    /\ Refuse(r)
    /\ UNCHANGED <<pool, flag, obj>>

Admitted(r) == Free(r) /\ ~Rejected(obj[held[r]]) /\ obj[held[r]].comm

NoSlotLeft(r) ==
    /\ pc[r] = "async" /\ Admitted(r)
    /\ \E s \in AcquireSharedSlot(obj[held[r]]) : s.slot = NoSlot /\ pool' = s.pool
    /\ Refuse(r)
    /\ UNCHANGED <<flag, obj>>

NoHostFlag(r) ==
    /\ pc[r] = "async" /\ Admitted(r) /\ setup.noMemory
    /\ \E s \in AcquireSharedSlot(obj[held[r]]) :
        /\ s.slot # NoSlot /\ s.pool.slot[s.slot].flags = {}
        /\ LET u == Unbound(s.pool, [obj[held[r]] EXCEPT !.active = s.slot], FALSE) IN
           /\ pool' = u.pool
           /\ Keep(r, [u.obj EXCEPT !.unavailable = TRUE])
    /\ Refuse(r)
    /\ UNCHANGED flag

WithRecord(r, s, f) ==
    [obj[held[r]] EXCEPT !.active = s.slot, !.recs[r] = [slot |-> s.slot, flag |-> f]]

IssueFails(r) ==
    /\ pc[r] = "async" /\ Admitted(r)
    /\ \E s \in AcquireSharedSlot(obj[held[r]]) :
        /\ s.slot # NoSlot
        /\ \E f \in HostFlags(s.pool, s.slot, Allocated) :
            FailChannel(r, AcquireHostFlag(s.pool, s.slot, f), WithRecord(r, s, f))
    /\ Refuse(r)

\* Mutant: the copy of the flag is issued ahead of the batch.
EnqueuedFlagFirst(p, i, ops) == [p EXCEPT !.slot[i].stream = @ \o [k \in DOMAIN ops |-> ops[Len(ops) + 1 - k]]]

Enqueued(p, i, ops) == [p EXCEPT !.slot[i].stream = @ \o ops]

TransferAsync(r) ==
    /\ pc[r] = "async" /\ Admitted(r)
    /\ \E s \in AcquireSharedSlot(obj[held[r]]) :
        /\ s.slot # NoSlot
        /\ \E f \in HostFlags(s.pool, s.slot, Allocated) :
            /\ pool' = Enqueued(AcquireHostFlag(s.pool, s.slot, f), s.slot,
                                <<[req |-> r, flag |-> NoFlag], [req |-> r, flag |-> f]>>)
            /\ Keep(r, WithRecord(r, s, f))
            /\ flag' = [flag EXCEPT ![f] = 0]
    /\ Goto(r, "issued")
    /\ UNCHANGED <<setup, early, engineVars, held, done, result>>

(***************************************************************************)
(* The engine enters the request into req_map_ after the channel took it.  *)
(***************************************************************************)
Register(r) ==
    /\ pc[r] = "issued"
    /\ Goto(r, "mapped")
    /\ UNCHANGED <<setup, early, pool, flag, engineVars, obj, held, done, result>>

---------------------------------------------------------------------------
(***************************************************************************)
(* RunSyncOnSlot keeps device_launch_mu_ until the stream has run dry or   *)
(* the wait failed.  A channel without a comm fails while it issues.       *)
(***************************************************************************)
SyncRefused(r) ==
    /\ pc[r] = "sync" /\ Free(r)
    /\ \/ Rejected(obj[held[r]]) /\ UNCHANGED pool
       \/ /\ ~Rejected(obj[held[r]])
          /\ \E s \in AcquireSharedSlot(obj[held[r]]) : s.slot = NoSlot /\ pool' = s.pool
    /\ Refuse(r)
    /\ UNCHANGED <<flag, obj>>

RunSyncOnSlot(r) ==
    /\ pc[r] = "sync" /\ Free(r) /\ ~Rejected(obj[held[r]])
    /\ \E s \in AcquireSharedSlot(obj[held[r]]) :
        /\ s.slot # NoSlot
        /\ \/ /\ FailChannel(r, s.pool, [obj[held[r]] EXCEPT !.active = s.slot])
              /\ Fails(r)
           \/ /\ obj[held[r]].comm
              /\ pool' = Enqueued(s.pool, s.slot, <<[req |-> r, flag |-> NoFlag]>>)
              /\ Keep(r, [obj[held[r]] EXCEPT !.active = s.slot, !.launch = r])
              /\ Goto(r, "syncing")
              /\ UNCHANGED <<flag, result>>
    /\ UNCHANGED <<setup, early, engineVars, held, done>>

SyncDone(r) ==
    /\ pc[r] = "syncing"
    /\ LET x == obj[held[r]] IN
        /\ pool.slot[x.active].stream = <<>>
        /\ LET u == Unbound(pool, x, FALSE) IN
           /\ pool' = u.pool
           /\ Keep(r, [u.obj EXCEPT !.launch = NoReq])
    /\ Goto(r, "over")
    /\ result' = [result EXCEPT ![r] = "completed"]
    /\ UNCHANGED <<setup, early, flag, engineVars, held, done>>

SyncFails(r) ==
    /\ pc[r] = "syncing"
    /\ FailChannel(r, pool, obj[held[r]])
    /\ Refuse(r)

---------------------------------------------------------------------------
(***************************************************************************)
(* GetTransferStatus of the engine looks the channel up by name, which may *)
(* be another object than the one the request was issued on.  A request    *)
(* that is not done yet (WAITING) changes nothing.                         *)
(***************************************************************************)
Polled(r) == chan[setup.to[r]]

ChannelGone(r) ==
    /\ pc[r] = "mapped" /\ Polled(r) = NoChannel
    /\ Goto(r, "over")
    /\ result' = [result EXCEPT ![r] = "failed"]
    /\ UNCHANGED <<setup, early, pool, flag, engineVars, obj, held, done>>

Answered(r) ==
    /\ pc[r] = "mapped" /\ Polled(r) # NoChannel /\ obj[Polled(r)].launch = NoReq

Queued(r) == \E i \in Indices : \E k \in DOMAIN pool.slot[i].stream : pool.slot[i].stream[k].req = r

(***************************************************************************)
(* The channel is unavailable: its record, if any, is released, whether or *)
(* not its copy was made.                                                  *)
(***************************************************************************)
Reap(r, others) ==
    LET x == obj[Polled(r)]
        u == Reaped(pool, x, r, others)
    IN  /\ pool' = u.pool
        /\ obj' = [obj EXCEPT ![Polled(r)] = u.obj]
        /\ flag' = [flag EXCEPT ![x.recs[r].flag] = 0]

\* Mutant: a request the channel does not know is reported as waiting.
StatusUnknownWaits(r) ==
    /\ Answered(r) /\ ~Rejected(obj[Polled(r)]) /\ r \notin Pending(obj[Polled(r)])
    /\ UNCHANGED vars

StatusUnavailable(r) ==
    /\ Answered(r) /\ Rejected(obj[Polled(r)])
    /\ \/ r \in Pending(obj[Polled(r)]) /\ Reap(r, FALSE)
       \/ r \notin Pending(obj[Polled(r)]) /\ UNCHANGED <<pool, obj, flag>>
    /\ early' = IF r \in Pending(obj[Polled(r)]) /\ Queued(r) THEN early \cup {r} ELSE early
    /\ Fails(r)
    /\ UNCHANGED <<setup, engineVars, held, done>>

StatusUnknown(r) ==
    /\ Answered(r) /\ ~Rejected(obj[Polled(r)]) /\ r \notin Pending(obj[Polled(r)])
    /\ Refuse(r)
    /\ UNCHANGED <<pool, obj, flag>>

(***************************************************************************)
(* CompleteRequest runs while GetTransferStatus holds a reference to the   *)
(* slot, the one LookupPendingAsyncTransfer filled in.                     *)
(***************************************************************************)
StatusCompleted(r) ==
    /\ Answered(r) /\ ~Rejected(obj[Polled(r)]) /\ r \in Pending(obj[Polled(r)])
    /\ flag[obj[Polled(r)].recs[r].flag] = 1
    /\ Reap(r, TRUE)
    /\ Goto(r, "over")
    /\ result' = [result EXCEPT ![r] = "completed"]
    /\ UNCHANGED <<setup, early, engineVars, held, done>>

---------------------------------------------------------------------------
(***************************************************************************)
(* The device works on a stream in order, until an operation fails.        *)
(***************************************************************************)
Device(i) ==
    /\ pool.slot[i].stream # <<>> /\ ~pool.slot[i].halted
    /\ LET op == Head(pool.slot[i].stream) IN
        /\ done' = IF op.flag = NoFlag THEN done \cup {op.req} ELSE done
        /\ flag' = [f \in Flags |-> IF f = op.flag THEN 1 ELSE flag[f]]
    /\ pool' = [pool EXCEPT !.slot[i].stream = Tail(@)]
    /\ UNCHANGED <<setup, early, engineVars, obj, callVars>>

DeviceFails(i) ==
    /\ pool.slot[i].stream # <<>> /\ ~pool.slot[i].halted
    /\ pool' = [pool EXCEPT !.slot[i].halted = TRUE]
    /\ UNCHANGED <<setup, early, flag, engineVars, obj, callVars, done>>

Call(r) ==
    \/ AsyncRefused(r) \/ NoSlotLeft(r) \/ NoHostFlag(r) \/ IssueFails(r) \/ TransferAsync(r)
    \/ Register(r) \/ SyncRefused(r) \/ RunSyncOnSlot(r) \/ SyncDone(r) \/ SyncFails(r)
    \/ DisconnectOnError(r)

GetTransferStatus(r) ==
    ChannelGone(r) \/ StatusUnavailable(r) \/ StatusUnknown(r) \/ StatusCompleted(r)

Next ==
    \/ \E n \in Remotes : CreateChannel(n) \/ Disconnect(n)
    \/ \E r \in Reqs : Start(r, "async") \/ Start(r, "sync") \/ Call(r) \/ GetTransferStatus(r)
    \/ \E i \in Indices : Device(i) \/ DeviceFails(i)

Spec == Init /\ [][Next]_vars

(***************************************************************************)
(* Calls are made by threads that keep running, a caller polls until it    *)
(* has an answer, and the device works on every stream.                    *)
(***************************************************************************)
FairSpec ==
    /\ Spec
    /\ \A r \in Reqs : WF_vars(Call(r)) /\ WF_vars(GetTransferStatus(r))
    /\ \A i \in Indices : WF_vars(Device(i))

---------------------------------------------------------------------------
Records == [slot : Indices, flag : Flags] \cup {NoRecord}
Ops == [req : Reqs, flag : Flags \cup {NoFlag}]

TypeOK ==
    /\ setup \in Setups
    /\ pool.made \in 0..setup.max
    /\ pool.free \in [Indices -> Nat]
    /\ pool.slot \in [Indices -> [in_use : BOOLEAN, ready : BOOLEAN, stream : Seq(Ops),
                                  halted : BOOLEAN, flags : SUBSET Flags]]
    /\ flag \in [Flags -> {0, 1}]
    /\ chan \in [Remotes -> Objects \cup {NoChannel}]
    /\ born \in [Remotes -> 0..MaxConnects]
    /\ obj \in [Objects -> [comm : BOOLEAN, unavailable : BOOLEAN, active : Indices \cup {NoSlot},
                            recs : [Reqs -> Records], launch : Reqs \cup {NoReq}]]
    /\ pc \in [Reqs -> {"new", "async", "sync", "issued", "syncing", "mapped", "error", "over"}]
    /\ held \in [Reqs -> Objects \cup {NoChannel}]
    /\ done \in SUBSET Reqs
    /\ early \in SUBSET Reqs
    /\ result \in [Reqs -> {"none", "completed", "failed"}]

(***************************************************************************)
(* The books of the slot pool are right whatever fails: the free list      *)
(* holds every made slot that is not in use once and nothing else, and     *)
(* a slot in use is the active slot of exactly one channel, which is       *)
(* open.  (TransferSlotPool::Abort gives an index back without looking at  *)
(* in_use, so this rests on its callers.)                                  *)
(***************************************************************************)
SlotsExact ==
    /\ TypeOK
    /\ \A i \in Indices :
        /\ pool.free[i] = IF i <= pool.made /\ ~pool.slot[i].in_use THEN 1 ELSE 0
        /\ pool.slot[i].in_use => \E o \in Objects : obj[o].active = i
    /\ \A o \in Objects : obj[o].active # NoSlot =>
        /\ obj[o].comm /\ pool.slot[obj[o].active].in_use
        /\ \A q \in Objects \ {o} : obj[q].active # obj[o].active

(***************************************************************************)
(* A copy the device has still to make goes to the flag of the record of   *)
(* its own request, on the slot that record names; so no copy lands in a   *)
(* flag that was freed or given to another request, and a slot goes back   *)
(* to the pool with nothing left on its stream.  The exception are the     *)
(* transfers in flight on a channel that became unavailable because no     *)
(* flag could be allocated for another one, and those reported as complete *)
(* because of such a copy.                                                 *)
(***************************************************************************)
CopiesHaveRecords ==
    /\ early # {} => setup.noMemory /\ setup.failFast
    /\ \A i \in Indices : \A k \in DOMAIN pool.slot[i].stream :
          LET op == pool.slot[i].stream[k] IN
          \/ op.req \in early
          \/ early # {} /\ result[op.req] = "completed"
          \/ /\ pool.slot[i].in_use
             /\ op.flag # NoFlag =>
                  \E o \in Objects : obj[o].recs[op.req] = [slot |-> i, flag |-> op.flag]

(***************************************************************************)
(* A transfer the caller is told is complete was carried out by the        *)
(* device: the host flag GetTransferStatus reads is the one of the very    *)
(* request, and a drained stream had the batch on it.  Only the late copy  *)
(* of a transfer whose record was released early sets the flag of another. *)
(***************************************************************************)
CompletedMeansDone == \A r \in Reqs : result[r] = "completed" => r \in done \/ early \ {r} # {}

(***************************************************************************)
(* A caller that waits for an answer waits for a stream that stopped at a  *)
(* failed operation: GetTransferStatus reads only the host flag, which     *)
(* such a stream never sets.                                               *)
(***************************************************************************)
Stuck(r) ==
    /\ Polled(r) # NoChannel /\ r \in Pending(obj[Polled(r)])
    /\ pool.slot[obj[Polled(r)].recs[r].slot].halted

(***************************************************************************)
(* As a transfer is started at most once, <>[]OnlyStuckWait says that a    *)
(* caller that keeps asking gets a final answer, although the channel may  *)
(* fail, close or be replaced by another one of the same name.  The        *)
(* exception is a failed operation on the stream of an open channel.       *)
(***************************************************************************)
OnlyStuckWait == \A r \in Reqs : pc[r] = "mapped" => Stuck(r)
=============================================================================
