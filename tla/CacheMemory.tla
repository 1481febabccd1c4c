---------------------------- MODULE CacheMemory ----------------------------
(***************************************************************************)
(* The caches of one LLM DataDist node: CacheManager over a memory pool.   *)
(*                                                                         *)
(* A cache is a row of tensors. Those of an allocated cache come from the  *)
(* pool (SpanPool) and are kept by shared pointers: the manager's entry    *)
(* has one, and so has every copy of the entry a call or a transfer works  *)
(* with; a tensor goes back when the last of them is dropped. A cache is   *)
(* referenced by its id and by cache keys, one for each row of its batch,  *)
(* and stays until all of these are gone. Calls run on several threads;    *)
(* the manager's mutex makes each lookup or update of its maps one step,   *)
(* while the allocations of a call and its copies happen outside it.       *)
(*                                                                         *)
(* A shared pointer is modelled by what it keeps: `copies` says, for every *)
(* thread or job, which tensors it holds. Registered caches lend memory of *)
(* the application, which the pool never sees.                             *)
(***************************************************************************)
EXTENDS SpanPool, TLC

CONSTANTS
    Setups,         \* the workloads, see MCPullCache
    Threads,        \* application threads
    NoReq           \* UINT64_MAX: the key of a row that is not used

VARIABLES
    setup,
    pool,           \* npu_mem_pool_ or host_mem_pool_
    store,          \* cache_id_to_entry_ and the indices by key
    table,          \* what UpdateCacheTable last wrote for remote readers
    thr,            \* the calls in progress
    copies,         \* shared pointers outside the manager: <<id, address>>
    waiting,        \* threads on cv_ that have not been notified
    cvLock,         \* the thread that has mu_cv_, or Nobody
    born,           \* cache ids that were handed out
    got             \* history: by row of an allocated cache, the tensors
                    \* that were pulled under its key, or removed with it

cacheVars == <<pool, store, table, thr, copies, waiting, cvLock, born, got>>

Nobody == "nobody"

\* Everything that holds shared pointers outside the manager.
Agents == Threads \cup {"job"}

DescOf(id) == setup.cache[id]

Tensors(id) == 1..DescOf(id).tensors

\* The tensors an entry keeps.
EntryHolds(st) ==
    UNION {{<<id, st.entry[id].addrs[i]>> : i \in DOMAIN st.entry[id].addrs} :
            id \in {x \in DOMAIN st.entry : st.entry[x].owned}}

Held(st, cp) == EntryHolds(st) \cup UNION {cp[x] : x \in DOMAIN cp}

\* The pool after the last pointer to some tensors was dropped; a thread that
\* waits for memory is notified by every LlmMemPool::Free.
Release ==
    LET freed == {h[2] : h \in Held(store, copies) \ Held(store', copies')}
    IN  /\ pool' = FreeAll(pool, freed)
        /\ waiting' = IF freed = {} THEN waiting ELSE {}

\* The same for a step that drops nothing.
Keep == UNCHANGED <<pool, waiting>>

-----------------------------------------------------------------------------
\* The maps of the manager.

Put(f, k, v) == (k :> v) @@ f

Drop(f, ks) == Restrict(f, DOMAIN f \ ks)

NewEntry(id, addrs, owned) ==
    [addrs |-> addrs, owned |-> owned, ext |-> IF owned THEN 1 ELSE 0,
     paged |-> DescOf(id).paged, batch |-> <<>>]

\* CreateDataCacheKey: a prefix key goes by its prefix id.
DataKey(k) == <<k.num, k.model>>

\* The map a key of a continuous cache lives in.
KeyMap(st, prefix) == IF prefix THEN st.prefixToId ELSE st.keyToId

SetKeyMap(st, prefix, f) ==
    IF prefix THEN [st EXCEPT !.prefixToId = f] ELSE [st EXCEPT !.keyToId = f]

\* One key of a new cache; the rows are counted from 0.
AddCacheIndex(st, id, k, row) ==
    CASE st.entry[id].paged -> [st EXCEPT !.keyToId = Put(@, DataKey(k), id)]
      [] ~st.entry[id].paged /\ k.num # NoReq ->
            LET old == KeyMap(st, k.prefix)
                new == IF DataKey(k) \in DOMAIN old THEN old ELSE Put(old, DataKey(k), id)
            IN  [SetKeyMap(st, k.prefix, new) EXCEPT
                    !.entry[id].batch = Put(@, k.num, row),
                    !.rowToKey = Put(@, <<id, row>>, DataKey(k)),
                    !.left = Put(@, id, Tensors(id))]
      [] OTHER -> st

AddCacheIndices(st, id) ==
    FoldLeftDomain(LAMBDA s, i : AddCacheIndex(s, id, DescOf(id).keys[i], i - 1),
                   st, DescOf(id).keys)

\* The keys of a new cache are free and differ from each other.
CheckCacheKeys(st, id) ==
    LET ks == DescOf(id).keys
    IN  /\ \A i \in DOMAIN ks : DataKey(ks[i]) \notin DOMAIN KeyMap(st, ks[i].prefix)
        /\ IsInjective([i \in DOMAIN ks |-> DataKey(ks[i])])

RemoveCacheIndices(st, id) ==
    [st EXCEPT
        !.keyToId = Drop(@, {k \in DOMAIN @ : @[k] = id}),
        !.prefixToId = Drop(@, {k \in DOMAIN @ : @[k] = id}),
        !.rowToKey = Drop(@, {r \in DOMAIN @ : r[1] = id}),
        !.left = Drop(@, {id})]

\* The rows of a cache that have a key.
RowsOf(st, id) == {r \in DOMAIN st.rowToKey : r[1] = id}

EraseEntry(st, id) == [st EXCEPT !.entry = Drop(@, {id})]

\* Deallocate: a paged cache goes at once, another one with its last key.
DeallocateIn(st, id) ==
    CASE id \notin DOMAIN st.entry -> st
      [] id \in DOMAIN st.entry /\ ~st.entry[id].owned -> st
      [] id \in DOMAIN st.entry /\ st.entry[id].owned /\ st.entry[id].paged ->
            EraseEntry(RemoveCacheIndices(st, id), id)
      [] OTHER ->
            LET out == [st EXCEPT !.entry[id].ext = 0]
            IN  IF DOMAIN st.entry[id].batch = {} THEN EraseEntry(out, id) ELSE out

RemoveBatchIndex(st, id, num) ==
    LET rows == st.entry[id].batch
    IN  IF num \notin DOMAIN rows THEN st
        ELSE [st EXCEPT !.rowToKey = Drop(@, {<<id, rows[num]>>}),
                        !.entry[id].batch = Drop(@, {num})]

\* What RemoveCacheKey leaves to be removed; no tensors given means all.
TensorsLeft(st, id, tensors) ==
    IF tensors = {} \/ id \notin DOMAIN st.left THEN {} ELSE st.left[id] \ tensors

\* A key of an owned cache goes when none of its tensors is left.
KeyGoes(st, key, prefix, tensors) ==
    LET map == KeyMap(st, prefix)
    IN  /\ key \in DOMAIN map /\ map[key] \in DOMAIN st.entry
        /\ st.entry[map[key]].owned
        /\ TensorsLeft(st, map[key], tensors) = {}

\* RemoveCacheKey for the tensors of some layers, or for all of them.
RemoveKeyIn(st, key, prefix, tensors) ==
    LET map == KeyMap(st, prefix)
        id == map[key]
        left == TensorsLeft(st, id, tensors)
        marked == [st EXCEPT !.left = Put(@, id, left)]
        gone == SetKeyMap(RemoveBatchIndex(marked, id, key[1]), prefix, Drop(map, {key}))
    IN  CASE key \notin DOMAIN map -> st
          [] key \in DOMAIN map /\ id \notin DOMAIN st.entry -> SetKeyMap(st, prefix, Drop(map, {key}))
          [] key \in DOMAIN map /\ id \in DOMAIN st.entry /\ ~st.entry[id].owned -> st
          [] key \in DOMAIN map /\ id \in DOMAIN st.entry /\ st.entry[id].owned
                /\ ~KeyGoes(st, key, prefix, tensors) -> marked
          [] OTHER -> IF gone.entry[id].ext = 0 /\ DOMAIN gone.entry[id].batch = {}
                      THEN EraseEntry(gone, id) ELSE gone

\* What a remote reader of the table sees: the entries, and keys of req ids.
TableOf(st) ==
    [cache |-> [id \in DOMAIN st.entry |-> st.entry[id].addrs], key |-> st.keyToId]

\* UpdateCacheTable: written when remote access is enabled and it fits.
UpdateCacheTable(st) ==
    table' = IF setup.remote /\ Cardinality(DOMAIN st.entry) <= setup.tableCap
             THEN TableOf(st) ELSE table

-----------------------------------------------------------------------------
\* The calls of the application threads.

Resting == [pc |-> "idle", call |-> [op |-> "none"], addrs |-> <<>>, done |-> 0]

EmptyStore ==
    [entry |-> <<>>, keyToId |-> <<>>, prefixToId |-> <<>>, rowToKey |-> <<>>, left |-> <<>>]

CacheInit ==
    /\ setup \in Setups
    /\ pool = InitFixSizedAllocator(setup.pages)
    /\ store = EmptyStore
    /\ table = TableOf(EmptyStore)
    /\ thr = [t \in Threads |-> Resting]
    /\ copies = [x \in Agents |-> {}]
    /\ waiting = {} /\ cvLock = Nobody
    /\ born = {}
    /\ got = <<>>

Goto(t, pc) == thr' = [thr EXCEPT ![t].pc = pc]

Return(t) == thr' = [thr EXCEPT ![t] = [Resting EXCEPT !.done = @ + 1 + thr[t].done]]

FirstStep == [allocate |-> "alloc", register |-> "register", unregister |-> "unregister",
              deallocate |-> "deallocate", removeKey |-> "removeKey", copy |-> "copySrc",
              staging |-> "try"]

\* A thread makes one of its calls. Ids come from a counter, so a cache is
\* made once, and the other calls name caches that were made.
Begin(t, call) ==
    /\ thr[t].pc = "idle" /\ thr[t].done < setup.maxCalls
    /\ call.op \in {"allocate", "register"} => call.id \notin born
    /\ call.op \in {"deallocate", "unregister"} => call.id \in DOMAIN store.entry
    /\ thr' = [thr EXCEPT ![t].pc = FirstStep[call.op], ![t].call = call]
    /\ born' = IF call.op \in {"allocate", "register"} THEN born \cup {call.id} ELSE born
    /\ UNCHANGED <<store, table, copies, cvLock, got>> /\ Keep

\* Allocate: the tensors one by one, each a call of the pool.
AllocTensor(t) ==
    LET id == thr[t].call.id
        r == Alloc(pool, DescOf(id).size)
    IN  /\ thr[t].pc = "alloc" /\ Len(thr[t].addrs) < DescOf(id).tensors
        /\ r.addr # NoSpan
        /\ pool' = r.pool
        /\ copies' = [copies EXCEPT ![t] = @ \cup {<<id, r.addr>>}]
        /\ thr' = [thr EXCEPT ![t].addrs = Append(@, r.addr)]
        /\ UNCHANGED <<store, table, waiting, cvLock, born, got>>

\* No memory for a tensor: the call fails, and drops those it got.
OutOfMemory(t) ==
    LET id == thr[t].call.id
    IN  /\ thr[t].pc = "alloc" /\ Len(thr[t].addrs) < DescOf(id).tensors
        /\ Alloc(pool, DescOf(id).size).addr = NoSpan
        /\ copies' = [copies EXCEPT ![t] = {}]
        /\ Return(t)
        /\ UNCHANGED <<store, table, cvLock, born, got>>
        /\ Release

\* The end of Allocate: the entry takes the tensors over, if the keys are free.
AddEntry(t) ==
    LET id == thr[t].call.id
        new == [store EXCEPT !.entry = Put(@, id, NewEntry(id, thr[t].addrs, TRUE))]
    IN  /\ thr[t].pc = "alloc" /\ Len(thr[t].addrs) = DescOf(id).tensors
        /\ IF CheckCacheKeys(store, id)
           THEN /\ store' = AddCacheIndices(new, id)
                /\ UpdateCacheTable(store')
                /\ got' = got @@ [r \in RowsOf(store', id) |-> {}]
           ELSE UNCHANGED <<store, table, got>>
        /\ copies' = [copies EXCEPT ![t] = {}]
        /\ Return(t)
        /\ UNCHANGED <<cvLock, born>>
        /\ Release

\* A registered cache: the memory is the application's, the keys not checked.
RegisterCacheEntry(t) ==
    LET id == thr[t].call.id
        new == [store EXCEPT !.entry = Put(@, id, NewEntry(id, <<>>, FALSE))]
    IN  /\ thr[t].pc = "register"
        /\ store' = AddCacheIndices(new, id)
        /\ UpdateCacheTable(store')
        /\ Return(t)
        /\ UNCHANGED <<copies, cvLock, born, got>> /\ Keep

UnregisterCacheEntry(t) ==
    LET id == thr[t].call.id
    IN  /\ thr[t].pc = "unregister"
        /\ store' = IF id \in DOMAIN store.entry
                    THEN EraseEntry(RemoveCacheIndices(store, id), id) ELSE store
        /\ UpdateCacheTable(store')
        /\ Return(t)
        /\ UNCHANGED <<copies, cvLock, born, got>>
        /\ Release

Deallocate(t) ==
    /\ thr[t].pc = "deallocate"
    /\ store' = DeallocateIn(store, thr[t].call.id)
    /\ IF DOMAIN store'.entry = DOMAIN store.entry THEN UNCHANGED table
       ELSE UpdateCacheTable(store')
    /\ Return(t)
    /\ UNCHANGED <<copies, cvLock, born, got>>
    /\ Release

\* The rows of a cache that go by a key, and what they have no more need of.
Serve(key, tensors) ==
    [r \in DOMAIN got |->
        IF r \in DOMAIN store.rowToKey /\ store.rowToKey[r] = key
        THEN got[r] \cup (IF tensors = {} THEN Tensors(r[1]) ELSE tensors)
        ELSE got[r]]

\* RemoveCacheKey as one step, for a call or at the end of a pull.
RemoveKey(key, prefix, tensors) ==
    /\ store' = RemoveKeyIn(store, key, prefix, tensors)
    /\ IF KeyGoes(store, key, prefix, tensors) THEN UpdateCacheTable(store')
       ELSE UNCHANGED table
    /\ got' = Serve(key, tensors)

RemoveCacheKey(t) ==
    LET k == thr[t].call.key
    IN  /\ thr[t].pc = "removeKey"
        /\ RemoveKey(DataKey(k), k.prefix, {})
        /\ Return(t)
        /\ UNCHANGED <<copies, cvLock, born>>
        /\ Release

EntryCopy(id) ==
    IF store.entry[id].owned
    THEN {<<id, store.entry[id].addrs[i]>> : i \in DOMAIN store.entry[id].addrs}
    ELSE {}

\* CopyCache: a copy of each entry, then the tensors, then both are dropped.
CopyGet(t, pc, id, next) ==
    /\ thr[t].pc = pc
    /\ UNCHANGED <<store, table, cvLock, born, got>>
    /\ IF id \in DOMAIN store.entry
       THEN /\ copies' = [copies EXCEPT ![t] = @ \cup EntryCopy(id)]
            /\ Goto(t, next) /\ Keep
       ELSE /\ copies' = [copies EXCEPT ![t] = {}]
            /\ Return(t) /\ Release

CopyCache(t) ==
    \/ CopyGet(t, "copySrc", thr[t].call.src, "copyDst")
    \/ CopyGet(t, "copyDst", thr[t].call.dst, "copied")

CopyDone(t) ==
    /\ thr[t].pc = "copied"
    /\ copies' = [copies EXCEPT ![t] = {}]
    /\ Return(t)
    /\ UNCHANGED <<store, table, cvLock, born, got>>
    /\ Release

\* LlmMemPool::Alloc with a timeout, as a D2H pull makes it for its staging
\* buffers: try, take mu_cv_, try again, wait on cv_ for a Free.
Take(t, r) ==
    /\ pool' = r.pool
    /\ copies' = [copies EXCEPT ![t] = {<<0, r.addr>>}]

TryAlloc(t) ==
    LET r == Alloc(pool, thr[t].call.size)
    IN  /\ thr[t].pc = "try"
        /\ \/ r.addr # NoSpan /\ Take(t, r) /\ Goto(t, "holding")
           \/ r.addr = NoSpan /\ UNCHANGED <<pool, copies>> /\ Goto(t, "lock")
           \/ r.addr = NoSpan /\ UNCHANGED <<pool, copies>> /\ Return(t)    \* timed out
        /\ UNCHANGED <<store, table, waiting, cvLock, born, got>>

RetryAlloc(t) ==
    LET r == Alloc(pool, thr[t].call.size)
    IN  /\ thr[t].pc = "lock" /\ cvLock = Nobody
        /\ IF r.addr # NoSpan
           THEN Take(t, r) /\ Goto(t, "holding") /\ UNCHANGED cvLock
           ELSE UNCHANGED <<pool, copies>> /\ Goto(t, "wait") /\ cvLock' = t
        /\ UNCHANGED <<store, table, waiting, born, got>>

\* wait_until releases mu_cv_ and puts the thread on cv_; no Free that came
\* since the last try is noticed any more.
WaitForFree(t) ==
    /\ thr[t].pc = "wait"
    /\ waiting' = waiting \cup {t} /\ cvLock' = Nobody
    /\ Goto(t, "waiting")
    /\ UNCHANGED <<pool, store, table, copies, born, got>>

Woken(t) ==
    /\ thr[t].pc = "waiting" /\ t \notin waiting
    /\ Goto(t, "try")
    /\ UNCHANGED <<pool, store, table, copies, waiting, cvLock, born, got>>

WaitTimeout(t) ==
    LET r == Alloc(pool, thr[t].call.size)
    IN  /\ thr[t].pc = "waiting" /\ t \in waiting
        /\ waiting' = waiting \ {t}
        /\ IF r.addr # NoSpan THEN Take(t, r) /\ Goto(t, "holding")
           ELSE UNCHANGED <<pool, copies>> /\ Return(t)
        /\ UNCHANGED <<store, table, cvLock, born, got>>

\* The pull ends and frees its buffer.
FreeStaging(t) ==
    /\ thr[t].pc = "holding"
    /\ copies' = [copies EXCEPT ![t] = {}]
    /\ Return(t)
    /\ UNCHANGED <<store, table, cvLock, born, got>>
    /\ Release

CacheStep(t) ==
    \/ \E call \in setup.calls[t] : Begin(t, call)
    \/ AllocTensor(t) \/ OutOfMemory(t) \/ AddEntry(t)
    \/ RegisterCacheEntry(t) \/ UnregisterCacheEntry(t)
    \/ Deallocate(t) \/ RemoveCacheKey(t)
    \/ CopyCache(t) \/ CopyDone(t)
    \/ TryAlloc(t) \/ RetryAlloc(t) \/ WaitForFree(t) \/ Woken(t) \/ WaitTimeout(t)
    \/ FreeStaging(t)

-----------------------------------------------------------------------------

\* The pool's books are in order, and it lends exactly the memory somebody
\* holds: a tensor is neither kept after its last user let go, nor given back
\* or given to a second cache while someone still works with it.
MemoryExact ==
    LET held == Held(store, copies)
    IN  /\ PoolExact(pool)
        /\ pool.block = {h[2] : h \in held}
        /\ \A g, h \in held : g[2] = h[2] => g = h

\* The indices agree: a key leads to a cache that is there, whose row for that
\* key leads back, and the table a remote node reads is the current one (while
\* it fits), so that a reader never finds a key without its cache.
IndexExact ==
    /\ \A k \in DOMAIN store.keyToId : store.keyToId[k] \in DOMAIN store.entry
    /\ \A k \in DOMAIN store.prefixToId : store.prefixToId[k] \in DOMAIN store.entry
    /\ \A r \in DOMAIN store.rowToKey :
        LET k == store.rowToKey[r]
        IN  /\ r[1] \in DOMAIN store.entry
            /\ k[1] \in DOMAIN store.entry[r[1]].batch
            /\ store.entry[r[1]].batch[k[1]] = r[2]
            /\ \/ k \in DOMAIN store.keyToId /\ store.keyToId[k] = r[1]
               \/ k \in DOMAIN store.prefixToId /\ store.prefixToId[k] = r[1]
    /\ \A id \in DOMAIN store.entry :
        {store.entry[id].batch[n] : n \in DOMAIN store.entry[id].batch}
            = {r[2] : r \in RowsOf(store, id)}
    /\ setup.remote /\ Cardinality(DOMAIN store.entry) <= setup.tableCap =>
        table = TableOf(store)

\* The tensors of a cache some key of which were pulled or removed.
Taken(id) == UNION {got[r] : r \in {x \in DOMAIN got : x[1] = id}}

\* A continuous cache is freed only when its id was deallocated and each of its
\* keys was removed or pulled, all layers of it (deallocate_cache: the release
\* is delayed until every key has been pulled or removed). The layers of a cache
\* are counted together for all its keys: with pulls of single layers a key
\* stays only until each layer was pulled under some key.
KeysKeepCache ==
    \A r \in DOMAIN got : got[r] # Tensors(r[1]) /\ Taken(r[1]) # Tensors(r[1]) =>
        r \in DOMAIN store.rowToKey /\ r[1] \in DOMAIN store.entry
=============================================================================
