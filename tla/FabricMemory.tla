---------------------------- MODULE FabricMemory ----------------------------
(***************************************************************************)
(* The memory of UB_MEM (fabric memory) endpoints: UbMemEndpoint with its  *)
(* UbMemMemory, the process-wide UbMemAllocator and VirtualMemoryManager.  *)
(*                                                                         *)
(* An endpoint exports what is registered with it as share handles of      *)
(* physical blocks, and maps the blocks of a peer into a range of virtual  *)
(* addresses of its own. Endpoints of one process share the pool of        *)
(* virtual addresses, the table of exports by block (a block is exported   *)
(* once, and the handle used again), and the ledger of what this process   *)
(* exported (a process cannot import its own exports, it uses them where   *)
(* they are). Every call holds the lock of its endpoint from end to end,   *)
(* the shared tables are locked step by step.                              *)
(*                                                                         *)
(* Addresses count pages. A physical block is a number, a share handle     *)
(* says who exported which block and at which export of it.                *)
(*                                                                         *)
(* Left out: the memory type (all ranges have one), the page sizes and the *)
(* placement asked of the driver, the layout of the descriptors.           *)
(***************************************************************************)
EXTENDS Integers, Sequences, FiniteSets, SequencesExt

CONSTANTS
    Endpoints,     \* the UB_MEM endpoints of this process
    Setups,        \* what a behaviour may do, see below
    BlockPages,    \* pages of a block of the virtual memory manager
    PoolStart,     \* first page of its pool
    MaxPhys,       \* bound on physical blocks ever allocated
    MaxExports     \* a block exported that often is not registered anew

(***************************************************************************)
(* setup.blocks  the user's device memory: first page |-> pages            *)
(* setup.ranges  the ranges [addr, len] of it the user registers           *)
(* setup.own     sizes the user asks of MallocMem                          *)
(* setup.peer    the descriptors a peer process offers                     *)
(* setup.config  endpoint |-> configured pool [blocks, start], 0 if none   *)
(* setup.jobs    endpoint |-> what happens to it                           *)
(* setup.faults  whether driver calls may fail                             *)
(* setup.pool    size of the pool in blocks when no endpoint configures it *)
(***************************************************************************)
VARIABLES
    setup,
    heap,    \* first page of a user's block |-> its physical block, or NoPhys
    lib,     \* the process-wide tables and the driver's state
    ep,      \* the endpoints
    call     \* the call that holds the endpoint's lock

vars == <<setup, heap, lib, ep, call>>

NoPhys == 0
NoHandle == [owner |-> "none", phys |-> NoPhys, nth |-> 0]
None == <<>>     \* the empty table

Put(f, k, v) == [x \in DOMAIN f \cup {k} |-> IF x = k THEN v ELSE f[x]]
Drop(f, k) == [x \in DOMAIN f \ {k} |-> f[x]]
Without(f, ks) == [x \in DOMAIN f \ ks |-> f[x]]

Pages(r) == r.addr..(r.addr + r.len - 1)
PagesOf(info) == info.va..(info.va + info.len - 1)

-----------------------------------------------------------------------------
(* The driver: physical blocks counted by references, exports, the map.    *)

Retain(l, p) == [l EXCEPT !.phys[p].refs = @ + 1]
FreePhysical(l, p) == [l EXCEPT !.phys[p].refs = @ - 1]
MallocPhysical(l) == [l EXCEPT !.phys = Append(@, [refs |-> 1, exports |-> 0])]

AclExport(l, p) ==
    [lib |-> [l EXCEPT !.phys[p].exports = @ + 1],
     handle |-> [owner |-> "here", phys |-> p, nth |-> l.phys[p].exports + 1]]

\* A share handle works in another process only.
CanImport(h) == h.owner # "here"

MapMem(l, va, info) ==
    [l EXCEPT !.map = [x \in DOMAIN @ \cup (va..(va + info.len - 1)) |->
        IF x \in va..(va + info.len - 1) THEN <<info.handle.owner, info.handle.phys, x - va>>
                                         ELSE @[x]]]
UnmapMem(l, va, len) == [l EXCEPT !.map = Without(@, va..(va + len - 1))]

-----------------------------------------------------------------------------
(* VirtualMemoryManager: whole blocks, first fit. The place asked for the  *)
(* pool is a number, at most MaxStart.                                     *)

DefaultStart == 1
MaxStart == 2

InitProcess(l) == IF l.blocks = 0 THEN [l EXCEPT !.blocks = l.default, !.inited = TRUE]
                                  ELSE [l EXCEPT !.inited = TRUE]

\* The size cannot change once the pool is there, nor where it was asked to be
\* (the driver takes that as a hint).
SetVirtualMemoryCapacity(l, n) ==
    CASE l.inited /\ l.blocks # n -> [ok |-> FALSE, lib |-> l]
      [] l.inited /\ l.blocks = n -> [ok |-> TRUE, lib |-> l]
      [] ~l.inited -> [ok |-> TRUE, lib |-> [l EXCEPT !.blocks = n]]

SetGlobalStartAddress(l, at) ==
    CASE at > MaxStart -> [ok |-> FALSE, lib |-> l]
      [] at <= MaxStart /\ l.inited -> [ok |-> l.start = at, lib |-> l]
      [] at <= MaxStart /\ ~l.inited -> [ok |-> TRUE, lib |-> [l EXCEPT !.start = at]]

BlocksNeeded(size) == size \div BlockPages + (IF size % BlockPages # 0 THEN 1 ELSE 0)
Run(i, n) == i..(i + n - 1)
FreeRuns(l, n) == {i \in 0..(l.blocks - n) : Run(i, n) \cap l.bitmap = {}}

ReserveMemory(l, size) ==
    LET n == BlocksNeeded(size)
        fits == FreeRuns(l, n)
        i == CHOOSE i \in fits : \A j \in fits : i <= j
        va == PoolStart + i * BlockPages
    IN  IF n > l.blocks \/ fits = {} THEN [ok |-> FALSE, lib |-> l, va |-> 0]
        ELSE [ok |-> TRUE, va |-> va,
              lib |-> [l EXCEPT !.bitmap = @ \cup Run(i, n), !.reserved = Put(@, va, n)]]

ReleaseMemory(l, va) ==
    IF va \notin DOMAIN l.reserved THEN l
    ELSE [l EXCEPT !.bitmap = @ \ Run((va - PoolStart) \div BlockPages, l.reserved[va]),
                   !.reserved = Drop(@, va)]

-----------------------------------------------------------------------------
(* UbMemAllocator.                                                         *)

\* The user's memory from MallocMem: where, which block, exported or not.
CanMalloc(size) == size \in setup.own /\ Len(lib.phys) < MaxPhys

MallocMem(size) ==
    /\ CanMalloc(size)
    /\ lib.inited
    /\ LET p == Len(lib.phys) + 1
           r == ReserveMemory(MallocPhysical(lib), size)
           info == [len |-> size, handle |-> [owner |-> "here", phys |-> p]]
       IN  /\ r.ok
           /\ lib' = [MapMem(r.lib, r.va, info) EXCEPT
                        !.allocs = Put(@, r.va, [phys |-> p, len |-> size, handle |-> NoHandle])]
    /\ UNCHANGED <<setup, heap, ep, call>>

FreeMem(va) ==
    LET a == lib.allocs[va]
        gone == UnmapMem([lib EXCEPT !.allocs = Drop(@, va)], va, a.len)
    IN  /\ lib' = FreePhysical(ReleaseMemory(gone, va), a.phys)
        /\ UNCHANGED <<setup, heap, ep, call>>

\* One export for each allocation; the handle is kept.
ExportToShareableHandle(l, va) ==
    IF l.allocs[va].handle # NoHandle THEN [lib |-> l, handle |-> l.allocs[va].handle]
    ELSE LET x == AclExport(l, l.allocs[va].phys)
         IN  [x EXCEPT !.lib.allocs[va].handle = x.handle]

\* One export for each foreign block while something of it is registered. (The
\* other condition of the code asks for a range with an all-zero handle, which
\* nobody records.)
GetOrExportForeignShareHandle(l, b, len, p) ==
    IF <<b, len>> \in DOMAIN l.cache THEN [lib |-> l, handle |-> l.cache[<<b, len>>]]
    ELSE LET x == AclExport(l, p)
         IN  [x EXCEPT !.lib.cache = Put(@, <<b, len>>, x.handle)]

RecordExportedRange(l, info) ==
    [l EXCEPT !.ledger = Put(@, info, 1 + IF info \in DOMAIN @ THEN @[info] ELSE 0)]

\* With the last range of a block its handle leaves the table: the memory may
\* be freed, and another block come to the same address.
ReleaseExportedRange(l, info) ==
    CASE info \notin DOMAIN l.ledger -> l
      [] info \in DOMAIN l.ledger /\ l.ledger[info] > 1 -> [l EXCEPT !.ledger[info] = @ - 1]
      [] OTHER -> [l EXCEPT !.ledger = Drop(@, info), !.cache = Drop(@, <<info.va, info.len>>)]

IsRangeExportedHere(l, info) == info \in DOMAIN l.ledger

-----------------------------------------------------------------------------
(* LocalMemory: what an endpoint exports. A segment is [info, phys,        *)
(* retained]; a registration has segments of its own, or shares the        *)
(* segments of foreign blocks with other registrations of the endpoint.    *)

IdleCall == [op |-> "idle", reg |-> None, cursor |-> 0, seg |-> None, todo |-> <<>>, after |-> "idle"]
Goto(e, c) == call' = [call EXCEPT ![e] = c]
Free(e) == ep[e].state = "ready" /\ call[e].op = "idle"
Does(e, job) == job \in setup.jobs[e]

BlockOf(a) == CHOOSE b \in DOMAIN setup.blocks : a \in b..(b + setup.blocks[b] - 1)
BlocksOf(r) == {BlockOf(a) : a \in Pages(r)}

\* A range registered again yields the same handle, and an overlapping one an
\* error: neither changes anything here.
FindExistingHandleForOverlap(e, r) ==
    {h \in DOMAIN ep[e].regs : Pages(ep[e].regs[h]) \cap Pages(r) # {}}

ReleaseSegment(l, s) ==
    ReleaseExportedRange(IF s.retained THEN FreePhysical(l, s.phys) ELSE l, s.info)

ToRelease(reg) == [i \in 1..Len(reg.pages) |-> [page |-> reg.pages[i], seg |-> None]]
                  \o [i \in 1..Len(reg.segs) |-> [page |-> 0, seg |-> reg.segs[i]]]

\* RegisterMem of memory from MallocMem: exported in one step,
ExportOwn(e, r) ==
    LET x == ExportToShareableHandle(lib, r.addr)
        s == [info |-> [va |-> r.addr, len |-> r.len, handle |-> x.handle],
              phys |-> lib.allocs[r.addr].phys, retained |-> FALSE]
    IN  \/ /\ lib' = x.lib
           /\ Goto(e, [IdleCall EXCEPT !.op = "own", !.seg = s,
                         !.reg = [addr |-> r.addr, len |-> r.len, segs |-> <<>>, pages |-> <<>>]])
        \/ setup.faults /\ UNCHANGED <<lib, call>>

RegisterMem(e, r) ==
    /\ Free(e) /\ Does(e, "register")
    /\ FindExistingHandleForOverlap(e, r) = {}
    /\ IF r.addr \in DOMAIN lib.allocs
       THEN ExportOwn(e, r)
       ELSE /\ Goto(e, [IdleCall EXCEPT !.op = "blocks", !.cursor = r.addr,
                          !.reg = [addr |-> r.addr, len |-> r.len, segs |-> <<>>, pages |-> <<>>]])
            /\ UNCHANGED lib
    /\ UNCHANGED <<setup, heap, ep>>

\* and recorded in the next.
RecordOwn(e) ==
    /\ call[e].op = "own"
    /\ lib' = RecordExportedRange(lib, call[e].seg.info)
    /\ Goto(e, [call[e] EXCEPT !.op = "commit", !.reg.segs = <<call[e].seg>>])
    /\ UNCHANGED <<setup, heap, ep>>

Reusable(e, b) == b \in DOMAIN ep[e].pas /\ ep[e].pas[b].seg.info.len = setup.blocks[b]
PastBlock(b) == b + setup.blocks[b]
AtBlock(e) == call[e].op = "blocks" /\ call[e].cursor < call[e].reg.addr + call[e].reg.len

\* The next block of a foreign range is exported already by this endpoint,
ReuseBlock(e) ==
    LET b == BlockOf(call[e].cursor)
    IN  /\ AtBlock(e) /\ Reusable(e, b)
        /\ ep' = [ep EXCEPT ![e].pas[b].count = @ + 1]
        /\ Goto(e, [call[e] EXCEPT !.cursor = PastBlock(b), !.reg.pages = Append(@, b)])
        /\ UNCHANGED <<setup, heap, lib>>

\* or it is retained and exported. A failure undoes the registration so far.
ExportSegment(e) ==
    LET b == BlockOf(call[e].cursor)
        p == heap[b]
        x == GetOrExportForeignShareHandle(Retain(lib, p), b, setup.blocks[b], p)
        s == [info |-> [va |-> b, len |-> setup.blocks[b], handle |-> x.handle],
              phys |-> p, retained |-> TRUE]
    IN  /\ AtBlock(e) /\ ~Reusable(e, b)
        /\ \/ /\ lib' = x.lib
              /\ Goto(e, [call[e] EXCEPT !.op = "record", !.seg = s])
           \/ /\ setup.faults
              /\ Goto(e, [call[e] EXCEPT !.op = "release", !.todo = ToRelease(call[e].reg)])
              /\ UNCHANGED lib
        /\ UNCHANGED <<setup, heap, ep>>

\* The exported block is entered in the ledger and in the endpoint's table.
\* (The code's other branch, another call of this endpoint having entered the
\* block meanwhile, cannot be taken under the endpoint's lock.)
AttachForeignPaPage(e) ==
    LET s == call[e].seg
        b == s.info.va
    IN  /\ call[e].op = "record"
        /\ lib' = RecordExportedRange(lib, s.info)
        /\ ep' = [ep EXCEPT ![e].pas = Put(@, b, [seg |-> s, count |-> 1])]
        /\ Goto(e, [call[e] EXCEPT !.op = "blocks", !.cursor = PastBlock(b), !.seg = None,
                                   !.reg.pages = Append(@, b)])
        /\ UNCHANGED <<setup, heap>>

HandleOf(reg) == IF reg.segs # <<>> THEN <<"pa", reg.segs[1].phys>> ELSE <<"reg", reg.addr>>

GetShareHandles(e, reg) ==
    [i \in 1..Len(reg.segs) |-> reg.segs[i].info]
    \o [i \in 1..Len(reg.pages) |-> ep[e].pas[reg.pages[i]].seg.info]

\* The registration is entered, and its descriptor written: MemReg returns. If
\* writing the descriptor fails the registration is taken back.
MemReg(e) ==
    LET reg == call[e].reg
    IN  /\ \/ call[e].op = "commit"
           \/ call[e].op = "blocks" /\ ~AtBlock(e)
        /\ \/ /\ ep' = [ep EXCEPT ![e].regs = Put(@, HandleOf(reg), reg),
                                  ![e].exports = Put(@, HandleOf(reg), GetShareHandles(e, reg))]
              /\ Goto(e, IdleCall)
           \/ /\ setup.faults
              /\ Goto(e, [call[e] EXCEPT !.op = "release", !.todo = ToRelease(reg)])
              /\ UNCHANGED ep
        /\ UNCHANGED <<setup, heap, lib>>

MemUnreg(e, h) ==
    /\ Free(e) /\ Does(e, "register")
    /\ ep' = [ep EXCEPT ![e].regs = Drop(@, h), ![e].exports = Drop(@, h)]
    /\ Goto(e, [IdleCall EXCEPT !.op = "release", !.todo = ToRelease(ep[e].regs[h])])
    /\ UNCHANGED <<setup, heap, lib>>

\* One block of a registration, or its own segment, is let go.
ReleaseRegistration(e) ==
    LET t == Head(call[e].todo)
    IN  /\ call[e].op = "release" /\ call[e].todo # <<>>
        /\ Goto(e, [call[e] EXCEPT !.todo = Tail(@)])
        /\ CASE t.page = 0 -> lib' = ReleaseSegment(lib, t.seg) /\ UNCHANGED ep
             [] t.page # 0 /\ ep[e].pas[t.page].count > 1 ->
                ep' = [ep EXCEPT ![e].pas[t.page].count = @ - 1] /\ UNCHANGED lib
             [] OTHER ->
                /\ lib' = ReleaseSegment(lib, ep[e].pas[t.page].seg)
                /\ ep' = [ep EXCEPT ![e].pas = Drop(@, t.page)]
        /\ UNCHANGED <<setup, heap>>

Released(e) ==
    /\ call[e].op = "release" /\ call[e].todo = <<>>
    /\ Goto(e, [IdleCall EXCEPT !.op = call[e].after])
    /\ UNCHANGED <<setup, heap, lib, ep>>

-----------------------------------------------------------------------------
(* RemoteMemory: what an endpoint mapped of its peer. A range is [info,    *)
(* imported, base]; base is the reserved span it lies in.                  *)

OwnsHandle(l, info) == IsRangeExportedHere(l, info)

\* Ranges that follow each other on both sides become one entry; a second
\* range at an address that has an entry is dropped.
AddToIndex(index, r) ==
    LET n == Len(index)
        last == index[n]
        joins == /\ last.peer + last.len = r.info.va
                 /\ last.va + last.len = r.local
                 /\ last.imported = r.imported
    IN  CASE n > 0 /\ joins -> [index EXCEPT ![n].len = @ + r.info.len]
          [] n > 0 /\ ~joins /\ \E i \in 1..n : index[i].peer = r.info.va -> index
          [] OTHER -> Append(index, [peer |-> r.info.va, va |-> r.local,
                                     len |-> r.info.len, imported |-> r.imported])

\* The ranges by their address at the peer; equal ones come in any order.
Sorted(maps) ==
    LET locals == DOMAIN maps
        n == Cardinality(locals)
    IN  {[i \in 1..n |-> [maps[s[i]] EXCEPT !.local = s[i]]] :
            s \in {s \in [1..n -> locals] :
                    /\ IsInjective(s)
                    /\ \A i \in 1..(n - 1) : maps[s[i]].info.va <= maps[s[i + 1]].info.va}}

RebuildTranslationIndex(maps) == {FoldLeft(AddToIndex, <<>>, s) : s \in Sorted(maps)}

BindLocalAddrs(maps, owned) ==
    FoldLeft(LAMBDA m, i : Put(m, i.va, [info |-> i, local |-> i.va, imported |-> FALSE, base |-> 0]),
             maps, owned)

SpanStart(infos) == CHOOSE a \in {infos[i].va : i \in DOMAIN infos} :
                        \A i \in DOMAIN infos : a <= infos[i].va
SpanEnd(infos) == CHOOSE a \in {infos[i].va + infos[i].len : i \in DOMAIN infos} :
                        \A i \in DOMAIN infos : a >= infos[i].va + infos[i].len

\* One block is imported and mapped at its place in the span.
MapOne(st, i, span, base) ==
    LET local == base + (i.va - span)
    IN  [st EXCEPT !.lib = MapMem(@, local, i),
                   !.maps = Put(@, local, [info |-> i, local |-> local, imported |-> TRUE,
                                           base |-> base])]

\* Mutant: the span goes back with the first of its ranges.
ReleaseSpanEarly(st, local) ==
    LET r == st.maps[local]
        l == UnmapMem(st.lib, local, r.info.len)
    IN  IF ~r.imported THEN [st EXCEPT !.maps = Drop(@, local)]
        ELSE [lib |-> ReleaseMemory(l, r.base), maps |-> Drop(st.maps, local),
              spans |-> Drop(st.spans, r.base)]

\* A range is unmapped; its span goes back to the pool with its last range.
ReleaseRange(st, local) ==
    LET r == st.maps[local]
        l == UnmapMem(st.lib, local, r.info.len)
        kept == r.base \in DOMAIN st.spans
    IN  CASE ~r.imported -> [st EXCEPT !.maps = Drop(@, local)]
          [] r.imported /\ kept /\ st.spans[r.base] > 1 ->
                [lib |-> l, maps |-> Drop(st.maps, local), spans |-> [st.spans EXCEPT ![r.base] = @ - 1]]
          [] r.imported /\ kept /\ st.spans[r.base] <= 1 ->
                [lib |-> ReleaseMemory(l, r.base), maps |-> Drop(st.maps, local),
                 spans |-> Drop(st.spans, r.base)]
          [] OTHER -> [st EXCEPT !.lib = l, !.maps = Drop(@, local)]

ReleaseAll(st, locals) == FoldSet(LAMBDA a, s : ReleaseRange(s, a), st, locals)

\* Spans whose import stopped half way still go back.
Clear(st) ==
    LET s == ReleaseAll(st, DOMAIN st.maps)
    IN  [lib |-> FoldSet(LAMBDA b, l : ReleaseMemory(l, b), s.lib, DOMAIN s.spans),
         maps |-> None, spans |-> None]

\* Every range of that block and handle goes, of whichever descriptor.
ReleaseByHandle(st, info) == ReleaseAll(st, {a \in DOMAIN st.maps : st.maps[a].info = info})

Remote(e) == [lib |-> lib, maps |-> ep[e].maps, spans |-> ep[e].spans]

\* The state becomes st, with an index over its ranges.
Becomes(e, st, closed) ==
    /\ lib' = st.lib
    /\ \E index \in IF closed THEN {<<>>} ELSE RebuildTranslationIndex(st.maps) :
          ep' = [ep EXCEPT ![e].maps = st.maps, ![e].spans = st.spans, ![e].index = index]

\* GetRemoteMem: the descriptors of a peer, or of another endpoint here, which
\* writes them under its own lock.
FetchRemoteMem(e) ==
    /\ Free(e) /\ call[e].todo = <<>> /\ ep[e].held = <<>>
    /\ \E descs \in (IF Does(e, "peer") THEN {setup.peer} ELSE {})
                    \cup {SetToSeq({ep[f].exports[h] : h \in DOMAIN ep[f].exports}) :
                            f \in {f \in Endpoints \ {e} : Does(e, "loop") /\ Free(f)}} :
          /\ descs # <<>>
          /\ Goto(e, [IdleCall EXCEPT !.op = "import", !.todo = descs])
    /\ UNCHANGED <<setup, heap, lib, ep>>

\* One descriptor: what this process exported is used in place, the rest is
\* imported into one span. Any failure clears the endpoint's ranges, and the
\* client closes the descriptors it has.
ImportOneDesc(e) ==
    LET d == Head(call[e].todo)
        owned == SelectSeq(d, LAMBDA i : OwnsHandle(lib, i))
        remote == SelectSeq(d, LAMBDA i : ~OwnsHandle(lib, i))
        bound == [Remote(e) EXCEPT !.maps = BindLocalAddrs(@, owned)]
        start == SpanStart(remote)
        r == ReserveMemory(lib, SpanEnd(remote) - start)
        opened == [bound EXCEPT !.lib = r.lib, !.spans = Put(@, r.va, Len(remote))]
        mapped(n) == FoldLeft(LAMBDA st, i : MapOne(st, i, start, r.va), opened, SubSeq(remote, 1, n))
        good(n) == \A i \in 1..n : CanImport(remote[i].handle)
        Fail(st) == /\ Becomes(e, Clear(st), TRUE)
                    /\ Goto(e, [IdleCall EXCEPT !.op = "close", !.todo = ep[e].held])
        Succeed(st) == /\ \E index \in RebuildTranslationIndex(st.maps) :
                            ep' = [ep EXCEPT ![e].maps = st.maps, ![e].spans = st.spans,
                                             ![e].index = index, ![e].held = Append(@, d)]
                       /\ lib' = st.lib
                       /\ Goto(e, [call[e] EXCEPT !.todo = Tail(@)])
    IN  /\ call[e].op = "import" /\ call[e].todo # <<>>
        /\ \/ remote = <<>> /\ Succeed(bound)
           \/ remote # <<>> /\ ~r.ok /\ Fail(bound)
           \/ /\ remote # <<>> /\ r.ok
              /\ good(Len(remote))
              /\ Succeed(mapped(Len(remote)))
           \/ /\ remote # <<>> /\ r.ok
              /\ \E n \in 0..(Len(remote) - 1) :
                    /\ setup.faults \/ ~CanImport(remote[n + 1].handle)
                    /\ good(n)
                    /\ Fail(mapped(n))
        /\ UNCHANGED <<setup, heap>>

Imported(e) ==
    /\ call[e].op = "import" /\ call[e].todo = <<>>
    /\ Goto(e, IdleCall)
    /\ UNCHANGED <<setup, heap, lib, ep>>

\* ClearRemoteMemInfo: the client leaves its peer,
CloseImportedBufs(e) ==
    /\ Free(e) /\ ep[e].held # <<>>
    /\ Goto(e, [IdleCall EXCEPT !.op = "close", !.todo = ep[e].held])
    /\ UNCHANGED <<setup, heap, lib, ep>>

\* one descriptor after the other.
Unimport(e) ==
    LET d == Head(call[e].todo)
    IN  /\ call[e].op = "close" /\ call[e].todo # <<>>
        /\ Becomes(e, FoldLeft(ReleaseByHandle, Remote(e), d), FALSE)
        /\ Goto(e, [call[e] EXCEPT !.todo = Tail(@)])
        /\ UNCHANGED <<setup, heap>>

Closed(e) ==
    /\ call[e].op = "close" /\ call[e].todo = <<>>
    /\ ep' = [ep EXCEPT ![e].held = <<>>]
    /\ Goto(e, IdleCall)
    /\ UNCHANGED <<setup, heap, lib>>

-----------------------------------------------------------------------------
(* The endpoint itself.                                                    *)

EndpointCreate(e) ==
    LET k == setup.config[e]
        q == IF k.blocks = 0 THEN [ok |-> TRUE, lib |-> lib] ELSE SetVirtualMemoryCapacity(lib, k.blocks)
        r == IF ~q.ok \/ k.start = 0 THEN q ELSE SetGlobalStartAddress(q.lib, k.start)
    IN  /\ ep[e].state = "new"
        /\ lib' = IF r.ok /\ ~r.lib.inited THEN InitProcess(r.lib) ELSE r.lib
        /\ ep' = [ep EXCEPT ![e].state = IF r.ok THEN "ready" ELSE "refused"]
        /\ UNCHANGED <<setup, heap, call>>

\* Endpoint::Finalize: MemUnreg of every registration ...
FinalizeEndpoint(e) ==
    /\ Free(e) /\ Does(e, "destroy")
    /\ ep' = [ep EXCEPT ![e].regs = None, ![e].exports = None]
    /\ Goto(e, [IdleCall EXCEPT !.op = "release", !.after = "destroy",
                  !.todo = FlattenSeq(SetToSeq({ToRelease(ep[e].regs[h]) : h \in DOMAIN ep[e].regs}))])
    /\ UNCHANGED <<setup, heap, lib>>

\* ... then EndpointDestroy: the ranges of the peer go; UbMemMemory::Finalize
\* would release registrations after them, and finds none.
EndpointDestroy(e) ==
    /\ call[e].op = "destroy"
    /\ LET st == Clear(Remote(e))
       IN  /\ lib' = st.lib
           /\ ep' = [ep EXCEPT ![e].maps = st.maps, ![e].spans = st.spans, ![e].index = <<>>,
                               ![e].held = <<>>, ![e].state = "gone"]
    /\ Goto(e, IdleCall)
    /\ UNCHANGED <<setup, heap>>

-----------------------------------------------------------------------------
(* The user's memory. It stays while it is registered or being registered, *)
(* and while this process is using it in place.                            *)

InUse(pages) ==
    \E e \in Endpoints :
        \/ \E h \in DOMAIN ep[e].regs : Pages(ep[e].regs[h]) \cap pages # {}
        \/ call[e].reg # None /\ Pages(call[e].reg) \cap pages # {}
        \/ \E i \in DOMAIN call[e].todo : call[e].op = "release"
        \/ \E a \in DOMAIN ep[e].maps : ~ep[e].maps[a].imported /\ PagesOf(ep[e].maps[a].info) \cap pages # {}

FreeBlock(b) ==
    /\ heap[b] # NoPhys
    /\ ~InUse(b..(b + setup.blocks[b] - 1))
    /\ lib' = FreePhysical(lib, heap[b])
    /\ heap' = [heap EXCEPT ![b] = NoPhys]
    /\ UNCHANGED <<setup, ep, call>>

AllocBlock(b) ==
    /\ heap[b] = NoPhys /\ Len(lib.phys) < MaxPhys
    /\ lib' = MallocPhysical(lib)
    /\ heap' = [heap EXCEPT ![b] = Len(lib.phys) + 1]
    /\ UNCHANGED <<setup, ep, call>>

OwnRanges == {[addr |-> va, len |-> lib.allocs[va].len] : va \in DOMAIN lib.allocs}
UserRanges == {r \in setup.ranges : \A b \in BlocksOf(r) :
                  heap[b] # NoPhys /\ lib.phys[heap[b]].exports < MaxExports}

-----------------------------------------------------------------------------

Init ==
    /\ setup \in Setups
    /\ heap = [b \in DOMAIN setup.blocks |-> NoPhys]
    /\ lib = [phys |-> <<>>, map |-> None, cache |-> None, ledger |-> None, allocs |-> None,
              blocks |-> 0, default |-> setup.pool, start |-> DefaultStart, inited |-> FALSE, bitmap |-> {}, reserved |-> None]
    /\ ep = [e \in Endpoints |-> [state |-> "new", regs |-> None, pas |-> None, exports |-> None,
                                  maps |-> None, spans |-> None, index |-> <<>>, held |-> <<>>]]
    /\ call = [e \in Endpoints |-> IdleCall]

UserStep ==
    \/ \E b \in DOMAIN setup.blocks : AllocBlock(b) \/ FreeBlock(b)
    \/ \E size \in setup.own : MallocMem(size)
    \/ \E va \in DOMAIN lib.allocs :
          ~InUse(va..(va + lib.allocs[va].len - 1)) /\ FreeMem(va)

LocalStep(e) ==
    \/ \E r \in UserRanges \cup OwnRanges : RegisterMem(e, r)
    \/ RecordOwn(e) \/ ReuseBlock(e) \/ ExportSegment(e) \/ AttachForeignPaPage(e) \/ MemReg(e)
    \/ \E h \in DOMAIN ep[e].regs : MemUnreg(e, h)
    \/ ReleaseRegistration(e) \/ Released(e)

RemoteStep(e) ==
    \/ FetchRemoteMem(e) \/ ImportOneDesc(e) \/ Imported(e)
    \/ CloseImportedBufs(e) \/ Unimport(e) \/ Closed(e)

EndpointStep(e) == EndpointCreate(e) \/ FinalizeEndpoint(e) \/ EndpointDestroy(e)

\* No call is under way; a call that cannot go on is a deadlock.
Finished == (\A e \in Endpoints : call[e].op = "idle") /\ UNCHANGED vars

Next ==
    \/ UserStep
    \/ \E e \in Endpoints : LocalStep(e) \/ RemoteStep(e) \/ EndpointStep(e)
    \/ Finished

Spec == Init /\ [][Next]_vars

-----------------------------------------------------------------------------

\* What an endpoint holds of blocks and segments: in its tables, and in the
\* call that is building or releasing a registration.
Registrations(e) ==
    {ep[e].regs[h] : h \in DOMAIN ep[e].regs}
    \cup (IF call[e].reg # None /\ call[e].op # "release" THEN {call[e].reg} ELSE {})

Uses(e, b) ==
    Cardinality({r \in Registrations(e) : b \in ToSet(r.pages)})
    + Cardinality({i \in DOMAIN call[e].todo : call[e].op = "release" /\ call[e].todo[i].page = b})

Segments(e) ==
    {ep[e].pas[b].seg : b \in DOMAIN ep[e].pas}
    \cup UNION {ToSet(r.segs) : r \in Registrations(e)}
    \cup (IF call[e].op = "release"
          THEN {call[e].todo[i].seg : i \in {i \in DOMAIN call[e].todo : call[e].todo[i].page = 0}}
          ELSE {})

\* A segment between its export and its entry in the ledger.
Unrecorded(e) == IF call[e].op \in {"own", "record"} THEN {call[e].seg} ELSE {}

Holders(info) == {e \in Endpoints : \E s \in Segments(e) : s.info = info}

Refs(p) ==
    Cardinality({e \in Endpoints : \E s \in Segments(e) : s.retained /\ s.phys = p})
    + Cardinality({e \in Endpoints : \E s \in Unrecorded(e) : s.retained /\ s.phys = p})
    + Cardinality({b \in DOMAIN heap : heap[b] = p})
    + Cardinality({va \in DOMAIN lib.allocs : lib.allocs[va].phys = p})

\* The exports of the process are exact. The ledger counts the endpoints that
\* hold a range; a block is counted in its endpoint as often as registrations
\* use it; a physical block has a reference for its mapping and one for every
\* endpoint that retains it, so none is freed under an export and none leaks;
\* and the handle kept for a block is a handle of the block that is at that
\* address now, not of memory that was there before.
ExportsExact ==
    /\ DOMAIN lib.ledger = UNION {{s.info : s \in Segments(e)} : e \in Endpoints}
    /\ \A info \in DOMAIN lib.ledger : lib.ledger[info] = Cardinality(Holders(info))
    /\ \A e \in Endpoints :
        /\ \A b \in DOMAIN heap : (b \in DOMAIN ep[e].pas) = (Uses(e, b) > 0)
        /\ \A b \in DOMAIN ep[e].pas : ep[e].pas[b].count = Uses(e, b)
    /\ \A p \in DOMAIN lib.phys : lib.phys[p].refs = Refs(p)
    /\ \A k \in DOMAIN lib.cache : heap[k[1]] # NoPhys /\ lib.cache[k].phys = heap[k[1]]
    /\ \A e \in Endpoints : \A s \in Segments(e) : s.info.handle.phys = s.phys

\* The first entry at or below the address that reaches it.
FindMappedAddrPrefix(index, a) ==
    LET reach == {i \in DOMAIN index : index[i].peer <= a /\ a < index[i].peer + index[i].len}
    IN  IF reach = {} THEN [ok |-> FALSE, va |-> 0, left |-> 0]
        ELSE LET i == CHOOSE i \in reach : \A j \in reach : index[j].peer <= index[i].peer
             IN  [ok |-> TRUE, va |-> index[i].va + (a - index[i].peer),
                  left |-> index[i].len - (a - index[i].peer)]

\* An operation on len pages from a becomes one piece for each entry it meets.
TranslateRemoteOpDescs(index, a, len) ==
    LET piece[o \in 0..len] ==
            LET f == FindMappedAddrPrefix(index, a + o)
                n == IF f.left < len - o THEN f.left ELSE len - o
            IN  CASE o = len -> <<>>
                  [] o < len /\ ~f.ok -> <<[ok |-> FALSE, va |-> 0, len |-> 0]>>
                  [] OTHER -> <<[ok |-> TRUE, va |-> f.va, len |-> n]>> \o piece[o + n]
    IN  piece[0]

\* What is at a page of the peer, by the descriptors the endpoint imported.
At(e, a) == {<<i.handle.owner, i.handle.phys, a - i.va>> :
                i \in {i \in UNION {ToSet(d) : d \in ToSet(ep[e].held)} : a \in PagesOf(i)}}

\* What the process sees at a page of its own.
Sees(a) ==
    IF a \in DOMAIN lib.map THEN lib.map[a]
    ELSE LET b == BlockOf(a) IN <<"here", heap[b], a - b>>

PeerPages(e) == UNION {UNION {PagesOf(i) : i \in ToSet(d)} : d \in ToSet(ep[e].held)}

Translated(e, a, len) ==
    LET t == TranslateRemoteOpDescs(ep[e].index, a, len)
    IN  /\ \A i \in DOMAIN t : t[i].ok
        /\ FlattenSeq([i \in DOMAIN t |-> [k \in 1..t[i].len |-> Sees(t[i].va + k - 1)]])
           \in {s \in [1..len -> UNION {At(e, a + k) : k \in 0..(len - 1)}] :
                    \A k \in 1..len : s[k] \in At(e, a + k - 1)}

\* What an endpoint sees of its peer is exact: an operation on memory of the
\* descriptors it imported, over several blocks or not, reaches the very pages
\* of the peer; one outside of them is refused. Spans of virtual memory are
\* taken by the allocations and imports that have them and by nobody else, and
\* hold nothing of ranges that are gone.
ImportsExact ==
    /\ lib.bitmap = UNION {Run((va - PoolStart) \div BlockPages, lib.reserved[va]) :
                              va \in DOMAIN lib.reserved}
    /\ DOMAIN lib.reserved = DOMAIN lib.allocs \cup UNION {DOMAIN ep[e].spans : e \in Endpoints}
    /\ \A e, f \in Endpoints : DOMAIN ep[e].spans \cap DOMAIN lib.allocs = {}
                               /\ (e # f => DOMAIN ep[e].spans \cap DOMAIN ep[f].spans = {})
    /\ DOMAIN lib.map =
          UNION {va..(va + lib.allocs[va].len - 1) : va \in DOMAIN lib.allocs}
          \cup UNION {UNION {a..(a + ep[e].maps[a].info.len - 1) :
                               a \in {a \in DOMAIN ep[e].maps : ep[e].maps[a].imported}} : e \in Endpoints}
    /\ \A e \in Endpoints : call[e].op # "close" =>
          LET pages == PeerPages(e)
          IN  \A a \in pages, len \in 1..3 :
                (a..(a + len - 1)) \subseteq pages => Translated(e, a, len)
    /\ \A e \in Endpoints : call[e].op # "close" =>
          \A i \in DOMAIN ep[e].index :
             (ep[e].index[i].peer)..(ep[e].index[i].peer + ep[e].index[i].len - 1) \subseteq PeerPages(e)

\* The first line on exports in ubmem_allocator.cc: a physical allocation is
\* exported at most once, however often its memory is registered.
ExportedOnce == \A p \in DOMAIN lib.phys : lib.phys[p].exports <= 1
=============================================================================
