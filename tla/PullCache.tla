----------------------------- MODULE PullCache -----------------------------
(***************************************************************************)
(* Pulling a cache over a link of LLM DataDist, together with the caches   *)
(* of the node it is pulled from (CacheMemory).                            *)
(*                                                                         *)
(* The client writes a request and a flag into the server's memory; the    *)
(* server's thread finds the flag (ReceiveState), prepares a transfer job  *)
(* and runs it in steps (SendState); the answer is a response and a flag   *)
(* in the client's memory. Device to device, the job writes the tensors    *)
(* and then responds. Host to device, it does so through buffers of its    *)
(* own. Device to host, it responds first, and then both sides hand the    *)
(* client's staging buffers to each other with a flag for each buffer.     *)
(* Writes to the other side go through one stream for each side, in order  *)
(* and later than they are made.                                           *)
(*                                                                         *)
(* The pulls of a link are made one at a time (the entity's pull mutex).   *)
(* After a timeout the link is not used again: the interface asks for it   *)
(* to be torn down and built anew.                                         *)
(***************************************************************************)
EXTENDS CacheMemory, TransferTasks

CONSTANT SendBatch      \* kMaxBatchSize: writes of a D2D job between events

VARIABLES
    cl,             \* the pulling side: call, tasks, results
    sv,             \* the entity of the serving side and its job
    req, resp,      \* request and response areas: flag and content
    cFlag, sFlag,   \* buffer flags of a D2H pull, at the client and the server
    cStream,        \* req_stream_: writes of the client under way
    sStream,        \* the entity's stream: writes of the server under way
    mem             \* what the client's tensors and staging buffers hold

pullVars == <<cl, sv, req, resp, cFlag, sFlag, cStream, sStream, mem>>
vars == <<setup, cacheVars, pullVars>>

NoKey == <<>>
Garbage == <<NoBlock, NoBlock, NoBlock>>

\* What is read from a cache that was removed while its job is at work.
Removed == <<NoBlock, NoBlock, 0>>

Buffers == 0..(NumBuffers - 1)

NoJob == [pc |-> "receive", pull |-> 0, type |-> "none", id |-> 0, addrs |-> <<>>, row |-> 0,
          task |-> 1, key |-> NoKey, event |-> FALSE, buf |-> <<>>]

PullAt(k) == setup.pulls[k]

\* A cache of this node as the plans see it.
Layout(d) ==
    [tensors |-> d.tensors, size |-> d.size, stride |-> d.stride,
     blocks |-> IF d.paged THEN d.size \div d.stride ELSE 0,
     batch |-> IF d.paged THEN 1 ELSE d.size \div d.stride, host |-> d.host]

-----------------------------------------------------------------------------
\* What the two sides will do for a pull depends on the pull and the caches
\* alone; a setup has it ready (Scripted), the steps below go through it.

RequestOf(p) == IF p.c.host THEN FillRequest(p.q, p.c) ELSE ConstructTransferInfo(p.q, p.c)

TransfersOf(section) == SelectSeq(section, LAMBDA t : t.type = "move")

\* RunTasks of the client: for each section its buffer and the copies.
ClientScript(p, block) ==
    LET all == Sections(ClientTasks(p.q, p.c, block))
        piece(t) == StageOut(t, ClientBlock(p.c, block), p.q, p.c)
    IN  [j \in DOMAIN all |->
            [buf |-> all[j][1].buf, copies |-> {piece(t) : t \in ToSet(TransfersOf(all[j]))}]]

\* What Initialize of the job checks.
JobAccepts(e, p, r, type, offset) ==
    CASE type = "D2D" -> GetSendTask(e, r, p.q, p.c, offset).ok
      [] type = "D2H" -> ResolveBlockSize(e, r)
      [] OTHER -> (e.blocks > 0) = (r.block > 0)

\* The writes of a D2D job.
SendScript(tasks) == [i \in DOMAIN tasks |-> Move(tasks[i].to, tasks[i].from, tasks[i].len)]

\* The sections of a D2H job.
StageScript(sections, r, offset) ==
    [j \in DOMAIN sections |->
        LET moves == TransfersOf(sections[j])
        IN  [buf |-> sections[j][1].buf,
             puts |-> [i \in DOMAIN moves |-> StageIn(moves[i], ServerBlock(r), r, offset)]]]

\* The batches of an H2D job: into its buffer, and out of it.
BatchScript(batches, p, r, offset) ==
    [k \in DOMAIN batches |->
        [src |-> {Move(<<0, s.pos>>, <<SrcFirst(r) + s.tensor, offset + s.at>>, s.len) :
                    s \in ToSet(batches[k].src)},
         dst |-> [i \in DOMAIN batches[k].dst |->
                    LET d == batches[k].dst[i]
                    IN  Move(<<p.q.dstT.first + d.tensor, DstStart(p.q, p.c) + d.at>>,
                             <<0, d.pos>>, d.len)]]]

ServerScript(e, p, r, type, offset) ==
    [type |-> type, block |-> ServerBlock(r),
     accepts |-> Accepts(e, r) /\ JobAccepts(e, p, r, type, offset),
     steps |-> CASE ~Accepts(e, r) -> <<>>
                 [] Accepts(e, r) /\ type = "D2D" ->
                        SendScript(GetSendTask(e, r, p.q, p.c, offset).tasks)
                 [] Accepts(e, r) /\ type = "D2H" ->
                        IF ResolveBlockSize(e, r)
                        THEN StageScript(Sections(ServerTasks(e, r)), r, offset) ELSE <<>>
                 [] OTHER -> IF (e.blocks > 0) = (r.block > 0)
                             THEN BatchScript(HostBatches(e, r), p, r, offset) ELSE <<>>]

\* A pull with what it will need, for every cache it may find.
Scripted(p, caches) ==
    LET r == RequestOf(p)
        serve(e, row) == ServerScript(e, p, r, ResolveTransferType(e, r),
                                      IF e.blocks > 0 THEN 0 ELSE row * e.stride)
    IN  p @@ [req |-> r, checks |-> ClientChecks(p.q, p.c),
              sections |-> [b \in {ServerBlock(r)} |->
                              IF p.c.host THEN ClientScript(p, b) ELSE <<>>],
              serve |-> [id \in DOMAIN caches |->
                          [row \in 0..(Layout(caches[id]).batch - 1) |->
                             serve(Layout(caches[id]), row)]],
              wanted |-> Wanted(Layout(caches[p.source]), p.c, p.q)]

PullInit ==
    /\ cl = [pc |-> "idle", at |-> 0, task |-> 1, pend |-> {}, block |-> 0, result |-> <<>>]
    /\ sv = NoJob
    /\ req = [flag |-> FALSE, pull |-> 0]
    /\ resp = [flag |-> FALSE, code |-> "none", block |-> 0]
    /\ cFlag = [b \in Buffers |-> FALSE] /\ sFlag = [b \in Buffers |-> FALSE]
    /\ cStream = <<>> /\ sStream = <<>>
    /\ mem = [dst |-> <<>>, stage |-> <<>>]

Init == CacheInit /\ PullInit

-----------------------------------------------------------------------------
\* The client.

Here == PullAt(cl.at)

Result(r) == cl' = [cl EXCEPT !.pc = "idle", !.result = Append(@, r), !.pend = {}]

\* PullCache up to the request. Response flags are cleared first, and the
\* buffer flags of a pull into host memory.
PullBegin ==
    LET p == PullAt(cl.at + 1)
        next == [cl EXCEPT !.at = @ + 1, !.task = 1]
    IN  /\ cl.pc = "idle" /\ cl.at < Len(setup.pulls)
        /\ resp' = [resp EXCEPT !.flag = FALSE]
        /\ cFlag' = IF p.c.host THEN [b \in Buffers |-> FALSE] ELSE cFlag
        /\ mem' = [dst |-> <<>>, stage |-> <<>>]
        /\ IF p.checks
           THEN /\ cl' = [next EXCEPT !.pc = "response"]
                /\ cStream' = Append(cStream, [op |-> "request", arg |-> cl.at + 1])
           ELSE /\ cl' = [next EXCEPT !.result = Append(@, "invalid")]
                /\ UNCHANGED cStream
        /\ UNCHANGED <<setup, cacheVars, sv, req, sFlag, sStream>>

\* SynchronizeStreamTask and GetResponseInfo, or GetResponse.
ClientResponse ==
    /\ cl.pc = "response" /\ resp.flag
    /\ Here.c.host \/ cStream = <<>>
    /\ resp' = [resp EXCEPT !.flag = FALSE]
    /\ IF Here.c.host /\ resp.code = "ok"
       THEN cl' = [cl EXCEPT !.pc = "tasks", !.block = resp.block]
       ELSE Result(resp.code)
    /\ UNCHANGED <<setup, cacheVars, sv, req, cFlag, sFlag, cStream, sStream, mem>>

SectionsHere == Here.sections[cl.block]

\* RunTasks: a buffer is there; its pieces are given to the copy threads.
ClientStart ==
    LET s == SectionsHere[cl.task]
    IN  /\ cl.pc = "tasks" /\ cFlag[s.buf]
        /\ cFlag' = [cFlag EXCEPT ![s.buf] = FALSE]
        /\ cl' = [cl EXCEPT !.pc = "copy", !.pend = s.copies]
        /\ UNCHANGED <<setup, cacheVars, sv, req, resp, sFlag, cStream, sStream, mem>>

\* One piece is copied from the staging buffer to the cache.
CopyAsync(out) ==
    LET read == [d \in DOMAIN out |-> IF out[d] \in DOMAIN mem.stage THEN mem.stage[out[d]] ELSE Garbage]
    IN  /\ cl.pc = "copy" /\ out \in cl.pend
        /\ cl' = [cl EXCEPT !.pend = @ \ {out}]
        /\ mem' = [mem EXCEPT !.dst = read @@ @]
        /\ UNCHANGED <<setup, cacheVars, sv, req, resp, cFlag, sFlag, cStream, sStream>>

\* Mutant: the buffer is handed back before the copies are done.
ClientEndEarly ==
    LET s == SectionsHere[cl.task]
    IN  /\ cl.pc = "copy"
        /\ cStream' = Append(cStream, [op |-> "flag", arg |-> s.buf])
        /\ IF cl.task < Len(SectionsHere) THEN cl' = [cl EXCEPT !.pc = "tasks", !.task = @ + 1]
           ELSE Result("ok")
        /\ UNCHANGED <<setup, cacheVars, sv, req, resp, cFlag, sFlag, sStream, mem>>

\* All pieces are copied: the buffer goes back to the server.
ClientEnd ==
    LET s == SectionsHere[cl.task]
    IN  /\ cl.pc = "copy" /\ cl.pend = {}
        /\ cStream' = Append(cStream, [op |-> "flag", arg |-> s.buf])
        /\ IF cl.task < Len(SectionsHere) THEN cl' = [cl EXCEPT !.pc = "tasks", !.task = @ + 1]
           ELSE Result("ok")
        /\ UNCHANGED <<setup, cacheVars, sv, req, resp, cFlag, sFlag, sStream, mem>>

\* No answer or no flag in time: the stream is aborted, the link is given up.
ClientTimeout ==
    /\ setup.timeouts /\ cl.pc \in {"response", "tasks"}
    /\ cl' = [cl EXCEPT !.pc = "dead", !.result = Append(@, "timeout")]
    /\ cStream' = <<>>
    /\ UNCHANGED <<setup, cacheVars, sv, req, resp, cFlag, sFlag, sStream, mem>>

\* The next write of the client arrives.
ClientStream ==
    /\ cStream # <<>>
    /\ cStream' = Tail(cStream)
    /\ \/ /\ Head(cStream).op = "request"
          /\ req' = [flag |-> TRUE, pull |-> Head(cStream).arg] /\ UNCHANGED sFlag
       \/ /\ Head(cStream).op = "flag"
          /\ sFlag' = [sFlag EXCEPT ![Head(cStream).arg] = TRUE] /\ UNCHANGED req
    /\ UNCHANGED <<setup, cacheVars, cl, sv, resp, cFlag, sStream, mem>>

-----------------------------------------------------------------------------
\* The server.

NotFound == [id |-> 0, row |-> 0, key |-> NoKey]

\* QueryCacheEntryAndOffset: by blocks key, by cache id and row, or by key.
QueryCacheEntryAndOffset(p) ==
    LET byRow == <<p.id, p.row>>
        key == IF p.by = "key" THEN p.key ELSE store.rowToKey[byRow]
        prefix == p.by = "key" /\ p.prefix
        map == KeyMap(store, prefix)
        id == map[key]
    IN  CASE p.req.pullBlock ->
                IF p.key \in DOMAIN store.keyToId /\ p.req.block # 0
                THEN [NotFound EXCEPT !.id = store.keyToId[p.key]] ELSE NotFound
          [] ~p.req.pullBlock /\ p.by = "id" /\ byRow \notin DOMAIN store.rowToKey ->
                IF p.id \in DOMAIN store.entry /\ p.row \in DOMAIN p.serve[p.id]
                THEN [NotFound EXCEPT !.id = p.id, !.row = p.row] ELSE NotFound
          [] OTHER ->
                IF /\ key \in DOMAIN map /\ id \in DOMAIN store.entry /\ ~store.entry[id].paged
                   /\ key[1] \in DOMAIN store.entry[id].batch
                THEN [id |-> id, row |-> store.entry[id].batch[key[1]],
                      key |-> IF ~prefix /\ store.entry[id].owned THEN key ELSE NoKey]
                ELSE NotFound

Respond(code, block) == Append(sStream, [op |-> "resp", code |-> code, block |-> block])

IdleBuffer == [pc |-> "none", batch |-> 0, pend |-> {}, data |-> <<>>]

\* ReceiveState finds the flag; SendState::Prepare makes the job, or responds
\* with the error. A D2H job responds at once, its buffers free to fill.
SvReceive ==
    LET found == QueryCacheEntryAndOffset(PullAt(req.pull))
        script == PullAt(req.pull).serve[found.id][found.row]
    IN  /\ sv.pc = "receive" /\ req.flag
        /\ req' = [req EXCEPT !.flag = FALSE]
        /\ IF found.id # 0 /\ script.accepts
           THEN /\ sv' = [NoJob EXCEPT !.pc = "send", !.pull = req.pull, !.type = script.type,
                            !.id = found.id, !.addrs = store.entry[found.id].addrs,
                            !.row = found.row, !.key = found.key,
                            !.buf = IF script.type = "H2D" THEN [b \in Buffers |-> IdleBuffer] ELSE <<>>]
                /\ copies' = IF script.type = "H2D"
                             THEN [copies EXCEPT !["job"] = EntryCopy(found.id)] ELSE copies
                /\ sFlag' = IF script.type = "D2H" THEN [b \in Buffers |-> TRUE] ELSE sFlag
                /\ sStream' = IF script.type = "D2H" THEN Respond("ok", script.block) ELSE sStream
           ELSE sStream' = Respond("error", 0) /\ UNCHANGED <<sv, copies, sFlag>>
        /\ UNCHANGED <<setup, pool, store, table, thr, waiting, cvLock, born, got,
                       cl, resp, cFlag, cStream, mem>>

Script == PullAt(sv.pull).serve[sv.id][sv.row].steps

\* GetLayerRangeTensorIndices, tensors counted from 1.
LayerTensors(r) ==
    IF r.srcT.n = 0 THEN {} ELSE (r.srcT.first + 1)..(r.srcT.first + r.srcT.n)

\* The end of a job: the key of an owned cache goes with the pull.
Finish ==
    /\ IF sv.key = NoKey THEN UNCHANGED <<store, table, got>>
       ELSE RemoveKey(sv.key, FALSE, LayerTensors(PullAt(sv.pull).req))
    /\ sv' = NoJob
    /\ copies' = [copies EXCEPT !["job"] = {}]
    /\ Release
    /\ UNCHANGED <<thr, cvLock, born>>

PutOp(to, map) == [op |-> "put", to |-> to, map |-> map, id |-> sv.id, addrs |-> sv.addrs, buf |-> NoBlock]

\* A D2D job writes its next batch once the one before has gone out.
SvD2D ==
    LET upto == Least(Len(Script), sv.task + SendBatch - 1)
        puts == [i \in 1..(upto - sv.task + 1) |-> PutOp("dst", Script[sv.task + i - 1])]
    IN  /\ sv.pc = "send" /\ sv.type = "D2D"
        /\ sv.event => sStream = <<>>
        /\ \/ /\ sv.task <= Len(Script)
              /\ sStream' = sStream \o puts
              /\ sv' = [sv EXCEPT !.task = upto + 1, !.event = TRUE]
              /\ UNCHANGED cacheVars
           \/ sv.task > Len(Script) /\ sStream' = Respond("ok", 0) /\ Finish
        /\ UNCHANGED <<setup, cl, req, resp, cFlag, sFlag, cStream, mem>>

\* A D2H job fills a buffer that was handed back, and hands it over.
SvD2H ==
    LET s == Script[sv.task]
        puts == [i \in DOMAIN s.puts |-> PutOp("stage", s.puts[i])]
    IN  /\ sv.pc = "send" /\ sv.type = "D2H"
        /\ \/ /\ sv.task <= Len(Script) /\ sFlag[s.buf]
              /\ sFlag' = [sFlag EXCEPT ![s.buf] = FALSE]
              /\ sStream' = sStream \o Append(puts, [op |-> "flag", arg |-> s.buf])
              /\ sv' = [sv EXCEPT !.task = @ + 1]
              /\ UNCHANGED cacheVars
           \/ /\ sv.task > Len(Script) /\ sStream = <<>>
              /\ Finish /\ UNCHANGED <<sFlag, sStream>>
        /\ UNCHANGED <<setup, cl, req, resp, cFlag, cStream, mem>>

\* A buffer of an H2D job: allocated when the pool has room, then filled by
\* the copy threads and written out, again and again.
BufferAlloc(b) ==
    LET r == Alloc(pool, BufferSize)
    IN  /\ sv.type = "H2D" /\ sv.buf[b].pc = "none" /\ r.addr # NoSpan
        /\ pool' = r.pool
        /\ copies' = [copies EXCEPT !["job"] = @ \cup {<<NoBlock - b, r.addr>>}]
        /\ sv' = [sv EXCEPT !.buf[b].pc = "idle"]
        /\ UNCHANGED <<setup, store, table, thr, waiting, cvLock, born, got,
                       cl, req, resp, cFlag, sFlag, cStream, sStream, mem>>

BufferIdle(b) ==
    /\ sv.type = "H2D" /\ sv.buf[b].pc = "idle"
    /\ IF sv.task > Len(Script) THEN sv' = [sv EXCEPT !.buf[b].pc = "end"]
       ELSE sv' = [sv EXCEPT !.task = @ + 1, !.buf[b].pc = "copy", !.buf[b].batch = sv.task,
                             !.buf[b].pend = Script[sv.task].src]
    /\ UNCHANGED <<setup, cacheVars, cl, req, resp, cFlag, sFlag, cStream, sStream, mem>>

Value(id, addrs, c) ==
    CASE addrs = <<>> \/ <<id, addrs[c[1] + 1]>> \in Held(store, copies) -> <<id>> \o c
      [] sv.pc = "send" /\ id \notin DOMAIN store.entry -> Removed
      [] OTHER -> Garbage

BufferCopy(b, in) ==
    /\ sv.type = "H2D" /\ sv.buf[b].pc = "copy" /\ in \in sv.buf[b].pend
    /\ sv' = [sv EXCEPT !.buf[b].pend = @ \ {in},
                        !.buf[b].data = [c \in DOMAIN in |-> Value(sv.id, sv.addrs, in[c])] @@ @]
    /\ UNCHANGED <<setup, cacheVars, cl, req, resp, cFlag, sFlag, cStream, sStream, mem>>

BufferPut(b) ==
    LET dst == Script[sv.buf[b].batch].dst
        puts == [i \in DOMAIN dst |-> [PutOp("dst", dst[i]) EXCEPT !.buf = b]]
    IN  /\ sv.type = "H2D" /\ sv.buf[b].pc = "copy" /\ sv.buf[b].pend = {}
        /\ sStream' = sStream \o puts
        /\ sv' = [sv EXCEPT !.buf[b].pc = "transfer"]
        /\ UNCHANGED <<setup, cacheVars, cl, req, resp, cFlag, sFlag, cStream, mem>>

\* The event after the writes of the buffer has been recorded.
BufferSent(b) ==
    /\ sv.type = "H2D" /\ sv.buf[b].pc = "transfer"
    /\ \A i \in DOMAIN sStream : sStream[i].op = "put" => sStream[i].buf # b
    /\ sv' = [sv EXCEPT !.buf[b].pc = "idle"]
    /\ UNCHANGED <<setup, cacheVars, cl, req, resp, cFlag, sFlag, cStream, sStream, mem>>

SvH2D ==
    \/ \E b \in DOMAIN sv.buf :
        \/ BufferAlloc(b) \/ BufferIdle(b) \/ BufferPut(b) \/ BufferSent(b)
        \/ \E in \in sv.buf[b].pend : BufferCopy(b, in)
    \/ /\ sv.type = "H2D" /\ \A b \in Buffers : sv.buf[b].pc = "end"
       /\ sStream' = Respond("ok", 0) /\ Finish
       /\ UNCHANGED <<setup, cl, req, resp, cFlag, sFlag, cStream, mem>>

\* The job took too long: it is dropped, and so is the entity if the job was
\* waiting for its own writes.
SvTimeout ==
    /\ setup.timeouts /\ sv.pc = "send"
    /\ sStream' = Respond("timeout", 0)
    /\ \E pc \in {"receive"} \cup (IF sv.type = "D2D" THEN {"error"} ELSE {}) :
            sv' = [NoJob EXCEPT !.pc = pc]
    /\ copies' = [copies EXCEPT !["job"] = {}]
    /\ UNCHANGED <<setup, store, table, thr, cvLock, born, got, cl, req, resp, cFlag, sFlag, cStream, mem>>
    /\ Release

\* The next write of the server arrives. What it reads is what the memory
\* holds now; memory that was given back may hold anything.
Written(o) ==
    [d \in DOMAIN o.map |->
        IF o.buf = NoBlock THEN Value(o.id, o.addrs, o.map[d])
        ELSE IF sv.buf # <<>> /\ o.map[d] \in DOMAIN sv.buf[o.buf].data
        THEN sv.buf[o.buf].data[o.map[d]] ELSE Garbage]

ServerStream ==
    LET o == Head(sStream)
    IN  /\ sStream # <<>>
        /\ sStream' = Tail(sStream)
        /\ \/ /\ o.op = "put"
              /\ mem' = IF o.to = "dst" THEN [mem EXCEPT !.dst = Written(o) @@ @]
                        ELSE [mem EXCEPT !.stage = Written(o) @@ @]
              /\ UNCHANGED <<resp, cFlag>>
           \/ o.op = "flag" /\ cFlag' = [cFlag EXCEPT ![o.arg] = TRUE] /\ UNCHANGED <<mem, resp>>
           \/ /\ o.op = "resp"
              /\ resp' = [flag |-> TRUE, code |-> o.code, block |-> o.block]
              /\ UNCHANGED <<mem, cFlag>>
        /\ UNCHANGED <<setup, cacheVars, cl, sv, req, sFlag, cStream>>

PullStep ==
    \/ PullBegin \/ ClientResponse \/ ClientStart \/ ClientEnd \/ ClientTimeout \/ ClientStream
    \/ \E out \in cl.pend : CopyAsync(out)
    \/ SvReceive \/ SvD2D \/ SvD2H \/ SvH2D \/ SvTimeout \/ ServerStream

\* Nothing is left to do: every pull has returned, the serving side waits for
\* a request with no job left, or was given up, and no call is in progress.
Done ==
    /\ cl.pc = "dead" \/ (cl.pc = "idle" /\ Len(cl.result) = Len(setup.pulls))
    /\ sv.pc # "send" /\ copies["job"] = {}
    /\ \A t \in Threads : thr[t].pc = "idle"

\* The end of a workload, the one place where the system may stop; a state
\* without a step is a pull, a job or a call that hangs.
Rest == Done /\ UNCHANGED vars

Next ==
    \/ \E t \in Threads : CacheStep(t) /\ UNCHANGED <<setup, pullVars>>
    \/ PullStep
    \/ Rest

Spec == Init /\ [][Next]_vars

-----------------------------------------------------------------------------

\* A pull that succeeded has brought every byte asked for, all of them from
\* one cache that went by the key or id of the request, and none of them from
\* memory that was given back or from a buffer filled for later. The exception:
\* a job that writes from device memory does not keep the cache, and when a call
\* removes it under the job the pull reads what is there then.
PulledExactly ==
    cl.pc = "idle" /\ cl.result # <<>> /\ Last(cl.result) = "ok" =>
        \A d \in DOMAIN Here.wanted :
            /\ d \in DOMAIN mem.dst
            /\ \/ mem.dst[d] = <<Here.source>> \o Here.wanted[d]
               \/ mem.dst[d] = Removed /\ ~DescOf(Here.source).host

\* Every plan lands: see PlanLands.
PlansLand == setup.plan.kind # "none" => PlanLands(setup.plan)

=============================================================================
