--------------------------- MODULE TransferTasks ---------------------------
(***************************************************************************)
(* The transfer plans of LLM DataDist: which bytes of which tensor a pull, *)
(* a push, a copy or a swap moves where. Everything here is a function of  *)
(* the two caches and the request; PullCache runs the plans.               *)
(*                                                                         *)
(* A cache e is [tensors, size, stride, blocks, batch, host]: size bytes   *)
(* for each tensor, cut into rows (blocks = 0) or into blocks of stride    *)
(* bytes. A request q names rows (from, row), or blocks (src, dst), and    *)
(* the tensors of some layers (srcT, dstT; n = 0 means all of them). A     *)
(* plan maps cells <<tensor, byte>> of the destination to cells of the     *)
(* source.                                                                 *)
(*                                                                         *)
(* Byte counts are scaled down; a plan depends on how sizes compare, not   *)
(* on how large they are. Tensors and blocks are counted from 0.           *)
(***************************************************************************)
EXTENDS Integers, Sequences, FiniteSets, SequencesExt, TLC

CONSTANTS
    BufferSize,     \* kDefaultBufferSize: bytes of a staging buffer
    NumBuffers,     \* staging buffers of a transfer
    MaxBlock,       \* max_block_size_: bytes of the largest single task
    MaxTasks,       \* kBufferBlocks, kMaxTaskNumInBatch
    ContBlock,      \* kBlockSizeForContMem
    MaxInfos        \* kMaxTransferInfoCount

ASSUME LimitAssumption ==
    /\ {BufferSize, NumBuffers, MaxBlock, MaxTasks, ContBlock, MaxInfos} \subseteq Nat \ {0}
    /\ ContBlock <= BufferSize

CeilDiv(a, b) == (a + b - 1) \div b

Least(a, b) == IF a <= b THEN a ELSE b

Refused == [ok |-> FALSE, data |-> <<>>]

Planned(f) == [ok |-> TRUE, data |-> f]

\* One copy of len bytes, as a map from the cells written to the cells read.
Move(to, from, len) ==
    [c \in {<<to[1], to[2] + x>> : x \in 0..(len - 1)} |->
        <<from[1], from[2] + (c[2] - to[2])>>]

\* The copies one after another; a later one overwrites.
Moves(spans) ==
    FoldLeft(LAMBDA f, s : Move(s.to, s.from, s.len) @@ f, <<>>, spans)

-----------------------------------------------------------------------------
\* The request.

\* Runs of blocks that follow each other on both sides.
FindContiguousBlockIndexPair(src, dst) ==
    LET follows(g, i) == /\ g # <<>>
                         /\ src[i] = Last(g).src + Last(g).n
                         /\ dst[i] = Last(g).dst + Last(g).n
    IN  FoldLeftDomain(LAMBDA g, i :
            IF follows(g, i) THEN [g EXCEPT ![Len(g)].n = @ + 1]
            ELSE Append(g, [src |-> src[i], dst |-> dst[i], n |-> 1]), <<>>, src)

PullSize(q, c) == IF q.size > 0 THEN q.size ELSE c.stride

\* The pieces of one tensor: where they start on both sides, in blocks.
SetBufferInfo(q, c) ==
    LET pairs == FindContiguousBlockIndexPair(q.src, q.dst)
    IN  CASE q.dst = <<>> -> <<[src |-> 0, dst |-> 0, len |-> PullSize(q, c)]>>
          [] q.dst # <<>> /\ q.src = <<>> ->
                [i \in DOMAIN q.dst |-> [src |-> i - 1, dst |-> q.dst[i], len |-> c.stride]]
          [] OTHER ->
                [i \in DOMAIN pairs |-> [src |-> pairs[i].src, dst |-> pairs[i].dst,
                                         len |-> pairs[i].n * c.stride]]

NumTensors(q, c) == IF q.dstT.n = 0 THEN c.tensors ELSE q.dstT.n

LastBlock(q) == IF q.src = <<>> THEN 0
                ELSE CHOOSE b \in ToSet(q.src) : \A x \in ToSet(q.src) : x <= b

\* DataTransferClient: the request for a device cache.
ConstructTransferInfo(q, c) ==
    [infos |-> SetBufferInfo(q, c),
     block |-> IF q.dst = <<>> THEN 0 ELSE c.stride,
     size |-> PullSize(q, c),
     pullBlock |-> q.src # <<>>,
     tensors |-> NumTensors(q, c), dstCount |-> NumTensors(q, c),
     maxBlock |-> LastBlock(q), srcT |-> q.srcT, host |-> FALSE]

\* D2HDataTransferClient: the request for a host cache, through its buffers.
FillRequest(q, c) ==
    [infos |-> [i \in DOMAIN q.src |-> [src |-> q.src[i], dst |-> 0, len |-> c.stride]],
     block |-> IF c.blocks > 0 THEN c.stride ELSE 0,
     size |-> IF c.blocks = 0 THEN PullSize(q, c) ELSE Len(q.dst) * c.stride,
     pullBlock |-> q.src # <<>>,
     tensors |-> NumTensors(q, c), dstCount |-> NumBuffers,
     maxBlock |-> LastBlock(q), srcT |-> q.srcT, host |-> TRUE]

\* What the pulling side checks: CheckParam, and the ranges of SetBufferInfo.
ClientChecks(q, c) ==
    /\ q.row < c.batch
    /\ (q.dst = <<>>) = (c.blocks = 0)
    /\ q.dst = <<>> => q.size <= c.stride
    /\ q.src # <<>> => q.dst # <<>> /\ Len(q.src) = Len(q.dst)
    /\ \A i \in DOMAIN q.dst : q.dst[i] < c.blocks
    /\ q.dstT.n > 0 => q.dstT.first + q.dstT.n <= c.tensors
    /\ q.srcT.n > 0 => q.srcT.n = NumTensors(q, c)

\* CheckTensorIndices and ResolveSrcStartIndex: the source tensors.
SrcCount(e, r) == IF r.srcT.n = 0 THEN e.tensors ELSE r.srcT.n

SrcFirst(r) == IF r.srcT.n = 0 THEN 0 ELSE r.srcT.first

\* SendState::CheckParam, on the serving side.
CheckParam(e, r) ==
    /\ SrcCount(e, r) = r.tensors
    /\ r.pullBlock = (e.blocks > 0)
    /\ r.pullBlock => r.maxBlock = 0 \/ r.maxBlock < e.blocks
    /\ ~r.pullBlock /\ r.block > 0 /\ r.host => r.size <= CeilDiv(e.stride, r.block) * r.block
    /\ ~r.pullBlock /\ r.block = 0 => r.size <= e.stride
    /\ SrcFirst(r) + SrcCount(e, r) <= e.tensors

\* The bytes of a piece lie in the region it is cut from.
CheckBlockSpanWithinRegion(index, block, len, region) ==
    /\ len <= region
    /\ block # 0 => index <= (region - len) \div block

ValidateTransferRequest(r, type) ==
    /\ r.dstCount > 0
    /\ r.dstCount + Len(r.infos) * (IF type = "D2H" THEN 1 ELSE 2) <= MaxInfos
    /\ \A i \in DOMAIN r.infos : r.infos[i].len > 0

ValidateBlockSpans(e, r, type) ==
    LET paged == e.blocks > 0
        block == IF paged THEN e.stride ELSE r.size
        region == IF paged THEN e.size ELSE e.stride
    IN  type = "H2D" \/ (type = "D2H" /\ paged) =>
            \A i \in DOMAIN r.infos :
                CheckBlockSpanWithinRegion(r.infos[i].src, block,
                    IF type = "D2H" THEN e.stride ELSE r.infos[i].len, region)

ValidateLocalIndexBounds(e, r, type) ==
    /\ type = "H2D" => SrcCount(e, r) <= r.dstCount
    /\ ValidateBlockSpans(e, r, type)
    /\ type = "D2D" => r.block # 0 \/ e.stride # 0

ResolveTransferType(e, r) ==
    CASE ~e.host /\ ~r.host -> "D2D"
      [] ~e.host /\ r.host -> "D2H"
      [] e.host /\ ~r.host -> "H2D"
      [] OTHER -> "none"

\* SendState::Prepare up to the job.
Accepts(e, r) ==
    LET type == ResolveTransferType(e, r)
    IN  /\ CheckParam(e, r) /\ type # "none"
        /\ ValidateTransferRequest(r, type)
        /\ ValidateLocalIndexBounds(e, r, type)

-----------------------------------------------------------------------------
\* Device to device: the tasks are one-sided writes.

\* Where the destination tensors start: a row, or the whole tensor.
DstStart(q, c) == IF q.dst = <<>> THEN q.row * c.stride ELSE 0

\* GetSendTask; remainder is what the last block of a tensor holds.
GetSendTask(e, r, q, c, offset) ==
    LET block == IF r.block # 0 THEN r.block ELSE e.stride
        remainder == e.size % block
        n == Len(r.infos)
        count(j) == IF j = n /\ remainder > 0 THEN remainder ELSE r.infos[j].len
        fits(j) ==
            /\ r.infos[j].src < CeilDiv(e.size, block)
            /\ r.infos[j].len <= IF r.pullBlock THEN e.size ELSE e.stride
            /\ offset <= e.size
            /\ CheckBlockSpanWithinRegion(r.infos[j].src, block, count(j), e.size - offset)
        task(i, j) ==
            [to |-> <<q.dstT.first + i, DstStart(q, c) + r.infos[j].dst * block>>,
             from |-> <<SrcFirst(r) + i, offset + r.infos[j].src * block>>,
             len |-> count(j)]
    IN  [ok |-> SrcCount(e, r) = r.dstCount /\ \A j \in 1..n : fits(j),
         tasks |-> [x \in 1..(n * r.dstCount) |-> task((x - 1) \div n, ((x - 1) % n) + 1)]]

SrcOffset(e, q) == IF e.blocks > 0 THEN 0 ELSE q.from * e.stride

PlanD2D(e, c, q) ==
    LET r == ConstructTransferInfo(q, c)
        send == GetSendTask(e, r, q, c, SrcOffset(e, q))
    IN  IF ClientChecks(q, c) /\ Accepts(e, r) /\ send.ok
        THEN Planned(Moves(send.tasks)) ELSE Refused

\* PullCacheByGet: the puller works out the tasks itself, from the remote
\* cache's entry in its copy of the table, and reads.
PlanGet(e, c, q) ==
    LET r == ConstructTransferInfo(q, c)
        send == GetSendTask(e, r, q, c, IF c.blocks > 0 THEN 0 ELSE q.from * c.stride)
    IN  IF ClientChecks(q, c) /\ send.ok THEN Planned(Moves(send.tasks)) ELSE Refused

-----------------------------------------------------------------------------
\* Device to host: both sides cut the tensors into the same sections, each
\* moved through one of the staging buffers.

StartBlock(b) == [type |-> "start", buf |-> b, pos |-> 0, tensor |-> 0, off |-> 0, size |-> 0]
EndBlock(b) == [StartBlock(b) EXCEPT !.type = "end"]
TransferBlock(b, pos, tensor, off, size) ==
    [type |-> "move", buf |-> b, pos |-> pos, tensor |-> tensor, off |-> off, size |-> size]

NoBlock == -1

GenState == [out |-> <<>>, buf |-> 0, prevBuf |-> NoBlock, pos |-> 0,
             prevBlock |-> NoBlock, open |-> FALSE, tasks |-> 0, nums |-> <<>>]

\* A block joins the task before it when it follows on and that stays small.
AppendBlockTransferTask(s, tensor, block, index, size) ==
    LET fresh == s.buf # s.prevBuf
        out == IF fresh THEN Append(s.out, StartBlock(s.buf)) ELSE s.out
        joins == /\ s.open /\ s.prevBlock # NoBlock /\ index = s.prevBlock + 1
                 /\ Last(out).size + size <= MaxBlock
    IN  [s EXCEPT
            !.out = IF joins THEN [out EXCEPT ![Len(out)].size = @ + size]
                    ELSE Append(out, TransferBlock(s.buf, s.pos, tensor, index * block, size)),
            !.open = TRUE,
            !.prevBuf = s.buf,
            !.prevBlock = index,
            !.pos = @ + 1,
            !.tasks = (IF fresh THEN 0 ELSE @) + (IF joins THEN 0 ELSE 1)]

\* A full buffer is handed over, and the next one is used.
NextBuffer(s) ==
    [s EXCEPT !.out = Append(@, EndBlock(s.buf)), !.nums = Append(@, s.pos),
              !.buf = (@ + 1) % NumBuffers, !.pos = 0, !.open = FALSE]

\* The loops over tensors and blocks; Full says when a buffer is handed over.
GenerateBlocks(tensors, block, tail, indices, Full(_)) ==
    LET n == Len(indices)
        step(s, x) ==
            LET k == ((x - 1) % n) + 1
                at == IF k = 1 THEN [s EXCEPT !.open = FALSE, !.prevBlock = NoBlock] ELSE s
                next == AppendBlockTransferTask(at, (x - 1) \div n, block, indices[k],
                                                IF k = n THEN tail ELSE block)
            IN  IF Full(next) THEN NextBuffer(next) ELSE next
        all == FoldLeft(step, GenState, [x \in 1..(tensors * n) |-> x])
    IN  IF all.pos > 0 THEN NextBuffer(all) ELSE all

DoGenerate(tensors, block, tail, indices) ==
    GenerateBlocks(tensors, block, tail, indices,
        LAMBDA s : s.pos >= BufferSize \div block \/ s.tasks >= MaxTasks)

\* The receiver fills its sections like the sender, whose blocks may join
\* into other tasks than its own.
DoGenerateForClientBlocks(tensors, block, indices, remote) ==
    LET nums == DoGenerate(tensors, block, block, remote).nums
    IN  GenerateBlocks(tensors, block, block, indices,
            LAMBDA s : \/ s.pos >= BufferSize \div block
                       \/ s.pos >= nums[Least(Len(s.nums) + 1, Len(nums))])

\* A block larger than a buffer goes through the first one chunk by chunk;
\* every chunk is a start, a move and an end.
LargeBlockChunk(tensor, block, index, size, k) ==
    LET at == (k \div 3) * BufferSize
    IN  CASE k % 3 = 0 -> StartBlock(0)
          [] k % 3 = 1 -> TransferBlock(0, 0, tensor, index * block + at, Least(BufferSize, size - at))
          [] OTHER -> EndBlock(0)

DoGenerateForLargeBlock(tensors, block, tail, indices) ==
    LET n == Len(indices)
        m == 3 * CeilDiv(block, BufferSize)
        which(x) == ((x \div m) % n) + 1
        size(x) == IF which(x) = n THEN tail ELSE block
        steps == SelectSeq([x \in 1..(tensors * n * m) |-> x - 1],
                           LAMBDA x : ((x % m) \div 3) * BufferSize < size(x))
    IN  [i \in DOMAIN steps |->
            LargeBlockChunk(steps[i] \div (m * n), block, indices[which(steps[i])], size(steps[i]), steps[i] % m)]

\* GenerateTasks for a row of size bytes.
GenerateContTasks(tensors, size, block) ==
    LET n == CeilDiv(size, block)
        tail == size - block * (n - 1)
        indices == [i \in 1..n |-> i - 1]
    IN  IF block > BufferSize THEN DoGenerateForLargeBlock(tensors, block, tail, indices)
        ELSE DoGenerate(tensors, block, tail, indices).out

\* GenerateTasks for a list of blocks; the receiver also knows the remote one.
GenerateBlockTasks(tensors, block, indices, remote) ==
    CASE block > BufferSize -> DoGenerateForLargeBlock(tensors, block, block, indices)
      [] block <= BufferSize /\ remote = <<>> -> DoGenerate(tensors, block, block, indices).out
      [] OTHER -> DoGenerateForClientBlocks(tensors, block, indices, remote).out

\* ResolveBlockSize: the sizes the serving side uses.
ServerBlock(r) == IF r.block # 0 THEN r.block ELSE ContBlock

ServerSize(e, r) == IF r.block # 0 THEN Least(r.size, e.stride) ELSE r.size

ResolveBlockSize(e, r) ==
    /\ r.block # 0 /\ e.blocks # 0 => r.block = e.stride
    /\ r.block = 0 => r.size > 0 /\ e.blocks = 0

ServerTasks(e, r) ==
    IF e.blocks = 0 THEN GenerateContTasks(SrcCount(e, r), ServerSize(e, r), ServerBlock(r))
    ELSE GenerateBlockTasks(SrcCount(e, r), ServerBlock(r),
                            [i \in DOMAIN r.infos |-> r.infos[i].src], <<>>)

ClientTasks(q, c, block) ==
    IF c.blocks = 0 THEN GenerateContTasks(NumTensors(q, c), PullSize(q, c), block)
    ELSE GenerateBlockTasks(NumTensors(q, c), c.stride, q.dst,
            IF q.src = <<>> THEN [i \in DOMAIN q.dst |-> i - 1] ELSE q.src)

\* The block size the positions in a buffer are counted in.
ClientBlock(c, block) == IF c.blocks = 0 THEN block ELSE c.stride

Sections(tasks) ==
    LET ends == SelectSeq([i \in DOMAIN tasks |-> i], LAMBDA i : tasks[i].type = "end")
        first(j) == IF j = 1 THEN 1 ELSE ends[j - 1] + 1
    IN  [j \in DOMAIN ends |-> SubSeq(tasks, first(j), ends[j])]

\* A section as copies: into a buffer on the serving side, out of it here.
StageIn(task, block, r, offset) ==
    Move(<<task.buf, task.pos * block>>, <<SrcFirst(r) + task.tensor, offset + task.off>>, task.size)

StageOut(task, block, q, c) ==
    Move(<<q.dstT.first + task.tensor, DstStart(q, c) + task.off>>,
         <<task.buf, task.pos * block>>, task.size)

Compose(out, stage) ==
    [x \in DOMAIN out |-> IF out[x] \in DOMAIN stage THEN stage[out[x]] ELSE <<NoBlock, NoBlock>>]

\* Both sides section by section; they must agree on the buffer of each.
PlanD2H(e, c, q) ==
    LET r == FillRequest(q, c)
        block == ServerBlock(r)
        from == Sections(ServerTasks(e, r))
        to == Sections(ClientTasks(q, c, block))
        step(s, j) ==
            LET stage == FoldLeft(LAMBDA f, t : StageIn(t, block, r, SrcOffset(e, q)) @@ f, s.stage, from[j])
                out == FoldLeft(LAMBDA f, t : StageOut(t, ClientBlock(c, block), q, c) @@ f, <<>>, to[j])
            IN  [stage |-> stage, data |-> Compose(out, stage) @@ s.data]
    IN  IF /\ ClientChecks(q, c) /\ Accepts(e, r) /\ ResolveBlockSize(e, r)
           /\ Len(from) = Len(to)
           /\ \A j \in DOMAIN from : from[j][1].buf = to[j][1].buf
        THEN Planned(FoldLeft(step, [stage |-> <<>>, data |-> <<>>], [j \in DOMAIN from |-> j]).data)
        ELSE Refused

-----------------------------------------------------------------------------
\* Host to device: TaskBatcher cuts the pieces to what fits in a buffer.

NoLimit == -1

BatcherInit == [tensor |-> 0, info |-> 0, left |-> 0, at |-> 0]

\* UpdateIndices: the next piece, or the first one of the next tensor.
UpdateIndices(b, infos) ==
    IF b.info = Len(infos) - 1 THEN [b EXCEPT !.info = 0, !.tensor = @ + 1]
    ELSE [b EXCEPT !.info = @ + 1]

RECURSIVE AppendSlices(_, _, _, _)
\* The rest of a batch: g has the pieces, s what the batch holds so far.
AppendSlices(b, g, limit, s) ==
    LET again == b.left > 0
        at == IF again THEN b.at ELSE g.infos[b.info + 1].start * g.block
        len == IF again THEN b.left ELSE g.infos[b.info + 1].len
        take == Least(Least(s.room, MaxBlock), len)
        joins == /\ b.tensor = s.prevT /\ at = s.prevEnd
                 /\ Last(s.out).len + take <= MaxBlock
        rest == len - take
        b2 == IF rest > 0 THEN [b EXCEPT !.left = rest, !.at = at + take]
              ELSE UpdateIndices([b EXCEPT !.left = 0, !.at = 0], g.infos)
        s2 == [out |-> IF joins THEN [s.out EXCEPT ![Len(s.out)].len = @ + take]
                       ELSE Append(s.out, [pos |-> s.pos, tensor |-> b.tensor, at |-> at, len |-> take]),
               pos |-> s.pos + take, room |-> s.room - take,
               prevT |-> b.tensor, prevEnd |-> at + take,
               tasks |-> IF joins THEN s.tasks ELSE s.tasks + 1, n |-> s.n + 1]
    IN  IF \/ s.room = 0 \/ b.tensor >= g.tensors
           \/ limit = NoLimit /\ s.tasks >= MaxTasks
           \/ limit # NoLimit /\ s.n >= limit
        THEN [slices |-> s.out, n |-> s.n, batcher |-> b]
        ELSE AppendSlices(b2, g, limit, s2)

NextBatch(b, g, limit) ==
    AppendSlices(b, g, limit,
        [out |-> <<>>, pos |-> 0, room |-> BufferSize, prevT |-> NoBlock, prevEnd |-> NoBlock,
         tasks |-> 0, n |-> 0])

\* H2DDataTransferJob::Initialize.
HostPieces(e, r, side) ==
    [infos |-> [i \in DOMAIN r.infos |-> [start |-> r.infos[i][side], len |-> r.infos[i].len]],
     block |-> IF e.blocks = 0 THEN Least(ContBlock, r.size) ELSE e.stride,
     tensors |-> SrcCount(e, r)]

\* One batch: source to buffer, buffer to destination.
CopyBatch(src, dst, r, q, c, offset) ==
    LET stage == FoldLeft(LAMBDA f, s :
                    Move(<<0, s.pos>>, <<SrcFirst(r) + s.tensor, offset + s.at>>, s.len) @@ f, <<>>, src)
        out == FoldLeft(LAMBDA f, s :
                    Move(<<q.dstT.first + s.tensor, DstStart(q, c) + s.at>>, <<0, s.pos>>, s.len) @@ f,
                    <<>>, dst)
    IN  Compose(out, stage)

\* The batches of a whole transfer, each as [src, dst].
RECURSIVE Batches(_, _, _, _)
Batches(bs, bd, gs, gd) ==
    LET dst == NextBatch(bd, gd, NoLimit)
        src == NextBatch(bs, gs, dst.n)
    IN  IF dst.slices = <<>> THEN <<>>
        ELSE <<[src |-> src.slices, dst |-> dst.slices]>>
                \o Batches(src.batcher, dst.batcher, gs, gd)

HostBatches(e, r) ==
    Batches(BatcherInit, BatcherInit, HostPieces(e, r, "src"), HostPieces(e, r, "dst"))

PlanH2D(e, c, q) ==
    LET r == ConstructTransferInfo(q, c)
    IN  IF ClientChecks(q, c) /\ Accepts(e, r) /\ (e.blocks > 0) = (r.block > 0)
        THEN Planned(FoldLeft(LAMBDA f, b :
                CopyBatch(b.src, b.dst, r, q, c, SrcOffset(e, q)) @@ f, <<>>, HostBatches(e, r)))
        ELSE Refused

-----------------------------------------------------------------------------
\* Pushing a layer, copying and swapping inside one node.

\* The same copies for each of n tensors.
SpansOf(n, spans(_)) ==
    LET m == Len(spans(0))
    IN  [x \in 1..(n * m) |-> spans((x - 1) \div m)[((x - 1) % m) + 1]]

GenerateCacheToCacheTask(e, q, c) ==
    SpansOf(q.srcT.n, LAMBDA i :
        <<[to |-> <<q.dstT.first + i, q.row * c.stride>>,
           from |-> <<q.srcT.first + i, q.from * e.stride>>, len |-> e.stride]>>)

GenerateCacheToBlocksTask(e, q, c) ==
    LET remainder == e.stride % c.stride
        n == Len(q.dst)
    IN  SpansOf(q.srcT.n, LAMBDA i : [j \in 1..n |->
            [to |-> <<q.dstT.first + i, q.dst[j] * c.stride>>,
             from |-> <<q.srcT.first + i, q.from * e.stride + (j - 1) * c.stride>>,
             len |-> IF j = n /\ remainder > 0 THEN remainder ELSE c.stride]])

GenerateBlocksToBlocksTask(e, q, c) ==
    LET pairs == FindContiguousBlockIndexPair(q.src, q.dst)
    IN  SpansOf(q.srcT.n, LAMBDA i : [j \in DOMAIN pairs |->
            [to |-> <<q.dstT.first + i, pairs[j].dst * e.stride>>,
             from |-> <<q.srcT.first + i, pairs[j].src * e.stride>>,
             len |-> pairs[j].n * e.stride]])

\* LayerWiseTransferJob: the source is local, the destination is remote.
PushChecks(e, c, q) ==
    /\ q.srcT.n > 0 /\ q.srcT.n = q.dstT.n
    /\ q.srcT.first + q.srcT.n <= e.tensors /\ q.dstT.first + q.dstT.n <= c.tensors
    /\ q.src = <<>> => q.from < e.batch
    /\ q.dst = <<>> => q.row < c.batch
    /\ \A j \in DOMAIN q.dst : q.dst[j] < c.blocks
    /\ q.dst # <<>> /\ q.src = <<>> =>
        /\ c.stride <= e.stride /\ c.stride < e.size
        /\ Len(q.dst) <= CeilDiv(e.stride, c.stride)
    /\ q.src # <<>> => /\ e.blocks > 0 /\ e.stride = c.stride /\ Len(q.src) = Len(q.dst)
                       /\ \A j \in DOMAIN q.src : q.src[j] < e.blocks

PlanPush(e, c, q) ==
    IF ~PushChecks(e, c, q) THEN Refused
    ELSE Planned(Moves(
        CASE q.dst = <<>> -> GenerateCacheToCacheTask(e, q, c)
          [] q.dst # <<>> /\ q.src = <<>> -> GenerateCacheToBlocksTask(e, q, c)
          [] OTHER -> GenerateBlocksToBlocksTask(e, q, c)))

CopySize(e, q) == IF q.size > 0 THEN q.size ELSE e.stride - q.off

\* CheckCopyParams; q.off is where in the rows the copy starts.
CheckCopyParams(e, c, q) ==
    /\ q.from < e.batch /\ q.row < c.batch
    /\ q.off > 0 => q.off < e.stride /\ q.off < c.stride
    /\ CopySize(e, q) <= e.stride - q.off
    /\ CopySize(e, q) <= c.stride - q.off

CopyCacheForContinuous(e, c, q) ==
    SpansOf(e.tensors, LAMBDA i :
        <<[to |-> <<i, q.row * c.stride + q.off>>, from |-> <<i, q.from * e.stride + q.off>>,
           len |-> CopySize(e, q)]>>)

CopyCacheForBlocks(e, c, q) ==
    SpansOf(e.tensors, LAMBDA i : [j \in DOMAIN q.src |->
        [to |-> <<i, q.dst[j] * e.stride>>, from |-> <<i, q.src[j] * e.stride>>, len |-> e.stride]])

PlanCopy(e, c, q) ==
    CASE e.tensors # c.tensors -> Refused
      [] e.tensors = c.tensors /\ q.src = <<>> ->
            IF CheckCopyParams(e, c, q) THEN Planned(Moves(CopyCacheForContinuous(e, c, q))) ELSE Refused
      [] OTHER ->
            IF /\ e.stride = c.stride
               /\ \A j \in DOMAIN q.src : q.src[j] < e.blocks /\ q.dst[j] < c.blocks
            THEN Planned(Moves(CopyCacheForBlocks(e, c, q))) ELSE Refused

\* SwapBlocks: runs of blocks, in the order they are listed.
PlanSwap(e, c, q) ==
    LET pairs == FindContiguousBlockIndexPair(q.src, q.dst)
    IN  IF /\ e.tensors = c.tensors /\ e.stride = c.stride
           /\ \A j \in DOMAIN q.src : q.src[j] < e.blocks /\ q.dst[j] < c.blocks
        THEN Planned(Moves(SpansOf(e.tensors, LAMBDA i : [j \in DOMAIN pairs |->
                [to |-> <<i, pairs[j].dst * e.stride>>, from |-> <<i, pairs[j].src * e.stride>>,
                 len |-> pairs[j].n * e.stride]])))
        ELSE Refused

-----------------------------------------------------------------------------

Plan(kind, e, c, q) ==
    CASE kind = "pull" /\ ~e.host /\ ~c.host -> PlanD2D(e, c, q)
      [] kind = "pull" /\ ~e.host /\ c.host -> PlanD2H(e, c, q)
      [] kind = "pull" /\ e.host -> PlanH2D(e, c, q)
      [] kind = "get" -> PlanGet(e, c, q)
      [] kind = "push" -> PlanPush(e, c, q)
      [] kind = "copy" -> PlanCopy(e, c, q)
      [] kind = "swap" -> PlanSwap(e, c, q)

\* What a request asks for, byte by byte.
Wanted(e, c, q) ==
    LET n == IF q.srcT.n > 0 THEN q.srcT.n ELSE IF q.dstT.n > 0 THEN q.dstT.n ELSE e.tensors
        size == IF q.size > 0 THEN q.size ELSE c.stride - q.off
        row == [x \in q.off..(q.off + size - 1) |-> x]
        cell(y) == IF q.dst = <<>> THEN q.row * c.stride + y
                   ELSE q.dst[(y \div c.stride) + 1] * c.stride + (y % c.stride)
        source(y) == IF q.src = <<>> THEN q.from * e.stride + y
                     ELSE q.src[(y \div c.stride) + 1] * c.stride + (y % c.stride)
        bytes == CASE q.dst = <<>> -> DOMAIN row
                   [] q.dst # <<>> /\ q.src = <<>> ->
                        0..(Least(Len(q.dst) * c.stride, e.stride) - 1)
                   [] OTHER -> 0..(Len(q.dst) * c.stride - 1)
        pairs == {<<<<q.dstT.first + i, cell(y)>>, <<q.srcT.first + i, source(y)>>>> :
                    i \in 0..(n - 1), y \in bytes}
    IN  [d \in {p[1] : p \in pairs} |-> (CHOOSE p \in pairs : p[1] = d)[2]]

\* The bytes a plan may write beside those: the rest of the last block.
Spare(c, q, d) ==
    q.dst # <<>> /\ q.src = <<>> /\ d[2] \div c.stride = Last(q.dst)

\* A pull of a row into device blocks. Its last block brings as many bytes as
\* the last block of the whole tensor has, which is not what the row needs when
\* the tensor has more rows and they do not end with a block.
RowToBlocks(x) == x.kind = "pull" /\ ~x.e.host /\ ~x.c.host /\ x.q.dst # <<>> /\ x.q.src = <<>>

LastBrings(x) == LET rest == x.e.size % x.c.stride IN IF rest > 0 THEN rest ELSE x.c.stride

\* The bytes of the row the last block does not bring.
CutOff(x, d) ==
    /\ RowToBlocks(x) /\ x.e.batch > 1
    /\ d[2] \div x.c.stride = Last(x.q.dst) /\ d[2] % x.c.stride >= LastBrings(x)

\* The last block would end behind the tensor, and the request is refused.
RunsOver(x) ==
    /\ RowToBlocks(x) /\ x.e.batch > 1
    /\ x.q.from * x.e.stride + (Len(x.q.dst) - 1) * x.c.stride + LastBrings(x) > x.e.size

\* A plan moves every byte the request asks for to its place, from the right
\* place, and writes nothing else; a request for no more than a row or a block
\* holds is not refused. The exceptions are those of a row's last block.
PlanLands(x) ==
    LET w == Wanted(x.e, x.c, x.q)
    IN  /\ x.q.size + x.q.off <= x.c.stride => x.made.ok \/ RunsOver(x)
        /\ x.made.ok =>
                /\ \A d \in DOMAIN w :
                        (d \in DOMAIN x.made.data /\ x.made.data[d] = w[d]) \/ CutOff(x, d)
                /\ \A d \in DOMAIN x.made.data : d \in DOMAIN w \/ Spare(x.c, x.q, d)

=============================================================================
