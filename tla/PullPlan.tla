------------------------------ MODULE PullPlan ------------------------------
(***************************************************************************)
(* Which blocks of which prefill ranks a decode rank of the vLLM connector *)
(* pulls: the planning of worker.py, which both sides compute on their own *)
(* from the parallel layout and never compare.                             *)
(*                                                                         *)
(* A layout L is a record:                                                 *)
(*   ptp, ppcp, pdcp, pp   tensor, prefill context, decode context and     *)
(*                         pipeline parallelism of the prefill side;       *)
(*   dtp, dpcp, ddcp       the same of the decode side;                    *)
(*   heads, mla, hma       KV heads, one shared latent head, a model that  *)
(*                         also has a Mamba group;                         *)
(*   pick                  what rand.sample draws for the request; the     *)
(*                         seed is the request id, so both sides draw it;  *)
(*   bp, bd, kernel        block sizes of the two sides and the size, in   *)
(*                         tokens, of the kernel blocks both are made of;  *)
(*   prompt, cached        tokens of the prompt, and how many of them the  *)
(*                         prefix cache of the decode side holds.          *)
(*                                                                         *)
(* Ranks and ports count from 0 as in the code; a port stands for its      *)
(* offset from the base port of its side. Compression of KV slots is left  *)
(* out.                                                                    *)
(***************************************************************************)
EXTENDS Integers, Sequences, FiniteSets, SequencesExt

CeilDiv(a, b) == (a + b - 1) \div b

AtLeastOne(x) == IF x > 1 THEN x ELSE 1

RemoteCp(L) == L.ppcp * L.pdcp

LocalCp(L) == L.dpcp * L.ddcp

\* Whether context parallelism is in play on either side.
UsesCp(L) == RemoteCp(L) * LocalCp(L) # 1

-----------------------------------------------------------------------------
(* Without context parallelism: ranks are chosen by head.                  *)

KvHeads(L) == IF L.mla THEN 1 ELSE L.heads

\* How many prefill ranks hold the heads of one decode rank.
TpNumNeedPulls(L) ==
    IF L.mla THEN 1
    ELSE AtLeastOne(L.heads \div L.dtp) \div AtLeastOne(L.heads \div L.ptp)

\* Copies of each head among the ranks of a pipeline stage, and how many of
\* the copies a request uses.
NumGroups(L) == AtLeastOne(L.ptp \div KvHeads(L))

PickSize(L) == AtLeastOne(L.dtp \div KvHeads(L))

\* What rand.sample may return for the layout.
Samples(L) ==
    {s \in [1..PickSize(L) -> 0..(NumGroups(L) - 1)] :
        \A i, j \in 1..PickSize(L) : s[i] = s[j] => i = j}

RemoteTpRanks(L, d) ==
    IF L.ptp > KvHeads(L) \/ L.mla
    THEN LET k == PickSize(L)
             flattened == [i \in 1..((L.ptp \div NumGroups(L)) * k) |->
                             ((i - 1) \div k) * NumGroups(L) + L.pick[((i - 1) % k) + 1]]
             n == TpNumNeedPulls(L)
         IN  SubSeq(flattened, d * n + 1, (d + 1) * n)
    ELSE [i \in 1..(L.ptp \div L.dtp) |-> d * (L.ptp \div L.dtp) + i - 1]

\* The ranks decode rank d pulls its attention heads from, stage by stage.
RemoteRanks(L, d) ==
    LET inStage == IF L.ptp = L.dtp THEN <<d>> ELSE RemoteTpRanks(L, d)
        w == Len(inStage)
    IN  [i \in 1..(w * L.pp) |-> inStage[((i - 1) % w) + 1] + ((i - 1) \div w) * L.ptp]

\* The ranks that hold the Mamba state of decode rank d.
MambaRanks(L, d) ==
    LET w == L.ptp \div L.dtp
    IN  [i \in 1..(w * L.pp) |-> d * w + ((i - 1) % w) + ((i - 1) \div w) * L.ptp]

\* All ranks decode rank d pulls from, each once.
ChosenRanks(L, d) ==
    LET attention == RemoteRanks(L, d)
    IN  IF L.hma
        THEN attention \o SelectSeq(MambaRanks(L, d), LAMBDA r : r \notin ToSet(attention))
        ELSE attention

\* What the prefill side takes for the ranks that will be pulled from; the
\* others report the request as sent at once.
PrefillRanks(L) ==
    IF L.hma THEN 0..(L.ptp * L.pp - 1)
    ELSE UNION {ToSet(RemoteRanks(L, d)) : d \in 0..(L.dtp - 1)}

-----------------------------------------------------------------------------
(* With context parallelism: ranks are chosen by head and by shard of the  *)
(* sequence.                                                               *)

HeadGroups(L, tp) ==
    IF L.mla THEN <<{0}>>
    ELSE IF L.heads \div tp >= 1
         THEN LET w == L.heads \div tp IN [g \in 1..tp |-> ((g - 1) * w)..(g * w - 1)]
         ELSE [g \in 1..L.heads |-> {g - 1}]

\* The groups of ports that hold head group g, each a whole sequence split
\* over the context ranks.
CpGroups(L, tp, pcp, dcp, g) ==
    LET span == tp \div Len(HeadGroups(L, tp))
    IN  [i \in 1..(span \div dcp) |->
            [j \in 1..(pcp * dcp) |->
                ((j - 1) % dcp) + tp * ((j - 1) \div dcp) + dcp * (i - 1) + span * (g - 1)]]

RemoteCpGroups(L, g) == CpGroups(L, L.ptp, L.ppcp, L.pdcp, g)

LocalCpGroups(L, g) == CpGroups(L, L.dtp, L.dpcp, L.ddcp, g)

\* How many blocks of the prefill side make one of the decode side.
BlockRatio(L) == IF L.bd > L.bp THEN L.bd \div L.bp ELSE 1

\* Which context rank of the decode side the blocks of context rank q of the
\* prefill side belong to.
TakenBy(L, q) == (q \div BlockRatio(L)) % LocalCp(L)

\* The groups of prefill ports that local group i of head group g pulls from,
\* one for each head group of the prefill side: the cursor over the replicas
\* starts at the first one and moves on with every local group.
PairedGroups(L, g, i) ==
    LET remote == HeadGroups(L, L.ptp)
        within == SelectSeq([h \in 1..Len(remote) |-> h],
                            LAMBDA h : remote[h] \subseteq HeadGroups(L, L.dtp)[g])
    IN  [x \in 1..Len(within) |->
            LET replicas == RemoteCpGroups(L, within[x])
            IN  replicas[((i - 1) % Len(replicas)) + 1]]

\* Where a decode port stands: its head group, the group of ports in it, and
\* its context rank.
Standing(L, dport) ==
    CHOOSE s \in (1..Len(HeadGroups(L, L.dtp))) \X (1..L.dtp) \X (1..LocalCp(L)) :
        /\ s[2] <= Len(LocalCpGroups(L, s[1]))
        /\ LocalCpGroups(L, s[1])[s[2]][s[3]] = dport

LocalCpRank(L, dport) ==
    ((dport % L.dtp) % L.ddcp) + (dport \div L.dtp) * L.ddcp

\* The ports a decode port pulls shard q from, one for each part of its heads.
ShardPorts(L, dport, q) ==
    LET paired == PairedGroups(L, Standing(L, dport)[1], Standing(L, dport)[2])
    IN  [x \in 1..Len(paired) |-> paired[x][q + 1]]

NumPromptBlocks(L) == CeilDiv(L.prompt, L.bp)

NumExternal(L) == L.prompt - L.cached

\* The last block, which may not be full, is pulled last.
LastBlockLocation(L) ==
    ((NumPromptBlocks(L) % RemoteCp(L)) + RemoteCp(L) - 1) % RemoteCp(L)

ShardCpRanks(L, dport) ==
    LET l == LocalCpRank(L, dport)
        own == SelectSeq([i \in 1..RemoteCp(L) |-> i - 1], LAMBDA q : TakenBy(L, q) = l)
        last == LastBlockLocation(L)
    IN  IF last \in ToSet(own) THEN Append(Remove(own, last), last) ELSE own

\* A model with a Mamba group swaps each port for a replica drawn for the
\* request, and adds the ports that hold the state to the last shard.
SharedPorts(L, dport, ports, isFinal) ==
    LET span == L.ptp \div Len(HeadGroups(L, L.ptp))
        replicas == AtLeastOne(span \div L.pdcp)
        drawn == RemoteRanks(L, dport % L.dtp)
        Swap(i) ==
            LET off == ports[i] % L.ptp
                group == (off \div span) * span
                replica == (drawn[((i - 1) % Len(drawn)) + 1] \div L.pdcp) % replicas
            IN  (ports[i] - off) + group + replica * L.pdcp + ((off - group) % L.pdcp)
        swapped == IF replicas > 1 THEN [i \in 1..Len(ports) |-> Swap(i)] ELSE ports
        w == L.ptp \div L.dtp
        segment == (swapped[1] \div L.ptp) * L.ptp
        state == [j \in 1..w |-> segment + (dport % L.dtp) * w + j - 1]
    IN  IF isFinal
        THEN swapped \o SelectSeq(state, LAMBDA p : p \notin ToSet(swapped))
        ELSE swapped

\* How many completions each prefill port is told to expect: the pulls of all
\* decode ports, counted before ports are shared.
RemotePortSendNum(L, port) ==
    LET pulls == [d \in 0..(L.dtp * L.dpcp - 1), q \in 0..(RemoteCp(L) - 1) |->
                    ShardPorts(L, d, q)]
    IN  Cardinality({<<d, q, x>> \in (0..(L.dtp * L.dpcp - 1)) \X (0..(RemoteCp(L) - 1))
                                     \X (1..L.ptp) :
            /\ TakenBy(L, q) = LocalCpRank(L, d)
            /\ x <= Len(pulls[d, q])
            /\ pulls[d, q][x] = port})

-----------------------------------------------------------------------------
(* The pulls of a decode port.                                             *)

\* The ports of each shard, in the order in which they are queued.
HandshakePorts(L, dport) ==
    IF UsesCp(L)
    THEN LET shards == ShardCpRanks(L, dport)
         IN  [i \in 1..Len(shards) |->
                LET ports == ShardPorts(L, dport, shards[i])
                IN  IF L.hma /\ ~L.mla
                    THEN SharedPorts(L, dport, ports, i = Len(shards))
                    ELSE ports]
    ELSE <<ChosenRanks(L, dport)>>

StageOf(L, port) == (port % (L.ptp * L.pp)) \div L.ptp

\* How many of the ports of a shard hold attention heads; they come first.
AttentionPulls(L, dport) ==
    IF UsesCp(L) THEN TpNumNeedPulls(L) ELSE Len(RemoteRanks(L, dport % L.dtp))

\* Whether the i-th pull of a shard completes the heads of a stage, which then
\* have to be put in order.
EndsGroup(L, dport, i) ==
    /\ TpNumNeedPulls(L) > 1
    /\ i <= AttentionPulls(L, dport)
    /\ (i - 1) % TpNumNeedPulls(L) = TpNumNeedPulls(L) - 1

Pulls(L, dport) ==
    LET shards == HandshakePorts(L, dport)
    IN  FlattenSeq([s \in 1..Len(shards) |->
            [i \in 1..Len(shards[s]) |->
                [port |-> shards[s][i], shard |-> s, stage |-> StageOf(L, shards[s][i]),
                 ends |-> EndsGroup(L, dport, i)]]])

-----------------------------------------------------------------------------
(* Block ids, at the granularity of kernel blocks.                         *)

ExpandBlockIds(ids, scale) ==
    [i \in 1..(Len(ids) * scale) |-> ids[((i - 1) \div scale) + 1] * scale + ((i - 1) % scale)]

\* The scheduler's ids: block i of the prefill side has id i, and so has the
\* decode side, which is given the blocks behind its cached prefix.
RemoteBlockIds(L) == [i \in 1..CeilDiv(L.prompt, L.bp * RemoteCp(L)) |-> i - 1]

LocalBlockIds(L) ==
    [i \in 1..CeilDiv(CeilDiv(NumExternal(L), L.bd), LocalCp(L)) |->
        (L.cached \div (L.bd * LocalCp(L))) + i - 1]

\* Without context parallelism: skip what is cached, drop the unwritten tail.
KernelPairs(L) ==
    LET local == ExpandBlockIds(LocalBlockIds(L), L.bd \div L.kernel)
        all == ExpandBlockIds(RemoteBlockIds(L), L.bp \div L.kernel)
        skip == L.cached \div L.kernel
        remote == SubSeq(all, skip + 1, Len(all))
        needed == CeilDiv(L.prompt, L.kernel) - skip
        n == CHOOSE m \in {Len(local), Len(remote), needed} :
                \A o \in {Len(local), Len(remote), needed} : m <= o
    IN  [i \in 1..n |-> <<remote[i], local[i]>>]

NumPrefixPBlocks(L) == NumPromptBlocks(L) - CeilDiv(NumExternal(L), L.bp)

\* How many blocks of shard q are left to pull.
BlocksToPull(L, q) ==
    LET share(n) == (n \div RemoteCp(L)) + (IF q < n % RemoteCp(L) THEN 1 ELSE 0)
    IN  share(NumPromptBlocks(L)) - share(NumPrefixPBlocks(L))

RemoteFirst(L, q) == (NumPrefixPBlocks(L) - q + RemoteCp(L) - 1) \div RemoteCp(L)

\* Where the blocks of shard q go on the decode side: a prefill block that is
\* longer than a decode block is walked kernel by kernel, another one lies
\* within one decode block.
LocalKernelIds(L, q, l) ==
    LET ids == LocalBlockIds(L)
        perD == L.bd \div L.kernel
        perP == L.bp \div L.kernel
        prefixD == NumPrefixPBlocks(L) \div BlockRatio(L)
        firstD == prefixD + ((l - prefixD) % LocalCp(L))
        Walk(g) ==
            LET start == (g - NumPrefixPBlocks(L)) * L.bp
                offsets == SelectSeq([x \in 1..perP |-> start + (x - 1) * L.kernel],
                                     LAMBDA o : o < Len(ids) * L.bd)
            IN  [x \in 1..Len(offsets) |->
                    ids[(offsets[x] \div L.bd) + 1] * perD + (offsets[x] % L.bd) \div L.kernel]
        Within(g) ==
            LET idx == ((g \div BlockRatio(L)) - firstD) \div LocalCp(L)
                first == ((g % BlockRatio(L)) * L.bp) \div L.kernel
            IN  IF idx >= Len(ids) THEN <<>>
                ELSE [x \in 1..perP |-> ids[idx + 1] * perD + first + x - 1]
    IN  FlattenSeq([b \in 1..BlocksToPull(L, q) |->
            LET g == (RemoteFirst(L, q) + b - 1) * RemoteCp(L) + q
            IN  IF L.bp > L.bd THEN Walk(g) ELSE Within(g)])

ShardKernelPairs(L, q, l) ==
    LET logical == SubSeq(RemoteBlockIds(L), RemoteFirst(L, q) + 1,
                          RemoteFirst(L, q) + BlocksToPull(L, q))
        remote == ExpandBlockIds(logical, L.bp \div L.kernel)
        local == LocalKernelIds(L, q, l)
        n == IF Len(remote) < Len(local) THEN Len(remote) ELSE Len(local)
    IN  [i \in 1..n |-> <<remote[i], local[i]>>]

\* <<shard, remote kernel, local kernel>> for all a context rank pulls.
Plan(L, l) ==
    IF UsesCp(L)
    THEN UNION {{<<q>> \o pair : pair \in ToSet(ShardKernelPairs(L, q, l))} :
                  q \in {q \in 0..(RemoteCp(L) - 1) : TakenBy(L, q) = l}}
    ELSE {<<0>> \o pair : pair \in ToSet(KernelPairs(L))}

\* The indexer of sparse attention is replicated: every context rank holds all
\* its blocks, numbered through over the ranks.
ReplicatedPairs(L) ==
    LET remote == RemoteBlockIds(L)
        full == [i \in 1..CeilDiv(CeilDiv(L.prompt, L.bd), LocalCp(L)) |-> i - 1]
        prefix == L.cached \div L.bd
    IN  {<<remote[(g \div RemoteCp(L)) + 1] * RemoteCp(L) + (g % RemoteCp(L)),
           full[(g \div LocalCp(L)) + 1] * LocalCp(L) + (g % LocalCp(L))>> :
             g \in {g \in prefix..(NumPromptBlocks(L) - 1) :
                     g \div RemoteCp(L) < Len(remote) /\ g \div LocalCp(L) < Len(full)}}

\* The checks of the code that reject a layout.
Accepted(L) ==
    UsesCp(L) =>
        /\ L.bd % L.bp = 0 \/ L.bp % L.bd = 0
        /\ (LocalCp(L) > 1 /\ L.bp # L.bd) =>
              /\ L.bd % L.bp = 0
              /\ (RemoteCp(L) \div LocalCp(L)) % (L.bd \div L.bp) = 0
        /\ NumPrefixPBlocks(L) % BlockRatio(L) = 0

-----------------------------------------------------------------------------
(* What a plan should be, from the layout of the caches alone.             *)

\* The heads a rank of a side with tp ranks holds, in order.
HeadsAt(L, tp, rank) ==
    IF L.mla THEN <<0>>
    ELSE IF L.heads >= tp
         THEN [i \in 1..(L.heads \div tp) |-> rank * (L.heads \div tp) + i - 1]
         ELSE <<rank \div (tp \div L.heads)>>

\* Kernel k of the prompt: the context rank that holds it on a side with
\* blocks of size b over cp ranks, and its id there.
Holder(L, b, cp, k) == ((k * L.kernel) \div b) % cp

KernelId(L, b, cp, k) ==
    (((k * L.kernel) \div b) \div cp) * (b \div L.kernel)
        + ((k * L.kernel) % b) \div L.kernel

\* The cached prefix as the plan knows it: prefill blocks that are longer than
\* decode blocks are only counted whole, and what is pulled is shifted by the
\* kernels that the true prefix is longer (or shorter).
PlannedPrefix(L) ==
    IF UsesCp(L) /\ L.bp > L.bd THEN NumPrefixPBlocks(L) * L.bp ELSE L.cached

Shift(L) == (L.cached - PlannedPrefix(L)) \div L.kernel

\* Kernel k of the prompt, pulled to where the decode side looks for kernel
\* k + shift.
PullTo(L, k, shift) ==
    <<Holder(L, L.bp, RemoteCp(L), k), KernelId(L, L.bp, RemoteCp(L), k),
      KernelId(L, L.bd, LocalCp(L), k + shift)>>

\* The kernels behind a prefix that go to rank l of the decode side, as far as
\* it has blocks for them.
Missing(L, l, prefix, shift) ==
    {k \in (prefix \div L.kernel)..(CeilDiv(L.prompt, L.kernel) - 1) :
        /\ Holder(L, L.bd, LocalCp(L), k + shift) = l
        /\ (k + shift) * L.kernel < L.cached + CeilDiv(NumExternal(L), L.bd) * L.bd}

\* The same, with the unwritten rest of the last blocks.
MayPull(L, l, prefix, shift) ==
    {k \in (prefix \div L.kernel)..(L.prompt + L.bp * L.bd) :
        Holder(L, L.bd, LocalCp(L), k + shift) = l}
=============================================================================
