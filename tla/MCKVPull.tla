------------------------------ MODULE MCKVPull ------------------------------
(***************************************************************************)
(* The pull protocol on deployments whose plans PullPlan computes, the     *)
(* plans of many more layouts, and the reads of many pulls: the last two   *)
(* are setups without requests.                                            *)
(***************************************************************************)
EXTENDS KVPull, PullPlan, PullBytes

CONSTANTS
    PTps, DTps,         \* tensor parallel sizes of the two sides
    HeadCounts,         \* KV heads of the model
    Cps,                \* context parallel sizes
    BlockSizes,         \* block sizes
    MaxPrompt,          \* the longest prompt
    MaxBlocks,          \* blocks of a pull
    Deployments         \* names of the deployments that run, see Running

Base ==
    [ptp |-> 1, ppcp |-> 1, pdcp |-> 1, pp |-> 1, dtp |-> 1, dpcp |-> 1, ddcp |-> 1,
     heads |-> 1, mla |-> FALSE, hma |-> FALSE, pick |-> <<0>>,
     bp |-> 1, bd |-> 1, kernel |-> 1, prompt |-> 1, cached |-> 0]

WithPicks(Ls) == UNION {{[L EXCEPT !.pick = s] : s \in Samples(L)} : L \in Ls}

\* Layouts without context parallelism.
TpLayouts ==
    WithPicks({L \in {[Base EXCEPT !.ptp = t, !.dtp = d, !.pp = n, !.heads = h, !.mla = m] :
                        t \in PTps, d \in DTps, n \in 1..2, h \in HeadCounts, m \in BOOLEAN} :
                  L.dtp <= L.ptp /\ (L.mla => L.heads = 1)})

\* Layouts with it: a replica of a head spans the decode context ranks, the
\* heads of a prefill rank are among those of one decode rank.
CpLayouts ==
    {L \in {[Base EXCEPT !.ptp = t, !.dtp = d, !.heads = h, !.mla = m, !.ppcp = pc,
                         !.pdcp = dc, !.dpcp = e[1], !.ddcp = e[2]] :
              t \in PTps, d \in DTps, h \in HeadCounts, m \in BOOLEAN,
              pc \in Cps, dc \in Cps, e \in Cps \X Cps} :
        /\ UsesCp(L) /\ L.dtp <= L.ptp /\ L.ptp <= 4 /\ (L.mla => L.heads = 1)
        /\ (L.ptp \div Len(HeadGroups(L, L.ptp))) % L.pdcp = 0
        /\ (L.dtp \div Len(HeadGroups(L, L.dtp))) % L.ddcp = 0
        /\ RemoteCp(L) % LocalCp(L) = 0}

\* Block sizes, prompts and cached prefixes; the prefix cache holds whole
\* blocks of the decode side.
BlockLayouts ==
    {L \in {[Base EXCEPT !.mla = TRUE, !.ptp = 2, !.dtp = 2, !.ppcp = c[1], !.dpcp = c[2],
                         !.bp = bp, !.bd = bd, !.kernel = k, !.prompt = n, !.cached = x] :
              c \in {<<1, 1>>, <<2, 1>>, <<2, 2>>, <<4, 2>>},
              bp \in BlockSizes, bd \in BlockSizes, k \in 1..2,
              n \in 1..MaxPrompt, x \in 0..MaxPrompt} :
        /\ L.bp % L.kernel = 0 /\ L.bd % L.kernel = 0
        /\ L.cached < L.prompt /\ L.cached % (L.bd * LocalCp(L)) = 0
        /\ Accepted(L)}

Deploy(L, n, f, expires, stops, scale, told) ==
    LET ports == 0..(L.ptp * L.ppcp * L.pp - 1)
        counted == RemoteCp(L) > 1
    IN  [paper |-> "none", layout |-> L, plan |-> {}, requests |-> n, faults |-> f,
         expires |-> expires, stops |-> stops, scale |-> scale, told |-> told,
         ports |-> ports, ranks |-> 0..(L.dtp * L.dpcp - 1), counted |-> counted,
         tasks |-> [d \in 0..(L.dtp * L.dpcp - 1) |-> Pulls(L, d)],
         expect |-> [p \in ports |-> IF counted THEN RemotePortSendNum(L, p) ELSE 0],
         delayed |-> IF counted THEN ports
                     ELSE {p \in ports : p % L.ptp \in PrefillRanks(L)}]

\* What both sides compute for a layout.
PlanOf(L) ==
    LET ranks == 0..(L.dtp * L.dpcp - 1)
        ports == 0..(L.ptp * L.ppcp * L.pp - 1)
        pulls == [d \in ranks |-> Pulls(L, d)]
    IN  [ports |-> [d \in ranks |-> HandshakePorts(L, d)],
         shards |-> [d \in ranks |-> IF UsesCp(L) THEN ShardCpRanks(L, d) ELSE <<0>>],
         sent |-> UNION {{<<d, i, pulls[d][i].port>> : i \in DOMAIN pulls[d]} : d \in ranks},
         expected |-> [p \in ports |-> IF RemoteCp(L) > 1 THEN RemotePortSendNum(L, p)
                                       ELSE IF p % L.ptp \in PrefillRanks(L) THEN 1 ELSE 0],
         kernels |-> [l \in 0..(LocalCp(L) - 1) |-> Plan(L, l)],
         replicated |-> ReplicatedPairs(L)]

\* What the reads of a case leave in local memory.
BytesOf(C) ==
    [final |-> [i \in 1..Len(C.local) |->
                  [o \in 0..(BlockLen(C) - 1) |-> Final(C, C.local[i], o)]],
     written |-> UNION {AttentionReads(C, x) : x \in 0..(C.pulls - 1)},
     conv |-> [i \in 0..(C.rows - 1) |->
                 [c \in 0..(C.pulls * ConvWidth(C) - 1) |->
                    Sources(C, ConvReads, i * C.pulls * ConvWidth(C) + c)]],
     ssm |-> [a \in 0..(C.pulls * C.value - 1) |-> Sources(C, SsmReads, a)]]

\* A layout or a case of PullBytes that is examined and runs nothing.
OnPaper(kind, x, plan) ==
    [paper |-> kind, layout |-> x, plan |-> plan, requests |-> 0, faults |-> 0, expires |-> FALSE,
     stops |-> FALSE, scale |-> 1, told |-> FALSE, ports |-> {0}, ranks |-> {0}, counted |-> FALSE,
     tasks |-> [d \in {0} |-> <<>>], expect |-> [p \in {0} |-> 0], delayed |-> {0}]

BlockIds(n) == {s \in [1..n -> 0..n] : \A i, j \in 1..n : s[i] = s[j] => i = j}

ByteCase(r, l, k, h, g, w) ==
    [remote |-> r, local |-> l, pulls |-> k, tokens |-> 2, heads |-> h, gapR |-> g[1],
     gapL |-> g[2], rows |-> 2, key |-> w[1], value |-> w[2]]

\* Block lists with every layout of a block, and every shape of a Mamba state;
\* only the distances of the ids matter. The longest lists are pulled from two
\* ranks, from dense blocks to spaced ones.
ByteCases ==
    UNION {{ByteCase(r, l, k, h, g, <<1, 1>>) :
              r \in {s \in BlockIds(n) : s[1] = 0}, l \in BlockIds(n),
              k \in IF n < MaxBlocks THEN 1..3 ELSE {2},
              h \in {2}, g \in IF n < MaxBlocks THEN (0..1) \X (0..1) ELSE {<<0, 1>>}} :
              n \in 1..MaxBlocks}
        \cup {ByteCase(<<0>>, <<0>>, k, 1, <<0, 0>>, w) : k \in 1..3, w \in (1..2) \X (1..2)}

TwoHeads == [Base EXCEPT !.ptp = 2, !.heads = 2]
Latent == [Base EXCEPT !.ptp = 2, !.mla = TRUE]

\* Deployments by name: layout, requests, faults, expires, stops, scale, told.
Running ==
    [ heads |-> <<TwoHeads, 1, 1, TRUE, FALSE, 1, FALSE>>,
      pair |-> <<Base, 2, 1, TRUE, FALSE, 1, FALSE>>,
      stop |-> <<TwoHeads, 1, 1, TRUE, TRUE, 1, FALSE>>,
      stop2 |-> <<Base, 2, 0, TRUE, TRUE, 1, FALSE>>,
      idle |-> <<Latent, 1, 1, TRUE, FALSE, 1, FALSE>>,
      shards |-> <<[Latent EXCEPT !.pdcp = 2, !.dtp = 2], 1, 0, FALSE, FALSE, 1, TRUE>>,
      lossy |-> <<[Latent EXCEPT !.pdcp = 2], 1, 1, TRUE, FALSE, 1, FALSE>>,
      stages |-> <<[TwoHeads EXCEPT !.pp = 2], 1, 0, FALSE, FALSE, 1, TRUE>>,
      kernels |-> <<Base, 1, 1, TRUE, FALSE, 2, FALSE>>,
      prefix |-> <<[Base EXCEPT !.ppcp = 2, !.bp = 2, !.prompt = 3, !.cached = 1],
                   1, 0, FALSE, FALSE, 1, FALSE>> ]

MCSetups ==
    {Deploy(r[1], r[2], r[3], r[4], r[5], r[6], r[7]) : r \in {Running[x] : x \in Deployments}}
        \cup {OnPaper("plan", L, PlanOf(L)) :
                L \in TpLayouts \cup CpLayouts \cup BlockLayouts}
        \cup {OnPaper("bytes", C, BytesOf(C)) : C \in ByteCases}

-----------------------------------------------------------------------------
(* Properties of the plans.                                                *)

\* Every decode rank pulls, from each pipeline stage and for each shard of the
\* sequence, exactly its own heads and in their order, from ranks that hold
\* the shard: both hold for every choice of replicas that rand.sample makes.
HeadsInOrder(L, plan) ==
    \A d \in DOMAIN plan.ports : \A s \in DOMAIN plan.ports[d] :
        /\ \A st \in 0..(L.pp - 1) :
              LET from == SelectSeq(plan.ports[d][s], LAMBDA p : StageOf(L, p) = st)
              IN  FlattenSeq([i \in DOMAIN from |-> HeadsAt(L, L.ptp, from[i] % L.ptp)])
                    = HeadsAt(L, L.dtp, d % L.dtp)
        /\ \A i \in DOMAIN plan.ports[d][s] :
              LET p == plan.ports[d][s][i]
              IN  UsesCp(L) => ((p % L.ptp) % L.pdcp) + (p \div L.ptp) * L.pdcp
                                  = plan.shards[d][s]

\* The two sides agree without talking: a prefill port waits for exactly as
\* many DONEs as the decode ports will send it, none if it reports at once.
SidesAgree(plan) ==
    \A p \in DOMAIN plan.expected :
        Cardinality({x \in plan.sent : x[3] = p}) = plan.expected[p]

\* The kernel blocks behind a prefix are pulled, from where the prefill side has
\* them to the place with the given shift, and nothing is pulled elsewhere.
KernelsLand(L, plan, prefix, shift) ==
    \A l \in DOMAIN plan.kernels :
        /\ {PullTo(L, k, shift) : k \in Missing(L, l, prefix, shift)} \subseteq plan.kernels[l]
        /\ plan.kernels[l] \subseteq {PullTo(L, k, shift) : k \in MayPull(L, l, prefix, shift)}

\* Every kernel block behind the prefix the plan knows is pulled to its place
\* behind the true prefix: the right place, unless the prefix ends inside a
\* prefill block that is longer than a decode block, where all are shifted.
BlocksLand(L, plan) ==
    /\ KernelsLand(L, plan, PlannedPrefix(L), Shift(L))
    /\ L.bp = L.bd /\ L.cached % L.bd = 0 =>
          plan.replicated = {<<g, g>> : g \in (L.cached \div L.bd)..(NumPromptBlocks(L) - 1)}

\* Once all ranks of a pull have been read and the heads are in order, every
\* block holds exactly the heads of its tokens, whatever the order and the gaps
\* of the blocks, and nothing outside the blocks has been written; a Mamba
\* state is put together from the parts of its ranks.
BytesLand(C, plan) ==
    /\ \A i \in DOMAIN plan.final : \A o \in DOMAIN plan.final[i] :
          plan.final[i][o] = {HeadSource(C, i, o)}
    /\ \A e \in plan.written : \A a \in e.local..(e.local + e.len - 1) :
          \E i \in DOMAIN plan.final :
              a - C.local[i] * LocalStride(C) \in 0..(BlockLen(C) - 1)
    /\ \A i \in DOMAIN plan.conv : \A c \in DOMAIN plan.conv[i] :
          plan.conv[i][c] = {ConvSource(C, i, c)}
    /\ \A a \in DOMAIN plan.ssm : plan.ssm[a] = {<<a \div C.value, a % C.value>>}

=============================================================================
