------------------------------ MODULE PullBytes ------------------------------
(***************************************************************************)
(* Which bytes one pull of the vLLM connector reads and where it puts      *)
(* them: transfer_threads.py and utils.py below the choice of blocks.      *)
(*                                                                         *)
(* A case C is a record:                                                   *)
(*   remote, local     the block ids to be pulled, pairwise;               *)
(*   pulls             how many prefill ranks hold the heads of a block;   *)
(*   tokens, heads     tokens of a block, heads of one prefill rank;       *)
(*   gapR, gapL        bytes between two blocks of either side;            *)
(*   rows, key, value  rows of a convolution state and the widths of its   *)
(*                     key and value parts on one prefill rank.            *)
(* An element of a cache is one byte; the base of a cache is address 0.    *)
(* The first index of a sequence stands for position 0.                    *)
(***************************************************************************)
EXTENDS Integers, Sequences, FiniteSets, SequencesExt

\* block_len, inner_block_len and the strides of the two sides.
InnerBlockLen(C) == C.tokens * C.heads
BlockLen(C) == C.pulls * InnerBlockLen(C)
RemoteStride(C) == InnerBlockLen(C) + C.gapR
LocalStride(C) == BlockLen(C) + C.gapL

\* group_concurrent_contiguous: runs of pairs that follow each other on both
\* sides, as <<first, last>>.
ContiguousRuns(remote, local, strideR, strideL, len) ==
    LET joined(i) == /\ (remote[i + 1] - remote[i]) * strideR = len
                     /\ (local[i + 1] - local[i]) * strideL = len
    IN  {r \in (1..Len(remote)) \X (1..Len(remote)) :
            /\ r[1] <= r[2]
            /\ \A i \in r[1]..(r[2] - 1) : joined(i)
            /\ r[1] > 1 => ~joined(r[1] - 1)
            /\ r[2] < Len(remote) => ~joined(r[2])}

SingleBlocks(C) == {<<i, i>> : i \in 1..Len(C.remote)}

\* Blocks are merged by their ids only when one rank holds all heads; if they
\* do not also touch in memory the merge is redone by addresses.
TransferRuns(C) ==
    LET byIds == IF C.pulls = 1 THEN ContiguousRuns(C.remote, C.local, 1, 1, 1)
                 ELSE SingleBlocks(C)
    IN  IF RemoteStride(C) = InnerBlockLen(C) /\ LocalStride(C) = InnerBlockLen(C)
        THEN byIds
        ELSE ContiguousRuns(C.remote, C.local, RemoteStride(C), LocalStride(C),
                            InnerBlockLen(C))

\* The reads of the pull from the x-th rank, x from 0.
AttentionReads(C, x) ==
    {[local |-> C.local[r[1]] * LocalStride(C) + x * InnerBlockLen(C),
      remote |-> C.remote[r[1]] * RemoteStride(C),
      len |-> InnerBlockLen(C) * (r[2] - r[1] + 1)] : r \in TransferRuns(C)}

\* What the reads of all ranks leave in local memory: from which rank and from
\* which of its addresses the byte at a comes.
Sources(C, reads(_, _), a) ==
    UNION {{<<x, e.remote + a - e.local>> : e \in {e \in reads(C, x) :
                                                 e.local <= a /\ a < e.local + e.len}} :
             x \in 0..(C.pulls - 1)}


\* The heads of a block are put in order in place: [pull, token, head] becomes
\* [token, pull, head]. Byte o of the new block is byte Transposed(o) of the
\* old one.
Transposed(C, o) ==
    LET t == o \div (C.pulls * C.heads)
        x == (o \div C.heads) % C.pulls
    IN  x * InnerBlockLen(C) + t * C.heads + (o % C.heads)

\* Byte o of local block b once the pull is complete.
Final(C, b, o) ==
    Sources(C, AttentionReads,
            b * LocalStride(C) + IF C.pulls > 1 THEN Transposed(C, o) ELSE o)

-----------------------------------------------------------------------------
(* The state of a Mamba layer: rows of a convolution state, each made of   *)
(* query, key and value parts that are split over the ranks one by one.    *)

ConvWidth(C) == 2 * C.key + C.value
ConvOffset(C, s) == <<0, C.key, 2 * C.key>>[s]
ConvSize(C, s) == <<C.key, C.key, C.value>>[s]

ConvReads(C, x) ==
    IF C.pulls = 1
    THEN {[local |-> 0, remote |-> 0, len |-> C.rows * ConvWidth(C)]}
    ELSE {[local |-> (i * ConvWidth(C) + ConvOffset(C, s)) * C.pulls + x * ConvSize(C, s),
           remote |-> i * ConvWidth(C) + ConvOffset(C, s),
           len |-> ConvSize(C, s)] : i \in 0..(C.rows - 1), s \in 1..3}

\* The other state is one piece on every rank.
SsmReads(C, x) ==
    LET whole == C.pulls * C.value
    IN  {[local |-> (x * whole) \div C.pulls, remote |-> 0, len |-> whole \div C.pulls]}

-----------------------------------------------------------------------------
(* What memory should hold.                                                *)

\* Head h of token t of a block: the rank that has it and where.
HeadSource(C, i, o) ==
    LET t == o \div (C.pulls * C.heads)
        h == o % (C.pulls * C.heads)
    IN  <<h \div C.heads, C.remote[i] * RemoteStride(C) + t * C.heads + (h % C.heads)>>

\* Column c of row i of the whole convolution state.
ConvSource(C, i, c) ==
    LET s == IF c < C.pulls * C.key THEN 1 ELSE IF c < 2 * C.pulls * C.key THEN 2 ELSE 3
        inPart == c - C.pulls * ConvOffset(C, s)
    IN  <<inPart \div ConvSize(C, s),
          i * ConvWidth(C) + ConvOffset(C, s) + (inPart % ConvSize(C, s))>>
=============================================================================
