--------------------------- MODULE BufferPacking ---------------------------
(***************************************************************************)
(* How a transfer through relay buffers is cut: DoTransferTask,            *)
(* TransferLargeData, GenerateBufferReq and the checks of the server in    *)
(* src/src/llm_datadist/adxl/buffer_transfer_service.cc.  A part is what   *)
(* travels in one buffer: a sequence of slices, one behind the other.      *)
(***************************************************************************)
EXTENDS Naturals, Sequences, SequencesExt, FiniteSetsExt

CONSTANTS
    BufferSize,  \* buffer_size_
    BlockSize    \* kBlockSize

SizesPositive == {BufferSize, BlockSize} \subseteq Nat \ {0}

Slice(op, from, len) == [op |-> op, from |-> from, len |-> len]
Least(a, b) == IF a < b THEN a ELSE b
Pieces(len, size) == (len + size - 1) \div size

(***************************************************************************)
(* GenerateBufferReq: a range of one operation in blocks.                  *)
(***************************************************************************)
Blocks(op, from, len) ==
    [i \in 1..Pieces(len, BlockSize) |->
        Slice(op, from + (i - 1) * BlockSize, Least(BlockSize, len - (i - 1) * BlockSize))]

(***************************************************************************)
(* TransferLargeData: an operation that fills whole buffers.               *)
(***************************************************************************)
LargeParts(op, len) ==
    [i \in 1..Pieces(len, BufferSize) |->
        Blocks(op, (i - 1) * BufferSize, Least(BufferSize, len - (i - 1) * BufferSize))]

PartLen(part) == FoldLeft(LAMBDA n, s : n + s.len, 0, part)

(***************************************************************************)
(* The loop of DoTransferTask over one operation: a large one goes out at  *)
(* once, a small one joins the batch, which is flushed when it is full.    *)
(***************************************************************************)
PackNext(lens, acc, op) ==
    IF lens[op] >= BufferSize
    THEN [acc EXCEPT !.sent = @ \o LargeParts(op, lens[op])]
    ELSE IF PartLen(acc.batch) + lens[op] > BufferSize
    THEN [sent |-> Append(acc.sent, acc.batch), batch |-> <<Slice(op, 0, lens[op])>>]
    ELSE [acc EXCEPT !.batch = Append(@, Slice(op, 0, lens[op]))]

Parts(lens) ==
    LET packed == FoldLeft(LAMBDA acc, op : PackNext(lens, acc, op),
                           [sent |-> <<>>, batch |-> <<>>], [i \in DOMAIN lens |-> i])
    IN  IF packed.batch = <<>> THEN packed.sent ELSE Append(packed.sent, packed.batch)

(***************************************************************************)
(* ValidatePeerBufferReq and BuildBufferSliceAddrs accept the part.        *)
(***************************************************************************)
Accepted(part) == PartLen(part) <= BufferSize

-----------------------------------------------------------------------------
SlicesOf(parts) == {<<p, i>> : p \in DOMAIN parts, i \in 1..Max({0} \cup {Len(parts[q]) : q \in DOMAIN parts})}
Covers(s, op, byte) == s.op = op /\ s.from <= byte /\ byte < s.from + s.len

(***************************************************************************)
(* Every byte of every operation travels in exactly one slice, no slice    *)
(* reaches beyond its operation, and the server accepts every part.        *)
(***************************************************************************)
PackedOnce(lens) ==
    LET parts == Parts(lens)
        at == {x \in SlicesOf(parts) : x[2] <= Len(parts[x[1]])}
        slice(x) == parts[x[1]][x[2]]
    IN  /\ \A p \in DOMAIN parts : parts[p] # <<>> /\ Accepted(parts[p])
        /\ \A x \in at : slice(x).from + slice(x).len <= lens[slice(x).op]
        /\ \A op \in DOMAIN lens : \A byte \in 0..lens[op] - 1 :
             Cardinality({x \in at : Covers(slice(x), op, byte)}) = 1
=============================================================================
