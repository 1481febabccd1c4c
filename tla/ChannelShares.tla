---------------------------- MODULE ChannelShares ----------------------------
(***************************************************************************)
(* MultiChannelDispatcher: how the descriptors of a transfer are divided   *)
(* among the channels of a link type.                                      *)
(***************************************************************************)
EXTENDS Integers, Sequences, SequencesExt

ResolveActualWorkerNum(n, count, split) ==
    CASE n <= 1 \/ split = 0 \/ count <= split -> 1
      [] n > 1 /\ split > 0 /\ count > split /\ count > split * (n - 1) -> n
      [] OTHER -> count \div split

\* Consecutive shares; the first Len % n channels carry one more.
SplitDescs(descs, n) ==
    LET base == Len(descs) \div n
        over == Len(descs) % n
        first(w) == (w - 1) * base + (IF w - 1 < over THEN w - 1 ELSE over) + 1
    IN  [w \in 1..n |-> SubSeq(descs, first(w), first(w + 1) - 1)]

\* The descriptors of a request for a type, by position, in table order.
TableOf(descs, ty) == SelectSeq([i \in DOMAIN descs |-> i], LAMBDA i : descs[i] = ty)

\* A setup with the shares of its requests: request -> type -> channel.
Planned(s) ==
    LET share(t) == IF s.handler \in {"multi", "ubmulti"}
                    THEN SplitDescs(t, ResolveActualWorkerNum(s.workers, Len(t), s.split))
                    ELSE <<t>>
    IN  [s EXCEPT !.shares = [r \in DOMAIN s.descs |->
            [ty \in Range(s.descs[r]) |-> share(TableOf(s.descs[r], ty))]]]
=============================================================================
