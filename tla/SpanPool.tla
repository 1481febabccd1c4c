------------------------------ MODULE SpanPool ------------------------------
(***************************************************************************)
(* The memory pool of the LLM DataDist caches: ScalableAllocator over one  *)
(* fixed block of memory, as LlmMemPool uses it.                           *)
(*                                                                         *)
(* The block is cut into spans of whole pages. Neighbouring spans are      *)
(* linked (the buddies), and the free ones hang in one list for each       *)
(* length (the layers), with a set of the layers that are not empty beside *)
(* them. A span is named by its first page, which is also its address.     *)
(*                                                                         *)
(* Left out: the counters for the log, and a failing allocation of the     *)
(* small span objects themselves.                                          *)
(***************************************************************************)
EXTENDS Integers, Sequences, FiniteSets, SequencesExt

CONSTANT PageSize       \* bytes of a page

ASSUME PageAssumption == PageSize \in Nat \ {0}

NoSpan == 0

\* A new pool of n pages: one idle span.
InitFixSizedAllocator(n) ==
    [span |-> [s \in {1} |-> [len |-> n, count |-> 0, prev |-> NoSpan, next |-> NoSpan]],
     layer |-> [k \in 1..n |-> IF k = n THEN <<1>> ELSE <<>>],
     lut |-> {n},
     block |-> {}]

Capacity(p) == Len(p.layer)

\* Whole pages for a request of size bytes, at least one.
GetAllocSize(size) ==
    IF size < PageSize THEN 1 ELSE (size + PageSize - 1) \div PageSize

PushSpanToLayer(p, s) ==
    LET k == p.span[s].len
    IN  [p EXCEPT !.layer[k] = <<s>> \o @,
                  !.lut = IF Len(p.layer[k]) = 0 THEN @ \cup {k} ELSE @]


\* Takes a span out of its layer: the first one, or one in the middle.
RemoveFromLayer(p, k, s) ==
    [p EXCEPT !.layer[k] = Remove(@, s),
              !.lut = IF Len(p.layer[k]) = 1 THEN @ \ {k} ELSE @]

OccupySpan(p, s, len) == [p EXCEPT !.span[s].len = len, !.span[s].count = 1]

\* A new span at address b, of len pages, becomes the right neighbour of s.
SetBuddy(p, s, b, len) ==
    LET n == p.span[s].next
        links == [x \in DOMAIN p.span \cup {b} |->
                    CASE x = b -> [len |-> len, count |-> 0, prev |-> s, next |-> n]
                      [] x = s -> [p.span[s] EXCEPT !.next = b]
                      [] x = n -> [p.span[n] EXCEPT !.prev = b]
                      [] OTHER -> p.span[x]]
    IN  [p EXCEPT !.span = links]

\* Cuts the free span s of fit pages: its head stays free, its tail is taken.
SplitSpan(p, fix, fit, s) ==
    LET b == s + (fit - fix)
        cut == [SetBuddy(p, s, b, fix) EXCEPT !.span[s].len = fit - fix]
    IN  [pool |-> OccupySpan(PushSpanToLayer(cut, s), b, fix), addr |-> b]

\* The smallest layer above fix that holds a span, NoSpan if there is none.
FindFitLayerId(p, fix) ==
    LET above == {k \in p.lut : k > fix}
    IN  IF above = {} THEN NoSpan
        ELSE CHOOSE k \in above : \A l \in above : k <= l

AllocImp(p, size) ==
    LET fix == GetAllocSize(size)
        fit == FindFitLayerId(p, fix)
    IN  CASE fix > Capacity(p) -> [pool |-> p, addr |-> NoSpan]
          [] fix <= Capacity(p) /\ Len(p.layer[fix]) > 0 ->
                LET s == Head(p.layer[fix])
                IN  [pool |-> OccupySpan(RemoveFromLayer(p, fix, s), s, fix), addr |-> s]
          [] fix <= Capacity(p) /\ Len(p.layer[fix]) = 0 /\ fit # NoSpan ->
                LET s == Head(p.layer[fit])
                IN  SplitSpan(RemoveFromLayer(p, fit, s), fix, fit, s)
          [] OTHER -> [pool |-> p, addr |-> NoSpan]

\* LlmMemPool::Alloc: the address, or NoSpan, and the pool afterwards.
Alloc(p, size) ==
    IF size > Capacity(p) * PageSize THEN [pool |-> p, addr |-> NoSpan]
    ELSE LET r == AllocImp(p, size)
         IN  IF r.addr = NoSpan THEN r
             ELSE [r EXCEPT !.pool.block = @ \cup {r.addr}]

\* The left one of two neighbours takes over the pages of the right one.
MergeBuddy(p, left, right) ==
    LET n == p.span[right].next
    IN  [p EXCEPT !.span = [x \in DOMAIN p.span \ {right} |->
            CASE x = left -> [p.span[left] EXCEPT !.next = n, !.len = @ + p.span[right].len]
              [] x = n -> [p.span[n] EXCEPT !.prev = left]
              [] OTHER -> p.span[x]]]

\* A neighbour that can be merged: it is there, and idle.
PickOutBuddy(p, s) == s # NoSpan /\ p.span[s].count = 0

TryMergeNext(p, s) ==
    LET n == p.span[s].next
    IN  IF PickOutBuddy(p, n)
        THEN MergeBuddy(RemoveFromLayer(p, p.span[n].len, n), s, n)
        ELSE p

\* The span the pages of s end up in.
MergedInto(p, s) ==
    IF PickOutBuddy(p, p.span[s].prev) THEN p.span[s].prev ELSE s

TryMergePrev(p, s) ==
    LET l == p.span[s].prev
    IN  IF PickOutBuddy(p, l)
        THEN MergeBuddy(RemoveFromLayer(p, p.span[l].len, l), l, s)
        ELSE p

\* LlmMemPool::Free; an address that is not allocated is ignored.
Free(p, a) ==
    IF a \notin p.block THEN p
    ELSE LET idle == [p EXCEPT !.span[a].count = 0, !.block = @ \ {a}]
             next == TryMergeNext(idle, a)
         IN  PushSpanToLayer(TryMergePrev(next, a), MergedInto(next, a))

FreeAll(p, addrs) == FoldSet(LAMBDA a, q : Free(q, a), p, addrs)

-----------------------------------------------------------------------------

PagesOf(p, s) == s..(s + p.span[s].len - 1)

Idle(p) == {s \in DOMAIN p.span : p.span[s].count = 0}

\* The spans cover the pool without overlap, each knows its neighbours, the
\* spans in use are the ones handed out, and no two neighbours are both idle.
Tiles(p) ==
    /\ UNION {PagesOf(p, s) : s \in DOMAIN p.span} = 1..Capacity(p)
    /\ \A s, t \in DOMAIN p.span : s # t => PagesOf(p, s) \cap PagesOf(p, t) = {}
    /\ \A s \in DOMAIN p.span :
        /\ p.span[s].next = IF s + p.span[s].len > Capacity(p) THEN NoSpan
                            ELSE s + p.span[s].len
        /\ p.span[s].next # NoSpan => p.span[p.span[s].next].prev = s
        /\ (p.span[s].prev = NoSpan) = (s = 1)
        /\ s \in Idle(p) => p.span[s].next \notin Idle(p)
    /\ p.block = DOMAIN p.span \ Idle(p)

\* An idle span hangs in the layer of its length, once, and the set of layers
\* names exactly the layers that hold something.
LayersExact(p) ==
    /\ \A k \in 1..Capacity(p) :
        /\ IsInjective(p.layer[k])
        /\ ToSet(p.layer[k]) = {s \in Idle(p) : p.span[s].len = k}
    /\ p.lut = {k \in 1..Capacity(p) : p.layer[k] # <<>>}

\* A request is refused exactly when no run of idle pages is long enough.
RefusedOnlyWhenFull(p) ==
    LET used == UNION {PagesOf(p, s) : s \in p.block}
        fits(n) == \E s \in 1..(Capacity(p) - n + 1) : (s..(s + n - 1)) \cap used = {}
    IN  \A size \in 0..(Capacity(p) * PageSize + 1) :
            LET r == Alloc(p, size)
            IN  /\ (r.addr # NoSpan) = fits(GetAllocSize(size))
                /\ r.addr # NoSpan => r.pool.span[r.addr].len * PageSize >= size

PoolExact(p) == Tiles(p) /\ LayersExact(p) /\ RefusedOnlyWhenFull(p)
=============================================================================
