---------------------------- MODULE MemoryRanges ----------------------------
(***************************************************************************)
(* The range arithmetic of the CS layer and of the UB handler, and the     *)
(* framing of control messages: pure algorithms, checked against what they *)
(* are meant to compute.                                                   *)
(*                                                                         *)
(*   HixlMemStore   may [s, e) be accessed, and where is a host address    *)
(*                  mapped: regions are a sequence sorted by address       *)
(*   Segment        does one memory type cover [s, e)                      *)
(*   MsgReceiver    messages out of a byte stream cut into chunks          *)
(*                                                                         *)
(* A region is [lo, hi, host, dev]: bytes lo..hi-1, host or device memory, *)
(* and the device address a host region is mapped at (NoDev if it is not). *)
(***************************************************************************)
EXTENDS Integers, Sequences, FiniteSets, SequencesExt

NoDev == -1

Least(S) == CHOOSE x \in S : \A y \in S : x <= y

\* std::map::lower_bound: the first region that starts at or after a.
LowerBound(regions, a) ==
    Least({i \in DOMAIN regions : regions[i].lo >= a} \cup {Len(regions) + 1})

Holds(r, s, e) == s >= r.lo /\ e <= r.hi

CheckRegionsContiguous(p, c) ==
    /\ p.hi = c.lo
    /\ p.host = c.host
    /\ (p.dev = NoDev) = (c.dev = NoDev)
    /\ p.dev # NoDev => p.dev + (p.hi - p.lo) = c.dev

\* From region it as far back and forth as regions continue each other.
CheckMergedRegionsAccess(regions, s, e, it) ==
    LET joined(i, j) == \A k \in i..(j - 1) : CheckRegionsContiguous(regions[k], regions[k + 1])
        from == Least({i \in 1..it : joined(i, it)})
        upto == CHOOSE j \in it..Len(regions) :
                    joined(it, j) /\ (j < Len(regions) => ~joined(it, j + 1))
    IN  from # upto /\ s >= regions[from].lo /\ e <= regions[upto].hi

CheckMemoryForAccess(regions, s, size) ==
    LET it == LowerBound(regions, s)
        e == s + size
    IN  /\ size > 0 /\ regions # <<>>
        /\ \/ it <= Len(regions) /\ Holds(regions[it], s, e)
           \/ it > 1 /\ Holds(regions[it - 1], s, e)
           \/ it <= Len(regions) /\ CheckMergedRegionsAccess(regions, s, e, it)

\* The region an address lies in, 0 if none.
FindMemoryRegion(regions, a) ==
    LET it == LowerBound(regions, a)
        in(i) == i \in DOMAIN regions /\ a >= regions[i].lo /\ a < regions[i].hi
    IN  IF in(it) THEN it ELSE IF in(it - 1) THEN it - 1 ELSE 0

\* One side of ConvertHostAddr: the address the transfer uses, NoDev on error.
ConvertHostAddr(regions, a) ==
    LET i == FindMemoryRegion(regions, a)
    IN  CASE i = 0 -> NoDev
          [] i # 0 /\ ~regions[i].host -> a
          [] i # 0 /\ regions[i].host /\ regions[i].dev = NoDev -> NoDev
          [] OTHER -> regions[i].dev + (a - regions[i].lo)

\* Meaning: access is granted when every byte is registered and the bytes of
\* the range lie, in order, at consecutive addresses of one kind.
ByteAt(regions, a) ==
    LET i == CHOOSE j \in DOMAIN regions : a >= regions[j].lo /\ a < regions[j].hi
    IN  [kind |-> <<regions[i].host, regions[i].dev = NoDev>>,
         at |-> IF regions[i].dev = NoDev THEN a ELSE regions[i].dev + (a - regions[i].lo)]

Accessible(regions, s, size) ==
    /\ size > 0
    /\ \A a \in s..(s + size - 1) :
        \E j \in DOMAIN regions : a >= regions[j].lo /\ a < regions[j].hi
    /\ \A a \in s..(s + size - 2) :
        /\ ByteAt(regions, a).kind = ByteAt(regions, a + 1).kind
        /\ ByteAt(regions, a).at + 1 = ByteAt(regions, a + 1).at

-----------------------------------------------------------------------------
(* Segment: ranges <<start, end>> sorted by start, possibly overlapping.   *)

UpperBound(ranges, s) ==
    Least({i \in DOMAIN ranges : ranges[i][1] > s} \cup {Len(ranges) + 1})

\* A range that is already there next to its place is not added again.
AddRange(ranges, s, len) ==
    LET it == UpperBound(ranges, s)
        new == <<s, s + len>>
    IN  IF it > 1 /\ ranges[it - 1] = new THEN ranges
        ELSE SubSeq(ranges, 1, it - 1) \o <<new>> \o SubSeq(ranges, it, Len(ranges))

RemoveRange(ranges, s, e) ==
    LET at == {i \in DOMAIN ranges : ranges[i] = <<s, e>>}
    IN  IF at = {} THEN ranges ELSE RemoveAt(ranges, Least(at))

\* Ranges that start at or before s first, then on from the furthest end.
SegmentContains(ranges, s, e) ==
    LET it == UpperBound(ranges, s)
        left == {ranges[i][2] : i \in {j \in 1..(it - 1) : ranges[j][2] > s}}
        reach == [i \in (it - 1)..Len(ranges) |->
                    CHOOSE m \in left : \A x \in left : x <= m]
        grow[i \in (it - 1)..Len(ranges)] ==
            IF i = it - 1 THEN reach[i]
            ELSE IF ranges[i][1] <= grow[i - 1] /\ ranges[i][2] > grow[i - 1]
                 THEN ranges[i][2] ELSE grow[i - 1]
    IN  s <= e /\ left # {} /\ grow[Len(ranges)] >= e

Covered(ranges, s, e) ==
    \A a \in s..(IF e > s THEN e - 1 ELSE s) :
        \E i \in DOMAIN ranges : ranges[i][1] <= a /\ a < ranges[i][2]

-----------------------------------------------------------------------------
(* MsgReceiver. A header takes HeaderSize cells, has the magic number or   *)
(* not, and tells the body's size, from the type alone to MaxBody cells;   *)
(* the cells of a body carry the number of their message.                  *)

HeaderSize == 2
MinBody == 1
MaxBody == 3

Frame(m, f) ==
    [i \in 1..(HeaderSize + f.body) |->
        IF i <= HeaderSize THEN [magic |-> f.magic, size |-> f.body, of |-> 0]
                           ELSE [magic |-> FALSE, size |-> 0, of |-> m]]

Stream(frames) == FlattenSeq([m \in DOMAIN frames |-> Frame(m, frames[m])])

GoodHeader(h) == h.magic /\ h.size >= MinBody /\ h.size <= MaxBody

\* RecvHeader: the header is cut off the front of the buffer, or it is refused
\* and the connection given up.
RecvHeader(st) ==
    IF GoodHeader(st.buf[1])
    THEN [st EXCEPT !.expected = st.buf[1].size, !.body = TRUE, !.buf = SubSeq(@, HeaderSize + 1, Len(@))]
    ELSE [st EXCEPT !.refused = TRUE]

\* Mutant: what follows a finished message in the buffer is dropped.
TakeBodyDropRest(st) ==
    [st EXCEPT !.msgs = Append(@, SubSeq(st.buf, 1, st.expected)),
               !.body = FALSE,
               !.buf = <<>>]

TakeBody(st) ==
    [st EXCEPT !.msgs = Append(@, SubSeq(st.buf, 1, st.expected)),
               !.body = FALSE,
               !.buf = SubSeq(@, st.expected + 1, Len(@))]

\* The loop of IRecv over what has been received.
RECURSIVE Unframe(_)
Unframe(st) ==
    CASE st.refused -> st
      [] ~st.refused /\ ~st.body /\ Len(st.buf) < HeaderSize -> st
      [] ~st.refused /\ ~st.body /\ Len(st.buf) >= HeaderSize -> Unframe(RecvHeader(st))
      [] st.body /\ Len(st.buf) < st.expected -> st
      [] OTHER -> Unframe(TakeBody(st))

IRecv(st, chunk) == IF st.refused THEN st ELSE Unframe([st EXCEPT !.buf = @ \o chunk])

\* The stream received in pieces that end at the given cuts.
ReceiveAll(stream, cuts) ==
    LET ends == SetToSortSeq({i \in cuts : i < Len(stream)} \cup {Len(stream)}, LAMBDA a, b : a < b)
    IN  FoldLeft(LAMBDA st, i :
                    IRecv(st, SubSeq(stream, IF i = 1 THEN 1 ELSE ends[i - 1] + 1, ends[i])),
                 [buf |-> <<>>, body |-> FALSE, expected |-> 0, msgs |-> <<>>, refused |-> FALSE],
                 [i \in DOMAIN ends |-> i])

-----------------------------------------------------------------------------
(* What the algorithms compute, for one case. *)

\* The store grants exactly the accessible ranges, and converts the start of a
\* granted range to the address its first byte is mapped at.
StoreRight(c) ==
    \A s \in 0..c.max, size \in 0..c.max :
        LET ok == CheckMemoryForAccess(c.regions, s, size)
        IN  /\ ok = Accessible(c.regions, s, size)
            /\ ok => ConvertHostAddr(c.regions, s) =
                        IF ByteAt(c.regions, s).kind = <<TRUE, TRUE>> THEN NoDev
                        ELSE ByteAt(c.regions, s).at

\* A segment contains exactly what its ranges cover, also after one of them has
\* been removed; the second part for ranges that differ in their start, as the
\* registered memories of one type do (AddRange notices a range that is already
\* there only next to its place).
SegmentRight(c) ==
    LET all == FoldLeft(LAMBDA rs, r : AddRange(rs, r[1], r[2] - r[1]), <<>>, c.ranges)
        less == RemoveRange(all, c.ranges[1][1], c.ranges[1][2])
        left == SelectSeq(c.ranges, LAMBDA r : r # c.ranges[1])
    IN  \A s \in 0..c.max : \A e \in s..c.max :
            /\ SegmentContains(all, s, e) = Covered(c.ranges, s, e)
            /\ (\A i, j \in DOMAIN c.ranges :
                    c.ranges[i][1] = c.ranges[j][1] => c.ranges[i] = c.ranges[j])
                => SegmentContains(less, s, e) = Covered(left, s, e)

\* Whatever the chunks, the messages arrive whole, once and in order up to the
\* first header that is refused; nothing after it is taken for a message.
FramingRight(c) ==
    LET st == ReceiveAll(Stream(c.frames), c.cuts)
        bad == {m \in DOMAIN c.frames : ~GoodHeader(Frame(m, c.frames[m])[1])}
        good == Least(bad \cup {Len(c.frames) + 1}) - 1
    IN  /\ st.msgs = [m \in 1..good |-> SubSeq(Frame(m, c.frames[m]), HeaderSize + 1,
                                                HeaderSize + c.frames[m].body)]
        /\ st.refused = (bad # {})
        /\ bad = {} => st.buf = <<>> /\ ~st.body
=============================================================================
