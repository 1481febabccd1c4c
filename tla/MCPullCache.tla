---------------------------- MODULE MCPullCache ----------------------------
(***************************************************************************)
(* Workloads for PullCache: small caches on small pools, the ways to pull  *)
(* them, and, as setups without any step, the transfer plans.              *)
(***************************************************************************)
EXTENDS PullCache

CONSTANTS t1, t2,       \* application threads
          Groups        \* which setups a run takes

All == [first |-> 0, n |-> 0]
Layer(i) == [first |-> i, n |-> 1]

Cont(tensors, stride, batch, host) ==
    [tensors |-> tensors, size |-> stride * batch, stride |-> stride, blocks |-> 0,
     batch |-> batch, host |-> host]
Paged(tensors, stride, blocks, host) ==
    [tensors |-> tensors, size |-> stride * blocks, stride |-> stride, blocks |-> blocks,
     batch |-> 1, host |-> host]

Q(size, src, dst, from, row, srcT, dstT) ==
    [size |-> size, src |-> src, dst |-> dst, from |-> from, row |-> row, off |-> 0,
     srcT |-> srcT, dstT |-> dstT]
Whole(from, row) == Q(0, <<>>, <<>>, from, row, All, All)

NoPlan == [kind |-> "none", e |-> Cont(1, 1, 1, FALSE), c |-> Cont(1, 1, 1, FALSE), q |-> Whole(0, 0),
           made |-> Refused]

-----------------------------------------------------------------------------
\* Caches and calls.

Desc(tensors, stride, batch, paged, keys, owned, host) ==
    [tensors |-> tensors, size |-> stride * batch, stride |-> stride, paged |-> paged,
     keys |-> keys, owned |-> owned, host |-> host]
Key(n, prefix) == [num |-> n, model |-> 0, prefix |-> prefix]
Unused == Key(NoReq, FALSE)

Op(op, id) == [op |-> op, id |-> id]
RemoveOf(k) == [op |-> "removeKey", key |-> k]
CopyOf(a, b) == [op |-> "copy", src |-> a, dst |-> b]
Staging(size) == [op |-> "staging", size |-> size]

Node(pages, cache, calls1, calls2, maxCalls, pulls) ==
    [pages |-> pages, cache |-> cache, calls |-> (t1 :> calls1) @@ (t2 :> calls2),
     maxCalls |-> maxCalls, remote |-> TRUE, tableCap |-> 2, pulls |-> pulls,
     timeouts |-> FALSE, plan |-> NoPlan]

\* Two threads make, copy and drop caches, with rows that have keys and one
\* that has none; the pool is too small for all of them.
Books ==
    LET cache == (1 :> Desc(2, 1, 3, FALSE, <<Key(5, FALSE), Unused, Key(6, FALSE)>>, TRUE, FALSE))
              @@ (2 :> Desc(1, 3, 1, FALSE, <<Key(5, FALSE)>>, TRUE, FALSE))
              @@ (3 :> Desc(1, 2, 2, TRUE, <<Key(7, FALSE)>>, TRUE, FALSE))
    IN  Node(6, cache,
             {Op("allocate", 1), Op("deallocate", 1), RemoveOf(Key(5, FALSE)), RemoveOf(Key(6, FALSE))},
             {Op("allocate", 2), Op("allocate", 3), Op("deallocate", 2), Op("deallocate", 3), CopyOf(1, 3)},
             3, <<>>)

\* A prefix key, a registered cache, and pulls that wait for a buffer.
Waits ==
    LET cache == (1 :> Desc(1, 4, 1, FALSE, <<Key(5, TRUE)>>, TRUE, FALSE))
              @@ (2 :> Desc(1, 4, 1, FALSE, <<Key(5, FALSE)>>, FALSE, FALSE))
    IN  Node(3, cache,
             {Op("allocate", 1), Op("deallocate", 1), RemoveOf(Key(5, TRUE)), Staging(4)},
             {Op("register", 2), Op("unregister", 2), Staging(4)}, 3, <<>>)

-----------------------------------------------------------------------------
\* Pulls.

ByKey(source, n, prefix, c, q) ==
    [by |-> "key", key |-> <<n, 0>>, prefix |-> prefix, id |-> source, row |-> 0,
     source |-> source, c |-> c, q |-> q]
ById(source, row, c, q) ==
    [by |-> "id", key |-> <<0, 0>>, prefix |-> FALSE, id |-> source, row |-> row,
     source |-> source, c |-> c, q |-> q]

\* One cache with two keyed rows, deallocated while it is pulled.
Rows(pulls) ==
    LET cache == (1 :> Desc(2, 2, 2, FALSE, <<Key(5, FALSE), Key(6, FALSE)>>, TRUE, FALSE))
              @@ (2 :> Desc(1, 4, 1, FALSE, <<>>, TRUE, FALSE))
    IN  Node(6, cache, {Op("allocate", 1), Op("deallocate", 1)},
             {Op("allocate", 2), Op("deallocate", 2)}, 2, pulls)

DevRow == Cont(2, 2, 1, FALSE)
HostRow == Cont(2, 2, 1, TRUE)

RowPulls ==
    {Rows(<<ByKey(1, 5, FALSE, DevRow, Whole(0, 0)), ByKey(1, 6, FALSE, DevRow, Whole(1, 0))>>),
     Rows(<<ByKey(1, 6, FALSE, HostRow, Whole(1, 0)), ById(1, 0, DevRow, Whole(0, 0))>>),
     Rows(<<ByKey(1, 5, FALSE, DevRow, Q(0, <<>>, <<>>, 0, 0, Layer(0), Layer(1))),
            ByKey(1, 5, FALSE, DevRow, Q(0, <<>>, <<>>, 0, 0, Layer(1), Layer(0)))>>),
     Rows(<<ById(1, 1, HostRow, Whole(1, 0)), ByKey(1, 5, FALSE, HostRow, Whole(0, 0))>>),
     Rows(<<ByKey(1, 5, FALSE, DevRow, Q(0, <<>>, <<>>, 0, 0, Layer(0), Layer(0))),
            ByKey(1, 6, FALSE, DevRow, Q(0, <<>>, <<>>, 1, 0, Layer(1), Layer(1))),
            ByKey(1, 6, FALSE, DevRow, Q(0, <<>>, <<>>, 1, 0, Layer(0), Layer(0)))>>)}

\* The key of a cache, or a cache without keys, is removed while it is pulled;
\* its memory may go to another cache.
RemovedPulls ==
    LET cache(keys, host) == (1 :> Desc(2, 2, 1, FALSE, keys, TRUE, host))
                          @@ (2 :> Desc(1, 2, 1, FALSE, <<>>, TRUE, FALSE))
        keyed(c) == Node(3, cache(<<Key(5, FALSE)>>, FALSE), {Op("allocate", 1), Op("deallocate", 1)},
                         {RemoveOf(Key(5, FALSE)), Op("allocate", 2)}, 2, <<ByKey(1, 5, FALSE, c, Whole(0, 0))>>)
        free(c) == Node(3, cache(<<>>, FALSE), {Op("allocate", 1), Op("deallocate", 1)},
                        {Op("allocate", 2)}, 2, <<ById(1, 0, c, Whole(0, 0))>>)
    IN  {keyed(DevRow), keyed(HostRow), free(DevRow), free(HostRow)}

\* A prefix serves more than one pull, and goes when its key is removed.
PrefixPulls ==
    LET cache == (1 :> Desc(1, 3, 1, FALSE, <<Key(5, TRUE)>>, TRUE, FALSE))
        pull(host) == ByKey(1, 5, TRUE, Cont(1, 3, 1, host), Whole(0, 0))
        tooLong == ByKey(1, 5, TRUE, Cont(1, 3, 1, FALSE), Q(4, <<>>, <<>>, 0, 0, All, All))
    IN  {Node(2, cache, {Op("allocate", 1), Op("deallocate", 1)}, {}, 2, <<pull(FALSE), tooLong, pull(TRUE)>>)}

\* Blocks of a device cache into a host cache, through both buffers.
BlockPulls ==
    LET cache == (1 :> Desc(1, 2, 6, TRUE, <<Key(5, FALSE)>>, FALSE, FALSE))
        q == Q(0, <<0, 2, 3, 4, 5>>, <<4, 1, 2, 0, 3>>, 0, 0, All, All)
    IN  {Node(1, cache, {Op("register", 1)}, {}, 1,
              <<ByKey(1, 5, FALSE, Paged(1, 2, 6, TRUE), q), ByKey(1, 5, FALSE, Paged(1, 2, 6, FALSE), q)>>)}

\* Rows and blocks of a host cache; the buffers compete with a cache.
HostPulls ==
    LET cache == (1 :> Desc(1, 9, 1, FALSE, <<Key(5, FALSE)>>, FALSE, TRUE))
              @@ (2 :> Desc(1, 4, 1, FALSE, <<>>, TRUE, FALSE))
    IN  {Node(4, cache, {Op("register", 1)}, {Op("allocate", 2), Op("deallocate", 2)}, 2,
              <<ByKey(1, 5, FALSE, Cont(1, 9, 1, FALSE), Whole(0, 0))>>)}

-----------------------------------------------------------------------------
\* Plans.

Lists(n, b) == {s \in [1..n -> 0..(b - 1)] : IsInjective(s)}

Paper == Node(1, <<>>, {}, {}, 0, <<>>)

PlanOf(kind, e, c, q) ==
    [Paper EXCEPT !.plan = [kind |-> kind, e |-> e, c |-> c, q |-> q, made |-> Refused]]

\* The plan the code makes, beside what it is made for.
Made(s) == [s EXCEPT !.plan.made = Plan(s.plan.kind, s.plan.e, s.plan.c, s.plan.q)]

Sides == {<<FALSE, FALSE>>, <<FALSE, TRUE>>, <<TRUE, FALSE>>}

\* Rows to rows, also with fewer bytes than a row, and of some layers.
RowPlans ==
    {PlanOf("pull", Cont(2, s, 2, h[1]), Cont(2, s, 2, h[2]), Q(n, <<>>, <<>>, from, 1, All, All)) :
        s \in {3, 4, 9}, h \in Sides, n \in {0, 1, 3, 5, 8}, from \in {0, 1}}
    \cup {PlanOf("pull", Cont(3, 5, 1, h[1]), Cont(3, 5, 1, h[2]), Q(0, <<>>, <<>>, 0, 0, Layer(i), Layer(j))) :
        h \in Sides, i \in 0..2, j \in 0..2}

\* Blocks to blocks, in every order.
BlockPlans ==
    LET lists == UNION {Lists(n, 3) \X Lists(n, 3) : n \in 1..3} \cup ({<<0, 1, 2, 4>>, <<1, 0, 2, 3>>} \X Lists(4, 4))
    IN  {PlanOf("pull", Paged(s[1], s[2], 5, h[1]), Paged(s[1], s[2], 5, h[2]), Q(0, l[1], l[2], 0, 0, All, All)) :
            s \in {<<2, 1>>, <<2, 2>>, <<1, 5>>}, h \in Sides, l \in lists}

\* Rows to blocks: whole rows, which may end inside a block.
TailPlans ==
    {p \in {PlanOf("pull", Cont(2, s, b, FALSE), Paged(2, k, 4, h),
                   Q(0, <<>>, SubSeq(l, 1, CeilDiv(s, k)), from, 0, All, All)) :
        s \in {3, 4, 5, 6}, k \in {2, 3}, b \in 1..3, h \in {FALSE, TRUE},
        l \in {<<2, 0, 1, 3>>, <<0, 1, 2, 3>>, <<3, 2, 1, 0>>}, from \in {0, 1}} :
        p.plan.q.from < p.plan.e.batch}

NodePlans ==
    LET lists == UNION {Lists(n, 3) \X Lists(n, 3) : n \in 1..3}
    IN  {PlanOf(kind, Paged(2, 2, 3, FALSE), Paged(2, 2, 3, FALSE), Q(0, l[1], l[2], 0, 0, t, t)) :
            kind \in {"copy", "swap"}, l \in lists, t \in {All}}
        \cup {PlanOf("push", Paged(2, 2, 3, FALSE), Paged(2, 2, 3, FALSE), Q(0, l[1], l[2], 0, 0, Layer(1), Layer(0))) :
            l \in lists}
        \cup {PlanOf(kind, Cont(2, 4, 2, FALSE), Cont(2, 4, 2, FALSE), Q(0, <<>>, <<>>, from, row, Layer(0), Layer(1))) :
            kind \in {"push", "get"}, from \in {0, 1}, row \in {0, 1}}
        \cup {PlanOf("push", Cont(2, s, 2, FALSE), Paged(2, 2, 4, FALSE),
                     Q(0, <<>>, SubSeq(<<3, 1, 0>>, 1, CeilDiv(s, 2)), 1, 0, Layer(0), Layer(1))) : s \in {3, 4, 5}}
        \cup {[PlanOf("copy", Cont(2, 4, 2, FALSE), Cont(2, 4, 2, FALSE), Q(n, <<>>, <<>>, from, 1, All, All))
                EXCEPT !.plan.q.off = o] : n \in 0..4, o \in 0..3, from \in {0, 1}}

Pulls == RowPulls \cup RemovedPulls \cup PrefixPulls \cup BlockPulls \cup HostPulls

Plans == RowPlans \cup BlockPlans \cup NodePlans \cup TailPlans

Late(s) == [s EXCEPT !.timeouts = TRUE, !.maxCalls = 1]

MCSetups ==
    {x \in {Books, Waits} : "calls" \in Groups}
        \cup {[s EXCEPT !.pulls = [k \in DOMAIN s.pulls |-> Scripted(s.pulls[k], s.cache)]] :
                s \in {p \in Pulls \cup {Late(q) : q \in Pulls} : "pulls" \in Groups}}
        \cup {Made(p) : p \in {x \in Plans : "plans" \in Groups}}
=============================================================================
