----------------------------- MODULE MCServices -----------------------------
(***************************************************************************)
(* The parts of a HIXL process around its links, for TLC: the connections  *)
(* of the server, the memory of the engine and of its fabric memory        *)
(* endpoints, the requests of a link, and, as cases without any step, the  *)
(* range arithmetic and the matching of endpoints. A behaviour is about    *)
(* one of them; the others stay as they are.                               *)
(***************************************************************************)
EXTENDS ServerClients, TLC

CONSTANTS
    Parts,                                       \* the parts a run looks at
    Clients,                                     \* of EngineMemory
    Endpoints, BlockPages, PoolStart, MaxPhys, MaxExports,   \* of FabricMemory
    Threads, Requests, Addrs, NoKey, Loads,      \* of TransferRequests
    Cases                                        \* of the algorithms

VARIABLES
    about,      \* the part this behaviour is about
    esetup, ep, refs, pinned, store, regs, addrs, memmap, record, client, ecall,
    refusals, torn, leaked, again, refused,
    fsetup, heap, lib, fep, fcall,
    rsetup, rlib, used, moved, reqMap, index, order, rclient, rcall, key, told,
    paper       \* the case of an algorithm

serverState == vars
engineState == <<esetup, ep, refs, pinned, store, regs, addrs, memmap, record, client, ecall,
                 refusals, torn, leaked, again, refused>>
fabricState == <<fsetup, heap, lib, fep, fcall>>
requestState == <<rsetup, rlib, used, moved, reqMap, index, order, rclient, rcall, key, told>>

all == <<about, serverState, engineState, fabricState, requestState, paper>>

-----------------------------------------------------------------------------
(* The server's connections: with TLS and without, clients that build a    *)
(* channel or notify, with and without Finalize.                           *)

Connections(secure, a, b, stops) == [tls |-> secure, kind |-> <<a, b>>, stops |-> stops]

ServerSetups ==
    {Connections(FALSE, "channel", "channel", FALSE), Connections(FALSE, "notify", "channel", FALSE),
     Connections(TRUE, "channel", "none", TRUE), Connections(FALSE, "notify", "notify", FALSE),
     Connections(TRUE, "notifies", "none", FALSE), Connections(FALSE, "notifies", "none", TRUE)}

-----------------------------------------------------------------------------
(* The memory of the engine: a host range and a local one of the device at *)
(* endpoints of UB; two host ranges of one address, at endpoints that map  *)
(* host memory.                                                            *)

MemRange(lo, hi, type, own) == [lo |-> lo, hi |-> hi, type |-> type, local |-> own]
Endpoint(ub, loc, map) == [ub |-> ub, loc |-> loc, map |-> map]

EngineSetups ==
    {[mems |-> {MemRange(0, 2, "host", FALSE), MemRange(4, 6, "device", TRUE)},
      server |-> <<Endpoint(TRUE, "host", FALSE), Endpoint(TRUE, "device", TRUE)>>,
      links |-> <<Endpoint(TRUE, "host", FALSE), Endpoint(TRUE, "device", FALSE)>>,
      ub |-> TRUE, refusals |-> 1],
     [mems |-> {MemRange(0, 2, "host", FALSE), MemRange(0, 3, "host", FALSE)},
      server |-> <<Endpoint(FALSE, "device", TRUE), Endpoint(FALSE, "host", FALSE)>>,
      links |-> <<Endpoint(FALSE, "device", TRUE)>>, ub |-> FALSE, refusals |-> 1]}

EM == INSTANCE EngineMemory WITH Setups <- EngineSetups, setup <- esetup, call <- ecall

-----------------------------------------------------------------------------
(* Fabric memory: two endpoints register parts of the same blocks, and     *)
(* their own allocations; import from each other; import from a peer, the  *)
(* pool too small for both, and with calls of the driver that fail.        *)

Pages(a, n) == [addr |-> a, len |-> n]
Offer(a, n, p) == [va |-> a, len |-> n, handle |-> [owner |-> "peer", phys |-> p, nth |-> 1]]

Pool(blocks, start) == [blocks |-> blocks, start |-> start]
Fabric(ranges, own, peer, ca, cb, ja, jb, faults) ==
    [blocks |-> (1 :> 2) @@ (3 :> 1), ranges |-> ranges, own |-> own, peer |-> peer,
     config |-> [e \in Endpoints |-> IF e = "a" THEN Pool(ca, 0) ELSE cb],
     jobs |-> [e \in Endpoints |-> IF e = "a" THEN ja ELSE jb], faults |-> faults, pool |-> 3]

Offers == << <<Offer(21, 2, 1)>>, <<Offer(21, 2, 1), Offer(23, 1, 2)>> >>

FabricSetups ==
    {Fabric({Pages(1, 1), Pages(2, 2)}, {}, <<>>, 0, Pool(0, 2), {"register", "destroy"}, {}, TRUE),
     Fabric({Pages(2, 2)}, {}, <<>>, 0, Pool(0, 0), {"register"}, {"register", "destroy"}, FALSE),
     Fabric({Pages(2, 2)}, {2}, <<>>, 0, Pool(0, 0), {"register"}, {"loop", "destroy"}, FALSE),
     Fabric({}, {3}, Offers, 3, Pool(2, 0), {"peer", "register"}, {"peer", "destroy"}, FALSE),
     Fabric({}, {3}, Offers, 3, Pool(3, 1), {"peer"}, {"peer", "destroy"}, TRUE)}

FM == INSTANCE FabricMemory WITH Setups <- FabricSetups, setup <- fsetup, ep <- fep, call <- fcall

-----------------------------------------------------------------------------
(* Requests: every handler, with descriptors of one or two link types, one *)
(* or two threads, and links made at the first transfer.                   *)

CS == INSTANCE ChannelShares
TR == INSTANCE TransferRequests WITH Setups <- Loads, setup <- rsetup, lib <- rlib,
                                     client <- rclient, call <- rcall

Load(handler, descs, ops, workers, lazy, reuse, threads) ==
    [handler |-> handler, descs |-> descs, ops |-> ops, workers |-> workers, split |-> 1,
     lazy |-> lazy, reuse |-> reuse, threads |-> threads, shares |-> <<>>]

Async == <<"async", "async">>

FreshLoads == {CS!Planned(s) : s \in {
     Load("direct", <<<<4>>, <<4, 4>>>>, Async, 1, FALSE, FALSE, {1, 2}),
     Load("direct", <<<<4>>, <<4, 4>>>>, Async, 1, FALSE, TRUE, {1}),
     Load("multi", <<<<4, 4, 4>>, <<4>>>>, Async, 2, FALSE, FALSE, {1}),
     Load("ub", <<<<0, 1, 0>>, <<0>>>>, <<"async", "sync">>, 1, FALSE, FALSE, {1, 2}),
     Load("ub", <<<<0, 1>>, <<1>>>>, <<"async", "sync">>, 1, TRUE, FALSE, {1}),
     Load("ubmulti", <<<<0, 0, 0, 1>>, <<1>>>>, Async, 2, TRUE, FALSE, {1})}}

\* A UB handler when the allocator gives the address of a deleted handle out
\* again: with this CompletedIsOwn is violated.
ReusedLoads == {CS!Planned(Load("ub", <<<<0, 1>>, <<0>>>>, Async, 1, FALSE, TRUE, {1}))}

-----------------------------------------------------------------------------
(* Cases of the algorithms. Stores: three neighbours with a gap or not,    *)
(* each mapped where its neighbour's mapping ends or not. Segments: three  *)
(* ranges added one after the other. Frames: messages cut anywhere, with   *)
(* headers that are refused.                                               *)

MR == INSTANCE MemoryRanges

Region(lo, hi, host, dev) == [lo |-> lo, hi |-> hi, host |-> host, dev |-> IF host THEN dev ELSE MR!NoDev]

Stores ==
    {[kind |-> "store", max |-> 7,
      regions |-> <<Region(0, 2, TRUE, d1), Region(2 + g, 4, h2, d2), Region(4, 6, h3, d3)>>] :
        g \in {0, 1}, h2 \in BOOLEAN, h3 \in BOOLEAN,
        d1 \in {MR!NoDev, 20}, d2 \in {MR!NoDev, 22, 30}, d3 \in {MR!NoDev, 24, 32}}

Spans == {r \in (0..4) \X (0..5) : r[1] < r[2]}
Segments == {[kind |-> "segment", max |-> 5, ranges |-> <<a, b, c>>] : a \in Spans, b \in Spans, c \in Spans}
Framed(magic, body) == [magic |-> magic, body |-> body]
Frames ==
    {[kind |-> "frames", frames |-> f, cuts |-> k] : k \in SUBSET (1..6),
        f \in {<<Framed(TRUE, 1), Framed(TRUE, 2)>>, <<Framed(TRUE, 3)>>, <<Framed(TRUE, 2), Framed(TRUE, 1)>>,
               <<Framed(TRUE, 1), Framed(FALSE, 1)>>, <<Framed(TRUE, 4)>>, <<Framed(TRUE, 1), Framed(TRUE, 0)>>}}

(* Two endpoints of UB on one side, and one of UB beside one of any        *)
(* protocol on the other.                                                  *)

MT == INSTANCE EndpointMatch

Placed(proto, place, comm, plane, dst, server, net) ==
    [proto |-> proto, place |-> place, comm |-> comm, plane |-> plane, dst |-> dst,
     server |-> server, net |-> net]
Ub ==
    {e \in {Placed("ub_ctp", place, comm, plane, dst, server, 1) :
              place \in {"device", "host"}, comm \in {1, 2}, plane \in {0, 1}, dst \in {0, 1}, server \in {0, 1}} :
        e.place = "host" \/ e.server = 0}
Others == {Placed("roce", "device", 1, 0, 0, 0, 1), Placed("roce", "device", 1, 0, 0, 0, 2),
           Placed("ubmem", "device", 1, 0, 0, 0, 1)}
Endings(c) == {e \in Ub : e.comm = c}

Matches ==
    {[kind |-> "match", local |-> <<a, b>>, remote |-> <<c, d>>, priority |-> p,
      found |-> MT!MatchEndpoints(<<a, b>>, <<c, d>>, p)] :
        a \in {e \in Endings(1) : e.server = 0}, b \in {e \in Endings(2) : e.place = "host" => e.server = 1},
        c \in {e \in Endings(1) : e.server = 0},
        d \in {e \in Endings(2) : e.server = 1} \cup Others, p \in {"PEER2NET", "PEER2PEER"}}

AllCases == Stores \cup Segments \cup Frames \cup Matches
NoCase == [kind |-> "none"]

-----------------------------------------------------------------------------

Some(setups) == CHOOSE s \in setups : TRUE

MCInit ==
    /\ about \in Parts
    /\ Init /\ (about # "server" => setup = Some(ServerSetups))
    /\ EM!Init /\ (about # "engine" => esetup = Some(EngineSetups))
    /\ FM!Init /\ (about # "fabric" => fsetup = Some(FabricSetups))
    /\ TR!Init /\ (about # "requests" => rsetup = Some(Loads))
    /\ IF about = "paper" THEN paper \in Cases ELSE paper = NoCase

Rest ==
    /\ about = "paper"
    /\ UNCHANGED <<about, serverState, engineState, fabricState, requestState, paper>>

MCNext ==
    \/ about = "server" /\ Next /\ UNCHANGED <<about, engineState, fabricState, requestState, paper>>
    \/ about = "engine" /\ EM!Next /\ UNCHANGED <<about, serverState, fabricState, requestState, paper>>
    \/ about = "fabric" /\ FM!Next /\ UNCHANGED <<about, serverState, engineState, requestState, paper>>
    \/ about = "requests" /\ TR!Next /\ UNCHANGED <<about, serverState, engineState, fabricState, paper>>
    \/ Rest

MCSpec == MCInit /\ [][MCNext]_all

-----------------------------------------------------------------------------

\* Every channel of the server belongs to a client that is there, being cleaned
\* up or in the hands of a worker, and a descriptor's number never confuses two
\* connections.
ConnectionsExact == ChannelsExact /\ OwnTraffic

\* What the tables of the engine, of its handlers and of HostRegisterProxy say
\* is what the endpoints have.
RegistrationsExact == about = "engine" => EM!RegistrationsExact

\* The exports of fabric memory: ledger, counts, references and cached handles
\* agree with the registrations of all endpoints of the process. The imports:
\* an address of the peer is translated to where that very page is mapped, and
\* every span of virtual memory has one owner.
FabricExact == about = "fabric" => FM!ExportsExact /\ FM!ImportsExact

\* A physical allocation is exported for the fabric at most once.
ExportedOnce == about = "fabric" => FM!ExportedOnce

\* A request is tracked through all layers until its end is reported, and is
\* reported as completed only when all of its data has moved.
RequestsExact == about = "requests" => TR!RequestsExact

\* The handle TransferAsync returns serves to query the state of its request.
CompletedIsOwn == about = "requests" => TR!CompletedIsOwn

\* The memory store grants what is accessible and translates it rightly, a
\* segment contains what its ranges cover, and messages come out of the byte
\* stream whole, once and in order. The links of two engines are those that
\* their endpoints allow.
AlgorithmsRight ==
    /\ paper.kind = "store" => MR!StoreRight(paper)
    /\ paper.kind = "segment" => MR!SegmentRight(paper)
    /\ paper.kind = "frames" => MR!FramingRight(paper)
    /\ paper.kind = "match" => MT!MatchRight(paper)
=============================================================================
