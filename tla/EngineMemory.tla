---------------------------- MODULE EngineMemory ----------------------------
(***************************************************************************)
(* Memory registration in a HIXL engine: HixlEngine::RegisterMem and       *)
(* DeregisterMem, which bring a range to every endpoint of the server and  *)
(* take it from all clients and the server again; a Connect, which brings  *)
(* all ranges to the links of a new client; a Disconnect, which takes a    *)
(* client down without the engine's lock; Finalize. All of them meet in    *)
(* HostRegisterProxy, which counts how many endpoints of the device have a *)
(* host range mapped.                                                      *)
(*                                                                         *)
(* Endpoint::RegisterMem is two steps, the mapping and MemReg; taking one  *)
(* range from one endpoint is one.                                         *)
(*                                                                         *)
(* Abstracted: a range is a member of Mems, and the handle an endpoint     *)
(* gives it. MemReg of a range the endpoint still has is answered          *)
(* HCCL_E_AGAIN with that handle (external: the driver). How often the     *)
(* driver refuses to take a range back is bounded by the setup. Left out:  *)
(* UB_MEM, which skips the client's part; the notify memory of the slots.  *)
(***************************************************************************)
EXTENDS Integers, Sequences, FiniteSets, SequencesExt

CONSTANTS
    Clients,    \* remote engines
    Setups      \* [mems, server, links, ub, refusals]: ranges, endpoints, links,
                \* UB handler, how often MemUnreg or aclrtHostUnregister fails

VARIABLES
    setup,      \* the member of Setups this behaviour is about
    ep,         \* endpoint -> reg_mems_, the ranges registered there
    refs,       \* HostRegisterProxy::registered_mems_: address -> ref_cnt
    pinned,     \* ... and the end of the range the driver pinned there, 0: no entry
    store,      \* link -> client_regions_ of its HixlMemStore
    regs,       \* HixlCSServer::reg_mems_: range -> endpoints
    addrs,      \* HixlServer::handle_to_addr_
    memmap,     \* HixlEngine::mem_map_
    record,     \* client -> its handler's table: range -> links
    client,     \* client -> "none", "making", "up", "closing"
    call,       \* "user" and each client -> the call under way: [at, m, c, todo, done, list]
    refusals,   \* how often the driver may still refuse to take a range back
    torn,       \* ranges a failed DeregisterMem has taken from some place
    leaked,     \* <<endpoint, range>>: a registration a failed rollback left behind
    again,      \* addresses an endpoint was given twice, with one entry for both
    refused     \* addresses the driver did not unpin although the count was given back

proxyVars == <<refs, pinned, refusals, again, refused>>
vars == <<setup, ep, proxyVars, store, regs, addrs, memmap, record, client, call, torn, leaked>>

deviceVars == <<ep, proxyVars>>
serverVars == <<regs, addrs, memmap>>
clientVars == <<store, record, client>>

ServerEps == {<<"s", i>> : i \in DOMAIN setup.server}

LinksOf(c) == {<<c, l>> : l \in DOMAIN setup.links}

Eps == ServerEps \cup UNION {LinksOf(c) : c \in Clients}

KindOf(e) == IF e[1] = "s" THEN setup.server[e[2]] ELSE setup.links[e[2]]

Idle == [at |-> "idle", m |-> <<>>, c |-> "", todo |-> <<>>, done |-> <<>>, list |-> {}]

-----------------------------------------------------------------------------
(* Which endpoints take a range. *)

\* ShouldRegisterEndpointForMem; the mapping is decided when the endpoint is made.
ShouldRegisterEndpointForMem(e, m) ==
    \/ ~KindOf(e).ub
    \/ m.type = "host" /\ (KindOf(e).loc = "host" \/ KindOf(e).map)
    \/ m.type = "device" /\ KindOf(e).loc = "device"

\* UbClientHandler::RegisterMem: a range goes to the links that leave its kind
\* of memory; the other handlers bring it to every link.
LinkTakes(e, m) == setup.ub => KindOf(e).loc = m.type

Mapped(e, m) == m.type = "host" /\ KindOf(e).map

Overlap(m, n) == m.type = n.type /\ m.lo < n.hi /\ n.lo < m.hi

\* CheckAddrOverlap against the ranges that are registered.
CheckAddrOverlap(m) ==
    CASE \E n \in addrs : Overlap(m, n) /\ n.lo = m.lo /\ n.hi = m.hi -> "same"
      [] \E n \in addrs : Overlap(m, n) /\ ~(n.lo = m.lo /\ n.hi = m.hi) -> "overlap"
      [] OTHER -> "free"

\* CheckMemoryForRegister of a client: any overlap, of whatever kind.
CheckMemoryForRegister(e, m) == \E n \in store[e] : m.lo < n.hi /\ n.lo < m.hi

RecordMemory(e, m) == [store EXCEPT ![e] = @ \cup {m}]

UnrecordMemory(e, m) == [store EXCEPT ![e] = @ \ {m}]

-----------------------------------------------------------------------------
(* HostRegisterProxy and Endpoint. *)

Users(p) ==
    {<<e, m>> \in Eps \X setup.mems : m.lo = p /\ Mapped(e, m) /\ m \in ep[e]}
        \cup {<<a>> : a \in {b \in DOMAIN call :
                 call[b].at = "drv" /\ call[b].m.lo = p /\ Mapped(Head(call[b].todo), call[b].m)}}

\* Register: the first one has the driver pin the pages.
HostRegister(m) ==
    /\ pinned[m.lo] \in {0, m.hi}
    /\ refs' = [refs EXCEPT ![m.lo] = @ + 1]
    /\ pinned' = [pinned EXCEPT ![m.lo] = m.hi]
    /\ UNCHANGED <<refusals, again, refused>>

\* It is refused for a range of another size at a known address, or by the driver.
HostRegisterFails(m) == pinned[m.lo] # m.hi

\* Unregister: the last one has the driver unpin the pages. The count is lower
\* even when that fails and the entry stays.
HostUnregister(m, ok) ==
    LET p == m.lo
    IN  \/ ok /\ pinned[p] = 0 /\ UNCHANGED proxyVars
        \/ /\ ok
           /\ refs[p] > 1
           /\ refs' = [refs EXCEPT ![p] = @ - 1]
           /\ UNCHANGED <<pinned, refusals, again, refused>>
        \/ /\ ok
           /\ pinned[p] # 0 /\ refs[p] <= 1
           /\ refs' = [refs EXCEPT ![p] = 0]
           /\ pinned' = [pinned EXCEPT ![p] = 0]
           /\ again' = again \ {p}
           /\ refused' = IF Cardinality(Users(p)) <= 1 THEN refused \ {p} ELSE refused
           /\ UNCHANGED refusals
        \/ /\ ~ok
           /\ pinned[p] # 0 /\ refs[p] <= 1
           /\ refusals > 0
           /\ refusals' = refusals - 1
           /\ refs' = [refs EXCEPT ![p] = @ - 1]
           /\ refused' = refused \cup {p}
           /\ UNCHANGED <<pinned, again>>

Unmap(e, m, ok) == IF Mapped(e, m) THEN HostUnregister(m, ok) ELSE ok /\ UNCHANGED proxyVars

\* Endpoint::DeregisterMem: MemUnreg, then the mapping; the entry stays when
\* either fails.
DeregisterAt(e, m, ok) ==
    \/ ok /\ m \notin ep[e] /\ UNCHANGED deviceVars
    \/ /\ m \in ep[e]
       /\ Unmap(e, m, ok)
       /\ ep' = IF ok THEN [ep EXCEPT ![e] = @ \ {m}] ELSE ep
    \/ /\ ~ok
       /\ m \in ep[e]
       /\ refusals > 0
       /\ refusals' = refusals - 1
       /\ UNCHANGED <<ep, refs, pinned, again, refused>>

\* Endpoint::Finalize: whatever is still registered goes, failures are ignored.
FinalizeEndpoint(e, m) ==
    /\ m \in ep[e]
    /\ \E ok \in BOOLEAN : Unmap(e, m, ok)
    /\ ep' = [ep EXCEPT ![e] = @ \ {m}]
    /\ leaked' = leaked \ {<<e, m>>}

Goto(a, at) == call' = [call EXCEPT ![a].at = at]

\* Endpoint::RegisterMem of the next endpoint, its first half. A link asks the
\* client's store before.
RegisterMap(a) ==
    LET m == call[a].m
        e == Head(call[a].todo)
    IN  /\ call[a].at = "reg"
        /\ call[a].todo # <<>>
        /\ \/ /\ e[1] # "s" => ~CheckMemoryForRegister(e, m)
              /\ IF Mapped(e, m) THEN HostRegister(m) ELSE UNCHANGED proxyVars
              /\ Goto(a, "drv")
           \/ /\ \/ Mapped(e, m) /\ HostRegisterFails(m)
                 \/ e[1] # "s" /\ CheckMemoryForRegister(e, m)
              /\ Goto(a, "undo")
              /\ UNCHANGED proxyVars
        /\ UNCHANGED <<setup, ep, serverVars, clientVars, torn, leaked>>

\* MemReg succeeds, or the endpoint has the range already (HCCL_E_AGAIN) and its
\* entry is overwritten. A link records the range in the client's store.
Registers(a, e, m) ==
    /\ ep' = [ep EXCEPT ![e] = @ \cup {m}]
    /\ again' = IF m \in ep[e] /\ Mapped(e, m) THEN again \cup {m.lo} ELSE again
    /\ store' = IF e[1] = "s" THEN store ELSE RecordMemory(e, m)
    /\ leaked' = leaked \ {<<e, m>>}
    /\ call' = [call EXCEPT ![a].at = "reg", ![a].todo = Tail(@), ![a].done = Append(@, e)]
    /\ UNCHANGED <<refs, pinned, refusals, refused>>

\* Mutant: the mapping stays when the driver refuses the range.
MemRegNoGuard(a) ==
    LET m == call[a].m
        e == Head(call[a].todo)
    IN  /\ call[a].at = "drv"
        /\ \/ Registers(a, e, m)
           \/ Goto(a, "undo") /\ UNCHANGED <<deviceVars, store, leaked>>
        /\ UNCHANGED <<setup, serverVars, record, client, torn>>

\* Its second half: MemReg, and reg_guard undoes the mapping if it fails.
MemReg(a) ==
    LET m == call[a].m
        e == Head(call[a].todo)
    IN  /\ call[a].at = "drv"
        /\ \/ Registers(a, e, m)
           \/ /\ Goto(a, "undo")
              /\ \E ok \in BOOLEAN : Unmap(e, m, ok)
              /\ UNCHANGED <<ep, store, leaked>>
        /\ UNCHANGED <<setup, serverVars, record, client, torn>>

\* The rollback of the server and of the handlers: the last one first, a failure
\* is only logged.
Rollback(a) ==
    LET m == call[a].m
        e == Last(call[a].done)
    IN  /\ call[a].at = "undo"
        /\ call[a].done # <<>>
        /\ call' = [call EXCEPT ![a].done = Front(@)]
        /\ \E ok \in BOOLEAN :
              /\ DeregisterAt(e, m, ok)
              /\ store' = IF ok /\ e[1] # "s" THEN UnrecordMemory(e, m) ELSE store
              /\ leaked' = IF ok THEN leaked ELSE leaked \cup {<<e, m>>}
        /\ UNCHANGED <<setup, serverVars, record, client, torn>>

-----------------------------------------------------------------------------
(* HixlEngine::RegisterMem: its lock keeps Connect and DeregisterMem out. *)

Locked == \E a \in DOMAIN call : call[a].at # "idle"

\* HixlServer::RegisterMem: a range registered already is left as it is, a
\* local-only one is only noted.
RegisterMem(m) ==
    LET eps == SelectSeq([i \in DOMAIN setup.server |-> <<"s", i>>],
                         LAMBDA e : ShouldRegisterEndpointForMem(e, m))
    IN  /\ ~Locked
        /\ CheckAddrOverlap(m) = "free"
        /\ IF m.local
           THEN addrs' = addrs \cup {m} /\ memmap' = memmap \cup {m} /\ UNCHANGED call
           ELSE /\ eps # <<>>
                /\ call' = [call EXCEPT !["user"] = [Idle EXCEPT !.at = "reg", !.m = m, !.todo = eps]]
                /\ UNCHANGED <<addrs, memmap>>
        /\ UNCHANGED <<setup, deviceVars, clientVars, regs, torn, leaked>>

Registered ==
    LET m == call["user"].m
    IN  /\ call["user"].at = "reg"
        /\ call["user"].todo = <<>>
        /\ regs' = [regs EXCEPT ![m] = call["user"].done]
        /\ addrs' = addrs \cup {m}
        /\ memmap' = memmap \cup {m}
        /\ call' = [call EXCEPT !["user"] = Idle]
        /\ UNCHANGED <<setup, deviceVars, clientVars, torn, leaked>>

NotRegistered ==
    /\ call["user"].at = "undo"
    /\ call["user"].done = <<>>
    /\ call' = [call EXCEPT !["user"] = Idle]
    /\ UNCHANGED <<setup, deviceVars, clientVars, serverVars, torn, leaked>>

-----------------------------------------------------------------------------
(* HixlEngine::DeregisterMem: the clients, then the server. *)

DeregisterMem(m) ==
    /\ ~Locked
    /\ m \in memmap
    /\ call' = [call EXCEPT !["user"] =
                    [Idle EXCEPT !.at = "clients", !.m = m, !.list = {c \in Clients : client[c] = "up"}]]
    /\ UNCHANGED <<setup, deviceVars, clientVars, serverVars, torn, leaked>>

\* ClientManager::DeregisterMem: the next of the clients there were. A client that
\* has gone down has an empty table.
DeregisterClient(c) ==
    LET m == call["user"].m
    IN  /\ call["user"].at = "clients"
        /\ c \in call["user"].list
        /\ client[c] \in {"up", "none"}
        /\ torn' = IF record[c][m] # {} THEN torn \cup {m} ELSE torn
        /\ call' = [call EXCEPT !["user"].at = "links", !["user"].c = c, !["user"].done = <<>>,
                                !["user"].todo = SelectSeq([l \in DOMAIN setup.links |-> <<c, l>>],
                                                           LAMBDA e : e \in record[c][m])]
        /\ UNCHANGED <<setup, deviceVars, clientVars, serverVars, leaked>>

\* Under its lock the handler takes the range from each link; the links that
\* fail stay in its table.
DeregisterLink ==
    LET m == call["user"].m
        e == Head(call["user"].todo)
        c == call["user"].c
    IN  /\ call["user"].at = "links"
        /\ call["user"].todo # <<>>
        /\ \E ok \in BOOLEAN :
              /\ DeregisterAt(e, m, ok)
              /\ store' = IF ok THEN UnrecordMemory(e, m) ELSE store
              /\ record' = IF ok THEN [record EXCEPT ![c][m] = @ \ {e}] ELSE record
              /\ call' = [call EXCEPT !["user"].todo = Tail(@),
                                      !["user"].done = IF ok THEN @ ELSE Append(@, e)]
        /\ UNCHANGED <<setup, serverVars, client, torn, leaked>>

\* A link that failed fails the call.
LinksDone ==
    LET k == call["user"]
    IN  /\ k.at = "links"
        /\ k.todo = <<>>
        /\ call' = [call EXCEPT !["user"] =
                       IF k.done = <<>> THEN [k EXCEPT !.at = "clients", !.list = @ \ {k.c}] ELSE Idle]
        /\ UNCHANGED <<setup, deviceVars, clientVars, serverVars, torn, leaked>>

ClientsDone ==
    LET m == call["user"].m
    IN  /\ call["user"].at = "clients"
        /\ call["user"].list = {}
        /\ call' = [call EXCEPT !["user"].at = "server", !["user"].todo = regs[m]]
        /\ UNCHANGED <<setup, deviceVars, clientVars, serverVars, torn, leaked>>

\* HixlCSServer::DeregisterMem: the first endpoint that fails ends it.
DeregisterServer ==
    LET m == call["user"].m
        e == Head(call["user"].todo)
    IN  /\ call["user"].at \in {"server", "last"}
        /\ call["user"].todo # <<>>
        /\ torn' = torn \cup {m}
        /\ \E ok \in BOOLEAN :
              /\ DeregisterAt(e, m, ok)
              /\ call' = [call EXCEPT !["user"] =
                             CASE ok -> [@ EXCEPT !.todo = Tail(@)]
                               [] ~ok /\ @.at = "server" -> Idle
                               [] ~ok /\ @.at = "last" -> [@ EXCEPT !.todo = <<>>]]
        /\ UNCHANGED <<setup, clientVars, serverVars, leaked>>

Deregistered ==
    LET m == call["user"].m
    IN  /\ call["user"].at = "server"
        /\ call["user"].todo = <<>>
        /\ regs' = [regs EXCEPT ![m] = <<>>]
        /\ addrs' = addrs \ {m}
        /\ memmap' = memmap \ {m}
        /\ torn' = torn \ {m}
        /\ call' = [call EXCEPT !["user"] = Idle]
        /\ UNCHANGED <<setup, deviceVars, clientVars, leaked>>

-----------------------------------------------------------------------------
(* HixlEngine::Connect, under the engine's shared lock: several at a time. *)

\* GetOrCreateClient: a new client with its links, for all ranges there are.
Connect(c) ==
    /\ call["user"].at = "idle"
    /\ client[c] = "none"
    /\ client' = [client EXCEPT ![c] = "making"]
    /\ call' = [call EXCEPT ![c] = [Idle EXCEPT !.at = "next", !.list = memmap]]
    /\ UNCHANGED <<setup, deviceVars, store, record, serverVars, torn, leaked>>

\* The handler's RegisterMem for the next range.
RegisterAtClient(c, m) ==
    /\ call[c].at = "next"
    /\ m \in call[c].list
    /\ call' = [call EXCEPT ![c].at = "reg", ![c].m = m, ![c].done = <<>>, ![c].list = @ \ {m},
                            ![c].todo = SelectSeq([l \in DOMAIN setup.links |-> <<c, l>>],
                                                  LAMBDA e : LinkTakes(e, m))]
    /\ UNCHANGED <<setup, deviceVars, clientVars, serverVars, torn, leaked>>

RegisteredAtClient(c) ==
    LET k == call[c]
    IN  /\ k.at = "reg"
        /\ k.todo = <<>>
        /\ record' = [record EXCEPT ![c][k.m] = ToSet(k.done)]
        /\ Goto(c, "next")
        /\ UNCHANGED <<setup, deviceVars, store, client, serverVars, torn, leaked>>

\* All ranges are there and the links connect, or something failed: the client
\* joins clients_, or fail_guard finalizes it.
Connected(c) ==
    LET k == call[c]
    IN  /\ \/ k.at = "next" /\ k.list = {}
           \/ k.at = "undo" /\ k.done = <<>>
        /\ \/ k.at = "next" /\ client' = [client EXCEPT ![c] = "up"]
           \/ client' = [client EXCEPT ![c] = "closing"]
        /\ call' = [call EXCEPT ![c] = IF client'[c] = "up" THEN Idle ELSE [Idle EXCEPT !.at = "fail"]]
        /\ UNCHANGED <<setup, deviceVars, store, record, serverVars, torn, leaked>>

-----------------------------------------------------------------------------
(* HixlClient::Finalize: of a client that was disconnected, that failed to  *)
(* connect, or with the engine.                                             *)

Disconnect(c) ==
    /\ client[c] = "up"
    /\ client' = [client EXCEPT ![c] = "closing"]
    /\ UNCHANGED <<setup, deviceVars, store, record, serverVars, call, torn, leaked>>

\* The lock of the client: a DeregisterMem is at work with its links.
AtLinks(c) == call["user"].at = "links" /\ call["user"].c = c

\* UnregisterAllMemLocked: one range at one link; a failure is ignored.
UnregisterOne(c, m, e) ==
    /\ client[c] = "closing"
    /\ ~AtLinks(c)
    /\ e \in record[c][m]
    /\ record' = [record EXCEPT ![c][m] = @ \ {e}]
    /\ \E ok \in BOOLEAN :
          /\ DeregisterAt(e, m, ok)
          /\ store' = IF ok THEN UnrecordMemory(e, m) ELSE store
    /\ UNCHANGED <<setup, client, serverVars, call, torn, leaked>>

\* DestroyHandlesLocked: HixlCSClient::Destroy finalizes the link's endpoint.
DestroyLink(c, m, e) ==
    /\ client[c] = "closing"
    /\ ~AtLinks(c)
    /\ \A n \in setup.mems : record[c][n] = {}
    /\ FinalizeEndpoint(e, m)
    /\ UNCHANGED <<setup, clientVars, serverVars, call, torn>>

ClientGone(c) ==
    /\ client[c] = "closing"
    /\ ~AtLinks(c)
    /\ \A m \in setup.mems : record[c][m] = {}
    /\ \A e \in LinksOf(c) : ep[e] = {}
    /\ client' = [client EXCEPT ![c] = "none"]
    /\ store' = [e \in DOMAIN store |-> IF e \in LinksOf(c) THEN {} ELSE store[e]]
    /\ call' = IF call[c].at = "fail" THEN [call EXCEPT ![c] = Idle] ELSE call
    /\ UNCHANGED <<setup, deviceVars, record, serverVars, torn, leaked>>

\* HixlEngine::Finalize: all clients ...
Finalize ==
    /\ ~Locked
    /\ \A c \in Clients : client[c] # "making"
    /\ client' = [c \in Clients |-> IF client[c] = "up" THEN "closing" ELSE client[c]]
    /\ call' = [call EXCEPT !["user"] = [Idle EXCEPT !.at = "fin", !.list = {c \in Clients : client[c] = "up"}]]
    /\ UNCHANGED <<setup, deviceVars, store, record, serverVars, torn, leaked>>

\* ... then HixlServer::Finalize, which tries each range and ignores failures ...
FinalizeServer ==
    /\ call["user"].at = "fin"
    /\ \A c \in call["user"].list : client[c] = "none"
    /\ call' = [call EXCEPT !["user"] = [Idle EXCEPT !.at = "ranges", !.list = {m \in addrs : ~m.local}]]
    /\ UNCHANGED <<setup, deviceVars, clientVars, serverVars, torn, leaked>>

FinalizeRange(m) ==
    /\ call["user"].at = "ranges"
    /\ m \in call["user"].list
    /\ call' = [call EXCEPT !["user"].at = "last", !["user"].m = m, !["user"].todo = regs[m],
                            !["user"].list = @ \ {m}]
    /\ UNCHANGED <<setup, deviceVars, clientVars, serverVars, torn, leaked>>

RangeDone ==
    /\ call["user"].at = "last"
    /\ call["user"].todo = <<>>
    /\ Goto("user", "ranges")
    /\ UNCHANGED <<setup, deviceVars, clientVars, serverVars, torn, leaked>>

RangesDone ==
    /\ call["user"].at = "ranges"
    /\ call["user"].list = {}
    /\ call' = [call EXCEPT !["user"] = [Idle EXCEPT !.at = "eps"]]
    /\ regs' = [m \in setup.mems |-> <<>>]
    /\ addrs' = {}
    /\ memmap' = {}
    /\ UNCHANGED <<setup, deviceVars, clientVars, torn, leaked>>

\* ... and the endpoints, which unregister what they still have.
FinalizeEndpoints(e, m) ==
    /\ call["user"].at = "eps"
    /\ FinalizeEndpoint(e, m)
    /\ UNCHANGED <<setup, clientVars, serverVars, call, torn>>

Finalized ==
    /\ call["user"].at = "eps"
    /\ \A e \in ServerEps : ep[e] = {}
    /\ Goto("user", "end")
    /\ torn' = {}
    /\ UNCHANGED <<setup, deviceVars, clientVars, serverVars, leaked>>

-----------------------------------------------------------------------------

Init ==
    /\ setup \in Setups
    /\ ep = [e \in Eps |-> {}]
    /\ refs = [p \in {m.lo : m \in setup.mems} |-> 0]
    /\ pinned = [p \in {m.lo : m \in setup.mems} |-> 0]
    /\ store = [e \in Eps \ ServerEps |-> {}]
    /\ regs = [m \in setup.mems |-> <<>>]
    /\ addrs = {}
    /\ memmap = {}
    /\ record = [c \in Clients |-> [m \in setup.mems |-> {}]]
    /\ client = [c \in Clients |-> "none"]
    /\ call = [a \in Clients \cup {"user"} |-> Idle]
    /\ refusals = setup.refusals
    /\ torn = {}
    /\ leaked = {}
    /\ again = {}
    /\ refused = {}

UserStep ==
    \/ \E m \in setup.mems : RegisterMem(m) \/ DeregisterMem(m) \/ FinalizeRange(m)
    \/ Registered \/ NotRegistered
    \/ \E c \in Clients : DeregisterClient(c)
    \/ DeregisterLink \/ LinksDone
    \/ ClientsDone \/ DeregisterServer \/ Deregistered
    \/ Finalize \/ FinalizeServer \/ RangeDone \/ RangesDone \/ Finalized
    \/ \E e \in ServerEps, m \in setup.mems : FinalizeEndpoints(e, m)

ConnectStep(c) ==
    \/ Connect(c)
    \/ \E m \in setup.mems : RegisterAtClient(c, m)
    \/ RegisteredAtClient(c) \/ Connected(c)

CloseStep(c) ==
    \/ Disconnect(c)
    \/ \E m \in setup.mems, e \in LinksOf(c) : UnregisterOne(c, m, e) \/ DestroyLink(c, m, e)
    \/ ClientGone(c)

Finished == call["user"].at = "end" /\ UNCHANGED vars

Next ==
    \/ UserStep
    \/ \E c \in Clients : ConnectStep(c) \/ CloseStep(c)
    \/ \E a \in DOMAIN call : RegisterMap(a) \/ MemReg(a) \/ Rollback(a)
    \/ Finished

Spec == Init /\ [][Next]_vars

-----------------------------------------------------------------------------

\* The count of HostRegisterProxy is the number of registrations of the address
\* at endpoints of the server and of all clients, and the driver keeps the pages
\* pinned exactly as long (registrations, rollbacks and clients going down use
\* the proxy at the same time). It is higher only at an address an endpoint was
\* given a second time after a failed rollback; it is lower, and the pages are
\* unpinned under a user, only after the driver refused to unpin them once.
RefCountExact ==
    \A p \in DOMAIN refs :
        LET n == Cardinality(Users(p))
        IN  /\ p \in again \/ refs[p] <= n
            /\ p \in refused \/ refs[p] >= n
            /\ p \in refused \/ (pinned[p] # 0) = (refs[p] > 0)
            /\ \A u \in Users(p) : Len(u) = 2 => p \in refused \/ pinned[p] = u[2].hi

\* Between calls, what the tables say is what the endpoints have: a range the
\* engine lists is at every endpoint of the server that should have it, unless a
\* DeregisterMem of it failed half way; one it does not list is at none and at no
\* client in use (a failed rollback apart); a client's handler, its stores and its
\* endpoints agree. After Finalize nothing is left but at a client that a
\* Disconnect is taking down.
TablesAgree ==
    /\ \A c \in Clients : client[c] = "up" /\ ~AtLinks(c) =>
        \A e \in LinksOf(c) : store[e] = ep[e] /\ ep[e] = {m \in setup.mems : e \in record[c][m]}
    /\ call["user"].at = "idle" =>
        /\ addrs = memmap
        /\ \A m \in memmap : m \in torn \/ m.local \/
            \A e \in ServerEps : (m \in ep[e]) = ShouldRegisterEndpointForMem(e, m)
        /\ \A m \in setup.mems \ memmap, e \in Eps :
            m \in ep[e] => <<e, m>> \in leaked \/ (e \notin ServerEps /\ client[e[1]] # "up")
        /\ \A c \in Clients : client[c] = "up" =>
            \A m \in memmap : m \in torn \/ record[c][m] \in {{}, {e \in LinksOf(c) : LinkTakes(e, m)}}
    /\ call["user"].at = "end" =>
        \A e \in Eps : ep[e] # {} => e \notin ServerEps /\ client[e[1]] = "closing"

RegistrationsExact == RefCountExact /\ TablesAgree

=============================================================================
