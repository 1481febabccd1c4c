-------------------------- MODULE TransferRequests --------------------------
(***************************************************************************)
(* The asynchronous requests of one link, from the completion handles of   *)
(* the CS clients up to the user: client handlers, HixlClient, the request *)
(* index of ClientManager and the two forms of GetTransferStatus.          *)
(*                                                                         *)
(* A request is known to the user by an address: that of the completion    *)
(* handle of its first part. The CS client deletes a handle when a query   *)
(* finds it finished, and the address may then be handed out again. Every  *)
(* layer above keeps tables keyed by it.                                   *)
(*                                                                         *)
(* A setup gives, for each request, the link types of its descriptors and  *)
(* the way it is issued:                                                   *)
(*   handler  "direct", "multi", "ub" or "ubmulti"                         *)
(*   workers, split   channels of a type, descriptors a channel is worth   *)
(*   lazy     engine in auto-connect mode: links are made at the first     *)
(*            transfer, and an error takes the client down                 *)
(*   reuse    whether the allocator gives an address out again             *)
(*   threads  the threads that call the engine                             *)
(*   shares   what each channel is given, see Planned                      *)
(* HixlClient holds its mutex over a whole call, so the part of a call     *)
(* below it is one step. Left out: timing of synchronous calls (they may   *)
(* time out at any type), logging and profiling.                           *)
(***************************************************************************)
EXTENDS Integers, Sequences, FiniteSets, SequencesExt, ChannelShares

CONSTANTS Threads, Requests, Addrs, Setups,
    NoKey       \* no address

VARIABLES
    setup,
    lib,        \* CS clients and handler: [heap, subs, rec, cs, ready, touched]
    used,       \* addresses handed out so far
    moved,      \* descriptors <<request, position>> whose data has moved
    reqMap,     \* HixlClient::req_map_
    index,      \* ClientManager::req_to_client_: address -> user_data
    order,      \* ClientManager::ordered_reqs_
    client,     \* "open", "closing" (out of clients_) or "gone" (finalized)
    call,       \* the call each thread is in
    key,        \* the address TransferAsync returned for a request
    told        \* the ends the user was told of a request

vars == <<setup, lib, used, moved, reqMap, index, order, client, call, key, told>>

\* A call in progress: its step, the request and the address it works on, the
\* rest of the copied list (all: a query of all requests), whether the link is
\* given up for that query, the answer of the client, and the step after a
\* disconnect.
Idle == [op |-> "idle", r |-> 0, k |-> NoKey, list |-> <<>>, all |-> FALSE, cut |-> FALSE,
         end |-> "none", then |-> "idle"]

Put(f, k, v) == [x \in DOMAIN f \cup {k} |-> IF x = k THEN v ELSE f[x]]
Drop(f, k) == [x \in DOMAIN f \ {k} |-> f[x]]

DescsOf(r) == DOMAIN setup.descs[r]
TypesOf(r) == SetToSortSeq(Range(setup.descs[r]), LAMBDA a, b : a < b)
AllTypes == UNION {Range(setup.descs[r]) : r \in Requests}
ByUb == setup.handler \in {"ub", "ubmulti"}
ByDispatcher == setup.handler \in {"multi", "ubmulti"}

SharesOf(r, ty) == setup.shares[r][ty]

\* One task for each type and channel a request needs.
Tasks(r) ==
    UNION {{<<ty, w>> : w \in DOMAIN SharesOf(r, ty)} : ty \in Range(TypesOf(r))}

-----------------------------------------------------------------------------
(* HixlCSClientQueryCompleteStatus: a finished handle is deleted at once.  *)

Answer(l, st) == [lib |-> l, st |-> st]

Free(l, a) == [l EXCEPT !.heap[a] = [@ EXCEPT !.st = "free"]]

QueryCs(l, a) ==
    LET s == l.heap[a].st
    IN  CASE s = "run"  -> Answer(l, "WAITING")
          [] s = "done" -> Answer(Free(l, a), "COMPLETED")
          [] s = "bad"  -> Answer(Free(l, a), "FAILED")
          [] s = "err"  -> Answer(Free(l, a), "ERROR")
          [] s = "free" -> Answer([l EXCEPT !.touched = TRUE], "ERROR")

\* The answer q of a channel goes into the record.
Noted(acc, e, q) ==
    [lib |-> q.lib,
     ws |-> Append(acc.ws, [e EXCEPT !.st = CASE q.st = "WAITING" -> "pending"
                                              [] q.st = "COMPLETED" -> "completed"
                                              [] OTHER -> "failed"])]

\* Mutant: a channel that has finished is asked again.
QueryEveryWorker(l, ws) ==
    FoldLeft(LAMBDA acc, e : Noted(acc, e, QueryCs(acc.lib, e.h)), [lib |-> l, ws |-> <<>>], ws)

\* Channels whose end is known are not asked again.
QueryWorkersStatus(l, ws) ==
    FoldLeft(LAMBDA acc, e : IF e.st # "pending" THEN [acc EXCEPT !.ws = Append(@, e)]
                             ELSE Noted(acc, e, QueryCs(acc.lib, e.h)),
             [lib |-> l, ws |-> <<>>], ws)

\* An error of one channel is a failure of all.
Summed(ty, k, c) ==
    LET sts == {c.ws[i].st : i \in DOMAIN c.ws}
        gone == [c.lib EXCEPT !.rec[ty] = Drop(@, k)]
    IN  CASE "failed" \in sts -> Answer(gone, "FAILED")
          [] "failed" \notin sts /\ "pending" \in sts -> Answer([c.lib EXCEPT !.rec[ty][k] = c.ws], "WAITING")
          [] OTHER -> Answer(gone, "COMPLETED")

\* MultiChannelDispatcher::CheckStatus
CheckStatus(l, ty, k) ==
    IF k \notin DOMAIN l.rec[ty] THEN Answer(l, "ERROR")
    ELSE Summed(ty, k, QueryWorkersStatus(l, l.rec[ty][k]))

CheckSubReqStatus(l, sub) ==
    IF ByDispatcher THEN CheckStatus(l, sub.type, sub.req) ELSE QueryCs(l, sub.req)

\* The answer q of one link type.
NotedType(acc, s, q) ==
    [lib |-> q.lib,
     subs |-> Append(acc.subs, [s EXCEPT !.st = IF q.st = "COMPLETED" THEN "completed" ELSE @]),
     st |-> IF q.st = "COMPLETED" THEN acc.st ELSE q.st]

UbSummed(k, c) ==
    Answer([c.lib EXCEPT !.subs = IF c.st = "WAITING" THEN [@ EXCEPT ![k] = c.subs] ELSE Drop(@, k)], c.st)

\* UbClientHandler::GetTransferStatus: in order, up to the first that failed.
UbStatus(l, k) ==
    IF k \notin DOMAIN l.subs THEN Answer(l, "ERROR")
    ELSE UbSummed(k, FoldLeft(LAMBDA acc, s :
                        IF acc.st \in {"FAILED", "ERROR"} \/ s.st = "completed"
                        THEN [acc EXCEPT !.subs = Append(@, s)]
                        ELSE NotedType(acc, s, CheckSubReqStatus(acc.lib, s)),
                     [lib |-> l, subs |-> <<>>, st |-> "COMPLETED"], l.subs[k]))

DirectSummed(ty, k, q) ==
    IF q.st = "WAITING" THEN q ELSE Answer([q.lib EXCEPT !.rec[ty] = Drop(@, k)], q.st)

\* DirectClientHandler::GetTransferStatus
DirectStatus(l, ty, k) ==
    IF k \notin DOMAIN l.rec[ty] THEN Answer(l, "ERROR")
    ELSE DirectSummed(ty, k, QueryCs(l, l.rec[ty][k][1].h))

HandlerStatus(l, k) ==
    CASE ByUb -> UbStatus(l, k)
      [] setup.handler = "multi" -> CheckStatus(l, CHOOSE ty \in AllTypes : TRUE, k)
      [] setup.handler = "direct" -> DirectStatus(l, CHOOSE ty \in AllTypes : TRUE, k)

-----------------------------------------------------------------------------
(* Submission. *)

\* The types up to the first one with a failing task: those that are tried.
Tried(r, bad) ==
    {ty \in Range(TypesOf(r)) : \A t \in bad : ty <= t[1]}

\* The addresses the allocator may give to the tasks that are accepted: any that
\* are free, or, if it does not give one out again, some that are new.
Placements(tasks) ==
    LET free == {a \in Addrs : lib.heap[a].st = "free"}
        into(S) == {f \in [tasks -> S] : \A s, t \in tasks : s # t => f[s] # f[t]}
    IN  IF setup.reuse THEN into(free) ELSE {CHOOSE f \in into(Addrs \ used) : TRUE}

WorkersOf(r, ty, place) ==
    [w \in DOMAIN SharesOf(r, ty) |-> [h |-> place[<<ty, w>>], st |-> "pending"]]

\* Handles for the tasks in place.
Launch(l, r, place) ==
    [l EXCEPT !.heap = [a \in Addrs |->
        IF \E t \in DOMAIN place : place[t] = a
        THEN LET t == CHOOSE u \in DOMAIN place : place[u] = a
             IN  [st |-> "run", r |-> r, descs |-> Range(SharesOf(r, t[1])[t[2]])]
        ELSE l.heap[a]]]

\* SubmitDescsForType, CollectAsyncWorkers: the record of one type, unless one
\* of its tasks failed.
RecordType(l, r, ty, place) ==
    IF setup.handler = "ub" \/ \E w \in DOMAIN SharesOf(r, ty) : <<ty, w>> \notin DOMAIN place
    THEN l
    ELSE [l EXCEPT !.rec[ty] = Put(@, place[<<ty, 1>>], WorkersOf(r, ty, place))]

Record(l, r, types, place) ==
    FoldSet(LAMBDA ty, x : RecordType(x, r, ty, place), l, types)

\* EnsureLinksConnected: the links not known to be connected are connected at
\* once; the loop over the answers stops at the first failure. A CS client that
\* is connected already answers with an error.
Connecting(r) == Range(TypesOf(r)) \ lib.ready
ConnectFails(r, down) == Connecting(r) \cap (down \cup lib.cs)
ConnectHandles(r, down) ==
    LET fails == ConnectFails(r, down)
    IN  [lib EXCEPT !.cs = @ \cup (Connecting(r) \ down),
                    !.ready = @ \cup {ty \in Connecting(r) : \A f \in fails : ty < f}]

CanCall(t) == t \in setup.threads /\ call[t].op = "idle"
Start(t) == client = "open" /\ CanCall(t)

\* A request is issued once.
New(r) == key[r] = NoKey /\ told[r] = {} /\ \A t \in Threads : call[t].r # r

\* TransferAsync down to the handler: connect what is needed, submit type by
\* type until one fails, record the whole.
TransferAsync(t, r) ==
    /\ Start(t)
    /\ setup.ops[r] = "async" /\ New(r)
    /\ \E down \in SUBSET Connecting(r) :
        LET l == ConnectHandles(r, down)
        IN  IF ConnectFails(r, down) # {}
            THEN /\ lib' = l
                 /\ call' = [call EXCEPT ![t] = [Idle EXCEPT !.op = "failed", !.r = r]]
                 /\ UNCHANGED <<used, reqMap, key>>
            ELSE \E bad \in SUBSET Tasks(r) :
                 LET types == Tried(r, bad)
                     got == {x \in Tasks(r) : x[1] \in types} \ bad
                 IN  \E place \in Placements(got) :
                     LET m == Record(Launch(l, r, place), r, types, place)
                         k == place[<<TypesOf(r)[1], 1>>]
                         subs == [i \in DOMAIN TypesOf(r) |->
                                    [type |-> TypesOf(r)[i], req |-> place[<<TypesOf(r)[i], 1>>],
                                     st |-> "none"]]
                     IN  /\ used' = used \cup {place[x] : x \in got}
                         /\ IF bad # {}
                            THEN /\ lib' = m
                                 /\ call' = [call EXCEPT ![t] = [Idle EXCEPT !.op = "failed", !.r = r]]
                                 /\ UNCHANGED <<reqMap, key>>
                            ELSE /\ lib' = IF ByUb THEN [m EXCEPT !.subs = Put(@, k, subs)] ELSE m
                                 /\ reqMap' = reqMap \cup {k}
                                 /\ call' = [call EXCEPT ![t] = [Idle EXCEPT !.op = "register", !.r = r, !.k = k]]
                                 /\ UNCHANGED key
    /\ UNCHANGED <<setup, moved, index, order, client, told>>

EraseAt(k) ==
    /\ index' = Drop(index, k)
    /\ order' = Remove(order, k)

\* ClientManager::RegisterTransferReq, and the return of TransferAsync.
RegisterTransferReq(t) ==
    /\ call[t].op = "register"
    /\ index' = Put(index, call[t].k, call[t].r)
    /\ order' = Append(Remove(order, call[t].k), call[t].k)
    /\ key' = [key EXCEPT ![call[t].r] = call[t].k]
    /\ call' = [call EXCEPT ![t] = Idle]
    /\ UNCHANGED <<setup, lib, used, moved, reqMap, client, told>>


\* AutoDisconnect: only in auto-connect mode, and only if the client is there.
AutoDisconnect(then) ==
    IF setup.lazy /\ client = "open" THEN "disconnect" ELSE then

\* A failed submission or synchronous transfer: the user is told.
TransferFailed(t) ==
    /\ call[t].op = "failed"
    /\ told' = [told EXCEPT ![call[t].r] = @ \cup {"ERROR"}]
    /\ call' = [call EXCEPT ![t] = [Idle EXCEPT !.op = AutoDisconnect("idle")]]
    /\ UNCHANGED <<setup, lib, used, moved, reqMap, index, order, client, key>>

\* TransferSync: type by type, every channel of a type is waited for.
TransferSync(t, r) ==
    /\ Start(t)
    /\ setup.ops[r] = "sync" /\ New(r)
    /\ \E down \in SUBSET Connecting(r) :
        /\ lib' = ConnectHandles(r, down)
        /\ IF ConnectFails(r, down) # {}
           THEN /\ UNCHANGED <<moved, told>>
                /\ call' = [call EXCEPT ![t] = [Idle EXCEPT !.op = "failed", !.r = r]]
           ELSE \E bad \in SUBSET Tasks(r) :
                /\ moved' = moved \cup
                    UNION {{<<r, i>> : i \in Range(SharesOf(r, x[1])[x[2]])} :
                        x \in {y \in Tasks(r) : y[1] \in Tried(r, bad)} \ bad}
                /\ told' = IF bad = {} THEN [told EXCEPT ![r] = @ \cup {"COMPLETED"}] ELSE told
                /\ call' = IF bad = {} THEN call
                           ELSE [call EXCEPT ![t] = [Idle EXCEPT !.op = "failed", !.r = r]]
    /\ UNCHANGED <<setup, used, reqMap, index, order, client, key>>

\* The device ends a task: its data has moved, or it has not.
CsEnds(a) ==
    /\ lib.heap[a].st = "run"
    /\ \E st \in {"done", "bad", "err"} :
        /\ lib' = [lib EXCEPT !.heap[a].st = st]
        /\ moved' = IF st = "done"
                    THEN moved \cup {<<lib.heap[a].r, i>> : i \in lib.heap[a].descs}
                    ELSE moved
    /\ UNCHANGED <<setup, used, reqMap, index, order, client, call, key, told>>

-----------------------------------------------------------------------------
(* Queries. *)

Ended(r) == told[r] # {}

\* GetTransferStatus of one request, up to the lookup of its client.
GetTransferStatus(t, r) ==
    /\ CanCall(t)
    /\ key[r] # NoKey /\ ~Ended(r)
    /\ IF key[r] \in DOMAIN index
       THEN /\ call' = [call EXCEPT ![t] = [Idle EXCEPT !.op = "query", !.r = r, !.k = key[r]]]
            /\ UNCHANGED told
       ELSE /\ told' = [told EXCEPT ![r] = @ \cup {"ERROR"}]
            /\ UNCHANGED call
    /\ UNCHANGED <<setup, lib, used, moved, reqMap, index, order, client, key>>

\* GetTransferStatus of all requests: the index is copied in order.
GetAllTransferStatus(t) ==
    /\ CanCall(t)
    /\ order # <<>>
    /\ call' = [call EXCEPT ![t] =
            [Idle EXCEPT !.op = "next", !.all = TRUE,
                         !.list = [i \in DOMAIN order |-> [k |-> order[i], r |-> index[order[i]]]]]]
    /\ UNCHANGED <<setup, lib, used, moved, reqMap, index, order, client, key, told>>

\* The next one of the copy. Once a query has failed, the rest of the link is
\* reported as failed without being asked.
NextOfAll(t) ==
    /\ call[t].op = "next"
    /\ LET c == call[t]
       IN  call' = [call EXCEPT ![t] =
            IF c.list = <<>> THEN Idle
            ELSE [c EXCEPT !.op = IF c.cut THEN "erase" ELSE "query",
                           !.end = IF c.cut THEN "FAILED" ELSE "none",
                           !.r = Head(c.list).r, !.k = Head(c.list).k, !.list = Tail(c.list)]]
    /\ UNCHANGED <<setup, lib, used, moved, reqMap, index, order, client, key, told>>

\* HixlClient::GetTransferStatus under the client's mutex. A query of all
\* requests takes an error for a failure and gives the link up.
QueryClient(t) ==
    /\ call[t].op = "query"
    /\ \E q \in {IF call[t].k \in reqMap THEN HandlerStatus(lib, call[t].k) ELSE Answer(lib, "ERROR")} :
        LET c == call[t]
            lost == c.all /\ q.st = "ERROR"
        IN  /\ lib' = q.lib
            /\ reqMap' = IF q.st = "WAITING" THEN reqMap ELSE reqMap \ {c.k}
            /\ call' = [call EXCEPT ![t] =
                 [c EXCEPT !.op = IF lost THEN AutoDisconnect("erase") ELSE "erase",
                           !.then = "erase",
                           !.cut = lost,
                           !.end = IF lost THEN "FAILED" ELSE q.st]]
    /\ UNCHANGED <<setup, used, moved, index, order, client, key, told>>

\* The engine forgets a request that has ended and reports it.
EraseTransferReq(t) ==
    /\ call[t].op = "erase"
    /\ LET c == call[t]
       IN  /\ IF c.end = "WAITING" THEN UNCHANGED <<index, order, told>>
              ELSE EraseAt(c.k) /\ told' = [told EXCEPT ![c.r] = @ \cup {c.end}]
           /\ call' = [call EXCEPT ![t] =
                IF c.all THEN [c EXCEPT !.op = "next"]
                ELSE [Idle EXCEPT !.op = IF c.end = "ERROR" THEN AutoDisconnect("idle") ELSE "idle"]]
    /\ UNCHANGED <<setup, lib, used, moved, reqMap, client, key>>

-----------------------------------------------------------------------------
(* DestroyClient: out of the index first, then the client is finalized.    *)

Disconnect(t) ==
    /\ Start(t)
    /\ call' = [call EXCEPT ![t] = [Idle EXCEPT !.op = "disconnect"]]
    /\ UNCHANGED <<setup, lib, used, moved, reqMap, index, order, client, key, told>>

EraseReqIndexByClient(t) ==
    /\ call[t].op = "disconnect"
    /\ IF client = "open"
       THEN /\ client' = "closing"
            /\ index' = <<>> /\ order' = <<>>
            /\ call' = [call EXCEPT ![t].op = "finalize"]
       ELSE /\ call' = [call EXCEPT ![t].op = call[t].then]
            /\ UNCHANGED <<client, index, order>>
    /\ UNCHANGED <<setup, lib, used, moved, reqMap, key, told>>

\* HixlClient::Finalize: every table is cleared, every handle is deleted.
FinalizeClient(t) ==
    /\ call[t].op = "finalize"
    /\ client' = "gone"
    /\ reqMap' = {}
    /\ lib' = [lib EXCEPT !.heap = [a \in Addrs |-> [lib.heap[a] EXCEPT !.st = "free"]],
                          !.subs = <<>>,
                          !.rec = [ty \in AllTypes |-> <<>>],
                          !.cs = {}, !.ready = {}]
    /\ call' = [call EXCEPT ![t].op = call[t].then]
    /\ UNCHANGED <<setup, used, moved, index, order, key, told>>

-----------------------------------------------------------------------------

Init ==
    /\ setup \in Setups
    /\ lib = [heap |-> [a \in Addrs |-> [st |-> "free", r |-> 0, descs |-> {}]],
              subs |-> <<>>,
              rec |-> [ty \in AllTypes |-> <<>>],
              cs |-> IF setup.lazy /\ ByUb THEN {} ELSE AllTypes,
              ready |-> IF setup.lazy /\ ByUb THEN {} ELSE AllTypes,
              touched |-> FALSE]
    /\ used = {} /\ moved = {} /\ reqMap = {}
    /\ index = <<>> /\ order = <<>>
    /\ client = "open"
    /\ call = [t \in Threads |-> Idle]
    /\ key = [r \in Requests |-> NoKey]
    /\ told = [r \in Requests |-> {}]

Quiet == \A t \in Threads : call[t].op = "idle"

\* Nothing more to do: every request is issued and reported, or the link gone.
Finished ==
    /\ Quiet
    /\ \A r \in Requests : Ended(r) \/ (client = "gone" /\ key[r] = NoKey)
    /\ UNCHANGED vars

Next ==
    \/ \E t \in Threads, r \in Requests :
        TransferAsync(t, r) \/ TransferSync(t, r) \/ GetTransferStatus(t, r)
    \/ \E t \in Threads :
        \/ RegisterTransferReq(t) \/ TransferFailed(t)
        \/ GetAllTransferStatus(t) \/ NextOfAll(t) \/ QueryClient(t) \/ EraseTransferReq(t)
        \/ Disconnect(t) \/ EraseReqIndexByClient(t) \/ FinalizeClient(t)
    \/ \E a \in Addrs : CsEnds(a)
    \/ Finished

Spec == Init /\ [][Next]_vars

-----------------------------------------------------------------------------

AllMoved(r) == \A i \in DescsOf(r) : <<r, i>> \in moved

\* A request reported as completed has moved all its data: the addresses the
\* layers know requests by never mix two of them up.
CompletedIsOwn == \A r \in Requests : "COMPLETED" \in told[r] => AllMoved(r)

Live(a) == lib.heap[a].st # "free"

\* The handles of a request that some handler table leads to from key k.
Reached(k) ==
    LET workers(ty, j) == {lib.rec[ty][j][w].h : w \in {v \in DOMAIN lib.rec[ty][j] :
                                                     lib.rec[ty][j][v].st = "pending"}}
    IN  IF ByUb
        THEN IF k \notin DOMAIN lib.subs THEN {}
             ELSE UNION {IF ByDispatcher THEN workers(s.type, s.req) ELSE {s.req} :
                            s \in {x \in Range(lib.subs[k]) : x.st = "none"}}
        ELSE UNION {workers(ty, k) : ty \in {x \in AllTypes : k \in DOMAIN lib.rec[x]}}

\* No query touches a deleted handle. No descriptor is given to two channels
\* or moved twice. A request that has been returned and not reported is found
\* in every table, and the handles below it are its own, and all there are.
TablesAgree ==
    /\ ~lib.touched
    /\ \A a, b \in Addrs :
        (a # b /\ Live(a) /\ Live(b) /\ lib.heap[a].r = lib.heap[b].r)
            => lib.heap[a].descs \cap lib.heap[b].descs = {}
    /\ \A a \in Addrs : lib.heap[a].st = "run"
            => \A i \in lib.heap[a].descs : <<lib.heap[a].r, i>> \notin moved
    /\ (Quiet /\ client = "open") =>
        \A r \in Requests : (key[r] # NoKey /\ ~Ended(r)) =>
            /\ key[r] \in DOMAIN index /\ index[key[r]] = r
            /\ key[r] \in reqMap
            /\ Reached(key[r]) = {a \in Addrs : Live(a) /\ lib.heap[a].r = r}
            /\ {<<r, i>> : i \in DescsOf(r)} =
                 {x \in moved : x[1] = r} \cup
                 UNION {{<<r, i>> : i \in lib.heap[a].descs} : a \in Reached(key[r])}
    /\ Range(order) = DOMAIN index /\ IsInjective(order)

\* An asynchronous request is tracked through all layers until its end is
\* reported, and reported as completed only when all of its data has moved.
RequestsExact == CompletedIsOwn /\ TablesAgree
=============================================================================
