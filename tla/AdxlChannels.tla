---------------------------- MODULE AdxlChannels ----------------------------
(***************************************************************************)
(* Channels of ADXL engines with a channel pool: connect and disconnect    *)
(* (src/src/llm_datadist/adxl/channel_msg_handler.cc), the channel table,  *)
(* its heartbeats and receiver (channel_manager.cc), eviction on both      *)
(* sides, and the synchronous calls around them (adxl_inner_engine.cc).    *)
(*                                                                         *)
(* The n-th attempt to connect is a TCP connection n with two ends; its    *)
(* caller makes the channel object <<n, "client">>, the thread that        *)
(* serves it the object <<n, "server">>.  A channel is found by its key    *)
(* <<engine, type, peer>>, so a key may lead to a later object.  What      *)
(* happens to an object that left the table is not seen by anyone and not  *)
(* kept.  A wait that has a timeout may end at any time.  The status a     *)
(* peer sends for kDisconnect and the answer to kRequestDisconnect only    *)
(* end such a wait.                                                        *)
(***************************************************************************)
EXTENDS Integers, Sequences, FiniteSets, AdxlEviction

CONSTANTS
    Engines,
    Calls,         \* calls of the API; each is made once
    NoCall, NoObject,
    MaxAttempts,   \* the largest bound on connections of a setup
    Setups         \* links: connected pairs at the start; from, to, kind: the
                   \* calls; auto: auto_connect_; attempts: bound on the
                   \* connections of this setup

Attempts == 1..MaxAttempts
Sides == {"client", "server"}
Ends == Attempts \X Sides
Keys == {k \in Engines \X Sides \X Engines : k[1] # k[3]}
Actors == Calls \cup Engines   \* an engine stands for its eviction thread

VARIABLES
    setup,
    chan,     \* channels_: key -> object
    obj,      \* the objects
    link,     \* the engines of the connections made so far
    ends,     \* the open ends of the connections
    spc,      \* where the thread that serves a connection is
    sent,     \* the last message it sent on the connection
    need,     \* need_expire of the two sides of an attempt
    asks,     \* connection -> kRequestDisconnect messages under way
    disc,     \* server's key -> kDisconnect messages under way
    pc,       \* where a call or an eviction thread is
    att,      \* the attempt a call works on
    held,     \* the channel a call, an eviction or a server thread fetched
    lock,     \* connection_mutex_ of an engine
    queue,    \* evict_queue_ of all engines: key -> entries
    batch,    \* pending_items of the eviction threads, likewise
    item,     \* the key an eviction thread works on
    doomed    \* keys a heartbeat thread is about to destroy

tableVars == <<chan, obj, ends>>
serverVars == <<link, spc, sent, need>>
callVars == <<pc, att, held, lock>>
evictVars == <<queue, batch, item, doomed>>
vars == <<setup, tableVars, serverVars, asks, disc, callVars, evictVars>>

(***************************************************************************)
(* count: transfer_count_; flag: disconnect_flag_; moved: has_transferred_;*)
(* beat: with_heartbeat_; sock: connection_; heard: fd_to_channel_map_     *)
(* has the channel.                                                        *)
(***************************************************************************)
Fresh ==
    [count |-> 0, flag |-> FALSE, moved |-> FALSE, beat |-> FALSE, sock |-> 0, heard |-> FALSE]
Linked(n) == [Fresh EXCEPT !.sock = n, !.beat = TRUE, !.heard = TRUE]

Mine(k) == k[1]
Type(k) == k[2]
OfType(e, s) == {k \in Keys : Mine(k) = e /\ Type(k) = s /\ chan[k] # NoObject}
Channels(e) == OfType(e, "client") \cup OfType(e, "server")
GetTotalChannelCount(e) == Cardinality(Channels(e))
Live(o) == \E k \in Keys : chan[k] = o

KeyOf(t) == <<setup.from[t], "client", setup.to[t]>>
ServerKey(n) == <<link[n][2], "server", link[n][1]>>
PeerKey(k) == <<k[3], IF Type(k) = "client" THEN "server" ELSE "client", k[1]>>
Target(x) == IF x \in Calls THEN KeyOf(x) ELSE item[x]

\* The attempt of the setup that made the channel, 0 if there is none.
FirstLink(k) ==
    LET made == {n \in DOMAIN setup.links :
                   \/ k = <<setup.links[n][1], "client", setup.links[n][2]>>
                   \/ k = <<setup.links[n][2], "server", setup.links[n][1]>>} IN
    IF made = {} THEN 0 ELSE CHOOSE n \in made : TRUE

(***************************************************************************)
(* At the start the links of the setup are up on both sides.               *)
(***************************************************************************)
Init ==
    /\ setup \in Setups
    /\ link = setup.links
    /\ chan = [k \in Keys |-> IF FirstLink(k) = 0 THEN NoObject ELSE <<FirstLink(k), Type(k)>>]
    /\ obj = [o \in Ends |-> IF Live(o) THEN Linked(o[1]) ELSE Fresh]
    /\ ends = (DOMAIN link) \X Sides
    /\ spc = [n \in Attempts |-> "end"]
    /\ sent = [n \in Attempts |-> "none"]
    /\ need = [o \in Ends |-> 0]
    /\ asks = [n \in Attempts |-> 0]
    /\ disc = [k \in Keys |-> 0]
    /\ pc = [x \in Actors |-> IF x \in Engines THEN "wait" ELSE setup.kind[x]]
    /\ att = [t \in Calls |-> 0]
    /\ held = [x \in Actors \cup Attempts |-> NoObject]
    /\ lock = [e \in Engines |-> NoCall]
    /\ queue = [k \in Keys |-> 0]
    /\ batch = [k \in Keys |-> 0]
    /\ item = [e \in Engines |-> <<>>]
    /\ doomed = {}

-----------------------------------------------------------------------------
(* The table of channels.                                                  *)

\* DestroyChannel: by key, whichever object is there now.
DestroyChannel(k, others) ==
    LET o == chan[k] IN
    /\ chan' = [chan EXCEPT ![k] = NoObject]
    /\ obj' = IF o = NoObject THEN obj ELSE [obj EXCEPT ![o] = Fresh]
    /\ ends' = (IF o = NoObject THEN ends ELSE ends \ {<<obj[o].sock, Type(k)>>}) \ others

CreateChannel(k, o) ==
    /\ chan[k] = NoObject
    /\ chan' = [chan EXCEPT ![k] = o]

\* Set fields of a channel object, if it is still in the table.
SetDisconnecting(o, flag) == IF Live(o) THEN [obj EXCEPT ![o].flag = flag] ELSE obj

\* SetSocketNonBlocking and AddSocketToEpoll, which may fail; a channel that
\* has left the table takes the connection too.
Attach(o, n, heard) ==
    IF Live(o) THEN [obj EXCEPT ![o].sock = n, ![o].beat = TRUE, ![o].heard = heard] ELSE obj

Go(x, label) == pc' = [pc EXCEPT ![x] = label]
ServerGo(n, label) == spc' = [spc EXCEPT ![n] = label]

\* The transfers and Connect that waited for DoConnect: its result only
\* ends Connect, TransferSync looks for a channel all the same.
AfterConnect(t) == IF setup.kind[t] = "connect" THEN "done" ELSE "fetch"
Unlock(t) ==
    /\ lock' = [lock EXCEPT ![setup.from[t]] = NoCall]
    /\ att' = [att EXCEPT ![t] = 0]

-----------------------------------------------------------------------------
(* NotifyEviction, on either side of an attempt.                           *)

EngineOf(o) == link[o[1]][IF o[2] = "client" THEN 1 ELSE 2]
CountChannels(o) == need' = [need EXCEPT ![o] = NeedExpire(GetTotalChannelCount(EngineOf(o)))]

\* Client channels without a transfer since the last round go first.
IdleFirst(chosen, all) ==
    \A k \in chosen, j \in all \ chosen : obj[chan[k]].moved => obj[chan[j]].moved

SelectEvictionCandidates(o) ==
    LET clients == OfType(EngineOf(o), "client")
        servers == OfType(EngineOf(o), "server")
        numC == Cardinality(clients)
        numS == Cardinality(servers) IN
    /\ need[o] > 0
    /\ \E cs \in SUBSET clients, ss \in SUBSET servers :
         /\ Cardinality(cs) = ClientPicks(numC, numS, need[o])
         /\ Cardinality(ss) = ServerPicks(numC, numS, need[o])
         /\ IdleFirst(cs, clients)
         /\ obj' = [p \in Ends |-> IF \E k \in cs \cup ss : chan[k] = p
                                   THEN [obj[p] EXCEPT !.flag = TRUE] ELSE obj[p]]
         /\ queue' = [k \in Keys |-> IF k \in cs \cup ss THEN queue[k] + 1 ELSE queue[k]]
    /\ need' = [need EXCEPT ![o] = 0]
    /\ UNCHANGED <<setup, chan, ends, link, spc, sent, asks, disc, callVars, batch, item, doomed>>

-----------------------------------------------------------------------------
(* Connect, and the connect inside a transfer.                             *)

\* ConnectWhenTransfer: a channel that stays flagged is used after the timeout.
Look(t) ==
    /\ pc[t] = "transfer"
    /\ Go(t, IF chan[KeyOf(t)] = NoObject THEN "lock" ELSE "fetch")
    /\ UNCHANGED <<setup, tableVars, serverVars, asks, disc, att, held, lock, evictVars>>

\* Under connection_mutex_: connected by now, or the peer is out of reach.
ConnectReturns(t) ==
    /\ pc[t] \in {"connect", "lock"}
    /\ lock[setup.from[t]] = NoCall
    /\ Go(t, AfterConnect(t))
    /\ UNCHANGED <<setup, tableVars, serverVars, asks, disc, att, held, lock, evictVars>>

ConnectToPeer(t) ==
    LET n == Len(link) + 1 IN
    /\ pc[t] \in {"connect", "lock"}
    /\ lock[setup.from[t]] = NoCall
    /\ chan[KeyOf(t)] = NoObject
    /\ n <= setup.attempts
    /\ lock' = [lock EXCEPT ![setup.from[t]] = t]
    /\ link' = Append(link, <<setup.from[t], setup.to[t]>>)
    /\ ends' = ends \cup {<<n, "client">>, <<n, "server">>}
    /\ ServerGo(n, "start")
    /\ att' = [att EXCEPT ![t] = n]
    /\ Go(t, "hello")
    /\ UNCHANGED <<setup, chan, obj, sent, need, asks, disc, held, evictVars>>

ExchangeConnectInfo(t) ==
    /\ pc[t] = "hello"
    /\ sent[att[t]] # "none"
    /\ CountChannels(<<att[t], "client">>)
    /\ Go(t, "room")
    /\ UNCHANGED <<setup, tableVars, link, spc, sent, asks, disc, att, held, lock, evictVars>>

\* The loop over GetTotalChannelCount ends, or its time is up.
ClientRoom(t) ==
    /\ pc[t] = "room"
    /\ need[<<att[t], "client">>] = 0
    /\ \/ GetTotalChannelCount(setup.from[t]) < MaxChannel /\ Go(t, "create")
       \/ GetTotalChannelCount(setup.from[t]) >= MaxChannel /\ Go(t, "refused")
    /\ UNCHANGED <<setup, tableVars, serverVars, asks, disc, att, held, lock, evictVars>>

\* HCCL may refuse the communicator; the status is awaited all the same.
ClientCreate(t) ==
    /\ pc[t] = "create"
    /\ \/ CreateChannel(KeyOf(t), <<att[t], "client">>) /\ Go(t, "status")
       \/ Go(t, "refused") /\ UNCHANGED chan
    /\ UNCHANGED <<setup, obj, ends, serverVars, asks, disc, att, held, lock, evictVars>>

RecvStatus(t) ==
    /\ pc[t] = "status"
    /\ sent[att[t]] = "good"
    /\ chan[KeyOf(t)] # NoObject
    /\ held' = [held EXCEPT ![t] = chan[KeyOf(t)]]
    /\ Go(t, "attach")
    /\ UNCHANGED <<setup, tableVars, serverVars, asks, disc, att, lock, evictVars>>

\* SetSocketNonBlocking on the object that was fetched.  Only the call that
\* holds the mutex makes client channels, so it has no connection yet.
ClientAttach(t) ==
    /\ pc[t] = "attach"
    /\ \/ /\ obj' = Attach(held[t], att[t], TRUE)
          /\ Go(t, AfterConnect(t))
          /\ Unlock(t)
       \/ /\ obj' = Attach(held[t], att[t], FALSE)
          /\ Go(t, "refused")
          /\ UNCHANGED <<att, lock>>
    /\ held' = [held EXCEPT ![t] = NoObject]
    /\ UNCHANGED <<setup, chan, ends, serverVars, asks, disc, evictVars>>

\* DoConnect fails: a timeout, a bad status, no channel; close_connection.
CloseConnection(t) ==
    /\ pc[t] \in {"hello", "status", "refused"}
    /\ DestroyChannel(KeyOf(t), {<<att[t], "client">>})
    /\ Go(t, AfterConnect(t))
    /\ Unlock(t)
    /\ UNCHANGED <<setup, serverVars, asks, disc, held, evictVars>>

-----------------------------------------------------------------------------
(* TransferSync and Disconnect.                                            *)

GetTransferChannel(t) ==
    /\ pc[t] = "fetch"
    /\ held' = [held EXCEPT ![t] = chan[KeyOf(t)]]
    /\ Go(t, IF chan[KeyOf(t)] = NoObject THEN "done" ELSE "count")
    /\ UNCHANGED <<setup, tableVars, serverVars, asks, disc, att, lock, evictVars>>

IncrementTransferCount(t) ==
    /\ pc[t] = "count"
    /\ obj' = IF Live(held[t])
              THEN [obj EXCEPT ![held[t]].count = @ + 1, ![held[t]].moved = TRUE] ELSE obj
    /\ Go(t, "xfer")
    /\ UNCHANGED <<setup, chan, ends, serverVars, asks, disc, att, held, lock, evictVars>>

\* The copy ends or fails; DisconnectOnError.
Transfer(t) ==
    /\ pc[t] = "xfer"
    /\ \/ Go(t, "back")
       \/ setup.auto /\ Go(t, "disconnect")
    /\ UNCHANGED <<setup, tableVars, serverVars, asks, disc, att, held, lock, evictVars>>

DecrementTransferCount(t) ==
    /\ pc[t] = "back"
    /\ obj' = IF Live(held[t]) THEN [obj EXCEPT ![held[t]].count = @ - 1] ELSE obj
    /\ held' = [held EXCEPT ![t] = NoObject]
    /\ Go(t, "done")
    /\ UNCHANGED <<setup, chan, ends, serverVars, asks, disc, att, lock, evictVars>>

AfterDisconnect(x) ==
    IF x \in Engines THEN "next" ELSE IF setup.kind[x] = "disconnect" THEN "done" ELSE "back"

\* StopHeartbeat, then kDisconnect goes out if the peer can be reached.
PrepareDisconnect(x) ==
    LET k == Target(x) IN
    /\ pc[x] = "disconnect"
    /\ IF chan[k] = NoObject
       THEN Go(x, AfterDisconnect(x)) /\ UNCHANGED <<obj, disc>>
       ELSE /\ obj' = [obj EXCEPT ![chan[k]].flag = TRUE, ![chan[k]].beat = FALSE]
            /\ disc' \in {disc, [disc EXCEPT ![PeerKey(k)] = @ + 1]}
            /\ Go(x, "destroy")
    /\ UNCHANGED <<setup, chan, ends, serverVars, asks, att, held, lock, evictVars>>

DisconnectInfoProcess(x) ==
    /\ pc[x] = "destroy"
    /\ DestroyChannel(Target(x), {})
    /\ Go(x, AfterDisconnect(x))
    /\ UNCHANGED <<setup, serverVars, asks, disc, att, held, lock, evictVars>>

-----------------------------------------------------------------------------
(* ProcessConnectRequest, on a thread of the listener.                     *)

\* The thread returns without keep_connection: the plugin closes its end.
ServerQuits(n, message) ==
    /\ sent' = [sent EXCEPT ![n] = IF @ = "garbled" THEN @ ELSE message]
    /\ ends' = ends \ {<<n, "server">>}
    /\ ServerGo(n, "end")

ReplyConnect(n) ==
    /\ spc[n] = "start"
    /\ \/ /\ sent' = [sent EXCEPT ![n] = "hello"]
          /\ CountChannels(<<n, "server">>)
          /\ ServerGo(n, "room")
          /\ UNCHANGED ends
       \/ ServerQuits(n, "none") /\ UNCHANGED need
    /\ UNCHANGED <<setup, chan, obj, link, asks, disc, callVars, evictVars>>

ServerRoom(n) ==
    /\ spc[n] = "room"
    /\ need[<<n, "server">>] = 0
    /\ \/ /\ GetTotalChannelCount(link[n][2]) < MaxChannel
          /\ ServerGo(n, "clear")
          /\ UNCHANGED <<sent, ends>>
       \/ /\ GetTotalChannelCount(link[n][2]) >= MaxChannel
          /\ ServerQuits(n, "error")
    /\ UNCHANGED <<setup, chan, obj, link, need, asks, disc, callVars, evictVars>>

\* A server channel of an earlier connection makes way.
ServerClear(n) ==
    /\ spc[n] = "clear"
    /\ DestroyChannel(ServerKey(n), {})
    /\ ServerGo(n, "create")
    /\ UNCHANGED <<setup, link, sent, need, asks, disc, callVars, evictVars>>

ServerCreate(n) ==
    /\ spc[n] = "create"
    /\ \/ /\ CreateChannel(ServerKey(n), <<n, "server">>)
          /\ ServerGo(n, "find")
          /\ UNCHANGED <<sent, ends>>
       \/ ServerQuits(n, "error") /\ UNCHANGED chan
    /\ UNCHANGED <<setup, obj, link, need, asks, disc, callVars, evictVars>>

\* StartChannelHeartbeat looks the channel up again.
ServerFind(n) ==
    /\ spc[n] = "find"
    /\ IF chan[ServerKey(n)] = NoObject
       THEN ServerQuits(n, "hello") /\ UNCHANGED held
       ELSE /\ held' = [held EXCEPT ![n] = chan[ServerKey(n)]]
            /\ ServerGo(n, "attach")
            /\ UNCHANGED <<sent, ends>>
    /\ UNCHANGED <<setup, chan, obj, link, need, asks, disc, pc, att, lock, evictVars>>

\* Mutant: keep_connection is not set.
ServerAttachCloses(n) ==
    /\ spc[n] = "attach"
    /\ obj' = Attach(held[n], n, TRUE)
    /\ ServerQuits(n, "good")
    /\ held' = [held EXCEPT ![n] = NoObject]
    /\ UNCHANGED <<setup, chan, link, need, asks, disc, pc, att, lock, evictVars>>

\* When AddSocketToEpoll fails, keep_connection is not set: the plugin closes
\* the connection, which the channel keeps.
ServerAttach(n) ==
    /\ spc[n] = "attach"
    /\ IF Live(held[n]) /\ obj[held[n]].sock # 0
       THEN ServerQuits(n, "hello") /\ UNCHANGED obj
       ELSE \/ /\ obj' = Attach(held[n], n, TRUE)
               /\ ServerGo(n, "answer")
               /\ UNCHANGED <<sent, ends>>
            \/ obj' = Attach(held[n], n, FALSE) /\ ServerQuits(n, "hello")
    /\ held' = [held EXCEPT ![n] = NoObject]
    /\ UNCHANGED <<setup, chan, link, need, asks, disc, pc, att, lock, evictVars>>

SendStatus(n) ==
    /\ spc[n] = "answer"
    /\ sent' = [sent EXCEPT ![n] = IF @ = "garbled" THEN @ ELSE "good"]
    /\ ServerGo(n, "end")
    /\ UNCHANGED <<setup, tableVars, link, need, asks, disc, callVars, evictVars>>

\* kDisconnect comes on a connection of its own and may be late.
ProcessDisconnectRequest(k) ==
    /\ disc[k] > 0
    /\ disc' = [disc EXCEPT ![k] = @ - 1]
    /\ DestroyChannel(k, {})
    /\ UNCHANGED <<setup, serverVars, asks, callVars, evictVars>>

-----------------------------------------------------------------------------
(* The eviction thread.                                                    *)

EvictionLoop(e) ==
    LET mine == {k \in Keys : Mine(k) = e} IN
    /\ pc[e] = "wait"
    /\ \E k \in mine : queue[k] > 0
    /\ batch' = [k \in Keys |-> IF k \in mine THEN queue[k] ELSE batch[k]]
    /\ queue' = [k \in Keys |-> IF k \in mine THEN 0 ELSE queue[k]]
    /\ Go(e, "next")
    /\ UNCHANGED <<setup, tableVars, serverVars, asks, disc, att, held, lock, item, doomed>>

\* Mutant: the channel is skipped and stays flagged.
SpareKeepsFlag(e, k) == UNCHANGED <<obj, asks, sent, pc, held, item>>

\* ProcessEviction puts the channel back into service.
Spare(e, k) ==
    /\ obj' = SetDisconnecting(chan[k], FALSE)
    /\ UNCHANGED <<asks, sent, pc, held, item>>

\* ProcessServerEviction: ask the client.  A request that overtakes the
\* status on the same connection is not what DoConnect expects to receive.
AskClient(e, k) ==
    LET n == obj[chan[k]].sock IN
    /\ n # 0
    /\ asks' = [asks EXCEPT ![n] = @ + 1]
    /\ sent' = IF spc[n] = "answer" THEN [sent EXCEPT ![n] = "garbled"] ELSE sent
    /\ held' = [held EXCEPT ![e] = chan[k]]
    /\ Go(e, "asked")
    /\ UNCHANGED <<obj, item>>

Idle(o) == obj[o].count = 0 /\ obj[o].flag

ProcessEviction(e, k) ==
    /\ pc[e] = "next"
    /\ Mine(k) = e /\ batch[k] > 0
    /\ batch' = [batch EXCEPT ![k] = @ - 1]
    /\ CASE chan[k] = NoObject -> UNCHANGED <<obj, asks, sent, pc, held, item>>
         [] chan[k] # NoObject /\ ~Idle(chan[k]) -> Spare(e, k)
         [] chan[k] # NoObject /\ Idle(chan[k]) /\ Type(k) = "server" ->
              Spare(e, k) \/ AskClient(e, k)
         [] OTHER -> /\ item' = [item EXCEPT ![e] = k]
                     /\ Go(e, "disconnect")
                     /\ UNCHANGED <<obj, asks, sent, held>>
    /\ UNCHANGED <<setup, chan, ends, link, spc, need, disc, att, lock, queue, doomed>>

\* The answer, whatever it says, or no answer within kWaitRespTime.
ServerEvictionEnds(e) ==
    /\ pc[e] = "asked"
    /\ obj' = SetDisconnecting(held[e], FALSE)
    /\ held' = [held EXCEPT ![e] = NoObject]
    /\ Go(e, "next")
    /\ UNCHANGED <<setup, chan, ends, serverVars, asks, disc, att, lock, evictVars>>

ResetAllTransferFlags(e) ==
    /\ pc[e] = "next"
    /\ \A k \in Keys : Mine(k) = e => batch[k] = 0
    /\ obj' = [o \in Ends |-> IF obj[o].count = 0 /\ \E k \in Channels(e) : chan[k] = o
                              THEN [obj[o] EXCEPT !.moved = FALSE] ELSE obj[o]]
    /\ item' = [item EXCEPT ![e] = <<>>]
    /\ Go(e, "wait")
    /\ UNCHANGED <<setup, chan, ends, serverVars, asks, disc, att, held, lock, queue, batch, doomed>>

-----------------------------------------------------------------------------
(* The receiver and the heartbeats of ChannelManager.                      *)

HandleRequestDisconnectMessage(n) ==
    LET k == PeerKey(ServerKey(n)) IN
    /\ n \in DOMAIN link /\ asks[n] > 0
    /\ chan[k] # NoObject /\ obj[chan[k]].sock = n
    /\ asks' = [asks EXCEPT ![n] = @ - 1]
    /\ IF obj[chan[k]].count = 0
       THEN /\ obj' = SetDisconnecting(chan[k], TRUE)
            /\ queue' = [queue EXCEPT ![k] = @ + 1]
       ELSE UNCHANGED <<obj, queue>>
    /\ UNCHANGED <<setup, chan, ends, serverVars, disc, callVars, batch, item, doomed>>

\* SendHeartbeats: the peer's end is closed (kNoNeedRetry).
HeartbeatFails(k) ==
    /\ Type(k) = "client" /\ chan[k] # NoObject
    /\ obj[chan[k]].beat /\ <<obj[chan[k]].sock, "server">> \notin ends
    /\ obj' = [obj EXCEPT ![chan[k]].flag = TRUE, ![chan[k]].beat = FALSE]
    /\ doomed' = IF setup.auto THEN doomed \cup {k} ELSE doomed
    /\ UNCHANGED <<setup, chan, ends, serverVars, asks, disc, callVars, queue, batch, item>>

\* The other side has a channel on this connection that sends heartbeats.
Beating(n) ==
    LET k == PeerKey(ServerKey(n)) IN
    chan[k] # NoObject /\ obj[chan[k]].sock = n /\ obj[chan[k]].beat

\* Mutant: IsHeartbeatTimeout tests with_heartbeat_ the wrong way round.
HeartbeatTimeoutInverted(k) ==
    /\ Type(k) = "server" /\ chan[k] # NoObject /\ k \notin doomed
    /\ obj[chan[k]].sock # 0 /\ ~obj[chan[k]].beat
    /\ doomed' = doomed \cup {k}
    /\ UNCHANGED <<setup, tableVars, serverVars, asks, disc, callVars, queue, batch, item>>

\* CheckHeartbeatTimeouts finds a channel without heartbeats.
HeartbeatTimeout(k) ==
    /\ Type(k) = "server" /\ chan[k] # NoObject /\ k \notin doomed
    /\ obj[chan[k]].beat /\ ~Beating(obj[chan[k]].sock)
    /\ doomed' = doomed \cup {k}
    /\ UNCHANGED <<setup, tableVars, serverVars, asks, disc, callVars, queue, batch, item>>

\* The DestroyChannel that follows, by key.
DestroyDoomed(k) ==
    /\ k \in doomed
    /\ DestroyChannel(k, {})
    /\ doomed' = doomed \ {k}
    /\ UNCHANGED <<setup, serverVars, asks, disc, callVars, queue, batch, item>>

-----------------------------------------------------------------------------
CallStep(t) ==
    \/ Look(t) \/ ConnectReturns(t) \/ ConnectToPeer(t) \/ ExchangeConnectInfo(t)
    \/ ClientRoom(t) \/ ClientCreate(t) \/ RecvStatus(t) \/ ClientAttach(t)
    \/ CloseConnection(t) \/ GetTransferChannel(t) \/ IncrementTransferCount(t)
    \/ Transfer(t) \/ DecrementTransferCount(t)

ServerStep(n) ==
    \/ ReplyConnect(n) \/ ServerRoom(n) \/ ServerClear(n) \/ ServerCreate(n)
    \/ ServerFind(n) \/ ServerAttach(n) \/ SendStatus(n)

DisconnectStep(x) == PrepareDisconnect(x) \/ DisconnectInfoProcess(x)

EvictionStep(e) ==
    \/ EvictionLoop(e) \/ ServerEvictionEnds(e) \/ ResetAllTransferFlags(e)
    \/ \E k \in Keys : ProcessEviction(e, k)

KeyStep(k) ==
    ProcessDisconnectRequest(k) \/ HeartbeatFails(k) \/ HeartbeatTimeout(k) \/ DestroyDoomed(k)

Next ==
    \/ \E t \in Calls : CallStep(t)
    \/ \E n \in Attempts : ServerStep(n) \/ HandleRequestDisconnectMessage(n)
    \/ \E o \in Ends : SelectEvictionCandidates(o)
    \/ \E x \in Actors : DisconnectStep(x)
    \/ \E e \in Engines : EvictionStep(e)
    \/ \E k \in Keys : KeyStep(k)

(***************************************************************************)
(* Some thread goes on whenever one can: threads run, timed waits end, sent*)
(* messages are received, heartbeats are sent and checked.  The calls are  *)
(* made once each, so no thread is held up for ever by the others.         *)
(***************************************************************************)
Spec == Init /\ [][Next]_vars /\ WF_vars(Next)

-----------------------------------------------------------------------------
TypeOK ==
    /\ setup \in Setups
    /\ chan \in [Keys -> Ends \cup {NoObject}]
    /\ \A o \in Ends : /\ obj[o].count \in 0..Cardinality(Calls)
                       /\ {obj[o].flag, obj[o].moved, obj[o].beat, obj[o].heard} \subseteq BOOLEAN
                       /\ obj[o].sock \in 0..Len(link)
    /\ ends \subseteq Ends
    /\ \A n \in DOMAIN link : link[n] \in Engines \X Engines
    /\ spc \in [Attempts -> {"start", "room", "clear", "create", "find", "attach", "answer", "end"}]
    /\ sent \in [Attempts -> {"none", "hello", "good", "error", "garbled"}]
    /\ need \in [Ends -> Nat] /\ asks \in [Attempts -> Nat]
    /\ \A k \in Keys : {disc[k], queue[k], batch[k]} \subseteq Nat
    /\ held \in [Actors \cup Attempts -> Ends \cup {NoObject}]
    /\ lock \in [Engines -> Calls \cup {NoCall}]
    /\ doomed \subseteq Keys

(***************************************************************************)
(* A channel that epoll listens for owns its end of the connection: the    *)
(* end is open.  No two channels have the same end, whichever of several   *)
(* threads that serve the same peer attached it.  A channel with a         *)
(* connection epoll refused is about to go: its call closes it, or as a    *)
(* server channel it has heartbeats to miss.                               *)
(***************************************************************************)
SocketsExact ==
    /\ TypeOK
    /\ \A k \in Keys : chan[k] # NoObject /\ obj[chan[k]].sock # 0 =>
         /\ IF obj[chan[k]].heard THEN <<obj[chan[k]].sock, Type(k)>> \in ends
            ELSE \/ Type(k) = "server" /\ obj[chan[k]].beat
                 \/ \E t \in Calls : KeyOf(t) = k /\ pc[t] = "refused" /\ lock[Mine(k)] = t
         /\ \A j \in Keys \ {k} : chan[j] # NoObject /\ obj[chan[j]].sock = obj[chan[k]].sock
                                    => j = PeerKey(k)

(***************************************************************************)
(* disconnect_flag_ makes transfers wait, so somebody must be about to     *)
(* clear it or to destroy the channel: an entry of the eviction queue, the *)
(* eviction thread, a Disconnect, a heartbeat thread.  The exception is a  *)
(* channel whose heartbeats failed without auto_connect.                   *)
(***************************************************************************)
FlagsAccounted ==
    \A k \in Keys : chan[k] # NoObject /\ obj[chan[k]].flag =>
      \/ queue[k] + batch[k] > 0
      \/ k \in doomed
      \/ \E x \in Actors : pc[x] \in {"disconnect", "destroy"} /\ Target(x) = k
      \/ pc[Mine(k)] = "asked" /\ held[Mine(k)] = chan[k]
      \/ ~setup.auto /\ Type(k) = "client" /\ ~obj[chan[k]].beat

(***************************************************************************)
(* A channel whose connection was closed by the other side does not stay   *)
(* in the table: heartbeats fail on the client's side (and destroy it with *)
(* auto_connect), and are missed on the server's side.                     *)
(***************************************************************************)
Orphan(k) ==
    /\ chan[k] # NoObject /\ obj[chan[k]].sock # 0
    /\ <<obj[chan[k]].sock, Type(PeerKey(k))>> \notin ends

OrphansGone == \A k \in Keys : Orphan(k) => ~setup.auto /\ Type(k) = "client"

(***************************************************************************)
(* The eviction thread never destroys a channel with a transfer, as the    *)
(* interface document says of the channel pool.                            *)
(***************************************************************************)
SparesBusy ==
    \A e \in Engines :
      pc[e] = "destroy" /\ pc'[e] = "next" /\ chan[item[e]] # NoObject
        => obj[chan[item[e]]].count = 0
====
