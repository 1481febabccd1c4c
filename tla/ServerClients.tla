---------------------------- MODULE ServerClients ----------------------------
(***************************************************************************)
(* The control connections of a HIXL server: the listener thread that      *)
(* accepts clients and reads their requests, the message handler with its  *)
(* pool of workers that answers them, the channels built for the clients,  *)
(* the notifies they send, and Finalize, which takes all of it down.       *)
(*                                                                         *)
(* A peer is one connection attempt: HixlCSClient::Connect ("channel"), or *)
(* a HixlClient that sends one notify ("notify") or, when it has waited in *)
(* vain for the answer, another one ("notifies"). The CtrlMsgPlugin      *)
(* object the server keeps for it has the peer's name. The kernel's        *)
(* descriptor table is sock: accept takes the lowest free number, so that  *)
(* the number of a closed connection soon belongs to another one.          *)
(*                                                                         *)
(* The sections the code runs under client_mutex_, chn_mutex_ or a         *)
(* connection's own lock are single steps. The shutdown and the submit     *)
(* that end CleanupClient join its locked section: nobody can close the    *)
(* connection before the message is submitted.                             *)
(*                                                                         *)
(* Abstracted: what a request carries, the number of the channel, tags,    *)
(* times. A handshake takes two flights of the client; a client's wait     *)
(* may time out at any moment.                                             *)
(***************************************************************************)
EXTENDS Integers, Sequences, FiniteSets, SequencesExt

CONSTANTS
    Peers,          \* connection attempts, 1..n, in the order they are made
    Setups,         \* [tls, kind, stops]: TLS, the peers, Finalize is called
    MaxPending,     \* kMaxPendingHandshakes
    MaxNotifies     \* kMaxNotifyQueueSize

VARIABLES
    setup,      \* the member of Setups this behaviour is about
    cl,         \* peer -> where the client is
    local,      \* peers whose client holds a channel of its own
    wire,       \* peer -> requests sent and not read
    got,        \* peer -> replies sent to it and not read
    sock,       \* descriptor -> the peer at its other end, or 0
    conn,       \* peer -> its CtrlMsgPlugin: [fd, usable, shut, flights]
    held,       \* peers whose request sits in the TLS session's own buffer
    pending,    \* pending_handshakes_: descriptor -> peer
    late,       \* peers whose handshake deadline has passed
    clients,    \* clients_: descriptor -> peer
    gone,       \* disconnected_clients_
    channels,   \* channels_: peers that have one
    epch,       \* peers whose channel exists at the endpoint
    lost,       \* peers whose channel the driver would not destroy
    queue,      \* req_queue_: [peer, type]
    tasks,      \* what the workers run: [peer, type, at]
    notes,      \* notify_messages_
    seq,        \* notify_enqueue_seq_, and the number each peer's notify got
    taken,      \* what GetNotifies has handed out
    lis,        \* listener thread: [at, ev, accept, who, hup]
    fin         \* Finalize

vars == <<setup, cl, local, wire, got, sock, conn, held, pending, late, clients, gone,
          channels, epch, lost, queue, tasks, notes, seq, taken, lis, fin>>

clientVars == <<cl, local, wire, got>>
socketVars == <<sock, conn, held>>
tableVars  == <<pending, late, clients, gone>>
chanVars   == <<channels, epch, lost>>
noteVars   == <<notes, seq, taken>>

tls == setup.tls

kind == setup.kind

Fds == 1..Cardinality(Peers)

NoFd == 0

\* CtrlMsgPlugin::IsUsable
IsUsable(p) == conn[p].fd # NoFd /\ conn[p].usable

\* The other end has closed, or this end was shut down.
Hup(p) == cl[p] = "gone" \/ conn[p].shut

-----------------------------------------------------------------------------
(* The client. *)

\* Connect: the socket, and with TLS the first flight of the handshake.
ClientConnect(p) ==
    /\ cl[p] = "idle"
    /\ kind[p] # "none"
    /\ \A q \in Peers : q < p => cl[q] # "idle"
    /\ fin = "no"
    /\ cl' = [cl EXCEPT ![p] = "syn"]
    /\ UNCHANGED <<local, wire, got, socketVars, tableVars, chanVars, queue, tasks, noteVars, lis, fin, setup>>

FirstRequest(p) == IF kind[p] = "channel" THEN "match" ELSE "notify"

\* The request after the one that was answered; "up" when there is none.
AfterReply == [match |-> "export", export |-> "create", create |-> "up",
               notify |-> "up", renotify |-> "reup"]

\* An acknowledgement does not say which notify it is for.
Answers(r, at) == r.type = at \/ (r.type = "notify" /\ at = "renotify")

\* Connected, and its own part of the handshake done, it sends its first request.
ClientSend(p) ==
    /\ cl[p] = "syn"
    /\ conn[p].flights >= (IF tls THEN 1 ELSE 2)
    /\ cl' = [cl EXCEPT ![p] = FirstRequest(p)]
    /\ wire' = [wire EXCEPT ![p] = Append(@, FirstRequest(p))]
    /\ UNCHANGED <<local, got, socketVars, tableVars, chanVars, queue, tasks, noteVars, lis, fin, setup>>

\* ExchangeEndpointAndCreateChannel: a good answer, and the next request; the
\* channel of its own is made between the last request and the last answer.
ClientReceive(p) ==
    /\ got[p] # <<>>
    /\ Head(got[p]).ok
    /\ Answers(Head(got[p]), cl[p])
    /\ cl' = [cl EXCEPT ![p] = AfterReply[@]]
    /\ got' = [got EXCEPT ![p] = Tail(@)]
    /\ wire' = IF AfterReply[cl[p]] \in {"up", "reup"} THEN wire
               ELSE [wire EXCEPT ![p] = Append(@, AfterReply[cl[p]])]
    /\ local' = IF AfterReply[cl[p]] = "create" THEN local \cup {p} ELSE local
    /\ UNCHANGED <<socketVars, tableVars, chanVars, queue, tasks, noteVars, lis, fin, setup>>

\* SendNotify timed out: the connection stays, the next notify goes over it.
SendNotifyAgain(p) ==
    /\ kind[p] = "notifies"
    /\ cl[p] = "notify"
    /\ cl' = [cl EXCEPT ![p] = "renotify"]
    /\ wire' = [wire EXCEPT ![p] = Append(@, "renotify")]
    /\ UNCHANGED <<local, got, socketVars, tableVars, chanVars, queue, tasks, noteVars, lis, fin, setup>>

\* A bad answer, a timeout, a broken connection, its own channel failing, or
\* Destroy: the guards take the channel back and close the socket.
ClientClose(p) ==
    /\ cl[p] \notin {"idle", "gone"}
    /\ cl' = [cl EXCEPT ![p] = "gone"]
    /\ local' = local \ {p}
    /\ UNCHANGED <<wire, got, socketVars, tableVars, chanVars, queue, tasks, noteVars, lis, fin, setup>>

-----------------------------------------------------------------------------
(* CtrlMsgPlugin on the server's side. *)

\* Mutant: the object keeps the number of the descriptor it has closed.
CloseKeepsFd(s, c, p) ==
    [sock |-> IF c[p].fd = NoFd THEN s ELSE [s EXCEPT ![c[p].fd] = 0], conn |-> c]

\* Close: the object forgets its descriptor, the kernel frees the number.
Close(s, c, p) ==
    [sock |-> IF c[p].fd = NoFd THEN s ELSE [s EXCEPT ![c[p].fd] = 0],
     conn |-> [c EXCEPT ![p].fd = NoFd]]

\* Whether a Send can report success: not on an unusable or shut connection;
\* to a peer that has closed it may, and the bytes are lost; to a peer that
\* does not read in time it may fail.
SendResults(p) ==
    IF ~IsUsable(p) \/ sock[conn[p].fd] = 0 \/ conn[p].shut THEN {FALSE} ELSE BOOLEAN

\* Send: to whoever is at the other end of the descriptor.
Send(t, type, ok, sent) ==
    LET to == sock[conn[t.peer].fd]
    IN  IF sent /\ cl[to] # "gone"
        THEN [got EXCEPT ![to] = Append(@, [type |-> type, for |-> <<t.peer, t.type>>, ok |-> ok])]
        ELSE got

\* A send that fails makes a TLS session unusable, and its socket is shut down.
AfterSend(p, sent) ==
    IF ~sent /\ tls /\ IsUsable(p)
    THEN [conn EXCEPT ![p].usable = FALSE, ![p].shut = TRUE] ELSE conn

-----------------------------------------------------------------------------
(* Disconnecting a client. *)

\* clients_ holds this very connection under its descriptor.
IsClient(p) == conn[p].fd # NoFd /\ clients[conn[p].fd] = p

\* CleanupClient; c is the table of connections so far.
CleanupClient(p, c) ==
    IF IsClient(p)
    THEN /\ gone' = gone \cup {p}
         /\ clients' = [clients EXCEPT ![conn[p].fd] = 0]
         /\ conn' = [c EXCEPT ![p].shut = TRUE]
         /\ queue' = Append(queue, [peer |-> p, type |-> "destroy"])
    ELSE conn' = c /\ UNCHANGED <<gone, clients, queue>>

-----------------------------------------------------------------------------
(* The listener thread: DoWait, over and over. *)

\* ProClientMsg: the requests that have come go to the message handler.
CanReceive(p) == IsUsable(p) /\ wire[p] # <<>>

Received(p) == queue \o [i \in 1..Len(wire[p]) |-> [peer |-> p, type |-> wire[p][i]]]

\* ProcessPendingMsg for one client: epoll does not tell of a request that the
\* session holds already.
ProcessPendingMsg(p) ==
    /\ lis.at = "top"
    /\ fin = "no"
    /\ p \in held
    /\ IsClient(p)
    /\ held' = held \ {p}
    /\ IF CanReceive(p)
       THEN /\ queue' = Received(p)
            /\ wire' = [wire EXCEPT ![p] = <<>>]
            /\ UNCHANGED <<conn, clients, gone>>
       ELSE CleanupClient(p, conn) /\ UNCHANGED wire
    /\ UNCHANGED <<cl, local, got, sock, pending, late, chanVars, tasks, noteVars, lis, fin, setup>>

\* ExpireHandshakes, before the wait and after the events of a batch.
ExpireHandshakes(s, c) ==
    [sock |-> [f \in DOMAIN s |-> IF f # NoFd /\ pending[f] \in late THEN 0 ELSE s[f]],
     conn |-> [p \in Peers |-> IF p \in late /\ \E f \in Fds : pending[f] = p
                               THEN [c[p] EXCEPT !.fd = NoFd] ELSE c[p]]]

Unexpired == [f \in DOMAIN pending |-> IF pending[f] \in late THEN 0 ELSE pending[f]]

\* What epoll reports for a descriptor: a hang-up, or something to read.
Readable(p) ==
    \/ Hup(p)
    \/ p \notin held /\ wire[p] # <<>>
    \/ conn[p].flights = 1 /\ cl[p] # "syn"

Ready == {f \in Fds : \/ pending[f] # 0 /\ Readable(pending[f])
                      \/ clients[f] # 0 /\ Readable(clients[f])}

Event(f) == [fd |-> f, hup |-> Hup(IF pending[f] # 0 THEN pending[f] ELSE clients[f])]

Backlog == {p \in Peers : cl[p] # "idle" /\ conn[p].flights = 0}

Wait ==
    /\ lis.at = "top"
    /\ fin = "no"
    /\ \A p \in held : ~IsClient(p)
    /\ Ready # {} \/ Backlog # {} \/ \E f \in Fds : pending[f] \in late
    /\ LET x == ExpireHandshakes(sock, conn)
       IN  sock' = x.sock /\ conn' = x.conn
    /\ pending' = Unexpired
    /\ lis' = [at |-> "batch", ev |-> {Event(f) : f \in {g \in Ready : pending[g] \notin late}},
               accept |-> Backlog # {}, who |-> 0, hup |-> FALSE]
    /\ UNCHANGED <<clientVars, held, late, clients, gone, chanVars, queue, tasks, noteVars, fin, setup>>

\* AdvanceHandshake for the connection p at descriptor f: past its deadline or
\* refused it is closed; complete it becomes a client.
AdvanceHandshake(p, f, c, s) ==
    LET done == ~tls \/ (cl[p] # "syn" /\ c[p].flights = 1)
        next == [c EXCEPT ![p].flights = IF done THEN 2 ELSE 1]
    IN  \/ /\ p \notin late
           /\ sock' = s
           /\ conn' = next
           /\ clients' = IF done THEN [clients EXCEPT ![f] = p] ELSE clients
           /\ pending' = [pending EXCEPT ![f] = IF done THEN 0 ELSE p]
           /\ \/ UNCHANGED held
              \/ tls /\ done /\ wire[p] # <<>> /\ held' = held \cup {p}
        \/ /\ tls \/ p \in late
           /\ LET x == Close(s, [c EXCEPT ![p].flights = 3, ![p].shut = TRUE], p)
              IN  sock' = x.sock /\ conn' = x.conn
           /\ pending' = [pending EXCEPT ![f] = 0]
           /\ UNCHANGED <<clients, held>>

\* HandleClientEvent, its first half: whose descriptor is it?
HandleClientEvent(e) ==
    /\ lis.at = "batch"
    /\ e \in lis.ev
    /\ lis' = [lis EXCEPT !.ev = @ \ {e},
                          !.at = IF pending[e.fd] = 0 /\ clients[e.fd] # 0 THEN "client" ELSE @,
                          !.who = clients[e.fd], !.hup = e.hup]
    /\ CASE pending[e.fd] = 0 -> UNCHANGED <<socketVars, pending, clients>>
         [] pending[e.fd] # 0 /\ e.hup ->
                /\ LET x == Close(sock, conn, pending[e.fd]) IN sock' = x.sock /\ conn' = x.conn
                /\ pending' = [pending EXCEPT ![e.fd] = 0]
                /\ UNCHANGED <<held, clients>>
         [] OTHER -> AdvanceHandshake(pending[e.fd], e.fd, conn, sock)
    /\ UNCHANGED <<clientVars, late, gone, chanVars, queue, tasks, noteVars, fin, setup>>

\* Its second half, for the client found there: a hang-up, or its requests.
HandleClient ==
    LET p == lis.who
    IN  /\ lis.at = "client"
        /\ lis' = [lis EXCEPT !.at = "batch", !.who = 0, !.hup = FALSE]
        /\ IF ~lis.hup /\ CanReceive(p)
           THEN /\ queue' = Received(p)
                /\ wire' = [wire EXCEPT ![p] = <<>>]
                /\ held' = held \ {p}
                /\ UNCHANGED <<conn, clients, gone>>
           ELSE CleanupClient(p, conn) /\ UNCHANGED <<wire, held>>
        /\ UNCHANGED <<cl, local, got, sock, pending, late, chanVars, tasks, noteVars, fin, setup>>

\* The events are consumed: ExpireHandshakes again, then the listening socket.
BatchDone ==
    /\ lis.at = "batch"
    /\ lis.ev = {}
    /\ lis' = [lis EXCEPT !.at = IF lis.accept THEN "accept" ELSE "top"]
    /\ LET x == ExpireHandshakes(sock, conn)
       IN  sock' = x.sock /\ conn' = x.conn
    /\ pending' = Unexpired
    /\ UNCHANGED <<clientVars, held, late, clients, gone, chanVars, queue, tasks, noteVars, fin, setup>>

\* Refused: too many handshakes under way, or an option of the socket fails.
Refuse(p) ==
    /\ conn' = [conn EXCEPT ![p].flights = 3, ![p].shut = TRUE]
    /\ UNCHANGED <<sock, held, pending, clients>>

\* The lowest free descriptor, and the handshake's first step. "Accept last so a
\* closed fd cannot be reused before this event batch has been consumed."
AcceptClient ==
    /\ lis.at = "accept"
    /\ lis.accept
    /\ lis' = [lis EXCEPT !.at = "top", !.accept = FALSE]
    /\ \E p \in Backlog :
        LET f == CHOOSE g \in Fds : sock[g] = 0 /\ \A h \in Fds : sock[h] = 0 => g <= h
            n == Cardinality({g \in Fds : pending[g] # 0})
        IN  \/ Refuse(p)
            \/ /\ tls => n < MaxPending
               /\ AdvanceHandshake(p, f, [conn EXCEPT ![p].fd = f], [sock EXCEPT ![f] = p])
    /\ UNCHANGED <<clientVars, late, gone, chanVars, queue, tasks, noteVars, fin, setup>>

Deadline(p) ==
    /\ tls
    /\ p \notin late
    /\ \E f \in Fds : pending[f] = p
    /\ late' = late \cup {p}
    /\ UNCHANGED <<clientVars, socketVars, pending, clients, gone, chanVars, queue, tasks, noteVars, lis, fin, setup>>

-----------------------------------------------------------------------------
(* The message handler and its workers. *)

\* HandleMsg: the next request goes to the pool.
Dispatch ==
    /\ fin \in {"no", "stop", "shut"}
    /\ queue # <<>>
    /\ queue' = Tail(queue)
    /\ tasks' = tasks \cup {[peer |-> Head(queue).peer, type |-> Head(queue).type, at |-> "start"]}
    /\ UNCHANGED <<clientVars, socketVars, tableVars, chanVars, noteVars, lis, fin, setup>>

Go(t, at) == tasks' = (tasks \ {t}) \cup {[t EXCEPT !.at = at]}

End(t) == tasks' = tasks \ {t}

At(t, type, at) == t.type = type /\ t.at = at

\* The reply that ends a processor. One that could not be sent fails the
\* processor, and RegProc drops a client whose connection is not usable.
Reply(t, ok) ==
    \E sent \in SendResults(t.peer) :
        /\ got' = Send(t, t.type, ok, sent)
        /\ IF sent \/ (~tls /\ IsUsable(t.peer))
           THEN UNCHANGED <<conn, gone, clients, queue>>
           ELSE CleanupClient(t.peer, AfterSend(t.peer, sent))
        /\ End(t)

\* MatchEndpointMsg and ExportMem: a good answer or, from their guard, FAILED.
Answer(t) ==
    /\ t.type \in {"match", "export"}
    /\ \E ok \in BOOLEAN : Reply(t, ok)
    /\ UNCHANGED <<cl, local, wire, sock, held, pending, late, chanVars, noteVars, lis, fin, setup>>

\* CreateChannel: the endpoint builds the channel, or the guard says FAILED.
CreateChannel(t) ==
    /\ At(t, "create", "start")
    /\ \/ /\ epch' = epch \cup {t.peer}
          /\ Go(t, "made")
          /\ UNCHANGED <<got, conn, gone, clients, queue>>
       \/ Reply(t, FALSE) /\ UNCHANGED epch
    /\ UNCHANGED <<cl, local, wire, sock, held, pending, late, channels, lost, noteVars, lis, fin, setup>>

\* TrackChannelIfConnected
TrackChannelIfConnected(t) ==
    /\ At(t, "create", "made")
    /\ channels' = IF IsClient(t.peer) THEN channels \cup {t.peer} ELSE channels
    /\ Go(t, IF IsClient(t.peer) THEN "tracked" ELSE "orphan")
    /\ UNCHANGED <<clientVars, socketVars, tableVars, epch, lost, queue, noteVars, lis, fin, setup>>

CreateChannelResp(t) ==
    /\ At(t, "create", "tracked")
    /\ Reply(t, TRUE)
    /\ UNCHANGED <<cl, local, wire, sock, held, pending, late, chanVars, noteVars, lis, fin, setup>>

\* Endpoint::DestroyChannel; the driver may refuse.
DestroyAtEndpoint(p) ==
    \/ epch' = epch \ {p} /\ UNCHANGED lost
    \/ lost' = lost \cup {p} /\ UNCHANGED epch

\* The client went away meanwhile: no reply, and the new channel goes again.
DropOrphan(t) ==
    /\ At(t, "create", "orphan")
    /\ DestroyAtEndpoint(t.peer)
    /\ End(t)
    /\ UNCHANGED <<clientVars, socketVars, tableVars, channels, queue, noteVars, lis, fin, setup>>

\* The internal request of CleanupClient: close the connection ...
CloseGone(t) ==
    /\ At(t, "destroy", "start")
    /\ LET x == Close(sock, conn, t.peer) IN sock' = x.sock /\ conn' = x.conn
    /\ Go(t, "closed")
    /\ UNCHANGED <<clientVars, held, tableVars, chanVars, queue, noteVars, lis, fin, setup>>

\* ... take its channel out of the table ...
ForgetChannel(t) ==
    /\ At(t, "destroy", "closed")
    /\ channels' = channels \ {t.peer}
    /\ Go(t, IF t.peer \in channels THEN "found" ELSE "erase")
    /\ UNCHANGED <<clientVars, socketVars, tableVars, epch, lost, queue, noteVars, lis, fin, setup>>

\* ... destroy it, outside the lock; a failure leaves the connection listed ...
DestroyChannel(t) ==
    /\ At(t, "destroy", "found")
    /\ DestroyAtEndpoint(t.peer)
    /\ IF t.peer \in lost' THEN End(t) ELSE Go(t, "erase")
    /\ UNCHANGED <<clientVars, socketVars, tableVars, channels, queue, noteVars, lis, fin, setup>>

\* ... and forget the connection.
EraseGone(t) ==
    /\ At(t, "destroy", "erase")
    /\ gone' = gone \ {t.peer}
    /\ End(t)
    /\ UNCHANGED <<clientVars, socketVars, pending, late, clients, chanVars, queue, noteVars, lis, fin, setup>>

-----------------------------------------------------------------------------
(* Notifies. *)

\* A notify, by its sender and its place among the sender's notifies.
NoteOf(t) == <<t.peer, t.type>>

IsNotify(t, at) == t.type \in {"notify", "renotify"} /\ t.at = at

\* EnqueueNotify
EnqueueNotify(t) ==
    /\ IsNotify(t, "start")
    /\ IF Len(notes) < MaxNotifies
       THEN /\ notes' = Append(notes, NoteOf(t))
            /\ seq' = [seq EXCEPT !.last = @ + 1, !.of[NoteOf(t)] = seq.last + 1]
            /\ Go(t, "queued")
       ELSE Go(t, "refused") /\ UNCHANGED <<notes, seq>>
    /\ UNCHANGED <<clientVars, socketVars, tableVars, chanVars, queue, taken, lis, fin, setup>>


\* RollbackNotify: unless another notify came after it, or it was taken.
RollbackNotify(n) ==
    IF seq.last # seq.of[n] \/ notes = <<>> THEN notes ELSE Front(notes)

\* SendNotifyAck, and back out of the queue if it could not be sent.
SendNotifyAck(t) ==
    /\ IsNotify(t, "queued") \/ IsNotify(t, "refused")
    /\ \E sent \in SendResults(t.peer) :
        /\ got' = Send(t, "notify", t.at = "queued", sent)
        /\ conn' = AfterSend(t.peer, sent)
        /\ CASE sent -> End(t)
             [] ~sent /\ t.at = "queued" -> Go(t, "rollback")
             [] OTHER -> Go(t, "cleanup")
    /\ UNCHANGED <<cl, local, wire, sock, held, tableVars, chanVars, queue, noteVars, lis, fin, setup>>

UndoNotify(t) ==
    /\ IsNotify(t, "rollback")
    /\ notes' = RollbackNotify(NoteOf(t))
    /\ Go(t, "cleanup")
    /\ UNCHANGED <<clientVars, socketVars, tableVars, chanVars, queue, seq, taken, lis, fin, setup>>

NotifyFailed(t) ==
    /\ IsNotify(t, "cleanup")
    /\ IF IsUsable(t.peer) THEN UNCHANGED <<conn, gone, clients, queue>>
       ELSE CleanupClient(t.peer, conn)
    /\ End(t)
    /\ UNCHANGED <<clientVars, sock, held, pending, late, chanVars, noteVars, lis, fin, setup>>

GetNotifies ==
    /\ notes # <<>>
    /\ taken' = taken \o notes
    /\ notes' = <<>>
    /\ UNCHANGED <<clientVars, socketVars, tableVars, chanVars, queue, tasks, seq, lis, fin, setup>>

-----------------------------------------------------------------------------
(* Finalize. *)

StopListener ==
    /\ setup.stops
    /\ fin = "no"
    /\ fin' = "stop"
    /\ UNCHANGED <<clientVars, socketVars, tableVars, chanVars, queue, tasks, noteVars, lis, setup>>

\* The listener has been joined: ShutdownAllClients.
ShutdownAllClients ==
    /\ fin = "stop"
    /\ lis.at = "top"
    /\ fin' = "shut"
    /\ conn' = [p \in Peers |-> IF conn[p].fd # NoFd THEN [conn[p] EXCEPT !.shut = TRUE] ELSE conn[p]]
    /\ UNCHANGED <<clientVars, sock, held, tableVars, chanVars, queue, tasks, noteVars, lis, setup>>

\* MsgHandler::Finalize: no further request is dispatched ...
StopHandler ==
    /\ fin = "shut"
    /\ fin' = "join"
    /\ UNCHANGED <<clientVars, socketVars, tableVars, chanVars, queue, tasks, noteVars, lis, setup>>

\* ... what no worker has begun may stay undone ...
DropTask(t) ==
    /\ fin = "join"
    /\ t.at = "start"
    /\ End(t)
    /\ UNCHANGED <<clientVars, socketVars, tableVars, chanVars, queue, noteVars, lis, fin, setup>>

\* ... and with the workers joined CloseAllClients, then the endpoints, which
\* destroy the channels they still have.
CloseAllClients ==
    /\ fin = "join"
    /\ tasks = {}
    /\ fin' = "done"
    /\ queue' = <<>>
    /\ LET open == {pending[f] : f \in Fds} \cup {clients[f] : f \in Fds} \cup gone
       IN  /\ sock' = [f \in DOMAIN sock |-> IF sock[f] \in open THEN 0 ELSE sock[f]]
           /\ conn' = [p \in Peers |-> IF p \in open THEN [conn[p] EXCEPT !.fd = NoFd] ELSE conn[p]]
    /\ pending' = [f \in Fds |-> 0]
    /\ clients' = [f \in Fds |-> 0]
    /\ gone' = {}
    /\ channels' = {}
    /\ epch' = {}
    /\ lost' = {}
    /\ UNCHANGED <<clientVars, held, late, tasks, noteVars, lis, setup>>

-----------------------------------------------------------------------------

Init ==
    /\ setup \in Setups
    /\ cl = [p \in Peers |-> "idle"]
    /\ local = {}
    /\ wire = [p \in Peers |-> <<>>]
    /\ got = [p \in Peers |-> <<>>]
    /\ sock = [f \in Fds \cup {NoFd} |-> 0]
    /\ conn = [p \in Peers |-> [fd |-> NoFd, usable |-> TRUE, shut |-> FALSE, flights |-> 0]]
    /\ held = {}
    /\ pending = [f \in Fds |-> 0]
    /\ late = {}
    /\ clients = [f \in Fds |-> 0]
    /\ gone = {}
    /\ channels = {}
    /\ epch = {}
    /\ lost = {}
    /\ queue = <<>>
    /\ tasks = {}
    /\ notes = <<>>
    /\ seq = [last |-> 0, of |-> [n \in Peers \X {"notify", "renotify"} |-> 0]]
    /\ taken = <<>>
    /\ lis = [at |-> "top", ev |-> {}, accept |-> FALSE, who |-> 0, hup |-> FALSE]
    /\ fin = "no"

ClientStep(p) == ClientConnect(p) \/ ClientSend(p) \/ ClientReceive(p) \/ SendNotifyAgain(p) \/ ClientClose(p)

ListenerStep ==
    \/ \E p \in Peers : ProcessPendingMsg(p)
    \/ Wait
    \/ \E e \in lis.ev : HandleClientEvent(e)
    \/ HandleClient
    \/ BatchDone
    \/ AcceptClient

TaskStep(t) ==
    \/ Answer(t)
    \/ CreateChannel(t) \/ TrackChannelIfConnected(t) \/ CreateChannelResp(t) \/ DropOrphan(t)
    \/ CloseGone(t) \/ ForgetChannel(t) \/ DestroyChannel(t) \/ EraseGone(t)
    \/ EnqueueNotify(t) \/ SendNotifyAck(t) \/ UndoNotify(t) \/ NotifyFailed(t)
    \/ DropTask(t)

FinalizeStep == ShutdownAllClients \/ StopHandler \/ CloseAllClients

Finished ==
    /\ fin = IF setup.stops THEN "done" ELSE "no"
    /\ \A p \in Peers : cl[p] \in {"idle", "gone"}
    /\ UNCHANGED vars

Next ==
    \/ \E p \in Peers : ClientStep(p) \/ Deadline(p)
    \/ ListenerStep
    \/ Dispatch
    \/ \E t \in tasks : TaskStep(t)
    \/ GetNotifies
    \/ StopListener
    \/ FinalizeStep
    \/ Finished

Spec == Init /\ [][Next]_vars

-----------------------------------------------------------------------------

TypeOK ==
    /\ cl \in [Peers -> {"idle", "syn", "match", "export", "create", "notify", "renotify", "up", "reup", "gone"}]
    /\ sock \in [Fds \cup {NoFd} -> Peers \cup {0}]
    /\ local \subseteq Peers /\ held \subseteq Peers /\ late \subseteq Peers
    /\ pending \in [Fds -> Peers \cup {0}]
    /\ clients \in [Fds -> Peers \cup {0}]

\* Nothing is left for the server's threads to do.
Quiet ==
    /\ fin = "no" /\ lis.at = "top" /\ Ready = {} /\ Backlog = {}
    /\ queue = <<>> /\ tasks = {}

\* Every channel at the endpoint is recorded for a client that is connected or
\* being cleaned up, or in the hands of a worker, or one the driver would not
\* destroy (CreateChannel, CleanupClient and DestroyChannel run on different
\* threads). When the threads have come to rest, of a client that has gone there
\* is neither a descriptor nor a channel left, nor of any after Finalize.
ChannelsExact ==
    /\ \A p \in epch :
        \/ p \in channels \/ p \in lost
        \/ \E t \in tasks : t.peer = p /\ t.at \in {"made", "orphan", "found"}
    /\ channels \subseteq epch
    /\ \A p \in channels : p \in gone \/ IsClient(p)
    /\ Quiet => \A p \in Peers : cl[p] = "gone" => conn[p].fd = NoFd /\ p \notin channels \cup (epch \ lost)
    /\ fin = "done" => epch = {} /\ \A f \in Fds : sock[f] = 0

\* A descriptor's number never confuses two connections: the tables of the
\* listener name the connection that owns the number, a reply reaches the
\* client whose request it answers, and no connection is dropped because of
\* what happened to another one.
OwnTraffic ==
    /\ \A f \in Fds :
        /\ pending[f] = 0 \/ clients[f] = 0
        /\ pending[f] # 0 => sock[f] = pending[f] /\ conn[pending[f]].fd = f
        /\ clients[f] # 0 => sock[f] = clients[f] /\ conn[clients[f]].fd = f
    /\ \A p \in Peers :
        /\ \A i \in DOMAIN got[p] : got[p][i].for[1] = p
        /\ conn[p].flights \in {1, 2} /\ ~IsClient(p) /\ (\A f \in Fds : pending[f] # p)
            => cl[p] = "gone" \/ p \in late \/ ~conn[p].usable \/ fin \notin {"no", "stop"}

=============================================================================
