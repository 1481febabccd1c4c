--------------------------- MODULE BufferTransfer ---------------------------
(***************************************************************************)
(* Transfers that are relayed through device buffers of both sides:        *)
(* BufferTransferService of                                                *)
(* src/src/llm_datadist/adxl/buffer_transfer_service.cc.                   *)
(*                                                                         *)
(* A call cuts its operations into parts (BufferPacking).  For each part   *)
(* it takes a buffer of its own pool and sends a request over the channel. *)
(* Three threads of the server serve it: the first step fills a server     *)
(* buffer, the second one empties it, the control step gives it back and   *)
(* answers.  The answer lets the client give its buffer back.              *)
(*                                                                         *)
(* Data is a tag: the part <<call, number>> it belongs to.  Socket and     *)
(* receiving queue of a direction are one FIFO queue.                      *)
(***************************************************************************)
EXTENDS Naturals, Sequences, FiniteSets, BufferPacking

CONSTANTS
    Calls,          \* calls of Transfer; each is made at most once
    ClientBuffers,  \* npu_mem_pools_[0] of the client
    ServerBuffers,  \* npu_mem_pools_[1] of the server
    NoBuffer,       \* a null address
    Setups,         \* calls, buffers, lens, number of parts
    OpLists         \* the lists of operations the packing is checked for

BufferAssumption ==
    /\ NoBuffer \notin ClientBuffers \cup ServerBuffers
    /\ \A x \in Setups : x.parts = Len(Parts(x.lens))

VARIABLES
    setup,
    kind,     \* the direction of each call
    pc,       \* where the call is
    part,     \* the part it is at
    cur,      \* the buffer it holds for that part
    tracked,  \* req_id_buffers_
    cbuf,     \* contents of the client's buffers
    cidle,    \* buff_addr_idles_[0]
    sbuf,     \* contents of the server's buffers
    sidle,    \* buff_addr_idles_[1]
    lost,     \* server buffers that nobody gives back any more
    dst,      \* the destination of each part
    reqs,     \* BufferReq messages and buffer_req_queue_
    first,    \* the request ProcessBufferReqFirstStep works on, if any
    seconds,  \* buffer_second_step_queue_
    second,   \* the request ProcessBufferReqSecondStep works on, if any
    ctrls,    \* buffer_ctrl_msg_queue_
    resps,    \* BufferResp messages and buffer_resp_queue_
    down      \* the channel is finalized

given == <<setup, kind>>
callVars == <<given, pc, part, cur>>
clientVars == <<tracked, cbuf, cidle>>
serverVars == <<sbuf, sidle, lost, first, seconds, second, ctrls>>
vars == <<callVars, clientVars, serverVars, dst, reqs, resps, down>>

N == setup.parts
Tags == Calls \X (1..N)
Junk == <<>>
PartReqs == [c : Calls, p : 1..N, b : ClientBuffers, s : ServerBuffers \cup {NoBuffer}]
Tag(r) == <<r.c, r.p>>
Working == {"take", "copy", "send", "wait"}

Init ==
    /\ setup \in Setups
    /\ kind \in {k \in [Calls -> {"read", "write"}] : \A c \in Calls \ setup.calls : k[c] = "read"}
    /\ pc = [c \in Calls |-> "idle"]
    /\ part = [c \in Calls |-> 1]
    /\ cur = [c \in Calls |-> NoBuffer]
    /\ tracked = [c \in Calls |-> {}]
    /\ cbuf = [b \in ClientBuffers |-> Junk]
    /\ cidle = setup.buffers
    /\ sbuf = [s \in ServerBuffers |-> Junk]
    /\ sidle = ServerBuffers
    /\ lost = {}
    /\ dst = [t \in Tags |-> "old"]
    /\ reqs = <<>> /\ seconds = <<>> /\ ctrls = <<>> /\ resps = <<>>
    /\ first = <<>> /\ second = <<>>
    /\ down = FALSE

-----------------------------------------------------------------------------
(***************************************************************************)
(* The client: Transfer and DoTransferTask.                                *)
(***************************************************************************)
Transfer(c) ==
    /\ pc[c] = "idle" /\ c \in setup.calls
    /\ pc' = [pc EXCEPT ![c] = "take"]
    /\ UNCHANGED <<given, part, cur, clientVars, serverVars, dst, reqs, resps, down>>

(***************************************************************************)
(* TryGetBuffer takes an idle buffer, which joins req_id_buffers_; a call  *)
(* that finds none tries again until its time is over.                     *)
(***************************************************************************)
TryGetBuffer(c) ==
    /\ pc[c] = "take"
    /\ \E b \in cidle :
         /\ cidle' = cidle \ {b}
         /\ cur' = [cur EXCEPT ![c] = b]
         /\ tracked' = [tracked EXCEPT ![c] = @ \cup {b}]
    /\ pc' = [pc EXCEPT ![c] = IF kind[c] = "write" THEN "copy" ELSE "send"]
    /\ UNCHANGED <<given, part, cbuf, serverVars, dst, reqs, resps, down>>

(***************************************************************************)
(* ProcessCopy of FlushBatch and TransferLargeData.                        *)
(***************************************************************************)
ProcessCopy(c) ==
    /\ pc[c] = "copy"
    /\ cbuf' = [cbuf EXCEPT ![cur[c]] = <<c, part[c]>>]
    /\ pc' = [pc EXCEPT ![c] = "send"]
    /\ UNCHANGED <<given, part, cur, tracked, cidle, serverVars, dst, reqs, resps, down>>

SendBufferReq(c) ==
    /\ pc[c] = "send"
    /\ reqs' = Append(reqs, [c |-> c, p |-> part[c], b |-> cur[c], s |-> NoBuffer])
    /\ pc' = [pc EXCEPT ![c] = IF part[c] = N THEN "wait" ELSE "take"]
    /\ part' = [part EXCEPT ![c] = IF @ = N THEN @ ELSE @ + 1]
    /\ UNCHANGED <<given, cur, clientVars, serverVars, dst, resps, down>>

\* Mutant: a failing part gives its buffer back at once.
PartFailsReleasing(c) ==
    /\ pc[c] \in {"copy", "send"}
    /\ pc' = [pc EXCEPT ![c] = "wait"]
    /\ tracked' = [tracked EXCEPT ![c] = @ \ {cur[c]}]
    /\ cidle' = cidle \cup {cur[c]}
    /\ UNCHANGED <<given, part, cur, cbuf, serverVars, dst, reqs, resps, down>>

(***************************************************************************)
(* The copy or the message fails.  DoTransferTask ends, Transfer logs its  *)
(* status and waits: the buffer of the failing part is never answered.     *)
(***************************************************************************)
PartFails(c) ==
    /\ pc[c] \in {"copy", "send"}
    /\ pc' = [pc EXCEPT ![c] = "wait"]
    /\ UNCHANGED <<given, part, cur, clientVars, serverVars, dst, reqs, resps, down>>

(***************************************************************************)
(* req_id_guard: what is tracked becomes idle, the request is forgotten.   *)
(***************************************************************************)
Leave(c, result) ==
    /\ pc' = [pc EXCEPT ![c] = result]
    /\ cidle' = cidle \cup tracked[c]
    /\ tracked' = [tracked EXCEPT ![c] = {}]
    /\ UNCHANGED <<given, part, cur, cbuf, serverVars, dst, reqs, resps, down>>

(***************************************************************************)
(* CheckReqFinishStatus: every buffer has been answered.                   *)
(***************************************************************************)
Succeed(c) == pc[c] = "wait" /\ tracked[c] = {} /\ Leave(c, "SUCCESS")

(***************************************************************************)
(* The time checks of all the steps of a call, any of which may fail; that *)
(* of Transfer itself fails whenever one of the others did.                *)
(***************************************************************************)
TimeOut(c) == pc[c] \in Working /\ Leave(c, "TIMEOUT")

-----------------------------------------------------------------------------
(***************************************************************************)
(* The server.  It measures time by itself: how long a request waited in a *)
(* queue of its own, and in every step against the time the request still  *)
(* carries.  Nothing relates that to the clock of the client, so each of   *)
(* these checks may fail or not, whether the call has timed out or not.  A *)
(* request the server gives up returns its buffer.                         *)
(***************************************************************************)
Returned(r) == sidle' = sidle \cup ({r.s} \ {NoBuffer})

(***************************************************************************)
(* PushBufferReq and the head of ProcessBufferReqFirstStep: a request with *)
(* too little time or of a finalized channel is dropped.                   *)
(***************************************************************************)
TakeFirst ==
    /\ first = <<>> /\ reqs # <<>>
    /\ reqs' = Tail(reqs)
    /\ \/ ~down /\ first' = <<Head(reqs)>>
       \/ UNCHANGED first
    /\ UNCHANGED <<callVars, clientVars, sbuf, sidle, lost, seconds, second, ctrls, dst, resps, down>>

(***************************************************************************)
(* TryGetServerBuffer, in HandleBufferD2D for a write and in               *)
(* PrepareServerCopyBuffer for a read.                                     *)
(***************************************************************************)
TryGetServerBuffer ==
    /\ first # <<>> /\ first[1].s = NoBuffer
    /\ \E s \in sidle : first' = <<[first[1] EXCEPT !.s = s]>> /\ sidle' = sidle \ {s}
    /\ UNCHANGED <<callVars, clientVars, sbuf, lost, seconds, second, ctrls, dst, reqs, resps, down>>

(***************************************************************************)
(* HandleBufferD2D reads the client's buffer for a write, HandleBufferCopy *)
(* collects the data of the server for a read.                             *)
(***************************************************************************)
Fill(r) == sbuf' = [sbuf EXCEPT ![r.s] = IF kind[r.c] = "write" THEN cbuf[r.b] ELSE Tag(r)]

(***************************************************************************)
(* The first step succeeds in time and hands over to the second one.       *)
(***************************************************************************)
FirstDone ==
    /\ first # <<>> /\ first[1].s # NoBuffer
    /\ kind[first[1].c] = "write" => ~down
    /\ Fill(first[1])
    /\ first' = <<>>
    /\ seconds' = Append(seconds, first[1])
    /\ UNCHANGED <<callVars, clientVars, sidle, lost, second, ctrls, dst, reqs, resps, down>>

(***************************************************************************)
(* PushSecondStepReq refuses the request for lack of time, after           *)
(* failed_guard was dismissed: its buffer is not given back.               *)
(***************************************************************************)
PushSecondStepReqFails ==
    /\ first # <<>> /\ first[1].s # NoBuffer
    /\ kind[first[1].c] = "write" => ~down
    /\ Fill(first[1])
    /\ first' = <<>>
    /\ lost' = lost \cup {first[1].s}
    /\ UNCHANGED <<callVars, clientVars, sidle, seconds, second, ctrls, dst, reqs, resps, down>>

\* Mutant: no guard gives the buffer of a failed request back.
FirstFailsUnguarded ==
    /\ first # <<>>
    /\ first' = <<>>
    /\ UNCHANGED <<callVars, clientVars, sbuf, sidle, lost, seconds, second, ctrls, dst, reqs, resps, down>>

(***************************************************************************)
(* The wait for a buffer times out, or the transfer into it fails:         *)
(* failed_guard.                                                           *)
(***************************************************************************)
FirstFails ==
    /\ first # <<>>
    /\ Returned(first[1])
    /\ first' = <<>>
    /\ UNCHANGED <<callVars, clientVars, sbuf, lost, seconds, second, ctrls, dst, reqs, resps, down>>

TakeSecond ==
    /\ second = <<>> /\ seconds # <<>>
    /\ seconds' = Tail(seconds)
    /\ \/ ~down /\ second' = <<Head(seconds)>> /\ UNCHANGED sidle
       \/ Returned(Head(seconds)) /\ UNCHANGED second
    /\ UNCHANGED <<callVars, clientVars, sbuf, lost, first, ctrls, dst, reqs, resps, down>>

Arrives(r, data) == dst' = [dst EXCEPT ![Tag(r)] = IF data = Tag(r) THEN "right" ELSE "wrong"]

(***************************************************************************)
(* HandleBufferCopy empties the server buffer of a write into the          *)
(* destination, HandleBufferD2D that of a read into the client's buffer.   *)
(***************************************************************************)
Empty(r) ==
    IF kind[r.c] = "write"
    THEN Arrives(r, sbuf[r.s]) /\ UNCHANGED cbuf
    ELSE cbuf' = [cbuf EXCEPT ![r.b] = sbuf[r.s]] /\ UNCHANGED dst

SecondDone ==
    /\ second # <<>>
    /\ kind[second[1].c] = "read" => ~down
    /\ Empty(second[1])
    /\ second' = <<>>
    /\ ctrls' = Append(ctrls, second[1])
    /\ UNCHANGED <<callVars, tracked, cidle, sbuf, sidle, lost, first, seconds, reqs, resps, down>>

(***************************************************************************)
(* It fails, before or after the data arrived.                             *)
(***************************************************************************)
SecondFails ==
    /\ second # <<>>
    /\ Empty(second[1]) \/ UNCHANGED <<cbuf, dst>>
    /\ Returned(second[1])
    /\ second' = <<>>
    /\ UNCHANGED <<callVars, tracked, cidle, sbuf, lost, first, seconds, ctrls, reqs, resps, down>>

(***************************************************************************)
(* ProcessCtrlMsg and HandleCtrlMsg: the buffer goes back; the answer is   *)
(* sent if there is time and the channel works.                            *)
(***************************************************************************)
HandleCtrlMsg ==
    /\ ctrls # <<>>
    /\ ctrls' = Tail(ctrls)
    /\ Returned(Head(ctrls))
    /\ \/ ~down /\ resps' = Append(resps, Head(ctrls))
       \/ UNCHANGED resps
    /\ UNCHANGED <<callVars, clientVars, sbuf, lost, first, seconds, second, dst, reqs, down>>

-----------------------------------------------------------------------------
\* Mutant: an answer is taken without a look at the request.
AwaitedAlways(r) == TRUE

(***************************************************************************)
(* HandleBufferResp knows the request and the buffer of an answer.         *)
(***************************************************************************)
Awaited(r) == r.b \in tracked[r.c]

(***************************************************************************)
(* PushBufferResp refuses an answer that is late.  ProcessBufferResp works *)
(* under req_id_mutex_: an answer that is not awaited is ignored, a read   *)
(* is copied to its destination, the buffer goes back.                     *)
(***************************************************************************)
HandleBufferResp ==
    /\ resps # <<>>
    /\ resps' = Tail(resps)
    /\ LET r == Head(resps) IN
         \/ /\ Awaited(r)
            /\ IF kind[r.c] = "read" THEN Arrives(r, cbuf[r.b]) ELSE UNCHANGED dst
            /\ tracked' = [tracked EXCEPT ![r.c] = @ \ {r.b}]
            /\ cidle' = cidle \cup {r.b}
         \/ UNCHANGED <<dst, tracked, cidle>>
    /\ UNCHANGED <<callVars, cbuf, serverVars, reqs, down>>

-----------------------------------------------------------------------------
(***************************************************************************)
(* CommChannel::Finalize of the server's channel.                          *)
(***************************************************************************)
FinalizeChannel ==
    /\ ~down
    /\ down' = TRUE
    /\ UNCHANGED <<callVars, clientVars, serverVars, dst, reqs, resps>>

Client(c) ==
    \/ TryGetBuffer(c) \/ ProcessCopy(c) \/ SendBufferReq(c) \/ PartFails(c)
    \/ Succeed(c) \/ TimeOut(c)
FirstStep == TakeFirst \/ TryGetServerBuffer \/ FirstDone \/ PushSecondStepReqFails \/ FirstFails
SecondStep == TakeSecond \/ SecondDone \/ SecondFails

Next ==
    \/ \E c \in Calls : Transfer(c) \/ Client(c)
    \/ FirstStep \/ SecondStep \/ HandleCtrlMsg \/ HandleBufferResp \/ FinalizeChannel

Spec == Init /\ [][Next]_vars

(***************************************************************************)
(* The threads of the service run and calls in progress go on.             *)
(***************************************************************************)
FairSpec ==
    /\ Spec
    /\ \A c \in Calls : WF_vars(Client(c))
    /\ WF_vars(FirstStep)
    /\ WF_vars(SecondStep)
    /\ WF_vars(HandleCtrlMsg)
    /\ WF_vars(HandleBufferResp)

-----------------------------------------------------------------------------
TypeOK ==
    /\ setup \in Setups
    /\ kind \in [Calls -> {"read", "write"}]
    /\ pc \in [Calls -> Working \cup {"idle", "SUCCESS", "TIMEOUT"}]
    /\ part \in [Calls -> 1..N]
    /\ cur \in [Calls -> ClientBuffers \cup {NoBuffer}]
    /\ tracked \in [Calls -> SUBSET ClientBuffers]
    /\ cbuf \in [ClientBuffers -> Tags \cup {Junk}]
    /\ cidle \subseteq ClientBuffers
    /\ sbuf \in [ServerBuffers -> Tags \cup {Junk}]
    /\ sidle \subseteq ServerBuffers /\ lost \subseteq ServerBuffers
    /\ dst \in [Tags -> {"old", "right", "wrong"}]
    /\ \A q \in {reqs, seconds, ctrls, resps, first, second} : \A i \in DOMAIN q : q[i] \in PartReqs
    /\ Len(first) <= 1 /\ Len(second) <= 1
    /\ down \in BOOLEAN

(***************************************************************************)
(* Transfer drops the status of DoTransferTask and reports what is left in *)
(* req_id_buffers_: a call that returns SUCCESS has nevertheless moved     *)
(* every part.                                                             *)
(***************************************************************************)
SuccessMeansDelivered ==
    \A c \in Calls : pc[c] = "SUCCESS" => \A p \in 1..N : dst[<<c, p>>] = "right"

(***************************************************************************)
(* A call that timed out gives its buffers back while the server may still *)
(* work on its requests.  The server may then put data of a read into a    *)
(* buffer that belongs to another call.                                    *)
(***************************************************************************)
Disturbed(c) == \E d \in Calls \ {c} : kind[d] = "read" /\ pc[d] = "TIMEOUT"

(***************************************************************************)
(* What SUCCESS is worth: every part was moved, and it is the right data   *)
(* unless a read of another call timed out.  Writes that time out never    *)
(* harm a call that succeeds.                                              *)
(***************************************************************************)
DeliveredUnlessDisturbed ==
    \A c \in Calls : pc[c] = "SUCCESS" =>
        \A p \in 1..N : dst[<<c, p>>] # "old" /\ (dst[<<c, p>>] = "wrong" => Disturbed(c))

(***************************************************************************)
(* The data of another part only gets to a destination through a call that *)
(* timed out: a write whose own buffer has a new owner when the server     *)
(* reads it, or a read of another call that overwrote the buffer.          *)
(***************************************************************************)
ForeignDataIsLate ==
    \A c \in Calls : \A p \in 1..N : dst[<<c, p>>] = "wrong" =>
        (kind[c] = "write" /\ pc[c] = "TIMEOUT") \/ Disturbed(c)

HeldBy(q) == [s \in ServerBuffers |-> Cardinality({i \in DOMAIN q : q[i].s = s})]

(***************************************************************************)
(* A client buffer is idle exactly when no request tracks it, and no two   *)
(* requests track one: answers, timeouts and failures release it once.  A  *)
(* server buffer is idle, lost by PushSecondStepReq, or held by exactly    *)
(* one request in one of the stages of the server.                         *)
(***************************************************************************)
BuffersExact ==
    /\ TypeOK
    /\ cidle = setup.buffers \ UNION {tracked[c] : c \in Calls}
    /\ \A c, d \in Calls : c # d => tracked[c] \cap tracked[d] = {}
    /\ \A s \in ServerBuffers :
      HeldBy(first \o seconds \o second \o ctrls)[s] = IF s \in sidle \cup lost THEN 0 ELSE 1

(***************************************************************************)
(* No stage of the server has a buffer in use.  As a call is made at most  *)
(* once, <>[]BuffersBack says that every buffer comes back or was lost,    *)
(* whatever fails and whoever waits for it.                                *)
(***************************************************************************)
BuffersBack == sidle \cup lost = ServerBuffers

(***************************************************************************)
(* The parts of a call carry every byte exactly once and pass the checks   *)
(* of the server; the packing needs no state, so it is looked at once.     *)
(***************************************************************************)
BytesPackedOnce ==
    (\A c \in Calls : pc[c] = "idle" /\ kind[c] = "read") /\ ~down
      => \A lens \in OpLists : PackedOnce(lens)
=============================================================================
