------------------------------- MODULE MCAdxl -------------------------------
(***************************************************************************)
(* The ADXL engine for TLC: its two ways to move data, direct transfers on *)
(* the slots of a device and transfers relayed through buffers, and the    *)
(* channels between engines.  Nothing of one is read by another, so a      *)
(* behaviour is about one of them and leaves the others at their start.    *)
(***************************************************************************)
EXTENDS AdxlChannels, TLC

CONSTANTS
    Ways,                                          \* what a behaviour may be about
    MaxSlots, Flags, NoSlot, Remotes, Reqs, NoReq, NoChannel, NoFlag, MaxConnects, DirectSetups,
    n1, n2, r1, r2, r3,
    BufferSize, BlockSize, k1, k2, b1, b2, ServerBuffers, NoBuffer, RelaySetups,
    e1, e2, e3, t1, t2

VARIABLES
    about,
    relay, kind, at, part, cur, tracked, cbuf, cidle, sbuf, sidle, lost, dst, reqs, first,
    seconds, second, ctrls, resps, down,
    direct, pool, flag, named, born, channel, rpc, dheld, done, result, early

-----------------------------------------------------------------------------
Setup(to, connects, max, failFast, autoConnect, noMemory) ==
    [to |-> to, connects |-> connects, max |-> max, failFast |-> failFast,
     autoConnect |-> autoConnect, noMemory |-> noMemory]

Both == r1 :> n1 @@ r2 :> n2
Three == r1 :> n1 @@ r2 :> n1 @@ r3 :> n2

(***************************************************************************)
(* Two channels that compete for one slot and are replaced by others of    *)
(* the same name; two channels with a slot each; three transfers on two    *)
(* channels, where a flag may not be allocated and the channel, which has  *)
(* other transfers in flight, becomes unavailable: another channel takes   *)
(* over its slot.                                                          *)
(***************************************************************************)
Directs ==
    {Setup(Both, 2, 1, TRUE, TRUE, FALSE), Setup(Both, 1, 2, FALSE, FALSE, TRUE),
     Setup(Three, 1, 1, TRUE, FALSE, TRUE)}

AT == INSTANCE AdxlTransfers WITH
    Setups <- DirectSetups, setup <- direct, chan <- named, obj <- channel, pc <- rpc,
    held <- dheld

ASSUME DirectsAgree == AT!TransferAssumption /\ AT!SlotAssumption

-----------------------------------------------------------------------------
Packing == INSTANCE BufferPacking

Relay(calls, buffers, lens) ==
    [calls |-> calls, buffers |-> buffers, lens |-> lens, parts |-> Len(Packing!Parts(lens))]

(***************************************************************************)
(* A call of two operations, one of them in two parts, and two calls that  *)
(* share a buffer.                                                         *)
(***************************************************************************)
Relays == {Relay({k1}, {b1, b2}, <<2, 5>>), Relay({k1, k2}, {b1}, <<3>>)}

Shared == {Relay({k1, k2}, {b1}, <<3>>)}

(***************************************************************************)
(* Up to three operations, from empty ones to three buffers and a bit.     *)
(***************************************************************************)
UpToThree == UNION {[1..n -> {0, 1, 2, 3, 4, 5, 7, 13}] : n \in 1..3}

BT == INSTANCE BufferTransfer WITH
    Calls <- {k1, k2}, ClientBuffers <- {b1, b2}, Setups <- RelaySetups, OpLists <- UpToThree,
    setup <- relay, pc <- at

ASSUME RelaysAgree == BT!SizesPositive /\ BT!BufferAssumption

-----------------------------------------------------------------------------
(***************************************************************************)
(* The two loops of SelectEvictionCandidates, step by step.  The ASSUME    *)
(* compares the numbers they take with ClientPicks and ServerPicks, for    *)
(* up to LoopBound channels of each type and any need_expire up to one     *)
(* more than there are channels.                                           *)
(***************************************************************************)
LoopBound == 6

RECURSIVE TakeInTurn(_, _, _, _)
TakeInTurn(taken, left, more, client) ==
    IF more = 0 \/ left = <<0, 0>> THEN taken
    ELSE LET side == IF client THEN 1 ELSE 2
             got == IF left[side] > 0 THEN 1 ELSE 0 IN
         TakeInTurn([taken EXCEPT ![side] = @ + got], [left EXCEPT ![side] = @ - got],
                    more - 1, ~client)

TakeExtra(clients, servers, more) ==
    LET extra == PickExtra(clients, servers, more) IN
    IF clients > servers THEN <<extra, 0>> ELSE <<0, extra>>

SelectLoops(clients, servers, more) ==
    LET extra == TakeExtra(clients, servers, more) IN
    TakeInTurn(extra, <<clients - extra[1], servers - extra[2]>>, more - extra[1] - extra[2], TRUE)

ASSUME LoopsAgree ==
    \A m, n \in 0..LoopBound : \A more \in 0..(m + n + 1) :
      SelectLoops(m, n, more) = <<ClientPicks(m, n, more), ServerPicks(m, n, more)>>

(***************************************************************************)
(* Engine e1 has two channels at the start, its high mark, and the next    *)
(* connection makes it evict one, while calls use or remake them.          *)
(***************************************************************************)
Deployment(links, one, other, auto, attempts) ==
    [links |-> links, auto |-> auto, attempts |-> attempts,
     kind |-> t1 :> one[1] @@ t2 :> other[1],
     from |-> t1 :> one[2] @@ t2 :> other[2],
     to   |-> t1 :> one[3] @@ t2 :> other[3]]

\* e3 connects to e1, which is connected with e2 both ways.
Accepting(other, auto) ==
    Deployment(<<<<e1, e2>>, <<e2, e1>>>>, <<"connect", e3, e1>>, other, auto, 3)

\* e1, which is connected with e2 both ways, connects to e3.
Connecting(other, auto) ==
    Deployment(<<<<e1, e2>>, <<e2, e1>>>>, <<"connect", e1, e3>>, other, auto, 3)

\* Two calls of e1 about its channel to e2.
Retrying(links, one, other, auto) ==
    Deployment(links, <<one, e1, e2>>, <<other, e1, e2>>, auto, Len(links) + 2)

ChannelSetups ==
    {Accepting(<<"transfer", e1, e2>>, FALSE), Accepting(<<"transfer", e2, e1>>, FALSE),
     Connecting(<<"transfer", e2, e1>>, FALSE),
     Retrying(<<>>, "connect", "transfer", TRUE),
     Retrying(<<<<e1, e2>>, <<e2, e1>>>>, "disconnect", "transfer", TRUE)}

-----------------------------------------------------------------------------
relayVars == <<relay, kind, at, part, cur, tracked, cbuf, cidle, sbuf, sidle, lost, dst, reqs,
               first, seconds, second, ctrls, resps, down>>
directVars == <<direct, early, pool, flag, named, born, channel, rpc, dheld, result, done>>
all == <<about, vars, relayVars, directVars>>

MCInit ==
    /\ about \in Ways
    /\ AT!Init /\ BT!Init /\ Init
    /\ about # "direct" => direct = CHOOSE s \in DirectSetups : TRUE
    /\ about # "relayed" =>
          relay = (CHOOSE s \in RelaySetups : TRUE) /\ kind = [k \in {k1, k2} |-> "read"]
    /\ about # "channels" => setup = CHOOSE s \in Setups : TRUE

MCNext ==
    /\ UNCHANGED about
    /\ \/ about = "direct" /\ AT!Next /\ UNCHANGED <<relayVars, vars>>
       \/ about = "relayed" /\ BT!Next /\ UNCHANGED <<vars, directVars>>
       \/ about = "channels" /\ Next /\ UNCHANGED <<directVars, relayVars>>

(***************************************************************************)
(* The fairness of each part, for the behaviours that are about it.  As    *)
(* about never changes, one conjunct stands for a step of each part.       *)
(***************************************************************************)
DirectStep(A) == about = "direct" /\ A /\ UNCHANGED <<about, relayVars, vars>>
RelayStep(A) == about = "relayed" /\ A /\ UNCHANGED <<about, directVars, vars>>
ChannelStep(A) == about = "channels" /\ A /\ UNCHANGED <<about, directVars, relayVars>>

MCSpec ==
    /\ MCInit /\ [][MCNext]_all
    /\ WF_all(ChannelStep(Next) \/ RelayStep(BT!FirstStep) \/ DirectStep(AT!Call(r1)))
    /\ WF_all(RelayStep(BT!SecondStep) \/ DirectStep(AT!Call(r2)))
    /\ WF_all(RelayStep(BT!HandleCtrlMsg) \/ DirectStep(AT!Call(r3)))
    /\ WF_all(RelayStep(BT!HandleBufferResp) \/ DirectStep(AT!GetTransferStatus(r1)))
    /\ WF_all(RelayStep(BT!Client(k1)) \/ DirectStep(AT!GetTransferStatus(r2)))
    /\ WF_all(RelayStep(BT!Client(k2)) \/ DirectStep(AT!GetTransferStatus(r3)))
    /\ \A i \in 1..MaxSlots : WF_all(DirectStep(AT!Device(i)))

-----------------------------------------------------------------------------
(***************************************************************************)
(* Transfer drops the status of DoTransferTask and reports what is left in *)
(* req_id_buffers_: a relayed call that returns SUCCESS has nevertheless   *)
(* moved every part.                                                       *)
(***************************************************************************)
SuccessMeansDelivered == about = "relayed" => BT!SuccessMeansDelivered

(***************************************************************************)
(* A relayed call that returns SUCCESS has moved every part, and the right *)
(* data unless a read of another call timed out; the parts of a call carry *)
(* every byte exactly once.                                                *)
(***************************************************************************)
DeliveredExactly ==
    about = "relayed" => BT!DeliveredUnlessDisturbed /\ BT!BytesPackedOnce

(***************************************************************************)
(* Data of another part only gets to a destination through a call that     *)
(* timed out while the server worked for it.                               *)
(***************************************************************************)
ForeignDataIsLate == about = "relayed" => BT!ForeignDataIsLate

(***************************************************************************)
(* Every relay buffer of client and server is idle, lost or held once.     *)
(***************************************************************************)
BuffersExact == about = "relayed" => BT!BuffersExact

(***************************************************************************)
(* What a caller of a direct transfer is told: a completed transfer was    *)
(* carried out, and a copy that is still to be made goes to the flag of    *)
(* its own request; but for a transfer whose record was released early.    *)
(***************************************************************************)
CompletedExactly == about = "direct" => AT!CompletedMeansDone /\ AT!CopiesHaveRecords

(***************************************************************************)
(* A caller that keeps asking for a direct transfer gets a final answer    *)
(* unless an operation on the stream of its open channel failed, and no    *)
(* stage of a relayed transfer keeps its server buffer for ever.           *)
(***************************************************************************)
TransfersEnd ==
    <>[]CASE about = "direct" -> AT!OnlyStuckWait
          [] about = "relayed" -> BT!BuffersBack
          [] OTHER -> TRUE

(***************************************************************************)
(* The books of the slot pool are right.                                   *)
(***************************************************************************)
SlotsExact == about = "direct" => AT!SlotsExact

(***************************************************************************)
(* Every channel of an engine has its own open connection.                 *)
(***************************************************************************)
ChannelsExact == about = "channels" => SocketsExact

(***************************************************************************)
(* A channel flagged for eviction is in the hands of an eviction.          *)
(***************************************************************************)
FlagsKept == about = "channels" => FlagsAccounted

(***************************************************************************)
(* A channel whose peer is gone does not stay.                             *)
(***************************************************************************)
OrphansGo == <>[](about = "channels" => OrphansGone)

(***************************************************************************)
(* The eviction does not destroy a channel with a transfer.                *)
(***************************************************************************)
BusySpared == [][SparesBusy]_all
=============================================================================
