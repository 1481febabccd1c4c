---------------------------- MODULE AdxlEviction ----------------------------
(***************************************************************************)
(* Which channels an ADXL engine evicts: NotifyEviction and                *)
(* SelectEvictionCandidates of                                             *)
(* src/src/llm_datadist/adxl/channel_msg_handler.cc.                       *)
(***************************************************************************)
EXTENDS Integers, TLAPS

CONSTANTS
    LowMark,     \* low_waterline_
    HighMark,    \* high_waterline_
    MaxChannel   \* max_channel_

\* What ParseChannelPoolConfig accepts.
ASSUME WaterlineAssumption ==
    /\ LowMark \in Nat \ {0} /\ HighMark \in Nat /\ MaxChannel \in Nat
    /\ LowMark < HighMark /\ HighMark < MaxChannel

Least(a, b) == IF a < b THEN a ELSE b

NeedExpire(total) == IF total >= HighMark THEN total - LowMark ELSE 0

(***************************************************************************)
(* The first loop takes from the larger side until both are equal, the     *)
(* second one takes from the sides in turn, a client channel first.        *)
(***************************************************************************)
PickExtra(clients, servers, need) ==
    Least(IF clients > servers THEN clients - servers ELSE servers - clients, need)

ClientPicks(clients, servers, need) ==
    LET extra == PickExtra(clients, servers, need)
        first == IF clients > servers THEN extra ELSE 0 IN
    first + Least(clients - first, (need - extra + 1) \div 2)

ServerPicks(clients, servers, need) ==
    LET extra == PickExtra(clients, servers, need)
        first == IF clients > servers THEN 0 ELSE extra IN
    first + Least(servers - first, (need - extra) \div 2)

-----------------------------------------------------------------------------
(* What SelectEvictionCandidates returns, for every number of channels and *)
(* every need_expire, the ones that were out of date when used included.   *)

LEMMA HalvesAddUp ==
    ASSUME NEW n \in Nat
    PROVE  /\ (n + 1) \div 2 \in Nat /\ n \div 2 \in Nat
           /\ (n + 1) \div 2 + n \div 2 = n
           /\ n \div 2 <= (n + 1) \div 2 /\ (n + 1) \div 2 <= n \div 2 + 1
  BY SMT

(***************************************************************************)
(* The two loops together take exactly need_expire channels, or all there  *)
(* are: the turn that a side without channels would lose in the second     *)
(* loop never comes too early.  Neither side gives more than it has.       *)
(***************************************************************************)
THEOREM PicksAddUp ==
    ASSUME NEW c \in Nat, NEW s \in Nat, NEW need \in Nat
    PROVE  /\ ClientPicks(c, s, need) \in 0..c
           /\ ServerPicks(c, s, need) \in 0..s
           /\ ClientPicks(c, s, need) + ServerPicks(c, s, need) = Least(need, c + s)
  <1> DEFINE extra == PickExtra(c, s, need)
             rest  == need - extra
  <1>1. extra \in Nat /\ rest \in Nat
    BY SMT DEF PickExtra, Least
  <1>2. /\ (rest + 1) \div 2 \in Nat /\ rest \div 2 \in Nat
        /\ (rest + 1) \div 2 + rest \div 2 = rest
        /\ rest \div 2 <= (rest + 1) \div 2 /\ (rest + 1) \div 2 <= rest \div 2 + 1
    BY <1>1, HalvesAddUp
  <1> DEFINE up == (rest + 1) \div 2
             down == rest \div 2
  <1>3. /\ up \in Nat /\ down \in Nat /\ up + down = rest
        /\ down <= up /\ up <= down + 1
    BY <1>2
  <1>4. /\ ClientPicks(c, s, need) = (IF c > s THEN extra ELSE 0)
                                       + Least(c - (IF c > s THEN extra ELSE 0), up)
        /\ ServerPicks(c, s, need) = (IF c > s THEN 0 ELSE extra)
                                       + Least(s - (IF c > s THEN 0 ELSE extra), down)
    BY DEF ClientPicks, ServerPicks
  <1>5. extra = Least(IF c > s THEN c - s ELSE s - c, need) /\ rest = need - extra
    BY DEF PickExtra
  <1> HIDE DEF extra, rest, up, down
  <1>6. CASE c > s
    BY <1>1, <1>3, <1>4, <1>5, <1>6, SMT DEF Least
  <1>7. CASE ~(c > s)
    BY <1>1, <1>3, <1>4, <1>5, <1>7, SMT DEF Least
  <1> QED
    BY <1>6, <1>7

(***************************************************************************)
(* An eviction that counted its channels correctly brings the engine back  *)
(* to low_waterline_: NotifyEviction flags total - low_waterline_ channels.*)
(***************************************************************************)
THEOREM EvictsDownToLow ==
    ASSUME NEW c \in Nat, NEW s \in Nat, c + s >= HighMark
    PROVE  ClientPicks(c, s, NeedExpire(c + s)) + ServerPicks(c, s, NeedExpire(c + s))
             = c + s - LowMark
  <1>1. NeedExpire(c + s) = c + s - LowMark /\ c + s - LowMark \in Nat /\ LowMark \in Nat
    BY WaterlineAssumption, SMT DEF NeedExpire
  <1>2. Least(c + s - LowMark, c + s) = c + s - LowMark
    BY <1>1, SMT DEF Least
  <1> QED
    BY <1>1, <1>2, PicksAddUp
=============================================================================
