--------------------------- MODULE AsyncConnects ---------------------------
(***************************************************************************)
(* What ConnectAsync and DisconnectAsync promise: the operations accepted  *)
(* for one remote engine run one at a time and in the order in which they  *)
(* were submitted; operations for different remotes are independent.       *)
(***************************************************************************)
EXTENDS Sequences

CONSTANTS Remotes, Idle

VARIABLES
  queue,   \* remote -> operations accepted and not started, oldest first
  active,  \* remote -> the operation under way, or Idle
  accepting

vars == <<queue, active, accepting>>

Kinds == {"connect", "disconnect"}

Init ==
  /\ queue = [r \in Remotes |-> <<>>]
  /\ active = [r \in Remotes |-> Idle]
  /\ accepting = TRUE

Accept(r, k) ==
  /\ accepting
  /\ queue' = [queue EXCEPT ![r] = Append(@, k)]
  /\ UNCHANGED <<active, accepting>>

Start(r) ==
  /\ accepting
  /\ active[r] = Idle
  /\ queue[r] # <<>>
  /\ active' = [active EXCEPT ![r] = Head(queue[r])]
  /\ queue' = [queue EXCEPT ![r] = Tail(@)]
  /\ UNCHANGED accepting

End(r) ==
  /\ active[r] # Idle
  /\ active' = [active EXCEPT ![r] = Idle]
  /\ UNCHANGED <<queue, accepting>>

Close == accepting /\ accepting' = FALSE /\ UNCHANGED <<queue, active>>

Next ==
  \/ \E r \in Remotes : Start(r) \/ End(r) \/ \E k \in Kinds : Accept(r, k)
  \/ Close

Spec == Init /\ [][Next]_vars
=============================================================================
