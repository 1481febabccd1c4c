---------------------------- MODULE AdxlSlotPool ----------------------------
(***************************************************************************)
(* TransferSlotPool of src/src/llm_datadist/adxl/transfer_slot_pool.cc.    *)
(*                                                                         *)
(* A pool is a record: made is the size of slots_, free counts how often   *)
(* an index is in free_list_, slot holds what is known of a slot.  Every   *)
(* method runs under mu_, so it is a function from a pool to the set of    *)
(* the pools it may leave.  The order of free_list_ is left open.          *)
(***************************************************************************)
EXTENDS Naturals

CONSTANTS
    MaxSlots,  \* the largest max_slot_num_ considered
    Flags,     \* host-pinned completion flags
    NoSlot     \* no SlotHandle

SlotAssumption == MaxSlots \in Nat \ {0} /\ NoSlot \notin 1..MaxSlots

Indices == 1..MaxSlots

(***************************************************************************)
(* ready: the context and its stream exist; stream: what the device has    *)
(* still to do there; halted: an operation failed and ACL_STOP_ON_FAILURE  *)
(* stopped the stream; flags: host_flag_free_list.                         *)
(***************************************************************************)
Blank == [in_use |-> FALSE, ready |-> FALSE, stream |-> <<>>, halted |-> FALSE, flags |-> {}]

Fresh == [made |-> 0, free |-> [i \in Indices |-> 0], slot |-> [i \in Indices |-> Blank]]

(***************************************************************************)
(* Acquire: an index of the free list, or a new one up to max_slot_num_.   *)
(* A slot without a context gets one; when that fails the index goes to    *)
(* the free list.                                                          *)
(***************************************************************************)
Taken(p, max) ==
    IF \E i \in Indices : p.free[i] > 0
    THEN {[pool |-> [p EXCEPT !.free[i] = @ - 1], slot |-> i] : i \in {j \in Indices : p.free[j] > 0}}
    ELSE {[pool |-> [p EXCEPT !.made = i], slot |-> i] : i \in {p.made + 1} \cap 1..max}

InitSlotFails(t) == [t EXCEPT !.pool.free[t.slot] = @ + 1, !.slot = NoSlot]

Acquire(p, max) ==
    LET taken == Taken(p, max) IN
    {[t EXCEPT !.pool.slot[t.slot].in_use = TRUE, !.pool.slot[t.slot].ready = TRUE] : t \in taken}
      \cup {InitSlotFails(t) : t \in {u \in taken : ~u.pool.slot[u.slot].ready}}
      \cup {[pool |-> p, slot |-> NoSlot] : x \in {y \in {0} : taken = {}}}

Release(p, i) ==
    IF p.slot[i].in_use THEN [p EXCEPT !.slot[i].in_use = FALSE, !.free[i] = @ + 1] ELSE p

(***************************************************************************)
(* Abort stops the stream, destroys the context and the flags of the free  *)
(* list, tries to make a new context and gives the index back either way.  *)
(***************************************************************************)
Abort(p, i) ==
    {[p EXCEPT !.slot[i] = [Blank EXCEPT !.ready = b], !.free[i] = @ + 1] : b \in BOOLEAN}

(***************************************************************************)
(* AcquireHostFlag takes a flag of the slot or allocates one; the values   *)
(* of the flags are kept by the module that uses the pool.                 *)
(***************************************************************************)
HostFlags(p, i, allocated) ==
    IF p.slot[i].flags # {} THEN p.slot[i].flags ELSE Flags \ allocated

AcquireHostFlag(p, i, f) == [p EXCEPT !.slot[i].flags = @ \ {f}]

ReleaseHostFlag(p, i, f) == [p EXCEPT !.slot[i].flags = @ \cup {f}]
=============================================================================
