--------------------------- MODULE StarsRingProofs ---------------------------
(***************************************************************************)
(* Proofs about StarsRing for every depth of the ring and every size of    *)
(* batches and kernels.                                                    *)
(***************************************************************************)
EXTENDS StarsRing, TLAPS

(***************************************************************************)
(* The least of the three bounds of a chunk is one of them and no larger   *)
(* than the others.                                                        *)
(***************************************************************************)
LEMMA MinFacts ==
    ASSUME NEW a \in Nat, NEW b \in Nat, NEW c \in Nat
    PROVE  /\ Min({a, b, c}) \in Nat
           /\ Min({a, b, c}) <= a /\ Min({a, b, c}) <= b /\ Min({a, b, c}) <= c
           /\ a > 0 /\ b > 0 /\ c > 0 => Min({a, b, c}) > 0
<1>1. \E x \in {a, b, c} : \A y \in {a, b, c} : x <= y
    OBVIOUS
<1> QED BY <1>1 DEF Min

(***************************************************************************)
(* Counting modulo the depth, without the modulo.                          *)
(***************************************************************************)
LEMMA Wrap ==
    ASSUME NEW x \in Nat, x < Depth + Depth
    PROVE  x % Depth = (IF x < Depth THEN x ELSE x - Depth)
BY RingAssumption, Z3

LEMMA UsedIs ==
    ASSUME NEW h \in Positions, NEW t \in Positions
    PROVE  /\ Used(h, t) = (IF h <= t THEN t - h ELSE t + Depth - h)
           /\ Used(h, t) \in Positions
<1>1. t + Depth - h \in Nat /\ t + Depth - h < Depth + Depth
    BY RingAssumption DEF Positions
<1>2. (t + Depth - h) % Depth =
          (IF t + Depth - h < Depth THEN t + Depth - h ELSE t + Depth - h - Depth)
    BY <1>1, Wrap, RingAssumption DEF Positions
<1> QED BY <1>1, <1>2, RingAssumption DEF Used, Positions

(***************************************************************************)
(* The positions of a publication: the k-th entry behind the tail.         *)
(***************************************************************************)
LEMMA BehindTail ==
    ASSUME NEW t \in Positions, NEW k \in Positions
    PROVE  /\ (t + k) % Depth \in Positions
           /\ (t + k) % Depth = (IF t + k < Depth THEN t + k ELSE t + k - Depth)
           /\ Used(t, (t + k) % Depth) = k
<1>0. t + k \in Nat /\ t + k < Depth + Depth
    BY RingAssumption DEF Positions
<1>1. (t + k) % Depth = (IF t + k < Depth THEN t + k ELSE t + k - Depth)
    <2> DEFINE x == t + k
    <2>1. x \in Nat /\ x < Depth + Depth
        BY <1>0
    <2> HIDE DEF x
    <2>2. x % Depth = (IF x < Depth THEN x ELSE x - Depth)
        BY <2>1, Wrap
    <2> QED BY <1>0, <2>1, <2>2, RingAssumption DEF x, Positions
<1>2. (t + k) % Depth \in Positions
    BY <1>1, RingAssumption DEF Positions
<1>3. Used(t, (t + k) % Depth) =
         (IF t <= (t + k) % Depth THEN ((t + k) % Depth) - t ELSE ((t + k) % Depth) + Depth - t)
    BY <1>2, UsedIs
<1> QED BY <1>1, <1>2, <1>3, RingAssumption DEF Positions

(***************************************************************************)
(* How far apart positions are after a step of the tail or of the head.    *)
(***************************************************************************)
LEMMA Advance ==
    ASSUME NEW h \in Positions, NEW t \in Positions, NEW n \in Nat, Used(h, t) + n < Depth
    PROVE  Used(h, (t + n) % Depth) = Used(h, t) + n
<1>1. n \in Positions
    BY UsedIs, RingAssumption DEF Positions
<1>2. (t + n) % Depth \in Positions
    BY <1>1, BehindTail
<1>3. (t + n) % Depth = (IF t + n < Depth THEN t + n ELSE t + n - Depth)
    BY <1>1, BehindTail
<1>4. Used(h, t) = (IF h <= t THEN t - h ELSE t + Depth - h)
    BY UsedIs
<1> DEFINE q == (t + n) % Depth
<1>5. Used(h, q) = (IF h <= q THEN q - h ELSE q + Depth - h)
    BY <1>2, UsedIs
<1> HIDE DEF q
<1>6. q = (IF t + n < Depth THEN t + n ELSE t + n - Depth)
    BY <1>3 DEF q
<1>7. Used(h, q) = Used(h, t) + n
    BY <1>4, <1>5, <1>6, RingAssumption DEF Positions
<1> QED BY <1>7 DEF q

LEMMA Withdraw ==
    ASSUME NEW h \in Positions, NEW t \in Positions, h # t
    PROVE  /\ Used(h, t) > 0
           /\ (h + 1) % Depth \in Positions
           /\ Used((h + 1) % Depth, t) = Used(h, t) - 1
           /\ \A k \in 0..Used(h, t) - 2 :
                 (((h + 1) % Depth) + k) % Depth = (h + (k + 1)) % Depth
<1> DEFINE q == (h + 1) % Depth
<1>0. 1 \in Positions
    BY RingAssumption DEF Positions
<1>1. q \in Positions
    BY <1>0, BehindTail
<1>2. q = (IF h + 1 < Depth THEN h + 1 ELSE h + 1 - Depth)
    BY <1>0, BehindTail
<1> HIDE DEF q
<1>3. Used(h, t) = (IF h <= t THEN t - h ELSE t + Depth - h) /\ Used(h, t) \in Positions
    BY UsedIs
<1>4. Used(q, t) = (IF q <= t THEN t - q ELSE t + Depth - q)
    BY <1>1, UsedIs
<1>5. Used(h, t) > 0 /\ Used(q, t) = Used(h, t) - 1
    BY <1>1, <1>2, <1>3, <1>4, RingAssumption DEF Positions
<1>6. ASSUME NEW k \in 0..Used(h, t) - 2
      PROVE  (q + k) % Depth = (h + (k + 1)) % Depth
    <2>1. k \in Positions /\ k + 1 \in Positions
        BY <1>3, RingAssumption DEF Positions
    <2> DEFINE a == (q + k) % Depth
               b == (h + (k + 1)) % Depth
    <2>2. a = (IF q + k < Depth THEN q + k ELSE q + k - Depth)
        BY <1>1, <2>1, BehindTail
    <2>3. b = (IF h + (k + 1) < Depth THEN h + (k + 1) ELSE h + (k + 1) - Depth)
        BY <2>1, BehindTail
    <2> HIDE DEF a, b
    <2>4. a = b
        BY <1>1, <1>2, <2>1, <2>2, <2>3, RingAssumption DEF Positions
    <2> QED BY <2>4 DEF a, b
<1> QED BY <1>1, <1>5, <1>6 DEF q

(***************************************************************************)
(* The entries between head and tail are out of the reach of a batch that  *)
(* fits, and the batch continues them.                                     *)
(***************************************************************************)
LEMMA BehindHead ==
    ASSUME NEW h \in Positions, NEW t \in Positions, NEW k \in Positions
    PROVE  /\ k < Used(h, t) => Used(t, (h + k) % Depth) = Depth - Used(h, t) + k
           /\ k >= Used(h, t) => (h + k) % Depth = (t + (k - Used(h, t))) % Depth
<1> DEFINE q == (h + k) % Depth
<1>1. q \in Positions /\ q = (IF h + k < Depth THEN h + k ELSE h + k - Depth)
    BY BehindTail
<1> HIDE DEF q
<1>2. Used(h, t) = (IF h <= t THEN t - h ELSE t + Depth - h) /\ Used(h, t) \in Positions
    BY UsedIs
<1>3. Used(t, q) = (IF t <= q THEN q - t ELSE q + Depth - t)
    BY <1>1, UsedIs
<1>4. k < Used(h, t) => Used(t, q) = Depth - Used(h, t) + k
    BY <1>1, <1>2, <1>3, RingAssumption DEF Positions
<1>5. ASSUME k >= Used(h, t) PROVE q = (t + (k - Used(h, t))) % Depth
    <2> DEFINE m == k - Used(h, t)
               r == (t + m) % Depth
    <2>1. m \in Positions
        BY <1>2, <1>5, RingAssumption DEF Positions
    <2> HIDE DEF m
    <2>2. r = (IF t + m < Depth THEN t + m ELSE t + m - Depth)
        BY <2>1, BehindTail
    <2> HIDE DEF r
    <2>3. q = r
        BY <1>1, <1>2, <1>5, <2>1, <2>2, RingAssumption DEF Positions, m
    <2> QED BY <2>3 DEF r, m
<1> QED BY <1>4, <1>5 DEF q

-----------------------------------------------------------------------------
InKernel == pc \in {"data", "dataCopied", "notify", "notifyCopied"}
Copied == pc \in {"dataCopied", "notifyCopied"}

(***************************************************************************)
(* The inductive invariant behind the queue: inside a kernel its tail is   *)
(* the real one and its head is the real one or an older one; the entries  *)
(* of the batch carry the last numbers built; a copied batch fits and      *)
(* stands behind the tail; what lies between head and tail are entries.    *)
(***************************************************************************)
KernelState ==
    /\ InKernel => kTail = tail /\ Used(head, tail) <= Used(kHead, tail)
    /\ pc = "data" => descs + Len(batch) > 0
    /\ pc = "notify" /\ emit = "built" => Len(batch) > 0
    /\ rest > 0 => room > 0

BatchState ==
    /\ Len(batch) <= built
    /\ \A i \in 1..Len(batch) : batch[i][2] = built - Len(batch) + i - 1

CopyState ==
    Copied => /\ Used(kHead, tail) + Len(batch) < Depth
              /\ Len(batch) > 0
              /\ \A k \in 0..Len(batch) - 1 : ring[(tail + k) % Depth] = batch[k + 1]

QueueState == \A k \in 0..Used(head, tail) - 1 : ring[(head + k) % Depth] \in Entries

RInv == TypeOK /\ KernelState /\ BatchState /\ CopyState /\ QueueState

LEMMA RInvInit == Init => RInv
<1> SUFFICES ASSUME Init PROVE RInv
    OBVIOUS
<1> USE RingAssumption
<1>1. TypeOK
    <2>1. ring \in [Positions -> Entries \cup {Blank}]
        BY DEF Init
    <2>2. {head, tail, kHead, kTail} \subseteq Positions
        BY DEF Init, Positions
    <2>3. batch \in Seq(Entries) /\ Len(batch) <= MaxPublish
        BY DEF Init
    <2>4. descs \in 0..KernelMax /\ rest \in Nat /\ room \in 0..BatchSize /\ built \in Nat
        BY DEF Init
    <2>5. notified \in BOOLEAN /\ failed \in BOOLEAN /\ broken \in BOOLEAN
        BY ZenonT(60) DEF Init
    <2>6. pc \in Pcs /\ emit \in {"no", "due", "built"}
        BY DEF Init, Pcs
    <2> QED BY <2>1, <2>2, <2>3, <2>4, <2>5, <2>6, Zenon DEF TypeOK
<1>2. Used(head, tail) = 0
    BY UsedIs DEF Init, Positions
<1> QED BY <1>1, <1>2 DEF Init, RInv, KernelState, BatchState, CopyState, QueueState, InKernel, Copied

-----------------------------------------------------------------------------
(***************************************************************************)
(* What a chunk of the host leaves.                                        *)
(***************************************************************************)
LEMMA ChunkFacts ==
    ASSUME TypeOK, KernelState, TakeChunk
    PROVE  /\ descs' \in 1..KernelMax
           /\ rest' \in Nat
           /\ room' \in 0..BatchSize
           /\ emit' \in {"no", "due"}
           /\ rest' > 0 => room' > 0
<1> DEFINE chunk == Min({KernelMax, room, rest})
<1>1. room \in Nat /\ room > 0 /\ room <= BatchSize /\ rest \in Nat /\ rest > 0
    BY RingAssumption DEF TypeOK, KernelState, TakeChunk
<1>2. chunk \in Nat /\ chunk <= KernelMax /\ chunk <= room /\ chunk <= rest /\ chunk > 0
    BY <1>1, MinFacts, RingAssumption
<1> HIDE DEF chunk
<1>3. /\ descs' = chunk /\ rest' = rest - chunk
      /\ room' = (IF chunk = room THEN BatchSize ELSE room - chunk)
      /\ emit' = (IF chunk \in {room, rest} THEN "due" ELSE "no")
    BY DEF TakeChunk, chunk
<1> QED BY <1>1, <1>2, <1>3, RingAssumption

(***************************************************************************)
(* The steps that leave the ring and its ends alone.                       *)
(***************************************************************************)
LEMMA HostSteps ==
    ASSUME RInv, \/ \E n \in 1..MaxTasks : StartTransfer(n)
                 \/ WaitAndResetNotify \/ NotifyTimeout
                 \/ UNCHANGED vars
    PROVE  RInv'
<1> USE RingAssumption DEF RInv
<1>1. CASE \E n \in 1..MaxTasks : StartTransfer(n)
    <2> USE <1>1 DEF StartTransfer, ringVars, kernelVars
    <2>1. TypeOK' BY SMTT(60) DEF TypeOK
    <2>2. KernelState' BY DEF KernelState, InKernel
    <2>3. BatchState' /\ CopyState' /\ QueueState'
        BY DEF BatchState, CopyState, QueueState, Copied
    <2> QED BY <2>1, <2>2, <2>3
<1>2. CASE WaitAndResetNotify \/ NotifyTimeout
    <2> USE <1>2 DEF WaitAndResetNotify, NotifyTimeout, ringVars, kernelVars, hostVars
    <2>1. TypeOK' BY ZenonT(60) DEF TypeOK, Pcs
    <2>2. KernelState' BY DEF KernelState, InKernel
    <2>3. BatchState' /\ CopyState' /\ QueueState'
        BY SMTT(60) DEF BatchState, CopyState, QueueState, Copied
    <2> QED BY <2>1, <2>2, <2>3
<1>3. CASE UNCHANGED vars
    <2> USE <1>3 DEF vars, ringVars, kernelVars, hostVars
    <2>1. TypeOK' BY DEF TypeOK
    <2>2. KernelState' BY DEF KernelState, InKernel
    <2>3. BatchState' /\ CopyState' /\ QueueState'
        BY DEF BatchState, CopyState, QueueState, Copied
    <2> QED BY <2>1, <2>2, <2>3
<1> QED BY <1>1, <1>2, <1>3

LEMMA KernelStarts ==
    ASSUME RInv, StartKernel \/ RejectKernel
    PROVE  RInv'
<1> USE RingAssumption DEF RInv
<1>0. TakeChunk
    BY ZenonT(60) DEF StartKernel, RejectKernel
<1>1. CASE StartKernel
    <2> USE <1>1 DEF StartKernel, ringVars
    <2>1. TypeOK'
        <3>1. batch' \in Seq(Entries) /\ Len(batch') <= MaxPublish /\ Len(batch') = 0
            OBVIOUS
        <3>2. /\ descs' \in 0..KernelMax /\ emit' \in {"no", "due", "built"}
              /\ rest' \in Nat /\ room' \in 0..BatchSize /\ built' \in Nat
            BY SMTT(60), <1>0, ChunkFacts DEF TypeOK
        <3>3. {head, tail, kHead, kTail}' \subseteq Positions
            BY DEF TypeOK
        <3>4. (ring \in [Positions -> Entries \cup {Blank}])' /\ pc' \in Pcs
            BY DEF TypeOK, Pcs
        <3>5. notified' \in BOOLEAN /\ failed' \in BOOLEAN /\ broken' \in BOOLEAN
            BY ZenonT(60) DEF TypeOK
        <3> QED BY <3>1, <3>2, <3>3, <3>4, <3>5, Zenon DEF TypeOK
    <2>2. KernelState'
        <3>1. Used(head, tail) <= Used(head, tail)
            <4>1. head \in Positions /\ tail \in Positions
                BY DEF TypeOK
            <4>2. Used(head, tail) \in Positions
                BY <4>1, UsedIs
            <4> QED BY <4>2 DEF Positions
        <3> QED BY <1>0, <3>1, ChunkFacts DEF KernelState, InKernel
    <2>3. BatchState' /\ CopyState' /\ QueueState'
        BY DEF TypeOK, BatchState, CopyState, QueueState, Copied
    <2> QED BY <2>1, <2>2, <2>3
<1>2. CASE RejectKernel
    <2> USE <1>2 DEF RejectKernel, EndKernel, ringVars
    <2>1. TypeOK'
        <3>2. /\ descs' \in 0..KernelMax /\ emit' \in {"no", "due", "built"}
              /\ rest' \in Nat /\ room' \in 0..BatchSize /\ built' \in Nat
            BY SMTT(60), <1>0, ChunkFacts DEF TypeOK
        <3>3. {head, tail, kHead, kTail}' \subseteq Positions
            BY DEF TypeOK
        <3>4. /\ (ring \in [Positions -> Entries \cup {Blank}])' /\ pc' \in Pcs
              /\ (batch \in Seq(Entries) /\ Len(batch) <= MaxPublish)'
            BY SMTT(60) DEF TypeOK, Pcs
        <3>5. notified' \in BOOLEAN /\ failed' \in BOOLEAN /\ broken' \in BOOLEAN
            BY DEF TypeOK
        <3> QED BY <3>2, <3>3, <3>4, <3>5, Zenon DEF TypeOK
    <2>2. KernelState'
        BY <1>0, ChunkFacts DEF KernelState, InKernel
    <2>3. BatchState' /\ CopyState' /\ QueueState'
        BY DEF BatchState, CopyState, QueueState, Copied
    <2> QED BY <2>1, <2>2, <2>3
<1> QED BY <1>1, <1>2

(***************************************************************************)
(* Building an entry gives it the next number.                             *)
(***************************************************************************)
LEMMA Appends ==
    ASSUME RInv, AppendDescriptorTask \/ AppendNotifyTask
    PROVE  RInv'
<1> USE RingAssumption DEF RInv
<1>1. PICK kind \in {"sdma", "record"} : Build(kind)
    BY DEF AppendDescriptorTask, AppendNotifyTask
<1>2. /\ <<kind, built>> \in Entries
      /\ batch \in Seq(Entries) /\ built \in Nat
    BY DEF TypeOK, Entries
<1>3. /\ batch' \in Seq(Entries)
      /\ Len(batch') = Len(batch) + 1
      /\ \A i \in 1..Len(batch) : batch'[i] = batch[i]
      /\ batch'[Len(batch) + 1] = <<kind, built>>
      /\ Len(batch) \in Nat
    BY <1>1, <1>2 DEF Build
<1>4. built' = built + 1
    BY <1>1 DEF Build
<1>5. /\ UNCHANGED <<ring, head, tail, notified, pc, kHead, kTail, failed, broken, rest, room>>
      /\ Len(batch) < MaxPublish /\ pc \in {"data", "notify"}
    BY DEF AppendDescriptorTask, AppendNotifyTask, ringVars, hostVars
<1>6. descs' \in 0..KernelMax /\ emit' \in {"no", "due", "built"}
    BY SMTT(60) DEF AppendDescriptorTask, AppendNotifyTask, TypeOK
<1>7. TypeOK'
    <2>1. /\ (batch \in Seq(Entries) /\ Len(batch) <= MaxPublish)'
          /\ (rest \in Nat /\ room \in 0..BatchSize /\ built \in Nat)'
        BY SMTT(60), <1>2, <1>3, <1>4, <1>5 DEF TypeOK
    <2>2. /\ (ring \in [Positions -> Entries \cup {Blank}])'
          /\ ({head, tail, kHead, kTail} \subseteq Positions)'
          /\ (pc \in Pcs)'
        BY <1>5 DEF TypeOK
    <2>3. (notified \in BOOLEAN /\ failed \in BOOLEAN /\ broken \in BOOLEAN)'
        BY <1>5 DEF TypeOK
    <2> QED BY <1>6, <2>1, <2>2, <2>3, Zenon DEF TypeOK
<1>8. KernelState'
    BY <1>3, <1>5, <1>6 DEF KernelState, InKernel
<1>9. BatchState'
    <2>1. Len(batch') <= built'
        BY <1>2, <1>3, <1>4 DEF BatchState
    <2>2. ASSUME NEW i \in 1..Len(batch')
          PROVE  batch'[i][2] = built' - Len(batch') + i - 1
        <3>1. CASE i = Len(batch) + 1
            BY <1>2, <1>3, <1>4, <3>1
        <3>2. CASE i # Len(batch) + 1
            <4>1. i \in 1..Len(batch)
                BY <1>3, <3>2
            <4>2. batch'[i][2] = built - Len(batch) + i - 1
                BY SMTT(60), <1>3, <4>1 DEF BatchState
            <4> QED BY <1>2, <1>3, <1>4, <4>1, <4>2
        <3> QED BY <3>1, <3>2
    <2> QED BY <2>1, <2>2 DEF BatchState
<1>10. CopyState' /\ QueueState'
    BY <1>5 DEF CopyState, QueueState, Copied
<1> QED BY <1>7, <1>8, <1>9, <1>10

(***************************************************************************)
(* What a publication finds: entries to publish, and room for them behind  *)
(* the real tail by the head that it settles on.                           *)
(***************************************************************************)
LEMMA CopyFacts ==
    ASSUME RInv, CopySqeBatchToRing
    PROVE  /\ kTail = tail
           /\ head \in Positions /\ tail \in Positions /\ kHead' \in Positions
           /\ Len(batch) \in 1..Depth - 1
           /\ Used(head, tail) <= Used(kHead', tail)
           /\ Used(kHead', tail) + Len(batch) < Depth
<1> USE RingAssumption DEF RInv
<1>1. pc \in {"data", "notify"}
    BY DEF CopySqeBatchToRing, Publishing
<1>2. kTail = tail /\ Used(head, tail) <= Used(kHead, tail)
    BY <1>1 DEF KernelState, InKernel
<1>3. head \in Positions /\ tail \in Positions /\ kHead \in Positions
    BY DEF TypeOK
<1>4. kHead' \in {kHead, head}
    BY DEF CopySqeBatchToRing
<1>5. Used(head, tail) \in Positions /\ Used(kHead', tail) \in Positions
    BY <1>3, <1>4, UsedIs
<1>6. Used(kHead', tail) + Len(batch) < Depth
    BY <1>2 DEF CopySqeBatchToRing, HasRtsqCapacity
<1>7. Used(head, tail) <= Used(kHead', tail)
    BY <1>2, <1>4, <1>5 DEF Positions
<1>8. Len(batch) \in Nat /\ descs \in Nat
    BY DEF TypeOK
<1>9. Len(batch) > 0
    BY <1>8 DEF KernelState, CopySqeBatchToRing, Publishing
<1>10. Len(batch) \in 1..Depth - 1
    BY <1>5, <1>6, <1>8, <1>9 DEF Positions
<1>11. kHead' \in Positions
    BY <1>3, <1>4
<1> QED BY <1>2, <1>3, <1>6, <1>7, <1>10, <1>11

LEMMA Copies ==
    ASSUME RInv, CopySqeBatchToRing
    PROVE  RInv' /\ \A k \in 0..Used(head, tail) - 1 :
                        ring'[(head + k) % Depth] = ring[(head + k) % Depth]
<1> USE RingAssumption
<1>1. /\ kTail = tail
      /\ head \in Positions /\ tail \in Positions /\ kHead' \in Positions
      /\ Len(batch) \in 1..Depth - 1
      /\ Used(head, tail) <= Used(kHead', tail)
      /\ Used(kHead', tail) + Len(batch) < Depth
    BY CopyFacts
<1>2. /\ ring' = [p \in Positions |->
                     IF Used(tail, p) < Len(batch) THEN batch[Used(tail, p) + 1] ELSE ring[p]]
      /\ UNCHANGED <<head, tail, notified, kTail, batch, descs, emit, failed, broken, rest, room, built>>
      /\ pc' \in {"dataCopied", "notifyCopied"}
    BY <1>1 DEF CopySqeBatchToRing, hostVars
<1>3. Used(head, tail) \in Positions /\ Used(kHead', tail) \in Positions
    BY <1>1, UsedIs
<1>4. \A k \in 0..Used(head, tail) - 1 : ring'[(head + k) % Depth] = ring[(head + k) % Depth]
    <2> SUFFICES ASSUME NEW k \in 0..Used(head, tail) - 1
                 PROVE  ring'[(head + k) % Depth] = ring[(head + k) % Depth]
        OBVIOUS
    <2>1. k \in Positions /\ k < Used(head, tail)
        BY <1>3 DEF Positions
    <2>2. Used(tail, (head + k) % Depth) = Depth - Used(head, tail) + k
        BY <1>1, <2>1, BehindHead
    <2>3. (head + k) % Depth \in Positions
        BY <1>1, <2>1, BehindTail
    <2>4. ~(Used(tail, (head + k) % Depth) < Len(batch))
        <3> DEFINE u == Used(tail, (head + k) % Depth)
                   a == Used(head, tail)
                   b == Used(kHead', tail)
        <3>1. /\ u = Depth - a + k /\ a <= b /\ b + Len(batch) < Depth
              /\ a \in Int /\ b \in Int /\ k \in Nat /\ Depth \in Int /\ Len(batch) \in Int
            BY <1>1, <1>3, <2>1, <2>2 DEF Positions
        <3> HIDE DEF u, a, b
        <3>2. ~(u < Len(batch))
            BY <3>1
        <3> QED BY <3>2 DEF u
    <2> QED BY <1>2, <2>3, <2>4
<1>5. \A k \in 0..Len(batch) - 1 : ring'[(tail + k) % Depth] = batch[k + 1]
    <2> SUFFICES ASSUME NEW k \in 0..Len(batch) - 1
                 PROVE  ring'[(tail + k) % Depth] = batch[k + 1]
        BY ZenonT(60)
    <2>1. k \in Positions /\ k < Len(batch)
        BY SMTT(60), <1>1 DEF Positions
    <2>2. Used(tail, (tail + k) % Depth) = k /\ (tail + k) % Depth \in Positions
        BY <1>1, <2>1, BehindTail
    <2> QED BY <1>2, <2>1, <2>2
<1>6. TypeOK'
    <2>1. ring' \in [Positions -> Entries \cup {Blank}]
        <3> SUFFICES ASSUME NEW p \in Positions
                     PROVE  (IF Used(tail, p) < Len(batch) THEN batch[Used(tail, p) + 1] ELSE ring[p])
                                \in Entries \cup {Blank}
            BY <1>2
        <3>1. Used(tail, p) \in Positions
            BY <1>1, UsedIs
        <3>2. batch \in Seq(Entries) /\ ring[p] \in Entries \cup {Blank}
            BY DEF RInv, TypeOK
        <3>3. Used(tail, p) < Len(batch) => Used(tail, p) + 1 \in 1..Len(batch)
            BY SMTT(60), <1>1, <3>1 DEF Positions
        <3> QED BY <3>2, <3>3
    <2>2. ({head, tail, kHead, kTail} \subseteq Positions)' /\ pc' \in Pcs
        BY <1>1, <1>2 DEF Pcs
    <2>3. /\ (batch \in Seq(Entries) /\ Len(batch) <= MaxPublish)'
          /\ (descs \in 0..KernelMax /\ emit \in {"no", "due", "built"})'
          /\ (rest \in Nat /\ room \in 0..BatchSize /\ built \in Nat)'
        BY <1>2 DEF RInv, TypeOK
    <2>4. (notified \in BOOLEAN /\ failed \in BOOLEAN /\ broken \in BOOLEAN)'
        BY <1>2 DEF RInv, TypeOK
    <2> QED BY <2>1, <2>2, <2>3, <2>4, Zenon DEF TypeOK
<1>7. KernelState'
    BY SMTT(60), <1>1, <1>2 DEF RInv, KernelState, InKernel
<1>8. BatchState'
    BY <1>2 DEF RInv, BatchState
<1>9. CopyState'
    <2>1. Len(batch) > 0 /\ tail' = tail /\ batch' = batch
        BY <1>1, <1>2
    <2> QED BY <1>1, <1>5, <2>1, Zenon DEF CopyState
<1>10. QueueState'
    BY ZenonT(60), <1>2, <1>4 DEF RInv, QueueState
<1> QED BY <1>4, <1>6, <1>7, <1>8, <1>9, <1>10 DEF RInv

(***************************************************************************)
(* The new tail makes the copied batch the end of the queue.               *)
(***************************************************************************)
LEMMA CommitFacts ==
    ASSUME RInv, CommitRtsqTail
    PROVE  /\ kTail' = tail' /\ tail' = (tail + Len(batch)) % Depth /\ tail' \in Positions
           /\ batch' = <<>>
           /\ Len(batch) \in 1..Depth - 1
           /\ UNCHANGED <<ring, head, notified, kHead, descs, emit, rest, room, built>>
           /\ head \in Positions /\ tail \in Positions /\ kHead \in Positions
           /\ Used(head, tail) \in Positions
           /\ Used(head, tail) + Len(batch) < Depth
           /\ Used(head, tail') = Used(head, tail) + Len(batch)
           /\ Used(head, tail') <= Used(kHead, tail')
           /\ Used(kHead, tail') = Used(kHead, tail) + Len(batch)
           /\ Used(kHead, tail) \in Positions
<1> USE RingAssumption DEF RInv
<1>1. pc \in {"dataCopied", "notifyCopied"}
    BY DEF CommitRtsqTail
<1>2. /\ kTail = tail /\ Used(head, tail) <= Used(kHead, tail)
      /\ Used(kHead, tail) + Len(batch) < Depth
      /\ Len(batch) > 0
    BY <1>1 DEF KernelState, InKernel, CopyState, Copied
<1>3. head \in Positions /\ tail \in Positions /\ kHead \in Positions
    BY DEF TypeOK
<1>4. Used(head, tail) \in Positions /\ Used(kHead, tail) \in Positions
    BY <1>3, UsedIs
<1>5. Len(batch) \in Nat
    BY DEF TypeOK
<1>6. Len(batch) \in 1..Depth - 1 /\ Used(head, tail) + Len(batch) < Depth
    BY <1>2, <1>4, <1>5 DEF Positions
<1>7. /\ tail' = (tail + Len(batch)) % Depth /\ kTail' = tail' /\ batch' = <<>>
      /\ UNCHANGED <<ring, head, notified, kHead, descs, emit, rest, room, built>>
    BY <1>2 DEF CommitRtsqTail, hostVars
<1>8. tail' \in Positions
    <2>1. Len(batch) \in Positions
        BY <1>6 DEF Positions
    <2> QED BY <1>3, <1>7, <2>1, BehindTail
<1>9. Used(head, tail') = Used(head, tail) + Len(batch)
    BY <1>3, <1>5, <1>6, <1>7, Advance
<1>10. Used(kHead, tail') = Used(kHead, tail) + Len(batch)
    BY <1>2, <1>3, <1>5, <1>7, Advance
<1>11. Used(head, tail') <= Used(kHead, tail')
    BY <1>2, <1>4, <1>5, <1>9, <1>10 DEF Positions
<1> QED BY <1>3, <1>4, <1>6, <1>7, <1>8, <1>9, <1>10, <1>11

LEMMA Commits ==
    ASSUME RInv, CommitRtsqTail
    PROVE  /\ RInv'
           /\ \A k \in Used(head, tail)..Used(head, tail') - 1 :
                 /\ k - Used(head, tail) + 1 \in 1..Len(batch)
                 /\ ring[(head + k) % Depth] = batch[k - Used(head, tail) + 1]
<1> USE RingAssumption
<1>1. /\ kTail' = tail' /\ tail' \in Positions
      /\ batch' = <<>>
      /\ Len(batch) \in 1..Depth - 1
      /\ UNCHANGED <<ring, head, notified, kHead, descs, emit, rest, room, built>>
      /\ head \in Positions /\ tail \in Positions /\ kHead \in Positions
      /\ Used(head, tail) \in Positions
      /\ Used(head, tail) + Len(batch) < Depth
      /\ Used(head, tail') = Used(head, tail) + Len(batch)
      /\ Used(head, tail') <= Used(kHead, tail')
    BY CommitFacts
<1> DEFINE u == Used(head, tail)
<1>2. \A k \in u..Used(head, tail') - 1 :
         k - u + 1 \in 1..Len(batch) /\ ring[(head + k) % Depth] = batch[k - u + 1]
    <2> SUFFICES ASSUME NEW k \in u..Used(head, tail') - 1
                 PROVE  k - u + 1 \in 1..Len(batch) /\ ring[(head + k) % Depth] = batch[k - u + 1]
        OBVIOUS
    <2> HIDE DEF u
    <2>1. u \in Positions /\ u + Len(batch) < Depth /\ Used(head, tail') = u + Len(batch)
        BY <1>1 DEF u
    <2>0. k \in u..(u + Len(batch)) - 1 /\ Len(batch) \in Nat
        BY <1>1, <2>1
    <2>2. k \in Positions /\ k >= u /\ k - u \in 0..Len(batch) - 1
        BY <2>0, <2>1 DEF Positions
    <2>3. (head + k) % Depth = (tail + (k - u)) % Depth
        BY SMTT(60), <1>1, <2>2, BehindHead DEF u
    <2>4. \A j \in 0..Len(batch) - 1 : ring[(tail + j) % Depth] = batch[j + 1]
        BY ZenonT(60) DEF RInv, CopyState, Copied, CommitRtsqTail
    <2>5. ring[(tail + (k - u)) % Depth] = batch[k - u + 1]
        BY SMTT(60), <2>2, <2>4
    <2> QED BY SMTT(60), <1>1, <2>1, <2>2, <2>3, <2>5
<1>3. TypeOK'
    <2>1. /\ (batch \in Seq(Entries) /\ Len(batch) <= MaxPublish)'
        BY <1>1
    <2>2. ({head, tail, kHead, kTail} \subseteq Positions)'
        BY <1>1
    <2>3. /\ (ring \in [Positions -> Entries \cup {Blank}])'
          /\ (descs \in 0..KernelMax /\ emit \in {"no", "due", "built"})'
          /\ (rest \in Nat /\ room \in 0..BatchSize /\ built \in Nat)'
        BY <1>1 DEF RInv, TypeOK
    <2>4. pc' \in Pcs
        BY ZenonT(60) DEF CommitRtsqTail, EndKernel, Pcs
    <2>5. (notified \in BOOLEAN /\ failed \in BOOLEAN /\ broken \in BOOLEAN)'
        BY ZenonT(60), <1>1 DEF RInv, TypeOK, CommitRtsqTail, EndKernel
    <2> QED BY <2>1, <2>2, <2>3, <2>4, <2>5, Zenon DEF TypeOK
<1>4. KernelState'
    <2>1. /\ pc' = "data" => descs > 0
          /\ pc' = "notify" => emit = "due"
        BY ZenonT(60) DEF CommitRtsqTail, EndKernel
    <2>2. Len(batch') = 0 /\ descs \in Nat
        BY <1>1 DEF RInv, TypeOK
    <2> QED BY <1>1, <2>1, <2>2 DEF RInv, KernelState, InKernel
<1>5. BatchState'
    BY <1>1 DEF RInv, TypeOK, BatchState
<1>6. CopyState'
    <2>1. pc' \notin {"dataCopied", "notifyCopied"}
        BY ZenonT(60) DEF CommitRtsqTail, EndKernel
    <2> QED BY <2>1 DEF CopyState, Copied
<1>7. QueueState'
    <2> SUFFICES ASSUME NEW k \in 0..Used(head, tail') - 1
                 PROVE  ring[(head + k) % Depth] \in Entries
        BY <1>1 DEF QueueState
    <2>1. CASE k \in 0..u - 1
        BY <2>1 DEF RInv, QueueState
    <2>2. CASE k \notin 0..u - 1
        <3>1. k \in u..Used(head, tail') - 1
            BY <1>1, <2>2 DEF Positions
        <3>2. k - u + 1 \in 1..Len(batch) /\ ring[(head + k) % Depth] = batch[k - u + 1]
            BY <1>2, <3>1
        <3>3. batch \in Seq(Entries)
            BY DEF RInv, TypeOK
        <3> HIDE DEF u
        <3> QED BY <3>2, <3>3
    <2> QED BY <2>1, <2>2
<1> QED BY <1>2, <1>3, <1>4, <1>5, <1>6, <1>7 DEF RInv

(***************************************************************************)
(* A failed publication moves no end of the ring and keeps the batch.      *)
(***************************************************************************)
LEMMA Failures ==
    ASSUME RInv, PublishFails
    PROVE  RInv'
<1> USE RingAssumption DEF RInv
<1>1. /\ UNCHANGED <<ring, head, tail, notified, kTail, batch, descs, emit, rest, room, built>>
      /\ kHead' \in {kHead, head}
    BY DEF PublishFails, ringVars, hostVars
<1>2. pc' \in {"notify", "idle", "wait", "halted"} /\ (pc' = "notify" => emit = "due")
    BY DEF PublishFails, EndKernel
<1>3. InKernel
    BY DEF PublishFails, Publishing, InKernel
<1>4. head \in Positions /\ tail \in Positions /\ kHead \in Positions
    BY DEF TypeOK
<1>5. TypeOK'
    <2>1. ({head, tail, kHead, kTail} \subseteq Positions)' /\ pc' \in Pcs
        BY <1>1, <1>2 DEF TypeOK, Pcs
    <2>2. /\ (ring \in [Positions -> Entries \cup {Blank}])'
          /\ (batch \in Seq(Entries) /\ Len(batch) <= MaxPublish)'
          /\ (descs \in 0..KernelMax /\ emit \in {"no", "due", "built"})'
          /\ (rest \in Nat /\ room \in 0..BatchSize /\ built \in Nat)'
        BY <1>1 DEF TypeOK
    <2>3. (notified \in BOOLEAN /\ failed \in BOOLEAN /\ broken \in BOOLEAN)'
        BY ZenonT(60), <1>1 DEF TypeOK, PublishFails, EndKernel
    <2> QED BY <2>1, <2>2, <2>3, Zenon DEF TypeOK
<1>6. KernelState'
    <2>1. Used(head, tail) \in Positions
        BY <1>4, UsedIs
    <2>2. Used(head, tail) <= Used(head, tail)
        BY <2>1 DEF Positions
    <2> QED BY <1>1, <1>2, <1>3, <2>2 DEF KernelState, InKernel
<1>7. BatchState' /\ QueueState'
    BY SMTT(60), <1>1 DEF BatchState, QueueState
<1>8. CopyState'
    BY <1>2 DEF CopyState, Copied
<1> QED BY <1>5, <1>6, <1>7, <1>8

(***************************************************************************)
(* Retiring an entry brings the head closer to every tail.                 *)
(***************************************************************************)
LEMMA Retires ==
    ASSUME RInv, Retire
    PROVE  RInv'
<1> USE RingAssumption DEF RInv
<1>1. /\ UNCHANGED <<ring, tail, pc, kHead, kTail, batch, descs, emit, failed, broken, rest, room, built>>
      /\ head # tail /\ head' = (head + 1) % Depth
    BY DEF Retire, kernelVars, hostVars
<1>2. head \in Positions /\ tail \in Positions /\ kHead \in Positions
    BY DEF TypeOK
<1>3. /\ head' \in Positions
      /\ Used(head', tail) = Used(head, tail) - 1
      /\ \A k \in 0..Used(head, tail) - 2 : (head' + k) % Depth = (head + (k + 1)) % Depth
    BY <1>1, <1>2, Withdraw
<1>4. Used(head, tail) \in Nat /\ Used(kHead, tail) \in Nat
    BY <1>2, UsedIs DEF Positions
<1>5. TypeOK'
    <2>1. ({head, tail, kHead, kTail} \subseteq Positions)'
        BY <1>1, <1>3 DEF TypeOK
    <2>2. /\ (ring \in [Positions -> Entries \cup {Blank}])' /\ (pc \in Pcs)'
          /\ (batch \in Seq(Entries) /\ Len(batch) <= MaxPublish)'
          /\ (descs \in 0..KernelMax /\ emit \in {"no", "due", "built"})'
          /\ (rest \in Nat /\ room \in 0..BatchSize /\ built \in Nat)'
        BY <1>1 DEF TypeOK
    <2>3. (notified \in BOOLEAN /\ failed \in BOOLEAN /\ broken \in BOOLEAN)'
        BY <1>1 DEF TypeOK, Retire
    <2> QED BY <2>1, <2>2, <2>3, Zenon DEF TypeOK
<1>6. KernelState'
    BY SMTT(60), <1>1, <1>3, <1>4 DEF KernelState, InKernel
<1>7. BatchState' /\ CopyState'
    BY <1>1 DEF BatchState, CopyState, Copied
<1>8. QueueState'
    <2> SUFFICES ASSUME NEW k \in 0..Used(head', tail) - 1
                 PROVE  ring[(head' + k) % Depth] \in Entries
        BY <1>1 DEF QueueState
    <2>1. k \in 0..Used(head, tail) - 2 /\ k + 1 \in 0..Used(head, tail) - 1
        BY SMTT(60), <1>3, <1>4
    <2>2. ring[(head + (k + 1)) % Depth] \in Entries
        BY <2>1 DEF QueueState
    <2> QED BY <1>3, <2>1, <2>2
<1> QED BY <1>5, <1>6, <1>7, <1>8

LEMMA RInvStep == RInv /\ [Next]_vars => RInv'
<1> SUFFICES ASSUME RInv, [Next]_vars PROVE RInv'
    OBVIOUS
<1>1. CASE \E n \in 1..MaxTasks : StartTransfer(n)
    BY <1>1, HostSteps
<1>2. CASE StartKernel \/ RejectKernel
    BY <1>2, KernelStarts
<1>3. CASE AppendDescriptorTask \/ AppendNotifyTask
    BY <1>3, Appends
<1>4. CASE CopySqeBatchToRing
    BY <1>4, Copies
<1>5. CASE CommitRtsqTail
    BY <1>5, Commits
<1>6. CASE PublishFails
    BY <1>6, Failures
<1>7. CASE WaitAndResetNotify \/ NotifyTimeout \/ UNCHANGED vars
    BY <1>7, HostSteps
<1>8. CASE Retire
    BY <1>8, Retires
<1> QED BY <1>1, <1>2, <1>3, <1>4, <1>5, <1>6, <1>7, <1>8 DEF Next, Kernel

LEMMA RInvAlways == Spec => []RInv
BY RInvInit, RInvStep, PTL DEF Spec

(***************************************************************************)
(* The variables of the ring and of the kernels keep their types; the      *)
(* positions stay inside the ring.                                         *)
(***************************************************************************)
THEOREM TypeCorrect == Spec => []TypeOK
<1>1. RInv => TypeOK
    BY DEF RInv
<1> QED BY <1>1, RInvAlways, PTL

-----------------------------------------------------------------------------
(***************************************************************************)
(* The queue that the ring stands for.                                     *)
(***************************************************************************)
Pending == [i \in 1..Used(head, tail) |-> ring[(head + i - 1) % Depth]]
NextNumber == built - Len(batch)

PendingIs ==
    /\ Used(head, tail) \in Nat
    /\ Len(Pending) = Used(head, tail)
    /\ Pending \in Seq(Entries)
    /\ \A i \in 1..Used(head, tail) : Pending[i] = ring[(head + (i - 1)) % Depth]

LEMMA PendingFacts == RInv => PendingIs
<1> SUFFICES ASSUME RInv PROVE PendingIs
    OBVIOUS
<1>1. head \in Positions /\ tail \in Positions
    BY DEF RInv, TypeOK
<1>2. Used(head, tail) \in Nat
    BY <1>1, UsedIs DEF Positions
<1>3. \A i \in 1..Used(head, tail) : Pending[i] = ring[(head + (i - 1)) % Depth]
    <2> SUFFICES ASSUME NEW i \in 1..Used(head, tail)
                 PROVE  Pending[i] = ring[(head + (i - 1)) % Depth]
        OBVIOUS
    <2>1. head + i - 1 = head + (i - 1)
        BY <1>1, <1>2 DEF Positions
    <2>2. Pending[i] = ring[(head + i - 1) % Depth]
        BY DEF Pending
    <2> QED BY <2>1, <2>2
<1>4. \A i \in 1..Used(head, tail) : Pending[i] \in Entries
    <2> SUFFICES ASSUME NEW i \in 1..Used(head, tail) PROVE Pending[i] \in Entries
        OBVIOUS
    <2>1. i - 1 \in 0..Used(head, tail) - 1
        BY <1>2
    <2> QED BY <1>3, <2>1 DEF RInv, QueueState
<1>5. Pending = [i \in 1..Used(head, tail) |-> Pending[i]]
    BY DEF Pending
<1>6. Pending \in [1..Used(head, tail) -> Entries]
    BY <1>4, <1>5
<1> QED BY <1>2, <1>3, <1>6 DEF PendingIs

(***************************************************************************)
(* Publishing a batch appends it.                                          *)
(***************************************************************************)
LEMMA CommitPuts ==
    ASSUME RInv, CommitRtsqTail
    PROVE  /\ Pending' \in Seq(Entries)
           /\ Len(Pending') - Len(Pending) \in 1..MaxPublish
           /\ NextNumber' = NextNumber + (Len(Pending') - Len(Pending))
           /\ \A i \in 1..Len(Pending') :
                 IF i <= Len(Pending) THEN Pending'[i] = Pending[i]
                 ELSE Pending'[i][2] = NextNumber + (i - Len(Pending)) - 1
<1>1. PendingIs /\ PendingIs'
    <2>1. RInv'
        BY Commits
    <2>2. RInv' => PendingIs'
        BY PendingFacts, PTL
    <2> QED BY <2>1, <2>2, PendingFacts
<1> DEFINE u == Used(head, tail)
           w == Used(head, tail')
<1>2. /\ head' = head /\ ring' = ring /\ batch' = <<>> /\ built' = built
      /\ w = u + Len(batch)
    BY CommitFacts
<1>3. u \in Nat /\ Len(Pending) = u
    BY SMTT(60), <1>1 DEF PendingIs
<1>4. Len(Pending') = w /\ Pending' \in Seq(Entries)
    BY <1>1, <1>2 DEF PendingIs
<1>5. \A i \in 1..u : Pending[i] = ring[(head + (i - 1)) % Depth]
    BY SMTT(60), <1>1 DEF PendingIs
<1>6. \A i \in 1..w : Pending'[i] = ring[(head + (i - 1)) % Depth]
    BY <1>1, <1>2 DEF PendingIs
<1>7. \A k \in u..w - 1 :
         k - u + 1 \in 1..Len(batch) /\ ring[(head + k) % Depth] = batch[k - u + 1]
    BY SMTT(60), Commits
<1>8. /\ Len(batch) \in Nat /\ Len(batch) > 0 /\ Len(batch) <= MaxPublish /\ built \in Nat
      /\ \A i \in 1..Len(batch) : batch[i][2] = built - Len(batch) + i - 1
    BY CommitFacts DEF RInv, TypeOK, BatchState
<1> HIDE DEF u, w
<1>9. Len(Pending') - Len(Pending) = Len(batch) /\ Len(Pending') - Len(Pending) \in 1..MaxPublish
    BY <1>2, <1>3, <1>4, <1>8, RingAssumption
<1>10. NextNumber' = NextNumber + (Len(Pending') - Len(Pending))
    <2>1. Len(batch') = 0
        BY <1>2
    <2>2. NextNumber' = NextNumber + Len(batch)
        BY <1>2, <1>8, <2>1 DEF NextNumber
    <2> QED BY <1>9, <2>2, Zenon
<1>11. ASSUME NEW i \in 1..w
       PROVE  IF i <= u THEN Pending'[i] = Pending[i]
              ELSE Pending'[i][2] = NextNumber + (i - u) - 1
    <2>1. CASE i <= u
        BY <1>2, <1>3, <1>5, <1>6, <1>8, <2>1
    <2>2. CASE ~(i <= u)
        <3>1. i - 1 \in u..w - 1
            BY <1>2, <1>3, <1>8, <2>2
        <3>2. (i - 1) - u + 1 = i - u
            BY SMTT(60), <1>2, <1>3, <1>8
        <3>3. i - u \in 1..Len(batch) /\ Pending'[i] = batch[i - u]
            BY <1>6, <1>7, <3>1, <3>2
        <3>4. Pending'[i][2] = built - Len(batch) + (i - u) - 1
            BY <1>8, <3>3
        <3> QED BY <2>2, <3>4 DEF NextNumber
    <2> QED BY <2>1, <2>2
<1> QED BY <1>3, <1>4, <1>9, <1>10, <1>11

(***************************************************************************)
(* Retiring an entry removes the first one.                                *)
(***************************************************************************)
LEMMA RetireTakes ==
    ASSUME RInv, Retire
    PROVE  Pending # <<>> /\ Pending' = Tail(Pending) /\ NextNumber' = NextNumber
<1> USE RingAssumption
<1>1. PendingIs /\ PendingIs'
    <2>1. RInv'
        BY Retires
    <2>2. RInv' => PendingIs'
        BY PendingFacts, PTL
    <2> QED BY <2>1, <2>2, PendingFacts
<1>2. /\ UNCHANGED <<ring, tail, batch, built>> /\ head # tail /\ head' = (head + 1) % Depth
      /\ head \in Positions /\ tail \in Positions
    BY DEF Retire, kernelVars, RInv, TypeOK
<1> DEFINE u == Used(head, tail)
           w == Used(head', tail)
<1>3. /\ u > 0 /\ w = u - 1
      /\ \A k \in 0..u - 2 : (head' + k) % Depth = (head + (k + 1)) % Depth
    BY <1>2, Withdraw
<1>4. u \in Nat /\ Len(Pending) = u /\ Pending \in Seq(Entries)
    BY <1>1 DEF PendingIs
<1>5. Len(Pending') = w /\ Pending' \in Seq(Entries) /\ w \in Nat
    BY <1>1, <1>2 DEF PendingIs
<1>6. \A i \in 1..u : Pending[i] = ring[(head + (i - 1)) % Depth]
    BY SMTT(60), <1>1 DEF PendingIs
<1>7. \A i \in 1..w : Pending'[i] = ring[(head' + (i - 1)) % Depth]
    BY <1>1, <1>2 DEF PendingIs
<1> HIDE DEF u, w
<1>8. ASSUME NEW i \in 1..w PROVE Pending'[i] = Pending[i + 1]
    <2>1. i - 1 \in 0..u - 2 /\ (i - 1) + 1 = i /\ (i + 1) - 1 = i /\ i + 1 \in 1..u
        BY <1>3, <1>4, <1>5
    <2>2. (head' + (i - 1)) % Depth = (head + ((i - 1) + 1)) % Depth
        BY <1>3, <2>1
    <2>3. Pending[i + 1] = ring[(head + ((i + 1) - 1)) % Depth]
        BY <1>6, <2>1
    <2> QED BY <1>7, <2>1, <2>2, <2>3
<1>9. Pending # <<>>
    BY <1>3, <1>4
<1>10. Len(Tail(Pending)) = w /\ Tail(Pending) \in Seq(Entries)
    BY <1>3, <1>4, <1>9
<1>11. \A i \in 1..w : Tail(Pending)[i] = Pending[i + 1]
    BY <1>3, <1>4, <1>5, <1>9
<1>12. Pending' = Tail(Pending)
    BY SMTT(60), <1>5, <1>8, <1>10, <1>11
<1> QED BY <1>2, <1>9, <1>12 DEF NextNumber

(***************************************************************************)
(* Every other step leaves the queue alone, and may give numbers up.       *)
(***************************************************************************)
LEMMA OthersKeep ==
    ASSUME RInv, [Next]_vars, ~CommitRtsqTail, ~Retire
    PROVE  /\ Pending' = Pending
           /\ NextNumber' = NextNumber \/ NextNumber' > NextNumber
<1>0. batch \in Seq(Entries) /\ built \in Nat /\ Len(batch) \in Nat /\ Len(batch) <= built
    BY DEF RInv, TypeOK, BatchState
<1>1. CASE \/ \E n \in 1..MaxTasks : StartTransfer(n)
           \/ RejectKernel \/ PublishFails
           \/ WaitAndResetNotify \/ NotifyTimeout \/ UNCHANGED vars
    <2>1. UNCHANGED <<ring, head, tail, batch, built>>
        BY ZenonT(60), <1>1 DEF StartTransfer, RejectKernel, PublishFails, WaitAndResetNotify, NotifyTimeout,
            vars, ringVars, kernelVars
    <2> QED BY <2>1 DEF Pending, NextNumber
<1>2. CASE StartKernel
    <2>1. UNCHANGED <<ring, head, tail, built>> /\ Len(batch') = 0
        BY <1>2 DEF StartKernel, ringVars
    <2>2. NextNumber' = built /\ NextNumber = built - Len(batch)
        BY <1>0, <2>1 DEF NextNumber
    <2> QED BY <1>0, <2>1, <2>2 DEF Pending
<1>3. CASE AppendDescriptorTask \/ AppendNotifyTask
    <2>1. PICK kind \in {"sdma", "record"} : Build(kind)
        BY <1>3 DEF AppendDescriptorTask, AppendNotifyTask
    <2>2. UNCHANGED <<ring, head, tail>>
        BY <1>3 DEF AppendDescriptorTask, AppendNotifyTask, ringVars
    <2>3. <<kind, built>> \in Entries
        BY <1>0 DEF Entries
    <2>4. Len(batch') = Len(batch) + 1 /\ built' = built + 1
        BY <1>0, <2>1, <2>3 DEF Build
    <2> QED BY <1>0, <2>2, <2>4 DEF Pending, NextNumber
<1>4. CASE CopySqeBatchToRing
    <2>1. UNCHANGED <<head, tail, batch, built>>
        BY <1>4 DEF CopySqeBatchToRing
    <2>2. \A k \in 0..Used(head, tail) - 1 : ring'[(head + k) % Depth] = ring[(head + k) % Depth]
        BY SMTT(60), <1>4, Copies
    <2>3. head \in Int /\ Used(head, tail) \in Nat
        BY PendingFacts DEF PendingIs, RInv, TypeOK, Positions
    <2>4. ASSUME NEW i \in 1..Used(head, tail)
          PROVE  ring'[(head + i - 1) % Depth] = ring[(head + i - 1) % Depth]
        <3>1. i - 1 \in 0..Used(head, tail) - 1 /\ head + (i - 1) = head + i - 1
            BY <2>3
        <3>2. ring'[(head + (i - 1)) % Depth] = ring[(head + (i - 1)) % Depth]
            BY <2>2, <3>1
        <3> QED BY <3>1, <3>2
    <2>5. Pending' = Pending
        BY <2>1, <2>4 DEF Pending
    <2> QED BY <2>1, <2>5 DEF NextNumber
<1> QED BY <1>1, <1>2, <1>3, <1>4 DEF Next, Kernel

(***************************************************************************)
(* The ring of the kernels is a first-in first-out queue that executes     *)
(* every entry at most once, whole and in order: PublishRtsqBatch and      *)
(* CopySqeBatchToRing never touch an entry that is not retired.            *)
(***************************************************************************)
THEOREM RingRefinesQueue == Spec => RingIsQueue
<1>1. Init => Queue!Init
    <2> SUFFICES ASSUME Init PROVE Queue!Init
        OBVIOUS
    <2>1. RInv
        BY SMTT(60), RInvInit
    <2>2. Len(Pending) = Used(head, tail) /\ Pending \in Seq(Entries)
        BY <2>1, PendingFacts DEF PendingIs
    <2>3. Used(head, tail) = 0
        BY UsedIs, RingAssumption DEF Init, Positions
    <2>4. Pending = <<>>
        BY <2>2, <2>3
    <2>5. NextNumber = 0
        <3>1. Len(batch) = 0 /\ built = 0
            BY DEF Init
        <3> QED BY <3>1 DEF NextNumber
    <2> QED BY <2>4, <2>5 DEF Queue!Init, Pending, NextNumber
<1>2. RInv /\ [Next]_vars => [Queue!Next]_<<Pending, NextNumber>>
    <2> SUFFICES ASSUME RInv, [Next]_vars PROVE [Queue!Next]_<<Pending, NextNumber>>
        OBVIOUS
    <2>1. CASE CommitRtsqTail
        <3>1. Queue!Put
            BY <2>1, CommitPuts, Zenon DEF Queue!Put, Pending, NextNumber, Entries
        <3> QED BY <3>1 DEF Queue!Next
    <2>2. CASE Retire
        <3>1. Queue!Take
            BY <2>2, RetireTakes, Zenon DEF Queue!Take, Pending, NextNumber
        <3> QED BY <3>1 DEF Queue!Next
    <2>3. CASE ~CommitRtsqTail /\ ~Retire
        <3>1. CASE NextNumber' = NextNumber
            BY <2>3, <3>1, OthersKeep
        <3>2. CASE NextNumber' > NextNumber
            <4>1. Queue!GiveUp
                BY <2>3, <3>2, OthersKeep, Zenon DEF Queue!GiveUp, Pending, NextNumber
            <4> QED BY <4>1 DEF Queue!Next
        <3> QED BY <2>3, <3>1, <3>2, OthersKeep
    <2> QED BY <2>1, <2>2, <2>3
<1>3. RInv /\ [Next]_vars =>
        [Queue!Next]_<<[i \in 1..Used(head, tail) |-> ring[(head + i - 1) % Depth]], built - Len(batch)>>
    BY <1>2 DEF Pending, NextNumber
<1> QED BY <1>1, <1>3, RInvAlways, PTL DEF Spec, RingIsQueue, Queue!Spec

=============================================================================
