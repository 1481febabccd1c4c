--------------------------- MODULE StarsBudgetProofs --------------------------
(***************************************************************************)
(* Proof that the host's batches fit into the ring of StarsRing, for every *)
(* depth of the ring and every size of batches and kernels.                *)
(***************************************************************************)
EXTENDS StarsRingProofs

(***************************************************************************)
(* The budget of the host.  While no kernel has failed, what the ring may  *)
(* still hold by the kernel's head, the batch, the descriptors to come and *)
(* the rest of the logical batch stay within BatchSize; the NotifyRecord   *)
(* comes alone and last, and the host goes on once it is retired.          *)
(***************************************************************************)
AllData == \A k \in 0..Used(head, tail) - 1 : ring[(head + k) % Depth][1] = "sdma"

DataThenRecord ==
    /\ Used(head, tail) > 0
    /\ \A k \in 0..Used(head, tail) - 1 :
          ring[(head + k) % Depth][1] = (IF k = Used(head, tail) - 1 THEN "record" ELSE "sdma")

IdleBudget ==
    pc = "idle" /\ ~broken =>
        /\ ~notified
        /\ AllData
        /\ rest = 0 => Used(head, tail) = 0
        /\ rest > 0 => Used(head, tail) + room <= BatchSize

KernelBudget ==
    InKernel =>
        /\ emit = "no" => ~failed
        /\ ~failed /\ ~broken =>
            /\ ~notified
            /\ AllData
            /\ emit = "no" =>
                  /\ pc \in {"data", "dataCopied"}
                  /\ Used(kHead, tail) + Len(batch) + descs + room <= BatchSize
                  /\ rest > 0
            /\ emit # "no" => room = BatchSize \/ rest = 0
            /\ emit = "due" =>
                  /\ Used(kHead, tail) + Len(batch) + descs <= BatchSize
                  /\ pc # "notifyCopied"
                  /\ pc = "notify" => batch = <<>>
            /\ emit = "built" =>
                  /\ pc \in {"notify", "notifyCopied"}
                  /\ Used(kHead, tail) <= BatchSize
                  /\ Len(batch) = 1 /\ batch[1][1] = "record"
            /\ emit # "built" => \A i \in 1..Len(batch) : batch[i][1] = "sdma"

WaitBudget ==
    pc = "wait" /\ ~broken =>
        /\ room = BatchSize \/ rest = 0
        /\ IF notified THEN Used(head, tail) = 0 ELSE DataThenRecord

BInv == RInv /\ IdleBudget /\ KernelBudget /\ WaitBudget

LEMMA BInvInit == Init => BInv
<1> SUFFICES ASSUME Init PROVE BInv
    OBVIOUS
<1>1. RInv
    BY RInvInit
<1>2. Used(head, tail) = 0
    BY UsedIs, RingAssumption DEF Init, Positions
<1> QED BY <1>1, <1>2 DEF Init, BInv, IdleBudget, KernelBudget, WaitBudget, InKernel, AllData

(***************************************************************************)
(* The budget leaves room for every publication.                           *)
(***************************************************************************)
LEMMA BudgetSuffices == BInv => NeverFull /\ BatchDrained
<1> SUFFICES ASSUME BInv PROVE NeverFull /\ BatchDrained
    OBVIOUS
<1> USE RingAssumption
<1>1. /\ head \in Positions /\ tail \in Positions /\ kHead \in Positions
      /\ Len(batch) \in Nat /\ descs \in Nat /\ room \in Nat /\ rest \in Nat
      /\ emit \in {"no", "due", "built"}
    BY DEF BInv, RInv, TypeOK
<1>2. Used(kHead, tail) \in Nat /\ Used(head, tail) \in Nat
    <2>1. Used(kHead, tail) \in Positions /\ Used(head, tail) \in Positions
        BY <1>1, UsedIs
    <2> QED BY <2>1 DEF Positions
<1>3. NeverFull
    <2> SUFFICES ASSUME Publishing, ~failed, ~broken
                 PROVE  Used(kHead, kTail) + Len(batch) < Depth
        BY DEF NeverFull, HasRtsqCapacity
    <2>1. InKernel
        BY DEF Publishing, InKernel
    <2>2. kTail = tail
        BY <2>1 DEF BInv, RInv, KernelState
    <2>3. Used(kHead, tail) + Len(batch) <= BatchSize + 1
        <3> DEFINE u == Used(kHead, tail)
        <3>1. \/ u + Len(batch) + descs + room <= BatchSize
              \/ u + Len(batch) + descs <= BatchSize
              \/ u <= BatchSize /\ Len(batch) = 1
            BY <1>1, <2>1 DEF BInv, KernelBudget
        <3> HIDE DEF u
        <3>2. u \in Nat /\ BatchSize \in Nat
            BY <1>2 DEF u
        <3>3. Len(batch) \in Nat /\ descs \in Nat /\ room \in Nat
            BY <1>1
        <3>4. u + Len(batch) <= BatchSize + 1
            <4>1. CASE u + Len(batch) + descs + room <= BatchSize
                BY <3>2, <3>3, <4>1
            <4>2. CASE u + Len(batch) + descs <= BatchSize
                BY <3>2, <3>3, <4>2
            <4>3. CASE u <= BatchSize /\ Len(batch) = 1
                BY <3>2, <4>3
            <4> QED BY <3>1, <4>1, <4>2, <4>3
        <3> QED BY <3>4 DEF u
    <2> QED BY <1>1, <1>2, <2>2, <2>3
<1>4. BatchDrained
    <2> SUFFICES ASSUME pc = "idle", room = BatchSize, ~broken
                 PROVE  head = tail /\ ~notified
        BY DEF BatchDrained
    <2>1. Used(head, tail) = 0 /\ ~notified
        BY <1>1, <1>2 DEF BInv, IdleBudget
    <2>2. head = tail
        <3>1. Used(head, tail) = (IF head <= tail THEN tail - head ELSE tail + Depth - head)
            BY <1>1, UsedIs
        <3> QED BY <1>1, <2>1, <3>1 DEF Positions
    <2> QED BY <2>1, <2>2
<1> QED BY <1>3, <1>4

-----------------------------------------------------------------------------
(***************************************************************************)
(* The budget is kept by every step.                                       *)
(***************************************************************************)
Budget == IdleBudget /\ KernelBudget /\ WaitBudget

LEMMA RingTypes ==
    ASSUME RInv
    PROVE  /\ head \in Positions /\ tail \in Positions /\ kHead \in Positions
           /\ Used(head, tail) \in Nat /\ Used(kHead, tail) \in Nat
           /\ Len(batch) \in Nat /\ descs \in Nat /\ room \in Nat /\ rest \in Nat
           /\ BatchSize \in Nat /\ BatchSize > 0 /\ room <= BatchSize
           /\ emit \in {"no", "due", "built"}
<1>1. /\ head \in Positions /\ tail \in Positions /\ kHead \in Positions
      /\ Len(batch) \in Nat /\ descs \in Nat /\ room \in Nat /\ rest \in Nat
      /\ BatchSize \in Nat /\ BatchSize > 0 /\ room <= BatchSize
      /\ emit \in {"no", "due", "built"}
    BY RingAssumption DEF RInv, TypeOK
<1>2. Used(kHead, tail) \in Positions /\ Used(head, tail) \in Positions
    BY <1>1, UsedIs
<1>3. Used(kHead, tail) \in Nat /\ Used(head, tail) \in Nat
    BY <1>2 DEF Positions
<1> QED BY <1>1, <1>3

LEMMA HostBudget ==
    ASSUME BInv, \/ \E n \in 1..MaxTasks : StartTransfer(n)
                 \/ WaitAndResetNotify \/ NotifyTimeout
                 \/ UNCHANGED vars
    PROVE  Budget'
<1> USE DEF BInv
<1>1. CASE \E n \in 1..MaxTasks : StartTransfer(n)
    <2>1. /\ pc = "idle" /\ rest = 0 /\ room' = BatchSize /\ rest' \in Nat /\ rest' > 0
          /\ UNCHANGED <<ring, head, tail, notified, pc, broken>>
        BY <1>1, RingAssumption DEF StartTransfer, ringVars, kernelVars
    <2>2. ~broken => Used(head, tail) = 0
        BY <2>1 DEF IdleBudget
    <2>3. ~broken => Used(head, tail) + BatchSize <= BatchSize
        BY SMTT(60), <2>2, RingTypes
    <2>4. IdleBudget'
        BY SMTT(60), <2>1, <2>3 DEF IdleBudget, AllData
    <2> QED BY SMTT(60), <2>1, <2>4 DEF Budget, KernelBudget, WaitBudget, InKernel
<1>2. CASE WaitAndResetNotify
    <2>1. /\ pc = "wait" /\ notified /\ pc' = "idle" /\ notified' = FALSE
          /\ UNCHANGED <<ring, head, tail, broken, rest, room>>
        BY <1>2 DEF WaitAndResetNotify, ringVars, kernelVars, hostVars
    <2>2. ~broken => Used(head, tail) = 0 /\ (room = BatchSize \/ rest = 0)
        BY <2>1 DEF WaitBudget
    <2>3. IdleBudget'
        <3> SUFFICES ASSUME ~broken
                     PROVE  /\ AllData'
                            /\ rest > 0 => Used(head, tail) + room <= BatchSize
            BY <2>1, <2>2 DEF IdleBudget
        <3>1. AllData'
            BY <2>1, <2>2 DEF AllData
        <3>2. rest > 0 => Used(head, tail) + room <= BatchSize
            BY SMTT(60), <2>2, RingTypes
        <3> QED BY <3>1, <3>2
    <2> QED BY SMTT(60), <2>1, <2>3 DEF Budget, KernelBudget, WaitBudget, InKernel
<1>3. CASE NotifyTimeout
    <2>1. pc' = "halted"
        BY <1>3 DEF NotifyTimeout
    <2> QED BY <2>1 DEF Budget, IdleBudget, KernelBudget, WaitBudget, InKernel
<1>4. CASE UNCHANGED vars
    <2> USE <1>4 DEF vars, ringVars, kernelVars, hostVars
    <2>1. IdleBudget' BY SMTT(60) DEF IdleBudget, AllData
    <2>2. KernelBudget' BY DEF KernelBudget, InKernel, AllData
    <2>3. WaitBudget' BY ZenonT(60) DEF WaitBudget, DataThenRecord
    <2> QED BY SMTT(60), <2>1, <2>2, <2>3 DEF Budget
<1> QED BY SMTT(60), <1>1, <1>2, <1>3, <1>4

LEMMA StartBudget ==
    ASSUME BInv, StartKernel \/ RejectKernel
    PROVE  Budget'
<1> USE DEF BInv
<1>1. CASE StartKernel
    <2> DEFINE chunk == Min({KernelMax, room, rest})
               u == Used(head, tail)
    <2>1. /\ pc = "idle" /\ pc' = "data" /\ kHead' = head /\ batch' = <<>> /\ failed' = FALSE
          /\ UNCHANGED <<ring, head, tail, notified, broken>>
          /\ rest > 0 /\ descs' = chunk /\ rest' = rest - chunk
          /\ room' = (IF chunk = room THEN BatchSize ELSE room - chunk)
          /\ emit' = (IF chunk \in {room, rest} THEN "due" ELSE "no")
        BY SMTT(60), <1>1 DEF StartKernel, TakeChunk, ringVars
    <2>2. /\ chunk \in Nat /\ chunk <= room /\ chunk <= rest
          /\ u \in Nat /\ room \in Nat /\ rest \in Nat /\ BatchSize \in Nat
        BY ZenonT(60), RingTypes, MinFacts, RingAssumption
    <2> HIDE DEF chunk, u
    <2>3. ~broken => ~notified /\ AllData /\ u + room <= BatchSize
        BY SMTT(60), <2>1, <2>2 DEF IdleBudget, u
    <2>4. Used(kHead', tail') = u /\ Len(batch') = 0
        BY <2>1 DEF u
    <2>5. AllData => AllData'
        BY SMTT(60), <2>1 DEF AllData
    <2>6. ~broken /\ emit' = "no" => u + 0 + descs' + room' <= BatchSize /\ rest' > 0
        BY <2>1, <2>2, <2>3
    <2>7. ~broken /\ emit' = "due" => u + 0 + descs' <= BatchSize
        BY <2>1, <2>2, <2>3
    <2>8. emit' # "no" => room' = BatchSize \/ rest' = 0
        BY <2>1, <2>2
    <2>9. emit' \in {"no", "due"} /\ emit' # "built"
        BY SMTT(60), <2>1
    <2>10. KernelBudget'
        BY SMTT(60), <2>1, <2>3, <2>4, <2>5, <2>6, <2>7, <2>8, <2>9 DEF KernelBudget
    <2> QED BY SMTT(60), <2>1, <2>10 DEF Budget, IdleBudget, WaitBudget
<1>2. CASE RejectKernel
    <2>1. broken' = TRUE /\ pc' \in {"idle", "wait", "halted"}
        BY ZenonT(60), <1>2 DEF RejectKernel, EndKernel
    <2> QED BY <2>1 DEF Budget, IdleBudget, KernelBudget, WaitBudget, InKernel
<1> QED BY SMTT(60), <1>1, <1>2

LEMMA AppendBudget ==
    ASSUME BInv, AppendDescriptorTask \/ AppendNotifyTask
    PROVE  Budget'
<1> USE DEF BInv
<1> DEFINE u == Used(kHead, tail)
<1>0. /\ u \in Nat /\ Len(batch) \in Nat /\ descs \in Nat /\ room \in Nat /\ BatchSize \in Nat
      /\ batch \in Seq(Entries) /\ emit \in {"no", "due", "built"}
    BY RingTypes DEF RInv, TypeOK
<1>1. /\ UNCHANGED <<ring, head, tail, notified, pc, kHead, failed, broken, rest, room>>
      /\ pc \in {"data", "notify"}
    BY DEF AppendDescriptorTask, AppendNotifyTask, ringVars, hostVars
<1>2. Used(kHead', tail') = u
    BY <1>1
<1>3. AllData => AllData'
    BY <1>1 DEF AllData
<1> HIDE DEF u
<1>4. InKernel /\ InKernel'
    BY <1>1 DEF InKernel
<1>5. CASE AppendDescriptorTask
    <2>1. pc = "data" /\ emit' = emit /\ descs' = descs - 1 /\ descs > 0
        BY SMTT(60), <1>5 DEF AppendDescriptorTask
    <2>2. batch' = Append(batch, <<"sdma", built>>) /\ <<"sdma", built>> \in Entries
        BY <1>5 DEF AppendDescriptorTask, Build, RInv, TypeOK, Entries
    <2>3. /\ Len(batch') = Len(batch) + 1
          /\ \A i \in 1..Len(batch) : batch'[i] = batch[i]
          /\ batch'[Len(batch) + 1] = <<"sdma", built>>
        BY <1>0, <2>2
    <2>4. (\A i \in 1..Len(batch) : batch[i][1] = "sdma")
              => \A i \in 1..Len(batch') : batch'[i][1] = "sdma"
        BY <1>0, <2>3
    <2>5. /\ Len(batch') + descs' = Len(batch) + descs
          /\ u + Len(batch') + descs' = u + Len(batch) + descs
          /\ u + Len(batch') + descs' + room = u + Len(batch) + descs + room
        BY SMTT(60), <1>0, <2>1, <2>3
    <2>6. KernelBudget'
        <3>1. emit = "no" => ~failed
            BY SMTT(60), <1>4 DEF KernelBudget
        <3> SUFFICES ASSUME ~failed, ~broken
                     PROVE  /\ ~notified
                            /\ AllData'
                            /\ emit = "no" =>
                                  u + Len(batch') + descs' + room <= BatchSize /\ rest > 0
                            /\ emit # "no" => room = BatchSize \/ rest = 0
                            /\ emit = "due" => u + Len(batch') + descs' <= BatchSize
                            /\ emit # "built"
                            /\ \A i \in 1..Len(batch') : batch'[i][1] = "sdma"
            BY SMTT(60), <1>1, <1>2, <2>1, <3>1 DEF KernelBudget
        <3>2. emit # "built"
            BY <1>4, <2>1 DEF KernelBudget
        <3> QED BY SMTT(60), <1>3, <1>4, <2>4, <2>5, <3>2 DEF KernelBudget, u
    <2> QED BY <1>1, <2>6 DEF Budget, IdleBudget, WaitBudget
<1>6. CASE AppendNotifyTask
    <2>1. pc = "notify" /\ emit = "due" /\ emit' = "built" /\ descs' = descs
        BY <1>6 DEF AppendNotifyTask
    <2>2. batch' = Append(batch, <<"record", built>>)
        BY <1>6 DEF AppendNotifyTask, Build
    <2>3. ASSUME ~failed, ~broken
          PROVE  /\ ~notified /\ AllData' /\ (room = BatchSize \/ rest = 0)
                 /\ u <= BatchSize
                 /\ Len(batch') = 1 /\ batch'[1][1] = "record"
        <3>1. /\ ~notified /\ AllData /\ (room = BatchSize \/ rest = 0)
              /\ u + Len(batch) + descs <= BatchSize /\ batch = <<>>
            BY <1>4, <2>1, <2>3 DEF KernelBudget, u
        <3>2. u <= BatchSize
            BY <1>0, <3>1
        <3>3. batch' = << <<"record", built>> >>
            BY SMTT(60), <2>2, <3>1
        <3> QED BY SMTT(60), <1>3, <3>1, <3>2, <3>3
    <2>4. KernelBudget'
        BY SMTT(60), <1>1, <1>2, <2>1, <2>3 DEF KernelBudget
    <2> QED BY <1>1, <2>4 DEF Budget, IdleBudget, WaitBudget
<1> QED BY <1>5, <1>6

LEMMA CopyBudget ==
    ASSUME BInv, CopySqeBatchToRing
    PROVE  Budget'
<1> USE DEF BInv
<1> DEFINE u == Used(kHead, tail)
           w == Used(kHead', tail)
<1>1. /\ UNCHANGED <<head, tail, notified, batch, descs, emit, failed, broken, rest, room>>
      /\ pc' = (IF pc = "data" THEN "dataCopied" ELSE "notifyCopied")
      /\ pc \in {"data", "notify"}
      /\ kHead' \in {kHead, head}
    BY DEF CopySqeBatchToRing, Publishing, hostVars
<1>2. InKernel /\ InKernel'
    BY <1>1 DEF InKernel
<1>3. /\ u \in Nat /\ w \in Nat /\ Len(batch) \in Nat /\ descs \in Nat /\ room \in Nat
      /\ BatchSize \in Nat /\ emit \in {"no", "due", "built"}
    BY <1>1, RingTypes
<1>4. w <= u
    <2>1. Used(head, tail) <= Used(kHead, tail)
        BY <1>2 DEF RInv, KernelState
    <2> QED BY <1>1, <1>3, <2>1
<1>5. Used(kHead', tail') = w
    BY SMTT(60), <1>1
<1>6. AllData => AllData'
    <2>1. \A k \in 0..Used(head, tail) - 1 :
              ring'[(head + k) % Depth] = ring[(head + k) % Depth]
        BY Copies
    <2> QED BY <1>1, <2>1 DEF AllData
<1>7. /\ u + Len(batch) + descs + room <= BatchSize => w + Len(batch) + descs + room <= BatchSize
      /\ u + Len(batch) + descs <= BatchSize => w + Len(batch) + descs <= BatchSize
      /\ u <= BatchSize => w <= BatchSize
    <2> HIDE DEF u, w
    <2> QED BY <1>3, <1>4
<1>8. ~failed /\ ~broken /\ emit = "due" => pc # "notify"
    <2> SUFFICES ASSUME ~failed, ~broken, emit = "due", pc = "notify" PROVE FALSE
        OBVIOUS
    <2>1. batch = <<>>
        BY SMTT(60), <1>2 DEF KernelBudget
    <2>2. Len(batch) = MaxPublish
        BY DEF CopySqeBatchToRing, Publishing
    <2> QED BY <2>1, <2>2, RingAssumption
<1> HIDE DEF u, w
<1>9. emit = "no" => ~failed
    BY SMTT(60), <1>2 DEF KernelBudget
<1>10. ASSUME ~failed, ~broken
       PROVE  /\ ~notified
              /\ AllData'
              /\ emit = "no" => w + Len(batch) + descs + room <= BatchSize /\ rest > 0
              /\ emit # "no" => room = BatchSize \/ rest = 0
              /\ emit = "due" => w + Len(batch) + descs <= BatchSize
              /\ emit = "built" => w <= BatchSize /\ Len(batch) = 1 /\ batch[1][1] = "record"
              /\ emit # "built" => \A i \in 1..Len(batch) : batch[i][1] = "sdma"
    BY SMTT(60), <1>2, <1>6, <1>7, <1>10 DEF KernelBudget, u
<1>11. ~failed /\ ~broken => /\ emit = "no" => pc = "data"
                             /\ emit = "built" => pc = "notify"
    BY SMTT(60), <1>1, <1>2 DEF KernelBudget
<1>12. KernelBudget'
    BY SMTT(60), <1>1, <1>5, <1>8, <1>9, <1>10, <1>11 DEF KernelBudget
<1> QED BY SMTT(60), <1>1, <1>12 DEF Budget, IdleBudget, WaitBudget

LEMMA CommitBudget ==
    ASSUME BInv, CommitRtsqTail
    PROVE  Budget'
<1> USE DEF BInv
<1> DEFINE a == Used(head, tail)
           b == Used(head, tail')
           u == Used(kHead, tail)
           w == Used(kHead, tail')
           n == Len(batch)
<1>1. /\ batch' = <<>> /\ n \in Nat /\ n > 0
      /\ UNCHANGED <<ring, head, notified, kHead, descs, emit, rest, room>>
      /\ b = a + n /\ b <= w /\ w = u + n
    BY SMTT(60), CommitFacts
<1>2. /\ a \in Nat /\ u \in Nat /\ descs \in Nat /\ room \in Nat /\ rest \in Nat
      /\ BatchSize \in Nat /\ emit \in {"no", "due", "built"}
    BY RingTypes
<1>3. \A k \in a..b - 1 : k - a + 1 \in 1..n /\ ring[(head + k) % Depth] = batch[k - a + 1]
    BY ZenonT(60), Commits
<1>4. Used(head', tail') = b /\ Used(kHead', tail') = w /\ Len(batch') = 0
    BY <1>1
<1>5. InKernel /\ pc \in {"dataCopied", "notifyCopied"}
    BY DEF CommitRtsqTail, InKernel
<1> HIDE DEF a, b, u, w, n
<1>6. b \in Nat /\ w \in Nat
    BY SMTT(60), <1>1, <1>2
<1>7. ASSUME AllData, NEW k \in 0..b - 1, k < a
      PROVE  ring'[(head' + k) % Depth][1] = "sdma"
    <2>1. k \in 0..a - 1
        BY SMTT(60), <1>2, <1>6, <1>7
    <2> QED BY <1>1, <1>7, <2>1 DEF AllData, a
<1>8. ASSUME NEW k \in 0..b - 1, ~(k < a)
      PROVE  k - a + 1 \in 1..n /\ ring'[(head' + k) % Depth] = batch[k - a + 1]
    <2>1. k \in a..b - 1
        BY <1>2, <1>6, <1>8
    <2> QED BY <1>1, <1>3, <2>1
<1>9. AllData /\ (\A i \in 1..n : batch[i][1] = "sdma") => AllData'
    <2> SUFFICES ASSUME AllData, \A i \in 1..n : batch[i][1] = "sdma", NEW k \in 0..b - 1
                 PROVE  ring'[(head' + k) % Depth][1] = "sdma"
        BY <1>4 DEF AllData
    <2> QED BY SMTT(60), <1>7, <1>8
<1>10. AllData /\ n = 1 /\ batch[1][1] = "record" => DataThenRecord'
    <2> SUFFICES ASSUME AllData, n = 1, batch[1][1] = "record"
                 PROVE  /\ b > 0
                        /\ \A k \in 0..b - 1 : ring'[(head' + k) % Depth][1]
                                                  = (IF k = b - 1 THEN "record" ELSE "sdma")
        BY SMTT(60), <1>4 DEF DataThenRecord
    <2>1. b = a + 1 /\ b > 0
        BY <1>1, <1>2
    <2> SUFFICES ASSUME NEW k \in 0..b - 1
                 PROVE  ring'[(head' + k) % Depth][1]
                            = (IF k = b - 1 THEN "record" ELSE "sdma")
        BY <2>1
    <2>2. CASE k < a
        <3>1. k # b - 1
            BY SMTT(60), <1>2, <2>1, <2>2
        <3> QED BY <1>7, <2>2, <3>1
    <2>3. CASE ~(k < a)
        <3>1. k = b - 1 /\ k - a + 1 = 1
            BY SMTT(60), <1>2, <2>1, <2>3
        <3> QED BY <1>8, <2>3, <3>1
    <2> QED BY <2>2, <2>3
<1>11. ASSUME ~failed, ~broken
       PROVE  /\ ~notified /\ AllData
              /\ emit = "no" => /\ pc = "dataCopied" /\ rest > 0
                                /\ u + n + descs + room <= BatchSize
              /\ emit # "no" => room = BatchSize \/ rest = 0
              /\ emit = "due" => pc # "notifyCopied" /\ u + n + descs <= BatchSize
              /\ emit = "built" => /\ pc = "notifyCopied"
                                   /\ n = 1 /\ batch[1][1] = "record"
              /\ emit # "built" => \A i \in 1..n : batch[i][1] = "sdma"
    BY <1>5, <1>11 DEF KernelBudget, u, n
<1>12. emit = "no" => ~failed
    BY SMTT(60), <1>5 DEF KernelBudget
<1>13. CASE /\ pc = "dataCopied" /\ descs > 0
            /\ pc' = "data" /\ UNCHANGED <<failed, broken>>
    <2>1. ASSUME ~failed, ~broken
          PROVE  /\ ~notified /\ AllData' /\ emit # "built"
                 /\ emit = "no" => rest > 0 /\ w + 0 + descs + room <= BatchSize
                 /\ emit # "no" => room = BatchSize \/ rest = 0
                 /\ emit = "due" => w + 0 + descs <= BatchSize
        <3>1. emit # "built"
            BY <1>11, <1>13, <2>1
        <3>2. AllData'
            BY SMTT(60), <1>9, <1>11, <2>1, <3>1
        <3>3. /\ u + n + descs + room = w + 0 + descs + room
              /\ u + n + descs = w + 0 + descs
            BY SMTT(60), <1>1, <1>2, <1>6
        <3> QED BY SMTT(60), <1>11, <2>1, <3>1, <3>2, <3>3
    <2>2. KernelBudget'
        BY SMTT(60), <1>1, <1>4, <1>12, <1>13, <2>1 DEF KernelBudget
    <2> QED BY SMTT(60), <1>13, <2>2 DEF Budget, IdleBudget, WaitBudget
<1>14. CASE /\ pc = "dataCopied" /\ descs = 0 /\ emit = "no"
            /\ EndKernel(FALSE, emit)
    <2>1. pc' = "idle" /\ broken' = broken
        <3>1. broken \in BOOLEAN
            BY DEF RInv, TypeOK
        <3> QED BY <1>14, <3>1 DEF EndKernel
    <2>2. ASSUME ~broken
          PROVE  ~notified /\ AllData' /\ rest > 0 /\ b + room <= BatchSize
        <3>1. ~failed /\ emit # "built"
            BY SMTT(60), <1>12, <1>14
        <3>2. ~notified /\ AllData' /\ rest > 0 /\ u + n + descs + room <= BatchSize
            BY SMTT(60), <1>9, <1>11, <1>14, <2>2, <3>1
        <3> QED BY <1>1, <1>2, <1>6, <1>14, <3>2
    <2>3. IdleBudget'
        BY SMTT(60), <1>1, <1>2, <1>4, <2>1, <2>2 DEF IdleBudget
    <2> QED BY <2>1, <2>3 DEF Budget, KernelBudget, InKernel, WaitBudget
<1>15. CASE /\ \/ pc = "dataCopied" /\ descs = 0
               \/ pc = "notifyCopied"
            /\ emit = "due"
            /\ pc' = "notify" /\ failed' \in {failed, TRUE} /\ UNCHANGED broken
    <2>1. ASSUME ~failed', ~broken'
          PROVE  /\ ~notified /\ AllData' /\ (room = BatchSize \/ rest = 0)
                 /\ w + 0 + descs <= BatchSize
        <3>1. ~failed /\ ~broken
            <4>1. failed' = failed \/ failed' = TRUE
                BY ZenonT(60), <1>15
            <4>2. failed' = failed
                <5>1. failed' # TRUE
                    BY ZenonT(60), <2>1
                <5> QED BY ZenonT(60), <4>1, <5>1
            <4>3. broken' = broken
                BY <1>15
            <4> QED BY <2>1, <4>2, <4>3, Zenon
        <3>2. AllData'
            BY SMTT(60), <1>9, <1>11, <1>15, <3>1
        <3>3. u + n + descs = w + 0 + descs
            BY SMTT(60), <1>1, <1>2, <1>6
        <3> QED BY <1>11, <1>15, <3>1, <3>2, <3>3
    <2>2. KernelBudget'
        BY <1>1, <1>4, <1>15, <2>1 DEF KernelBudget
    <2> QED BY SMTT(60), <1>15, <2>2 DEF Budget, IdleBudget, WaitBudget
<1>16. CASE /\ pc = "notifyCopied" /\ emit = "built"
            /\ EndKernel(failed, emit)
    <2>1. pc' \in {"wait", "halted"} /\ broken' = (broken \/ failed)
        BY <1>16 DEF EndKernel
    <2>2. ASSUME ~broken'
          PROVE  (room = BatchSize \/ rest = 0) /\ ~notified /\ DataThenRecord'
        <3>1. ~broken /\ ~failed
            BY ZenonT(60), <2>1, <2>2
        <3> QED BY <1>10, <1>11, <1>16, <3>1
    <2>3. WaitBudget'
        BY <1>1, <2>1, <2>2 DEF WaitBudget
    <2> QED BY <2>1, <2>3 DEF Budget, KernelBudget, InKernel, IdleBudget
<1> QED BY ZenonT(60), <1>13, <1>14, <1>15, <1>16 DEF CommitRtsqTail

LEMMA FailBudget ==
    ASSUME BInv, PublishFails
    PROVE  Budget'
<1>1. (pc' = "notify" /\ failed' = TRUE /\ emit = "due" /\ emit' = emit) \/ broken' = TRUE
    BY ZenonT(60) DEF PublishFails, EndKernel
<1>2. CASE pc' = "notify" /\ failed' = TRUE /\ emit = "due" /\ emit' = emit
    BY SMTT(60), <1>2 DEF Budget, IdleBudget, KernelBudget, WaitBudget
<1>3. CASE broken' = TRUE
    <2>1. emit' = emit /\ failed' \in {failed, TRUE} /\ (~InKernel' \/ emit = "due")
        BY ZenonT(60) DEF PublishFails, EndKernel, InKernel
    <2> QED BY SMTT(60), <1>3, <2>1 DEF Budget, IdleBudget, KernelBudget, WaitBudget
<1> QED BY ZenonT(60), <1>1, <1>2, <1>3

LEMMA RetireBudget ==
    ASSUME BInv, Retire
    PROVE  Budget'
<1> USE DEF BInv
<1> DEFINE a == Used(head, tail)
           b == Used(head', tail)
           u == Used(kHead, tail)
<1>1. /\ UNCHANGED <<ring, tail, pc, kHead, batch, descs, emit, failed, broken, rest, room>>
      /\ notified' = (notified \/ ring[head][1] = "record")
      /\ head # tail /\ head' = (head + 1) % Depth
    BY SMTT(60) DEF Retire, kernelVars, hostVars
<1>2. /\ head \in Positions /\ tail \in Positions
      /\ a \in Nat /\ u \in Nat /\ room \in Nat /\ rest \in Nat /\ BatchSize \in Nat
    BY RingTypes
<1>3. /\ a > 0 /\ b = a - 1
      /\ \A k \in 0..a - 2 : (head' + k) % Depth = (head + (k + 1)) % Depth
    BY <1>1, <1>2, Withdraw
<1>4. Used(head', tail') = b /\ Used(kHead', tail') = u
    BY <1>1
<1>5. (head + 0) % Depth = head
    BY SMTT(60), <1>2, RingAssumption DEF Positions
<1> HIDE DEF a, b, u
<1>6. ASSUME NEW k \in 0..b - 1
      PROVE  /\ k + 1 \in 0..a - 1
             /\ ring'[(head' + k) % Depth] = ring[(head + (k + 1)) % Depth]
    <2>1. k \in 0..a - 2 /\ k + 1 \in 0..a - 1
        BY <1>2, <1>3
    <2> QED BY <1>1, <1>3, <2>1
<1>7. 0 \in 0..a - 1 /\ b \in Nat
    BY <1>2, <1>3
<1>8. ASSUME AllData
      PROVE  AllData' /\ notified' = notified
    <2>1. ring[(head + 0) % Depth][1] = "sdma"
        BY SMTT(60), <1>7, <1>8 DEF AllData, a
    <2>2. notified' = notified
        <3>1. ring[head][1] # "record"
            BY <1>5, <2>1
        <3> QED BY <1>1, <3>1 DEF RInv, TypeOK
    <2>3. AllData'
        <3> SUFFICES ASSUME NEW k \in 0..b - 1
                     PROVE  ring'[(head' + k) % Depth][1] = "sdma"
            BY <1>4 DEF AllData
        <3> QED BY <1>6, <1>8 DEF AllData, a
    <2> QED BY <2>2, <2>3
<1>9. IdleBudget'
    <2> SUFFICES ASSUME pc = "idle", ~broken
                 PROVE  /\ ~notified' /\ AllData'
                        /\ rest = 0 => b = 0
                        /\ rest > 0 => b + room <= BatchSize
        BY <1>1, <1>4 DEF IdleBudget
    <2>1. /\ ~notified /\ AllData
          /\ rest = 0 => a = 0
          /\ rest > 0 => a + room <= BatchSize
        BY DEF IdleBudget, a
    <2>2. rest > 0 /\ b + room <= BatchSize
        BY SMTT(60), <1>2, <1>3, <1>7, <2>1
    <2> QED BY SMTT(60), <1>2, <1>8, <2>1, <2>2
<1>10. KernelBudget'
    <2>1. InKernel' = InKernel
        BY SMTT(60), <1>1 DEF InKernel
    <2>2. InKernel /\ ~failed /\ ~broken => ~notified /\ AllData
        BY DEF KernelBudget
    <2>3. InKernel /\ ~failed /\ ~broken => ~notified' /\ AllData'
        BY <1>8, <2>2
    <2> QED BY SMTT(60), <1>1, <1>4, <2>1, <2>3 DEF KernelBudget, u
<1>11. WaitBudget'
    <2> SUFFICES ASSUME pc = "wait", ~broken
                 PROVE  /\ room = BatchSize \/ rest = 0
                        /\ IF notified' THEN b = 0 ELSE DataThenRecord'
        BY SMTT(60), <1>1, <1>4 DEF WaitBudget
    <2>1. (room = BatchSize \/ rest = 0) /\ ~notified /\ DataThenRecord
        BY SMTT(60), <1>2, <1>3 DEF WaitBudget, a
    <2>2. \A k \in 0..a - 1 :
              ring[(head + k) % Depth][1] = (IF k = a - 1 THEN "record" ELSE "sdma")
        BY <2>1 DEF DataThenRecord, a
    <2>3. ring[head][1] = (IF 0 = a - 1 THEN "record" ELSE "sdma")
        BY ZenonT(60), <1>5, <1>7, <2>2
    <2>4. CASE b = 0
        <3>1. 0 = a - 1
            BY <1>2, <1>3, <2>4
        <3>2. notified'
            BY ZenonT(60), <1>1, <2>3, <3>1
        <3> QED BY <2>1, <2>4, <3>2
    <2>5. CASE b # 0
        <3>1. 0 # a - 1 /\ b > 0
            BY <1>2, <1>3, <1>7, <2>5
        <3>2. ~notified'
            BY ZenonT(60), <1>1, <2>1, <2>3, <3>1
        <3>3. ASSUME NEW k \in 0..b - 1
              PROVE  ring'[(head' + k) % Depth][1] = (IF k = b - 1 THEN "record" ELSE "sdma")
            <4>1. (k + 1 = a - 1) <=> (k = b - 1)
                BY <1>2, <1>3, <1>7
            <4> QED BY SMTT(60), <1>6, <2>2, <4>1
        <3>4. DataThenRecord'
            BY SMTT(60), <1>4, <3>1, <3>3 DEF DataThenRecord
        <3> QED BY <2>1, <3>2, <3>4
    <2> QED BY SMTT(60), <2>4, <2>5
<1> QED BY <1>9, <1>10, <1>11 DEF Budget

LEMMA BInvStep == BInv /\ [Next]_vars => BInv'
<1> SUFFICES ASSUME BInv, [Next]_vars PROVE BInv'
    OBVIOUS
<1>1. RInv'
    BY RInvStep DEF BInv
<1>2. CASE \E n \in 1..MaxTasks : StartTransfer(n)
    BY <1>1, <1>2, HostBudget DEF BInv, Budget
<1>3. CASE StartKernel \/ RejectKernel
    BY <1>1, <1>3, StartBudget DEF BInv, Budget
<1>4. CASE AppendDescriptorTask \/ AppendNotifyTask
    BY <1>1, <1>4, AppendBudget DEF BInv, Budget
<1>5. CASE CopySqeBatchToRing
    BY <1>1, <1>5, CopyBudget DEF BInv, Budget
<1>6. CASE CommitRtsqTail
    BY <1>1, <1>6, CommitBudget DEF BInv, Budget
<1>7. CASE PublishFails
    BY <1>1, <1>7, FailBudget DEF BInv, Budget
<1>8. CASE WaitAndResetNotify \/ NotifyTimeout \/ UNCHANGED vars
    BY <1>1, <1>8, HostBudget DEF BInv, Budget
<1>9. CASE Retire
    BY <1>1, <1>9, RetireBudget DEF BInv, Budget
<1> QED BY <1>2, <1>3, <1>4, <1>5, <1>6, <1>7, <1>8, <1>9 DEF Next, Kernel

LEMMA BInvAlways == Spec => []BInv
BY BInvInit, BInvStep, PTL DEF Spec

(***************************************************************************)
(* The budget of the ring.  As long as no kernel has failed,               *)
(* PublishRtsqBatch finds room with the head that its kernel read when it  *)
(* started, as a logical batch and its NotifyRecord fit into a ring that   *)
(* the notify of the last batch has emptied; and a logical batch whose     *)
(* notify has been waited for has left the ring, with the notify reset for *)
(* the next one.                                                           *)
(***************************************************************************)
THEOREM RingBudgetHolds == Spec => []RingExact
<1>1. BInv => RingExact
    BY BudgetSuffices DEF RingExact
<1> QED BY <1>1, BInvAlways, PTL
=============================================================================
