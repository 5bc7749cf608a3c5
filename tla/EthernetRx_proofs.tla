-------------------------- MODULE EthernetRx_proofs --------------------------
(***************************************************************************)
(* The receive path for any ring, pool and mailbox: every frame that goes  *)
(* up comes once and in order, every pbuf is in one place, and the thread  *)
(* never sleeps over a ring that has frames.                               *)
(***************************************************************************)
EXTENDS EthernetRx, FiniteSetTheorems, TLAPS

(* How far a descriptor is ahead of descriptor c *)
Ahead(c, i) == IF i >= c THEN i - c ELSE i + DescCnt - c

Far(i) == Ahead(curRx, i)

(* A frame waits in the descriptor: it has not been looked at. *)
Waiting(i) == ~own[i] /\ ~(pc = "build" /\ i = first)

(* How many wait: the ring is full when one waits where the DMA is *)
Count == IF Waiting(dmaIndex) THEN DescCnt ELSE Far(dmaIndex)

(* The number of the frame that was taken out of the ring and not given up *)
Taken == IF frame = NoFrame THEN handed ELSE frame.num

Busy == {"build", "alloc", "post"}

(* The frames that wait are in the descriptors from CurRxDesc on. *)
RingInv ==
  /\ \A i \in Index : Waiting(i) <=> Far(i) < Count
  /\ Waiting(dmaIndex) => curRx = dmaIndex
  /\ pc = "build" => ~own[first] /\ curRx = Incr(first)

(* Their numbers are consecutive, and come after those that were taken. *)
OrderInv ==
  /\ \A i \in Index : Waiting(i) => buffer[i] + Count = received + 1 + Far(i)
  /\ Taken + Count <= received
  /\ ~dropped => Taken + Count = received
  /\ frame # NoFrame <=> pc \in Busy
  /\ frame # NoFrame => handed < frame.num
  /\ frame # NoFrame /\ ~dropped => frame.num = handed + 1

(* What went up is kept, handled or in the mailbox, in the order of the     *)
(* numbers, so that no pbuf is in two places.                               *)
HeldInv ==
  /\ \A k \in 1 .. Len(mbox) : mbox[k].num \in 1 .. handed
  /\ \A j, k \in 1 .. Len(mbox) : j < k => mbox[j].num < mbox[k].num
  /\ handling # NoFrame => /\ handling.num \in 1 .. handed
                           /\ \A k \in 1 .. Len(mbox) : handling.num < mbox[k].num
  /\ \A p \in kept : /\ p.num <= handed
                     /\ handling # NoFrame => p.num < handling.num
                     /\ \A k \in 1 .. Len(mbox) : p.num < mbox[k].num

PoolInv ==
  /\ IsFiniteSet(kept) /\ PoolAccounted
  /\ msgs = Len(mbox) + One(handling # NoFrame)

(* Whatever came while the thread was not looking is announced. *)
WakeInv ==
  /\ irq => sem /\ ri
  /\ pc \in {"wait", "empty"} /\ ~sem /\ ~ri /\ ~gaveUp => \A i \in Index : own[i]

RxInv == TypeOK /\ RingInv /\ OrderInv /\ HeldInv /\ PoolInv /\ WakeInv
-----------------------------------------------------------------------------
(* Going round the ring *)
LEMMA Round ==
  ASSUME NEW c \in Index, NEW i \in Index
  PROVE  /\ Ahead(c, i) \in Index /\ Incr(i) \in Index
         /\ Ahead(c, i) = 0 <=> i = c
         /\ Ahead(Incr(c), i) = IF i = c THEN DescCnt - 1 ELSE Ahead(c, i) - 1
         /\ Incr(i) = c <=> Ahead(c, i) = DescCnt - 1
         /\ Incr(i) # c => Ahead(c, Incr(i)) = Ahead(c, i) + 1
BY RxAssumption DEF Index, Ahead, Incr

LEMMA One_to_one ==
  ASSUME NEW c \in Index, NEW i \in Index, NEW j \in Index, Ahead(c, i) = Ahead(c, j)
  PROVE  i = j
BY RxAssumption DEF Index, Ahead

(* The counts that the invariant speaks of are numbers. *)
Measured == Count \in 0 .. DescCnt /\ Taken \in Nat /\ \A i \in Index : Far(i) \in Index

LEMMA Counts == TypeOK => Measured
<1> SUFFICES ASSUME TypeOK PROVE Measured
  OBVIOUS
<1>1. \A i \in Index : Far(i) \in Index
  BY Round DEF TypeOK, Far
<1>2. Count \in 0 .. DescCnt
  BY <1>1, RxAssumption DEF TypeOK, Count, Index
<1> QED BY <1>1, <1>2 DEF TypeOK, Taken, Pbuf, Measured

LEMMA Start == Init => RxInv
<1> SUFFICES ASSUME Init PROVE RxInv
  OBVIOUS
<1>1. NoFrame \in Pbuf /\ 0 \in Index
  BY RxAssumption DEF NoFrame, Pbuf, Index
<1>2. TypeOK
  BY <1>1, RxAssumption DEF Init, TypeOK
<1>3. \A i \in Index : ~Waiting(i) /\ Far(i) \in Nat
  BY <1>1, Counts, <1>2 DEF Init, Waiting, Index, Measured
<1>4. Count = 0
  BY <1>1, <1>3, Round DEF Init, Count, Far
<1>5. RingInv
  BY <1>1, <1>3, <1>4 DEF Init, RingInv
<1>6. OrderInv
  BY <1>3, <1>4 DEF Init, OrderInv, Taken, Busy
<1>7. HeldInv /\ WakeInv
  BY DEF Init, HeldInv, WakeInv
<1>8. PoolInv
  BY FS_EmptySet, RxAssumption DEF Init, PoolInv, PoolAccounted, One
<1> QED BY <1>2, <1>5, <1>6, <1>7, <1>8 DEF RxInv

(* A pbuf is in one place, and goes to one place. *)
LEMMA PoolStep ==
  ASSUME RxInv, Next
  PROVE  PoolInv' /\ free' \in 0 .. PoolSize
<1> USE RxAssumption
<1>1. /\ free \in Nat /\ Len(mbox) \in Nat /\ msgs \in Nat
      /\ Cardinality(kept) \in Nat /\ IsFiniteSet(kept)
      /\ mbox \in Seq(Pbuf) /\ frame # NoFrame <=> pc \in Busy
      /\ free + One(pc = "post") + Len(mbox) + One(handling # NoFrame) + Cardinality(kept) = PoolSize
      /\ msgs = Len(mbox) + One(handling # NoFrame)
  BY FS_CardinalityType DEF RxInv, TypeOK, PoolInv, PoolAccounted, OrderInv
<1>2. SUFFICES
        /\ IsFiniteSet(kept') /\ free' \in Nat /\ Len(mbox') \in Nat /\ Cardinality(kept') \in Nat
        /\ free' + One(pc' = "post") + Len(mbox') + One(handling' # NoFrame) + Cardinality(kept') = PoolSize
        /\ msgs' = Len(mbox') + One(handling' # NoFrame)
  BY DEF PoolInv, PoolAccounted, One
<1>3. CASE FrameArrives \/ Interrupt
  BY <1>1, <1>3 DEF FrameArrives, Interrupt, IrqCallback, IrqClear, driver, stack
<1>4. CASE Wait \/ Look \/ Empty \/ Build \/ Alloc \/ NoPbuf
  <2>1. CASE Wait \/ Look \/ Empty \/ Build
    BY <1>1, <2>1 DEF Wait, Look, Empty, Build, At, stack, One
  <2>2. CASE Alloc
    BY <1>1, <2>2 DEF Alloc, At, stack, One
  <2>3. CASE NoPbuf
    BY <1>1, <2>3 DEF NoPbuf, At, stack, One
  <2> QED BY <1>4, <2>1, <2>2, <2>3
<1>5. CASE Post
  <2>1. mbox' = Append(mbox, frame) /\ Len(mbox') = Len(mbox) + 1
    BY <1>1, <1>5 DEF Post, RxInv, TypeOK
  <2> QED BY <1>1, <1>5, <2>1 DEF Post, At, One
<1>6. CASE PostFails
  BY <1>1, <1>6 DEF PostFails, At, One, stack
<1>7. CASE Fetch
  <2>1. Len(mbox') = Len(mbox) - 1 /\ Len(mbox) > 0
    BY <1>1, <1>7 DEF Fetch
  <2>2. Head(mbox) # NoFrame
    <3>1. Head(mbox) = mbox[1] /\ 1 \in 1 .. Len(mbox)
      BY <1>1, <2>1
    <3>2. \A k \in 1 .. Len(mbox) : mbox[k].num \in 1 .. handed
      BY DEF RxInv, HeldInv
    <3>3. handed \in Nat
      BY DEF RxInv, TypeOK
    <3>4. mbox[1].num >= 1
      BY <3>1, <3>2, <3>3
    <3>5. NoFrame.num = 0
      BY DEF NoFrame
    <3> QED BY <3>1, <3>4, <3>5
  <2> QED BY <1>1, <1>7, <2>1, <2>2 DEF Fetch, One, driver
<1>8. CASE Handled
  <2>1. handling \notin kept
    BY <1>8 DEF Handled, RxInv, HeldInv, TypeOK, Pbuf
  <2>2. IsFiniteSet(kept \cup {handling}) /\ Cardinality(kept \cup {handling}) = Cardinality(kept) + 1
    BY <1>1, <2>1, FS_AddElement
  <2>3. pc' = pc /\ mbox' = mbox /\ handling # NoFrame /\ handling' = NoFrame /\ msgs' = msgs - 1
    BY <1>8 DEF Handled, driver
  <2>4. CASE free' = free + 1 /\ kept' = kept
    BY <1>1, <2>3, <2>4 DEF One
  <2>5. CASE free' = free /\ kept' = kept \cup {handling}
    BY <1>1, <2>2, <2>3, <2>5 DEF One
  <2> QED BY <1>8, <2>4, <2>5 DEF Handled
<1>9. ASSUME NEW p \in kept, Release(p) PROVE <1>2!1
  <2>1. IsFiniteSet(kept \ {p}) /\ Cardinality(kept \ {p}) = Cardinality(kept) - 1 /\ Cardinality(kept) > 0
    BY <1>1, FS_RemoveElement, FS_EmptySet
  <2>2. /\ pc' = pc /\ mbox' = mbox /\ handling' = handling /\ msgs' = msgs
        /\ free' = free + 1 /\ kept' = kept \ {p}
    BY <1>9 DEF Release, driver
  <2>3. IsFiniteSet(kept') /\ Cardinality(kept') = Cardinality(kept) - 1
    BY <2>1, <2>2
  <2>4. One(pc' = "post") = One(pc = "post") /\ One(handling' # NoFrame) = One(handling # NoFrame)
    BY <2>2
  <2>5. One(pc = "post") \in Nat /\ One(handling # NoFrame) \in Nat
    BY DEF One
  <2>6. free' + One(pc' = "post") + Len(mbox') + One(handling' # NoFrame) + Cardinality(kept') = PoolSize
    BY <1>1, <2>2, <2>3, <2>4, <2>5
  <2> QED BY <1>1, <2>1, <2>2, <2>3, <2>4, <2>6
<1> QED BY <1>3, <1>4, <1>5, <1>6, <1>7, <1>8, <1>9 DEF Next, Driver

LEMMA TypeStep ==
  ASSUME RxInv, Next
  PROVE  TypeOK'
<1> USE RxAssumption
<1>1. TypeOK /\ free' \in 0 .. PoolSize
  BY PoolStep DEF RxInv
<1>0. \A i \in Index : Incr(i) \in Index
  BY Round
<1>2. NoFrame \in Pbuf
  BY DEF NoFrame, Pbuf, Index
<1>3. CASE FrameArrives
  BY <1>0, <1>1, <1>3 DEF FrameArrives, TypeOK, driver, stack, past
<1>4. CASE Interrupt
  BY <1>1, <1>4 DEF Interrupt, IrqCallback, IrqClear, TypeOK, ring, driver, stack, past
<1>5. CASE Look
  <2>1. [idx |-> curRx, num |-> buffer[curRx]] \in Pbuf
    BY <1>1 DEF TypeOK, Pbuf
  <2> QED BY <1>0, <1>1, <1>5, <2>1 DEF Look, At, TypeOK, ring, wake, stack, past
<1>6. CASE Wait \/ Empty \/ Build \/ Alloc \/ NoPbuf
  <2>1. CASE Wait
    BY <1>1, <2>1 DEF Wait, At, TypeOK, ring, stack
  <2>4. CASE Empty
    BY <1>1, <2>4 DEF Empty, At, TypeOK, ring, wake, stack, past
  <2>2. CASE Build
    BY <1>1, <2>2 DEF Build, At, TypeOK, ring, wake, driver, stack, past
  <2>3. CASE Alloc
    BY <1>1, <2>3 DEF Alloc, At, TypeOK, ring, wake, stack, past
  <2>5. CASE NoPbuf
    BY <1>1, <1>2, <2>5 DEF NoPbuf, At, TypeOK, ring, wake, stack
  <2> QED BY <1>6, <2>1, <2>2, <2>3, <2>4, <2>5
<1>7. CASE Post \/ PostFails
  <2>1. CASE Post
    <3>1. mbox' \in Seq(Pbuf) /\ Len(mbox') <= MboxSize /\ handed' \in Nat /\ msgs' \in Nat
      BY <1>1, <2>1 DEF Post, TypeOK, Pbuf
    <3> QED BY <1>1, <1>2, <2>1, <3>1 DEF Post, At, TypeOK, ring, wake, past
  <2>2. CASE PostFails
    BY <1>1, <1>2, <2>2 DEF PostFails, At, TypeOK, ring, wake, stack, past
  <2> QED BY <1>7, <2>1, <2>2
<1>8. CASE Fetch
  BY <1>1, <1>8 DEF Fetch, TypeOK, ring, wake, driver, past
<1>9. CASE Handled
  <2>1. msgs > 0
    BY <1>1, <1>9 DEF Handled, RxInv, PoolInv, One, TypeOK
  <2> QED BY <1>1, <1>2, <1>9, <2>1 DEF Handled, TypeOK, ring, wake, driver, past
<1>10. ASSUME NEW p \in kept, Release(p) PROVE TypeOK'
  BY <1>1, <1>10 DEF Release, TypeOK, ring, wake, driver, past
<1> QED BY <1>3, <1>4, <1>5, <1>6, <1>7, <1>8, <1>9, <1>10 DEF Next, Driver

(* A frame is written into the next descriptor. *)
LEMMA ArrivalStep ==
  ASSUME RxInv, FrameArrives, TypeOK'
  PROVE  RingInv' /\ OrderInv'
<1> USE RxAssumption
<1>1. TypeOK /\ TypeOK' /\ RingInv /\ OrderInv /\ Measured /\ Measured'
  <2>1. TypeOK' => Measured'
    BY Counts, PTL
  <2> QED BY <2>1, Counts DEF RxInv
<1>2. /\ own[dmaIndex] /\ received' = received + 1 /\ dmaIndex' = Incr(dmaIndex)
      /\ own' = [own EXCEPT ![dmaIndex] = FALSE]
      /\ buffer' = [buffer EXCEPT ![dmaIndex] = received + 1]
      /\ pc' = pc /\ curRx' = curRx /\ first' = first /\ frame' = frame
      /\ handed' = handed /\ dropped' = dropped
  BY DEF FrameArrives, driver, past
<1>3. ~Waiting(dmaIndex) /\ Count = Far(dmaIndex) /\ Count < DescCnt
  BY <1>1, <1>2 DEF Waiting, Count, Measured, TypeOK, Index
<1>4. \A i \in Index : /\ Far(i)' = Far(i)
                       /\ Waiting(i)' <=> Waiting(i) \/ i = dmaIndex
                       /\ buffer'[i] = IF i = dmaIndex THEN received + 1 ELSE buffer[i]
  BY <1>1, <1>2 DEF Far, Waiting, TypeOK, RingInv
<1>5. Count' = Count + 1 /\ (Waiting(dmaIndex)' => curRx' = dmaIndex')
  <2>1. CASE Count = DescCnt - 1
    <3>1. dmaIndex' = curRx
      BY <1>1, <1>2, <1>3, <2>1, Round DEF Far, TypeOK
    <3>2. curRx \in Index /\ Far(curRx) = 0
      BY <1>1, Round DEF TypeOK, Far
    <3>3. Waiting(curRx)'
      <4>1. CASE Count = 0
        <5>1. dmaIndex = curRx
          BY <1>1, <1>3, <4>1, Round DEF Far, TypeOK
        <5> QED BY <1>1, <1>2, <1>4, <3>2, <5>1 DEF Waiting
      <4>2. CASE Count # 0
        <5>1. Waiting(curRx)
          BY <1>1, <3>2, <4>2 DEF RingInv, Measured
        <5> QED BY <1>1, <1>2, <1>4, <3>2, <5>1 DEF Waiting
      <4> QED BY <4>1, <4>2
    <3> QED BY <1>2, <2>1, <3>1, <3>3, <1>1 DEF Count, TypeOK, Measured
  <2>2. CASE Count # DescCnt - 1
    <3>1. Incr(dmaIndex) \in Index /\ Far(Incr(dmaIndex)) = Count + 1 /\ Incr(dmaIndex) # dmaIndex
      <4>1. dmaIndex \in Index /\ curRx \in Index /\ Far(dmaIndex) # DescCnt - 1
        BY <1>1, <1>3, <2>2 DEF TypeOK
      <4>2. Incr(dmaIndex) \in Index /\ Far(Incr(dmaIndex)) = Far(dmaIndex) + 1
        BY <4>1, Round DEF Far
      <4>3. Far(dmaIndex) \in Nat
        BY <1>1, <4>1 DEF Measured, Index
      <4> QED BY <1>3, <4>2, <4>3
    <3>2. ~Waiting(dmaIndex)'
      BY <1>1, <1>2, <1>4, <3>1 DEF RingInv, Measured, Waiting
    <3> QED BY <1>2, <1>4, <3>1, <3>2 DEF Count
  <2> QED BY <2>1, <2>2
<1>6. \A i \in Index : Waiting(i)' <=> Far(i)' < Count'
  <2> SUFFICES ASSUME NEW i \in Index PROVE Waiting(i)' <=> Far(i)' < Count'
    OBVIOUS
  <2>1. Far(i) = Count => i = dmaIndex
    BY <1>1, <1>3, One_to_one DEF Far, TypeOK
  <2> QED BY <1>1, <1>3, <1>4, <1>5, <2>1 DEF RingInv, Measured, Index
<1>7. RingInv'
  <2>1. pc' = "build" => ~own'[first'] /\ curRx' = Incr(first')
    BY <1>1, <1>2 DEF RingInv, TypeOK
  <2> QED BY <1>5, <1>6, <2>1 DEF RingInv
<1>8. Taken' = Taken
  BY <1>2 DEF Taken
<1>9. OrderInv'
  <2>1. \A i \in Index : Waiting(i)' => buffer'[i] + Count' = received' + 1 + Far(i)'
    <3> SUFFICES ASSUME NEW i \in Index, Waiting(i)' PROVE buffer'[i] + Count' = received' + 1 + Far(i)'
      OBVIOUS
    <3>1. buffer[i] \in Nat /\ received \in Nat /\ Count \in Nat /\ Far(i) \in Nat
      BY <1>1 DEF TypeOK, Measured, Index
    <3>2. Far(i)' = Far(i)
      BY <1>4
    <3>3. CASE i = dmaIndex
      BY <1>2, <1>3, <1>4, <1>5, <3>1, <3>2, <3>3
    <3>4. CASE i # dmaIndex
      BY <1>1, <1>2, <1>4, <1>5, <3>1, <3>2, <3>4 DEF OrderInv
    <3> QED BY <3>3, <3>4
  <2> QED BY <1>1, <1>2, <1>5, <1>8, <2>1 DEF OrderInv, Measured, TypeOK
<1> QED BY <1>7, <1>9

(* The thread takes the frame of the next descriptor. *)
LEMMA TakeStep ==
  ASSUME RxInv, Look, ~own[curRx], TypeOK'
  PROVE  RingInv' /\ OrderInv'
<1> USE RxAssumption
<1>1. TypeOK /\ TypeOK' /\ RingInv /\ OrderInv /\ Measured /\ Measured'
  <2>1. TypeOK' => Measured'
    BY Counts, PTL
  <2> QED BY <2>1, Counts DEF RxInv
<1>2. /\ pc = "look" /\ pc' = "build" /\ first' = curRx /\ curRx' = Incr(curRx)
      /\ frame' = [idx |-> curRx, num |-> buffer[curRx]]
      /\ own' = own /\ buffer' = buffer /\ received' = received /\ dmaIndex' = dmaIndex
      /\ handed' = handed /\ dropped' = dropped
  BY DEF Look, At, ring, past
<1>3. Waiting(curRx) /\ Far(curRx) = 0 /\ Count > 0 /\ frame = NoFrame
  BY <1>1, <1>2, Round DEF Waiting, Far, TypeOK, RingInv, OrderInv, Busy, Measured
<1>4. \A i \in Index : /\ Far(i)' = IF i = curRx THEN DescCnt - 1 ELSE Far(i) - 1
                       /\ Waiting(i)' <=> Waiting(i) /\ i # curRx
  <2> SUFFICES ASSUME NEW i \in Index
               PROVE  /\ Far(i)' = IF i = curRx THEN DescCnt - 1 ELSE Far(i) - 1
                      /\ Waiting(i)' <=> Waiting(i) /\ i # curRx
    OBVIOUS
  <2>1. Far(i)' = IF i = curRx THEN DescCnt - 1 ELSE Far(i) - 1
    <3>1. Ahead(Incr(curRx), i) = IF i = curRx THEN DescCnt - 1 ELSE Ahead(curRx, i) - 1
      <4>1. curRx \in Index
        BY <1>1 DEF TypeOK
      <4> QED BY <4>1, Round
    <3> QED BY <1>2, <3>1 DEF Far
  <2>2. Waiting(i)' <=> Waiting(i) /\ i # curRx
    BY <1>2 DEF Waiting
  <2> QED BY <2>1, <2>2
<1>5. Count' = Count - 1 /\ ~Waiting(dmaIndex)'
  <2>1. ~Waiting(dmaIndex)'
    BY <1>1, <1>2, <1>4 DEF RingInv, TypeOK, Waiting
  <2>2. Count' = Far(dmaIndex)'
    BY <2>1 DEF Count
  <2>3. CASE Waiting(dmaIndex)
    BY <1>1, <1>2, <1>4, <2>2, <2>3 DEF Count, RingInv, TypeOK, Far
  <2>4. CASE ~Waiting(dmaIndex)
    <3>1. Count = Far(dmaIndex) /\ dmaIndex # curRx
      BY <1>3, <2>4 DEF Count
    <3>2. dmaIndex \in Index /\ dmaIndex' = dmaIndex
      BY <1>1, <1>2 DEF TypeOK
    <3>3. Far(dmaIndex)' = Far(dmaIndex) - 1
      BY <1>4, <3>1, <3>2 DEF Far
    <3> QED BY <2>1, <2>2, <3>1, <3>3
  <2> QED BY <2>1, <2>3, <2>4
<1>6. RingInv'
  <2>1. \A i \in Index : Waiting(i)' <=> Far(i)' < Count'
    <3> SUFFICES ASSUME NEW i \in Index PROVE Waiting(i)' <=> Far(i)' < Count'
      OBVIOUS
    <3>1. Far(i) \in Index /\ Count \in 0 .. DescCnt /\ (Waiting(i) <=> Far(i) < Count)
      BY <1>1 DEF RingInv, Measured
    <3> QED BY <1>3, <1>4, <1>5, <3>1 DEF Index
  <2>2. ~own'[first'] /\ curRx' = Incr(first')
    BY <1>2
  <2> QED BY <1>5, <2>1, <2>2 DEF RingInv
<1>7. /\ buffer[curRx] + Count = received + 1 /\ buffer[curRx] \in Nat
      /\ received \in Nat /\ Count \in Nat /\ handed \in Nat
  BY <1>1, <1>3 DEF OrderInv, TypeOK, Measured
<1>8. Taken = handed /\ Taken' = buffer[curRx] /\ frame' # NoFrame
  <2>1. handed + Count <= received
    BY <1>1, <1>3 DEF OrderInv, Taken
  <2>2. frame' # NoFrame
    BY <1>2, <1>7, <2>1 DEF NoFrame
  <2> QED BY <1>2, <1>3, <2>2 DEF Taken
<1>9. OrderInv'
  <2>1. \A i \in Index : Waiting(i)' => buffer'[i] + Count' = received' + 1 + Far(i)'
    <3> SUFFICES ASSUME NEW i \in Index, Waiting(i)' PROVE buffer'[i] + Count' = received' + 1 + Far(i)'
      OBVIOUS
    <3>1. buffer[i] \in Nat /\ Far(i) \in Nat /\ buffer[i] + Count = received + 1 + Far(i)
      BY <1>1, <1>4 DEF TypeOK, Measured, Index, OrderInv
    <3> QED BY <1>2, <1>4, <1>5, <1>7, <3>1
  <2>2. Taken' + Count' = received' /\ handed' < frame'.num
    BY <1>1, <1>2, <1>5, <1>7, <1>8 DEF OrderInv
  <2>3. ~dropped' => frame'.num = handed' + 1
    BY <1>1, <1>2, <1>7, <1>8 DEF OrderInv
  <2>4. Taken' + Count' <= received'
    BY <1>2, <1>7, <2>2
  <2> QED BY <1>2, <1>8, <2>1, <2>2, <2>3, <2>4 DEF OrderInv, Busy
<1> QED BY <1>6, <1>9

(* No other step touches the frames that wait. *)
LEMMA OtherStep ==
  ASSUME RxInv, TypeOK', Next, ~FrameArrives, Look => own[curRx]
  PROVE  RingInv' /\ OrderInv'
<1> USE RxAssumption
<1>1. TypeOK /\ TypeOK' /\ RingInv /\ OrderInv /\ Measured /\ Measured'
  <2>1. TypeOK' => Measured'
    BY Counts, PTL
  <2> QED BY <2>1, Counts DEF RxInv
<1>2. /\ curRx' = curRx /\ first' = first /\ dmaIndex' = dmaIndex
      /\ buffer' = buffer /\ received' = received
  BY DEF Next, Interrupt, IrqCallback, IrqClear, Fetch, Handled, Release, Driver, ring, driver,
         Wait, Look, Empty, Build, Alloc, NoPbuf, Post, PostFails
<1>3. /\ pc' = "build" => pc = "build" /\ own' = own
      /\ \A i \in Index : Waiting(i)' <=> Waiting(i)
  <2>1. CASE Build
    BY <1>1, <1>2, <2>1 DEF Build, At, Waiting, TypeOK
  <2>2. CASE ~Build
    <3>1. own' = own /\ (pc' = "build" <=> pc = "build")
      BY <2>2 DEF Next, Interrupt, IrqCallback, IrqClear, Fetch, Handled, Release, Driver, ring, driver,
         At, Wait, Look, Empty, Alloc, NoPbuf, Post, PostFails
    <3> QED BY <1>2, <3>1 DEF Waiting
  <2> QED BY <2>1, <2>2
<1>4. Count' = Count /\ \A i \in Index : Far(i)' = Far(i)
  BY <1>1, <1>2, <1>3 DEF Count, Far, TypeOK
<1>5. RingInv'
  <2>1. \A i \in Index : Waiting(i)' <=> Far(i)' < Count'
    BY <1>1, <1>3, <1>4 DEF RingInv
  <2>2. Waiting(dmaIndex)' => curRx' = dmaIndex'
    BY <1>1, <1>2, <1>3 DEF RingInv, TypeOK, Waiting
  <2>3. pc' = "build" => ~own'[first'] /\ curRx' = Incr(first')
    BY <1>1, <1>2, <1>3 DEF RingInv
  <2> QED BY <2>1, <2>2, <2>3 DEF RingInv
<1>6. \A i \in Index : Waiting(i)' => buffer'[i] + Count' = received' + 1 + Far(i)'
  BY <1>1, <1>2, <1>3, <1>4 DEF OrderInv
<1>7. /\ handed \in Nat /\ received \in Nat /\ Taken \in Nat /\ Count \in Nat /\ frame.num \in Nat
      /\ Taken + Count <= received
  BY <1>1 DEF TypeOK, Measured, OrderInv, Pbuf
<1>8. CASE frame' = frame /\ (pc' \in Busy <=> pc \in Busy) /\ handed' = handed /\ dropped' = dropped
  BY <1>1, <1>2, <1>4, <1>5, <1>6, <1>8 DEF OrderInv, Taken
<1>9. CASE pc \in Busy /\ pc' \notin Busy /\ frame' = NoFrame /\ handed' = handed /\ dropped'
  <2>1. Taken' < Taken /\ Taken' = handed
    BY <1>1, <1>9 DEF OrderInv, Taken
  <2>2. Taken' + Count' <= received'
    BY <1>2, <1>4, <1>7, <2>1
  <2> QED BY <1>5, <1>6, <1>9, <2>2 DEF OrderInv
<1>10. CASE Post
  <2>1. /\ pc' = "look" /\ frame' = NoFrame /\ handed' = frame.num /\ dropped' = dropped
        /\ frame # NoFrame
    BY <1>1, <1>10 DEF Post, At, OrderInv, Busy
  <2>2. Taken' = Taken
    BY <2>1 DEF Taken
  <2> QED BY <1>1, <1>2, <1>4, <1>5, <1>6, <2>1, <2>2 DEF OrderInv, Busy
<1>11. CASE NoPbuf \/ PostFails
  <2>1. pc \in Busy /\ pc' \notin Busy /\ frame' = NoFrame /\ handed' = handed /\ dropped'
    BY <1>11 DEF NoPbuf, PostFails, At, Busy
  <2> QED BY <1>5, <1>9, <2>1
<1>12. CASE ~(Post \/ NoPbuf \/ PostFails)
  <2>1. frame' = frame /\ (pc' \in Busy <=> pc \in Busy) /\ handed' = handed /\ dropped' = dropped
    BY <1>12 DEF Next, Interrupt, IrqCallback, IrqClear, Fetch, Handled, Release, Driver, driver, past,
         At, Wait, Look, Empty, Build, Alloc, Busy
  <2> QED BY <1>5, <1>8, <2>1
<1> QED BY <1>5, <1>10, <1>11, <1>12

(* What went up *)
LEMMA HeldStep ==
  ASSUME RxInv, Next, TypeOK'
  PROVE  HeldInv'
<1> USE RxAssumption
<1>1. /\ mbox \in Seq(Pbuf) /\ handling \in Pbuf /\ kept \subseteq Pbuf /\ handed \in Nat
      /\ frame \in Pbuf /\ HeldInv /\ OrderInv
  BY DEF RxInv, TypeOK
<1>2. CASE Post
  <2>1. frame.num > handed /\ frame.num \in Nat
    BY <1>1, <1>2 DEF Post, At, OrderInv, Busy, Pbuf
  <2>2. /\ mbox' = Append(mbox, frame) /\ handed' = frame.num
        /\ handling' = handling /\ kept' = kept
    BY <1>2 DEF Post
  <2>3. /\ Len(mbox') = Len(mbox) + 1 /\ Len(mbox) \in Nat
        /\ \A k \in 1 .. Len(mbox') : mbox'[k] = IF k = Len(mbox) + 1 THEN frame ELSE mbox[k]
    BY <1>1, <2>2
  <2>4. \A k \in 1 .. Len(mbox) : mbox[k].num \in 1 .. handed
    BY <1>1 DEF HeldInv
  <2>5. /\ \A k \in 1 .. Len(mbox') : mbox'[k].num \in 1 .. handed'
        /\ \A j, k \in 1 .. Len(mbox') : j < k => mbox'[j].num < mbox'[k].num
    BY <1>1, <2>1, <2>2, <2>3, <2>4 DEF HeldInv
  <2>6. handling' # NoFrame => /\ handling'.num \in 1 .. handed'
                               /\ \A k \in 1 .. Len(mbox') : handling'.num < mbox'[k].num
    BY <1>1, <2>1, <2>2, <2>3 DEF HeldInv
  <2>7. \A p \in kept' : /\ p.num <= handed'
                         /\ handling' # NoFrame => p.num < handling'.num
                         /\ \A k \in 1 .. Len(mbox') : p.num < mbox'[k].num
    BY <1>1, <2>1, <2>2, <2>3 DEF HeldInv, Pbuf
  <2> QED BY <2>5, <2>6, <2>7 DEF HeldInv
<1>3. CASE Fetch
  <2>1. /\ handling = NoFrame /\ handling' = mbox[1] /\ Len(mbox) \in Nat \ {0}
        /\ kept' = kept /\ handed' = handed /\ Len(mbox') = Len(mbox) - 1
        /\ \A k \in 1 .. Len(mbox') : mbox'[k] = mbox[k + 1] /\ k + 1 \in 1 .. Len(mbox)
    BY <1>1, <1>3 DEF Fetch, past
  <2>2. /\ \A k \in 1 .. Len(mbox') : mbox'[k].num \in 1 .. handed'
        /\ \A j, k \in 1 .. Len(mbox') : j < k => mbox'[j].num < mbox'[k].num
    <3>1. \A k \in 1 .. Len(mbox') : mbox'[k].num \in 1 .. handed'
      BY <1>1, <2>1 DEF HeldInv
    <3>2. ASSUME NEW j \in 1 .. Len(mbox'), NEW k \in 1 .. Len(mbox'), j < k
          PROVE  mbox'[j].num < mbox'[k].num
      <4>1. mbox'[j] = mbox[j + 1] /\ mbox'[k] = mbox[k + 1]
        BY <2>1
      <4>2. j + 1 \in 1 .. Len(mbox) /\ k + 1 \in 1 .. Len(mbox) /\ j + 1 < k + 1
        BY <2>1, <3>2
      <4> QED BY <1>1, <4>1, <4>2 DEF HeldInv
    <3> QED BY <3>1, <3>2
  <2>3. /\ handling'.num \in 1 .. handed'
        /\ \A k \in 1 .. Len(mbox') : handling'.num < mbox'[k].num
    BY <1>1, <2>1 DEF HeldInv
  <2>4. \A p \in kept' : p.num <= handed' /\ p.num < handling'.num
    BY <1>1, <2>1 DEF HeldInv
  <2>5. \A p \in kept' : \A k \in 1 .. Len(mbox') : p.num < mbox'[k].num
    BY <1>1, <2>1 DEF HeldInv
  <2> QED BY <2>2, <2>3, <2>4, <2>5 DEF HeldInv
<1>4. CASE Handled
  BY <1>1, <1>4 DEF Handled, HeldInv, past, Pbuf
<1>5. ASSUME NEW p \in kept, Release(p) PROVE HeldInv'
  BY <1>1, <1>5 DEF Release, HeldInv, past
<1>6. CASE FrameArrives \/ Interrupt \/ (Driver /\ ~Post)
  <2>1. mbox' = mbox /\ handling' = handling /\ kept' = kept /\ handed' = handed
    BY <1>6 DEF FrameArrives, Interrupt, IrqCallback, IrqClear, Driver, Wait, Look, Empty, Build,
         Alloc, NoPbuf, PostFails, stack, past
  <2> QED BY <1>1, <2>1 DEF HeldInv
<1> QED BY <1>2, <1>3, <1>4, <1>5, <1>6 DEF Next

(* The wake-up *)
LEMMA WakeStep ==
  ASSUME RxInv, Next, TypeOK'
  PROVE  WakeInv'
<1> USE RxAssumption
<1>1. TypeOK /\ WakeInv /\ Measured /\ RingInv
  BY Counts DEF RxInv
<1>2. CASE FrameArrives
  BY <1>1, <1>2 DEF FrameArrives, WakeInv
<1>3. CASE IrqCallback
  BY <1>1, <1>3 DEF IrqCallback, WakeInv
<1>4. CASE IrqClear
  BY <1>1, <1>4 DEF IrqClear, WakeInv
<1>5. CASE Look /\ own[curRx]
  <2>1. pc = "look" /\ ~Waiting(curRx) /\ curRx \in Index /\ Far(curRx) = 0
    BY <1>1, <1>5, Round DEF Look, At, Waiting, TypeOK, Far
  <2>2. Count = 0
    BY <1>1, <2>1 DEF RingInv, Measured
  <2>3. \A i \in Index : own[i]
    <3>1. \A i \in Index : ~Waiting(i)
      BY <1>1, <2>2 DEF RingInv, Measured, Index
    <3> QED BY <1>1, <2>1, <3>1 DEF Waiting, TypeOK
  <2> QED BY <1>1, <1>5, <2>3 DEF Look, At, WakeInv, ring, wake
<1>6. CASE (Look /\ ~own[curRx]) \/ Build \/ Alloc \/ Post \/ PostFails \/ Wait
  BY <1>1, <1>6 DEF Look, Build, Alloc, Post, PostFails, Wait, At, WakeInv, wake
<1>7. CASE Empty \/ NoPbuf
  BY <1>1, <1>7 DEF Empty, NoPbuf, At, WakeInv, wake, ring, past
<1>8. CASE Fetch \/ Handled \/ \E p \in kept : Release(p)
  <2>1. UNCHANGED <<own, ri, irq, sem, pc, gaveUp>>
    BY <1>8 DEF Fetch, Handled, Release, ring, wake, driver, past
  <2> QED BY <1>1, <2>1 DEF WakeInv
<1> QED BY <1>2, <1>3, <1>4, <1>5, <1>6, <1>7, <1>8 DEF Next, Driver, Interrupt
-----------------------------------------------------------------------------
LEMMA Step == RxInv /\ [Next]_vars => RxInv'
<1> SUFFICES ASSUME RxInv, [Next]_vars PROVE RxInv'
  OBVIOUS
<1>1. CASE Next
  <2>1. TypeOK'
    BY <1>1, TypeStep
  <2>2. RingInv' /\ OrderInv'
    <3>1. CASE FrameArrives
      BY <2>1, <3>1, ArrivalStep
    <3>2. CASE Look /\ ~own[curRx]
      BY <2>1, <3>2, TakeStep
    <3>3. CASE ~FrameArrives /\ (Look => own[curRx])
      BY <1>1, <2>1, <3>3, OtherStep
    <3> QED BY <3>1, <3>2, <3>3
  <2> QED BY <1>1, <2>1, <2>2, PoolStep, HeldStep, WakeStep DEF RxInv
<1>2. CASE UNCHANGED vars
  <2>1. UNCHANGED <<own, buffer, dmaIndex, received, ri, irq, sem, pc, curRx, first, frame, free,
                    mbox, msgs, handling, kept, handed, dropped, gaveUp>>
    BY <1>2 DEF vars, ring, wake, driver, stack, past
  <2> QED BY <2>1 DEF RxInv, TypeOK, RingInv, OrderInv, HeldInv, PoolInv, PoolAccounted, WakeInv,
                      Waiting, Count, Far, Taken
<1> QED BY <1>1, <1>2

(* The invariant of the receive path, for any ring, pool and mailbox *)
THEOREM RxInvariance == Spec => []RxInv
BY Start, Step, PTL DEF Spec

(* Types of all state, the mailbox within its size and the pool within its *)
(* own, for every ring, pool and mailbox                                   *)
THEOREM RxTypes == Spec => []TypeOK
<1>1. RxInv => TypeOK
  BY DEF RxInv
<1> QED BY <1>1, RxInvariance, PTL

(* RX_POOL, low_level_input, pbuf_free_custom: no step of the way up loses *)
(* or doubles a pbuf, for any sizes.                                       *)
THEOREM NoPbufIsLost == Spec => []PoolAccounted
<1>1. RxInv => PoolAccounted
  BY DEF RxInv, PoolInv
<1> QED BY <1>1, RxInvariance, PTL

(* tcpip_inpkt gets a message whenever it asks, if MEMP_NUM_TCPIP_MSG_INPKT *)
(* is the mailbox and two more.                                             *)
THEOREM InputHasMessages == Spec => []MessagesSuffice
<1>1. RxInv => MessagesSuffice
  BY RxAssumption DEF RxInv, TypeOK, PoolInv, One, MessagesSuffice
<1> QED BY <1>1, RxInvariance, PTL

(* ethernetif_input and HAL_ETH_RxCpltCallback: the thread never sleeps     *)
(* over frames in the ring without anything that will wake it, wherever in  *)
(* the ring they are.                                                       *)
THEOREM NoFrameIsStranded == Spec => []NothingStranded
<1>1. RxInv => NothingStranded
  BY DEF RxInv, WakeInv, NothingStranded
<1> QED BY <1>1, RxInvariance, PTL

(* The receive path implements a channel: from the DMA to tcpip_thread the  *)
(* frames come in order, once, and without a gap as long as none was given  *)
(* up, for every size of the ring.                                          *)
THEOREM ReceivePathIsAChannel == Spec => FramesInOrder
<1>1. Init => Up!Init
  BY DEF Init, Up!Init
<1>2. ASSUME RxInv, [Next]_vars PROVE [Up!Next]_(Up!vars)
  <2>1. CASE FrameArrives
    BY <1>2, <2>1 DEF FrameArrives, past, Up!Next, Up!Send, RxInv, TypeOK
  <2>2. CASE Post
    <3>1. /\ handed' = frame.num /\ received' = received /\ dropped' = dropped
          /\ frame # NoFrame
      BY <1>2, <2>2 DEF Post, At, ring, RxInv, OrderInv, Busy
    <3>2. /\ handed \in Nat /\ received \in Nat /\ frame.num \in Nat /\ Count \in Nat
          /\ frame.num + Count <= received /\ handed < frame.num
          /\ ~dropped => frame.num = handed + 1
      BY <1>2, <3>1, Counts, RxAssumption DEF RxInv, TypeOK, Pbuf, OrderInv, Taken, Measured
    <3> QED BY <3>1, <3>2 DEF Up!Next, Up!Deliver
  <2>3. CASE NoPbuf \/ PostFails
    BY <2>3 DEF NoPbuf, PostFails, ring, Up!Next, Up!Cut
  <2>4. CASE ~(FrameArrives \/ Post \/ NoPbuf \/ PostFails)
    BY <1>2, <2>4 DEF vars, Next, Interrupt, IrqCallback, IrqClear, Driver, Wait, Look, Empty, Build,
         Alloc, Fetch, Handled, Release, ring, past, Up!vars
  <2> QED BY <2>1, <2>2, <2>3, <2>4
<1> QED BY <1>1, <1>2, RxInvariance, PTL DEF Spec, FramesInOrder, Up!Spec
=============================================================================
