----------------------------- MODULE EthernetRx -----------------------------
(***************************************************************************)
(* The receive path: the ring of descriptors, the receive interrupt, the   *)
(* semaphore, ethernetif_input with low_level_input, the pool of pbufs and *)
(* the mailbox of tcpip_thread.                                            *)
(*                                                                         *)
(* A frame fits in the buffer of one descriptor (ETH_RX_BUFFER_SIZE), each *)
(* descriptor keeps its buffer for ever, and the pbuf that goes up the     *)
(* stack refers to that buffer: nothing is copied.                         *)
(*                                                                         *)
(* Outside: the DMA writes a frame into a descriptor it owns and raises    *)
(* the interrupt; without one the frame is lost and nothing changes. What  *)
(* the protocols of lwIP keep of a frame, and for how long, is open.       *)
(***************************************************************************)
EXTENDS Naturals, Sequences, FiniteSets, Functions

CONSTANTS
  DescCnt,       \* ETH_RX_DESC_CNT
  PoolSize,      \* pbufs in RX_POOL
  MboxSize,      \* TCPIP_MBOX_SIZE
  MsgPool,       \* MEMP_NUM_TCPIP_MSG_INPKT
  MaxFrames      \* frames that arrive

ASSUME RxAssumption ==
  /\ DescCnt \in Nat \ {0} /\ PoolSize \in Nat \ {0} /\ MboxSize \in Nat \ {0}
  /\ MsgPool \in Nat /\ MsgPool >= MboxSize + 2 /\ MaxFrames \in Nat

VARIABLES
  own, buffer,   \* descriptors: owned by the DMA, and the frame in its buffer
  dmaIndex,      \* the DMA's current descriptor
  received,      \* frames written to the ring so far
  ri, irq,       \* the DMA's RI flag; HAL_ETH_IRQHandler between callback and clearing
  sem,           \* RxPktSemaphore
  pc,            \* where ethernetif_input is
  curRx, first,  \* CurRxDesc, FirstAppDesc
  frame,         \* the pbuf, or the frame without one, that ethernetif_input has
  free,          \* pbufs left in RX_POOL
  mbox, msgs,    \* tcpip_mbox, and messages in use
  handling,      \* the pbuf tcpip_thread is handling
  kept,          \* pbufs that a connection, the application or a queue keeps
  handed,        \* the frame that was posted last
  dropped,       \* a frame was given up
  gaveUp         \* the thread stopped for want of a pbuf, since it last woke

ring   == <<own, buffer, dmaIndex, received>>
wake   == <<ri, irq, sem>>
driver == <<pc, curRx, first, frame>>
stack  == <<mbox, msgs, handling, kept>>
past   == <<handed, dropped, gaveUp>>
vars   == <<ring, wake, driver, free, stack, past>>

Index == 0 .. DescCnt - 1
NoFrame == [idx |-> 0, num |-> 0]

(* INCR_RX_DESC_INDEX, and the same without the return to 0 *)
IncrPast(i) == i + 1
Incr(i) == IF i + 1 >= DescCnt THEN i + 1 - DescCnt ELSE i + 1

(* The thread does not run while the interrupt is being handled *)
At(p) == pc = p /\ ~irq
-----------------------------------------------------------------------------
(* The DMA *)
FrameArrives ==
  /\ received < MaxFrames /\ own[dmaIndex]
  /\ received' = received + 1
  /\ own' = [own EXCEPT ![dmaIndex] = FALSE]
  /\ buffer' = [buffer EXCEPT ![dmaIndex] = received + 1]
  /\ dmaIndex' = Incr(dmaIndex)
  /\ ri' = TRUE
  /\ UNCHANGED <<irq, sem, driver, free, stack, past>>

(* HAL_ETH_IRQHandler: the callback first, RI is cleared after it. *)

IrqCallback ==
  /\ ri /\ ~irq /\ irq' = TRUE
  /\ sem' = TRUE
  /\ UNCHANGED <<ring, ri, driver, free, stack, past>>

IrqClear ==
  /\ irq /\ irq' = FALSE
  /\ ri' = FALSE
  /\ UNCHANGED <<ring, sem, driver, free, stack, past>>
-----------------------------------------------------------------------------
(* ethernetif_input *)
Wait ==
  /\ At("wait") /\ sem
  /\ sem' = FALSE /\ pc' = "look"
  /\ gaveUp' = FALSE
  /\ UNCHANGED <<ring, ri, irq, curRx, first, frame, free, stack, handed, dropped>>

(* that takes the next descriptor for a context descriptor, unseen *)
LookPast ==
  /\ At("look")
  /\ IF own[curRx]
     THEN pc' = "empty" /\ UNCHANGED <<curRx, first, frame>>
     ELSE /\ pc' = "build"
          /\ first' = curRx /\ curRx' = Incr(Incr(curRx))
          /\ frame' = [idx |-> curRx, num |-> buffer[curRx]]
  /\ UNCHANGED <<ring, wake, free, stack, past>>

(* HAL_ETH_IsRxDataAvailable and HAL_ETH_GetRxDataBuffer *)
Look ==
  /\ At("look")
  /\ IF own[curRx]
     THEN pc' = "empty" /\ UNCHANGED <<curRx, first, frame>>
     ELSE /\ pc' = "build"
          /\ first' = curRx /\ curRx' = Incr(curRx)
          /\ frame' = [idx |-> curRx, num |-> buffer[curRx]]
  /\ UNCHANGED <<ring, wake, free, stack, past>>

(* low_level_input returns NULL: the end of the loop *)
Empty ==
  /\ At("empty") /\ pc' = "wait"
  /\ UNCHANGED <<ring, wake, curRx, first, frame, free, stack, past>>

(* HAL_ETH_BuildRxDescriptors: the buffer is the DMA's again *)
Build ==
  /\ At("build") /\ pc' = "alloc"
  /\ own' = [own EXCEPT ![first] = TRUE]
  /\ UNCHANGED <<buffer, dmaIndex, received, wake, curRx, first, frame, free, stack, past>>

Alloc ==
  /\ At("alloc") /\ free > 0
  /\ pc' = "post" /\ free' = free - 1
  /\ UNCHANGED <<ring, wake, curRx, first, frame, stack, past>>

(* low_level_input returns NULL here too, whatever is left in the ring *)
NoPbuf ==
  /\ At("alloc") /\ free = 0
  /\ pc' = "wait" /\ frame' = NoFrame
  /\ dropped' = TRUE /\ gaveUp' = TRUE
  /\ UNCHANGED <<ring, wake, curRx, first, free, stack, handed>>

(* that leaves the loop after one frame *)
PostOne ==
  /\ At("post") /\ Len(mbox) < MboxSize
  /\ pc' = "wait" /\ frame' = NoFrame
  /\ mbox' = Append(mbox, frame) /\ msgs' = msgs + 1
  /\ handed' = frame.num
  /\ UNCHANGED <<ring, wake, curRx, first, free, handling, kept, dropped, gaveUp>>

(* tcpip_inpkt *)
Post ==
  /\ At("post") /\ Len(mbox) < MboxSize
  /\ pc' = "look" /\ frame' = NoFrame
  /\ mbox' = Append(mbox, frame) /\ msgs' = msgs + 1
  /\ handed' = frame.num
  /\ UNCHANGED <<ring, wake, curRx, first, free, handling, kept, dropped, gaveUp>>

(* without memp_free *)
PostLeaks ==
  /\ At("post") /\ Len(mbox) = MboxSize
  /\ pc' = "look" /\ frame' = NoFrame
  /\ free' = free + 1 /\ msgs' = msgs + 1
  /\ dropped' = TRUE
  /\ UNCHANGED <<ring, wake, curRx, first, mbox, handling, kept, handed, gaveUp>>

(* without pbuf_free in ethernetif_input *)
PostForgets ==
  /\ At("post") /\ Len(mbox) = MboxSize
  /\ pc' = "look" /\ frame' = NoFrame
  /\ dropped' = TRUE
  /\ UNCHANGED <<ring, wake, curRx, first, free, stack, handed, gaveUp>>

(* the mailbox is full: memp_free in tcpip_inpkt, pbuf_free in              *)
(* ethernetif_input                                                         *)
PostFails ==
  /\ At("post") /\ Len(mbox) = MboxSize
  /\ pc' = "look" /\ frame' = NoFrame
  /\ free' = free + 1
  /\ dropped' = TRUE
  /\ UNCHANGED <<ring, wake, curRx, first, stack, handed, gaveUp>>
-----------------------------------------------------------------------------
(* tcpip_thread fetches a message, hands the pbuf to ethernet_input, which  *)
(* frees it or keeps it, and frees the message.                             *)
Fetch ==
  /\ handling = NoFrame /\ mbox # <<>>
  /\ handling' = Head(mbox) /\ mbox' = Tail(mbox)
  /\ UNCHANGED <<ring, wake, driver, free, msgs, kept, past>>

Handled ==
  /\ handling # NoFrame /\ handling' = NoFrame
  /\ msgs' = msgs - 1
  /\ \/ free' = free + 1 /\ UNCHANGED kept
     \/ kept' = kept \cup {handling} /\ UNCHANGED free
  /\ UNCHANGED <<ring, wake, driver, mbox, past>>

(* pbuf_free_custom, when the data has been read or thrown away *)
Release(p) ==
  /\ p \in kept /\ kept' = kept \ {p}
  /\ free' = free + 1
  /\ UNCHANGED <<ring, wake, driver, mbox, msgs, handling, past>>
-----------------------------------------------------------------------------
(* RxPktSemaphore is created with its one token there *)
Init ==
  /\ own = [i \in Index |-> TRUE] /\ buffer = [i \in Index |-> 0]
  /\ dmaIndex = 0 /\ received = 0
  /\ ri = FALSE /\ irq = FALSE /\ sem = TRUE
  /\ pc = "wait" /\ curRx = 0 /\ first = 0 /\ frame = NoFrame
  /\ free = PoolSize /\ mbox = <<>> /\ msgs = 0 /\ handling = NoFrame /\ kept = {}
  /\ handed = 0 /\ dropped = FALSE /\ gaveUp = FALSE

Driver == Wait \/ Look \/ Empty \/ Build \/ Alloc \/ NoPbuf \/ Post \/ PostFails
Interrupt == IrqCallback \/ IrqClear

Next == FrameArrives \/ Interrupt \/ Driver \/ Fetch \/ Handled \/ \E p \in kept : Release(p)

(* The interrupt comes and the thread, of the highest priority, runs. The   *)
(* stack may keep its pbufs for ever.                                       *)
Spec == Init /\ [][Next]_vars /\ WF_vars(Interrupt) /\ WF_vars(Driver)
-----------------------------------------------------------------------------
Pbuf == [idx : Index, num : Nat]

TypeOK ==
  /\ own \in [Index -> BOOLEAN] /\ buffer \in [Index -> Nat]
  /\ dmaIndex \in Index /\ received \in Nat
  /\ ri \in BOOLEAN /\ irq \in BOOLEAN /\ sem \in BOOLEAN
  /\ pc \in {"wait", "look", "empty", "build", "alloc", "post"}
  /\ curRx \in Index /\ first \in Index /\ frame \in Pbuf
  /\ free \in 0..PoolSize
  /\ mbox \in Seq(Pbuf) /\ Len(mbox) <= MboxSize /\ msgs \in Nat
  /\ handling \in Pbuf /\ kept \subseteq Pbuf
  /\ handed \in Nat /\ dropped \in BOOLEAN /\ gaveUp \in BOOLEAN

One(b) == IF b THEN 1 ELSE 0

(* Every pbuf is in one place: the pool, the thread, the mailbox, or the    *)
(* stack. None is lost when a step of the way up fails, none freed twice.   *)
PoolAccounted ==
  free + One(pc = "post") + Len(mbox) + One(handling # NoFrame) + Cardinality(kept) = PoolSize

(* Each frame that the DMA wrote is posted once and in order, and none is   *)
(* left out before one was given up for want of a pbuf or of room.          *)
Up == INSTANCE Channel WITH sent <- received, last <- handed, cut <- dropped
FramesInOrder == Up!Spec

(* The wake-up is not lost: when the thread sleeps and nothing will wake    *)
(* it, the ring is empty, or it gave up for want of a pbuf.                 *)
NothingStranded ==
  (pc = "wait" /\ ~sem /\ ~ri /\ ~irq) => (gaveUp \/ \A i \in Index : own[i])

(* tcpip_inpkt always gets a message: the ones in use are those in the      *)
(* mailbox and the one being handled.                                       *)
MessagesSuffice == pc = "post" => msgs < MsgPool

InUse == Range(mbox) \cup kept \cup {handling}

(* A frame in the ring is taken out of it, unless the thread gives up for   *)
(* want of a pbuf.                                                          *)
FramesTaken == \A i \in Index : ~own[i] ~> (own[i] \/ gaveUp)
-----------------------------------------------------------------------------
(* The descriptors go back to the DMA "after processing the received        *)
(* Packet" (HAL_ETH_BuildRxDescriptors): a frame in use is not overwritten. *)
BuffersIntact == \A p \in InUse \ {NoFrame} : buffer[p.idx] = p.num
=============================================================================
