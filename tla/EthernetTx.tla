----------------------------- MODULE EthernetTx -----------------------------
(***************************************************************************)
(* The transmit path: low_level_output and HAL_ETH_Transmit over the ring  *)
(* of descriptors that the DMA reads, one step per access to TxConfig, the *)
(* handle or a descriptor. A call waits until its frame is sent, since the *)
(* descriptors point into the caller's pbufs.                              *)
(*                                                                         *)
(* Two tasks transmit: tcpip_thread, always inside of the core lock, and   *)
(* Main_Thread, inside of it for its sockets and outside of it when it     *)
(* calls netif_set_up or the functions of DHCP. tcpip_thread has the       *)
(* higher priority and never waits here: it preempts Main_Thread and runs  *)
(* to its end, unless it has to wait for the lock.                         *)
(*                                                                         *)
(* Outside: the DMA sends the descriptors from its own index to the tail   *)
(* pointer, stops at one it does not own, and needs much less than the     *)
(* timeout of 20 ms for a frame. A fatal bus error is not modelled.        *)
(***************************************************************************)
EXTENDS Naturals, Sequences

CONSTANTS
  DescCnt,       \* ETH_TX_DESC_CNT
  MaxFrames      \* frames given to low_level_output

(* A frame takes at most two descriptors: a ring with one more is never full *)
ASSUME TxAssumption == DescCnt \in Nat \ 0..2 /\ MaxFrames \in Nat

Task == {"Main", "tcpip"}
Index == 0 .. DescCnt - 1

Stale == 0       \* what is left of a frame whose sender has returned

VARIABLES
  txLength, txBuffer,   \* TxConfig, global: whose length and whose buffers
  gState, curTx,        \* heth
  desc,                 \* the descriptors
  dmaIndex, tail,       \* the DMA's current descriptor and tail pointer
  call,                 \* the call of low_level_output each task is in
  frames,               \* frames given to low_level_output so far
  onWire,               \* the latest frame on the wire
  strange,              \* a frame went out twice, mixed up or out of order
  lied,                 \* HAL_OK was returned for a frame not sent
  overlapped            \* a call began inside of another one

vars == <<txLength, txBuffer, gState, curTx, desc, dmaIndex, tail, call, frames, onWire,
          strange, lied, overlapped>>

Idle == [pc |-> "idle", frame |-> 0, locked |-> FALSE, size |-> 1, buf |-> 0,
         first |-> 0, idx |-> 0, wait |-> 0]

Places == {"idle", "buffer", "enter", "check", "fill", "own", "next", "undo",
           "publish", "advance", "tail", "wait"}

Busy(t) == call[t].pc # "idle"

Runs(t) == t = "tcpip" \/ ~Busy("tcpip")

(* INCR_TX_DESC_INDEX *)
Incr(i) == IF i + 1 >= DescCnt THEN i + 1 - DescCnt ELSE i + 1

At(t, p) == Runs(t) /\ call[t].pc = p

Goto(t, p) == call' = [call EXCEPT ![t].pc = p]

Return(t) == call' = [call EXCEPT ![t] = Idle]

ring == <<desc, dmaIndex, tail>>
seen == <<frames, onWire, strange, overlapped>>
-----------------------------------------------------------------------------
(* low_level_output. A frame of up to two buffers takes one descriptor, of  *)
(* up to four two; one of more returns ERR_IF before anything is touched.   *)

(* that takes no frame of more than one descriptor *)
OutputShort(t) ==
  /\ At(t, "idle") /\ frames < MaxFrames
  /\ \E locked \in (IF t = "tcpip" THEN {TRUE} ELSE BOOLEAN), size \in 1..2 :
       /\ ~(locked /\ \E u \in Task : Busy(u) /\ call[u].locked)
       /\ call' = [call EXCEPT ![t] = [Idle EXCEPT !.pc = IF size = 1 THEN "buffer" ELSE "idle",
                                     !.frame = frames + 1, !.locked = locked, !.size = size]]
  /\ frames' = frames + 1
  /\ txLength' = frames + 1
  /\ overlapped' = (overlapped \/ \E u \in Task : Busy(u))
  /\ UNCHANGED <<txBuffer, gState, curTx, ring, onWire, strange, lied>>

Output(t) ==
  /\ At(t, "idle") /\ frames < MaxFrames
  /\ \E locked \in (IF t = "tcpip" THEN {TRUE} ELSE BOOLEAN), size \in 1..2 :
       /\ ~(locked /\ \E u \in Task : Busy(u) /\ call[u].locked)
       /\ call' = [call EXCEPT ![t] = [Idle EXCEPT !.pc = "buffer", !.frame = frames + 1,
                                                   !.locked = locked, !.size = size]]
  /\ frames' = frames + 1
  /\ txLength' = frames + 1
  /\ overlapped' = (overlapped \/ \E u \in Task : Busy(u))
  /\ UNCHANGED <<txBuffer, gState, curTx, ring, onWire, strange, lied>>

SetBuffer(t) ==
  /\ At(t, "buffer") /\ Goto(t, "enter")
  /\ txBuffer' = call[t].frame
  /\ UNCHANGED <<txLength, gState, curTx, ring, seen, lied>>

(* HAL_ETH_Transmit refuses in any state but READY. The buffers that        *)
(* TxConfig points to are on the stack of the task that set it last.        *)
Enter(t) ==
  /\ At(t, "enter") /\ gState = "READY"
  /\ \E size \in (IF txBuffer = call[t].frame THEN {call[t].size} ELSE 1..2) :
       call' = [call EXCEPT ![t].pc = "check", ![t].buf = txBuffer, ![t].size = size,
                            ![t].first = curTx, ![t].idx = curTx]
  /\ UNCHANGED <<txLength, txBuffer, gState, curTx, ring, seen, lied>>

Refused(t) ==
  /\ At(t, "enter") /\ gState # "READY" /\ Return(t)
  /\ UNCHANGED <<txLength, txBuffer, gState, curTx, ring, seen, lied>>
-----------------------------------------------------------------------------
(* ETH_Prepare_Tx_Descriptors *)

CheckOwn(t) ==
  /\ At(t, "check") /\ ~desc[call[t].idx].own
  /\ Goto(t, "fill")
  /\ UNCHANGED <<txLength, txBuffer, gState, curTx, ring, seen, lied>>

DescBusy(t) ==
  /\ At(t, "check") /\ desc[call[t].idx].own
  /\ IF call[t].idx = call[t].first THEN Return(t) ELSE Goto(t, "undo")
  /\ UNCHANGED <<txLength, txBuffer, gState, curTx, ring, seen, lied>>

Undo(t) ==
  /\ At(t, "undo") /\ Return(t)
  /\ desc' = [desc EXCEPT ![call[t].first].own = FALSE]
  /\ UNCHANGED <<txLength, txBuffer, gState, curTx, dmaIndex, tail, seen, lied>>

(* every descriptor as the last of its frame *)
FillAsLast(t) ==
  LET c == call[t] IN
  /\ At(t, "fill") /\ Goto(t, "own")
  /\ desc' = [desc EXCEPT ![c.idx].buf = c.buf, ![c.idx].len = txLength, ![c.idx].last = TRUE]
  /\ UNCHANGED <<txLength, txBuffer, gState, curTx, dmaIndex, tail, seen, lied>>

Fill(t) ==
  LET c == call[t]  second == c.idx # c.first IN
  /\ At(t, "fill") /\ Goto(t, "own")
  /\ desc' = [desc EXCEPT ![c.idx].buf = c.buf, ![c.idx].len = txLength,
                          ![c.idx].last = (c.size = 1 \/ second)]
  /\ UNCHANGED <<txLength, txBuffer, gState, curTx, dmaIndex, tail, seen, lied>>

SetOwn(t) ==
  LET c == call[t]  second == c.idx # c.first IN
  /\ At(t, "own")
  /\ Goto(t, IF c.size = 2 /\ ~second THEN "next" ELSE "publish")
  /\ desc' = [desc EXCEPT ![c.idx].own = TRUE]
  /\ UNCHANGED <<txLength, txBuffer, gState, curTx, dmaIndex, tail, seen, lied>>

NextDesc(t) ==
  /\ At(t, "next")
  /\ call' = [call EXCEPT ![t].pc = "check", ![t].idx = Incr(@)]
  /\ UNCHANGED <<txLength, txBuffer, gState, curTx, ring, seen, lied>>

Publish(t) ==
  /\ At(t, "publish") /\ Goto(t, "advance")
  /\ curTx' = call[t].idx
  /\ UNCHANGED <<txLength, txBuffer, gState, ring, seen, lied>>
-----------------------------------------------------------------------------
(* HAL_ETH_Transmit, after ETH_Prepare_Tx_Descriptors *)
Advance(t) ==
  /\ At(t, "advance")
  /\ call' = [call EXCEPT ![t].pc = "tail", ![t].wait = curTx]
  /\ curTx' = Incr(curTx)
  /\ UNCHANGED <<txLength, txBuffer, gState, ring, seen, lied>>

WriteTail(t) ==
  /\ At(t, "tail") /\ Goto(t, "wait")
  /\ tail' = curTx
  /\ UNCHANGED <<txLength, txBuffer, gState, curTx, desc, dmaIndex, seen, lied>>

(* HAL_ETH_Transmit_IT, which returns at once *)
NoWait(t) ==
  /\ At(t, "wait") /\ Return(t)
  /\ lied' = (lied \/ onWire < call[t].frame)
  /\ UNCHANGED <<txLength, txBuffer, gState, curTx, ring, seen>>

Sent(t) ==
  /\ At(t, "wait") /\ ~desc[call[t].wait].own
  /\ Return(t)
  /\ lied' = (lied \/ onWire < call[t].frame)
  /\ UNCHANGED <<txLength, txBuffer, gState, curTx, ring, seen>>

DmaStopped == dmaIndex = tail \/ ~desc[dmaIndex].own

(* without the limit of 20 ms *)
WaitForEver(t) == FALSE /\ UNCHANGED vars

Timeout(t) ==
  /\ At(t, "wait") /\ desc[call[t].wait].own /\ DmaStopped
  /\ Return(t)
  /\ gState' = "ERROR"
  /\ UNCHANGED <<txLength, txBuffer, curTx, ring, seen, lied>>
-----------------------------------------------------------------------------
(* The DMA sends a descriptor and gives it back. *)
Held(f) == \E t \in Task : Busy(t) /\ call[t].frame = f

Dma ==
  LET d == desc[dmaIndex]
      whole == d.buf = d.len /\ Held(d.buf) IN
  /\ ~DmaStopped
  /\ desc' = [desc EXCEPT ![dmaIndex].own = FALSE]
  /\ dmaIndex' = Incr(dmaIndex)
  /\ IF d.last /\ whole /\ d.buf > onWire
     THEN onWire' = d.buf /\ UNCHANGED strange
     ELSE UNCHANGED onWire /\ strange' = (strange \/ ~whole \/ d.buf <= onWire)
  /\ UNCHANGED <<txLength, txBuffer, gState, curTx, tail, call, frames, lied, overlapped>>
-----------------------------------------------------------------------------
Init ==
  /\ txLength = 0 /\ txBuffer = Stale /\ gState = "READY" /\ curTx = 0
  /\ desc = [i \in Index |-> [own |-> FALSE, buf |-> Stale, len |-> 0, last |-> FALSE]]
  /\ dmaIndex = 0 /\ tail = 0
  /\ call = [t \in Task |-> Idle]
  /\ frames = 0 /\ onWire = 0
  /\ strange = FALSE /\ lied = FALSE /\ overlapped = FALSE

Transmit(t) ==
  \/ SetBuffer(t) \/ Enter(t) \/ Refused(t)
  \/ CheckOwn(t) \/ DescBusy(t) \/ Undo(t) \/ Fill(t) \/ SetOwn(t) \/ NextDesc(t) \/ Publish(t)
  \/ Advance(t) \/ WriteTail(t) \/ Sent(t) \/ Timeout(t)

Next == Dma \/ \E t \in Task : Output(t) \/ Transmit(t)

(* Both tasks and the DMA go on; whether another frame comes is open.       *)
Spec == Init /\ [][Next]_vars /\ WF_vars(Dma) /\ \A t \in Task : WF_vars(Transmit(t))
-----------------------------------------------------------------------------
Descriptor == [own : BOOLEAN, buf : Nat, len : Nat, last : BOOLEAN]
Call == [pc : Places, frame : Nat, locked : BOOLEAN, size : 1..2, buf : Nat,
         first : Index, idx : Index, wait : Index]

TypeOK ==
  /\ txLength \in Nat /\ txBuffer \in Nat
  /\ gState \in {"READY", "ERROR"} /\ curTx \in Index
  /\ desc \in [Index -> Descriptor] /\ dmaIndex \in Index /\ tail \in Index
  /\ call \in [Task -> Call]
  /\ frames \in Nat /\ onWire \in 0..frames
  /\ strange \in BOOLEAN /\ lied \in BOOLEAN /\ overlapped \in BOOLEAN

(* As long as every call waits for the core lock, so that no call begins    *)
(* inside of another one, the following five hold.                          *)

(* The handle is not left in its error state, which nothing ever ends: no   *)
(* transmit runs into the timeout.                                          *)
TransmitterKept == gState = "ERROR" => overlapped

(* Each frame goes out whole, once, and not after a later one.              *)
FramesIntact == strange => overlapped

(* HAL_ETH_Transmit returns HAL_OK only for a frame that went out.          *)
OkMeansSent == lied => overlapped

(* The DMA owns no descriptor of a frame whose pbufs the sender may already *)
(* have given back: lwIP frees them when low_level_output returns.          *)
BuffersHeld == overlapped \/ \A i \in Index : desc[i].own => Held(desc[i].buf)

(* Nothing is left out: the frames on the wire are those that were given to *)
(* low_level_output, in that order.                                         *)
Wire == INSTANCE Channel WITH sent <- frames, last <- onWire, cut <- overlapped
FramesInOrder == Wire!Spec

(* Whatever happened, low_level_output returns: no task that transmits      *)
(* keeps the core lock for ever.                                            *)
CallsReturn == \A t \in Task : Busy(t) ~> ~Busy(t)
-----------------------------------------------------------------------------
(* low_level_output "outputs the pbuf as-is on the link medium" (netif.h):  *)
(* between two calls the last frame given to it is on the wire.             *)
OutputsFrames == (\A t \in Task : ~Busy(t)) => onWire = frames
=============================================================================
