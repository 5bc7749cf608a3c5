------------------------- MODULE EthernetTx_proofs -------------------------
(***************************************************************************)
(* What the transmit path keeps for any ring and any number of frames, as  *)
(* long as no call of low_level_output begins inside of another one: each  *)
(* frame goes out whole, once and in its turn, before its sender returns.  *)
(***************************************************************************)
EXTENDS EthernetTx, TLAPS

(* Numbers are those of frames that were given to low_level_output. *)
Numbers ==
  /\ txLength <= frames /\ txBuffer <= frames
  /\ \A t \in Task : call[t].frame <= frames /\ call[t].buf <= frames

(* Nothing is under way in the ring: the three indices agree. *)
Quiet == dmaIndex = curTx /\ tail = curTx /\ \A i \in Index : ~desc[i].own

(* The descriptor that a frame ends in *)
Last(c) == IF c.size = 2 THEN Incr(c.first) ELSE c.first

(* The descriptors that a call has given away *)
Given(c) ==
  IF c.pc \in {"check", "fill", "own"} THEN {c.first} \ {c.idx} ELSE {c.first, c.idx}

Owned(S) == \A i \in Index : desc[i].own <=> i \in S

(* A frame that the DMA may not look at yet *)
Prepared(c) ==
  /\ dmaIndex = c.first /\ tail = c.first /\ onWire + 1 = frames
  /\ Owned(Given(c))
  /\ c.pc \in {"check", "fill", "own", "next", "publish"} => curTx = c.first
  /\ c.pc = "next" => c.size = 2 /\ c.idx = c.first
  /\ c.pc \in {"publish", "advance", "tail"} => c.idx = Last(c)
  /\ c.pc = "advance" => curTx = c.idx
  /\ c.pc = "tail" => c.wait = c.idx /\ curTx = Incr(c.idx)
  /\ c.pc = "own" => /\ desc[c.idx].buf = frames /\ desc[c.idx].len = frames
                     /\ desc[c.idx].last <=> c.idx = Last(c)

(* A frame that the DMA has in hand: nothing of it is sent, or its first    *)
(* descriptor, or all of it.                                                *)
Waiting(c) ==
  /\ c.wait = c.idx /\ c.idx = Last(c)
  /\ curTx = Incr(c.idx) /\ tail = curTx
  /\ \/ dmaIndex = c.first /\ onWire + 1 = frames /\ Owned({c.first, c.idx})
     \/ dmaIndex = c.idx /\ onWire + 1 = frames /\ Owned({c.idx})
     \/ dmaIndex = tail /\ onWire = frames /\ Owned({})

(* What the descriptors of the call that is under way say *)
Described(c) ==
  \A i \in Index : desc[i].own => /\ desc[i].buf = frames /\ desc[i].len = frames
                                  /\ desc[i].last <=> i = Last(c)

Underway(c) ==
  /\ c.frame = frames /\ txLength = frames
  /\ c.pc \in Places \ {"idle", "undo"}
  /\ c.pc # "buffer" => txBuffer = frames
  /\ c.pc \notin {"buffer", "enter"} =>
       c.buf = frames /\ c.idx \in {c.first, Last(c)} /\ Described(c)
  /\ c.pc \in {"buffer", "enter"} => Quiet /\ onWire + 1 = frames
  /\ c.pc \notin {"buffer", "enter", "wait"} => Prepared(c)
  /\ c.pc = "wait" => Waiting(c)

Orderly ==
  /\ gState = "READY" /\ ~strange /\ ~lied
  /\ \A t, u \in Task : Busy(t) /\ Busy(u) => t = u
  /\ (\A t \in Task : ~Busy(t)) => Quiet /\ onWire = frames
  /\ \A t \in Task : Busy(t) => Underway(call[t])

TxInv == TypeOK /\ Numbers /\ (~overlapped => Orderly)

-----------------------------------------------------------------------------
(* The ring has more descriptors than a frame takes. *)
LEMMA Round ==
  \A i \in Index : Incr(i) \in Index /\ Incr(i) # i /\ Incr(Incr(i)) # i
BY TxAssumption DEF Index, Incr

LEMMA Start == Init => TxInv
<1> SUFFICES ASSUME Init PROVE TxInv
  OBVIOUS
<1>1. 0 \in Index
  BY TxAssumption DEF Index
<1>2. Idle \in Call
  BY <1>1 DEF Idle, Call, Places
<1>3. TypeOK
  <2>1. call \in [Task -> Call]
    BY <1>2 DEF Init
  <2>2. desc \in [Index -> Descriptor]
    BY DEF Init, Descriptor, Stale
  <2>3. onWire \in 0..frames /\ frames \in Nat /\ txBuffer \in Nat /\ txLength \in Nat
    BY DEF Init, Stale
  <2> QED BY <1>1, <2>1, <2>2, <2>3 DEF Init, TypeOK
<1>4. Numbers
  BY DEF Init, Numbers, Idle, Stale
<1>5. Orderly
  BY DEF Init, Orderly, Quiet, Busy, Idle
<1> QED BY <1>3, <1>4, <1>5 DEF TxInv

-----------------------------------------------------------------------------
(* Types, and numbers of frames                                             *)

LEMMA OutputTypes ==
  ASSUME TypeOK, Numbers, NEW t \in Task, Output(t)
  PROVE  TypeOK' /\ Numbers'
<1>1. PICK c \in Call :
        /\ call' = [call EXCEPT ![t] = c] /\ c.frame = frames + 1 /\ c.buf = 0
  <2> DEFINE n == frames + 1
  <2>1. 0 \in Index /\ n \in Nat
    BY TxAssumption DEF Index, TypeOK
  <2>2. PICK locked \in BOOLEAN, size \in 1..2 :
          call' = [call EXCEPT ![t] = [Idle EXCEPT !.pc = "buffer", !.frame = n,
                                                   !.locked = locked, !.size = size]]
    BY DEF Output
  <2> DEFINE c == [Idle EXCEPT !.pc = "buffer", !.frame = n, !.locked = locked, !.size = size]
  <2> HIDE DEF n
  <2>3. c \in Call /\ c.frame = n /\ c.buf = 0
    BY <2>1 DEF Idle, Call, Places
  <2> QED BY <2>2, <2>3 DEF n
<1>2. /\ frames' = frames + 1 /\ txLength' = frames + 1
      /\ UNCHANGED <<txBuffer, gState, curTx, desc, dmaIndex, tail, onWire, strange, lied>>
      /\ overlapped' \in BOOLEAN
  BY DEF Output, ring, TypeOK
<1>3. TypeOK'
  BY <1>1, <1>2 DEF TypeOK
<1>4. Numbers'
  <2>1. \A u \in Task : call'[u] = IF u = t THEN c ELSE call[u]
    BY <1>1 DEF TypeOK
  <2>2. \A u \in Task : call[u].frame \in Nat /\ call[u].buf \in Nat
    BY DEF TypeOK, Call
  <2>3. frames \in Nat /\ txLength \in Nat /\ txBuffer \in Nat
    BY DEF TypeOK
  <2> QED BY <1>1, <1>2, <2>1, <2>2, <2>3 DEF Numbers
<1> QED BY <1>3, <1>4

(* How a step of a task changes its call: the new record d, against c *)
SameFrame(c, d) == d.frame = c.frame /\ d.first = c.first /\ d.size = c.size /\ d.buf = c.buf

Changed(t, d) == d \in Call /\ call' = [call EXCEPT ![t] = d]

LEMMA GotoIs ==
  ASSUME TypeOK, NEW t \in Task, NEW p \in Places, Goto(t, p)
  PROVE  \E d : /\ Changed(t, d) /\ SameFrame(call[t], d) /\ d.pc = p
                /\ d.idx = call[t].idx /\ d.wait = call[t].wait
<1> DEFINE d == [call[t] EXCEPT !.pc = p]
<1>1. call \in [Task -> Call] /\ call[t] \in Call
  BY DEF TypeOK
<1>2. d \in Call /\ d.pc = p /\ SameFrame(call[t], d) /\ d.idx = call[t].idx /\ d.wait = call[t].wait
  BY <1>1 DEF Call, SameFrame
<1>3. call' = [call EXCEPT ![t] = d]
  BY <1>1 DEF Goto
<1> QED BY <1>2, <1>3 DEF Changed

LEMMA ReturnIs ==
  ASSUME TypeOK, NEW t \in Task, Return(t)
  PROVE  Changed(t, Idle)
<1>1. 0 \in Index
  BY TxAssumption DEF Index
<1>2. Idle \in Call
  BY <1>1 DEF Idle, Call, Places
<1> QED BY <1>2 DEF Return, Changed

LEMMA EnterIs ==
  ASSUME TypeOK, NEW t \in Task, Enter(t)
  PROVE  \E d : /\ Changed(t, d) /\ d.pc = "check" /\ d.frame = call[t].frame
                /\ d.buf = txBuffer /\ d.first = curTx /\ d.idx = curTx
                /\ txBuffer = call[t].frame => d.size = call[t].size
<1>1. call \in [Task -> Call] /\ call[t] \in Call /\ txBuffer \in Nat /\ curTx \in Index
  BY DEF TypeOK
<1>2. PICK size \in 1..2 :
        /\ txBuffer = call[t].frame => size = call[t].size
        /\ call' = [call EXCEPT ![t].pc = "check", ![t].buf = txBuffer, ![t].size = size,
                                ![t].first = curTx, ![t].idx = curTx]
  <2>1. call[t].size \in 1..2
    BY <1>1 DEF Call
  <2>2. CASE txBuffer = call[t].frame
    BY <2>1, <2>2 DEF Enter
  <2>3. CASE txBuffer # call[t].frame
    BY <2>3 DEF Enter
  <2> QED BY <2>2, <2>3
<1> DEFINE d == [call[t] EXCEPT !.pc = "check", !.buf = txBuffer, !.size = size,
                                !.first = curTx, !.idx = curTx]
<1>3. d \in Call /\ d.pc = "check" /\ d.frame = call[t].frame /\ d.buf = txBuffer
      /\ d.first = curTx /\ d.idx = curTx /\ d.size = size
  BY <1>1 DEF Call, Places
<1>4. call' = [call EXCEPT ![t] = d]
  BY <1>1, <1>2 DEF Call
<1> QED BY <1>2, <1>3, <1>4 DEF Changed

LEMMA NextDescIs ==
  ASSUME TypeOK, NEW t \in Task, NextDesc(t)
  PROVE  \E d : /\ Changed(t, d) /\ SameFrame(call[t], d) /\ d.pc = "check"
                /\ d.idx = Incr(call[t].idx)
<1> DEFINE i == Incr(call[t].idx)
           d == [call[t] EXCEPT !.pc = "check", !.idx = i]
<1>1. call \in [Task -> Call] /\ call[t] \in Call /\ i \in Index
  BY Round DEF TypeOK, Call
<1>2. call' = [call EXCEPT ![t].pc = "check", ![t].idx = i]
  BY DEF NextDesc
<1> HIDE DEF i
<1>3. d \in Call /\ SameFrame(call[t], d) /\ d.pc = "check" /\ d.idx = i
  BY <1>1 DEF Call, SameFrame, Places
<1>4. call' = [call EXCEPT ![t] = d]
  BY <1>1, <1>2
<1> QED BY <1>3, <1>4 DEF Changed, i

LEMMA AdvanceIs ==
  ASSUME TypeOK, NEW t \in Task, Advance(t)
  PROVE  \E d : /\ Changed(t, d) /\ SameFrame(call[t], d) /\ d.pc = "tail"
                /\ d.idx = call[t].idx /\ d.wait = curTx
<1> DEFINE d == [call[t] EXCEPT !.pc = "tail", !.wait = curTx]
<1>1. call \in [Task -> Call] /\ call[t] \in Call /\ curTx \in Index
  BY DEF TypeOK
<1>2. d \in Call /\ SameFrame(call[t], d) /\ d.pc = "tail" /\ d.idx = call[t].idx /\ d.wait = curTx
  BY <1>1 DEF Call, SameFrame, Places
<1>3. call' = [call EXCEPT ![t] = d]
  BY <1>1 DEF Advance
<1> QED BY <1>2, <1>3 DEF Changed

(* Every step of a transmit leaves a record of a call, of the same frame or *)
(* of none, and buffers of a frame that was given.                          *)
LEMMA TransmitChanges ==
  ASSUME TypeOK, Numbers, NEW t \in Task, Transmit(t)
  PROVE  \E d : Changed(t, d) /\ d.frame <= frames /\ d.buf <= frames
<1>1. /\ call[t].frame <= frames /\ call[t].buf <= frames /\ txBuffer <= frames
      /\ Idle.frame <= frames /\ Idle.buf <= frames
  BY DEF Numbers, Idle, TypeOK
<1>2. CASE SetBuffer(t) \/ CheckOwn(t) \/ Fill(t) \/ Publish(t) \/ WriteTail(t)
  <2>1. PICK p \in Places : Goto(t, p)
    BY <1>2 DEF SetBuffer, CheckOwn, Fill, Publish, WriteTail, Places
  <2> QED BY <1>1, <2>1, GotoIs DEF SameFrame
<1>3. CASE SetOwn(t) \/ (DescBusy(t) /\ ~Return(t))
  <2>1. PICK p \in Places : Goto(t, p)
    BY <1>3 DEF SetOwn, DescBusy, Places
  <2> QED BY <1>1, <2>1, GotoIs DEF SameFrame
<1>4. CASE Enter(t)
  BY <1>1, <1>4, EnterIs
<1>5. CASE NextDesc(t)
  BY <1>1, <1>5, NextDescIs DEF SameFrame
<1>6. CASE Advance(t)
  BY <1>1, <1>6, AdvanceIs DEF SameFrame
<1>7. CASE Return(t)
  BY <1>1, <1>7, ReturnIs
<1> QED BY <1>2, <1>3, <1>4, <1>5, <1>6, <1>7 DEF Transmit, Refused, Undo, Sent, Timeout

LEMMA TransmitTypes ==
  ASSUME TypeOK, Numbers, NEW t \in Task, Transmit(t)
  PROVE  TypeOK' /\ Numbers'
<1>1. PICK d : Changed(t, d) /\ d.frame <= frames /\ d.buf <= frames
  BY TransmitChanges
<1>2. UNCHANGED <<frames, onWire, strange, overlapped, dmaIndex, txLength>>
  BY DEF Transmit, SetBuffer, Enter, Refused, CheckOwn, DescBusy, Undo, Fill, SetOwn, NextDesc,
         Publish, Advance, WriteTail, Sent, Timeout, ring, seen
<1>3. /\ call' \in [Task -> Call]
      /\ \A u \in Task : call'[u].frame <= frames /\ call'[u].buf <= frames
  BY <1>1 DEF Changed, TypeOK, Numbers
<1>4. txBuffer' \in Nat /\ txBuffer' <= frames
  <2>1. CASE SetBuffer(t)
    BY <2>1 DEF SetBuffer, TypeOK, Call, Numbers
  <2>2. CASE ~SetBuffer(t)
    <3>1. UNCHANGED txBuffer
      BY <2>2 DEF Transmit, Enter, Refused, CheckOwn, DescBusy, Undo, Fill, SetOwn, NextDesc,
                  Publish, Advance, WriteTail, Sent, Timeout
    <3> QED BY <3>1 DEF TypeOK, Numbers
  <2> QED BY <2>1, <2>2
<1>5. curTx' \in Index /\ tail' \in Index
  <2>1. CASE Publish(t)
    BY <2>1 DEF Publish, ring, TypeOK, Call
  <2>2. CASE Advance(t)
    BY <2>2, Round DEF Advance, ring, TypeOK
  <2>3. CASE WriteTail(t)
    BY <2>3 DEF WriteTail, TypeOK
  <2>4. CASE ~(Publish(t) \/ Advance(t) \/ WriteTail(t))
    <3>1. UNCHANGED <<curTx, tail>>
      BY <2>4 DEF Transmit, SetBuffer, Enter, Refused, CheckOwn, DescBusy, Undo, Fill, SetOwn,
                  NextDesc, Sent, Timeout, ring
    <3> QED BY <3>1 DEF TypeOK
  <2> QED BY <2>1, <2>2, <2>3, <2>4
<1>6. desc' \in [Index -> Descriptor]
  <2>1. call[t] \in Call /\ desc \in [Index -> Descriptor] /\ txLength \in Nat
    BY DEF TypeOK
  <2>2. CASE Undo(t) \/ SetOwn(t)
    <3>1. PICK i \in Index, b \in BOOLEAN : desc' = [desc EXCEPT ![i].own = b]
      BY <2>1, <2>2 DEF Undo, SetOwn, Call
    <3> QED BY <2>1, <3>1 DEF Descriptor
  <2>3. CASE Fill(t)
    <3>1. PICK i \in Index, b \in Nat, l \in BOOLEAN :
            desc' = [desc EXCEPT ![i].buf = b, ![i].len = txLength, ![i].last = l]
      BY <2>1, <2>3 DEF Fill, Call
    <3> QED BY <2>1, <3>1 DEF Descriptor
  <2>4. CASE ~(Undo(t) \/ SetOwn(t) \/ Fill(t))
    <3>1. UNCHANGED desc
      BY <2>4 DEF Transmit, SetBuffer, Enter, Refused, CheckOwn, DescBusy, NextDesc, Publish,
                  Advance, WriteTail, Sent, Timeout, ring
    <3> QED BY <2>1, <3>1
  <2> QED BY <2>2, <2>3, <2>4
<1>7. gState' \in {"READY", "ERROR"}
  BY DEF Transmit, SetBuffer, Enter, Refused, CheckOwn, DescBusy, Undo, Fill, SetOwn, NextDesc,
         Publish, Advance, WriteTail, Sent, Timeout, TypeOK
<1>8. lied' \in BOOLEAN
  <2>1. CASE Sent(t)
    BY <2>1 DEF Sent, TypeOK
  <2>2. CASE ~Sent(t)
    BY <2>2 DEF Transmit, SetBuffer, Enter, Refused, CheckOwn, DescBusy, Undo, Fill, SetOwn,
                NextDesc, Publish, Advance, WriteTail, Timeout, TypeOK
  <2> QED BY <2>1, <2>2
<1>9. TypeOK'
  BY <1>2, <1>3, <1>4, <1>5, <1>6, <1>7, <1>8 DEF TypeOK
<1>10. Numbers'
  BY <1>2, <1>3, <1>4 DEF TypeOK, Numbers
<1> QED BY <1>9, <1>10

LEMMA DmaTypes ==
  ASSUME TypeOK, Numbers, Dma
  PROVE  /\ TypeOK' /\ Numbers'
         /\ \/ UNCHANGED onWire
            \/ onWire' \in onWire + 1 .. frames
<1> DEFINE d == desc[dmaIndex]
           whole == d.buf = d.len /\ Held(d.buf)
<1>1. /\ dmaIndex \in Index /\ d \in Descriptor /\ d.buf \in Nat /\ onWire \in 0..frames /\ frames \in Nat
      /\ desc \in [Index -> Descriptor]
  BY DEF TypeOK, Descriptor
<1>2. /\ desc' = [desc EXCEPT ![dmaIndex].own = FALSE] /\ dmaIndex' = Incr(dmaIndex)
      /\ UNCHANGED <<txLength, txBuffer, gState, curTx, tail, call, frames, lied, overlapped>>
      /\ \/ whole /\ d.buf > onWire /\ onWire' = d.buf /\ UNCHANGED strange
         \/ UNCHANGED onWire /\ strange' = (strange \/ ~whole \/ d.buf <= onWire)
  BY DEF Dma
<1>3. desc' \in [Index -> Descriptor] /\ dmaIndex' \in Index
  BY <1>1, <1>2, Round DEF Descriptor
<1>4. whole => d.buf <= frames
  BY DEF Held, Numbers
<1>5. UNCHANGED onWire \/ onWire' \in onWire + 1 .. frames
  BY <1>1, <1>2, <1>4
<1>6. strange' \in BOOLEAN
  BY <1>2 DEF TypeOK
<1>7. TypeOK'
  BY <1>1, <1>2, <1>3, <1>5, <1>6 DEF TypeOK
<1>8. Numbers'
  BY <1>2 DEF Numbers
<1> QED BY <1>5, <1>7, <1>8

-----------------------------------------------------------------------------
(* One call at a time                                                       *)

LEMMA Caller ==
  ASSUME TypeOK, Orderly, NEW t \in Task, Busy(t), NEW d, Changed(t, d),
         gState' = "READY", ~strange', ~lied',
         d.pc = "idle" => Quiet' /\ onWire' = frames',
         d.pc # "idle" => Underway(call[t])'
  PROVE  Orderly'
<1>1. call'[t] = d /\ \A u \in Task : u # t => call'[u] = call[u] /\ ~Busy(u)
  BY DEF Changed, TypeOK, Orderly
<1>2. Busy(t)' <=> d.pc # "idle"
  BY <1>1 DEF Busy
<1>3. \A u \in Task : u # t => ~Busy(u)'
  BY <1>1 DEF Busy
<1> QED BY <1>2, <1>3 DEF Orderly

LEMMA OutputOrderly ==
  ASSUME TypeOK, Numbers, Orderly, ~overlapped, NEW t \in Task, Output(t), ~overlapped'
  PROVE  Orderly'
<1>1. \A u \in Task : ~Busy(u)
  BY DEF Output
<1>2. PICK locked \in BOOLEAN, size \in 1..2 :
        call' = [call EXCEPT ![t] = [Idle EXCEPT !.pc = "buffer", !.frame = frames + 1,
                                                 !.locked = locked, !.size = size]]
  BY DEF Output
<1>3. /\ call'[t].pc = "buffer" /\ call'[t].frame = frames + 1
      /\ \A u \in Task : u # t => call'[u] = call[u]
  BY <1>2 DEF Idle, TypeOK
<1>4. /\ frames' = frames + 1 /\ txLength' = frames + 1
      /\ UNCHANGED <<gState, curTx, desc, dmaIndex, tail, onWire, strange, lied>>
  BY DEF Output, ring
<1>5. Quiet' /\ onWire' + 1 = frames'
  BY <1>1, <1>4 DEF Orderly, Quiet
<1>6. Underway(call[t])'
  BY <1>3, <1>4, <1>5 DEF Underway, Places
<1>7. Busy(t)' /\ \A u \in Task : u # t => ~Busy(u)'
  BY <1>1, <1>3 DEF Busy
<1> QED BY <1>4, <1>6, <1>7 DEF Orderly

(* Before the ring is touched *)
LEMMA Begins ==
  ASSUME TypeOK, Numbers, Orderly, NEW t \in Task, SetBuffer(t) \/ Enter(t) \/ Refused(t)
  PROVE  Orderly'
<1>1. Busy(t) /\ Underway(call[t])
  BY DEF SetBuffer, Enter, Refused, At, Busy, Orderly
<1>2. CASE SetBuffer(t)
  <2>1. PICK d : Changed(t, d) /\ SameFrame(call[t], d) /\ d.pc = "enter"
    BY <1>2, GotoIs DEF SetBuffer, Places
  <2>2. /\ call[t].pc = "buffer" /\ txBuffer' = frames
        /\ UNCHANGED <<txLength, gState, curTx, desc, dmaIndex, tail, frames, onWire, strange, lied>>
    BY <1>1, <1>2 DEF SetBuffer, At, ring, seen, Underway
  <2>3. call'[t] = d
    BY <2>1 DEF Changed, TypeOK
  <2>4. Quiet' /\ onWire' + 1 = frames' /\ d.frame = frames'
    BY <1>1, <2>1, <2>2 DEF Underway, Quiet, SameFrame
  <2>5. Underway(call[t])'
    BY <1>1, <2>1, <2>2, <2>3, <2>4 DEF Underway, Places
  <2> QED BY <1>1, <2>1, <2>2, <2>5, Caller DEF Orderly
<1>3. CASE Enter(t)
  <2>1. PICK d : /\ Changed(t, d) /\ d.pc = "check" /\ d.frame = call[t].frame
                 /\ d.buf = txBuffer /\ d.first = curTx /\ d.idx = curTx
    BY <1>3, EnterIs
  <2>2. /\ call[t].pc = "enter" /\ txBuffer = frames
        /\ UNCHANGED <<txLength, txBuffer, gState, curTx, desc, dmaIndex, tail, frames, onWire,
                       strange, lied>>
    BY <1>1, <1>3 DEF Enter, At, ring, seen, Underway
  <2>3. call'[t] = d
    BY <2>1 DEF Changed, TypeOK
  <2>4. /\ dmaIndex = curTx /\ tail = curTx /\ onWire + 1 = frames
        /\ \A i \in Index : ~desc[i].own
    BY <1>1, <2>2 DEF Underway, Quiet
  <2>5. Prepared(call[t])'
    BY <2>1, <2>2, <2>3, <2>4 DEF Prepared, Owned, Given
  <2>6. Described(call[t])'
    BY <2>2, <2>4 DEF Described
  <2>7. Underway(call[t])'
    BY <1>1, <2>1, <2>2, <2>3, <2>5, <2>6 DEF Underway, Places
  <2> QED BY <1>1, <2>1, <2>2, <2>7, Caller DEF Orderly
<1>4. CASE Refused(t)
  BY <1>4 DEF Refused, Orderly
<1> QED BY <1>2, <1>3, <1>4

(* What is known of the one call that is under way *)
LEMMA Known ==
  ASSUME TypeOK, Orderly, NEW t \in Task, Busy(t)
  PROVE  /\ Underway(call[t]) /\ call[t] \in Call /\ frames \in Nat /\ onWire \in Nat
         /\ call[t].first \in Index /\ call[t].idx \in Index /\ call[t].size \in {1, 2}
         /\ Last(call[t]) \in Index /\ (call[t].size = 2 => Last(call[t]) # call[t].first)
         /\ (call[t].size = 1 => Last(call[t]) = call[t].first)
         /\ gState = "READY" /\ ~strange /\ ~lied
         /\ curTx \in Index /\ dmaIndex \in Index /\ tail \in Index
<1>1. call[t] \in Call /\ frames \in Nat /\ onWire \in Nat
  BY DEF TypeOK
<1>2. call[t].first \in Index /\ call[t].idx \in Index /\ call[t].size \in {1, 2}
  BY <1>1 DEF Call
<1>3. Last(call[t]) \in Index /\ (call[t].size = 2 => Last(call[t]) # call[t].first)
      /\ (call[t].size = 1 => Last(call[t]) = call[t].first)
  BY <1>2, Round DEF Last
<1> QED BY <1>1, <1>2, <1>3 DEF Orderly, TypeOK

(* The frame is put into the descriptors. *)
LEMMA Checks ==
  ASSUME TypeOK, Numbers, Orderly, NEW t \in Task, CheckOwn(t) \/ DescBusy(t) \/ Undo(t)
  PROVE  Orderly'
<1>1. Busy(t)
  BY DEF CheckOwn, DescBusy, Undo, At, Busy
<1>2. Underway(call[t])
  BY <1>1, Known
<1>3. ~Undo(t)
  BY <1>2 DEF Undo, At, Underway
<1>4. call[t].pc = "check"
  BY <1>3 DEF CheckOwn, DescBusy, At
<1>5. call[t].idx \in Index /\ ~desc[call[t].idx].own
  BY <1>1, <1>2, <1>4, Known DEF Underway, Prepared, Owned, Given
<1>6. CheckOwn(t)
  BY <1>3, <1>5 DEF DescBusy
<1>7. PICK d : /\ Changed(t, d) /\ SameFrame(call[t], d) /\ d.pc = "fill" /\ d.idx = call[t].idx
  BY <1>6, GotoIs DEF CheckOwn, Places
<1>8. UNCHANGED <<txLength, txBuffer, gState, curTx, desc, dmaIndex, tail, frames, onWire, strange, lied>>
  BY <1>6 DEF CheckOwn, ring, seen
<1>9. call'[t] = d
  BY <1>7 DEF Changed, TypeOK
<1>10. Prepared(call[t])'
  BY <1>2, <1>4, <1>7, <1>8, <1>9 DEF Underway, Prepared, Owned, Given, SameFrame
<1>11. Described(call[t])' /\ Last(call[t])' = Last(call[t])
  BY <1>2, <1>4, <1>7, <1>8, <1>9 DEF Underway, Described, Last, SameFrame
<1>12. Underway(call[t])'
  BY <1>2, <1>4, <1>7, <1>8, <1>9, <1>10, <1>11 DEF Underway, Places, SameFrame
<1> QED BY <1>1, <1>7, <1>8, <1>12, Caller DEF Orderly

LEMMA Fills ==
  ASSUME TypeOK, Numbers, Orderly, NEW t \in Task, Fill(t)
  PROVE  Orderly'
<1>1. Busy(t) /\ call[t].pc = "fill"
  BY DEF Fill, At, Busy
<1>2. Underway(call[t]) /\ call[t].idx \in Index /\ call[t].buf = frames /\ txLength = frames
  BY <1>1, Known DEF Underway
<1>3. PICK d : /\ Changed(t, d) /\ SameFrame(call[t], d) /\ d.pc = "own" /\ d.idx = call[t].idx
  BY GotoIs DEF Fill, Places
<1>4. call'[t] = d
  BY <1>3 DEF Changed, TypeOK
<1>5. UNCHANGED <<txLength, txBuffer, gState, curTx, dmaIndex, tail, frames, onWire, strange, lied>>
  BY DEF Fill, seen
<1> DEFINE i == call[t].idx
           l == (call[t].size = 1 \/ call[t].idx # call[t].first)
<1>6. desc' = [desc EXCEPT ![i].buf = frames, ![i].len = frames, ![i].last = l]
  BY <1>2 DEF Fill
<1>7. desc \in [Index -> Descriptor] /\ i \in Index /\ frames \in Nat /\ l \in BOOLEAN
  BY <1>2 DEF TypeOK
<1>8. l <=> i = Last(call[t])
  <2>1. i \in {call[t].first, Last(call[t])}
    BY <1>1, <1>2 DEF Underway
  <2> QED BY <1>1, <2>1, Known
<1> HIDE DEF i, l
<1>9. /\ \A j \in Index : desc'[j].own = desc[j].own
      /\ \A j \in Index : j # i => desc'[j] = desc[j]
      /\ desc'[i].buf = frames /\ desc'[i].len = frames /\ desc'[i].last = l
  BY <1>6, <1>7 DEF Descriptor
<1>10. Last(call[t])' = Last(call[t])
  BY <1>3, <1>4 DEF Last, SameFrame
<1>11. Prepared(call[t])'
  <2>1. Prepared(call[t])
    BY <1>1, <1>2 DEF Underway
  <2>2. Owned(Given(call[t]))'
    BY <1>1, <1>3, <1>4, <1>9, <2>1 DEF Prepared, Owned, Given, SameFrame
  <2>3. desc'[d.idx].buf = frames /\ desc'[d.idx].len = frames /\ (desc'[d.idx].last <=> d.idx = Last(call[t])')
    BY <1>3, <1>8, <1>9, <1>10 DEF i
  <2> QED BY <1>1, <1>3, <1>4, <1>5, <2>1, <2>2, <2>3 DEF Prepared, SameFrame
<1>12. Described(call[t])'
  BY <1>1, <1>2, <1>5, <1>8, <1>9, <1>10 DEF Underway, Described
<1>13. Underway(call[t])'
  BY <1>1, <1>2, <1>3, <1>4, <1>5, <1>10, <1>11, <1>12 DEF Underway, Places, SameFrame
<1> QED BY <1>1, <1>3, <1>5, <1>13, Caller DEF Orderly

LEMMA GivesAway ==
  ASSUME TypeOK, Numbers, Orderly, NEW t \in Task, SetOwn(t)
  PROVE  Orderly'
<1>1. Busy(t) /\ call[t].pc = "own"
  BY DEF SetOwn, At, Busy
<1>2. Underway(call[t]) /\ Prepared(call[t]) /\ Described(call[t]) /\ call[t].idx \in Index
  BY <1>1, Known DEF Underway
<1> DEFINE i == call[t].idx
           p == IF call[t].size = 2 /\ i = call[t].first THEN "next" ELSE "publish"
<1>3. PICK d : /\ Changed(t, d) /\ SameFrame(call[t], d) /\ d.pc = p /\ d.idx = i
  <2>1. p \in Places /\ Goto(t, p)
    BY DEF SetOwn, Places
  <2> QED BY <2>1, GotoIs
<1>4. call'[t] = d
  BY <1>3 DEF Changed, TypeOK
<1>5. UNCHANGED <<txLength, txBuffer, gState, curTx, dmaIndex, tail, frames, onWire, strange, lied>>
  BY DEF SetOwn, seen
<1>6. desc' = [desc EXCEPT ![i].own = TRUE] /\ desc \in [Index -> Descriptor] /\ i \in Index
  BY <1>2 DEF SetOwn, TypeOK
<1>7. /\ \A j \in Index : desc'[j].own <=> desc[j].own \/ j = i
      /\ \A j \in Index : desc'[j].buf = desc[j].buf /\ desc'[j].len = desc[j].len
                          /\ desc'[j].last = desc[j].last
  BY <1>6 DEF Descriptor
<1>8. Last(call[t])' = Last(call[t])
  BY <1>3, <1>4 DEF Last, SameFrame
<1>9. i \in {call[t].first, Last(call[t])} /\ (p = "publish" => i = Last(call[t]))
      /\ (p = "next" => call[t].size = 2 /\ i = call[t].first)
  <2>1. i \in {call[t].first, Last(call[t])}
    BY <1>1, <1>2 DEF Underway
  <2> QED BY <1>1, <2>1, Known
<1>10. p \in {"next", "publish"}
  OBVIOUS
<1> HIDE DEF p
<1>11. Owned(Given(call[t]))'
  BY <1>1, <1>2, <1>3, <1>4, <1>7, <1>10 DEF Prepared, Owned, Given, SameFrame
<1>12. Prepared(call[t])'
  BY <1>1, <1>2, <1>3, <1>4, <1>5, <1>8, <1>9, <1>10, <1>11 DEF Prepared, SameFrame
<1>13. Described(call[t])'
  BY <1>1, <1>2, <1>5, <1>7, <1>8 DEF Described, Prepared
<1>14. Underway(call[t])'
  BY <1>1, <1>2, <1>3, <1>4, <1>5, <1>8, <1>9, <1>10, <1>12, <1>13 DEF Underway, Places, SameFrame
<1>15. d.pc # "idle"
  BY <1>3, <1>10
<1> QED BY <1>1, <1>3, <1>5, <1>14, <1>15, Caller DEF Orderly

(* The next descriptor, and the two indices *)
LEMMA GoesOn ==
  ASSUME TypeOK, Numbers, Orderly, NEW t \in Task,
         NextDesc(t) \/ Publish(t) \/ Advance(t) \/ WriteTail(t)
  PROVE  Orderly'
<1>1. Busy(t) /\ call[t].pc \in {"next", "publish", "advance", "tail"}
  BY DEF NextDesc, Publish, Advance, WriteTail, At, Busy
<1>2. Underway(call[t]) /\ Prepared(call[t]) /\ Described(call[t])
  BY <1>1, Known DEF Underway
<1>3. UNCHANGED <<txLength, txBuffer, gState, desc, dmaIndex, frames, onWire, strange, lied>>
  BY DEF NextDesc, Publish, Advance, WriteTail, ring, seen
<1>4. ASSUME NEW d, Changed(t, d), SameFrame(call[t], d), d.pc \in Places \ {"idle", "undo", "buffer", "enter"},
             d.idx \in {call[t].first, Last(call[t])},
             IF d.pc = "wait" THEN Waiting(call[t])' ELSE Prepared(call[t])'
      PROVE  Orderly'
  <2>1. call'[t] = d
    BY <1>4 DEF Changed, TypeOK
  <2>2. Last(call[t])' = Last(call[t])
    BY <1>4, <2>1 DEF Last, SameFrame
  <2>3. Described(call[t])'
    BY <1>2, <1>3, <2>2 DEF Described
  <2>4. Underway(call[t])'
    BY <1>1, <1>2, <1>3, <1>4, <2>1, <2>2, <2>3 DEF Underway, SameFrame
  <2> QED BY <1>1, <1>3, <1>4, <2>4, Caller DEF Orderly
<1>5. CASE NextDesc(t)
  <2>1. PICK d : /\ Changed(t, d) /\ SameFrame(call[t], d) /\ d.pc = "check"
                 /\ d.idx = Incr(call[t].idx)
    BY <1>5, NextDescIs
  <2>2. call'[t] = d /\ call[t].pc = "next" /\ UNCHANGED <<curTx, tail>>
    BY <1>5, <2>1 DEF Changed, TypeOK, NextDesc, At, ring
  <2>3. call[t].size = 2 /\ call[t].idx = call[t].first /\ d.idx = Last(call[t])
        /\ d.idx # call[t].first
    BY <1>1, <1>2, <2>1, <2>2, Known DEF Prepared, Last
  <2>4. Prepared(call[t])'
    BY <1>2, <1>3, <2>1, <2>2, <2>3 DEF Prepared, Owned, Given, SameFrame
  <2> QED BY <1>4, <2>1, <2>3, <2>4 DEF Places
<1>6. CASE Publish(t)
  <2>1. PICK d : /\ Changed(t, d) /\ SameFrame(call[t], d) /\ d.pc = "advance"
                 /\ d.idx = call[t].idx
    BY <1>6, GotoIs DEF Publish, Places
  <2>2. call'[t] = d /\ call[t].pc = "publish" /\ curTx' = call[t].idx /\ UNCHANGED tail
    BY <1>6, <2>1 DEF Changed, TypeOK, Publish, At, ring
  <2>3. Last(call[t])' = Last(call[t])
    BY <2>1, <2>2 DEF Last, SameFrame
  <2>4. Prepared(call[t])'
    BY <1>2, <1>3, <2>1, <2>2, <2>3 DEF Prepared, Owned, Given, SameFrame
  <2>5. d.idx \in {call[t].first, Last(call[t])}
    BY <1>2, <2>1, <2>2 DEF Prepared
  <2> QED BY <1>4, <2>1, <2>4, <2>5 DEF Places
<1>7. CASE Advance(t)
  <2>1. PICK d : /\ Changed(t, d) /\ SameFrame(call[t], d) /\ d.pc = "tail"
                 /\ d.idx = call[t].idx /\ d.wait = curTx
    BY <1>7, AdvanceIs
  <2>2. call'[t] = d /\ call[t].pc = "advance" /\ curTx' = Incr(curTx) /\ UNCHANGED tail
    BY <1>7, <2>1 DEF Changed, TypeOK, Advance, At, ring
  <2>3. Last(call[t])' = Last(call[t])
    BY <2>1, <2>2 DEF Last, SameFrame
  <2>4. Prepared(call[t])'
    BY <1>2, <1>3, <2>1, <2>2, <2>3 DEF Prepared, Owned, Given, SameFrame
  <2>5. d.idx \in {call[t].first, Last(call[t])}
    BY <1>2, <2>1, <2>2 DEF Prepared
  <2> QED BY <1>4, <2>1, <2>4, <2>5 DEF Places
<1>8. CASE WriteTail(t)
  <2>1. PICK d : /\ Changed(t, d) /\ SameFrame(call[t], d) /\ d.pc = "wait"
                 /\ d.idx = call[t].idx /\ d.wait = call[t].wait
    BY <1>8, GotoIs DEF WriteTail, Places
  <2>2. call'[t] = d /\ call[t].pc = "tail" /\ tail' = curTx /\ UNCHANGED curTx
    BY <1>8, <2>1 DEF Changed, TypeOK, WriteTail, At
  <2>3. Last(call[t])' = Last(call[t])
    BY <2>1, <2>2 DEF Last, SameFrame
  <2>4. Waiting(call[t])'
    BY <1>2, <1>3, <2>1, <2>2, <2>3 DEF Prepared, Waiting, Owned, Given, SameFrame
  <2>5. d.idx \in {call[t].first, Last(call[t])}
    BY <1>2, <2>1, <2>2 DEF Prepared
  <2> QED BY <1>4, <2>1, <2>4, <2>5 DEF Places
<1> QED BY <1>5, <1>6, <1>7, <1>8

(* The call waits until the DMA has given the last descriptor back, which   *)
(* it does while there is one to send.                                      *)
LEMMA Waits ==
  ASSUME TypeOK, Numbers, Orderly, NEW t \in Task, Sent(t) \/ Timeout(t)
  PROVE  Orderly'
<1>1. Busy(t) /\ call[t].pc = "wait"
  BY DEF Sent, Timeout, At, Busy
<1>2. Underway(call[t]) /\ Waiting(call[t]) /\ call[t].wait \in Index
  BY <1>1, Known DEF Underway, Call
<1>3. ~Timeout(t)
  <2>1. SUFFICES ASSUME Timeout(t) PROVE FALSE
    OBVIOUS
  <2>2. desc[call[t].wait].own /\ (dmaIndex = tail \/ ~desc[dmaIndex].own)
    BY <2>1 DEF Timeout, DmaStopped
  <2>3. call[t].first \in Index /\ call[t].idx \in Index /\ tail = Incr(call[t].idx)
        /\ call[t].idx \in {call[t].first, Incr(call[t].first)}
    BY <1>1, <1>2, Known DEF Waiting, Last
  <2>4. tail # call[t].first /\ tail # call[t].idx
    BY <2>3, Round
  <2> QED BY <1>2, <2>2, <2>3, <2>4 DEF Waiting, Owned
<1>4. Sent(t) /\ dmaIndex = tail /\ onWire = frames /\ Owned({})
  <2>1. Sent(t) /\ ~desc[call[t].wait].own
    BY <1>3 DEF Sent
  <2> QED BY <1>2, <2>1 DEF Waiting, Owned
<1>5. Changed(t, Idle)
  BY <1>4, ReturnIs DEF Sent
<1>6. UNCHANGED <<txLength, txBuffer, gState, curTx, desc, dmaIndex, tail, frames, onWire, strange>>
      /\ lied' = (lied \/ onWire < call[t].frame)
  BY <1>4 DEF Sent, ring, seen
<1>7. ~lied'
  <2>1. ~(onWire < call[t].frame)
    BY <1>1, <1>2, <1>4, Known DEF Underway
  <2>2. ~lied
    BY <1>1, Known
  <2> QED BY <1>6, <2>1, <2>2
<1>8. Quiet' /\ onWire' = frames'
  BY <1>2, <1>4, <1>6 DEF Waiting, Quiet, Owned
<1> QED BY <1>1, <1>5, <1>6, <1>7, <1>8, Caller DEF Idle, Orderly

LEMMA DmaOrderly ==
  ASSUME TypeOK, Numbers, Orderly, Dma
  PROVE  Orderly' /\ (onWire' = onWire \/ onWire' = onWire + 1)
<1>1. dmaIndex # tail /\ desc[dmaIndex].own /\ dmaIndex \in Index
  BY DEF Dma, DmaStopped, TypeOK
<1>2. PICK t \in Task : Busy(t)
  BY <1>1 DEF Orderly, Quiet
<1> DEFINE c == call[t]
<1>3. Underway(c) /\ c.pc = "wait" /\ Waiting(c) /\ Described(c)
  <2>1. Underway(c)
    BY <1>2, Known
  <2>2. ~Quiet /\ ~Prepared(c)
    BY <1>1 DEF Quiet, Prepared
  <2> QED BY <2>1, <2>2 DEF Underway, Places
<1>4. /\ desc[dmaIndex].buf = frames /\ desc[dmaIndex].len = frames
      /\ desc[dmaIndex].last <=> dmaIndex = Last(c)
  BY <1>1, <1>3 DEF Described
<1>5. Held(frames)
  BY <1>2, <1>3 DEF Held, Underway
<1>6. /\ desc' = [desc EXCEPT ![dmaIndex].own = FALSE] /\ dmaIndex' = Incr(dmaIndex)
      /\ UNCHANGED <<txLength, txBuffer, gState, curTx, tail, call, frames, lied>>
  BY DEF Dma
<1>7. /\ \A j \in Index : desc'[j].own <=> desc[j].own /\ j # dmaIndex
      /\ \A j \in Index : desc'[j].buf = desc[j].buf /\ desc'[j].len = desc[j].len
                          /\ desc'[j].last = desc[j].last
  BY <1>1, <1>6 DEF TypeOK, Descriptor
<1>8. /\ onWire + 1 = frames /\ c.first \in Index /\ c.idx \in Index /\ c.idx = Last(c)
      /\ dmaIndex \in {c.first, c.idx} /\ frames \in Nat /\ onWire \in Nat
      /\ Owned({dmaIndex, c.idx})
  BY <1>1, <1>2, <1>3, Known DEF Waiting, Owned
<1>9. IF dmaIndex = c.idx THEN onWire' = frames /\ ~strange' ELSE onWire' = onWire /\ ~strange'
  <2> DEFINE e == desc[dmaIndex]
             whole == e.buf = e.len /\ Held(e.buf)
             more == e.buf > onWire
             old == e.buf <= onWire
  <2>1. whole /\ more /\ ~old /\ e.buf = frames
    BY <1>4, <1>5, <1>8
  <2>2. e.last <=> dmaIndex = c.idx
    BY <1>4, <1>8
  <2>3. IF e.last /\ whole /\ more
        THEN onWire' = e.buf /\ UNCHANGED strange
        ELSE UNCHANGED onWire /\ strange' = (strange \/ ~whole \/ old)
    BY DEF Dma
  <2>4. ~strange
    BY DEF Orderly
  <2>5. CASE dmaIndex = c.idx
    <3>1. e.last
      BY <2>2, <2>5
    <3> HIDE DEF e, whole, more, old
    <3>2. onWire' = e.buf /\ strange' = strange
      BY <2>1, <2>3, <3>1
    <3>3. onWire' = frames
      BY <2>1, <3>2
    <3>4. ~strange'
      BY <2>4, <3>2
    <3> QED BY <2>5, <3>3, <3>4
  <2>6. CASE dmaIndex # c.idx
    <3>1. ~e.last
      BY <2>2, <2>6
    <3> HIDE DEF e, whole, more, old
    <3>2. onWire' = onWire /\ strange' = (strange \/ ~whole \/ old)
      BY <2>3, <3>1
    <3>3. ~strange'
      BY <2>1, <2>4, <3>2
    <3> QED BY <2>6, <3>2, <3>3
  <2> QED BY <2>5, <2>6
<1>10. Waiting(c)'
  <2>1. CASE dmaIndex = c.idx
    <3>1. dmaIndex' = tail' /\ Owned({})'
      BY <1>3, <1>6, <1>7, <1>8, <2>1 DEF Waiting, Owned
    <3> QED BY <1>3, <1>6, <1>9, <2>1, <3>1 DEF Waiting, Last
  <2>2. CASE dmaIndex # c.idx
    <3>1. dmaIndex = c.first /\ c.idx = Incr(c.first)
      BY <1>8, <2>2 DEF Last
    <3>2. dmaIndex' = c.idx /\ Owned({c.idx})'
      BY <1>6, <1>7, <1>8, <2>2, <3>1 DEF Owned
    <3> QED BY <1>3, <1>6, <1>8, <1>9, <2>2, <3>2 DEF Waiting, Last
  <2> QED BY <2>1, <2>2
<1>11. Described(c)'
  BY <1>3, <1>6, <1>7 DEF Described, Last
<1>12. Underway(c)'
  BY <1>3, <1>6, <1>10, <1>11 DEF Underway, Last
<1>13. \A u \in Task : Busy(u)' <=> Busy(u)
  BY <1>6 DEF Busy
<1>14. ~strange' /\ (onWire' = onWire \/ onWire' = onWire + 1)
  BY <1>8, <1>9
<1> QED BY <1>2, <1>6, <1>12, <1>13, <1>14 DEF Orderly

-----------------------------------------------------------------------------
(* The inductive invariant, and what follows from it                        *)

LEMMA Step == TxInv /\ [Next]_vars => TxInv'
<1> SUFFICES ASSUME TxInv, [Next]_vars PROVE TxInv'
  OBVIOUS
<1> USE DEF TxInv
<1>1. TypeOK' /\ Numbers'
  <2>1. CASE Dma
    BY <2>1, DmaTypes
  <2>2. ASSUME NEW t \in Task, Output(t) PROVE TypeOK' /\ Numbers'
    BY <2>2, OutputTypes
  <2>3. ASSUME NEW t \in Task, Transmit(t) PROVE TypeOK' /\ Numbers'
    BY <2>3, TransmitTypes
  <2>4. CASE UNCHANGED vars
    BY <2>4 DEF vars, TypeOK, Numbers
  <2> QED BY <2>1, <2>2, <2>3, <2>4 DEF Next
<1>2. ASSUME ~overlapped' PROVE Orderly'
  <2>1. CASE Dma
    BY <1>2, <2>1, DmaOrderly DEF Dma
  <2>2. ASSUME NEW t \in Task, Output(t) PROVE Orderly'
    BY <1>2, <2>2, OutputOrderly DEF Output
  <2>3. ASSUME NEW t \in Task, Transmit(t) PROVE Orderly'
    <3>1. ~overlapped
      BY <1>2, <2>3 DEF Transmit, SetBuffer, Enter, Refused, CheckOwn, DescBusy, Undo, Fill,
           SetOwn, NextDesc, Publish, Advance, WriteTail, Sent, Timeout, seen
    <3>2. CASE SetBuffer(t) \/ Enter(t) \/ Refused(t)
      BY <3>1, <3>2, Begins
    <3>3. CASE CheckOwn(t) \/ DescBusy(t) \/ Undo(t)
      BY <3>1, <3>3, Checks
    <3>4. CASE Fill(t) \/ SetOwn(t)
      BY <3>1, <3>4, Fills, GivesAway
    <3>5. CASE NextDesc(t) \/ Publish(t) \/ Advance(t) \/ WriteTail(t)
      BY <3>1, <3>5, GoesOn
    <3>6. CASE Sent(t) \/ Timeout(t)
      BY <3>1, <3>6, Waits
    <3> QED BY <2>3, <3>2, <3>3, <3>4, <3>5, <3>6 DEF Transmit
  <2>4. CASE UNCHANGED vars
    BY <1>2, <2>4 DEF vars, Orderly, Busy, Quiet, Underway, Prepared, Waiting, Described, Owned,
                      Given, Last
  <2> QED BY <2>1, <2>2, <2>3, <2>4 DEF Next
<1> QED BY <1>1, <1>2

(* Types and numbers always hold; as long as no two calls overlapped there  *)
(* is one call at most, and the ring, the DMA and the wire are where the    *)
(* place of that call says.                                                 *)
THEOREM TxInvariance == Spec => []TxInv
BY Start, Step, PTL DEF Spec

(* Types of the ring, the handle and the calls, for every size of the ring. *)
THEOREM TxTypes == Spec => []TypeOK
<1>1. TxInv => TypeOK
  BY DEF TxInv
<1> QED BY <1>1, TxInvariance, PTL

(* No frame goes out twice, mixed up or out of order, unless one task       *)
(* entered low_level_output inside of the other one's call.                 *)
THEOREM FramesStayIntact == Spec => []FramesIntact
<1>1. TxInv => FramesIntact
  BY DEF TxInv, FramesIntact, Orderly
<1> QED BY <1>1, TxInvariance, PTL

(* What the DMA owns belongs to a call that has not returned, so that lwIP  *)
(* has not freed it.                                                        *)
THEOREM BuffersStayHeld == Spec => []BuffersHeld
<1>1. ASSUME TxInv PROVE BuffersHeld
  <2> SUFFICES ASSUME ~overlapped, NEW i \in Index, desc[i].own PROVE Held(desc[i].buf)
    BY DEF BuffersHeld
  <2>1. TypeOK /\ Orderly
    BY <1>1 DEF TxInv
  <2>2. PICK t \in Task : Busy(t)
    BY <2>1 DEF Orderly, Quiet
  <2>3. Underway(call[t])
    BY <2>1, <2>2, Known
  <2>4. call[t].frame = frames /\ Described(call[t])
    BY <2>3 DEF Underway, Quiet
  <2> QED BY <2>2, <2>4 DEF Described, Held
<1> QED BY <1>1, TxInvariance, PTL

(* No transmit runs into its timeout, which would leave the handle in an    *)
(* error state for good.                                                    *)
THEOREM TransmitterIsKept == Spec => []TransmitterKept
<1>1. TxInv => TransmitterKept
  BY DEF TxInv, TransmitterKept, Orderly
<1> QED BY <1>1, TxInvariance, PTL

(* HAL_OK means that the frame is on the wire.                              *)
THEOREM OkIsSent == Spec => []OkMeansSent
<1>1. TxInv => OkMeansSent
  BY DEF TxInv, OkMeansSent, Orderly
<1> QED BY <1>1, TxInvariance, PTL

(* The transmit path implements Channel: a frame given to low_level_output  *)
(* is sent, its last descriptor delivers it, and only a call that begins    *)
(* inside of another one can cut the path.                                  *)
THEOREM TransmitPathIsAChannel == Spec => FramesInOrder
<1>1. Init => Wire!Init
  BY DEF Init, Wire!Init
<1>2. ASSUME TxInv, [Next]_vars PROVE [Wire!Next]_(Wire!vars)
  <2>1. TypeOK /\ Numbers /\ (~overlapped => Orderly)
    BY <1>2 DEF TxInv
  <2>2. CASE Dma
    <3>1. UNCHANGED <<frames, overlapped>> /\ frames \in Nat /\ onWire \in 0..frames
      BY <2>1, <2>2 DEF Dma, TypeOK
    <3>2. UNCHANGED onWire \/ onWire' \in onWire + 1 .. frames
      BY <2>1, <2>2, DmaTypes
    <3>3. ~overlapped => onWire' = onWire \/ onWire' = onWire + 1
      BY <2>1, <2>2, DmaOrderly
    <3> QED BY <3>1, <3>2, <3>3 DEF Wire!Next, Wire!Deliver, Wire!vars
  <2>3. ASSUME NEW t \in Task, Output(t) PROVE Wire!Next
    <3>1. frames' = frames + 1 /\ UNCHANGED onWire /\ frames \in Nat
      BY <2>1, <2>3 DEF Output, TypeOK
    <3>2. overlapped' \in {overlapped, TRUE}
      BY <2>1, <2>3 DEF Output, TypeOK
    <3>3. frames' > frames /\ frames' \in Nat
      BY <3>1
    <3> QED BY <3>1, <3>2, <3>3 DEF Wire!Next, Wire!Send
  <2>4. ASSUME NEW t \in Task, Transmit(t) PROVE UNCHANGED Wire!vars
    BY <2>4 DEF Transmit, SetBuffer, Enter, Refused, CheckOwn, DescBusy, Undo, Fill, SetOwn,
         NextDesc, Publish, Advance, WriteTail, Sent, Timeout, seen, Wire!vars
  <2>5. CASE UNCHANGED vars
    BY <2>5 DEF vars, Wire!vars
  <2> QED BY <1>2, <2>2, <2>3, <2>4, <2>5 DEF Next
<1> QED BY <1>1, <1>2, TxInvariance, PTL DEF Spec, FramesInOrder, Wire!Spec
=============================================================================
