-------------------------- MODULE KernelQueue_proofs --------------------------
(***************************************************************************)
(* What a read of a FreeRTOS queue keeps for any readers, any capacity and *)
(* any timeouts: the lists agree, and no read gives up before its time.    *)
(***************************************************************************)
EXTENDS KernelQueue, FiniteSetTheorems, WellFoundedInduction, TLAPS

(* Places between vTaskSuspendAll and xTaskResumeAll, and between           *)
(* prvLockQueue and prvUnlockQueue                                          *)
Held == {"lock", "timeout", "empty", "place", "delay", "unlock", "resume"}
Locked == {"timeout", "empty", "place", "delay", "unlock"}

Lists == waiting \cup blocked \cup pending

(* The scheduler is suspended by the reader that is between the two calls,  *)
(* and the queue is locked by it.                                           *)
Suspension ==
  /\ \A r \in Readers : call[r].pc \in Held <=> suspended = r
  /\ cTxLock # Unlocked => suspended # Nobody /\ call[suspended].pc \in Locked
  /\ pending # {} => suspended # Nobody

(* A reader in one of the lists has gone to sleep in its call, with time    *)
(* left, and is in the event list or has been taken out of it.              *)
Membership ==
  /\ \A r \in Lists : call[r].pc \in {"delay", "unlock", "resume", "check"} /\ call[r].left > 0
  /\ \A r \in waiting : r \in blocked \/ call[r].pc = "delay"
  /\ waiting \cap pending = {}

(* What is left of the time of a read is at least what has not passed.      *)
Time(c) ==
  /\ c.left <= c.asked
  /\ c.left = MaxDelay => c.since = 0
  /\ c.pc \in {"suspend", "lock", "timeout", "empty", "place", "delay"} => c.left > 0
  /\ c.pc = "last" => c.left = 0
  /\ c.left > 0 => c.age >= c.since + c.asked - c.left \/ c.age = MaxDelay
  /\ c.left = 0 => c.age >= c.asked

QueueInv ==
  /\ TypeOK /\ Suspension /\ Membership /\ NeverEarly
  /\ \A r \in Readers : Time(call[r])

-----------------------------------------------------------------------------
Calls == [pc : Places, left : 0 .. MaxDelay, since : 0 .. MaxDelay,
          asked : 0 .. MaxDelay, age : 0 .. MaxDelay]

(* Where a reader is decides whether the scheduler runs, and a reader that  *)
(* runs under the scheduler is in no list.                                  *)
LEMMA Place_of_running ==
  ASSUME QueueInv, NEW r \in Readers, NEW p \in Places, At(r, p)
  PROVE  /\ call[r].pc = p
         /\ p \in Held => suspended = r
         /\ p \notin Held => /\ suspended = Nobody /\ cTxLock = Unlocked /\ pending = {}
                            /\ r \notin Lists
         /\ p \in {"lock", "timeout", "empty", "place"} => r \notin Lists
         /\ p \in {"lock", "resume"} => cTxLock = Unlocked
<1>1. call[r].pc = p /\ r # Nobody
  BY QueueAssumption DEF At, Nobody
<1>2. p \in Held => suspended = r
  BY <1>1 DEF QueueInv, Suspension
<1>3. ASSUME p \notin Held
      PROVE  suspended = Nobody /\ cTxLock = Unlocked /\ pending = {} /\ r \notin Lists
  <2>1. suspended = Nobody /\ r \notin blocked
    BY <1>1, <1>3 DEF At, Running, QueueInv, Suspension
  <2>2. r \notin waiting
    BY <1>1, <1>3, <2>1 DEF QueueInv, Membership, Held
  <2>3. QED
    BY <2>1, <2>2 DEF QueueInv, Suspension, Lists
<1>4. p \in {"lock", "timeout", "empty", "place"} => r \notin Lists
  BY <1>1 DEF QueueInv, Membership
<1>5. p \in {"lock", "resume"} => cTxLock = Unlocked
  BY <1>1, <1>2 DEF QueueInv, Suspension, Held, Locked
<1>6. QED
  BY <1>1, <1>2, <1>3, <1>4, <1>5

(* A step that changes the call of one reader, from a place outside of the  *)
(* suspension to another one, keeps everything but the types and the time.  *)
LEMMA OutsideStep ==
  ASSUME QueueInv, NEW r \in Readers, r \notin Lists, suspended = Nobody,
         NEW c \in Calls, c.pc \notin Held, Time(c),
         call' = [call EXCEPT ![r] = c], UNCHANGED <<cTxLock, lists, kernel>>,
         messages' \in 0 .. Capacity, cTxLock = Unlocked, deleted' \subseteq Readers,
         early' = FALSE
  PROVE  QueueInv'
<1>1. /\ call \in [Readers -> Calls] /\ r # Nobody
      /\ \A s \in Readers : call'[s] = IF s = r THEN c ELSE call[s]
  BY QueueAssumption DEF QueueInv, TypeOK, Calls, Nobody
<1>2. TypeOK'
  <2>1. call' \in [Readers -> Calls]
    BY <1>1
  <2>2. cTxLock' \in Unlocked .. messages'
    BY QueueAssumption DEF Unlocked
  <2>3. /\ waiting' \subseteq Readers /\ pending' \subseteq Readers /\ blocked' \subseteq Readers
        /\ sleep' \in [Readers -> 0 .. MaxDelay]
        /\ suspended' \in Readers \cup {Nobody} /\ pendedTicks' \in 0 .. MaxPended
    BY DEF QueueInv, TypeOK, lists, kernel
  <2>4. QED
    BY <2>1, <2>2, <2>3 DEF TypeOK, Calls
<1>3. Suspension'
  BY <1>1, QueueAssumption DEF QueueInv, Suspension, lists, kernel, Nobody
<1>4. Lists' = Lists /\ Lists \subseteq Readers
  BY DEF QueueInv, TypeOK, Lists, lists
<1>5. Membership'
  BY <1>1, <1>4 DEF QueueInv, Membership, lists, Lists
<1>6. \A s \in Readers : Time(call'[s])
  BY <1>1 DEF QueueInv
<1>7. QED
  BY <1>2, <1>3, <1>5, <1>6 DEF QueueInv, NeverEarly, Time

(* Changes of one field of a call *)
LEMMA CallEdits ==
  ASSUME NEW d \in Calls
  PROVE  /\ \A p \in Places : [d EXCEPT !.pc = p] \in Calls
         /\ \A n \in 0 .. MaxDelay : [d EXCEPT !.left = n] \in Calls
         /\ \A n \in 0 .. MaxDelay : [d EXCEPT !.since = n] \in Calls
         /\ \A n \in 0 .. MaxDelay : [d EXCEPT !.age = n] \in Calls
BY DEF Calls

LEMMA IdleTyped == Idle \in Calls /\ Time(Idle)
BY QueueAssumption DEF Idle, Calls, Places, Time

(* A call, and the first critical section.                                  *)
LEMMA CallStep ==
  ASSUME QueueInv, NEW r \in Readers, NEW n \in Timeouts, Call(r, n)
  PROVE  QueueInv'
<1>1. At(r, "idle") /\ "idle" \in Places \ Held
  BY DEF Call, Places, Held
<1> DEFINE c == [pc |-> "check", left |-> n, since |-> 0, asked |-> n, age |-> 0]
<1>2. c \in Calls /\ c.pc = "check" /\ Time(c)
  BY QueueAssumption DEF Calls, Places, Time
<1>3. /\ call' = [call EXCEPT ![r] = c]
      /\ UNCHANGED <<messages, cTxLock, lists, kernel, deleted, early>>
  BY DEF Call
<1>4. messages' \in 0 .. Capacity /\ deleted' \subseteq Readers /\ early' = FALSE
  BY <1>3 DEF QueueInv, TypeOK, NeverEarly
<1> HIDE DEF c
<1>5. c.pc \notin Held
  BY <1>2 DEF Held
<1>6. suspended = Nobody /\ cTxLock = Unlocked /\ r \notin Lists
  BY <1>1, Place_of_running
<1>7. QED
  BY <1>2, <1>3, <1>4, <1>5, <1>6, OutsideStep

LEMMA CheckStep ==
  ASSUME QueueInv, NEW r \in Readers, Check(r)
  PROVE  QueueInv'
<1>1. At(r, "check") /\ "check" \in Places \ Held
  BY DEF Check, Places, Held
<1>2. suspended = Nobody /\ cTxLock = Unlocked /\ r \notin Lists
  BY <1>1, Place_of_running
<1>3. call[r] \in Calls /\ call[r].pc = "check" /\ Time(call[r]) /\ early = FALSE
  BY <1>1 DEF QueueInv, TypeOK, Calls, At, NeverEarly
<1>4. UNCHANGED <<cTxLock, lists, kernel, deleted>> /\ deleted' \subseteq Readers
  BY DEF Check, QueueInv, TypeOK
<1>5. messages \in 0 .. Capacity /\ Capacity \in Nat
  BY QueueAssumption DEF QueueInv, TypeOK
<1>6. CASE messages > 0 /\ messages' = messages - 1 /\ Return(r) /\ UNCHANGED early
  <2>1. messages' \in 0 .. Capacity /\ call' = [call EXCEPT ![r] = Idle] /\ early' = FALSE
    BY <1>3, <1>5, <1>6 DEF Return
  <2>2. Idle.pc \notin Held
    BY DEF Idle, Held
  <2>3. QED
    BY <1>2, <1>4, <2>1, <2>2, IdleTyped, OutsideStep
<1>7. CASE messages = 0 /\ call[r].left = 0 /\ GiveUp(r) /\ UNCHANGED messages
  <2>0. ~(call[r].age < call[r].asked)
    BY <1>3, <1>7, QueueAssumption DEF Time, Calls
  <2>1. early' = FALSE
    BY <1>3, <1>7, <2>0 DEF GiveUp
  <2>2. messages' \in 0 .. Capacity /\ call' = [call EXCEPT ![r] = Idle]
    BY <1>5, <1>7 DEF GiveUp, Return
  <2>3. Idle.pc \notin Held
    BY DEF Idle, Held
  <2>4. QED
    BY <1>2, <1>4, <2>1, <2>2, <2>3, IdleTyped, OutsideStep
<1>8. CASE call[r].left > 0 /\ Goto(r, "suspend") /\ UNCHANGED <<messages, early>>
  <2> DEFINE c == [call[r] EXCEPT !.pc = "suspend"]
  <2>1. c \in Calls /\ c.pc \notin Held /\ Time(c)
    BY <1>3, <1>8 DEF Calls, Places, Held, Time
  <2>2. call' = [call EXCEPT ![r] = c]
    BY <1>8 DEF Goto, QueueInv, TypeOK
  <2>3. messages' \in 0 .. Capacity /\ early' = FALSE
    BY <1>3, <1>5, <1>8
  <2> HIDE DEF c
  <2>4. QED
    BY <1>2, <1>4, <2>1, <2>2, <2>3, OutsideStep
<1>9. QED
  BY <1>6, <1>7, <1>8 DEF Check

(* The last look at the queue, after the time is over.                      *)
LEMMA LastStep ==
  ASSUME QueueInv, NEW r \in Readers, Last(r)
  PROVE  QueueInv'
<1>1. At(r, "last") /\ "last" \in Places \ Held
  BY DEF Last, Places, Held
<1>2. suspended = Nobody /\ cTxLock = Unlocked /\ r \notin Lists
  BY <1>1, Place_of_running
<1>3. call[r] \in Calls /\ call[r].pc = "last" /\ Time(call[r]) /\ early = FALSE
  BY <1>1 DEF QueueInv, TypeOK, Calls, At, NeverEarly
<1>4. /\ UNCHANGED <<messages, cTxLock, lists, kernel, deleted>>
      /\ deleted' \subseteq Readers /\ messages' \in 0 .. Capacity
  BY DEF Last, QueueInv, TypeOK
<1>5. CASE GiveUp(r)
  <2>0. ~(call[r].age < call[r].asked)
    BY <1>3, QueueAssumption DEF Time, Calls
  <2>1. early' = FALSE /\ call' = [call EXCEPT ![r] = Idle]
    BY <1>3, <1>5, <2>0 DEF GiveUp, Return
  <2>2. Idle.pc \notin Held
    BY DEF Idle, Held
  <2>3. QED
    BY <1>2, <1>4, <2>1, <2>2, IdleTyped, OutsideStep
<1>6. CASE Goto(r, "check") /\ UNCHANGED early
  <2> DEFINE c == [call[r] EXCEPT !.pc = "check"]
  <2>1. c \in Calls /\ c.pc \notin Held /\ Time(c)
    BY <1>3 DEF Calls, Places, Held, Time
  <2>2. call' = [call EXCEPT ![r] = c] /\ early' = FALSE
    BY <1>3, <1>6 DEF Goto, QueueInv, TypeOK
  <2> HIDE DEF c
  <2>3. QED
    BY <1>2, <1>4, <2>1, <2>2, OutsideStep
<1>7. QED
  BY <1>5, <1>6 DEF Last

-----------------------------------------------------------------------------
(* Steps with the scheduler suspended.                                      *)

(* A change of a call that stays inside of the suspension, or enters it,    *)
(* with lists that change by the reader itself or by what Unlock wakes.     *)
LEMMA InsideTypes ==
  ASSUME QueueInv, NEW r \in Readers, NEW c \in Calls, call' = [call EXCEPT ![r] = c],
         Time(c), UNCHANGED <<messages, pendedTicks, deleted, early>>,
         cTxLock' \in Unlocked .. messages, suspended' = r,
         waiting' \subseteq Readers, pending' \subseteq Readers, blocked' \subseteq Readers,
         sleep' \in [Readers -> 0 .. MaxDelay]
  PROVE  /\ TypeOK' /\ NeverEarly'
         /\ \A s \in Readers : Time(call'[s])
         /\ \A s \in Readers : call'[s] = IF s = r THEN c ELSE call[s]
<1>1. call' \in [Readers -> Calls] /\ \A s \in Readers : call'[s] = IF s = r THEN c ELSE call[s]
  BY DEF QueueInv, TypeOK, Calls
<1>2. TypeOK'
  BY <1>1 DEF QueueInv, TypeOK, Calls
<1>3. \A s \in Readers : Time(call'[s])
  BY <1>1 DEF QueueInv
<1>4. QED
  BY <1>1, <1>2, <1>3 DEF QueueInv, NeverEarly

LEMMA SuspendAllStep ==
  ASSUME QueueInv, NEW r \in Readers, SuspendAll(r)
  PROVE  QueueInv'
<1>1. At(r, "suspend") /\ "suspend" \in Places \ Held
  BY DEF SuspendAll, Places, Held
<1>2. /\ suspended = Nobody /\ cTxLock = Unlocked /\ pending = {} /\ r \notin Lists
      /\ r # Nobody /\ call[r].pc = "suspend"
  BY <1>1, Place_of_running, QueueAssumption DEF Nobody
<1> DEFINE c == [call[r] EXCEPT !.pc = "lock"]
<1>3. c \in Calls /\ c.pc = "lock" /\ c.left = call[r].left /\ Time(c)
  BY <1>2 DEF QueueInv, TypeOK, Calls, Places, Time
<1>4. /\ call' = [call EXCEPT ![r] = c] /\ suspended' = r
      /\ UNCHANGED <<messages, cTxLock, lists, pendedTicks, deleted, early>>
  BY DEF SuspendAll, Goto, QueueInv, TypeOK
<1> HIDE DEF c
<1>5. /\ cTxLock' \in Unlocked .. messages
      /\ waiting' \subseteq Readers /\ pending' \subseteq Readers /\ blocked' \subseteq Readers
      /\ sleep' \in [Readers -> 0 .. MaxDelay]
  BY <1>4 DEF lists, QueueInv, TypeOK
<1>6. /\ TypeOK' /\ NeverEarly' /\ \A s \in Readers : Time(call'[s])
      /\ \A s \in Readers : call'[s] = IF s = r THEN c ELSE call[s]
  BY <1>3, <1>4, <1>5, InsideTypes
<1>7. Suspension'
  BY <1>2, <1>3, <1>4, <1>6, QueueAssumption DEF QueueInv, Suspension, Held, lists, Nobody
<1>8. Membership'
  BY <1>2, <1>3, <1>4, <1>5, <1>6 DEF QueueInv, Membership, lists, Lists
<1>9. QED
  BY <1>6, <1>7, <1>8 DEF QueueInv

(* The steps before the event list is touched.                              *)
LEMMA BeforeStep ==
  ASSUME QueueInv, NEW r \in Readers, Lock(r) \/ CheckForTimeOut(r) \/ IsEmpty(r)
  PROVE  QueueInv'
<1>1. \E p \in {"lock", "timeout", "empty"} : At(r, p)
  BY DEF Lock, CheckForTimeOut, IsEmpty
<1>2. /\ suspended = r /\ r \notin Lists /\ r # Nobody
      /\ call[r].pc \in {"lock", "timeout", "empty"}
  BY <1>1, Place_of_running, QueueAssumption DEF Nobody, Places, Held
<1>3. /\ UNCHANGED <<messages, lists, kernel, deleted, early>>
      /\ cTxLock' \in Unlocked .. messages
  BY QueueAssumption DEF Lock, CheckForTimeOut, IsEmpty, QueueInv, TypeOK, Unlocked
<1>4. call[r] \in Calls /\ Time(call[r]) /\ MaxDelay \in Nat
  BY QueueAssumption DEF QueueInv, TypeOK, Calls
<1>5. PICK c \in Calls : /\ call' = [call EXCEPT ![r] = c] /\ Time(c) /\ c.pc \in Locked
  <2>1. CASE Lock(r)
    <3>1. call' = [call EXCEPT ![r] = [call[r] EXCEPT !.pc = "timeout"]]
      BY <2>1 DEF Lock, Goto, QueueInv, TypeOK
    <3>2. [call[r] EXCEPT !.pc = "timeout"] \in Calls
      BY <1>4 DEF Calls, Places
    <3>3. Time([call[r] EXCEPT !.pc = "timeout"])
      BY <1>4, <2>1 DEF Time, Calls, Lock, At
    <3>4. QED
      BY <3>1, <3>2, <3>3 DEF Locked, Calls
  <2>2. CASE IsEmpty(r)
    <3> DEFINE p == IF messages = 0 THEN "place" ELSE "unlock"
    <3>1. call' = [call EXCEPT ![r] = [call[r] EXCEPT !.pc = p]] /\ p \in {"place", "unlock"}
      BY <2>2 DEF IsEmpty, Goto, QueueInv, TypeOK
    <3> HIDE DEF p
    <3>2. [call[r] EXCEPT !.pc = p] \in Calls
      BY <1>4, <3>1 DEF Calls, Places
    <3>3. Time([call[r] EXCEPT !.pc = p])
      BY <1>4, <2>2, <3>1 DEF Time, Calls, IsEmpty, At
    <3>4. QED
      BY <3>1, <3>2, <3>3 DEF Locked, Calls
  <2>3. CASE CheckForTimeOut(r)
    <3>0. call[r].left > 0
      BY <1>4, <2>3 DEF CheckForTimeOut, At, Time
    <3>1. CASE call[r].left = MaxDelay
      <4>1. call' = [call EXCEPT ![r] = [call[r] EXCEPT !.pc = "empty"]]
        BY <2>3, <3>1 DEF CheckForTimeOut
      <4>2. [call[r] EXCEPT !.pc = "empty"] \in Calls /\ Time([call[r] EXCEPT !.pc = "empty"])
        BY <1>4, <3>0, <3>1 DEF Time, Calls, Places
      <4>3. QED
        BY <4>1, <4>2 DEF Locked, Calls
    <3>2. CASE call[r].left # MaxDelay /\ call[r].since < call[r].left
      <4> DEFINE c == [call[r] EXCEPT !.pc = "empty", !.left = call[r].left - call[r].since,
                                      !.since = 0]
      <4>1. call' = [call EXCEPT ![r] = c]
        BY <2>3, <3>2 DEF CheckForTimeOut
      <4>2. /\ c.pc = "empty" /\ c.left = call[r].left - call[r].since /\ c.since = 0
            /\ c.asked = call[r].asked /\ c.age = call[r].age
        BY <1>4 DEF Calls
      <4>3. c \in Calls
        <5>1. c.left \in 0 .. MaxDelay
          BY <1>4, <3>2, <4>2 DEF Calls
        <5> DEFINE c0 == [call[r] EXCEPT !.pc = "empty"]
                   c1 == [c0 EXCEPT !.left = call[r].left - call[r].since]
        <5>2. c0 \in Calls
          BY <1>4, CallEdits DEF Places
        <5>3. c1 \in Calls
          <6> HIDE DEF c0
          <6>1. call[r].left - call[r].since \in 0 .. MaxDelay
            BY <4>2, <5>1
          <6>2. QED
            BY <5>2, <6>1, CallEdits
        <5>4. [c1 EXCEPT !.since = 0] \in Calls
          <6> HIDE DEF c1
          <6>1. QED
            BY <1>4, <5>3, CallEdits
        <5>5. QED
          BY <5>4
      <4> HIDE DEF c
      <4>4. Time(c)
        BY <1>4, <3>0, <3>2, <4>2 DEF Time, Calls
      <4>5. QED
        BY <4>1, <4>2, <4>3, <4>4 DEF Locked
    <3>3. CASE call[r].left # MaxDelay /\ ~(call[r].since < call[r].left)
      <4> DEFINE c == [call[r] EXCEPT !.pc = "unlock", !.left = 0]
      <4>1. call' = [call EXCEPT ![r] = c]
        BY <2>3, <3>3 DEF CheckForTimeOut
      <4>2. /\ c.pc = "unlock" /\ c.left = 0 /\ c.since = call[r].since
            /\ c.asked = call[r].asked /\ c.age = call[r].age
        BY <1>4 DEF Calls
      <4>3. c \in Calls
        <5> DEFINE c0 == [call[r] EXCEPT !.pc = "unlock"]
        <5>1. c0 \in Calls
          BY <1>4, CallEdits DEF Places
        <5>2. [c0 EXCEPT !.left = 0] \in Calls
          <6> HIDE DEF c0
          <6>1. QED
            BY <1>4, <5>1, CallEdits
        <5>3. QED
          BY <5>2
      <4> HIDE DEF c
      <4>4. Time(c)
        BY <1>4, <3>0, <3>3, <4>2 DEF Time, Calls
      <4>5. QED
        BY <4>1, <4>2, <4>3, <4>4 DEF Locked
    <3>4. QED
      BY <3>1, <3>2, <3>3
  <2>4. QED
    BY <2>1, <2>2, <2>3
<1>6. /\ waiting' \subseteq Readers /\ pending' \subseteq Readers /\ blocked' \subseteq Readers
      /\ sleep' \in [Readers -> 0 .. MaxDelay] /\ suspended' = r /\ UNCHANGED pendedTicks
  BY <1>2, <1>3 DEF lists, kernel, QueueInv, TypeOK
<1>7. /\ TypeOK' /\ NeverEarly' /\ \A s \in Readers : Time(call'[s])
      /\ \A s \in Readers : call'[s] = IF s = r THEN c ELSE call[s]
  BY <1>3, <1>5, <1>6, InsideTypes
<1>8. Suspension'
  BY <1>2, <1>3, <1>5, <1>6, <1>7 DEF QueueInv, Suspension, Held, Locked, lists
<1>9. Membership'
  BY <1>2, <1>3, <1>6, <1>7 DEF QueueInv, Membership, lists, Lists
<1>10. QED
  BY <1>7, <1>8, <1>9 DEF QueueInv

(* vTaskPlaceOnEventList                                                    *)
LEMMA SleepStep ==
  ASSUME QueueInv, NEW r \in Readers, Place(r) \/ Delay(r)
  PROVE  QueueInv'
<1>1. \E p \in {"place", "delay"} : At(r, p)
  BY DEF Place, Delay
<1>2. /\ suspended = r /\ r # Nobody /\ call[r].pc \in {"place", "delay"}
      /\ call[r].pc = "place" => r \notin Lists
  BY <1>1, Place_of_running, QueueAssumption DEF Nobody, Places, Held
<1>3. /\ UNCHANGED <<messages, cTxLock, pending, kernel, deleted, early>>
      /\ cTxLock' \in Unlocked .. messages
  BY DEF Place, Delay, QueueInv, TypeOK
<1>4. call[r] \in Calls /\ Time(call[r]) /\ MaxDelay \in Nat
  BY QueueAssumption DEF QueueInv, TypeOK, Calls
<1>5. PICK p \in {"delay", "unlock"} : call' = [call EXCEPT ![r] = [call[r] EXCEPT !.pc = p]]
  BY DEF Place, Delay, Goto, QueueInv, TypeOK
<1> DEFINE c == [call[r] EXCEPT !.pc = p]
<1>6. c \in Calls /\ c.pc = p /\ c.left = call[r].left /\ c.left > 0 /\ Time(c)
  <2>1. c \in Calls
    BY <1>4, CallEdits DEF Places
  <2>2. QED
    BY <1>2, <1>4, <2>1 DEF Time, Calls
<1>7. call' = [call EXCEPT ![r] = c]
  BY <1>5
<1> HIDE DEF c
<1>8. /\ waiting' \subseteq Readers /\ pending' \subseteq Readers /\ blocked' \subseteq Readers
      /\ sleep' \in [Readers -> 0 .. MaxDelay] /\ suspended' = r /\ UNCHANGED pendedTicks
  <2>1. CASE Place(r)
    BY <1>2, <2>1 DEF Place, kernel, QueueInv, TypeOK
  <2>2. CASE Delay(r)
    <3>1. call[r].left \in 0 .. MaxDelay
      BY <1>4 DEF Calls
    <3>2. QED
      BY <1>2, <2>2, <3>1 DEF Delay, kernel, QueueInv, TypeOK
  <2>3. QED
    BY <2>1, <2>2
<1>9. /\ TypeOK' /\ NeverEarly' /\ \A s \in Readers : Time(call'[s])
      /\ \A s \in Readers : call'[s] = IF s = r THEN c ELSE call[s]
  BY <1>3, <1>6, <1>7, <1>8, InsideTypes
<1>10. Suspension'
  BY <1>2, <1>3, <1>6, <1>8, <1>9 DEF QueueInv, Suspension, Held, Locked
<1>11. Membership'
  <2>1. CASE Place(r)
    <3>1. waiting' = waiting \cup {r} /\ UNCHANGED <<pending, blocked>> /\ p = "delay"
      BY <1>4, <1>6, <1>9, <2>1 DEF Place, Goto, QueueInv, TypeOK, Calls
    <3>2. r \notin Lists
      BY <1>2, <2>1 DEF Place, At
    <3>3. Lists' = Lists \cup {r} /\ Lists \subseteq Readers
      BY <3>1 DEF Lists, QueueInv, TypeOK
    <3>4. QED
      BY <1>6, <1>9, <3>1, <3>2, <3>3 DEF QueueInv, Membership, Lists
  <2>2. CASE Delay(r)
    <3>1. blocked' = blocked \cup {r} /\ UNCHANGED <<pending, waiting>> /\ p = "unlock"
      BY <1>4, <1>6, <1>9, <2>2 DEF Delay, Goto, QueueInv, TypeOK, Calls
    <3>3. Lists' = Lists \cup {r} /\ Lists \subseteq Readers
      BY <3>1 DEF Lists, QueueInv, TypeOK
    <3>4. QED
      BY <1>6, <1>9, <3>1, <3>3 DEF QueueInv, Membership, Lists
  <2>3. QED
    BY <2>1, <2>2
<1>12. QED
  BY <1>9, <1>10, <1>11 DEF QueueInv

(* prvUnlockQueue moves readers from the event list to xPendingReadyList.   *)
LEMMA UnlockStep ==
  ASSUME QueueInv, NEW r \in Readers, Unlock(r)
  PROVE  QueueInv'
<1>1. At(r, "unlock") /\ "unlock" \in Places \cap Held
  BY DEF Unlock, Places, Held
<1>2. suspended = r /\ r # Nobody /\ call[r].pc = "unlock"
  BY <1>1, Place_of_running, QueueAssumption DEF Nobody
<1> DEFINE c == [call[r] EXCEPT !.pc = "resume"]
<1>3. c \in Calls /\ c.pc = "resume" /\ c.left = call[r].left /\ Time(c)
  <2>1. call[r] \in Calls
    BY DEF QueueInv, TypeOK, Calls
  <2>2. QED
    BY <1>2, <2>1, QueueAssumption DEF QueueInv, Calls, Places, Time
<1>4. /\ call' = [call EXCEPT ![r] = c] /\ cTxLock' = Unlocked
      /\ UNCHANGED <<messages, blocked, sleep, kernel, deleted, early>>
  BY DEF Unlock, Goto, QueueInv, TypeOK
<1> HIDE DEF c
<1>5. PICK W \in SUBSET waiting : waiting' = waiting \ W /\ pending' = pending \cup W
  BY DEF Unlock, Foremost
<1>6. /\ cTxLock' \in Unlocked .. messages
      /\ waiting' \subseteq Readers /\ pending' \subseteq Readers /\ blocked' \subseteq Readers
      /\ sleep' \in [Readers -> 0 .. MaxDelay] /\ suspended' = r /\ UNCHANGED pendedTicks
  BY <1>2, <1>4, <1>5, QueueAssumption DEF kernel, QueueInv, TypeOK, Unlocked
<1>7. /\ TypeOK' /\ NeverEarly' /\ \A s \in Readers : Time(call'[s])
      /\ \A s \in Readers : call'[s] = IF s = r THEN c ELSE call[s]
  BY <1>3, <1>4, <1>6, InsideTypes
<1>8. Suspension'
  BY <1>2, <1>3, <1>4, <1>6, <1>7 DEF QueueInv, Suspension, Held
<1>9. Membership'
  <2>1. Lists' = Lists /\ Lists \subseteq Readers
    BY <1>4, <1>5 DEF Lists, QueueInv, TypeOK
  <2>2. QED
    BY <1>2, <1>3, <1>4, <1>5, <1>7, <2>1 DEF QueueInv, Membership, Lists
<1>10. QED
  BY <1>7, <1>8, <1>9 DEF QueueInv

-----------------------------------------------------------------------------
(* The tick. What has passed is counted for every read with a timeout, and  *)
(* a reader whose time is over leaves both of its lists.                    *)

LEMMA LaterTime ==
  ASSUME NEW d \in Calls, Time(d), NEW n \in Nat
  PROVE  /\ Later(d, n) \in Calls /\ Time(Later(d, n))
         /\ Later(d, n).pc = d.pc /\ Later(d, n).left = d.left
<1>0. /\ MaxDelay \in Nat \ {0}
      /\ d.since \in 0 .. MaxDelay /\ d.age \in 0 .. MaxDelay
      /\ d.left \in 0 .. MaxDelay /\ d.asked \in 0 .. MaxDelay
  BY QueueAssumption DEF Calls
<1>1. CASE d.pc = "idle" \/ d.left = MaxDelay
  BY <1>1 DEF Later
<1>2. CASE ~(d.pc = "idle" \/ d.left = MaxDelay)
  <2> DEFINE e == [d EXCEPT !.since = AtMost(d.since + n)]
             f == [e EXCEPT !.age = AtMost(d.age + n)]
  <2>1. /\ AtMost(d.since + n) \in 0 .. MaxDelay /\ AtMost(d.age + n) \in 0 .. MaxDelay
        /\ AtMost(d.age + n) >= d.age
        /\ AtMost(d.age + n) = MaxDelay \/ AtMost(d.age + n) = d.age + n
        /\ AtMost(d.since + n) <= d.since + n
    BY <1>0 DEF AtMost
  <2>2. /\ e \in Calls /\ e.since = AtMost(d.since + n)
        /\ e.pc = d.pc /\ e.left = d.left /\ e.asked = d.asked
    BY <2>1 DEF Calls
  <2> HIDE DEF e
  <2>3. /\ f \in Calls /\ f.age = AtMost(d.age + n) /\ f.since = e.since
        /\ f.pc = d.pc /\ f.left = d.left /\ f.asked = d.asked
    BY <2>1, <2>2 DEF Calls
  <2>4. Later(d, n) = f
    BY <1>2 DEF Later, e
  <2> HIDE DEF f
  <2>5. Time(f)
    <3>1. f.left > 0 => f.age >= f.since + f.asked - f.left \/ f.age = MaxDelay
      BY <1>0, <2>1, <2>2, <2>3 DEF Time
    <3>2. f.left = 0 => f.age >= f.asked
      BY <1>0, <2>1, <2>2, <2>3 DEF Time
    <3>3. QED
      BY <1>0, <1>2, <2>2, <2>3, <3>1, <3>2 DEF Time
  <2>6. QED
    BY <2>3, <2>4, <2>5
<1>3. QED
  BY <1>1, <1>2

LEMMA TicksKeepLists ==
  ASSUME NEW S \in SUBSET Readers, NEW n, NEW c, Ticks(S, n, c)
  PROVE  \E X \in SUBSET S : blocked' = S \ X /\ waiting' = waiting \ X
<1>1. Expired(S, n) \in SUBSET S
  BY DEF Expired
<1>2. QED
  BY <1>1 DEF Ticks

LEMMA TicksKeepCalls ==
  ASSUME TypeOK, NEW S, NEW n \in Nat, NEW c \in [Readers -> Calls],
         \A r \in Readers : Time(c[r]), Ticks(S, n, c)
  PROVE  /\ sleep' \in [Readers -> 0 .. MaxDelay] /\ call' \in [Readers -> Calls]
         /\ \A r \in Readers : /\ Time(call'[r])
                              /\ call'[r].pc = c[r].pc /\ call'[r].left = c[r].left
<1>2. sleep' \in [Readers -> 0 .. MaxDelay]
  <2>1. \A r \in Readers : (IF sleep[r] > n THEN sleep[r] - n ELSE 0) \in 0 .. MaxDelay
    BY QueueAssumption DEF TypeOK
  <2>2. QED
    BY <2>1 DEF Ticks
<1>3. /\ call' = [r \in Readers |-> Later(c[r], n)]
      /\ \A r \in Readers : c[r] \in Calls
  BY DEF Ticks
<1>4. \A r \in Readers : /\ Later(c[r], n) \in Calls /\ Time(Later(c[r], n))
                        /\ Later(c[r], n).pc = c[r].pc /\ Later(c[r], n).left = c[r].left
  BY <1>3, LaterTime
<1>5. QED
  BY <1>2, <1>3, <1>4

LEMMA TickStep ==
  ASSUME QueueInv, Tick
  PROVE  QueueInv'
<1>0. /\ TypeOK /\ call \in [Readers -> Calls] /\ \A r \in Readers : Time(call[r])
      /\ blocked \in SUBSET Readers /\ 1 \in Nat
  BY DEF QueueInv, TypeOK, Calls
<1>1. CASE /\ suspended = Nobody /\ Ticks(blocked, 1, call)
           /\ UNCHANGED <<messages, cTxLock, pending, kernel, deleted, early>>
  <2>1. PICK X \in SUBSET blocked : blocked' = blocked \ X /\ waiting' = waiting \ X
    BY <1>0, <1>1, TicksKeepLists
  <2>2. /\ sleep' \in [Readers -> 0 .. MaxDelay] /\ call' \in [Readers -> Calls]
        /\ \A r \in Readers : /\ Time(call'[r])
                             /\ call'[r].pc = call[r].pc /\ call'[r].left = call[r].left
    BY <1>0, <1>1, TicksKeepCalls
  <2>3. TypeOK'
    BY <1>0, <1>1, <2>1, <2>2 DEF TypeOK, Calls, kernel
  <2>4. Suspension'
    BY <1>1, <2>2 DEF QueueInv, Suspension, kernel
  <2>5. Membership'
    <3>1. Lists' \subseteq Lists /\ Lists \subseteq Readers
      BY <1>0, <1>1, <2>1 DEF Lists, TypeOK
    <3>2. \A r \in waiting' : r \in blocked' \/ call'[r].pc = "delay"
      BY <1>0, <2>1, <2>2, <3>1 DEF QueueInv, Membership, Lists
    <3>3. QED
      BY <1>1, <2>1, <2>2, <3>1, <3>2 DEF QueueInv, Membership
  <2>6. QED
    BY <1>1, <2>2, <2>3, <2>4, <2>5 DEF QueueInv, NeverEarly
<1>2. CASE /\ suspended # Nobody /\ pendedTicks < MaxPended
           /\ pendedTicks' = pendedTicks + 1
           /\ UNCHANGED <<messages, cTxLock, lists, suspended, call, deleted, early>>
  <2>1. pendedTicks' \in 0 .. MaxPended
    BY <1>0, <1>2, QueueAssumption DEF TypeOK
  <2>2. QED
    BY <1>0, <1>2, <2>1
    DEF QueueInv, TypeOK, Suspension, Membership, Lists, lists, NeverEarly, Time
<1>3. QED
  BY <1>1, <1>2 DEF Tick

(* xTaskResumeAll readies what was woken meanwhile and makes up the ticks.  *)
LEMMA ResumeStep ==
  ASSUME QueueInv, NEW r \in Readers, Resume(r)
  PROVE  QueueInv'
<1>1. At(r, "resume") /\ "resume" \in Places \cap Held
  BY DEF Resume, Places, Held
<1>2. suspended = r /\ r # Nobody /\ call[r].pc = "resume" /\ cTxLock = Unlocked
  BY <1>1, Place_of_running, QueueAssumption DEF Nobody
<1> DEFINE p == IF call[r].left = 0 THEN "last" ELSE "check"
           c == [call EXCEPT ![r].pc = p]
           S == blocked \ pending
<1>3. /\ suspended' = Nobody /\ pending' = {} /\ pendedTicks' = 0
      /\ Ticks(S, pendedTicks, c) /\ UNCHANGED <<messages, cTxLock, deleted, early>>
  BY DEF Resume
<1>4. /\ TypeOK /\ call[r] \in Calls /\ call \in [Readers -> Calls]
      /\ S \in SUBSET Readers /\ pendedTicks \in Nat
  BY QueueAssumption DEF QueueInv, TypeOK, Calls
<1>5. p \in {"last", "check"} /\ p \in Places /\ (p = "last" <=> call[r].left = 0)
  BY DEF Places
<1>6. /\ c \in [Readers -> Calls]
      /\ c[r].pc = p /\ c[r].left = call[r].left
      /\ \A s \in Readers : s # r => c[s] = call[s]
  <2>1. [call[r] EXCEPT !.pc = p] \in Calls
    BY <1>4, <1>5, CallEdits
  <2>2. c = [call EXCEPT ![r] = [call[r] EXCEPT !.pc = p]]
    BY <1>4
  <2>3. [call[r] EXCEPT !.pc = p].pc = p /\ [call[r] EXCEPT !.pc = p].left = call[r].left
    BY <1>4 DEF Calls
  <2> HIDE DEF c, p
  <2>4. QED
    BY <1>4, <2>1, <2>2, <2>3
<1>7. \A s \in Readers : Time(c[s])
  <2>1. Time([call[r] EXCEPT !.pc = p])
    <3> HIDE DEF p
    <3>1. QED
      BY <1>4, <1>5 DEF QueueInv, Time, Calls
  <2>2. c[r] = [call[r] EXCEPT !.pc = p]
    BY <1>4
  <2> HIDE DEF c, p
  <2>3. QED
    BY <1>6, <2>1, <2>2 DEF QueueInv
<1> HIDE DEF c, p
<1>8. PICK X \in SUBSET S : blocked' = S \ X /\ waiting' = waiting \ X
  BY <1>3, <1>4, <1>6, <1>7, TicksKeepLists
<1>9. /\ sleep' \in [Readers -> 0 .. MaxDelay] /\ call' \in [Readers -> Calls]
      /\ \A s \in Readers : /\ Time(call'[s])
                           /\ call'[s].pc = c[s].pc /\ call'[s].left = c[s].left
  BY <1>3, <1>4, <1>6, <1>7, TicksKeepCalls
<1>10. TypeOK'
  BY <1>3, <1>4, <1>8, <1>9, QueueAssumption DEF TypeOK, Calls
<1>11. Suspension'
  <2>1. \A s \in Readers : call'[s].pc \notin Held /\ s # Nobody
    <3>1. SUFFICES ASSUME NEW s \in Readers PROVE call'[s].pc \notin Held /\ s # Nobody
      OBVIOUS
    <3>2. s # Nobody /\ call'[s].pc = c[s].pc
      BY <1>9, QueueAssumption DEF Nobody
    <3>3. CASE s = r
      BY <1>5, <1>6, <3>2, <3>3 DEF Held
    <3>4. CASE s # r
      BY <1>2, <1>6, <3>2, <3>4 DEF QueueInv, Suspension
    <3>5. QED
      BY <3>2, <3>3, <3>4
  <2>2. QED
    BY <1>2, <1>3, <2>1 DEF Suspension
<1>12. Membership'
  <2>1. Lists' \subseteq Lists /\ Lists \subseteq Readers
    BY <1>3, <1>4, <1>8 DEF Lists, TypeOK
  <2>2. \A s \in Lists' : call'[s].pc \in {"delay", "unlock", "resume", "check"} /\ call'[s].left > 0
    <3> SUFFICES ASSUME NEW s \in Lists'
                 PROVE  /\ call'[s].pc \in {"delay", "unlock", "resume", "check"}
                        /\ call'[s].left > 0
      OBVIOUS
    <3>1. /\ s \in Readers /\ call[s].left > 0
          /\ call[s].pc \in {"delay", "unlock", "resume", "check"}
      BY <2>1 DEF QueueInv, Membership
    <3>2. call'[s].pc = c[s].pc /\ call'[s].left = c[s].left
      BY <1>9, <3>1
    <3>3. CASE s = r
      <4>1. p = "check"
        BY <1>4, <1>5, <3>1, <3>3, QueueAssumption DEF Calls
      <4>2. QED
        BY <1>6, <3>1, <3>2, <3>3, <4>1
    <3>4. CASE s # r
      BY <1>6, <3>1, <3>2, <3>4
    <3>5. QED
      BY <3>3, <3>4
  <2>3. \A s \in waiting' : s \in blocked'
    <3>1. \A s \in waiting : s \in blocked /\ s \notin pending
      <4>1. \A s \in waiting : s \in Readers /\ call[s].pc # "delay"
        BY <1>2, <1>4 DEF QueueInv, Suspension, Held, TypeOK
      <4>2. QED
        BY <4>1 DEF QueueInv, Membership
    <3>2. QED
      BY <1>8, <3>1
  <2>4. QED
    BY <1>3, <2>2, <2>3 DEF Membership
<1>13. QED
  BY <1>3, <1>9, <1>10, <1>11, <1>12 DEF QueueInv, NeverEarly

-----------------------------------------------------------------------------
(* A post: a reader leaves the event list, or the lock count goes up.       *)
LEMMA GiveStep ==
  ASSUME QueueInv, Give
  PROVE  QueueInv'
<1>0. /\ TypeOK /\ messages \in Nat /\ Capacity \in Nat /\ messages' = messages + 1
      /\ messages < Capacity /\ UNCHANGED <<sleep, kernel, call, deleted, early>>
  BY QueueAssumption DEF Give, QueueInv, TypeOK
<1>1. PICK W \in SUBSET waiting :
        /\ waiting' = waiting \ W
        /\ \/ suspended = Nobody /\ blocked' = blocked \ W /\ UNCHANGED pending
           \/ suspended # Nobody /\ pending' = pending \cup W /\ UNCHANGED blocked
  <2>1. CASE cTxLock = Unlocked
    <3>1. Foremost(1) \in SUBSET waiting
      BY DEF Foremost
    <3>2. QED
      BY <2>1, <3>1 DEF Give
  <2>2. CASE cTxLock # Unlocked
    <3>1. suspended # Nobody
      BY <2>2 DEF QueueInv, Suspension
    <3>2. UNCHANGED <<waiting, pending, blocked>>
      BY <2>2 DEF Give
    <3>3. waiting' = waiting \ {} /\ pending' = pending \cup {}
      BY <3>2
    <3>4. QED
      BY <3>1, <3>2, <3>3
  <2>3. QED
    BY <2>1, <2>2
<1>2. cTxLock' \in Unlocked .. messages' /\ (cTxLock' # Unlocked => cTxLock # Unlocked)
  BY <1>0 DEF Give, TypeOK, Unlocked
<1>3. TypeOK'
  <2>1. messages' \in 0 .. Capacity
    BY <1>0
  <2>2. waiting' \subseteq Readers /\ pending' \subseteq Readers /\ blocked' \subseteq Readers
    BY <1>0, <1>1 DEF TypeOK
  <2>3. QED
    BY <1>0, <1>2, <2>1, <2>2 DEF TypeOK, kernel
<1>4. Suspension'
  BY <1>0, <1>1, <1>2 DEF QueueInv, Suspension, kernel
<1>5. Membership'
  <2>1. Lists' \subseteq Lists /\ Lists \subseteq Readers
    BY <1>0, <1>1 DEF Lists, TypeOK
  <2>2. \A s \in waiting' : s \in blocked' \/ call'[s].pc = "delay"
    BY <1>0, <1>1 DEF QueueInv, Membership
  <2>3. waiting' \cap pending' = {}
    BY <1>1 DEF QueueInv, Membership
  <2>4. QED
    BY <1>0, <2>1, <2>2, <2>3 DEF QueueInv, Membership
<1>6. QED
  BY <1>0, <1>3, <1>4, <1>5 DEF QueueInv, NeverEarly, Time

(* vTaskDelete takes the reader out of every list it may be in.             *)
LEMMA DeleteStep ==
  ASSUME QueueInv, NEW r \in Readers, Delete(r)
  PROVE  QueueInv'
<1>0. /\ TypeOK /\ suspended = Nobody /\ r # Nobody /\ call \in [Readers -> Calls]
      /\ call' = [call EXCEPT ![r] = Idle]
      /\ waiting' = waiting \ {r} /\ blocked' = blocked \ {r}
      /\ deleted' = deleted \cup {r}
      /\ UNCHANGED <<messages, cTxLock, pending, sleep, kernel, early>>
  BY QueueAssumption DEF Delete, Return, QueueInv, TypeOK, Nobody, Calls
<1>1. call' \in [Readers -> Calls] /\ \A s \in Readers : call'[s] = IF s = r THEN Idle ELSE call[s]
  BY <1>0, IdleTyped
<1>2. TypeOK'
  BY <1>0, <1>1 DEF TypeOK, kernel, Calls
<1>3. Suspension'
  <2>1. Idle.pc \notin Held
    BY DEF Idle, Held
  <2>2. QED
    BY <1>0, <1>1, <2>1 DEF QueueInv, Suspension, kernel
<1>4. Membership'
  <2>1. pending = {}
    BY <1>0 DEF QueueInv, Suspension
  <2>2. Lists' = Lists \ {r} /\ Lists \subseteq Readers
    BY <1>0, <2>1 DEF Lists, TypeOK
  <2>3. QED
    BY <1>0, <1>1, <2>1, <2>2 DEF QueueInv, Membership, Lists
<1>5. \A s \in Readers : Time(call'[s])
  BY <1>1, IdleTyped DEF QueueInv
<1>6. QED
  BY <1>0, <1>2, <1>3, <1>4, <1>5 DEF QueueInv, NeverEarly

LEMMA QueueInitially == Init => QueueInv
<1> SUFFICES ASSUME Init PROVE QueueInv
  OBVIOUS
<1>1. \A r \in Readers : call[r] = Idle
  BY DEF Init
<1>2. TypeOK
  <2>1. /\ messages \in 0 .. Capacity /\ cTxLock \in Unlocked .. messages
        /\ sleep \in [Readers -> 0 .. MaxDelay] /\ pendedTicks \in 0 .. MaxPended
    BY QueueAssumption DEF Init, Unlocked
  <2>2. call \in [Readers -> Calls]
    BY IdleTyped DEF Init
  <2>3. QED
    BY <2>1, <2>2 DEF Init, TypeOK, Calls
<1>3. Suspension
  <2>1. Idle.pc \notin Held
    BY DEF Idle, Held
  <2>2. QED
    BY <1>1, <2>1, QueueAssumption DEF Init, Suspension, Nobody
<1>4. Membership
  BY DEF Init, Membership, Lists
<1>5. QED
  BY <1>1, <1>2, <1>3, <1>4, IdleTyped DEF Init, QueueInv, NeverEarly

(* The inductive invariant: who suspends the scheduler and locks the queue, *)
(* which list a sleeping reader is in, and what is left of its time.        *)
THEOREM QueueInvariance == Spec => []QueueInv
<1>1. QueueInv /\ [Next]_vars => QueueInv'
  <2> SUFFICES ASSUME QueueInv, [Next]_vars PROVE QueueInv'
    OBVIOUS
  <2>1. ASSUME NEW r \in Readers, Step(r) PROVE QueueInv'
    BY <2>1, CheckStep, SuspendAllStep, BeforeStep, SleepStep, UnlockStep, ResumeStep, LastStep
    DEF Step
  <2>2. CASE Next
    BY <2>1, <2>2, GiveStep, TickStep, DeleteStep, CallStep DEF Next
  <2>3. CASE UNCHANGED vars
    BY <2>3 DEF vars, lists, kernel, QueueInv, TypeOK, Suspension, Membership, Lists, NeverEarly, Time
  <2>4. QED
    BY <2>2, <2>3
<1>2. QED
  BY <1>1, QueueInitially, PTL DEF Spec

(* Types; the lock count never exceeds the messages (prvUnlockQueue).       *)
THEOREM QueueTypes == Spec => []TypeOK
<1>1. QueueInv => TypeOK
  BY DEF QueueInv
<1>2. QED
  BY QueueInvariance, <1>1, PTL

(* While the scheduler runs, only blocked readers are on the event list,    *)
(* nobody is left in xPendingReadyList and the queue is not locked, for any *)
(* number of readers (xTaskIncrementTick, xTaskResumeAll, vTaskDelete).     *)
THEOREM WaitersAreBlocked == Spec => []WaitersBlocked
<1>1. QueueInv => WaitersBlocked
  <2> SUFFICES ASSUME QueueInv, suspended = Nobody
               PROVE  waiting \subseteq blocked /\ pending = {} /\ cTxLock = Unlocked
    BY DEF WaitersBlocked
  <2>1. \A r \in Readers : call[r].pc # "delay"
    BY QueueAssumption DEF QueueInv, Suspension, Held, Nobody
  <2>2. QED
    BY <2>1 DEF QueueInv, TypeOK, Membership, Suspension
<1>2. QED
  BY QueueInvariance, <1>1, PTL

(* No read gives up before its time, for any timeouts (xTaskCheckForTimeOut *)
(* takes what has passed from what is left after each wake-up).             *)
THEOREM NoReadEndsEarly == Spec => []NeverEarly
<1>1. QueueInv => NeverEarly
  BY DEF QueueInv
<1>2. QED
  BY QueueInvariance, <1>1, PTL

-----------------------------------------------------------------------------
(* No wake-up is lost.                                                      *)

(* Unless all who wait are woken, prvUnlockQueue wakes as many readers as   *)
(* messages were counted: of those it leaves, take the foremost; all in     *)
(* front of it were woken, and they are at least n.                         *)
LEMMA ForemostEnough ==
  ASSUME waiting \subseteq Readers, NEW n \in Nat, waiting \ Foremost(n) # {}
  PROVE  Cardinality(Foremost(n)) >= n
<1> DEFINE Front(r) == {h \in waiting : h > r}
           Fronts == {Front(r) : r \in waiting \ Foremost(n)}
<1>1. IsFiniteSet(waiting) /\ waiting \subseteq Nat
  BY QueueAssumption, FS_Subset
<1>2. FiniteSubsetsOf(waiting) = SUBSET waiting
  BY <1>1, FS_FiniteSubsetsOfFinite
<1>3. Fronts \subseteq FiniteSubsetsOf(waiting) /\ Fronts # {}
  <2>1. Fronts \subseteq SUBSET waiting
    OBVIOUS
  <2>2. Fronts # {}
    OBVIOUS
  <2> HIDE DEF Fronts
  <2>3. QED
    BY <1>2, <2>1, <2>2
<1>4. PICK F \in Fronts : \A G \in Fronts : ~(<<G, F>> \in StrictSubsetOrdering(waiting))
  <2> HIDE DEF Fronts
  <2>1. QED
    BY <1>3, FS_StrictSubsetOrderingWellFounded, WFMin
<1>5. PICK r \in waiting \ Foremost(n) : F = Front(r)
  BY DEF Fronts
<1>6. Front(r) \subseteq Foremost(n)
  <2> SUFFICES ASSUME NEW h \in waiting, h > r, h \notin Foremost(n) PROVE FALSE
    OBVIOUS
  <2>1. Front(h) \in Fronts /\ Front(h) \in SUBSET waiting /\ Front(r) \in SUBSET waiting
    OBVIOUS
  <2>2. Front(h) \subseteq Front(r) /\ h \in Front(r) /\ h \notin Front(h)
    <3>1. r \in Nat /\ h \in Nat /\ \A x \in waiting : x \in Nat
      BY <1>1, <1>5
    <3>2. \A x \in Front(h) : x \in Front(r)
      BY <3>1
    <3>3. h \in Front(r) /\ h \notin Front(h)
      BY <3>1
    <3>4. QED
      BY <3>2, <3>3
  <2> HIDE DEF Front, Fronts
  <2>3. <<Front(h), Front(r)>> \in StrictSubsetOrdering(waiting)
    BY <2>1, <2>2 DEF StrictSubsetOrdering
  <2>4. QED
    BY <1>4, <1>5, <2>1, <2>3
<1>7. ~(Cardinality(Front(r)) < n)
  BY <1>5 DEF Foremost
<1>8. IsFiniteSet(Foremost(n)) /\ Cardinality(Front(r)) <= Cardinality(Foremost(n))
  <2>1. Foremost(n) \subseteq waiting
    BY DEF Foremost
  <2>2. IsFiniteSet(Foremost(n))
    BY <1>1, <2>1, FS_Subset
  <2> HIDE DEF Front
  <2>3. QED
    BY <1>6, <2>2, FS_Subset
<1>9. Cardinality(Foremost(n)) \in Nat /\ Cardinality(Front(r)) \in Nat
  <2>1. IsFiniteSet(Front(r))
    BY <1>1, FS_Subset
  <2> HIDE DEF Front
  <2>2. QED
    BY <1>8, <2>1, FS_CardinalityType
<1> HIDE DEF Front
<1>10. QED
  BY <1>7, <1>8, <1>9

Ahead == IF cTxLock = Unlocked THEN 0 ELSE cTxLock

Enough == messages <= Cardinality(WillLook) + Ahead

(* Besides NoLostWakeup: enough will look also when a reader is about to    *)
(* enter the event list, and the queue stays locked until prvUnlockQueue.   *)
WakeupInv ==
  /\ QueueInv
  /\ suspended # Nobody /\ call[suspended].pc \in Locked => cTxLock # Unlocked
  /\ waiting # {} \/ (\E r \in Readers : call[r].pc \in {"place", "delay"}) => Enough

Counted ==
  /\ WillLook \subseteq Readers /\ IsFiniteSet(WillLook) /\ Cardinality(WillLook) \in Nat
  /\ Ahead \in Nat /\ messages \in Nat

LEMMA Counts == TypeOK => Counted
<1> SUFFICES ASSUME TypeOK PROVE Counted
  OBVIOUS
<1>1. WillLook \subseteq Readers
  BY DEF WillLook, TypeOK
<1>2. IsFiniteSet(WillLook)
  BY <1>1, QueueAssumption, FS_Subset
<1>3. Ahead \in Nat /\ messages \in Nat
  BY QueueAssumption DEF TypeOK, Ahead, Unlocked
<1>4. QED
  BY <1>1, <1>2, <1>3, FS_CardinalityType DEF Counted

(* Nobody stops to look and no message comes.                               *)
LEMMA EnoughStays ==
  ASSUME TypeOK, TypeOK', Enough, WillLook \subseteq WillLook', Ahead <= Ahead',
         messages' <= messages
  PROVE  Enough'
<1>1. /\ Cardinality(WillLook) \in Nat /\ Ahead \in Nat /\ messages \in Nat
  BY Counts DEF Counted
<1>2. /\ IsFiniteSet(WillLook') /\ Cardinality(WillLook') \in Nat
      /\ Ahead' \in Nat /\ messages' \in Nat
  <2>1. TypeOK' => Counted'
    BY Counts, PTL
  <2>2. QED
    BY <2>1 DEF Counted
<1>3. Cardinality(WillLook) <= Cardinality(WillLook')
  BY <1>2, FS_Subset
<1>4. QED
  BY <1>1, <1>2, <1>3 DEF Enough

(* More who look make up for the messages that are no longer ahead, or new. *)
LEMMA EnoughMoves ==
  ASSUME TypeOK, TypeOK', Enough, NEW W \in SUBSET Readers, W \cap WillLook = {},
         WillLook \cup W \subseteq WillLook', NEW n \in Nat, Cardinality(W) >= n,
         messages' + Ahead <= messages + Ahead' + n
  PROVE  Enough'
<1>1. /\ IsFiniteSet(WillLook) /\ Cardinality(WillLook) \in Nat /\ Ahead \in Nat /\ messages \in Nat
  BY Counts DEF Counted
<1>2. /\ IsFiniteSet(WillLook') /\ Cardinality(WillLook') \in Nat
      /\ Ahead' \in Nat /\ messages' \in Nat
  <2>1. TypeOK' => Counted'
    BY Counts, PTL
  <2>2. QED
    BY <2>1 DEF Counted
<1>3. IsFiniteSet(W) /\ Cardinality(W) \in Nat
  BY QueueAssumption, FS_Subset, FS_CardinalityType
<1>4. Cardinality(WillLook \cup W) = Cardinality(WillLook) + Cardinality(W)
  <2>1. Cardinality(WillLook \cap W) = 0
    BY FS_EmptySet
  <2>2. Cardinality(WillLook \cup W) = Cardinality(WillLook) + Cardinality(W) - Cardinality(WillLook \cap W)
    BY <1>1, <1>3, FS_Union
  <2>3. QED
    BY <1>1, <1>3, <2>1, <2>2
<1>5. Cardinality(WillLook \cup W) <= Cardinality(WillLook')
  BY <1>2, FS_Subset
<1>6. QED
  <2>1. messages <= Cardinality(WillLook) + Ahead
    BY DEF Enough
  <2>2. Cardinality(WillLook) + Cardinality(W) <= Cardinality(WillLook')
    BY <1>4, <1>5
  <2>3. messages' <= Cardinality(WillLook') + Ahead'
    <3>0. messages' + Ahead <= messages + Ahead' + n
      OBVIOUS
    <3>1. messages' <= Cardinality(WillLook) + Ahead' + n
      <4> DEFINE m == messages  m1 == messages'  a == Ahead  a1 == Ahead'
                 l == Cardinality(WillLook)
      <4>1. m \in Nat /\ m1 \in Nat /\ a \in Nat /\ a1 \in Nat /\ l \in Nat /\ n \in Nat
        BY <1>1, <1>2
      <4>2. m1 + a <= m + a1 + n /\ m <= l + a
        BY <2>1, <3>0
      <4> HIDE DEF m, m1, a, a1, l
      <4>3. m1 <= l + a1 + n
        BY <4>1, <4>2
      <4>4. QED
        BY <4>3 DEF m1, a1, l
    <3>2. Cardinality(WillLook) + n <= Cardinality(WillLook')
      BY <1>1, <1>2, <1>3, <2>2
    <3>3. QED
      BY <1>1, <1>2, <3>1, <3>2
  <2>4. QED
    BY <2>3 DEF Enough

LEMMA EnoughWhenEmpty ==
  ASSUME TypeOK', messages' = 0
  PROVE  Enough'
<1>1. TypeOK' => Counted'
  BY Counts, PTL
<1>2. Cardinality(WillLook') \in Nat /\ Ahead' \in Nat
  BY <1>1 DEF Counted
<1>3. QED
  BY <1>2 DEF Enough

(* One message less, and one reader that looks no more.                     *)
LEMMA EnoughWhenTaken ==
  ASSUME TypeOK, TypeOK', Enough, NEW r \in WillLook, WillLook \ {r} \subseteq WillLook',
         Ahead' = Ahead, messages' = messages - 1
  PROVE  Enough'
<1>1. /\ IsFiniteSet(WillLook) /\ Cardinality(WillLook) \in Nat /\ Ahead \in Nat /\ messages \in Nat
  BY Counts DEF Counted
<1>2. IsFiniteSet(WillLook') /\ Cardinality(WillLook') \in Nat
  <2>1. TypeOK' => Counted'
    BY Counts, PTL
  <2>2. QED
    BY <2>1 DEF Counted
<1>3. Cardinality(WillLook \ {r}) = Cardinality(WillLook) - 1
  BY <1>1, FS_RemoveElement
<1>4. Cardinality(WillLook \ {r}) <= Cardinality(WillLook')
  BY <1>2, FS_Subset
<1>5. messages <= Cardinality(WillLook) + Ahead
  BY DEF Enough
<1>6. messages' <= Cardinality(WillLook') + Ahead'
  BY <1>1, <1>2, <1>3, <1>4, <1>5
<1>7. QED
  BY <1>6 DEF Enough

LEMMA CallWakeup ==
  ASSUME WakeupInv, NEW r \in Readers, NEW n \in Timeouts, Call(r, n)
  PROVE  WakeupInv'
<1>1. At(r, "idle") /\ "idle" \in Places \ Held /\ QueueInv
  BY DEF Call, Places, Held, WakeupInv
<1>2. QueueInv' /\ suspended = Nobody /\ TypeOK /\ TypeOK' /\ call[r].pc = "idle"
  <2>1. QueueInv'
    BY <1>1, CallStep
  <2>2. suspended = Nobody /\ call[r].pc = "idle"
    BY <1>1, Place_of_running
  <2>3. QED
    BY <1>1, <2>1, <2>2 DEF QueueInv
<1>3. /\ UNCHANGED <<messages, cTxLock, lists, kernel>>
      /\ \A s \in Readers : s # r => call'[s] = call[s]
      /\ call'[r].pc = "check"
  BY <1>2 DEF Call, TypeOK
<1>4. WillLook \subseteq WillLook'
  BY <1>2, <1>3 DEF WillLook, lists
<1>5. Ahead' = Ahead /\ Ahead \in Nat /\ messages \in Nat
  BY <1>2, <1>3, Counts DEF Ahead, Counted
<1>6. ~\E s \in Readers : call'[s].pc \in {"place", "delay"}
  BY <1>2, <1>3, QueueAssumption DEF QueueInv, Suspension, Held, kernel, Nobody
<1>7. waiting' # {} => Enough'
  <2> SUFFICES ASSUME waiting' # {} PROVE Enough'
    OBVIOUS
  <2>1. Enough
    BY <1>3 DEF WakeupInv, lists
  <2>2. QED
    BY <1>2, <1>3, <1>4, <1>5, <2>1, EnoughStays
<1>8. QED
  BY <1>2, <1>3, <1>6, <1>7 DEF WakeupInv, kernel

LEMMA CheckWakeup ==
  ASSUME WakeupInv, NEW r \in Readers, Check(r) \/ Last(r)
  PROVE  WakeupInv'
<1>1. PICK p \in {"check", "last"} : At(r, p)
  BY DEF Check, Last
<1>2. /\ QueueInv /\ QueueInv' /\ suspended = Nobody /\ TypeOK /\ TypeOK'
      /\ r \notin Lists /\ call[r].pc \in {"check", "last"}
  <2>1. QueueInv /\ p \in Places /\ p \notin Held
    BY DEF Places, Held, WakeupInv
  <2>2. QueueInv'
    BY <2>1, CheckStep, LastStep
  <2>3. suspended = Nobody /\ r \notin Lists /\ call[r].pc = p
    BY <1>1, <2>1, Place_of_running
  <2>4. QED
    BY <2>1, <2>2, <2>3 DEF QueueInv
<1>3. /\ UNCHANGED <<cTxLock, lists, kernel>>
      /\ \A s \in Readers : s # r => call'[s] = call[s]
      /\ \/ messages' = messages - 1
         \/ messages' = 0
         \/ messages' = messages /\ call'[r].pc \in {"suspend", "check"}
  BY <1>2 DEF Check, Last, GiveUp, Return, Goto, TypeOK
<1>4. r \in WillLook /\ WillLook \ {r} \subseteq WillLook'
  BY <1>2, <1>3 DEF WillLook, lists, Lists
<1>5. Ahead' = Ahead /\ Ahead \in Nat /\ messages \in Nat
  BY <1>2, <1>3, Counts DEF Ahead, Counted
<1>6. ~\E s \in Readers : call'[s].pc \in {"place", "delay"}
  <2>1. suspended' = Nobody
    BY <1>2, <1>3 DEF kernel
  <2>2. QED
    BY <1>2, <2>1, QueueAssumption DEF QueueInv, Suspension, Held, Nobody
<1>7. waiting' # {} => Enough'
  <2> SUFFICES ASSUME waiting' # {} PROVE Enough'
    OBVIOUS
  <2>1. Enough
    BY <1>3 DEF WakeupInv, lists
  <2>2. CASE messages' = messages - 1
    BY <1>2, <1>4, <1>5, <2>1, <2>2, EnoughWhenTaken
  <2>3. CASE messages' = 0
    BY <1>2, <2>3, EnoughWhenEmpty
  <2>4. CASE messages' = messages /\ call'[r].pc \in {"suspend", "check"}
    <3>1. WillLook \subseteq WillLook'
      BY <1>2, <1>3, <1>4, <2>4 DEF WillLook, lists, Lists
    <3>2. QED
      BY <1>2, <1>5, <2>1, <2>4, <3>1, EnoughStays
  <2>5. QED
    BY <1>3, <2>2, <2>3, <2>4
<1>8. QED
  BY <1>2, <1>3, <1>6, <1>7 DEF WakeupInv, kernel

LEMMA SuspendAllWakeup ==
  ASSUME WakeupInv, NEW r \in Readers, SuspendAll(r)
  PROVE  WakeupInv'
<1>1. /\ QueueInv /\ QueueInv' /\ TypeOK /\ TypeOK' /\ call[r].pc = "suspend"
  BY SuspendAllStep DEF WakeupInv, QueueInv, SuspendAll, At
<1>2. /\ UNCHANGED <<messages, cTxLock, lists>> /\ suspended' = r
      /\ \A s \in Readers : s # r => call'[s] = call[s]
      /\ call'[r].pc = "lock"
  BY <1>1 DEF SuspendAll, Goto, TypeOK
<1>3. WillLook \subseteq WillLook'
  BY <1>1, <1>2 DEF WillLook, lists
<1>4. Ahead' = Ahead /\ Ahead \in Nat /\ messages \in Nat
  BY <1>1, <1>2, Counts DEF Ahead, Counted
<1>5. \A s \in Readers : call'[s].pc \in {"place", "delay"} => call[s].pc \in {"place", "delay"}
  BY <1>2
<1>6. waiting' # {} \/ (\E s \in Readers : call'[s].pc \in {"place", "delay"}) => Enough'
  <2> SUFFICES ASSUME waiting' # {} \/ (\E s \in Readers : call'[s].pc \in {"place", "delay"}) PROVE Enough'
    OBVIOUS
  <2>1. Enough
    BY <1>2, <1>5 DEF WakeupInv, lists
  <2>2. QED
    BY <1>1, <1>2, <1>3, <1>4, <2>1, EnoughStays
<1>7. QED
  BY <1>1, <1>2, <1>6 DEF WakeupInv, Locked

(* A reader goes on to the event list only if there is no message.          *)
LEMMA BeforeWakeup ==
  ASSUME WakeupInv, NEW r \in Readers, Lock(r) \/ CheckForTimeOut(r) \/ IsEmpty(r)
  PROVE  WakeupInv'
<1>1. PICK p \in {"lock", "timeout", "empty"} : At(r, p)
  BY DEF Lock, CheckForTimeOut, IsEmpty
<1>2. /\ QueueInv /\ QueueInv' /\ suspended = r /\ TypeOK /\ TypeOK' /\ r # Nobody
      /\ r \notin Lists /\ call[r].pc \in {"lock", "timeout", "empty"}
  <2>1. QueueInv /\ p \in Places /\ p \in Held
    BY DEF Places, Held, WakeupInv
  <2>2. QueueInv'
    BY <2>1, BeforeStep
  <2>3. suspended = r /\ r \notin Lists /\ call[r].pc = p
    BY <1>1, <2>1, Place_of_running
  <2>4. QED
    BY <2>1, <2>2, <2>3, QueueAssumption DEF QueueInv, Nobody
<1>3. /\ UNCHANGED <<messages, lists, kernel>>
      /\ \A s \in Readers : s # r => call'[s] = call[s]
      /\ \/ call'[r].pc \in {"timeout", "empty", "unlock"}
         \/ call'[r].pc = "place" /\ messages = 0
  <2>1. \/ call'[r].pc \in {"timeout", "empty", "unlock"}
        \/ call'[r].pc = "place" /\ messages = 0
    <3>1. CASE Lock(r)
      BY <1>2, <3>1 DEF Lock, Goto, TypeOK
    <3>2. CASE IsEmpty(r)
      BY <1>2, <3>2 DEF IsEmpty, Goto, TypeOK
    <3>3. CASE CheckForTimeOut(r)
      BY <1>2, <3>3 DEF CheckForTimeOut, TypeOK
    <3>4. QED
      BY <3>1, <3>2, <3>3
  <2>2. QED
    BY <1>2, <2>1 DEF Lock, CheckForTimeOut, IsEmpty, Goto, TypeOK
<1>4. cTxLock' # Unlocked /\ Ahead' = Ahead /\ Ahead \in Nat /\ messages \in Nat
  <2>1. Ahead \in Nat /\ messages \in Nat
    BY <1>2, Counts DEF Counted
  <2>2. CASE Lock(r)
    <3>1. cTxLock = Unlocked
      BY <1>2, <2>2, Place_of_running DEF Lock, Places
    <3>2. cTxLock' = 0
      BY <2>2, <3>1 DEF Lock
    <3>3. QED
      BY <2>1, <3>1, <3>2 DEF Ahead, Unlocked
  <2>3. CASE CheckForTimeOut(r) \/ IsEmpty(r)
    <3>1. call[suspended].pc \in Locked
      BY <1>2, <2>3 DEF CheckForTimeOut, IsEmpty, At, Locked
    <3>2. QED
      BY <1>2, <2>1, <2>3, <3>1 DEF CheckForTimeOut, IsEmpty, Ahead, WakeupInv
  <2>4. QED
    BY <2>2, <2>3
<1>5. waiting' # {} \/ (\E s \in Readers : call'[s].pc \in {"place", "delay"}) => Enough'
  <2> SUFFICES ASSUME waiting' # {} \/ (\E s \in Readers : call'[s].pc \in {"place", "delay"}) PROVE Enough'
    OBVIOUS
  <2>1. CASE messages = 0
    BY <1>2, <1>3, <2>1, EnoughWhenEmpty
  <2>2. CASE messages # 0
    <3>1. call'[r].pc \in {"timeout", "empty", "unlock"}
      BY <1>3, <2>2
    <3>2. waiting # {} \/ \E s \in Readers : call[s].pc \in {"place", "delay"}
      BY <1>3, <3>1 DEF lists
    <3>3. WillLook \subseteq WillLook'
      BY <1>2, <1>3, <3>1 DEF WillLook, lists, Lists
    <3>4. QED
      BY <1>2, <1>3, <1>4, <3>2, <3>3, EnoughStays DEF WakeupInv
  <2>3. QED
    BY <2>1, <2>2
<1>6. QED
  BY <1>2, <1>4, <1>5 DEF WakeupInv

LEMMA SleepWakeup ==
  ASSUME WakeupInv, NEW r \in Readers, Place(r) \/ Delay(r)
  PROVE  WakeupInv'
<1>1. PICK p \in {"place", "delay"} : At(r, p)
  BY DEF Place, Delay
<1>2. /\ QueueInv /\ QueueInv' /\ suspended = r /\ TypeOK /\ TypeOK' /\ r # Nobody
      /\ call[r].pc = p
  <2>1. QueueInv /\ p \in Places /\ p \in Held
    BY DEF Places, Held, WakeupInv
  <2>2. QueueInv'
    BY <2>1, SleepStep
  <2>3. suspended = r /\ call[r].pc = p
    BY <1>1, <2>1, Place_of_running
  <2>4. QED
    BY <2>1, <2>2, <2>3, QueueAssumption DEF QueueInv, Nobody
<1>3. /\ UNCHANGED <<messages, cTxLock, pending, kernel>>
      /\ \A s \in Readers : s # r => call'[s] = call[s]
  BY <1>2 DEF Place, Delay, Goto, TypeOK
<1>4. cTxLock # Unlocked /\ Ahead' = Ahead /\ Ahead \in Nat /\ messages \in Nat
  BY <1>2, <1>3, Counts DEF WakeupInv, Locked, Ahead, Counted
<1>5. Enough /\ WillLook \subseteq WillLook'
  <2>1. CASE Place(r)
    <3>1. call[r].pc = "place" /\ call'[r].pc = "delay" /\ waiting' = waiting \cup {r}
          /\ blocked' = blocked
      BY <1>2, <2>1 DEF Place, At, Goto, TypeOK
    <3>2. Enough
      BY <3>1 DEF WakeupInv
    <3>3. QED
      BY <1>3, <3>1, <3>2 DEF WillLook
  <2>2. CASE Delay(r)
    <3>1. call[r].pc = "delay" /\ blocked' = blocked \cup {r} /\ waiting' = waiting
      BY <1>2, <2>2 DEF Delay, At
    <3>2. WillLook \subseteq WillLook'
      BY <1>3, <3>1 DEF WillLook
    <3>3. Enough
      BY <3>1 DEF WakeupInv
    <3>4. QED
      BY <3>2, <3>3
  <2>3. QED
    BY <2>1, <2>2
<1>6. QED
  BY <1>2, <1>3, <1>4, <1>5, EnoughStays DEF WakeupInv, kernel

(* Of the messages that were counted, each one has woken a reader, unless   *)
(* all that waited are awake.                                               *)
LEMMA UnlockWakeup ==
  ASSUME WakeupInv, NEW r \in Readers, Unlock(r)
  PROVE  WakeupInv'
<1>1. /\ QueueInv /\ QueueInv' /\ suspended = r /\ TypeOK /\ TypeOK' /\ r # Nobody
      /\ call[r].pc = "unlock"
  <2>1. QueueInv /\ At(r, "unlock") /\ "unlock" \in Places /\ "unlock" \in Held
    BY DEF Unlock, Places, Held, WakeupInv
  <2>2. QueueInv'
    BY <2>1, UnlockStep
  <2>3. suspended = r /\ call[r].pc = "unlock"
    BY <2>1, Place_of_running
  <2>4. QED
    BY <2>1, <2>2, <2>3, QueueAssumption DEF QueueInv, Nobody
<1> DEFINE W == Foremost(cTxLock)
<1>2. /\ UNCHANGED <<messages, blocked, kernel>> /\ cTxLock' = Unlocked
      /\ waiting' = waiting \ W /\ pending' = pending \cup W
      /\ \A s \in Readers : s # r => call'[s] = call[s]
      /\ call'[r].pc = "resume"
  BY <1>1 DEF Unlock, Goto, TypeOK
<1>3. cTxLock # Unlocked
  BY <1>1 DEF WakeupInv, Locked
<1>4. cTxLock \in Nat /\ Ahead = cTxLock /\ Ahead' = 0 /\ messages \in Nat
  BY <1>1, <1>2, <1>3, Counts DEF Ahead, Counted
<1>5. W \in SUBSET Readers /\ W \subseteq waiting
  BY <1>1 DEF Foremost, TypeOK
<1> HIDE DEF W
<1>6. W \cap WillLook = {}
  <2>1. \A s \in waiting : s \in Readers /\ s \notin pending /\ (s \in blocked \/ call[s].pc = "delay")
    BY <1>1 DEF QueueInv, Membership, TypeOK
  <2>2. \A s \in waiting : s \notin WillLook
    BY <2>1 DEF WillLook
  <2>3. QED
    BY <1>5, <2>2
<1>7. WillLook \cup W \subseteq WillLook'
  BY <1>1, <1>2, <1>5 DEF WillLook
<1>8. ~\E s \in Readers : call'[s].pc \in {"place", "delay"}
  BY <1>1, <1>2 DEF QueueInv, Suspension, Held
<1>9. waiting' # {} => Enough'
  <2> SUFFICES ASSUME waiting' # {} PROVE Enough'
    OBVIOUS
  <2>1. Cardinality(W) >= cTxLock
    <3>1. waiting \subseteq Readers /\ waiting \ Foremost(cTxLock) # {}
      BY <1>1, <1>2 DEF TypeOK, W
    <3>2. QED
      BY <1>4, <3>1, ForemostEnough DEF W
  <2>2. Enough
    BY <1>2 DEF WakeupInv
  <2>3. messages' + Ahead <= messages + Ahead' + cTxLock
    BY <1>2, <1>4
  <2>4. QED
    BY <1>1, <1>4, <1>5, <1>6, <1>7, <2>1, <2>2, <2>3, EnoughMoves
<1>10. QED
  BY <1>1, <1>2, <1>8, <1>9 DEF WakeupInv, kernel, Locked

(* Whoever was pending or ran out of time is awake and looks.               *)
LEMMA ResumeWakeup ==
  ASSUME WakeupInv, NEW r \in Readers, Resume(r)
  PROVE  WakeupInv'
<1>1. /\ QueueInv /\ QueueInv' /\ suspended = r /\ TypeOK /\ TypeOK' /\ r # Nobody
      /\ call[r].pc = "resume" /\ call \in [Readers -> Calls]
  <2>1. QueueInv /\ At(r, "resume") /\ "resume" \in Places /\ "resume" \in Held
    BY DEF Resume, Places, Held, WakeupInv
  <2>2. QueueInv'
    BY <2>1, ResumeStep
  <2>3. suspended = r /\ call[r].pc = "resume"
    BY <2>1, Place_of_running
  <2>4. QED
    BY <2>1, <2>2, <2>3, QueueAssumption DEF QueueInv, Nobody, TypeOK, Calls
<1> DEFINE p == IF call[r].left = 0 THEN "last" ELSE "check"
           c == [call EXCEPT ![r].pc = p]
<1>2. /\ suspended' = Nobody /\ UNCHANGED <<messages, cTxLock>>
      /\ Ticks(blocked \ pending, pendedTicks, c)
  BY DEF Resume
<1>3. blocked' \subseteq blocked \ pending /\ waiting' \subseteq waiting
  BY <1>2 DEF Ticks
<1>4. \A s \in Readers : call'[s].pc = IF s = r THEN p ELSE call[s].pc
  <2>1. \A s \in Readers : c[s].pc = IF s = r THEN p ELSE call[s].pc
    BY <1>1 DEF Calls
  <2>2. \A s \in Readers : call'[s] = Later(c[s], pendedTicks)
    BY <1>2 DEF Ticks
  <2> HIDE DEF c, p
  <2>3. \A s \in Readers : Later(c[s], pendedTicks).pc = c[s].pc
    BY DEF Later
  <2>4. QED
    BY <2>1, <2>2, <2>3
<1>5. p \in {"last", "check"}
  OBVIOUS
<1> HIDE DEF c, p
<1>6. \A s \in Readers : s # r => call[s].pc \notin Held
  BY <1>1 DEF QueueInv, Suspension
<1>7. WillLook \subseteq WillLook'
  <2> SUFFICES ASSUME NEW s \in WillLook PROVE s \in WillLook'
    OBVIOUS
  <2>1. s \in Readers
    BY <1>1 DEF WillLook, TypeOK
  <2>2. s \notin blocked'
    BY <1>1, <1>3, <1>6 DEF WillLook, Held
  <2>3. call'[s].pc \in {"check", "suspend", "last"}
    <3>1. CASE s = r
      BY <1>4, <1>5, <2>1, <3>1
    <3>2. CASE s # r
      <4>1. s \in pending => call[s].pc = "check"
        BY <1>6, <2>1, <3>2 DEF QueueInv, Membership, Lists, Held, WakeupInv
      <4>2. call'[s].pc = call[s].pc
        BY <1>4, <2>1, <3>2
      <4>3. QED
        BY <1>6, <2>1, <3>2, <4>1, <4>2 DEF WillLook, Held
    <3>3. QED
      BY <3>1, <3>2
  <2>4. QED
    BY <2>1, <2>2, <2>3 DEF WillLook
<1>8. Ahead' = Ahead /\ Ahead \in Nat /\ messages \in Nat
  BY <1>1, <1>2, Counts DEF Ahead, Counted
<1>9. ~\E s \in Readers : call'[s].pc \in {"place", "delay"}
  BY <1>4, <1>5, <1>6 DEF Held
<1>10. waiting' # {} => Enough'
  <2> SUFFICES ASSUME waiting' # {} PROVE Enough'
    OBVIOUS
  <2>1. Enough
    BY <1>3 DEF WakeupInv
  <2>2. QED
    BY <1>1, <1>2, <1>7, <1>8, <2>1, EnoughStays
<1>11. QED
  BY <1>1, <1>2, <1>9, <1>10 DEF WakeupInv

(* A new message is counted, or wakes a reader, or nobody waits.            *)
LEMMA GiveWakeup ==
  ASSUME WakeupInv, Give
  PROVE  WakeupInv'
<1>1. /\ QueueInv /\ QueueInv' /\ TypeOK /\ TypeOK'
      /\ messages' = messages + 1 /\ UNCHANGED <<call, suspended>>
  BY GiveStep DEF WakeupInv, QueueInv, Give, kernel
<1>2. Ahead \in Nat /\ messages \in Nat
  BY <1>1, Counts DEF Counted
<1>3. CASE cTxLock # Unlocked
  <2>1. cTxLock' = cTxLock + 1 /\ UNCHANGED <<waiting, pending, blocked>>
    BY <1>3 DEF Give
  <2>2. cTxLock' # Unlocked /\ Ahead' = Ahead + 1
    BY <1>1, <1>3, <2>1 DEF TypeOK, Ahead, Unlocked
  <2>3. WillLook' = WillLook
    BY <1>1, <2>1 DEF WillLook
  <2>4. Enough => Enough'
    <3> SUFFICES ASSUME Enough PROVE Enough'
      OBVIOUS
    <3>1. {} \in SUBSET Readers /\ {} \cap WillLook = {} /\ WillLook \cup {} \subseteq WillLook'
      BY <2>3
    <3>2. Cardinality({}) >= 0 /\ 0 \in Nat
      BY FS_EmptySet
    <3>3. messages' + Ahead <= messages + Ahead' + 0
      BY <1>1, <1>2, <2>2
    <3>4. QED
      BY <1>1, <3>1, <3>2, <3>3, EnoughMoves
  <2>5. QED
    BY <1>1, <2>1, <2>2, <2>4 DEF WakeupInv
<1>4. CASE cTxLock = Unlocked
  <2> DEFINE W == Foremost(1)
  <2>1. /\ waiting' = waiting \ W /\ UNCHANGED cTxLock
        /\ \/ suspended = Nobody /\ blocked' = blocked \ W /\ UNCHANGED pending
           \/ suspended # Nobody /\ pending' = pending \cup W /\ UNCHANGED blocked
    BY <1>4 DEF Give, Unlocked
  <2>2. W \in SUBSET Readers /\ W \subseteq waiting
    BY <1>1 DEF Foremost, TypeOK
  <2> HIDE DEF W
  <2>3. suspended # Nobody => call[suspended].pc \notin Locked
    BY <1>4 DEF WakeupInv
  <2>4. ~\E s \in Readers : call[s].pc \in {"place", "delay"}
    <3>1. \A s \in Readers : s # Nobody /\ (call[s].pc \in Held => suspended = s)
      BY <1>1, QueueAssumption DEF QueueInv, Suspension, Nobody
    <3>2. QED
      BY <2>3, <3>1 DEF Held, Locked
  <2>5. \A s \in waiting : s \in Readers /\ s \notin pending /\ s \in blocked
    BY <1>1, <2>4 DEF QueueInv, Membership, TypeOK
  <2>6. W \cap WillLook = {}
    <3>1. \A s \in waiting : s \notin WillLook
      BY <2>5 DEF WillLook
    <3>2. QED
      BY <2>2, <3>1
  <2>7. WillLook \cup W \subseteq WillLook'
    <3>1. CASE suspended = Nobody
      <4>1. \A s \in W : call[s].pc = "check"
        <5>1. \A s \in Readers : call[s].pc \notin Held
          BY <1>1, <3>1, QueueAssumption DEF QueueInv, Suspension, Nobody
        <5>2. QED
          BY <1>1, <2>2, <2>5, <5>1 DEF QueueInv, Membership, Lists, Held
      <4>2. QED
        BY <1>1, <2>1, <2>2, <3>1, <4>1 DEF WillLook
    <3>2. CASE suspended # Nobody
      BY <1>1, <2>1, <2>2, <3>2 DEF WillLook
    <3>3. QED
      BY <3>1, <3>2
  <2>8. waiting' # {} => Enough'
    <3> SUFFICES ASSUME waiting' # {} PROVE Enough'
      OBVIOUS
    <3>1. Cardinality(W) >= 1
      <4>1. waiting \subseteq Readers /\ waiting \ Foremost(1) # {} /\ 1 \in Nat
        BY <1>1, <2>1 DEF TypeOK, W
      <4>2. QED
        BY <4>1, ForemostEnough DEF W
    <3>2. Enough
      BY <2>1 DEF WakeupInv
    <3>3. Ahead' = Ahead
      BY <2>1 DEF Ahead
    <3>4. messages' + Ahead <= messages + Ahead' + 1
      BY <1>1, <1>2, <3>3
    <3>5. QED
      BY <1>1, <2>2, <2>6, <2>7, <3>1, <3>2, <3>4, EnoughMoves
  <2>9. QED
    BY <1>1, <1>4, <2>1, <2>3, <2>4, <2>8 DEF WakeupInv
<1>5. QED
  BY <1>3, <1>4

LEMMA TickWakeup ==
  ASSUME WakeupInv, Tick
  PROVE  WakeupInv'
<1>1. QueueInv /\ QueueInv' /\ TypeOK /\ TypeOK'
  BY TickStep DEF WakeupInv, QueueInv
<1>2. Ahead \in Nat /\ messages \in Nat
  BY <1>1, Counts DEF Counted
<1>3. CASE suspended = Nobody /\ Ticks(blocked, 1, call) /\ UNCHANGED <<messages, cTxLock, pending, kernel>>
  <2>1. blocked' \subseteq blocked /\ waiting' \subseteq waiting
    BY <1>3 DEF Ticks
  <2>2. \A s \in Readers : call'[s].pc = call[s].pc
    <3>1. \A s \in Readers : Later(call[s], 1).pc = call[s].pc
      BY <1>1 DEF Later, TypeOK
    <3>2. QED
      BY <1>3, <3>1 DEF Ticks
  <2>3. WillLook \subseteq WillLook'
    BY <1>1, <1>3, <2>1, <2>2 DEF WillLook, TypeOK
  <2>4. Ahead' = Ahead
    BY <1>3 DEF Ahead
  <2>5. ~\E s \in Readers : call'[s].pc \in {"place", "delay"}
    BY <1>1, <1>3, <2>2, QueueAssumption DEF QueueInv, Suspension, Held, Nobody
  <2>6. waiting' # {} => Enough'
    <3> SUFFICES ASSUME waiting' # {} PROVE Enough'
      OBVIOUS
    <3>1. Enough
      BY <2>1 DEF WakeupInv
    <3>2. QED
      BY <1>1, <1>2, <1>3, <2>3, <2>4, <3>1, EnoughStays
  <2>7. QED
    BY <1>1, <1>3, <2>5, <2>6 DEF WakeupInv, kernel
<1>4. CASE UNCHANGED <<messages, cTxLock, lists, suspended, call>>
  <2>1. Enough' <=> Enough
    BY <1>4 DEF Enough, WillLook, Ahead, lists
  <2>2. QED
    BY <1>1, <1>4, <2>1 DEF WakeupInv, lists
<1>5. QED
  BY <1>3, <1>4 DEF Tick

(* Nobody else reads the queue when a reader is terminated.                 *)
LEMMA DeleteWakeup ==
  ASSUME WakeupInv, NEW r \in Readers, Delete(r)
  PROVE  WakeupInv'
<1>1. QueueInv /\ QueueInv' /\ suspended = Nobody /\ UNCHANGED <<kernel, cTxLock>>
      /\ call \in [Readers -> Calls]
  BY DeleteStep DEF WakeupInv, Delete, QueueInv, TypeOK, Calls
<1>2. \A s \in Readers : call'[s].pc = "idle"
  BY <1>1 DEF Delete, Return, Idle, InCall
<1>3. waiting' = {}
  <2>1. waiting \subseteq {r}
    BY <1>1 DEF QueueInv, TypeOK, Membership, Lists, Delete, InCall
  <2>2. QED
    BY <2>1 DEF Delete
<1>4. QED
  BY <1>1, <1>2, <1>3 DEF WakeupInv, kernel

(* No message lies in the queue while a reader sleeps that nothing will     *)
(* wake: for any readers, timeouts and capacity, and a post between any two *)
(* steps of a read (prvLockQueue, prvUnlockQueue, xQueueGiveFromISR).       *)
THEOREM NoWakeupIsLost == Spec => []NoLostWakeup
<1>1. Init => WakeupInv
  BY QueueInitially DEF Init, WakeupInv, Idle, Nobody
<1>2. WakeupInv /\ [Next]_vars => WakeupInv'
  <2> SUFFICES ASSUME WakeupInv, [Next]_vars PROVE WakeupInv'
    OBVIOUS
  <2>1. ASSUME NEW r \in Readers, Step(r) PROVE WakeupInv'
    BY <2>1, CheckWakeup, SuspendAllWakeup, BeforeWakeup, SleepWakeup, UnlockWakeup, ResumeWakeup
    DEF Step
  <2>2. CASE Next
    BY <2>1, <2>2, GiveWakeup, TickWakeup, DeleteWakeup, CallWakeup DEF Next
  <2>3. CASE UNCHANGED vars
    <3>1. Enough' <=> Enough
      BY <2>3 DEF vars, lists, kernel, Enough, WillLook, Ahead
    <3>2. QueueInv'
      BY <2>3 DEF vars, lists, kernel, QueueInv, TypeOK, Suspension, Membership, Lists,
                  NeverEarly, Time, WakeupInv
    <3>3. QED
      BY <2>3, <3>1, <3>2 DEF vars, lists, kernel, WakeupInv
  <2>4. QED
    BY <2>2, <2>3
<1>3. WakeupInv => NoLostWakeup
  BY DEF WakeupInv, NoLostWakeup, Enough, Ahead
<1>4. QED
  BY <1>1, <1>2, <1>3, PTL DEF Spec
=============================================================================
