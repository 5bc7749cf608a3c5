------------------------- MODULE BoardTasks_proofs -------------------------
EXTENDS BoardTasks, TLAPS

-----------------------------------------------------------------------------
(* Facts about the tables of BoardTasks *)

(* The tables of the library calls map steps to steps and to mutexes.       *)
LEMMA Tables ==
  /\ Wanted \in [DOMAIN Wanted -> Mutex]
  /\ Taken \in [DOMAIN Wanted -> Steps]
  /\ Given \in [DOMAIN Given -> Mutex]
  /\ Inside \in [Mutex -> SUBSET Steps]
  /\ BasePriority \in [Task -> Nat]
  /\ None \notin Task /\ None \notin Mutex
BY DEF Wanted, Taken, Given, Mutex, Steps, OtherSteps, Inside, BasePriority, Task, None

(* Taking a mutex brings a task from outside its section to inside it, and  *)
(* leaves its place with respect to the other mutex alone.                  *)
LEMMA TakenInside ==
  ASSUME NEW s \in DOMAIN Wanted
  PROVE /\ s \notin Inside[Wanted[s]]
        /\ \A m \in Mutex : Taken[s] \in Inside[m] <=> m = Wanted[s] \/ s \in Inside[m]
BY DEF Wanted, Taken, Mutex, Inside

(* A release is followed by a step.                                         *)
LEMMA ReleasedSteps ==
  ASSUME NEW l, NEW s \in DOMAIN Given, NEW r \in Released(l, s)
  PROVE  r \in Steps
BY DEF Given, Released, Steps, OtherSteps, Wanted, AfterWrite

(* Giving a mutex back brings a task from inside its section to outside it, *)
(* and leaves its place with respect to the other mutex alone.              *)
LEMMA GivenInside ==
  ASSUME NEW l, NEW s \in DOMAIN Given, NEW r \in Released(l, s)
  PROVE /\ s \in Inside[Given[s]] /\ s \notin DOMAIN Wanted
        /\ \A m \in Mutex : r \in Inside[m] <=> m # Given[s] /\ s \in Inside[m]
BY DEF Given, Released, Mutex, Inside, AfterWrite, Wanted

(* The only mutex wanted inside a section is "sys", inside the one of "core". *)
LEMMA WantedInside ==
  ASSUME NEW s \in DOMAIN Wanted, NEW m \in Mutex, s \in Inside[m]
  PROVE  m = "core" /\ Wanted[s] = "sys"
BY DEF Wanted, Mutex, Inside

-----------------------------------------------------------------------------
(* Type correctness *)

(* The state the scheduler starts in has the right types.                   *)
LEMMA InitType == Init => TypeOK
<1> SUFFICES ASSUME Init PROVE TypeOK
  OBVIOUS
<1> USE DEF Init
<1>1. KernelTypeOK
  BY Tables DEF KernelInit, KernelTypeOK, TaskState
<1>2. loc \in [Task -> Locs]
  BY DEF Task, Locs, OtherLocs, NetifLocs
<1>3. step \in [Task -> Steps]
  BY DEF Task, Steps, OtherSteps, Wanted
<1>4. uart \in {"ready", "busy"} /\ lit \in BOOLEAN /\ finals \in Nat /\ bsr \in BOOLEAN
  OBVIOUS
<1>5. mbox \in 0..MboxSize /\ recvq \in 0..RecvSize
  BY BoardAssumption DEF BoardAssumption
<1>6. QED
  BY <1>1, <1>2, <1>3, <1>4, <1>5 DEF TypeOK

(* What the kernel calls do to the types *)
LEMMA KernelTypes ==
  ASSUME KernelTypeOK, NEW t \in Task, NEW m \in Mutex
  PROVE  /\ WaitEvent(t) \/ Delay(t) \/ Tick(t) \/ Terminate(t) \/ KernelLock(t) => KernelTypeOK'
         /\ TakeMutex(t, m) \/ BlockOnMutex(t, m) \/ GiveMutex(t, m) => KernelTypeOK'
         /\ Signalled(t) \in [Task -> TaskState]
         /\ \A S \in SUBSET Task : CreatedBy(S) \in [Task -> TaskState]
<1> USE Tables DEF KernelTypeOK
<1>1. WaitEvent(t) => KernelTypeOK'
  BY DEF WaitEvent, TaskState
<1>2. Delay(t) => KernelTypeOK'
  BY DEF Delay, TaskState
<1>3. Tick(t) => KernelTypeOK'
  BY DEF Tick, TaskState
<1>4. Terminate(t) => KernelTypeOK'
  BY DEF Terminate, TaskState
<1>5. KernelLock(t) => KernelTypeOK'
  BY DEF KernelLock
<1>6. TakeMutex(t, m) => KernelTypeOK'
  BY DEF TakeMutex
<1>7. BlockOnMutex(t, m) => KernelTypeOK'
  <2> SUFFICES ASSUME BlockOnMutex(t, m) PROVE KernelTypeOK'
    OBVIOUS
  <2>1. holder[m] \in Task
    BY DEF BlockOnMutex
  <2>2. Inherited(m, t) \in [Task -> Nat]
    BY <2>1 DEF Inherited
  <2>3. QED
    BY <2>2 DEF BlockOnMutex, TaskState
<1>8. GiveMutex(t, m) => KernelTypeOK'
  <2> SUFFICES ASSUME GiveMutex(t, m) PROVE KernelTypeOK'
    OBVIOUS
  <2>1. prio' \in [Task -> Nat]
    BY DEF GiveMutex, Disinherited
  <2>2. tstate' \in [Task -> TaskState] /\ waits' \in [Task -> Mutex \cup {None}]
    BY DEF GiveMutex, Waiters, TaskState
  <2>3. QED
    BY <2>1, <2>2 DEF GiveMutex
<1>9. Signalled(t) \in [Task -> TaskState]
  BY DEF Signalled, TaskState
<1>10. ASSUME NEW S \in SUBSET Task PROVE CreatedBy(S) \in [Task -> TaskState]
  BY DEF CreatedBy, TaskState
<1>11. QED
  BY <1>1, <1>2, <1>3, <1>4, <1>5, <1>6, <1>7, <1>8, <1>9, <1>10

ControlTypeOK == loc \in [Task -> Locs] /\ step \in [Task -> Steps]

(* The calls that follow a printf or a netif function.                      *)
LEMMA AfterSteps ==
  ASSUME NEW l
  PROVE  AfterPrint(l) \in {"netif", "wLock", "rWait", "ok"} /\ AfterNetif(l) \in {"wLock", "ok"}
BY DEF AfterPrint, AfterNetif, AfterWrite

(* The places and steps that the actions name.                              *)
LEMMA Names ==
  /\ "boot" \in Locs /\ "dhcp" \in Locs /\ "request" \in Locs
  /\ "connect" \in Locs /\ "subscribe" \in Locs /\ "announce" \in Locs
  /\ "ping" \in Locs /\ "command" \in Locs /\ "unsubscribe" \in Locs
  /\ "bye" \in Locs /\ "disconnect" \in Locs /\ "close" \in Locs
  /\ "read" \in Locs /\ "drain" \in Locs /\ "waitLink" \in Locs
  /\ "poll" \in Locs /\ "terminate" \in Locs /\ "notice" \in Locs
  /\ "lost" \in Locs /\ "leds" \in Locs /\ "final" \in Locs /\ "halt" \in Locs
  /\ "gone" \in Locs
  /\ "go" \in Steps /\ "gone" \in Steps /\ "print" \in Steps
  /\ "sending" \in Steps /\ "netif" \in Steps /\ "wLock" \in Steps
  /\ "rWait" \in Steps /\ "rFree" \in Steps /\ "ok" \in Steps /\ "none" \in Steps
  /\ "tWait" \in Steps /\ "tMsg" \in Steps /\ "tTimer" \in Steps
  /\ "tFree" \in Steps /\ "eWait" \in Steps /\ "eAlloc" \in Steps
  /\ "eDrop" \in Steps
BY DEF Locs, NetifLocs, ReadLocs, WriteLocs, OtherLocs, Steps, OtherSteps, Wanted, Given

(* Going to a location keeps the types of the control state.                *)
LEMMA Moves ==
  ASSUME ControlTypeOK, NEW t \in Task,
         NEW l \in Locs, NEW s \in Steps, GotoStep(t, l, s)
  PROVE  ControlTypeOK'
BY DEF ControlTypeOK, GotoStep

(* Going to a step of the same location keeps the types of the control state. *)
LEMMA StepsTo ==
  ASSUME ControlTypeOK, NEW t \in Task, NEW s \in Steps, StepTo(t, s)
  PROVE  ControlTypeOK'
BY DEF ControlTypeOK, StepTo

DataTypeOK ==
  /\ uart \in {"ready", "busy"} /\ lit \in BOOLEAN /\ finals \in Nat /\ bsr \in BOOLEAN
  /\ mbox \in 0..MboxSize /\ recvq \in 0..RecvSize

(* The type invariant, before and after a step, is that of its three parts. *)
LEMMA TypeParts ==
  /\ TypeOK <=> KernelTypeOK /\ ControlTypeOK /\ DataTypeOK
  /\ TypeOK' <=> KernelTypeOK' /\ ControlTypeOK' /\ DataTypeOK'
BY DEF TypeOK, ControlTypeOK, DataTypeOK

(* A part of the state that a step leaves alone keeps its types.            *)
LEMMA TypeKept ==
  ASSUME TypeOK
  PROVE  /\ UNCHANGED kernel => KernelTypeOK'
         /\ UNCHANGED <<loc, step>> => ControlTypeOK'
         /\ UNCHANGED <<output, bsr, queues>> => DataTypeOK'
BY TypeParts DEF KernelTypeOK, ControlTypeOK, DataTypeOK, kernel, output, queues

(* A library call (mutex, printf, netif function, socket) keeps the types.  *)
LEMMA TypeLibrary == ASSUME TypeOK, NEW t \in Task, LibraryCall(t) PROVE TypeOK'
<1> USE TypeParts, TypeKept
<1>1. CASE Lock(t)
  <2>1. Wanted[step[t]] \in Mutex /\ Taken[step[t]] \in Steps
    BY <1>1, Tables DEF Lock
  <2>2. KernelTypeOK'
    BY <1>1, <2>1, KernelTypes DEF Lock
  <2>3. ControlTypeOK'
    BY <1>1, <2>1, StepsTo DEF Lock
  <2>4. QED
    BY <1>1, <2>2, <2>3 DEF Lock
<1>2. CASE Unlock(t)
  <2>1. Given[step[t]] \in Mutex
    BY <1>2, Tables DEF Unlock
  <2>2. KernelTypeOK'
    BY <1>2, <2>1, KernelTypes DEF Unlock
  <2>3. ControlTypeOK'
    BY <1>2, ReleasedSteps, StepsTo DEF Unlock
  <2>4. QED
    BY <1>2, <2>2, <2>3 DEF Unlock
<1>3. CASE Printf(t) \/ Printed(t)
  <2>1. UNCHANGED kernel
    BY <1>3 DEF Printf, Printed
  <2>2. ControlTypeOK'
    BY <1>3, StepsTo, AfterSteps, Names DEF Printf, Printed
  <2>3. DataTypeOK'
    BY <1>3 DEF Printf, Printed, DataTypeOK, queues
  <2>4. QED
    BY <2>1, <2>2, <2>3
<1>4. CASE NetifCall(t)
  BY <1>4, StepsTo, AfterSteps, Names DEF NetifCall
<1>5. CASE Fetch(t)
  <2>1. KernelTypeOK'
    BY <1>5, KernelTypes, Tables DEF Fetch, Mutex
  <2>2. ControlTypeOK'
    BY <1>5, StepsTo, Names DEF Fetch
  <2>3. DataTypeOK'
    BY <1>5, BoardAssumption DEF Fetch, DataTypeOK, output, BoardAssumption
  <2>4. QED
    BY <2>1, <2>2, <2>3
<1>6. QED
  BY <1>1, <1>2, <1>3, <1>4, <1>5 DEF LibraryCall

(* Error_Handler's osKernelLock keeps the types.                            *)
LEMMA TypeEnd ==
  ASSUME TypeOK, NEW t \in Task, EndProgram(t)
  PROVE  KernelTypeOK' /\ ControlTypeOK'
BY TypeParts, KernelTypes, Moves, Names DEF EndProgram, Mutex

(* Main_Thread keeps the types.                                             *)
LEMMA TypeMain == ASSUME TypeOK, Main_Thread PROVE TypeOK'
<1> USE TypeParts, TypeKept, Names, Moves
<1>0. "Main" \in Task
  BY DEF Task
<1>1. CASE Main_Start
  <2>1. KernelTypeOK'
    BY <1>1, KernelTypes DEF Main_Start, KernelTypeOK, Task, Mutex
  <2>2. QED
    BY <1>0, <1>1, <2>1, StepsTo DEF Main_Start, LedOn, DataTypeOK, queues
<1>2. CASE Main_Booted \/ Main_Commanded
  BY <1>0, <1>2 DEF Main_Booted, Main_Commanded, Goto
<1>3. CASE Main_WaitLink
  <2>1. KernelTypeOK'
    BY <1>3, KernelTypes DEF Main_WaitLink, KernelTypeOK, Task, Mutex
  <2>2. DataTypeOK'
    BY <1>3 DEF Main_WaitLink, ReadLink, DataTypeOK, output, queues
  <2>3. QED
    BY <1>0, <1>3, <2>1, <2>2 DEF Main_WaitLink, Goto
<1>4. CASE Main_Dhcp \/ Main_Read \/ Main_Ping
  <2>1. ControlTypeOK'
    BY <1>0, <1>4 DEF Main_Dhcp, Main_Read, Main_Ping, Command, Goto
  <2>2. DataTypeOK'
    BY <1>4 DEF Main_Dhcp, Main_Read, Main_Ping, Command, LedOn, DataTypeOK, queues
  <2>3. QED
    BY <1>4, <2>1, <2>2 DEF Main_Dhcp, Main_Read, Main_Ping
<1>5. CASE Main_Request
  <2>1. KernelTypeOK' /\ ControlTypeOK'
    BY <1>0, <1>5, TypeEnd DEF Main_Request, Goto
  <2>2. DataTypeOK'
    BY <1>5, BoardAssumption DEF Main_Request, DataTypeOK, output, BoardAssumption
  <2>3. QED
    BY <2>1, <2>2
<1>6. CASE Main_Ack
  <2>1. AfterAck[loc["Main"]] \in Locs
    BY <1>6 DEF Main_Ack, AfterAck, Locs
  <2>2. KernelTypeOK' /\ ControlTypeOK'
    BY <1>0, <1>6, <2>1, TypeEnd DEF Main_Ack, Goto
  <2>3. QED
    BY <1>6, <2>2 DEF Main_Ack
<1>7. CASE Main_Announced
  <2>1. KernelTypeOK'
    BY <1>7, KernelTypes DEF Main_Announced, KernelTypeOK, Task, Mutex
  <2>2. DataTypeOK'
    BY <1>7 DEF Main_Announced, LedOn, DataTypeOK, queues
  <2>3. QED
    BY <1>0, <1>7, <2>1, <2>2 DEF Main_Announced, Goto
<1>8. CASE Main_Lost
  BY <1>0, <1>8, TypeEnd DEF Main_Lost
<1>9. QED
  BY <1>1, <1>2, <1>3, <1>4, <1>5, <1>6, <1>7, <1>8 DEF Main_Thread

(* Link_Thread, Button_Thread and Error_Handler keep the types.             *)
LEMMA TypeApplication ==
  ASSUME TypeOK, NEW t \in Task, Link_Thread \/ Button_Thread \/ Error_Handler(t)
  PROVE  TypeOK'
<1> USE TypeParts, TypeKept, Names, Moves, KernelTypes, TypeEnd
<1>0. "Link" \in Task /\ "Button" \in Task /\ "Main" \in Task /\ "core" \in Mutex
  BY DEF Task, Mutex
<1>1. CASE Link_Poll
  <2>1. KernelTypeOK' /\ ControlTypeOK'
    BY <1>0, <1>1 DEF Link_Poll, Goto
  <2>2. DataTypeOK'
    BY <1>1 DEF Link_Poll, ReadLink, UartRestart, DataTypeOK, queues
  <2>3. QED
    BY <2>1, <2>2
<1>2. CASE Link_Notice \/ Button_Closed
  BY <1>0, <1>2 DEF Link_Notice, Button_Closed
<1>3. CASE Button_Poll
  <2>1. KernelTypeOK' /\ ControlTypeOK'
    BY <1>0, <1>3 DEF Button_Poll
  <2>2. DataTypeOK'
    BY <1>3 DEF Button_Poll, UartRestart, DataTypeOK, queues
  <2>3. QED
    BY <2>1, <2>2
<1>4. CASE Button_Terminate
  <2>1. ControlTypeOK'
    BY <1>4 DEF Button_Terminate, ControlTypeOK
  <2>2. QED
    BY <1>0, <1>4, <2>1 DEF Button_Terminate
<1>5. CASE Button_Close
  <2>1. AfterClosing[loc["Button"]] \in Locs
    BY <1>5 DEF Button_Close, AfterClosing, Locs
  <2>2. KernelTypeOK' /\ ControlTypeOK'
    BY <1>0, <1>5, <2>1 DEF Button_Close, Goto
  <2>3. QED
    BY <1>5, <2>2 DEF Button_Close
<1>6. CASE Button_Drain
  <2>1. ControlTypeOK'
    BY <1>0, <1>6, StepsTo DEF Button_Drain
  <2>2. QED
    BY <1>6, <2>1 DEF Button_Drain
<1>7. CASE Error_Leds(t)
  <2>1. DataTypeOK'
    BY <1>7 DEF Error_Leds, DataTypeOK, queues
  <2>2. QED
    BY <1>7, <2>1 DEF Error_Leds, Goto
<1>8. CASE Error_Halt(t)
  BY <1>8 DEF Error_Halt
<1>9. QED
  BY <1>1, <1>2, <1>3, <1>4, <1>5, <1>6, <1>7, <1>8
  DEF Link_Thread, Button_Thread, Error_Handler

(* tcpip_thread, ethernetif_input and the world around the board keep the   *)
(* types; a post is dropped when the mailbox is full.                       *)
LEMMA TypeStack ==
  ASSUME TypeOK, Tcpip_Thread \/ Eth_Thread \/ World
  PROVE  TypeOK'
<1> USE TypeParts, TypeKept, Names, StepsTo, KernelTypes, BoardAssumption DEF BoardAssumption
<1>0. "Tcpip" \in Task /\ "Eth" \in Task /\ Reader \in Task /\ "core" \in Mutex
  BY DEF Task, Mutex, Reader
<1>1. CASE Tcpip_Fetch
  <2>1. KernelTypeOK' /\ ControlTypeOK'
    BY <1>0, <1>1 DEF Tcpip_Fetch
  <2>2. DataTypeOK'
    BY <1>1 DEF Tcpip_Fetch, DataTypeOK, output
  <2>3. QED
    BY <2>1, <2>2
<1>2. CASE Tcpip_Input
  <2>1. KernelTypeOK'
    BY <1>0, <1>2 DEF Tcpip_Input, KernelTypeOK
  <2>2. DataTypeOK'
    BY <1>2 DEF Tcpip_Input, DataTypeOK, output
  <2>3. QED
    BY <1>0, <1>2, <2>1, <2>2 DEF Tcpip_Input
<1>3. CASE Tcpip_Timeout
  <2>1. KernelTypeOK'
    BY <1>0, <1>3 DEF Tcpip_Timeout, KernelTypeOK
  <2>2. QED
    BY <1>0, <1>3, <2>1 DEF Tcpip_Timeout
<1>4. CASE Eth_Wait
  BY <1>0, <1>4 DEF Eth_Wait
<1>5. CASE Eth_Post
  <2>1. KernelTypeOK'
    BY <1>0, <1>5 DEF Eth_Post, KernelTypeOK
  <2>2. ControlTypeOK'
    BY <1>0, <1>5 DEF Eth_Post
  <2>3. DataTypeOK'
    BY <1>5 DEF Eth_Post, DataTypeOK, output
  <2>4. QED
    BY <2>1, <2>2, <2>3
<1>6. CASE FrameArrives
  <2>1. KernelTypeOK'
    BY <1>0, <1>6 DEF FrameArrives, KernelTypeOK
  <2>2. QED
    BY <1>0, <1>6, <2>1 DEF FrameArrives
<1>7. CASE LinkDrops
  <2>1. DataTypeOK'
    BY <1>7 DEF LinkDrops, DataTypeOK, output, queues
  <2>2. QED
    BY <1>7, <2>1 DEF LinkDrops
<1>8. QED
  BY <1>1, <1>2, <1>3, <1>4, <1>5, <1>6, <1>7 DEF Tcpip_Thread, Eth_Thread, World

(* Every step keeps the types.                                              *)
LEMMA TypeStep == TypeOK /\ [Next]_vars => TypeOK'
<1> SUFFICES ASSUME TypeOK, [Next]_vars PROVE TypeOK'
  OBVIOUS
<1>1. ASSUME NEW t \in Task, Step(t) PROVE TypeOK'
  BY <1>1, TypeLibrary, TypeMain, TypeApplication, TypeStack DEF Step
<1>2. ASSUME NEW t \in Task, Expire(t) PROVE TypeOK'
  <2>1. CASE Tick(t) /\ UNCHANGED <<loc, step, output, bsr, queues>>
    BY <2>1, TypeParts, TypeKept, KernelTypes DEF Mutex
  <2>2. CASE ReadTimeout(t)
    <3>1. KernelTypeOK'
      BY <2>2, TypeParts, KernelTypes DEF ReadTimeout, KernelTypeOK, Mutex
    <3>2. QED
      BY <2>2, <3>1, TypeParts, TypeKept, StepsTo, Names DEF ReadTimeout
  <2>3. QED
    BY <1>2, <2>1, <2>2 DEF Expire
<1>3. CASE UNCHANGED vars
  BY <1>3, TypeParts, TypeKept DEF vars
<1>4. QED
  BY <1>1, <1>2, <1>3, TypeStack DEF Next

(* Every value the tasks, the kernel and the shared data take is one the    *)
(* code's types allow; the mailboxes never hold more than their size.       *)
THEOREM TypeCorrect == Spec => []TypeOK
<1>1. QED
  BY InitType, TypeStep, PTL DEF Spec

-----------------------------------------------------------------------------
(* Mutexes are held exactly where they are used                             *)

(* The state of a task, its place and the mutex it waits for agree: only    *)
(* Main is ever terminated, a task is blocked exactly on the mutex its next *)
(* step wants, and a task that sleeps or was not created is in no section.  *)
Consistent ==
  \A t \in Task :
    /\ tstate[t] = "deleted" => t = "Main"
    /\ waits[t] # None => tstate[t] = "blocked"
    /\ tstate[t] = "blocked" => step[t] \in DOMAIN Wanted /\ waits[t] = Wanted[step[t]]
    /\ tstate[t] \in {"absent", "waiting", "delayed"} =>
         \A m \in Mutex : step[t] \notin Inside[m]

(* A task does not exist before Main creates it. *)
Created ==
  /\ loc["Main"] = "boot" /\ step["Main"] = "go" =>
       tstate["Tcpip"] = "absent" /\ tstate["Eth"] = "absent"
  /\ loc["Main"] \in {"boot", "waitLink"} => tstate["Link"] = "absent"
  /\ loc["Main"] \in {"boot", "waitLink", "dhcp", "request", "connect", "subscribe", "announce"} =>
       tstate["Button"] = "absent"

IInv == TypeOK /\ HeldWhereUsed /\ Consistent /\ Created

(* Where the steps that the actions name lie with respect to the sections.  *)
LEMMA Outside ==
  ASSUME NEW m \in Mutex
  PROVE  /\ "go" \notin Inside[m] /\ "gone" \notin Inside[m] /\ "print" \notin Inside[m]
         /\ "sending" \notin Inside[m] /\ "netif" \notin Inside[m] /\ "wLock" \notin Inside[m]
         /\ "rWait" \notin Inside[m] /\ "rFree" \notin Inside[m] /\ "ok" \notin Inside[m]
         /\ "none" \notin Inside[m] /\ "tWait" \notin Inside[m] /\ "tMsg" \notin Inside[m]
         /\ "tTimer" \notin Inside[m] /\ "tStart" \notin Inside[m] /\ "eWait" \notin Inside[m]
         /\ "eAlloc" \notin Inside[m] /\ "ePost" \notin Inside[m] /\ "eDrop" \notin Inside[m]
         /\ "tInput" \in Inside[m] <=> "tFree" \in Inside[m]
BY DEF Mutex, Inside

(* When the scheduler starts no mutex is held and only Main exists.         *)
LEMMA InitInv == Init => IInv
<1> SUFFICES ASSUME Init PROVE IInv
  OBVIOUS
<1>1. HeldWhereUsed
  BY Tables, Outside DEF Init, HeldWhereUsed, KernelInit
<1>2. Consistent
  BY Outside DEF Init, Consistent, KernelInit
<1>3. Created
  BY DEF Init, Created, KernelInit, Task
<1>4. QED
  BY <1>1, <1>2, <1>3, InitType DEF IInv

(* What a step of t that neither takes nor gives a mutex may do to the      *)
(* states of the tasks: wake some, create some, put t to sleep at step s.   *)
Eases(t, s) ==
  \A u \in Task :
    \/ tstate'[u] = tstate[u]
    \/ tstate[u] \in {"absent", "waiting", "delayed"} /\ tstate'[u] = "ready"
    \/ /\ u = t /\ tstate'[u] \in {"waiting", "delayed"}
       /\ \A m \in Mutex : s \notin Inside[m]

(* A step that moves one task, between two places in the same sections, and *)
(* touches no mutex keeps mutexes and control state in agreement.           *)
LEMMA Quiet ==
  ASSUME IInv, NEW t \in Task, NEW s \in Steps,
         tstate[t] # "deleted", tstate[t] # "blocked",
         UNCHANGED <<holder, waits>>, step' = [step EXCEPT ![t] = s],
         \A m \in Mutex : s \in Inside[m] <=> step[t] \in Inside[m],
         Eases(t, s)
  PROVE  HeldWhereUsed' /\ Consistent'
<1> USE DEF IInv, TypeOK, Eases
<1>1. \A u \in Task : tstate'[u] = "deleted" <=> tstate[u] = "deleted"
  OBVIOUS
<1>2. \A u \in Task, m \in Mutex : step'[u] \in Inside[m] <=> step[u] \in Inside[m]
  OBVIOUS
<1>3. HeldWhereUsed'
  BY <1>1, <1>2 DEF HeldWhereUsed
<1>4. ASSUME NEW u \in Task
      PROVE  /\ tstate'[u] = "deleted" => u = "Main"
             /\ waits'[u] # None => tstate'[u] = "blocked"
             /\ tstate'[u] = "blocked" => step'[u] \in DOMAIN Wanted /\ waits'[u] = Wanted[step'[u]]
             /\ tstate'[u] \in {"absent", "waiting", "delayed"} =>
                  \A m \in Mutex : step'[u] \notin Inside[m]
  <2>1. waits'[u] = waits[u]
    OBVIOUS
  <2>2. CASE tstate'[u] = tstate[u]
    BY <1>2, <2>1, <2>2 DEF Consistent
  <2>3. CASE tstate[u] \in {"absent", "waiting", "delayed"} /\ tstate'[u] = "ready"
    BY <2>1, <2>3 DEF Consistent
  <2>4. CASE u = t /\ tstate'[u] \in {"waiting", "delayed"} /\ \A m \in Mutex : s \notin Inside[m]
    BY <1>2, <2>1, <2>4 DEF Consistent
  <2>5. QED
    BY <2>2, <2>3, <2>4
<1>5. QED
  BY <1>3, <1>4 DEF Consistent

(* So does a call of osMutexAcquire, whether it gets the mutex or blocks.   *)
LEMMA KeepsLock ==
  ASSUME IInv, NEW t \in Task, Lock(t)
  PROVE  HeldWhereUsed' /\ Consistent'
<1> USE DEF IInv, TypeOK, KernelTypeOK
<1>1. /\ step[t] \in DOMAIN Wanted /\ tstate[t] = "ready"
      /\ Wanted[step[t]] \in Mutex /\ Taken[step[t]] \in Steps
  BY Tables DEF Lock, Running
<1>2. CASE TakeMutex(t, Wanted[step[t]]) /\ StepTo(t, Taken[step[t]])
  <2>1. /\ holder' = [holder EXCEPT ![Wanted[step[t]]] = t]
        /\ step' = [step EXCEPT ![t] = Taken[step[t]]]
        /\ holder[Wanted[step[t]]] = None /\ UNCHANGED <<tstate, waits>>
    BY <1>2 DEF TakeMutex, StepTo
  <2>2. HeldWhereUsed'
    BY <1>1, <2>1, TakenInside, Tables DEF HeldWhereUsed
  <2>3. Consistent'
    BY <1>1, <2>1 DEF Consistent
  <2>4. QED
    BY <2>2, <2>3
<1>3. CASE BlockOnMutex(t, Wanted[step[t]]) /\ UNCHANGED <<loc, step>>
  <2>1. /\ tstate' = [tstate EXCEPT ![t] = "blocked"]
        /\ waits' = [waits EXCEPT ![t] = Wanted[step[t]]]
        /\ UNCHANGED <<holder, step>>
    BY <1>3 DEF BlockOnMutex
  <2>2. HeldWhereUsed'
    BY <1>1, <2>1 DEF HeldWhereUsed
  <2>3. Consistent'
    BY <1>1, <2>1 DEF Consistent
  <2>4. QED
    BY <2>2, <2>3
<1>4. QED
  BY <1>2, <1>3 DEF Lock

(* So does a call of osMutexRelease, whichever waiter it wakes.             *)
LEMMA KeepsUnlock ==
  ASSUME IInv, NEW t \in Task, Unlock(t)
  PROVE  HeldWhereUsed' /\ Consistent'
<1> USE DEF IInv, TypeOK, KernelTypeOK
<1> DEFINE m == Given[step[t]]
<1>1. PICK r \in Released(loc[t], step[t]) : StepTo(t, r)
  BY DEF Unlock
<1>2. /\ step[t] \in DOMAIN Given /\ tstate[t] = "ready" /\ m \in Mutex
      /\ step[t] \in Inside[m] /\ step' = [step EXCEPT ![t] = r] /\ r \in Steps
      /\ \A n \in Mutex : r \in Inside[n] <=> n # m /\ step[t] \in Inside[n]
  BY <1>1, Tables, GivenInside, ReleasedSteps DEF Unlock, Running, StepTo
<1>3. holder[m] = t /\ holder' = [holder EXCEPT ![m] = None]
  BY <1>2 DEF Unlock, GiveMutex, HeldWhereUsed
<1>4. ASSUME NEW u \in Task
      PROVE  \/ tstate'[u] = tstate[u] /\ waits'[u] = waits[u]
             \/ tstate[u] = "blocked" /\ tstate'[u] = "ready" /\ waits'[u] = None
  BY Tables DEF Unlock, GiveMutex, Waiters, Consistent
<1>5. \A u \in Task : tstate'[u] = "deleted" <=> tstate[u] = "deleted"
  BY <1>4
<1>6. HeldWhereUsed'
  BY <1>2, <1>3, <1>5, Tables DEF HeldWhereUsed
<1>7. Consistent'
  BY <1>2, <1>4 DEF Consistent
<1>8. QED
  BY <1>6, <1>7

(* The steps of a library call, of a task's own code and of the stack that  *)
(* leave every mutex alone                                                  *)
LEMMA KeepsCalls ==
  ASSUME IInv, NEW t \in Task, Printf(t) \/ Printed(t) \/ NetifCall(t) \/ Fetch(t)
  PROVE  HeldWhereUsed' /\ Consistent'
<1> USE Outside, Names
<1>1. tstate[t] = "ready" /\ step \in [Task -> Steps] /\ tstate \in [Task -> TaskState]
  BY DEF Printf, Printed, NetifCall, Fetch, Running, IInv, TypeOK, KernelTypeOK
<1>2. CASE Printf(t) \/ Printed(t) \/ NetifCall(t)
  <2>1. PICK s \in {"sending", "netif", "wLock", "rWait", "ok"} : step' = [step EXCEPT ![t] = s]
    BY <1>2, AfterSteps DEF Printf, Printed, NetifCall, StepTo
  <2>2. UNCHANGED <<tstate, holder, waits>>
    BY <1>2 DEF Printf, Printed, NetifCall, kernel
  <2>3. step[t] \in {"print", "sending", "netif"} /\ s \in Steps
    BY <1>2 DEF Printf, Printed, NetifCall
  <2>4. \A m \in Mutex : s \notin Inside[m] /\ step[t] \notin Inside[m]
    BY <2>3
  <2>5. Eases(t, s)
    BY <2>2 DEF Eases
  <2>6. QED
    BY <1>1, <2>1, <2>2, <2>3, <2>4, <2>5, Quiet
<1>3. CASE Fetch(t)
  <2>1. step[t] = "rWait" /\ UNCHANGED <<holder, waits>>
    BY <1>3 DEF Fetch, WaitEvent, kernel
  <2>2. CASE recvq > 0
    <3>1. step' = [step EXCEPT ![t] = "rFree"] /\ UNCHANGED tstate
      BY <1>3, <2>2 DEF Fetch, StepTo, kernel
    <3>2. Eases(t, "rFree")
      BY <3>1 DEF Eases
    <3>3. QED
      BY <1>1, <2>1, <3>1, <3>2, Quiet
  <2>3. CASE ~(recvq > 0)
    <3>1. step' = [step EXCEPT ![t] = "rWait"] /\ tstate' = [tstate EXCEPT ![t] = "waiting"]
      BY <1>1, <1>3, <2>1, <2>3 DEF Fetch, WaitEvent
    <3>2. Eases(t, "rWait")
      BY <1>1, <3>1 DEF Eases
    <3>3. QED
      BY <1>1, <2>1, <3>1, <3>2, Quiet
  <2>4. QED
    BY <2>2, <2>3
<1>4. QED
  BY <1>2, <1>3

(* Main_Thread leaves the mutexes alone outside of library calls.           *)
LEMMA KeepsMain ==
  ASSUME IInv, Main_Thread
  PROVE  HeldWhereUsed' /\ Consistent'
<1> USE Outside, Names
<1>1. /\ "Main" \in Task /\ step \in [Task -> Steps] /\ tstate \in [Task -> TaskState]
      /\ tstate["Main"] = "ready" /\ step["Main"] \in {"go", "ok", "none"}
  BY DEF Main_Thread, Main_Start, Main_Booted, Main_WaitLink, Main_Dhcp, Main_Request, Main_Ack,
     Main_Announced, Main_Read, Main_Ping, Main_Commanded, Main_Lost, At, Running, Task,
     IInv, TypeOK, KernelTypeOK
<1>2. UNCHANGED <<holder, waits>>
  BY DEF Main_Thread, Main_Start, Main_Booted, Main_WaitLink, Main_Dhcp, Main_Request, Main_Ack,
     Main_Announced, Main_Read, Main_Ping, Main_Commanded, Main_Lost, EndProgram, KernelLock, kernel
<1>3. PICK s \in {"go", "print"} : step' = [step EXCEPT !["Main"] = s]
  BY <1>1 DEF Main_Thread, Main_Start, Main_Booted, Main_WaitLink, Main_Dhcp, Main_Request, Main_Ack,
     Main_Announced, Main_Read, Main_Ping, Main_Commanded, Main_Lost, EndProgram, Command, Goto,
     GotoStep, StepTo, At
<1>4. ASSUME NEW u \in Task
      PROVE  tstate'[u] = tstate[u] \/ (tstate[u] = "absent" /\ tstate'[u] = "ready")
  <2>1. CASE Main_Start
    BY <1>1, <2>1 DEF Main_Start, CreatedBy, At, IInv, Created
  <2>2. CASE Main_WaitLink
    BY <1>1, <2>2 DEF Main_WaitLink, CreatedBy, At, IInv, Created
  <2>3. CASE Main_Announced
    BY <1>1, <2>3 DEF Main_Announced, CreatedBy, At, IInv, Created
  <2>4. CASE ~(Main_Start \/ Main_WaitLink \/ Main_Announced)
    BY <2>4 DEF Main_Thread, Main_Booted, Main_Dhcp, Main_Request, Main_Ack, Main_Read, Main_Ping,
       Main_Commanded, Main_Lost, EndProgram, KernelLock, kernel
  <2>5. QED
    BY <2>1, <2>2, <2>3, <2>4
<1>5. Eases("Main", s)
  BY <1>4 DEF Eases
<1>6. s \in Steps /\ \A m \in Mutex : s \notin Inside[m] /\ step["Main"] \notin Inside[m]
  BY <1>1
<1>7. QED
  BY <1>1, <1>2, <1>3, <1>5, <1>6, Quiet

(* So do Link_Thread and Button_Thread; osThreadTerminate leaves what Main  *)
(* held to a deleted task.                                                  *)
LEMMA KeepsApplication ==
  ASSUME IInv, NEW t \in Task,
         (t = "Link" /\ Link_Thread) \/ (t = "Button" /\ Button_Thread) \/ Error_Handler(t)
  PROVE  HeldWhereUsed' /\ Consistent'
<1> USE Outside, Names
<1>1. /\ step \in [Task -> Steps] /\ tstate \in [Task -> TaskState]
      /\ tstate[t] = "ready" /\ step[t] \in {"go", "ok", "none"}
  BY DEF Link_Thread, Link_Poll, Link_Notice, Button_Thread, Button_Poll, Button_Terminate,
     Button_Close, Button_Drain, Button_Closed, Error_Handler, Error_Leds, Error_Halt,
     At, Running, IInv, TypeOK, KernelTypeOK
<1>2. CASE Button_Terminate /\ t = "Button"
  <2> USE DEF IInv, TypeOK, KernelTypeOK
  <2>1. /\ step' = [step EXCEPT !["Main"] = "gone", !["Button"] = "print"]
        /\ tstate' = [tstate EXCEPT !["Main"] = "deleted"]
        /\ waits' = [waits EXCEPT !["Main"] = None] /\ holder' = holder
        /\ "Main" \in Task /\ t = "Button" /\ step[t] = "go"
    BY <1>2 DEF Button_Terminate, Terminate, At, Task
  <2>2. HeldWhereUsed'
    BY <1>1, <2>1 DEF HeldWhereUsed
  <2>3. Consistent'
    BY <1>1, <2>1 DEF Consistent
  <2>4. QED
    BY <2>2, <2>3
<1>3. CASE ~(Button_Terminate /\ t = "Button")
  <2>1. UNCHANGED <<holder, waits>>
    BY <1>3 DEF Link_Thread, Link_Poll, Link_Notice, Button_Thread, Button_Poll, Button_Close,
       Button_Drain, Button_Closed, Error_Handler, Error_Leds, Error_Halt, EndProgram, KernelLock,
       Delay, kernel
  <2>2. PICK s \in {"go", "print", "rWait", "wLock"} : step' = [step EXCEPT ![t] = s]
    BY <1>1, <1>3 DEF Link_Thread, Link_Poll, Link_Notice, Button_Thread, Button_Poll, Button_Close,
       Button_Drain, Button_Closed, Error_Handler, Error_Leds, Error_Halt, EndProgram, Goto,
       GotoStep, StepTo, At
  <2>3. tstate' = tstate \/ tstate' = [tstate EXCEPT ![t] = "delayed"]
    BY <1>3 DEF Link_Thread, Link_Poll, Link_Notice, Button_Thread, Button_Poll, Button_Close,
       Button_Drain, Button_Closed, Error_Handler, Error_Leds, Error_Halt, EndProgram, KernelLock,
       Delay, kernel
  <2>4. Eases(t, s)
    BY <1>1, <2>3 DEF Eases
  <2>5. s \in Steps /\ \A m \in Mutex : s \notin Inside[m] /\ step[t] \notin Inside[m]
    BY <1>1
  <2>6. QED
    BY <1>1, <2>1, <2>2, <2>4, <2>5, Quiet
<1>4. QED
  BY <1>2, <1>3

(* So do the mailboxes of tcpip_thread and ethernetif_input, and the world. *)
LEMMA KeepsStack ==
  ASSUME IInv, NEW t \in Task,
         \/ t = "Tcpip" /\ (Tcpip_Thread \/ Tcpip_Timeout)
         \/ t = "Eth" /\ (Eth_Thread \/ FrameArrives)
         \/ ReadTimeout(t)
  PROVE  HeldWhereUsed' /\ Consistent'
<1> USE Outside, Names
<1>1. /\ step \in [Task -> Steps] /\ tstate \in [Task -> TaskState]
      /\ tstate[t] \in {"ready", "waiting"} /\ UNCHANGED <<holder, waits>>
  BY DEF Tcpip_Thread, Tcpip_Fetch, Tcpip_Input, Tcpip_Timeout, Eth_Thread, Eth_Wait, Eth_Post,
     FrameArrives, ReadTimeout, Running, WaitEvent, kernel, IInv, TypeOK, KernelTypeOK
<1>2. "tInput" \in Steps /\ "tFree" \in Steps
  BY DEF Steps, OtherSteps, Wanted
<1>3. CASE t = "Tcpip" /\ Tcpip_Input
  <2>1. step[t] = "tInput" /\ step' = [step EXCEPT ![t] = "tFree"]
    BY <1>3 DEF Tcpip_Input, StepTo
  <2>2. \A u \in Task : tstate'[u] = tstate[u] \/ (tstate[u] = "waiting" /\ tstate'[u] = "ready")
    BY <1>1, <1>3 DEF Tcpip_Input, Signalled
  <2>3. Eases(t, "tFree")
    BY <2>2 DEF Eases
  <2>4. \A m \in Mutex : "tFree" \in Inside[m] <=> step[t] \in Inside[m]
    BY <2>1
  <2>5. QED
    BY <1>1, <1>2, <2>1, <2>3, <2>4, Quiet
<1>4. CASE ~(t = "Tcpip" /\ Tcpip_Input)
  <2>1. step[t] \in {"tWait", "eWait", "ePost", "rWait"} \/ (t = "Eth" /\ FrameArrives)
    BY <1>4 DEF Tcpip_Thread, Tcpip_Fetch, Tcpip_Timeout, Eth_Thread, Eth_Wait, Eth_Post,
       ReadTimeout
  <2>2. \A m \in Mutex : step[t] \notin Inside[m]
    BY <2>1, <1>1 DEF FrameArrives, IInv, Consistent
  <2>3. PICK s \in {"tMsg", "tWait", "tTimer", "eWait", "eAlloc", "eDrop", "none"} :
          step' = [step EXCEPT ![t] = s]
    BY <1>1, <1>4 DEF Tcpip_Thread, Tcpip_Fetch, Tcpip_Timeout, Eth_Thread, Eth_Wait, Eth_Post,
       FrameArrives, ReadTimeout, StepTo
  <2>4. ASSUME NEW u \in Task
        PROVE  \/ tstate'[u] = tstate[u]
               \/ tstate[u] = "waiting" /\ tstate'[u] = "ready"
               \/ u = t /\ tstate'[u] = "waiting"
    BY <1>1, <1>4 DEF Tcpip_Thread, Tcpip_Fetch, Tcpip_Timeout, Eth_Thread, Eth_Wait, Eth_Post,
       FrameArrives, ReadTimeout, WaitEvent, Signalled, kernel
  <2>5. Eases(t, s)
    BY <2>4 DEF Eases
  <2>6. s \in Steps /\ \A m \in Mutex : s \notin Inside[m]
    OBVIOUS
  <2>7. QED
    BY <1>1, <2>2, <2>3, <2>5, <2>6, Quiet
<1>5. QED
  BY <1>3, <1>4

(* Only Main's own code creates tasks and moves Main among the places before *)
(* its command loop.                                                        *)
LEMMA AbsentStays ==
  ASSUME IInv, Next, ~Main_Thread, NEW u \in Task \ {"Main"}, tstate[u] = "absent"
  PROVE  tstate'[u] = "absent"
<1> USE DEF IInv, TypeOK, KernelTypeOK
<1>1. ASSUME NEW t \in Task, LibraryCall(t) PROVE tstate'[u] = "absent"
  <2>1. CASE Lock(t)
    BY <2>1 DEF Lock, Running, TakeMutex, BlockOnMutex
  <2>2. CASE Unlock(t)
    BY <2>2, Tables DEF Unlock, GiveMutex, Waiters, Consistent
  <2>3. CASE Printf(t) \/ Printed(t) \/ NetifCall(t) \/ Fetch(t)
    BY <2>3 DEF Printf, Printed, NetifCall, Fetch, Running, WaitEvent, kernel
  <2>4. QED
    BY <1>1, <2>1, <2>2, <2>3 DEF LibraryCall
<1>2. ASSUME NEW t \in Task, Error_Handler(t) \/ Expire(t) PROVE tstate'[u] = "absent"
  BY <1>2 DEF Error_Handler, Error_Leds, Error_Halt, Expire, Tick, ReadTimeout, Signalled, kernel
<1>3. ASSUME Link_Thread PROVE tstate'[u] = "absent"
  BY <1>3 DEF Link_Thread, Link_Poll, Link_Notice, Delay, EndProgram, KernelLock, At, Running,
     kernel
<1>4. ASSUME Button_Thread PROVE tstate'[u] = "absent"
  <2>1. CASE Button_Terminate
    BY <2>1 DEF Button_Terminate, Terminate
  <2>2. QED
    BY <1>4, <2>1 DEF Button_Thread, Button_Poll, Button_Close, Button_Drain, Button_Closed, Delay,
       EndProgram, KernelLock, At, Running, kernel
<1>5. ASSUME Tcpip_Thread \/ Eth_Thread \/ World PROVE tstate'[u] = "absent"
  BY <1>5 DEF Tcpip_Thread, Tcpip_Fetch, Tcpip_Input, Eth_Thread, Eth_Wait, Eth_Post, World,
     Tcpip_Timeout, FrameArrives, LinkDrops, WaitEvent, Signalled, Running, kernel
<1>6. QED
  BY <1>1, <1>2, <1>3, <1>4, <1>5 DEF Next, Step

(* Main creates the other tasks once, in the order of Main_Thread.          *)
LEMMA KeepsCreated ==
  ASSUME IInv, [Next]_vars
  PROVE  Created'
<1> DEFINE Early == {"boot", "waitLink", "dhcp", "request", "connect", "subscribe", "announce"}
<1> USE DEF IInv
<1>0. "Main" \in Task /\ loc \in [Task -> Locs] /\ step \in [Task -> Steps] /\ tstate \in [Task -> TaskState]
  BY DEF Task, TypeOK, KernelTypeOK
<1>1. CASE Main_Thread
  <2>1. CASE Main_Start
    <3>1. loc["Main"] = "boot" /\ loc' = loc /\ step'["Main"] = "print"
      BY <1>0, <2>1 DEF Main_Start, At, StepTo
    <3>2. tstate'["Link"] = tstate["Link"] /\ tstate'["Button"] = tstate["Button"]
      BY <2>1 DEF Main_Start, CreatedBy, Task
    <3>3. QED
      BY <3>1, <3>2 DEF Created
  <2>2. CASE Main_WaitLink
    BY <1>0, <2>2 DEF Main_WaitLink, At, Goto, GotoStep, CreatedBy, Created, Task
  <2>3. CASE Main_Announced
    BY <1>0, <2>3 DEF Main_Announced, At, Goto, GotoStep, Created
  <2>4. CASE Main_Booted \/ Main_Dhcp \/ Main_Request \/ Main_Ack
    <3>1. tstate' = tstate /\ loc["Main"] \in Early
      BY <2>4 DEF Main_Booted, Main_Dhcp, Main_Request, Main_Ack, EndProgram, KernelLock, AfterAck,
         At, kernel
    <3>2. loc'["Main"] # "boot" /\ (loc'["Main"] = "waitLink" => loc["Main"] = "boot")
      BY <1>0, <2>4 DEF Main_Booted, Main_Dhcp, Main_Request, Main_Ack, EndProgram, AfterAck,
         At, Goto, GotoStep
    <3>3. QED
      BY <3>1, <3>2 DEF Created
  <2>5. CASE Main_Read \/ Main_Ping \/ Main_Commanded \/ Main_Lost
    <3>1. loc'["Main"] \in {"command", "ping", "lost", "read", "leds"}
      BY <1>0, <2>5 DEF Main_Read, Main_Ping, Main_Commanded, Main_Lost, EndProgram, Command, Goto,
         GotoStep
    <3>2. QED
      BY <3>1 DEF Created
  <2>6. QED
    BY <1>1, <2>1, <2>2, <2>3, <2>4, <2>5 DEF Main_Thread
<1>2. CASE UNCHANGED vars
  BY <1>2 DEF vars, kernel, Created
<1>3. CASE Next /\ ~Main_Thread
  <2>1. \A u \in Task \ {"Main"} : tstate[u] = "absent" => tstate'[u] = "absent"
    BY <1>3, AbsentStays
  <2>2. /\ loc'["Main"] \in {loc["Main"], "gone", "final", "halt"}
        /\ loc'["Main"] = "boot" /\ step'["Main"] = "go" => step["Main"] = "go"
    <3>1. ASSUME NEW t \in Task, LibraryCall(t)
          PROVE  loc' = loc /\ \E s \in Steps \ {"go"} : step' = [step EXCEPT ![t] = s]
      <4>1. CASE Lock(t)
        <5>1. Taken[step[t]] \in Steps \ {"go"} /\ step[t] # "go"
          BY <4>1, Tables DEF Lock, Taken, Wanted
        <5>2. step[t] \in Steps /\ step = [step EXCEPT ![t] = step[t]]
          BY <1>0
        <5>3. QED
          BY <4>1, <5>1, <5>2 DEF Lock, StepTo
      <4>2. CASE Unlock(t)
        <5>1. \A s \in Released(loc[t], step[t]) : s \in Steps \ {"go"}
          BY <4>2, ReleasedSteps DEF Unlock, Given, Released, AfterWrite
        <5>2. QED
          BY <4>2, <5>1 DEF Unlock, StepTo
      <4>3. CASE Printf(t) \/ Printed(t) \/ NetifCall(t)
        BY <4>3, AfterSteps, Names DEF Printf, Printed, NetifCall, StepTo
      <4>4. CASE Fetch(t)
        <5>1. step[t] = "rWait" /\ step = [step EXCEPT ![t] = step[t]]
          BY <1>0, <4>4 DEF Fetch
        <5>2. QED
          BY <4>4, <5>1, Names DEF Fetch, StepTo
      <4>5. QED
        BY <3>1, <4>1, <4>2, <4>3, <4>4 DEF LibraryCall
    <3>2. ASSUME NEW t \in Task, LibraryCall(t) PROVE <2>2!1 /\ <2>2!2
      BY <1>0, <3>1, <3>2
    <3>3. ASSUME NEW t \in Task, Error_Handler(t) \/ Expire(t) PROVE <2>2!1 /\ <2>2!2
      BY <1>0, <3>3 DEF Error_Handler, Error_Leds, Error_Halt, Expire, ReadTimeout, Goto, GotoStep,
         StepTo
    <3>4. ASSUME Link_Thread \/ Button_Thread PROVE <2>2!1 /\ <2>2!2
      BY <1>0, <3>4 DEF Link_Thread, Link_Poll, Link_Notice, Button_Thread, Button_Poll,
         Button_Terminate, Button_Close, Button_Drain, Button_Closed, EndProgram, Goto, GotoStep,
         StepTo
    <3>5. ASSUME Tcpip_Thread \/ Eth_Thread \/ World PROVE <2>2!1 /\ <2>2!2
      BY <1>0, <3>5 DEF Tcpip_Thread, Tcpip_Fetch, Tcpip_Input, Eth_Thread, Eth_Wait, Eth_Post,
         World, Tcpip_Timeout, FrameArrives, LinkDrops, StepTo
    <3>6. QED
      BY <1>3, <3>2, <3>3, <3>4, <3>5 DEF Next, Step
  <2>3. QED
    BY <2>1, <2>2 DEF Created, Task
<1>4. QED
  BY <1>1, <1>2, <1>3

(* Every step keeps the inductive invariant.                                *)
LEMMA InvStep == IInv /\ [Next]_vars => IInv'
<1> SUFFICES ASSUME IInv, [Next]_vars PROVE IInv'
  OBVIOUS
<1>0. \A t \in {"Main", "Button", "Link", "Tcpip", "Eth"} : t \in Task
  BY DEF Task
<1>1. ASSUME NEW t \in Task, Step(t) PROVE HeldWhereUsed' /\ Consistent'
  <2>1. CASE LibraryCall(t)
    BY <2>1, KeepsLock, KeepsUnlock, KeepsCalls DEF LibraryCall
  <2>2. CASE ~LibraryCall(t)
    BY <1>1, <2>2, KeepsMain, KeepsApplication, KeepsStack DEF Step
  <2>3. QED
    BY <2>1, <2>2
<1>2. ASSUME NEW t \in Task, Tick(t), UNCHANGED <<loc, step>> PROVE HeldWhereUsed' /\ Consistent'
  <2> USE DEF IInv, TypeOK, KernelTypeOK
  <2>1. /\ tstate[t] = "delayed" /\ tstate' = [tstate EXCEPT ![t] = "ready"]
        /\ UNCHANGED <<holder, waits, step>>
    BY <1>2 DEF Tick
  <2>2. HeldWhereUsed'
    BY <2>1 DEF HeldWhereUsed
  <2>3. Consistent'
    BY <2>1 DEF Consistent
  <2>4. QED
    BY <2>2, <2>3
<1>3. ASSUME NEW t \in Task, Expire(t) PROVE HeldWhereUsed' /\ Consistent'
  BY <1>2, <1>3, KeepsStack DEF Expire
<1>4. ASSUME World PROVE HeldWhereUsed' /\ Consistent'
  <2>1. CASE LinkDrops
    BY <2>1 DEF LinkDrops, kernel, HeldWhereUsed, Consistent, IInv
  <2>2. QED
    BY <1>0, <1>4, <2>1, KeepsStack DEF World
<1>5. ASSUME UNCHANGED vars PROVE HeldWhereUsed' /\ Consistent'
  <2>1. UNCHANGED <<tstate, holder, waits, step>>
    BY <1>5 DEF vars, kernel
  <2>2. QED
    BY <2>1 DEF HeldWhereUsed, Consistent, IInv
<1>6. Next => HeldWhereUsed' /\ Consistent'
  BY <1>1, <1>3, <1>4 DEF Next
<1>7. QED
  BY <1>5, <1>6, TypeStep, KeepsCreated DEF IInv

(* The inductive invariant: types, the mutexes held where they are used,    *)
(* tasks that wait where their place says, and tasks created in the order   *)
(* of Main_Thread.                                                          *)
THEOREM Invariance == Spec => []IInv
<1>1. QED
  BY InitInv, InvStep, PTL DEF Spec

(* Whatever the mailboxes' sizes: a mutex of lwIP is held exactly by the    *)
(* task that is in its section, unless that task was terminated there.      *)
THEOREM MutexesHeldWhereUsed == Spec => []HeldWhereUsed
<1>1. IInv => HeldWhereUsed
  BY DEF IInv
<1>2. QED
  BY Invariance, <1>1, PTL

(* No task sleeps with a mutex, and the two are never wanted in the         *)
(* opposite order.                                                          *)
THEOREM HoldersStayAwake == Spec => []HoldersAwake
<1>1. ASSUME IInv PROVE HoldersAwake
  <2> SUFFICES ASSUME NEW m \in Mutex, NEW t \in Task, holder[m] = t, tstate[t] # "deleted"
               PROVE  tstate[t] = "ready" \/ (m = "core" /\ tstate[t] = "blocked" /\ waits[t] = "sys")
    BY DEF HoldersAwake
  <2>1. step[t] \in Inside[m]
    BY <1>1 DEF IInv, HeldWhereUsed
  <2>2. tstate[t] \in {"ready", "blocked"}
    BY <1>1, <2>1 DEF IInv, Consistent, TypeOK, KernelTypeOK, TaskState
  <2>3. CASE tstate[t] = "blocked"
    BY <1>1, <2>1, <2>3, WantedInside DEF IInv, Consistent
  <2>4. QED
    BY <2>2, <2>3
<1>2. QED
  BY Invariance, <1>1, PTL

-----------------------------------------------------------------------------
(* Inherited priorities                                                     *)

(* No call but osMutexAcquire and osMutexRelease changes a priority.        *)
LEMMA OnlyLockingChangesPriority ==
  ASSUME Next, \A t \in Task : ~Lock(t) /\ ~Unlock(t)
  PROVE  UNCHANGED <<prio, holder>>
<1>1. ASSUME NEW t \in Task, Step(t) PROVE UNCHANGED <<prio, holder>>
  <2>1. CASE LibraryCall(t)
    BY <2>1 DEF LibraryCall, Printf, Printed, NetifCall, Fetch, WaitEvent, kernel
  <2>2. CASE t = "Main" /\ Main_Thread
    BY <2>2 DEF Main_Thread, Main_Start, Main_Booted, Main_WaitLink, Main_Dhcp, Main_Request,
       Main_Ack, Main_Announced, Main_Read, Main_Ping, Main_Commanded, Main_Lost, EndProgram,
       KernelLock, kernel
  <2>3. CASE Error_Handler(t) \/ (t = "Link" /\ Link_Thread) \/ (t = "Button" /\ Button_Thread)
    BY <2>3 DEF Error_Handler, Error_Leds, Error_Halt, Link_Thread, Link_Poll, Link_Notice,
       Button_Thread, Button_Poll, Button_Terminate, Button_Close, Button_Drain, Button_Closed,
       EndProgram, KernelLock, Delay, Terminate, kernel
  <2>4. CASE (t = "Tcpip" /\ Tcpip_Thread) \/ (t = "Eth" /\ Eth_Thread)
    BY <2>4 DEF Tcpip_Thread, Tcpip_Fetch, Tcpip_Input, Eth_Thread, Eth_Wait, Eth_Post, WaitEvent,
       kernel
  <2>5. QED
    BY <1>1, <2>1, <2>2, <2>3, <2>4 DEF Step
<1>2. ASSUME NEW t \in Task, Expire(t) PROVE UNCHANGED <<prio, holder>>
  BY <1>2 DEF Expire, Tick, ReadTimeout
<1>3. ASSUME World PROVE UNCHANGED <<prio, holder>>
  BY <1>3 DEF World, Tcpip_Timeout, FrameArrives, LinkDrops, kernel
<1>4. QED
  BY <1>1, <1>2, <1>3 DEF Next

(* A task that holds no mutex runs at the priority it was created with: no  *)
(* sequence of nested locks and releases leaves a task raised for ever.     *)
THEOREM PriorityBoostEnds == Spec => []BoostEnds
<1>1. Init => BoostEnds
  BY DEF Init, KernelInit, BoostEnds
<1>2. IInv /\ BoostEnds /\ [Next]_vars => BoostEnds'
  <2> SUFFICES ASSUME IInv, BoostEnds, [Next]_vars PROVE BoostEnds'
    OBVIOUS
  <2> USE DEF IInv, TypeOK, KernelTypeOK, BoostEnds
  <2>1. ASSUME NEW t \in Task, Lock(t) PROVE BoostEnds'
    <3>1. Wanted[step[t]] \in Mutex
      BY <2>1, Tables DEF Lock
    <3>2. CASE TakeMutex(t, Wanted[step[t]])
      BY <3>1, <3>2, Tables DEF TakeMutex
    <3>3. CASE BlockOnMutex(t, Wanted[step[t]])
      BY <3>1, <3>3, Tables DEF BlockOnMutex, Inherited
    <3>4. QED
      BY <2>1, <3>2, <3>3 DEF Lock
  <2>2. ASSUME NEW t \in Task, Unlock(t) PROVE BoostEnds'
    <3>1. Given[step[t]] \in Mutex /\ step[t] \in Inside[Given[step[t]]] /\ tstate[t] = "ready"
      BY <2>2, Tables, GivenInside DEF Unlock, Running
    <3>2. holder[Given[step[t]]] = t
      BY <3>1 DEF HeldWhereUsed
    <3>3. /\ holder' = [holder EXCEPT ![Given[step[t]]] = None]
          /\ prio' = Disinherited(t, Given[step[t]])
      BY <2>2 DEF Unlock, GiveMutex
    <3>4. QED
      BY <3>1, <3>2, <3>3, Tables DEF Disinherited
  <2>3. CASE UNCHANGED vars
    BY <2>3 DEF vars, kernel
  <2>4. CASE Next /\ \A t \in Task : ~Lock(t) /\ ~Unlock(t)
    BY <2>4, OnlyLockingChangesPriority
  <2>5. QED
    BY <2>1, <2>2, <2>3, <2>4
<1>3. QED
  BY <1>1, <1>2, Invariance, PTL DEF Spec

-----------------------------------------------------------------------------
(* The end of the program                                                   *)

(* The task that has the UART: the one in Error_Handler, or the last one    *)
(* that restarted it on its way to end the program, or Main.                *)
Printer ==
  IF suspended # None THEN suspended
  ELSE IF loc["Link"] # "poll" THEN "Link"
  ELSE IF loc["Button"] # "poll" THEN "Button"
  ELSE "Main"

TcpipSteps == {"tStart", "tUnlock", "tWait", "tMsg", "tTimer", "tInput", "tFree", "tFreed"}
EthSteps   == {"eWait", "eAlloc", "eAlloced", "ePost", "eDrop", "eDropped"}

(* Where the tasks can be: Link_Thread makes no call but printf and is      *)
(* ready once the link is lost, Button_Thread makes none before Main is     *)
(* terminated and is ready from the press on, and tcpip_thread and          *)
(* ethernetif_input stay in lwIP.                                           *)
Places ==
  /\ loc["Link"] \in {"poll", "notice", "leds", "final", "halt"}
  /\ step["Link"] \in {"go", "print", "sending", "ok"}
  /\ loc["Link"] = "poll" => step["Link"] = "go"
  /\ loc["Link"] # "poll" => tstate["Link"] = "ready"
  /\ loc["Button"] \in {"poll", "terminate"} => step["Button"] = "go"
  /\ loc["Button"] = "terminate" => tstate["Button"] = "ready"
  /\ tstate["Main"] # "deleted" => loc["Button"] \in {"poll", "terminate"}
  /\ loc["Tcpip"] = "lwip" /\ step["Tcpip"] \in TcpipSteps
  /\ loc["Eth"] = "lwip" /\ step["Eth"] \in EthSteps

(* A UART that is busy is so for the task that has it.                      *)
UartInv == uart = "busy" => step[Printer] = "sending"

(* Error_Handler, in the one task that runs once the scheduler is suspended *)
Ending == {"leds", "final", "halt"}

HandlerInv ==
  /\ \A t \in Task : loc[t] \in Ending => t = suspended
  /\ suspended = None => finals = 0
  /\ suspended # None =>
       \/ loc[suspended] = "leds" /\ step[suspended] = "go" /\ finals = 0
       \/ loc[suspended] = "final" /\ step[suspended] \in {"print", "sending"} /\ finals = 0 /\ ~lit
       \/ loc[suspended] = "final" /\ step[suspended] = "ok" /\ finals = 1 /\ ~lit
       \/ loc[suspended] = "halt" /\ step[suspended] = "go" /\ finals = 1 /\ ~lit

EndInv == IInv /\ BoostEnds /\ Places /\ UartInv /\ HandlerInv

EndParts == Places /\ UartInv /\ HandlerInv

(* What holds before any step is taken: nothing was printed. *)
LEMMA InitEnd == Init => EndParts
<1> SUFFICES ASSUME Init PROVE EndParts
  OBVIOUS
<1>1. Places
  BY DEF Init, Places, Task, TcpipSteps, EthSteps, KernelInit
<1>2. UartInv /\ HandlerInv
  BY DEF Init, UartInv, HandlerInv, Task, Ending, KernelInit
<1> QED BY <1>1, <1>2 DEF EndParts

(* A task of the application that prints, or leaves the place it polls at,  *)
(* outside of every section of lwIP is the one that has the UART: the tasks *)
(* that took the UART from others are ready, and of a higher priority.      *)
LEMMA RunsAlone ==
  ASSUME EndInv, NEW t \in {"Main", "Button", "Link"}, Running(t),
         step[t] \in {"go", "print", "sending", "ok", "none"},
         t # "Main" => loc[t] # "poll"
  PROVE  Printer = t
<1>1. /\ "Main" \in Task /\ "Button" \in Task /\ "Link" \in Task
      /\ tstate[t] = "ready"
  BY DEF Task, Running
<1>2. CASE suspended = t
  BY <1>1, <1>2, Tables DEF Printer
<1>3. CASE suspended = None
  <2>1. ASSUME NEW u \in Task, step[u] \in {"go", "print", "sending", "ok", "none"},
               tstate[u] # "deleted"
        PROVE  prio[u] = BasePriority[u]
    BY <2>1, Outside DEF EndInv, IInv, HeldWhereUsed, BoostEnds
  <2>2. ASSUME NEW u \in Task, tstate[u] = "ready" PROVE prio[u] <= prio[t]
    BY <1>1, <1>3, <2>2, Tables DEF Running, Task
  <2>3. t # "Link" => loc["Link"] = "poll"
    BY <1>1, <2>1, <2>2 DEF EndInv, Places, BasePriority
  <2>4. t = "Main" => loc["Button"] = "poll"
    BY <1>1, <2>1, <2>2 DEF EndInv, Places, BasePriority
  <2> QED BY <1>3, <2>3, <2>4 DEF Printer
<1> QED BY <1>2, <1>3 DEF Running

(* A step of t may let others run, but puts none to sleep and ends none. *)
Wakes(t) ==
  /\ \A u \in Task \ {t} : tstate'[u] = tstate[u] \/ (tstate'[u] = "ready" /\ tstate[u] # "deleted")
  /\ tstate'[t] = "deleted" <=> tstate[t] = "deleted"

(* A step inside a library call other than printf, or of the stack, changes *)
(* nothing of the end of the program.                                       *)
LEMMA EndQuiet ==
  ASSUME EndInv, NEW t \in Task \ {"Link"}, NEW s \in Steps, t # suspended,
         UNCHANGED <<uart, lit, finals, suspended, loc>>,
         step' = [step EXCEPT ![t] = s], Wakes(t), step[t] # "sending",
         t = "Button" => loc["Button"] \notin {"poll", "terminate"},
         t = "Tcpip" => s \in TcpipSteps, t = "Eth" => s \in EthSteps
  PROVE  EndParts'
<1>1. /\ \A u \in Task \ {t} : step'[u] = step[u]
      /\ step'[t] = s /\ suspended \in Task \cup {None}
      /\ \A u \in {"Main", "Button", "Link", "Tcpip", "Eth"} : u \in Task
  BY DEF EndInv, IInv, TypeOK, KernelTypeOK, Task
<1>2. Places'
  <2>1. /\ tstate["Link"] = "ready" => tstate'["Link"] = "ready"
        /\ t # "Button" /\ tstate["Button"] = "ready" => tstate'["Button"] = "ready"
        /\ tstate["Main"] = "deleted" <=> tstate'["Main"] = "deleted"
    BY <1>1 DEF Wakes
  <2>2. step'["Link"] = step["Link"] /\ (t # "Button" => step'["Button"] = step["Button"])
    BY <1>1
  <2>3. step'["Tcpip"] \in TcpipSteps /\ step'["Eth"] \in EthSteps
    BY <1>1 DEF EndInv, Places
  <2> QED BY <2>1, <2>2, <2>3 DEF EndInv, Places
<1>3. Printer' = Printer /\ Printer \in Task
  BY <1>1 DEF Printer
<1>4. UartInv'
  BY <1>1, <1>3 DEF EndInv, UartInv
<1>5. HandlerInv'
  BY <1>1 DEF EndInv, HandlerInv
<1> QED BY <1>2, <1>4, <1>5 DEF EndParts

(* The calls of lwIP *)
LEMMA EndCalls ==
  ASSUME EndInv, NEW t \in Task, Lock(t) \/ Unlock(t) \/ NetifCall(t) \/ Fetch(t)
  PROVE  EndParts'
<1> USE Tables, Names
<1>1. /\ tstate \in [Task -> TaskState] /\ step \in [Task -> Steps] /\ loc \in [Task -> Locs]
      /\ tstate[t] = "ready" /\ UNCHANGED <<uart, lit, finals, suspended, loc>>
  BY DEF EndInv, IInv, TypeOK, KernelTypeOK, Lock, Unlock, NetifCall, Fetch, Running, TakeMutex,
     BlockOnMutex, GiveMutex, WaitEvent, StepTo, output, kernel
<1>2. step[t] \notin {"go", "print", "sending", "ok"}
  BY DEF Lock, Unlock, NetifCall, Fetch, Wanted, Given
<1>3. t \notin {"Link", suspended} /\ (t = "Button" => loc["Button"] \notin {"poll", "terminate"})
  BY <1>2 DEF EndInv, Places, HandlerInv
<1>4. Wakes(t)
  <2>1. CASE Lock(t)
    BY <1>1, <2>1 DEF Lock, TakeMutex, BlockOnMutex, Wakes
  <2>2. CASE Unlock(t)
    <3>1. UNCHANGED tstate \/ \E w \in Waiters(Given[step[t]]) : tstate' = [tstate EXCEPT ![w] = "ready"]
      BY <2>2 DEF Unlock, GiveMutex
    <3>2. \A w \in Waiters(Given[step[t]]) : w \in Task /\ tstate[w] = "blocked"
      BY <2>2 DEF Unlock, Waiters, EndInv, IInv, Consistent
    <3> QED BY <1>1, <3>1, <3>2 DEF Wakes
  <2>3. CASE NetifCall(t) \/ Fetch(t)
    BY <1>1, <2>3 DEF NetifCall, Fetch, WaitEvent, Wakes, kernel
  <2> QED BY <2>1, <2>2, <2>3
<1>5. PICK s \in Steps : /\ step' = [step EXCEPT ![t] = s]
                         /\ t = "Tcpip" => s \in TcpipSteps
                         /\ t = "Eth" => s \in EthSteps
  <2>1. CASE Lock(t)
    <3>1. CASE UNCHANGED step
      <4>1. step' = [step EXCEPT ![t] = step[t]] /\ step[t] \in Steps
        BY <1>1, <3>1
      <4> QED BY <4>1 DEF EndInv, Places
    <3>2. CASE step' = [step EXCEPT ![t] = Taken[step[t]]]
      <4>1. step[t] \in DOMAIN Wanted
        BY <2>1 DEF Lock
      <4>2. t = "Tcpip" => Taken[step[t]] \in TcpipSteps
        BY <4>1 DEF EndInv, Places, Taken, Wanted, TcpipSteps
      <4>3. t = "Eth" => Taken[step[t]] \in EthSteps
        BY <4>1 DEF EndInv, Places, Taken, Wanted, EthSteps
      <4> QED BY <3>2, <4>1, <4>2, <4>3
    <3> QED BY <2>1, <3>1, <3>2 DEF Lock, StepTo
  <2>2. CASE Unlock(t)
    <3>1. PICK s \in Released(loc[t], step[t]) : step' = [step EXCEPT ![t] = s]
      BY <2>2 DEF Unlock, StepTo
    <3>2. step[t] \in DOMAIN Given /\ s \in Steps
      BY <2>2, ReleasedSteps DEF Unlock
    <3>3. t = "Tcpip" => s \in TcpipSteps
      BY <3>1, <3>2 DEF EndInv, Places, Given, Released, TcpipSteps
    <3>4. t = "Eth" => s \in EthSteps
      BY <3>1, <3>2 DEF EndInv, Places, Given, Released, EthSteps
    <3> QED BY <3>1, <3>2, <3>3, <3>4
  <2>3. CASE NetifCall(t) \/ Fetch(t)
    <3>1. t \notin {"Tcpip", "Eth"}
      BY <2>3 DEF NetifCall, Fetch, EndInv, Places, TcpipSteps, EthSteps
    <3>2. CASE UNCHANGED step
      <4>1. step' = [step EXCEPT ![t] = step[t]] /\ step[t] \in Steps
        BY <1>1, <3>2
      <4> QED BY <3>1, <4>1
    <3> QED BY <2>3, <3>1, <3>2, AfterSteps DEF NetifCall, Fetch, StepTo
  <2> QED BY <2>1, <2>2, <2>3
<1> QED BY <1>1, <1>2, <1>3, <1>4, <1>5, EndQuiet

(* A printf goes out in full: the task that prints has the UART. *)
LEMMA EndPrints ==
  ASSUME EndInv, NEW t \in Task, Printf(t) \/ Printed(t)
  PROVE  EndParts'
<1>1. /\ step \in [Task -> Steps] /\ Running(t) /\ step[t] \in {"print", "sending"}
      /\ finals \in Nat /\ uart \in {"ready", "busy"} /\ UNCHANGED <<tstate, suspended, loc, lit>>
  BY DEF EndInv, IInv, TypeOK, KernelTypeOK, Printf, Printed, StepTo, kernel
<1>2. t \in {"Main", "Button", "Link"} /\ (t # "Main" => loc[t] \notin {"poll", "terminate"})
  BY <1>1 DEF EndInv, Places, TcpipSteps, EthSteps, Task
<1>3. Printer = t /\ Printer' = t
  BY <1>1, <1>2, RunsAlone DEF Printer
<1>4. suspended # None => suspended = t /\ loc[t] = "final" /\ finals = 0 /\ ~lit
  BY <1>1, <1>3 DEF EndInv, HandlerInv, Running
<1>5. loc[t] \in {"final", "notice"} => AfterPrint(loc[t]) = "ok"
  BY DEF AfterPrint, AfterWrite, NetifLocs, WriteLocs, ReadLocs
<1>6. t = "Link" => loc[t] \in {"final", "notice"}
  BY <1>1, <1>2, <1>4, Tables DEF EndInv, Places, HandlerInv, Ending
<1>7. CASE Printf(t)
  <2>1. step' = [step EXCEPT ![t] = "sending"] /\ finals' = finals /\ step[t] = "print"
    BY <1>1, <1>3, <1>7 DEF Printf, EndInv, UartInv, StepTo
  <2>2. Places'
    BY <1>1, <1>2, <2>1 DEF EndInv, Places
  <2>3. UartInv'
    BY <1>1, <1>3, <2>1 DEF UartInv
  <2>4. HandlerInv'
    BY <1>1, <1>4, <2>1 DEF EndInv, HandlerInv
  <2> QED BY <2>2, <2>3, <2>4 DEF EndParts
<1>8. CASE Printed(t)
  <2>1. /\ step' = [step EXCEPT ![t] = AfterPrint(loc[t])] /\ uart' = "ready"
        /\ finals' = IF loc[t] = "final" THEN finals + 1 ELSE finals
    BY <1>8 DEF Printed, StepTo
  <2>2. Places'
    BY <1>1, <1>2, <1>5, <1>6, <2>1 DEF EndInv, Places
  <2>3. UartInv'
    BY <2>1 DEF UartInv
  <2>4. HandlerInv'
    <3>1. \A u \in Task : loc'[u] \in Ending => u = suspended'
      BY <1>1 DEF EndInv, HandlerInv
    <3>2. CASE suspended = None
      BY <1>1, <2>1, <3>1, <3>2, Tables DEF EndInv, HandlerInv, Ending
    <3>3. CASE suspended # None
      BY <1>1, <1>4, <1>5, <2>1, <3>1, <3>3 DEF HandlerInv
    <3> QED BY <3>2, <3>3
  <2> QED BY <2>2, <2>3, <2>4 DEF EndParts
<1> QED BY <1>7, <1>8

(* A call of Error_Handler finds the scheduler running and the UART free. *)
LEMMA EndBegins ==
  ASSUME EndInv, NEW t \in {"Main", "Button", "Link"}, Running(t), EndProgram(t),
         step[t] \in {"ok", "none"}, loc[t] \notin Ending \cup {"poll", "terminate"},
         UNCHANGED <<uart, lit, finals>>
  PROVE  EndParts'
<1>1. /\ step \in [Task -> Steps] /\ loc \in [Task -> Locs] /\ t \in Task
      /\ uart \in {"ready", "busy"} /\ None \notin Task
  BY Tables DEF EndInv, IInv, TypeOK, Task
<1>2. suspended = None
  BY <1>1 DEF EndInv, HandlerInv, Running, Ending
<1>3. Printer = t
  BY RunsAlone
<1>4. uart = "ready"
  BY <1>1, <1>3 DEF EndInv, UartInv
<1>5. /\ suspended' = t /\ tstate' = tstate
      /\ loc' = [loc EXCEPT ![t] = "leds"] /\ step' = [step EXCEPT ![t] = "go"]
  BY <1>2 DEF EndProgram, KernelLock, GotoStep
<1>6. Places'
  BY <1>1, <1>5 DEF EndInv, Places, Running
<1>7. UartInv'
  BY <1>4 DEF UartInv
<1>8. HandlerInv'
  BY <1>1, <1>2, <1>5 DEF EndInv, HandlerInv
<1> QED BY <1>6, <1>7, <1>8 DEF EndParts

(* Main_Thread *)
LEMMA EndMain == ASSUME EndInv, Main_Thread PROVE EndParts'
<1> USE Names
<1>1. /\ step \in [Task -> Steps] /\ loc \in [Task -> Locs] /\ "Main" \in Task
      /\ None \notin Task /\ Running("Main") /\ step["Main"] \in {"go", "ok", "none"}
      /\ loc["Main"] \notin Ending
  BY Tables DEF EndInv, IInv, TypeOK, Task, Ending, AfterAck, At, Main_Thread, Main_Start,
     Main_Booted, Main_WaitLink, Main_Dhcp, Main_Request, Main_Ack, Main_Announced, Main_Read,
     Main_Ping, Main_Commanded, Main_Lost
<1>2. suspended = None /\ tstate["Main"] = "ready"
  BY <1>1 DEF EndInv, HandlerInv, Running, Ending
<1>3. CASE EndProgram("Main")
  <2>1. UNCHANGED <<uart, lit, finals>> /\ step["Main"] \in {"ok", "none"}
    <3>1. loc'["Main"] = "leds"
      BY <1>1, <1>3 DEF EndProgram, GotoStep
    <3>2. Main_Request \/ Main_Ack \/ Main_Lost
      BY <1>1, <3>1 DEF Main_Thread, Main_Start, Main_Booted, Main_WaitLink, Main_Dhcp,
         Main_Announced, Main_Read, Main_Ping, Main_Commanded, Command, Goto, GotoStep, StepTo, At
    <3> QED BY <3>2 DEF Main_Request, Main_Ack, Main_Lost, At, output
  <2>2. loc["Main"] \notin {"poll", "terminate"}
    BY DEF Main_Thread, AfterAck, At, Main_Start,
     Main_Booted, Main_WaitLink, Main_Dhcp, Main_Request, Main_Ack, Main_Announced, Main_Read,
     Main_Ping, Main_Commanded, Main_Lost
  <2> QED BY <1>1, <1>3, <2>1, <2>2, EndBegins
<1>4. CASE ~EndProgram("Main")
  <2>1. UNCHANGED <<uart, finals, suspended>>
    BY <1>4 DEF Main_Thread, Main_Start, Main_Booted, Main_WaitLink, Main_Dhcp, Main_Request,
       Main_Ack, Main_Announced, Main_Read, Main_Ping, Main_Commanded, Main_Lost, output, kernel
  <2>2. \A u \in Task : tstate'[u] = tstate[u] \/ (tstate[u] = "absent" /\ tstate'[u] = "ready")
    <3>1. CASE UNCHANGED tstate
      BY <3>1
    <3>2. CASE Main_Start \/ Main_WaitLink \/ Main_Announced
      BY <1>1, <3>1, <3>2 DEF Main_Start, Main_WaitLink, Main_Announced, CreatedBy, Created,
         EndInv, IInv, At
    <3> QED BY <1>4, <3>1, <3>2 DEF Main_Thread, Main_Booted, Main_Dhcp, Main_Request,
         Main_Ack, Main_Read, Main_Ping, Main_Commanded, Main_Lost, kernel
  <2>3. PICK l \in Locs \ Ending, s \in Steps :
          loc' = [loc EXCEPT !["Main"] = l] /\ step' = [step EXCEPT !["Main"] = s]
    <3>1. CASE UNCHANGED <<loc, step>>
      <4>1. /\ loc = [loc EXCEPT !["Main"] = loc["Main"]]
            /\ step = [step EXCEPT !["Main"] = step["Main"]]
            /\ loc["Main"] \in Locs /\ step["Main"] \in Steps
        BY <1>1
      <4> QED BY <1>1, <3>1, <4>1
    <3>2. CASE Main_Start
      <4>1. loc = [loc EXCEPT !["Main"] = loc["Main"]] /\ loc["Main"] \in Locs
        BY <1>1
      <4> QED BY <1>1, <3>2, <4>1 DEF Main_Start, StepTo
    <3>3. CASE ~Main_Start /\ ~UNCHANGED <<loc, step>>
      BY <1>1, <1>4, <3>3 DEF Main_Thread, Main_Booted, Main_WaitLink, Main_Dhcp, Main_Request,
         Main_Ack, Main_Announced, Main_Read, Main_Ping, Main_Commanded, Main_Lost, AfterAck,
         Command, Goto, GotoStep, Ending
    <3> QED BY <3>1, <3>2, <3>3
  <2>4. Places'
    <3>1. /\ loc'["Link"] = loc["Link"] /\ step'["Link"] = step["Link"]
          /\ loc'["Button"] = loc["Button"] /\ step'["Button"] = step["Button"]
          /\ loc'["Tcpip"] = loc["Tcpip"] /\ step'["Tcpip"] = step["Tcpip"]
          /\ loc'["Eth"] = loc["Eth"] /\ step'["Eth"] = step["Eth"]
      BY <2>3 DEF EndInv, IInv, TypeOK, Task
    <3>2. \A u \in {"Link", "Button"} : tstate[u] = "ready" => tstate'[u] = "ready"
      BY <2>2 DEF Task
    <3> QED BY <1>2, <3>1, <3>2 DEF EndInv, Places
  <2>5. UartInv'
    BY <1>1, <1>2, <2>1, <2>3, RunsAlone DEF EndInv, UartInv, Printer, Task
  <2>6. HandlerInv'
    BY <1>1, <1>2, <2>1, <2>3 DEF EndInv, HandlerInv
  <2> QED BY <2>4, <2>5, <2>6 DEF EndParts
<1> QED BY <1>3, <1>4

(* Link_Thread and Button_Thread take the UART from whoever has it. *)
LEMMA EndApplication ==
  ASSUME EndInv, Link_Thread \/ Button_Thread
  PROVE  EndParts'
<1> USE Names
<1>1. /\ step \in [Task -> Steps] /\ loc \in [Task -> Locs] /\ tstate \in [Task -> TaskState]
      /\ \A u \in {"Main", "Button", "Link", "Tcpip", "Eth"} : u \in Task
      /\ None \notin Task
  BY Tables DEF EndInv, IInv, TypeOK, KernelTypeOK, Task
<1>2. ASSUME NEW t \in {"Button", "Link"}, Running(t), loc[t] \notin Ending
      PROVE  suspended = None
  BY <1>1, <1>2 DEF EndInv, HandlerInv, Running, Ending
<1>3. CASE Link_Poll
  <2>1. Running("Link") /\ loc["Link"] = "poll" /\ suspended = None /\ UNCHANGED <<lit, finals, suspended>>
    BY <1>1, <1>2, <1>3 DEF Link_Poll, At, Delay, kernel, Ending
  <2>2. CASE Delay("Link") /\ UNCHANGED <<loc, step, uart>>
    <3>1. tstate' = [tstate EXCEPT !["Link"] = "delayed"] /\ UNCHANGED <<loc, step, uart, suspended>>
      BY <2>2 DEF Delay
    <3>2. Places'
      BY <1>1, <2>1, <3>1 DEF EndInv, Places
    <3>3. UartInv' /\ HandlerInv'
      BY <2>1, <3>1 DEF EndInv, UartInv, Printer, HandlerInv
    <3> QED BY <3>2, <3>3 DEF EndParts
  <2>3. CASE Goto("Link", "notice") /\ UartRestart /\ UNCHANGED kernel
    <3>1. /\ loc' = [loc EXCEPT !["Link"] = "notice"] /\ step' = [step EXCEPT !["Link"] = "print"]
          /\ uart' = "ready" /\ tstate' = tstate
      BY <2>3 DEF Goto, GotoStep, UartRestart, kernel
    <3>2. Places'
      BY <1>1, <2>1, <3>1 DEF EndInv, Places, Running
    <3>3. UartInv' /\ HandlerInv'
      BY <1>1, <2>1, <3>1 DEF EndInv, UartInv, HandlerInv, Ending
    <3> QED BY <3>2, <3>3 DEF EndParts
  <2> QED BY <1>3, <2>2, <2>3 DEF Link_Poll
<1>4. CASE Button_Poll
  <2>1. Running("Button") /\ loc["Button"] = "poll" /\ suspended = None /\ UNCHANGED <<lit, finals, suspended>>
    BY <1>1, <1>2, <1>4 DEF Button_Poll, At, Delay, kernel, Ending
  <2>2. CASE Delay("Button") /\ UNCHANGED <<loc, step, uart>>
    <3>1. tstate' = [tstate EXCEPT !["Button"] = "delayed"] /\ UNCHANGED <<loc, step, uart, suspended>>
      BY <2>2 DEF Delay
    <3>2. Places'
      BY <1>1, <2>1, <3>1 DEF EndInv, Places
    <3>3. UartInv' /\ HandlerInv'
      BY <2>1, <3>1 DEF EndInv, UartInv, Printer, HandlerInv
    <3> QED BY <3>2, <3>3 DEF EndParts
  <2>3. CASE GotoStep("Button", "terminate", "go") /\ UartRestart /\ UNCHANGED kernel
    <3>1. /\ loc' = [loc EXCEPT !["Button"] = "terminate"] /\ step' = [step EXCEPT !["Button"] = "go"]
          /\ uart' = "ready" /\ tstate' = tstate
      BY <2>3 DEF GotoStep, UartRestart, kernel
    <3>2. Places'
      BY <1>1, <2>1, <3>1 DEF EndInv, Places, Running
    <3>3. UartInv' /\ HandlerInv'
      BY <1>1, <2>1, <3>1 DEF EndInv, UartInv, HandlerInv, Ending
    <3> QED BY <3>2, <3>3 DEF EndParts
  <2> QED BY <1>4, <2>2, <2>3 DEF Button_Poll
<1>5. CASE Button_Terminate
  <2>1. /\ Running("Button") /\ loc["Button"] = "terminate" /\ step["Button"] = "go"
        /\ suspended = None /\ Printer = "Button"
    BY <1>1, <1>2, <1>5, RunsAlone DEF Button_Terminate, At, Ending
  <2>2. /\ tstate' = [tstate EXCEPT !["Main"] = "deleted"]
        /\ loc' = [loc EXCEPT !["Main"] = "gone", !["Button"] = "notice"]
        /\ step' = [step EXCEPT !["Main"] = "gone", !["Button"] = "print"]
        /\ UNCHANGED <<uart, lit, finals, suspended>>
    BY <1>5 DEF Button_Terminate, Terminate, output
  <2>3. /\ loc' = [u \in Task |-> IF u = "Button" THEN "notice" ELSE IF u = "Main" THEN "gone" ELSE loc[u]]
        /\ step' = [u \in Task |-> IF u = "Button" THEN "print" ELSE IF u = "Main" THEN "gone" ELSE step[u]]
    BY <1>1, <2>2
  <2>4. Places'
    BY <1>1, <2>2, <2>3 DEF EndInv, Places
  <2>5. UartInv'
    BY <2>1, <2>2 DEF EndInv, UartInv
  <2>6. HandlerInv'
    BY <1>1, <2>1, <2>2, <2>3 DEF EndInv, HandlerInv, Ending
  <2> QED BY <2>4, <2>5, <2>6 DEF EndParts
<1>6. CASE Link_Notice \/ Button_Closed
  BY <1>6, EndBegins DEF Link_Notice, Button_Closed, At, output, Ending
<1>7. CASE Button_Close
  <2>1. /\ Running("Button") /\ loc["Button"] \in DOMAIN AfterClosing /\ step["Button"] \in {"ok", "none"}
        /\ loc["Button"] \notin Ending \cup {"poll", "terminate"} /\ UNCHANGED output
        /\ AfterClosing[loc["Button"]] \in {"unsubscribe", "bye", "disconnect", "drain"}
    BY <1>7 DEF Button_Close, AfterClosing, Ending
  <2>2. CASE EndProgram("Button")
    BY <2>1, <2>2, EndBegins DEF output
  <2>3. CASE Goto("Button", AfterClosing[loc["Button"]]) /\ UNCHANGED kernel
    <3>1. PICK l \in {"unsubscribe", "bye", "disconnect", "drain"} :
            /\ loc' = [loc EXCEPT !["Button"] = l] /\ step' = [step EXCEPT !["Button"] = "print"]
            /\ UNCHANGED <<tstate, suspended, uart, lit, finals>>
      BY <2>1, <2>3 DEF Goto, GotoStep, kernel, output
    <3>2. suspended = None /\ Printer = "Button"
      BY <1>2, <2>1, RunsAlone
    <3>3. Places'
      BY <1>1, <2>1, <3>1 DEF EndInv, Places
    <3>4. UartInv'
      BY <2>1, <3>1, <3>2 DEF EndInv, UartInv
    <3>5. HandlerInv'
      BY <1>1, <3>1, <3>2 DEF EndInv, HandlerInv, Ending
    <3> QED BY <3>3, <3>4, <3>5 DEF EndParts
  <2> QED BY <1>7, <2>2, <2>3 DEF Button_Close
<1>8. CASE Button_Drain
  <2>1. /\ Running("Button") /\ loc["Button"] = "drain" /\ step["Button"] \in {"ok", "none"}
        /\ UNCHANGED <<tstate, suspended, uart, lit, finals>>
    BY <1>8 DEF Button_Drain, kernel, output
  <2>2. PICK l \in {"drain", "close"}, s \in {"rWait", "wLock"} :
          loc' = [loc EXCEPT !["Button"] = l] /\ step' = [step EXCEPT !["Button"] = s]
    <3>1. loc = [loc EXCEPT !["Button"] = loc["Button"]]
      BY <1>1
    <3> QED BY <1>8, <2>1, <3>1 DEF Button_Drain, StepTo, GotoStep
  <2>3. suspended = None /\ Printer = "Button"
    BY <1>2, <2>1, RunsAlone DEF Ending
  <2>4. Places'
    BY <1>1, <2>1, <2>2 DEF EndInv, Places
  <2>5. UartInv'
    BY <2>1, <2>2, <2>3 DEF EndInv, UartInv
  <2>6. HandlerInv'
    BY <1>1, <2>1, <2>2, <2>3 DEF EndInv, HandlerInv, Ending
  <2> QED BY <2>4, <2>5, <2>6 DEF EndParts
<1> QED BY <1>3, <1>4, <1>5, <1>6, <1>7, <1>8 DEF Link_Thread, Button_Thread

(* Error_Handler, in the task that suspended the scheduler *)
LEMMA EndHandler ==
  ASSUME EndInv, NEW t \in Task, Error_Handler(t)
  PROVE  EndParts'
<1>1. /\ step \in [Task -> Steps] /\ loc \in [Task -> Locs] /\ None \notin Task
      /\ suspended = t /\ t \in {"Main", "Button", "Link"}
  BY Tables DEF EndInv, IInv, TypeOK, HandlerInv, Ending, Places, Task, Error_Handler, Error_Leds,
     Error_Halt, At
<1>2. PICK l \in {"final", "halt"} :
        /\ loc' = [loc EXCEPT ![t] = l]
        /\ step' = [step EXCEPT ![t] = IF l = "final" THEN "print" ELSE "go"]
        /\ l = "final" => loc[t] = "leds" /\ ~lit'
        /\ l = "halt" => loc[t] = "final" /\ step[t] = "ok" /\ lit' = lit
        /\ UNCHANGED <<tstate, suspended, uart, finals>> /\ step[t] # "sending"
  BY DEF Error_Handler, Error_Leds, Error_Halt, At, Goto, GotoStep, kernel, output
<1>3. Places'
  BY <1>1, <1>2 DEF EndInv, Places
<1>4. UartInv'
  BY <1>1, <1>2 DEF EndInv, UartInv, Printer
<1>5. HandlerInv'
  BY <1>1, <1>2 DEF EndInv, HandlerInv, Ending
<1> QED BY <1>3, <1>4, <1>5 DEF EndParts

(* lwIP's tasks, time and the world *)
LEMMA EndStack ==
  ASSUME EndInv, NEW t \in Task,
         \/ t = "Tcpip" /\ (Tcpip_Thread \/ Tcpip_Timeout)
         \/ t = "Eth" /\ (Eth_Thread \/ FrameArrives)
         \/ ReadTimeout(t)
  PROVE  EndParts'
<1> USE Names
<1>1. /\ step \in [Task -> Steps] /\ tstate \in [Task -> TaskState]
      /\ UNCHANGED <<uart, lit, finals, suspended, loc>>
  BY DEF EndInv, IInv, TypeOK, KernelTypeOK, Tcpip_Thread, Tcpip_Fetch, Tcpip_Input, Tcpip_Timeout,
     Eth_Thread, Eth_Wait, Eth_Post, FrameArrives, ReadTimeout, WaitEvent, StepTo, kernel, output
<1>2. step[t] \notin {"go", "print", "sending", "ok"}
  BY DEF EndInv, Places, TcpipSteps, EthSteps, ReadTimeout
<1>3. t \notin {"Link", suspended} /\ (t = "Button" => loc["Button"] \notin {"poll", "terminate"})
  BY <1>2, Tables DEF EndInv, Places, HandlerInv
<1>4. Wakes(t)
  BY <1>1 DEF Tcpip_Thread, Tcpip_Fetch, Tcpip_Input, Tcpip_Timeout, Eth_Thread, Eth_Wait, Eth_Post,
     FrameArrives, ReadTimeout, WaitEvent, Signalled, kernel, Wakes, Running
<1>5. PICK s \in Steps : /\ step' = [step EXCEPT ![t] = s]
                         /\ t = "Tcpip" => s \in TcpipSteps
                         /\ t = "Eth" => s \in EthSteps
  <2>1. CASE UNCHANGED step
    <3>1. step' = [step EXCEPT ![t] = step[t]] /\ step[t] \in Steps
      BY <1>1, <2>1
    <3> QED BY <3>1 DEF EndInv, Places
  <2>2. CASE ~UNCHANGED step
    <3>1. CASE t = "Tcpip"
      BY <2>2, <3>1 DEF Tcpip_Thread, Tcpip_Fetch, Tcpip_Input, Tcpip_Timeout, ReadTimeout, StepTo,
         EndInv, Places, TcpipSteps
    <3>2. CASE t = "Eth"
      BY <2>2, <3>2 DEF Eth_Thread, Eth_Wait, Eth_Post, FrameArrives, ReadTimeout, StepTo,
         EndInv, Places, EthSteps
    <3>3. CASE t \notin {"Tcpip", "Eth"}
      BY <3>3 DEF ReadTimeout, StepTo
    <3> QED BY <3>1, <3>2, <3>3
  <2> QED BY <2>1, <2>2
<1> QED BY <1>1, <1>2, <1>3, <1>4, <1>5, EndQuiet

(* Every step keeps the invariant of the end of the program. *)
LEMMA EndStep == EndInv /\ [Next]_vars => EndParts'
<1> SUFFICES ASSUME EndInv, [Next]_vars PROVE EndParts'
  OBVIOUS
<1>0. "Tcpip" \in Task /\ "Eth" \in Task
  BY DEF Task
<1>1. ASSUME NEW t \in Task, Step(t) PROVE EndParts'
  BY <1>0, <1>1, EndCalls, EndPrints, EndMain, EndApplication, EndHandler, EndStack
     DEF Step, LibraryCall
<1>2. ASSUME NEW t \in Task, Tick(t), UNCHANGED <<loc, step, output, bsr, queues>>
      PROVE  EndParts'
  <2>1. /\ tstate' = [tstate EXCEPT ![t] = "ready"] /\ tstate[t] = "delayed"
        /\ UNCHANGED <<suspended, loc, step, uart, lit, finals>>
    BY <1>2 DEF Tick, output
  <2>2. Places'
    BY <2>1 DEF EndInv, Places
  <2>3. UartInv' /\ HandlerInv'
    BY <2>1 DEF EndInv, UartInv, Printer, HandlerInv
  <2> QED BY <2>2, <2>3 DEF EndParts
<1>3. ASSUME NEW t \in Task, Expire(t) PROVE EndParts'
  BY <1>2, <1>3, EndStack DEF Expire
<1>4. CASE LinkDrops \/ UNCHANGED vars
  BY <1>4 DEF LinkDrops, vars, kernel, output, EndInv, EndParts, Places, UartInv, Printer, HandlerInv
<1>5. CASE World
  BY <1>0, <1>4, <1>5, EndStack DEF World
<1> QED BY <1>1, <1>3, <1>4, <1>5 DEF Next

(* The invariant of the end of the program: one task has the UART, the      *)
(* others that would print are of a lower priority, and only the task that  *)
(* suspended the scheduler is in Error_Handler.                             *)
THEOREM EndInvariance == Spec => []EndParts
<1>1. EndParts /\ IInv /\ BoostEnds /\ [Next]_vars => EndParts'
  BY EndStep DEF EndInv, EndParts
<1> QED BY InitEnd, <1>1, Invariance, PriorityBoostEnds, PTL DEF Spec

(* Error_Handler reports the end once and in full, with the LEDs off,       *)
(* whichever task ends the program and whatever it interrupted.             *)
THEOREM EndIsReported == Spec => []EndReported
<1>1. IInv /\ EndParts => EndReported
  <2> SUFFICES ASSUME IInv, EndParts PROVE EndReported
    OBVIOUS
  <2>1. finals <= 1
    BY DEF EndParts, HandlerInv
  <2>2. ASSUME NEW t \in Task, loc[t] = "halt" PROVE finals = 1 /\ ~lit
    <3>1. t = suspended /\ suspended # None
      BY <2>2, Tables DEF EndParts, HandlerInv, Ending
    <3> QED BY <2>2, <3>1 DEF EndParts, HandlerInv
  <2> QED BY <2>1, <2>2 DEF EndReported
<1> QED BY <1>1, EndInvariance, Invariance, PTL

-----------------------------------------------------------------------------
(* Priority inversion                                                       *)

NoOrphan == \A m \in Mutex : ~Orphaned(m)

(* Nothing is raised above the task of the highest priority. *)
Bounds == \A t \in Task : BasePriority[t] <= prio[t] /\ prio[t] <= 48

Wants(t, m) == step[t] \in DOMAIN Wanted /\ Wanted[step[t]] = m

(* A task that waits for a mutex is not above the one that holds it, nor,   *)
(* when it was given back and not taken yet, above a ready task that is     *)
(* about to take it.                                                        *)
Covered ==
  \A t \in Task, m \in Mutex : waits[t] = m =>
    /\ holder[m] # None => prio[t] <= prio[holder[m]]
    /\ holder[m] = None => \E w \in Task : tstate[w] = "ready" /\ Wants(w, m) /\ prio[t] <= prio[w]

(* Nor above the task that suspended the scheduler. *)
SuspendedAbove ==
  suspended # None => \A t \in Task : waits[t] # None => prio[t] <= prio[suspended]

InversionInv == Bounds /\ (NoOrphan => Covered /\ SuspendedAbove)

(* What the inductive invariants say of types, in one place *)
LEMMA Typed ==
  ASSUME EndInv
  PROVE  /\ tstate \in [Task -> TaskState] /\ prio \in [Task -> Nat] /\ step \in [Task -> Steps]
         /\ holder \in [Mutex -> Task \cup {None}] /\ waits \in [Task -> Mutex \cup {None}]
         /\ suspended \in Task \cup {None} /\ None \notin Task /\ None \notin Mutex
         /\ HeldWhereUsed /\ Consistent
BY Tables DEF EndInv, IInv, TypeOK, KernelTypeOK

LEMMA InitInversion == Init => InversionInv
<1> SUFFICES ASSUME Init PROVE InversionInv
  OBVIOUS
<1>1. Bounds
  BY DEF Init, KernelInit, Bounds, BasePriority, Task
<1>2. Covered /\ SuspendedAbove
  BY Tables DEF Init, KernelInit, Covered, SuspendedAbove
<1> QED BY <1>1, <1>2 DEF InversionInv

(* Above a task that waits there is always one that is ready: the chain of  *)
(* holders has at most two tasks.                                           *)
LEMMA Awake ==
  ASSUME EndInv, NoOrphan, Covered, NEW t \in Task, waits[t] # None
  PROVE  \E w \in Task : tstate[w] = "ready" /\ prio[t] <= prio[w]
<1> USE Typed
<1>1. ASSUME NEW x \in Task, NEW m \in Mutex, waits[x] = m, holder[m] = None
      PROVE  \E w \in Task : tstate[w] = "ready" /\ prio[x] <= prio[w]
  BY <1>1 DEF Covered
<1>2. ASSUME NEW x \in Task, NEW m \in Mutex, waits[x] = m, holder[m] # None
      PROVE  /\ holder[m] \in Task /\ prio[x] <= prio[holder[m]]
             /\ tstate[holder[m]] = "ready" \/ (m = "core" /\ waits[holder[m]] = "sys")
  <2>1. holder[m] \in Task /\ tstate[holder[m]] # "deleted" /\ prio[x] <= prio[holder[m]]
    BY <1>2 DEF NoOrphan, Orphaned, Covered
  <2>2. step[holder[m]] \in Inside[m]
    BY <2>1 DEF HeldWhereUsed
  <2>3. tstate[holder[m]] \in {"ready", "blocked"}
    BY <2>1, <2>2 DEF Consistent, TaskState
  <2>4. CASE tstate[holder[m]] = "blocked"
    BY <2>1, <2>2, <2>4, WantedInside DEF Consistent
  <2> QED BY <2>1, <2>3, <2>4
<1>3. waits[t] \in Mutex /\ "sys" \in Mutex /\ "sys" # None
  BY DEF Mutex, None
<1>4. CASE holder[waits[t]] = None
  BY <1>1, <1>3, <1>4
<1>5. CASE holder[waits[t]] # None
  <2> DEFINE h == holder[waits[t]]
  <2>1. h \in Task /\ prio[t] <= prio[h] /\ (tstate[h] = "ready" \/ waits[h] = "sys")
    BY <1>2, <1>3, <1>5
  <2>2. CASE tstate[h] = "ready"
    BY <2>1, <2>2
  <2>3. CASE waits[h] = "sys"
    <3>1. \E w \in Task : tstate[w] = "ready" /\ prio[h] <= prio[w]
      <4>1. CASE holder["sys"] = None
        BY <1>1, <1>3, <2>1, <2>3, <4>1
      <4>2. CASE holder["sys"] # None
        <5>1. holder["sys"] \in Task /\ prio[h] <= prio[holder["sys"]] /\ tstate[holder["sys"]] = "ready"
          BY <1>2, <1>3, <2>1, <2>3, <4>2
        <5> QED BY <5>1
      <4> QED BY <4>1, <4>2
    <3> QED BY <2>1, <3>1
  <2> QED BY <2>1, <2>2, <2>3
<1> QED BY <1>4, <1>5

(* So a task that runs is not below one that waits. *)
LEMMA NotInverted == EndInv /\ InversionInv => NoPriorityInversion
<1> SUFFICES ASSUME EndInv, InversionInv, NoOrphan, NEW t \in Task, NEW u \in Task,
                    waits[t] # None, Running(u)
             PROVE  prio[u] >= prio[t]
  BY DEF NoPriorityInversion, NoOrphan
<1> USE Typed
<1>1. CASE suspended = u
  BY <1>1 DEF InversionInv, SuspendedAbove
<1>2. CASE suspended = None
  <2>1. PICK w \in Task : tstate[w] = "ready" /\ prio[t] <= prio[w]
    BY Awake DEF InversionInv
  <2>2. prio[w] <= prio[u]
    BY <1>2, <2>1 DEF Running
  <2> QED BY <2>1, <2>2
<1> QED BY <1>1, <1>2 DEF Running

(* A task that holds "core", one that wants it, and one that holds or wants *)
(* "sys", are one of the application's and the two of the stack.            *)
LEMMA ThirdTask ==
  ASSUME EndInv, NEW t \in Task, NEW v \in Task, NEW u \in Task, t # v, t # u, v # u,
         tstate[t] # "deleted", tstate[v] # "deleted", tstate[u] # "deleted",
         step[t] \in Inside["core"], Wants(v, "core"),
         step[u] \in Inside["sys"] \/ Wants(u, "sys")
  PROVE  u = "Eth"
<1>1. ASSUME NEW x \in {t, v, u}
      PROVE  x \in {"Main", "Button", "Tcpip", "Eth"} /\ step[x] # "go"
  BY <1>1 DEF EndInv, Places, Inside, Wants, Wanted, Task
<1>2. ~(\E x, y \in {t, v, u} : x = "Main" /\ y = "Button")
  BY <1>1 DEF EndInv, Places
<1>3. t # "Eth" /\ v # "Eth"
  BY DEF EndInv, Places, EthSteps, Inside, Wants, Wanted
<1> QED BY <1>1, <1>2, <1>3

(* A task takes the mutex it wants. *)
LEMMA InversionTake ==
  ASSUME EndInv, InversionInv, NEW t \in Task, Lock(t), TakeMutex(t, Wanted[step[t]]),
         StepTo(t, Taken[step[t]])
  PROVE  InversionInv'
<1> USE Typed
<1> DEFINE k == Wanted[step[t]]
<1>1. /\ k \in Mutex /\ tstate[t] = "ready" /\ step[t] \in DOMAIN Wanted /\ holder[k] = None
      /\ holder' = [holder EXCEPT ![k] = t] /\ UNCHANGED <<tstate, prio, waits, suspended>>
      /\ step' = [step EXCEPT ![t] = Taken[step[t]]]
  BY Tables DEF Lock, Running, TakeMutex, StepTo
<1> HIDE DEF k
<1>2. suspended = None
  BY <1>1 DEF Lock, Running, EndInv, HandlerInv, Wanted
<1>3. \A w \in Task : tstate[w] = "ready" => prio[w] <= prio[t]
  BY <1>2 DEF Lock, Running
<1>4. NoOrphan' => NoOrphan
  BY <1>1 DEF NoOrphan, Orphaned
<1>5. ASSUME NoOrphan', NEW x \in Task, NEW m \in Mutex, waits'[x] = m
      PROVE  /\ holder'[m] # None => prio'[x] <= prio'[holder'[m]]
             /\ holder'[m] = None =>
                  \E w \in Task : tstate'[w] = "ready" /\ Wants(w, m)' /\ prio'[x] <= prio'[w]
  <2>1. Covered
    BY <1>4, <1>5 DEF InversionInv
  <2>2. waits[x] = m
    BY <1>1, <1>5
  <2>3. CASE m = k
    <3>1. PICK w \in Task : tstate[w] = "ready" /\ prio[x] <= prio[w]
      BY <1>1, <2>1, <2>2, <2>3 DEF Covered
    <3>2. prio[x] <= prio[t]
      BY <1>3, <3>1
    <3> QED BY <1>1, <2>3, <3>2
  <2>4. CASE m # k
    <3>1. holder'[m] = holder[m]
      BY <1>1, <2>4
    <3>2. CASE holder[m] # None
      BY <1>1, <2>1, <2>2, <3>1, <3>2 DEF Covered
    <3>3. CASE holder[m] = None
      <4>1. PICK w \in Task : tstate[w] = "ready" /\ Wants(w, m) /\ prio[x] <= prio[w]
        BY <2>1, <2>2, <3>3 DEF Covered
      <4>2. w # t
        BY <2>4, <4>1 DEF Wants, k
      <4>3. Wants(w, m)'
        BY <1>1, <4>1, <4>2 DEF Wants
      <4> QED BY <1>1, <3>1, <3>3, <4>1, <4>3
    <3> QED BY <3>2, <3>3
  <2> QED BY <2>3, <2>4
<1>6. Bounds' /\ SuspendedAbove'
  BY <1>1, <1>2 DEF InversionInv, Bounds, SuspendedAbove
<1> QED BY <1>5, <1>6 DEF InversionInv, Covered

(* A task blocks on a mutex, and its holder inherits its priority. *)
LEMMA InversionBlock ==
  ASSUME EndInv, InversionInv, NEW t \in Task, Lock(t), BlockOnMutex(t, Wanted[step[t]]),
         UNCHANGED step
  PROVE  InversionInv'
<1> USE Typed
<1> DEFINE k == Wanted[step[t]]
           h == holder[k]
<1>1. /\ k \in Mutex /\ tstate[t] = "ready" /\ step[t] \in DOMAIN Wanted /\ h \in Task
      /\ prio' = [prio EXCEPT ![h] = IF prio[h] < prio[t] THEN prio[t] ELSE prio[h]]
      /\ tstate' = [tstate EXCEPT ![t] = "blocked"] /\ waits' = [waits EXCEPT ![t] = k]
      /\ UNCHANGED <<holder, suspended, step>>
  BY Tables DEF Lock, Running, BlockOnMutex, Inherited
<1>2. suspended = None
  BY <1>1 DEF Lock, Running, EndInv, HandlerInv, Wanted
<1>3. \A w \in Task : tstate[w] = "ready" => prio[w] <= prio[t]
  BY <1>2 DEF Lock, Running
<1>4. h # t /\ (tstate[h] # "deleted" => step[h] \in Inside[k])
  BY <1>1, TakenInside DEF HeldWhereUsed
<1> HIDE DEF k, h
<1>5. NoOrphan' => NoOrphan
  BY <1>1 DEF NoOrphan, Orphaned
<1>7. /\ prio'[h] \in Nat /\ prio[h] <= prio'[h] /\ prio[t] <= prio'[h] /\ prio'[h] \in {prio[h], prio[t]}
      /\ \A x \in Task : x # h => prio'[x] = prio[x]
      /\ \A x \in Task : prio[x] \in Nat /\ prio[x] <= prio'[x]
  BY <1>1
<1>6. ASSUME NEW x \in Task PROVE BasePriority[x] <= prio'[x] /\ prio'[x] <= 48
  <2>1. BasePriority[x] \in Nat /\ BasePriority[x] <= prio[x] /\ prio[x] <= 48 /\ prio[t] <= 48
    BY Tables DEF InversionInv, Bounds
  <2> QED BY <1>1, <1>7, <2>1
<1>8. ASSUME NoOrphan', NEW x \in Task, NEW m \in Mutex, waits'[x] = m
      PROVE  /\ holder'[m] # None => prio'[x] <= prio'[holder'[m]]
             /\ holder'[m] = None =>
                  \E w \in Task : tstate'[w] = "ready" /\ Wants(w, m)' /\ prio'[x] <= prio'[w]
  <2>1. Covered /\ NoOrphan
    BY <1>5, <1>8 DEF InversionInv
  <2>2. CASE x = t
    <3>1. m = k /\ holder'[m] = h /\ prio'[x] = prio[t]
      BY <1>1, <1>4, <1>7, <1>8, <2>2 DEF h
    <3> QED BY <1>1, <1>7, <3>1
  <2>3. CASE x # t /\ (x # h \/ prio'[h] = prio[h])
    <3>1. waits[x] = m /\ prio'[x] = prio[x] /\ holder'[m] = holder[m]
      BY <1>1, <1>7, <1>8, <2>3
    <3>2. CASE holder[m] # None
      <4>1. holder[m] \in Task /\ prio[x] <= prio[holder[m]]
        BY <2>1, <3>1, <3>2 DEF Covered
      <4> QED BY <1>7, <3>1, <3>2, <4>1
    <3>3. CASE holder[m] = None
      <4>1. PICK w \in Task : tstate[w] = "ready" /\ Wants(w, m) /\ prio[x] <= prio[w]
        BY <2>1, <3>1, <3>3 DEF Covered
      <4>2. w # t
        BY <1>1, <3>3, <4>1 DEF Wants, k, h
      <4>3. Wants(w, m)' /\ tstate'[w] = "ready"
        BY <1>1, <4>1, <4>2 DEF Wants
      <4>4. prio'[x] <= prio'[w]
        BY <1>7, <3>1, <4>1
      <4> QED BY <3>1, <3>3, <4>3, <4>4
    <3> QED BY <3>2, <3>3
  <2>4. CASE x # t /\ x = h /\ prio'[h] = prio[t]
    <3>1. waits[h] = m /\ tstate[h] = "blocked" /\ step[h] \in Inside[k] /\ step[h] \in DOMAIN Wanted
          /\ Wanted[step[h]] = m
      BY <1>1, <1>4, <1>8, <2>4 DEF Consistent
    <3>2. k = "core" /\ m = "sys"
      BY <1>1, <3>1, WantedInside
    <3>3. ASSUME NEW u \in Task, u # t, u # h, tstate[u] # "deleted",
                 step[u] \in Inside["sys"] \/ Wants(u, "sys")
          PROVE  prio[t] <= prio[u]
      <4>1. u = "Eth"
        BY <1>1, <1>4, <3>1, <3>2, <3>3, ThirdTask DEF Wants, k
      <4> QED BY <1>1, <4>1 DEF InversionInv, Bounds, BasePriority
    <3>4. CASE holder[m] # None
      <4> DEFINE g == holder[m]
      <4>1. g \in Task /\ tstate[g] # "deleted" /\ step[g] \in Inside["sys"]
        BY <2>1, <3>2, <3>4 DEF NoOrphan, Orphaned, HeldWhereUsed
      <4>2. g # t /\ g # h
        <5>1. step[t] \notin Inside["sys"]
          BY <1>1, <3>2, WantedInside DEF k, Mutex
        <5>2. step[h] \notin Inside["sys"]
          BY <3>1, <3>2, TakenInside
        <5> QED BY <4>1, <5>1, <5>2
      <4>3. prio[t] <= prio[g]
        BY <3>3, <4>1, <4>2
      <4>4. holder'[m] = g /\ prio'[g] = prio[g] /\ prio'[x] = prio[t]
        BY <1>1, <1>7, <2>4, <4>1, <4>2
      <4> QED BY <3>4, <4>3, <4>4
    <3>5. CASE holder[m] = None
      <4>1. PICK w \in Task : tstate[w] = "ready" /\ Wants(w, m) /\ prio[h] <= prio[w]
        BY <1>1, <2>1, <3>1, <3>5 DEF Covered
      <4>2. w # t /\ w # h
        BY <3>1, <3>2, <4>1 DEF Wants, k
      <4>3. prio[t] <= prio[w]
        BY <3>2, <3>3, <4>1, <4>2
      <4>4. tstate'[w] = "ready" /\ Wants(w, m)' /\ prio'[x] <= prio'[w]
        BY <1>1, <1>7, <2>4, <4>1, <4>2, <4>3 DEF Wants
      <4> QED BY <1>1, <3>5, <4>4
    <3> QED BY <3>4, <3>5
  <2> QED BY <1>7, <2>2, <2>3, <2>4
<1>9. SuspendedAbove'
  BY <1>1, <1>2 DEF SuspendedAbove
<1> QED BY <1>6, <1>8, <1>9 DEF InversionInv, Bounds, Covered

(* A task gives a mutex back; the highest of those that wait becomes ready. *)
LEMMA InversionGive ==
  ASSUME EndInv, InversionInv, NEW t \in Task, Unlock(t)
  PROVE  InversionInv'
<1> USE Typed
<1> DEFINE k == Given[step[t]]
<1>1. /\ k \in Mutex /\ tstate[t] = "ready" /\ step[t] \notin DOMAIN Wanted /\ step[t] \in Inside[k]
      /\ holder' = [holder EXCEPT ![k] = None] /\ suspended' = suspended
      /\ prio' = Disinherited(t, k)
      /\ \A u \in Task : u # t => step'[u] = step[u]
  <2>1. step[t] \in DOMAIN Given
    BY DEF Unlock
  <2>2. step[t] \notin DOMAIN Wanted /\ step[t] \in Inside[k]
    BY <2>1 DEF Given, Wanted, Inside
  <2> QED BY <2>1, <2>2, Tables DEF Unlock, Running, GiveMutex, StepTo
<1> HIDE DEF k
<1>2. holder[k] = t /\ suspended = None
  <2>1. step[t] \notin {"go", "print", "sending", "ok"}
    BY DEF Unlock, Given
  <2> QED BY <1>1, <2>1 DEF HeldWhereUsed, Unlock, Running, EndInv, HandlerInv
<1>3. /\ \A x \in Task : x # t => prio'[x] = prio[x]
      /\ \A m \in Mutex : m # k /\ holder[m] = t => prio'[t] = prio[t]
      /\ prio'[t] \in {prio[t], BasePriority[t]}
  BY <1>1 DEF Disinherited
<1>4. Bounds'
  BY <1>3, Tables DEF InversionInv, Bounds
<1>5. waits[t] = None
  BY <1>1 DEF Consistent
<1>6. CASE Waiters(k) = {} /\ UNCHANGED <<tstate, waits>>
  <2>1. NoOrphan' => NoOrphan
    BY <1>1, <1>2, <1>6 DEF NoOrphan, Orphaned
  <2>2. ASSUME NoOrphan', NEW x \in Task, NEW m \in Mutex, waits'[x] = m
        PROVE  /\ holder'[m] # None => prio'[x] <= prio'[holder'[m]]
               /\ holder'[m] = None =>
                    \E w \in Task : tstate'[w] = "ready" /\ Wants(w, m)' /\ prio'[x] <= prio'[w]
    <3>1. waits[x] = m /\ x # t /\ m # k /\ Covered /\ holder'[m] = holder[m]
      BY <1>1, <1>5, <1>6, <2>1, <2>2 DEF Waiters, InversionInv
    <3>2. CASE holder[m] # None
      BY <1>3, <3>1, <3>2 DEF Covered
    <3>3. CASE holder[m] = None
      <4>1. PICK w \in Task : tstate[w] = "ready" /\ Wants(w, m) /\ prio[x] <= prio[w]
        BY <3>1, <3>3 DEF Covered
      <4>2. w # t
        BY <1>1, <4>1 DEF Wants
      <4>3. Wants(w, m)' /\ tstate'[w] = "ready" /\ prio'[x] <= prio'[w]
        BY <1>1, <1>3, <1>6, <3>1, <4>1, <4>2 DEF Wants
      <4> QED BY <3>1, <3>3, <4>3
    <3> QED BY <3>2, <3>3
  <2>3. SuspendedAbove'
    BY <1>1, <1>2 DEF SuspendedAbove
  <2> QED BY <1>4, <2>2, <2>3 DEF InversionInv, Covered
<1>7. ASSUME NEW v \in Waiters(k), \A u \in Waiters(k) : prio[u] <= prio[v],
             tstate' = [tstate EXCEPT ![v] = "ready"], waits' = [waits EXCEPT ![v] = None]
      PROVE  InversionInv'
  <2>0. v \in Task /\ waits[v] = k /\ v # t /\ tstate[v] = "blocked" /\ Wants(v, k)
    BY <1>1, <1>5, <1>7 DEF Waiters, Consistent, Wants
  <2>1. NoOrphan' => NoOrphan
    BY <1>1, <1>2, <1>7, <2>0 DEF NoOrphan, Orphaned
  <2>2. ASSUME NoOrphan', NEW x \in Task, NEW m \in Mutex, waits'[x] = m
        PROVE  /\ holder'[m] # None => prio'[x] <= prio'[holder'[m]]
               /\ holder'[m] = None =>
                    \E w \in Task : tstate'[w] = "ready" /\ Wants(w, m)' /\ prio'[x] <= prio'[w]
    <3>1. waits[x] = m /\ x # t /\ x # v /\ Covered /\ prio'[x] = prio[x]
      BY <1>3, <1>5, <1>7, <2>0, <2>1, <2>2 DEF InversionInv
    <3>2. CASE m = k
      <4>1. prio[x] <= prio[v]
        BY <1>7, <3>1, <3>2 DEF Waiters
      <4>2. Wants(v, m)' /\ tstate'[v] = "ready" /\ prio'[v] = prio[v] /\ holder'[m] = None
        BY <1>1, <1>3, <1>7, <2>0, <3>2 DEF Wants
      <4> QED BY <2>0, <3>1, <4>1, <4>2
    <3>3. CASE m # k
      <4>1. holder'[m] = holder[m]
        BY <1>1, <3>3
      <4>2. CASE holder[m] # None
        BY <1>3, <3>1, <3>3, <4>1, <4>2 DEF Covered
      <4>3. CASE holder[m] = None
        <5>1. PICK w \in Task : tstate[w] = "ready" /\ Wants(w, m) /\ prio[x] <= prio[w]
          BY <3>1, <4>3 DEF Covered
        <5>2. w # t
          BY <1>1, <5>1 DEF Wants
        <5>3. Wants(w, m)' /\ tstate'[w] = "ready" /\ prio'[x] <= prio'[w]
          BY <1>1, <1>3, <1>7, <3>1, <5>1, <5>2 DEF Wants
        <5> QED BY <4>1, <4>3, <5>3
      <4> QED BY <4>2, <4>3
    <3> QED BY <3>2, <3>3
  <2>3. SuspendedAbove'
    BY <1>1, <1>2 DEF SuspendedAbove
  <2> QED BY <1>4, <2>2, <2>3 DEF InversionInv, Covered
<1> QED BY <1>6, <1>7 DEF Unlock, GiveMutex, k

(* A step that leaves mutexes and priorities alone, and every ready task    *)
(* that is about to take a mutex where it is.                               *)
Undisturbed ==
  /\ UNCHANGED <<prio, holder>>
  /\ \A u \in Task :
       /\ tstate[u] = "ready" /\ step[u] \in DOMAIN Wanted => tstate'[u] = "ready" /\ step'[u] = step[u]
       /\ tstate[u] = "deleted" => tstate'[u] = "deleted"
       /\ waits'[u] # None => waits'[u] = waits[u]
  /\ suspended' = suspended \/ (suspended' \in Task /\ Running(suspended'))

LEMMA InversionQuiet ==
  ASSUME EndInv, InversionInv, Undisturbed
  PROVE  InversionInv'
<1> USE Typed
<1>1. UNCHANGED <<prio, holder>>
  BY DEF Undisturbed
<1>2. NoOrphan' => NoOrphan
  BY DEF Undisturbed, NoOrphan, Orphaned
<1>3. ASSUME NoOrphan' PROVE Covered'
  <2>1. Covered
    BY <1>2, <1>3 DEF InversionInv
  <2> SUFFICES ASSUME NEW x \in Task, NEW m \in Mutex, waits'[x] = m
               PROVE  /\ holder'[m] # None => prio'[x] <= prio'[holder'[m]]
                      /\ holder'[m] = None =>
                           \E w \in Task : tstate'[w] = "ready" /\ Wants(w, m)' /\ prio'[x] <= prio'[w]
    BY DEF Covered
  <2>2. waits[x] = m
    BY DEF Undisturbed
  <2>3. CASE holder[m] # None
    BY <1>1, <2>1, <2>2, <2>3 DEF Covered
  <2>4. CASE holder[m] = None
    <3>1. PICK w \in Task : tstate[w] = "ready" /\ Wants(w, m) /\ prio[x] <= prio[w]
      BY <2>1, <2>2, <2>4 DEF Covered
    <3>2. tstate'[w] = "ready" /\ Wants(w, m)'
      BY <3>1 DEF Undisturbed, Wants
    <3> QED BY <1>1, <2>4, <3>1, <3>2
  <2> QED BY <2>3, <2>4
<1>4. ASSUME NoOrphan' PROVE SuspendedAbove'
  <2> SUFFICES ASSUME suspended' # None, NEW x \in Task, waits'[x] # None
               PROVE  prio'[x] <= prio'[suspended']
    BY DEF SuspendedAbove
  <2>1. waits[x] # None
    BY DEF Undisturbed
  <2>2. CASE suspended' = suspended
    BY <1>1, <1>2, <1>4, <2>1, <2>2 DEF InversionInv, SuspendedAbove
  <2>3. CASE suspended' \in Task /\ Running(suspended')
    <3>1. NoPriorityInversion /\ NoOrphan
      BY <1>2, <1>4, NotInverted
    <3>2. prio[suspended'] >= prio[x]
      BY <2>1, <2>3, <3>1 DEF NoPriorityInversion, NoOrphan
    <3> QED BY <1>1, <2>3, <3>2
  <2> QED BY <2>2, <2>3 DEF Undisturbed
<1>5. Bounds'
  BY <1>1 DEF InversionInv, Bounds
<1> QED BY <1>3, <1>4, <1>5 DEF InversionInv

(* osThreadTerminate takes Main out of the play when nothing above it waits: *)
(* Button runs at its own priority, and holds and wants nothing.            *)
LEMMA InversionTerminate ==
  ASSUME EndInv, InversionInv, Button_Terminate
  PROVE  InversionInv'
<1> USE Typed
<1>1. /\ Running("Button") /\ step["Button"] = "go" /\ tstate["Button"] = "ready"
      /\ "Button" \in Task /\ "Main" \in Task
      /\ tstate' = [tstate EXCEPT !["Main"] = "deleted"]
      /\ waits' = [waits EXCEPT !["Main"] = None]
      /\ UNCHANGED <<prio, holder, suspended>>
  BY DEF Button_Terminate, At, Running, Terminate, Task
<1>2. NoOrphan' => NoOrphan
  BY <1>1 DEF NoOrphan, Orphaned
<1>3. prio["Button"] = 24
  <2>1. \A m \in Mutex : holder[m] # "Button"
    BY <1>1, Outside DEF HeldWhereUsed
  <2> QED BY <1>1, <2>1 DEF EndInv, BoostEnds, BasePriority
<1>4. ASSUME NoOrphan', NEW x \in Task \ {"Main"} PROVE waits[x] = None
  <2>1. NoPriorityInversion /\ NoOrphan
    BY <1>2, <1>4, NotInverted
  <2>2. waits[x] # None => prio[x] <= 24
    BY <1>1, <1>3, <2>1 DEF NoPriorityInversion, NoOrphan
  <2>3. waits[x] # None => x \in {"Button", "Link"}
    BY <2>2 DEF InversionInv, Bounds, BasePriority, Task
  <2>4. waits["Button"] = None
    BY <1>1 DEF Consistent
  <2>5. waits["Link"] = None
    BY DEF Consistent, EndInv, Places, Wanted, Task
  <2> QED BY <2>3, <2>4, <2>5
<1>5. NoOrphan' => Covered' /\ SuspendedAbove'
  <2> SUFFICES ASSUME NoOrphan' PROVE Covered' /\ SuspendedAbove'
    OBVIOUS
  <2>1. \A x \in Task : waits'[x] = None
    BY <1>1, <1>4
  <2> QED BY <2>1 DEF Covered, SuspendedAbove
<1>6. Bounds'
  BY <1>1 DEF InversionInv, Bounds
<1> QED BY <1>5, <1>6 DEF InversionInv

(* The library calls *)
LEMMA InversionCalls ==
  ASSUME EndInv, InversionInv, NEW t \in Task, LibraryCall(t)
  PROVE  InversionInv'
<1>1. CASE Lock(t)
  BY <1>1, InversionTake, InversionBlock DEF Lock
<1>2. CASE Unlock(t)
  BY <1>2, InversionGive
<1>3. CASE Printf(t) \/ Printed(t) \/ NetifCall(t) \/ Fetch(t)
  <2> USE Typed
  <2>1. /\ UNCHANGED <<prio, holder, waits, suspended>> /\ step[t] \notin DOMAIN Wanted
        /\ \A u \in Task : u # t => step'[u] = step[u] /\ tstate'[u] = tstate[u]
        /\ tstate[t] = "ready"
    BY <1>3 DEF Printf, Printed, NetifCall, Fetch, WaitEvent, StepTo, Running, Wanted, kernel
  <2>2. Undisturbed
    BY <2>1 DEF Undisturbed
  <2> QED BY <2>2, InversionQuiet
<1> QED BY <1>1, <1>2, <1>3 DEF LibraryCall

(* What the tasks do outside of library calls, and what time and the world  *)
(* do, leaves alone every task that is about to take a mutex.               *)
LEMMA ElsewhereUndisturbed ==
  ASSUME EndInv, Next, \A t \in Task : ~LibraryCall(t), ~Button_Terminate
  PROVE  Undisturbed
<1> USE Typed
<1>0. "Main" \in Task /\ "Button" \in Task /\ "Link" \in Task /\ "Tcpip" \in Task /\ "Eth" \in Task
  BY DEF Task
<1>1. UNCHANGED <<prio, holder>>
  BY OnlyLockingChangesPriority DEF LibraryCall
<1>2. ASSUME NEW t \in Task, step[t] \notin DOMAIN Wanted \/ tstate[t] # "ready",
             UNCHANGED waits, \A u \in Task : u # t => step'[u] = step[u],
             \A u \in Task : u # t /\ tstate[u] \in {"ready", "deleted"} => tstate'[u] = tstate[u],
             tstate[t] # "deleted",
             suspended' = suspended \/ (suspended' = t /\ Running(t))
      PROVE  Undisturbed
  BY <1>1, <1>2 DEF Undisturbed
<1>3. CASE Main_Thread
  <2>1. step["Main"] \in {"go", "ok", "none"} /\ Running("Main") /\ tstate["Main"] = "ready"
    BY <1>3 DEF AfterAck, At, Main_Thread, Main_Start, Main_Booted, Main_WaitLink, Main_Dhcp,
       Main_Request, Main_Ack, Main_Announced, Main_Read, Main_Ping, Main_Commanded, Main_Lost,
       Running
  <2>2. UNCHANGED waits /\ (suspended' = suspended \/ suspended' = "Main")
    BY <1>3 DEF Main_Thread, Main_Start, Main_Booted, Main_WaitLink, Main_Dhcp, Main_Request,
       Main_Ack, Main_Announced, Main_Read, Main_Ping, Main_Commanded, Main_Lost, EndProgram,
       KernelLock, kernel
  <2>3. \A u \in Task : u # "Main" => step'[u] = step[u]
    BY <1>0, <1>3 DEF Main_Thread, Main_Start, Main_Booted, Main_WaitLink, Main_Dhcp, Main_Request,
       Main_Ack, Main_Announced, Main_Read, Main_Ping, Main_Commanded, Main_Lost, EndProgram,
       Command, Goto, GotoStep, StepTo
  <2>4. \A u \in Task : tstate[u] \in {"ready", "deleted"} => tstate'[u] = tstate[u]
    <3>1. CASE Main_Start \/ Main_WaitLink \/ Main_Announced
      BY <3>1 DEF Main_Start, Main_WaitLink, Main_Announced, CreatedBy, Created, EndInv, IInv, At
    <3>2. CASE ~(Main_Start \/ Main_WaitLink \/ Main_Announced)
      BY <1>3, <3>2 DEF Main_Thread, Main_Booted, Main_Dhcp, Main_Request, Main_Ack, Main_Read,
         Main_Ping, Main_Commanded, Main_Lost, EndProgram, KernelLock, kernel
    <3> QED BY <3>1, <3>2
  <2>5. step["Main"] \notin DOMAIN Wanted
    BY <2>1 DEF Wanted
  <2> QED BY <1>0, <1>2, <2>1, <2>2, <2>3, <2>4, <2>5
<1>4. ASSUME NEW t \in Task,
             (t = "Link" /\ Link_Thread) \/ (t = "Button" /\ Button_Thread) \/ Error_Handler(t)
      PROVE  Undisturbed
  <2>1. step[t] \in {"go", "ok", "none"} /\ Running(t) /\ tstate[t] = "ready"
    BY <1>4 DEF Link_Thread, Link_Poll, Link_Notice, Button_Thread, Button_Poll, Button_Terminate,
       Button_Close, Button_Drain, Button_Closed, Error_Handler, Error_Leds, Error_Halt, At, Running
  <2>2. /\ UNCHANGED waits /\ (suspended' = suspended \/ suspended' = t)
        /\ \A u \in Task : u # t => step'[u] = step[u] /\ tstate'[u] = tstate[u]
    BY <1>4 DEF Link_Thread, Link_Poll, Link_Notice, Button_Thread, Button_Poll,
       Button_Close, Button_Drain, Button_Closed, Error_Handler, Error_Leds, Error_Halt, EndProgram,
       KernelLock, Delay, Goto, GotoStep, StepTo, kernel
  <2>3. step[t] \notin DOMAIN Wanted
    BY <2>1 DEF Wanted
  <2> QED BY <1>2, <2>1, <2>2, <2>3
<1>5. ASSUME NEW t \in Task,
             \/ t = "Tcpip" /\ (Tcpip_Thread \/ Tcpip_Timeout)
             \/ t = "Eth" /\ (Eth_Thread \/ FrameArrives)
             \/ Tick(t) /\ UNCHANGED step
             \/ ReadTimeout(t)
      PROVE  Undisturbed
  <2>1. /\ step[t] \notin DOMAIN Wanted \/ tstate[t] # "ready"
        /\ tstate[t] # "deleted" /\ UNCHANGED <<waits, suspended>>
    BY <1>5 DEF Tcpip_Thread, Tcpip_Fetch, Tcpip_Input, Tcpip_Timeout, Eth_Thread, Eth_Wait, Eth_Post,
       FrameArrives, Tick, ReadTimeout, WaitEvent, Running, Wanted, kernel
  <2>2. \A u \in Task : u # t => step'[u] = step[u]
    BY <1>5 DEF Tcpip_Thread, Tcpip_Fetch, Tcpip_Input, Tcpip_Timeout, Eth_Thread, Eth_Wait, Eth_Post,
       FrameArrives, ReadTimeout, StepTo
  <2>3. \A u \in Task : u # t /\ tstate[u] \in {"ready", "deleted"} => tstate'[u] = tstate[u]
    BY <1>5 DEF Tcpip_Thread, Tcpip_Fetch, Tcpip_Input, Tcpip_Timeout, Eth_Thread, Eth_Wait, Eth_Post,
       FrameArrives, Tick, ReadTimeout, WaitEvent, Signalled, kernel
  <2> QED BY <1>2, <2>1, <2>2, <2>3
<1>6. CASE LinkDrops
  BY <1>6 DEF LinkDrops, Undisturbed, kernel
<1>7. ASSUME NEW t \in Task, Step(t) PROVE Undisturbed
  BY <1>0, <1>3, <1>4, <1>5, <1>7 DEF Step
<1>8. ASSUME NEW t \in Task, Expire(t) PROVE Undisturbed
  BY <1>5, <1>8 DEF Expire
<1>9. CASE World
  BY <1>0, <1>5, <1>6, <1>9 DEF World
<1> QED BY <1>7, <1>8, <1>9 DEF Next

(* Every step keeps the cover. *)
LEMMA InversionStep == EndInv /\ InversionInv /\ [Next]_vars => InversionInv'
<1> SUFFICES ASSUME EndInv, InversionInv, [Next]_vars PROVE InversionInv'
  OBVIOUS
<1>1. ASSUME NEW t \in Task, LibraryCall(t) PROVE InversionInv'
  BY <1>1, InversionCalls
<1>2. CASE Button_Terminate
  BY <1>2, InversionTerminate
<1>3. CASE Next /\ (\A t \in Task : ~LibraryCall(t)) /\ ~Button_Terminate
  BY <1>3, ElsewhereUndisturbed, InversionQuiet
<1>4. CASE UNCHANGED vars
  <2>1. Undisturbed
    BY <1>4 DEF vars, kernel, Undisturbed
  <2> QED BY <2>1, InversionQuiet
<1> QED BY <1>1, <1>2, <1>3, <1>4

(* Inheritance by the direct holder alone is enough here: without a mutex   *)
(* left held by a terminated task, no task runs below one that waits for a  *)
(* mutex, whatever the sizes of the mailboxes.                              *)
THEOREM NoInversion == Spec => []NoPriorityInversion
<1>1. IInv /\ BoostEnds /\ EndParts => EndInv
  BY DEF EndInv, EndParts
<1> QED BY <1>1, InitInversion, InversionStep, NotInverted, EndInvariance, Invariance,
           PriorityBoostEnds, PTL DEF Spec
=============================================================================
