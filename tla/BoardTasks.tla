----------------------------- MODULE BoardTasks -----------------------------
(***************************************************************************)
(* The five tasks of the firmware on the FreeRTOS kernel:                  *)
(*                                                                         *)
(*   Main    Main_Thread: start-up, MQTT session, command loop             *)
(*   Button  Button_Thread: polls B1, ends Main and closes the session     *)
(*   Link    Link_Thread: polls the PHY, ends the program on a lost cable  *)
(*   Tcpip   lwIP's tcpip_thread                                           *)
(*   Eth     ethernetif_input, fed by the Ethernet interrupt               *)
(*                                                                         *)
(* They share the core, the UART, the LEDs and lwIP. Inside lwIP two       *)
(* mutexes are taken: lock_tcpip_core ("core") around every core function  *)
(* and lwip_sys_mutex ("sys") in the short sections of SYS_ARCH_PROTECT.   *)
(*                                                                         *)
(* loc[t] is the place in the task's own function, step[t] the place in    *)
(* the library call made there. A location makes up to four calls, in the  *)
(* order printf, netif functions, socket write, socket read; the steps     *)
(* "ok" and "none" are their outcome, "none" being a negative result.      *)
(***************************************************************************)
EXTENDS Naturals

CONSTANTS
  MboxSize,      \* TCPIP_MBOX_SIZE
  RecvSize       \* DEFAULT_TCP_RECVMBOX_SIZE

ASSUME BoardAssumption ==
  MboxSize \in Nat \ {0} /\ RecvSize \in Nat \ {0}

Task  == {"Main", "Button", "Link", "Tcpip", "Eth"}
Mutex == {"core", "sys"}
None  == "none"

BasePriority ==
  [Main |-> 16, Button |-> 24, Link |-> 32, Tcpip |-> 40, Eth |-> 48]

VARIABLES
  tstate, prio, holder, waits, suspended,     \* the kernel, see FreeRtos
  loc, step,
  uart,       \* gState of the UART handle: "ready" or "busy"
  lit,        \* some LED may be on
  finals,     \* times "Programa finalizado" was sent in full
  bsr,        \* link bit of the PHY's BSR register: latches a loss until read
  mbox,       \* messages in tcpip_mbox
  recvq       \* entries in the socket's recvmbox

INSTANCE FreeRtos

kernel == <<tstate, prio, holder, waits, suspended>>
queues == <<mbox, recvq>>
output == <<uart, lit, finals>>
vars   == <<kernel, loc, step, output, bsr, queues>>

-----------------------------------------------------------------------------
(* The calls each location makes *)

NetifLocs == {"boot", "dhcp", "request"}
WriteLocs == {"request", "connect", "subscribe", "announce", "ping", "command",
              "unsubscribe", "bye", "disconnect", "close"}
ReadLocs  == {"request", "connect", "subscribe", "read", "ping", "unsubscribe", "drain"}
OtherLocs == {"waitLink", "poll", "terminate", "notice", "lost",
              "leds", "final", "halt", "gone", "lwip"}
Locs      == NetifLocs \cup ReadLocs \cup WriteLocs \cup OtherLocs

AfterWrite(l) == IF l \in ReadLocs  THEN "rWait" ELSE "ok"
AfterNetif(l) == IF l \in WriteLocs THEN "wLock" ELSE "ok"
AfterPrint(l) == IF l \in NetifLocs THEN "netif"
                 ELSE IF l \in WriteLocs THEN "wLock" ELSE AfterWrite(l)

(* The mutex wanted, and the mutex given back, at a step, and the step that *)
(* follows. A write runs under "core" and allocates under "sys"; a read     *)
(* frees its pbuf under "sys" and opens the window again under "core".      *)
Wanted == [wLock |-> "core", wAlloc |-> "sys", rFree |-> "sys", rLock |-> "core",
           tStart |-> "core", tTimer |-> "core", tMsg |-> "core", tFree |-> "sys",
           eAlloc |-> "sys", eDrop |-> "sys"]
Taken  == [wLock |-> "wAlloc", wAlloc |-> "wAlloced", rFree |-> "rFreed", rLock |-> "rUnlock",
           tStart |-> "tUnlock", tTimer |-> "tFree", tMsg |-> "tInput", tFree |-> "tFreed",
           eAlloc |-> "eAlloced", eDrop |-> "eDropped"]
Given  == [wAlloced |-> "sys", wUnlock |-> "core", rFreed |-> "sys", rUnlock |-> "core",
           tUnlock |-> "core", tFreed |-> "sys", eAlloced |-> "sys", eDropped |-> "sys"]

(* A tcpip_thread that waits for its mailbox with the core lock held *)
SleepsLocked(l, s) ==
  CASE s = "wAlloced" -> {"wUnlock"}
    [] s = "wUnlock"  -> {AfterWrite(l)}
    [] s = "rFreed"   -> {"rLock"}
    [] s = "rUnlock"  -> {"ok", "none"}
    [] s = "tUnlock"  -> {"tWait"}
    [] s = "tFreed"   -> {"tWait"}
    [] s = "eAlloced" -> {"ePost"}
    [] s = "eDropped" -> {"eAlloc", "eWait"}

(* A write that returns with the core lock held *)
WriteKeepsLock(l, s) ==
  CASE s = "wAlloced" -> {"wUnlock", AfterWrite(l)}
    [] s = "wUnlock"  -> {AfterWrite(l)}
    [] s = "rFreed"   -> {"rLock"}
    [] s = "rUnlock"  -> {"ok", "none"}
    [] s = "tUnlock"  -> {"tWait"}
    [] s = "tFreed"   -> {"tUnlock"}
    [] s = "eAlloced" -> {"ePost"}
    [] s = "eDropped" -> {"eAlloc", "eWait"}

(* The steps that follow a release: a read ends with what the packet's      *)
(* handler made of the data.                                                *)
Released(l, s) ==
  CASE s = "wAlloced" -> {"wUnlock"}
    [] s = "wUnlock"  -> {AfterWrite(l)}
    [] s = "rFreed"   -> {"rLock"}
    [] s = "rUnlock"  -> {"ok", "none"}
    [] s = "tUnlock"  -> {"tWait"}
    [] s = "tFreed"   -> {"tUnlock"}
    [] s = "eAlloced" -> {"ePost"}
    [] s = "eDropped" -> {"eAlloc", "eWait"}

OtherSteps == {"go", "gone", "print", "sending", "netif", "wUnlock", "rWait", "ok", "none",
               "tWait", "tInput", "eWait", "ePost"}
Steps == DOMAIN Wanted \cup DOMAIN Given \cup OtherSteps

At(t, l, s) == Running(t) /\ loc[t] = l /\ step[t] = s

(* The task moves to the first call of location l, or to step s of it *)
GotoStep(t, l, s) ==
  /\ loc' = [loc EXCEPT ![t] = l]
  /\ step' = [step EXCEPT ![t] = s]

Goto(t, l) == GotoStep(t, l, "print")
StepTo(t, s) == loc' = loc /\ step' = [step EXCEPT ![t] = s]

-----------------------------------------------------------------------------
(* Library calls, the same for every task *)

Lock(t) ==
  /\ Running(t) /\ step[t] \in DOMAIN Wanted
  /\ \/ TakeMutex(t, Wanted[step[t]]) /\ StepTo(t, Taken[step[t]])
     \/ BlockOnMutex(t, Wanted[step[t]]) /\ UNCHANGED <<loc, step>>
  /\ UNCHANGED <<output, bsr, queues>>

Unlock(t) ==
  /\ Running(t) /\ step[t] \in DOMAIN Given
  /\ GiveMutex(t, Given[step[t]])
  /\ \E s \in Released(loc[t], step[t]) : StepTo(t, s)
  /\ UNCHANGED <<output, bsr, queues>>

(* HAL_UART_Transmit: a character is dropped when gState is not READY *)
Printf(t) ==
  /\ Running(t) /\ step[t] = "print"
  /\ IF uart = "ready" THEN uart' = "busy" /\ StepTo(t, "sending")
     ELSE uart' = uart /\ StepTo(t, AfterPrint(loc[t]))
  /\ UNCHANGED <<kernel, lit, finals, bsr, queues>>

Printed(t) ==
  /\ Running(t) /\ step[t] = "sending"
  /\ uart' = "ready"
  /\ finals' = IF loc[t] = "final" THEN finals + 1 ELSE finals
  /\ StepTo(t, AfterPrint(loc[t]))
  /\ UNCHANGED <<kernel, lit, bsr, queues>>

(* netif_set_down, netif_set_up, netif_add, dhcp_start: core functions that *)
(* are called without the core lock. The task is inside one at this step.   *)
NetifCall(t) ==
  /\ Running(t) /\ step[t] = "netif"
  /\ StepTo(t, AfterNetif(loc[t]))
  /\ UNCHANGED <<kernel, output, bsr, queues>>

(* netconn_recv_data: fetch from recvmbox, with the socket's timeout *)
Fetch(t) ==
  /\ Running(t) /\ step[t] = "rWait"
  /\ IF recvq > 0
     THEN recvq' = recvq - 1 /\ StepTo(t, "rFree") /\ UNCHANGED kernel
     ELSE WaitEvent(t) /\ UNCHANGED <<loc, step, recvq>>
  /\ UNCHANGED <<output, bsr, mbox>>

(* A socket whose SO_RCVTIMEO was never set *)
WaitForEver(t) == FALSE

ReadTimeout(t) ==
  /\ tstate[t] = "waiting" /\ step[t] = "rWait" /\ suspended = None
  /\ tstate' = Signalled(t)
  /\ StepTo(t, "none")
  /\ UNCHANGED <<prio, holder, waits, suspended, output, bsr, queues>>

(* HAL_ETH_ReadPHYRegister of BSR: a read clears a latched loss, the bit    *)
(* then shows the link as it is.                                            *)
ReadLink == bsr' \in (IF bsr THEN {TRUE} ELSE BOOLEAN)

LedOn == lit' = TRUE

(* A call of Error_Handler, where every task ends the program: its first    *)
(* statement is osKernelLock.                                               *)
EndProgram(t) == KernelLock(t) /\ GotoStep(t, "leds", "go")

-----------------------------------------------------------------------------
(* Main_Thread *)

Main_Start ==
  /\ At("Main", "boot", "go")
  /\ LedOn
  /\ tstate' = CreatedBy({"Tcpip", "Eth"})
  /\ StepTo("Main", "print")
  /\ UNCHANGED <<prio, holder, waits, suspended, uart, finals, bsr, queues>>

Main_Booted ==
  /\ At("Main", "boot", "ok")
  /\ GotoStep("Main", "waitLink", "go")
  /\ UNCHANGED <<kernel, output, bsr, queues>>

Main_WaitLink ==
  /\ At("Main", "waitLink", "go")
  /\ ReadLink
  /\ IF bsr THEN Goto("Main", "dhcp") /\ tstate' = CreatedBy({"Link"})
     ELSE UNCHANGED <<tstate, loc, step>>
  /\ UNCHANGED <<prio, holder, waits, suspended, output, queues>>

(* DHCP_Request is polled until it reports that the network is configured *)
Main_Dhcp ==
  /\ At("Main", "dhcp", "ok")
  /\ \/ Goto("Main", "dhcp") /\ UNCHANGED lit
     \/ Goto("Main", "request") /\ LedOn
  /\ UNCHANGED <<kernel, uart, finals, bsr, queues>>

(* The DNS, NTP, DNS and TCP connection requests, each on a socket of its   *)
(* own; the last of them stays open for the session.                        *)
Main_Request ==
  /\ Running("Main") /\ loc["Main"] = "request"
  /\ \/ /\ step["Main"] = "ok" /\ UNCHANGED kernel
        /\ \/ Goto("Main", "request") /\ recvq' = 0
           \/ Goto("Main", "connect") /\ recvq' = recvq
     \/ step["Main"] = "none" /\ EndProgram("Main") /\ recvq' = recvq
  /\ UNCHANGED <<output, bsr, mbox>>

(* CONNECT and SUBSCRIBE, each followed by the wait for its acknowledgement *)
AfterAck == [connect |-> "subscribe", subscribe |-> "announce"]

Main_Ack ==
  /\ Running("Main") /\ loc["Main"] \in DOMAIN AfterAck
  /\ \/ step["Main"] = "ok" /\ Goto("Main", AfterAck[loc["Main"]]) /\ UNCHANGED kernel
     \/ step["Main"] = "none" /\ EndProgram("Main")
  /\ UNCHANGED <<output, bsr, queues>>

Main_Announced ==
  /\ At("Main", "announce", "ok")
  /\ LedOn
  /\ tstate' = CreatedBy({"Button"})
  /\ Goto("Main", "read")
  /\ UNCHANGED <<prio, holder, waits, suspended, uart, finals, bsr, queues>>

(* A packet may switch an LED on, and is answered with a PUBLISH; a silent  *)
(* broker is asked with a PINGREQ, and taken for lost if it stays silent.   *)
Command == Goto("Main", "command") /\ LedOn

Main_Read ==
  /\ Running("Main") /\ loc["Main"] = "read"
  /\ \/ step["Main"] = "ok" /\ Command
     \/ step["Main"] = "none" /\ Goto("Main", "ping") /\ UNCHANGED lit
  /\ UNCHANGED <<kernel, uart, finals, bsr, queues>>

Main_Ping ==
  /\ Running("Main") /\ loc["Main"] = "ping"
  /\ \/ step["Main"] = "ok" /\ Command
     \/ step["Main"] = "none" /\ Goto("Main", "lost") /\ UNCHANGED lit
  /\ UNCHANGED <<kernel, uart, finals, bsr, queues>>

Main_Commanded ==
  /\ At("Main", "command", "ok")
  /\ Goto("Main", "read")
  /\ UNCHANGED <<kernel, output, bsr, queues>>

Main_Lost ==
  /\ At("Main", "lost", "ok")
  /\ EndProgram("Main")
  /\ UNCHANGED <<output, bsr, queues>>

Main_Thread ==
  \/ Main_Start \/ Main_Booted \/ Main_WaitLink \/ Main_Dhcp \/ Main_Request
  \/ Main_Ack \/ Main_Announced \/ Main_Read \/ Main_Ping \/ Main_Commanded
  \/ Main_Lost

-----------------------------------------------------------------------------
(* Link_Thread, Button_Thread and Close_Program *)

(* Hw_UART_Stop, Hw_UART_Start: the handle is READY again whatever call was *)
(* interrupted in it.                                                       *)
NoUartRestart == uart' = uart

UartRestart == uart' = "ready"

(* A status read twice, to throw the latched value away *)
Link_PollTwice ==
  /\ At("Link", "poll", "go")
  /\ ReadLink
  /\ IF bsr' THEN Delay("Link") /\ UNCHANGED <<loc, step, uart>>
     ELSE Goto("Link", "notice") /\ UartRestart /\ UNCHANGED kernel
  /\ UNCHANGED <<lit, finals, queues>>

(* Polling and restarting are one step: a task that could run in between is *)
(* in tcpip_thread, in ethernetif_input or holds a mutex, and prints nothing.*)
Link_Poll ==
  /\ At("Link", "poll", "go")
  /\ ReadLink
  /\ IF bsr THEN Delay("Link") /\ UNCHANGED <<loc, step, uart>>
     ELSE Goto("Link", "notice") /\ UartRestart /\ UNCHANGED kernel
  /\ UNCHANGED <<lit, finals, queues>>

Link_Notice ==
  /\ At("Link", "notice", "ok")
  /\ EndProgram("Link")
  /\ UNCHANGED <<output, bsr, queues>>

Link_Thread == Link_Poll \/ Link_Notice

(* B1 is either level at each poll *)
Button_Poll ==
  /\ At("Button", "poll", "go")
  /\ \/ GotoStep("Button", "terminate", "go") /\ UartRestart /\ UNCHANGED kernel
     \/ Delay("Button") /\ UNCHANGED <<loc, step, uart>>
  /\ UNCHANGED <<lit, finals, bsr, queues>>

Button_Terminate ==
  /\ At("Button", "terminate", "go")
  /\ Terminate("Main")
  /\ loc' = [loc EXCEPT !["Main"] = "gone", !["Button"] = "notice"]
  /\ step' = [step EXCEPT !["Main"] = "gone", !["Button"] = "print"]
  /\ UNCHANGED <<output, bsr, queues>>

AfterClosing == [notice |-> "unsubscribe", unsubscribe |-> "bye", bye |-> "disconnect",
                 disconnect |-> "drain"]

Button_Close ==
  /\ Running("Button") /\ loc["Button"] \in DOMAIN AfterClosing
  /\ \/ step["Button"] = "ok" /\ Goto("Button", AfterClosing[loc["Button"]]) /\ UNCHANGED kernel
     \/ step["Button"] = "none" /\ EndProgram("Button")
  /\ UNCHANGED <<output, bsr, queues>>

(* TCP_Close: read until nothing more comes, then close the socket *)
Button_Drain ==
  /\ Running("Button") /\ loc["Button"] = "drain"
  /\ \/ step["Button"] = "ok" /\ StepTo("Button", "rWait")
     \/ step["Button"] = "none" /\ GotoStep("Button", "close", "wLock")
  /\ UNCHANGED <<kernel, output, bsr, queues>>

Button_Closed ==
  /\ At("Button", "close", "ok")
  /\ EndProgram("Button")
  /\ UNCHANGED <<output, bsr, queues>>

Button_Thread ==
  \/ Button_Poll \/ Button_Terminate \/ Button_Close \/ Button_Drain
  \/ Button_Closed

-----------------------------------------------------------------------------
(* Error_Handler, once it has the scheduler suspended *)

Error_Leds(t) ==
  /\ At(t, "leds", "go")
  /\ lit' = FALSE
  /\ Goto(t, "final")
  /\ UNCHANGED <<kernel, uart, finals, bsr, queues>>

Error_Halt(t) ==
  /\ At(t, "final", "ok")
  /\ GotoStep(t, "halt", "go")
  /\ UNCHANGED <<kernel, output, bsr, queues>>

Error_Handler(t) == Error_Leds(t) \/ Error_Halt(t)

-----------------------------------------------------------------------------
(* tcpip_thread: sleeps without the core lock, handles a message or the due *)
(* timers with it                                                           *)

Tcpip_Fetch ==
  /\ Running("Tcpip") /\ step["Tcpip"] = "tWait"
  /\ IF mbox > 0
     THEN mbox' = mbox - 1 /\ StepTo("Tcpip", "tMsg") /\ UNCHANGED kernel
     ELSE WaitEvent("Tcpip") /\ UNCHANGED <<loc, step, mbox>>
  /\ UNCHANGED <<output, bsr, recvq>>

Tcpip_Timeout ==
  /\ tstate["Tcpip"] = "waiting" /\ step["Tcpip"] = "tWait" /\ suspended = None
  /\ tstate' = Signalled("Tcpip")
  /\ StepTo("Tcpip", "tTimer")
  /\ UNCHANGED <<prio, holder, waits, suspended, output, bsr, queues>>

SocketOpen == loc["Main"] \notin {"boot", "waitLink", "dhcp"}
Reader     == IF tstate["Main"] = "deleted" THEN "Button" ELSE "Main"

(* The frame may carry data for the open socket: it is put in recvmbox if   *)
(* there is room, and the task that reads the socket is woken.              *)
Tcpip_Input ==
  /\ Running("Tcpip") /\ step["Tcpip"] = "tInput"
  /\ \/ UNCHANGED <<recvq, tstate>>
     \/ /\ SocketOpen /\ recvq < RecvSize
        /\ recvq' = recvq + 1
        /\ tstate' = IF step[Reader] = "rWait" THEN Signalled(Reader) ELSE tstate
  /\ StepTo("Tcpip", "tFree")
  /\ UNCHANGED <<prio, holder, waits, suspended, output, bsr, mbox>>

Tcpip_Thread == Tcpip_Fetch \/ Tcpip_Input

-----------------------------------------------------------------------------
(* ethernetif_input: as long as the ring has frames, each is posted to      *)
(* tcpip_mbox; a full mailbox costs the frame.                              *)

Eth_Wait ==
  /\ Running("Eth") /\ step["Eth"] = "eWait"
  /\ WaitEvent("Eth")
  /\ UNCHANGED <<loc, step, output, bsr, queues>>

(* Posts to a mailbox that is full *)
Eth_PostFull ==
  /\ Running("Eth") /\ step["Eth"] = "ePost"
  /\ IF mbox <= MboxSize
     THEN /\ mbox' = mbox + 1
          /\ tstate' = IF step["Tcpip"] = "tWait" THEN Signalled("Tcpip") ELSE tstate
          /\ \E s \in {"eAlloc", "eWait"} : StepTo("Eth", s)
     ELSE UNCHANGED <<mbox, tstate>> /\ StepTo("Eth", "eDrop")
  /\ UNCHANGED <<prio, holder, waits, suspended, output, bsr, recvq>>

Eth_Post ==
  /\ Running("Eth") /\ step["Eth"] = "ePost"
  /\ IF mbox < MboxSize
     THEN /\ mbox' = mbox + 1
          /\ tstate' = IF step["Tcpip"] = "tWait" THEN Signalled("Tcpip") ELSE tstate
          /\ \E s \in {"eAlloc", "eWait"} : StepTo("Eth", s)
     ELSE UNCHANGED <<mbox, tstate>> /\ StepTo("Eth", "eDrop")
  /\ UNCHANGED <<prio, holder, waits, suspended, output, bsr, recvq>>

Eth_Thread == Eth_Wait \/ Eth_Post

(* The receive interrupt gives RxPktSemaphore *)
FrameArrives ==
  /\ tstate["Eth"] = "waiting"
  /\ tstate' = Signalled("Eth")
  /\ StepTo("Eth", "eAlloc")
  /\ UNCHANGED <<prio, holder, waits, suspended, output, bsr, queues>>

(* The cable is unplugged, for however short a time *)
LinkDrops ==
  /\ bsr
  /\ bsr' = FALSE
  /\ UNCHANGED <<kernel, loc, step, output, queues>>

-----------------------------------------------------------------------------
Init ==
  /\ KernelInit({"Main"})
  /\ loc = [t \in Task |-> CASE t = "Main" -> "boot"
                             [] t \in {"Button", "Link"} -> "poll"
                             [] OTHER -> "lwip"]
  /\ step = [t \in Task |-> CASE t = "Tcpip" -> "tStart"
                              [] t = "Eth" -> "eWait"
                              [] OTHER -> "go"]
  /\ uart = "ready" /\ lit = FALSE /\ finals = 0
  /\ bsr \in BOOLEAN
  /\ mbox = 0 /\ recvq = 0

LibraryCall(t) ==
  Lock(t) \/ Unlock(t) \/ Printf(t) \/ Printed(t) \/ NetifCall(t) \/ Fetch(t)

(* What task t does when it has the core *)
Step(t) ==
  \/ LibraryCall(t)
  \/ Error_Handler(t)
  \/ t = "Main" /\ Main_Thread
  \/ t = "Button" /\ Button_Thread
  \/ t = "Link" /\ Link_Thread
  \/ t = "Tcpip" /\ Tcpip_Thread
  \/ t = "Eth" /\ Eth_Thread

(* What time does to task t *)
Expire(t) ==
  \/ Tick(t) /\ UNCHANGED <<loc, step, output, bsr, queues>>
  \/ ReadTimeout(t)

World == Tcpip_Timeout \/ FrameArrives \/ LinkDrops

Next == (\E t \in Task : Step(t) \/ Expire(t)) \/ World

(* The core executes as long as a task is ready. *)
CoreRuns == WF_vars(\E t \in Task : Step(t))

(* Each group of tasks that gets the core again and again uses it; delays   *)
(* and timeouts of the tasks in E run out.                                  *)
Fairness(groups, E) ==
  /\ \A G \in groups : SF_vars(\E t \in G : Step(t))
  /\ \A t \in E : WF_vars(Expire(t))

(* The network does not take the whole core: again and again the two tasks  *)
(* of the stack have nothing to do.                                         *)
LightLoad == []<>(tstate["Eth"] # "ready" /\ tstate["Tcpip"] # "ready")

Spec     == Init /\ [][Next]_vars
FairSpec == Spec /\ CoreRuns /\ Fairness({{t} : t \in Task}, Task) /\ LightLoad

(* What the end of the program on a lost link, and the closing of the       *)
(* session by Button, need of it: with LightLoad and the two groups, the    *)
(* core does execute. Once Main is terminated, its group is Button.         *)
EndSpec == Spec /\ Fairness({{"Link"}, {"Main", "Button"}}, {"Link", "Button"}) /\ LightLoad
-----------------------------------------------------------------------------
(* Properties *)

TypeOK ==
  /\ KernelTypeOK
  /\ loc \in [Task -> Locs] /\ step \in [Task -> Steps]
  /\ uart \in {"ready", "busy"} /\ lit \in BOOLEAN /\ finals \in Nat
  /\ bsr \in BOOLEAN
  /\ mbox \in 0..MboxSize /\ recvq \in 0..RecvSize

(* The steps at which a task is inside the section a mutex protects *)
Inside == [core |-> {"wAlloc", "wAlloced", "wUnlock", "rUnlock",
                     "tInput", "tFree", "tFreed", "tUnlock"},
           sys  |-> {"wAlloced", "rFreed", "tFreed", "eAlloced", "eDropped"}]

(* A mutex is held exactly by the live task that is inside its section: two *)
(* tasks are never inside one section, and no path through the calls of     *)
(* sockets, tcpip_thread and ethernetif_input forgets a release or releases *)
(* what it does not hold. Only osThreadTerminate leaves a mutex held.       *)
HeldWhereUsed ==
  \A m \in Mutex, t \in Task :
    tstate[t] # "deleted" => (holder[m] = t <=> step[t] \in Inside[m])

Orphaned(m) == holder[m] # None /\ tstate[holder[m]] = "deleted"

(* A live task that holds a mutex never sleeps: it is ready, or it holds    *)
(* "core" and is blocked on "sys". So no task delays or waits for a packet  *)
(* with a lock, the two locks are never taken in the opposite order, and    *)
(* without a terminated holder there is no circular wait.                   *)
HoldersAwake ==
  \A m \in Mutex, t \in Task :
    holder[m] = t /\ tstate[t] # "deleted" =>
      tstate[t] = "ready" \/ (m = "core" /\ tstate[t] = "blocked" /\ waits[t] = "sys")

(* As long as no mutex was left held by a terminated task, nothing below    *)
(* the priority of a task that waits for a mutex runs: Button and Link      *)
(* cannot delay Tcpip or Eth by preempting Main inside lwIP.                *)
NoPriorityInversion ==
  (\A m \in Mutex : ~Orphaned(m)) =>
    \A t, u \in Task : waits[t] # None /\ Running(u) => prio[u] >= prio[t]

(* An inherited priority ends with the last mutex the task gives back.      *)
BoostEnds ==
  \A t \in Task : (\A m \in Mutex : holder[m] # t) => prio[t] = BasePriority[t]

(* When the program has ended, "Programa finalizado" went out exactly once, *)
(* in full, and all LEDs are off: whichever task called Error_Handler, and  *)
(* whatever printf or LED command of another task it interrupted.           *)
EndReported ==
  /\ finals <= 1
  /\ \A t \in Task : loc[t] = "halt" => finals = 1 /\ ~lit

(* Once Link_Thread exists, a loss of the LAN link ends the program, even   *)
(* if the cable is back before the next poll (BSR latches the loss), and    *)
(* even if lwIP is dead because a terminated task still holds its mutex.    *)
LinkLossEnds ==
  (~bsr /\ tstate["Link"] # "absent") ~> (finals = 1)

(* main.c: the button disconnects from the broker and ends the program.     *)
ButtonEnds == (loc["Button"] = "notice") ~> (finals = 1)

(* If Main was not inside a lwIP section when it was terminated, Button      *)
(* gets as far as draining the socket or ends the program, whatever the     *)
(* broker answers or leaves unanswered.                                     *)
ButtonCloses ==
  (loc["Button"] = "notice" /\ \A m \in Mutex : ~Orphaned(m))
     ~> (loc["Button"] = "drain" \/ finals = 1)

(* lwIP's core functions assert that the core lock is held: no other task   *)
(* is inside the core while one of them runs.                               *)
CoreExclusive ==
  \A t, u \in Task :
    step[t] = "netif" /\ tstate[t] # "deleted" => step[u] \notin Inside["core"]
=============================================================================
