------------------------------ MODULE FreeRtos ------------------------------
(***************************************************************************)
(* The part of the FreeRTOS kernel (10.4.4, behind the CMSIS-RTOS2         *)
(* wrapper) that the firmware's tasks rely on: one core, fixed-priority    *)
(* preemptive scheduling, mutexes with priority inheritance, osDelay,      *)
(* osThreadTerminate and osKernelLock.                                     *)
(*                                                                         *)
(* The operators are fragments of actions: a module that models tasks      *)
(* conjoins them with the control state of the task that makes the call.   *)
(* A task that finds a mutex taken blocks inside the call and, once woken, *)
(* retries it (the loop of xQueueSemaphoreTake), so the caller's control   *)
(* state moves only when TakeMutex succeeds.                               *)
(***************************************************************************)
EXTENDS Naturals

CONSTANTS
  Task,           \* the tasks that can exist
  Mutex,          \* the mutexes, none of them recursive
  BasePriority,   \* [Task -> Nat], the priority each task is created with
  None            \* no task, no mutex

VARIABLES
  tstate,         \* [Task -> TaskState]
  prio,           \* [Task -> Nat]: uxPriority, the base one or an inherited one
  holder,         \* [Mutex -> Task \cup {None}]: xMutexHolder
  waits,          \* [Task -> Mutex \cup {None}]: the mutex a task is blocked on
  suspended       \* the task that called osKernelLock, or None

TaskState == {"absent", "ready", "blocked", "waiting", "delayed", "deleted"}

KernelTypeOK ==
  /\ tstate \in [Task -> TaskState]
  /\ prio \in [Task -> Nat]
  /\ holder \in [Mutex -> Task \cup {None}]
  /\ waits \in [Task -> Mutex \cup {None}]
  /\ suspended \in Task \cup {None}

KernelInit(started) ==
  /\ tstate = [t \in Task |-> IF t \in started THEN "ready" ELSE "absent"]
  /\ prio = BasePriority
  /\ holder = [m \in Mutex |-> None]
  /\ waits = [t \in Task |-> None]
  /\ suspended = None

-----------------------------------------------------------------------------
(* Scheduling. Among ready tasks of the same effective priority the tick    *)
(* interrupt rotates, so any of them may be the one that runs.              *)

Running(t) ==
  /\ tstate[t] = "ready"
  /\ \/ suspended = t
     \/ /\ suspended = None
        /\ \A u \in Task : tstate[u] = "ready" => prio[u] <= prio[t]

(* osThreadNew *)
CreatedBy(S) == [t \in Task |-> IF t \in S THEN "ready" ELSE tstate[t]]

(* The caller gives up the core until an event (queue, semaphore) arrives. *)
WaitEvent(t) ==
  /\ tstate' = [tstate EXCEPT ![t] = "waiting"]
  /\ UNCHANGED <<prio, holder, waits, suspended>>

(* tstate once the event t may be waiting for has happened *)
Signalled(t) ==
  IF tstate[t] = "waiting" THEN [tstate EXCEPT ![t] = "ready"] ELSE tstate

(* osDelay, and the tick that ends the delay: while the scheduler is        *)
(* suspended ticks are only counted and no delay ends.                      *)
Delay(t) ==
  /\ tstate' = [tstate EXCEPT ![t] = "delayed"]
  /\ UNCHANGED <<prio, holder, waits, suspended>>

Tick(t) ==
  /\ tstate[t] = "delayed"
  /\ suspended = None
  /\ tstate' = [tstate EXCEPT ![t] = "ready"]
  /\ UNCHANGED <<prio, holder, waits, suspended>>

-----------------------------------------------------------------------------
(* Mutexes *)

TakeMutex(t, m) ==
  /\ holder[m] = None
  /\ holder' = [holder EXCEPT ![m] = t]
  /\ UNCHANGED <<tstate, prio, waits, suspended>>

(* Mutex without configUSE_MUTEXES' inheritance, as a binary semaphore *)
NotInherited(m, t) == prio

(* xTaskPriorityInherit: only the direct holder is raised, and only upwards *)
Inherited(m, t) ==
  [prio EXCEPT ![holder[m]] = IF @ < prio[t] THEN prio[t] ELSE @]

BlockOnMutex(t, m) ==
  /\ holder[m] # None
  /\ prio' = Inherited(m, t)
  /\ tstate' = [tstate EXCEPT ![t] = "blocked"]
  /\ waits' = [waits EXCEPT ![t] = m]
  /\ UNCHANGED <<holder, suspended>>

(* The raised priority kept after the release *)
KeptRaised(t, m) == prio

(* xTaskPriorityDisinherit: back to the base priority, but only with the    *)
(* release of the last mutex the task holds                                 *)
Disinherited(t, m) ==
  IF \A n \in Mutex \ {m} : holder[n] # t
  THEN [prio EXCEPT ![t] = BasePriority[t]]
  ELSE prio

Waiters(m) == {t \in Task : waits[t] = m}

GiveMutex(t, m) ==
  /\ holder' = [holder EXCEPT ![m] = None]
  /\ prio' = Disinherited(t, m)
  /\ IF Waiters(m) = {}
     THEN UNCHANGED <<tstate, waits>>
     ELSE \E w \in Waiters(m) :
            /\ \A u \in Waiters(m) : prio[u] <= prio[w]
            /\ tstate' = [tstate EXCEPT ![w] = "ready"]
            /\ waits' = [waits EXCEPT ![w] = None]
  /\ UNCHANGED suspended

-----------------------------------------------------------------------------
(* osThreadTerminate: the task leaves every list it is on. The mutexes it   *)
(* holds are not given back.                                                *)
Terminate(t) ==
  /\ tstate' = [tstate EXCEPT ![t] = "deleted"]
  /\ waits' = [waits EXCEPT ![t] = None]
  /\ UNCHANGED <<prio, holder, suspended>>

(* osKernelLock *)
KernelLock(t) ==
  /\ suspended' = IF suspended = None THEN t ELSE suspended
  /\ UNCHANGED <<tstate, prio, holder, waits>>

=============================================================================
