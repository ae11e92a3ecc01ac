-------------------------------- MODULE Threads --------------------------------
(***************************************************************************)
(* The thread system of threads/thread.c with the alarm clock of           *)
(* devices/timer.c: thread states, the priority-ordered run queue, the     *)
(* sleep queue, deferred destruction of dead threads, and the timer        *)
(* interrupt.                                                              *)
(*                                                                         *)
(* There is one CPU.  A step is what the code does with interrupts off, or *)
(* one access to shared state made with interrupts on; the timer interrupt *)
(* may come between any two steps of a thread.  pc[t] says where t stands  *)
(* inside a kernel routine that runs with interrupts on.                   *)
(***************************************************************************)
EXTENDS KernelList

CONSTANTS
  Thread,      \* the pages a struct thread may live in
  Main,        \* initial_thread
  Idle,        \* idle_thread
  PRI_MAX,     \* priorities are 0 .. PRI_MAX
  PRI_DEFAULT, \* the priority of main
  TIME_SLICE,  \* ticks a thread runs before it is preempted
  MaxTick      \* bound: the clock stops here, its interrupts go on

ASSUME ThreadsAssumption ==
  /\ Main \in Thread /\ Idle \in Thread /\ Main # Idle
  /\ PRI_MAX \in Nat /\ PRI_DEFAULT \in 0 .. PRI_MAX
  /\ TIME_SLICE \in Nat \ {0} /\ MaxTick \in Nat

Priority == 0 .. PRI_MAX

VARIABLES
  current,          \* the thread whose stack the CPU is on
  status,
  priority,
  ready_list,
  sleep_list,
  wakeup_tick,
  destruction_req,  \* dead threads whose page is still to be freed
  ticks,
  thread_ticks,
  in_intr,          \* the timer interrupt handler is running
  yield_on_return,
  pc,               \* continuation of a routine running with interrupts on
  panic             \* what stopped the kernel, or "none"

schedVars == << current, status, ready_list, destruction_req, thread_ticks >>
sleepVars == << sleep_list, wakeup_tick, ticks >>
intrVars  == << in_intr, yield_on_return >>
vars == << schedVars, sleepVars, intrVars, priority, pc, panic >>

-------------------------------------------------------------------------------
(* State just after thread_start: main runs, idle has blocked itself once. *)
Init ==
  /\ current = Main
  /\ status = [t \in Thread |-> IF t = Main THEN "running"
                                ELSE IF t = Idle THEN "blocked" ELSE "free"]
  /\ priority = [t \in Thread |-> IF t = Main THEN PRI_DEFAULT ELSE 0]
  /\ ready_list = << >>
  /\ sleep_list = << >>
  /\ wakeup_tick = [t \in Thread |-> 0]
  /\ destruction_req = << >>
  /\ ticks = 0
  /\ thread_ticks = 0
  /\ in_intr = FALSE
  /\ yield_on_return = FALSE
  /\ pc = [t \in Thread |-> "run"]
  /\ panic = "none"

-------------------------------------------------------------------------------
(* Parts of actions, shared by this module and by those that extend it. *)

(* Kernel code of thread t runs, outside of an interrupt handler. *)
InKernel(t) == t = current /\ ~in_intr /\ panic = "none"

At(t, l) == InKernel(t) /\ pc[t] = l

Goto(t, l) == pc' = [pc EXCEPT ![t] = l]

(* thread_unblock's effect on the run queue and on the status. *)
Readied(rl, t) == InsertDescending(rl, t, priority)

(***************************************************************************)
(* schedule: with st the status of every thread, in which current has      *)
(* already given up the CPU, and rl the run queue, switch to the next      *)
(* thread; dead lists the threads waiting for their page to be freed.      *)
(***************************************************************************)
Schedule(st, rl, dead) ==
  LET next == IF rl = << >> THEN Idle ELSE Head(rl)
  IN  /\ current' = next
      /\ status' = [st EXCEPT ![next] = "running"]
      /\ ready_list' = IF rl = << >> THEN << >> ELSE Tail(rl)
      /\ destruction_req' = IF st[current] = "dying" /\ current # Main
                            THEN Append(dead, current) ELSE dead
      /\ thread_ticks' = 0

(* do_schedule: free the pages of the dead first, then give up the CPU. *)
DoSchedule(st, newStatus, rl) ==
  Schedule([t \in Thread |-> IF t = current THEN newStatus
                             ELSE IF t \in Range(destruction_req) THEN "free"
                             ELSE st[t]],
           rl, << >>)

(* thread_block *)
Block(st, rl) ==
  Schedule([st EXCEPT ![current] = "blocked"], rl, destruction_req)

(* Mutant of YieldFrom: the idle thread is queued like any other. *)
YieldFromAny(st, rl) == DoSchedule(st, "ready", Readied(rl, current))

(* thread_yield; the idle thread is not put on the run queue. *)
YieldFrom(st, rl) ==
  DoSchedule(st, "ready", IF current = Idle THEN rl ELSE Readied(rl, current))

(* check_and_preempt, called with interrupts off. *)
PreemptOrContinue(st, rl) ==
  IF rl # << >> /\ current # Idle /\ priority[current] < priority[Head(rl)]
  THEN YieldFrom(st, rl)
  ELSE /\ status' = st
       /\ ready_list' = rl
       /\ UNCHANGED << current, destruction_req, thread_ticks >>

-------------------------------------------------------------------------------
(* thread_create: the new thread gets a free page, zeroed and initialized  *)
(* by init_thread, and is made ready; the caller then goes on to           *)
(* check_and_preempt with interrupts on.                                   *)
ThreadCreate(self, t, p) ==
  /\ At(self, "run") /\ self # Idle
  /\ status[t] = "free"
  /\ status' = [status EXCEPT ![t] = "ready"]
  /\ priority' = [priority EXCEPT ![t] = p]
  /\ ready_list' = InsertDescending(ready_list, t, priority')
  /\ wakeup_tick' = [wakeup_tick EXCEPT ![t] = 0]
  /\ pc' = [pc EXCEPT ![t] = "run", ![self] = "preempt"]
  /\ UNCHANGED << current, destruction_req, thread_ticks, sleep_list, ticks, intrVars,
                  panic >>

(* thread_create with no memory for the file descriptor table: it returns  *)
(* TID_ERROR and leaves behind a blocked thread that nobody will unblock.  *)
ThreadCreateFails(self, t, p) ==
  /\ At(self, "run") /\ self # Idle
  /\ status[t] = "free"
  /\ status' = [status EXCEPT ![t] = "blocked"]
  /\ priority' = [priority EXCEPT ![t] = p]
  /\ wakeup_tick' = [wakeup_tick EXCEPT ![t] = 0]
  /\ pc' = [pc EXCEPT ![t] = "unborn"]
  /\ UNCHANGED << current, ready_list, destruction_req, thread_ticks, sleep_list, ticks,
                  intrVars, panic >>

(* thread_set_priority, up to its call of check_and_preempt. *)
ThreadSetPriority(self, p) ==
  /\ At(self, "run") /\ self # Idle
  /\ priority' = [priority EXCEPT ![self] = p]
  /\ Goto(self, "preempt")
  /\ UNCHANGED << schedVars, sleepVars, intrVars, panic >>

(* The bare writes to a priority: thread_set_priority and refresh_priority *)
(* set that of the running thread, donate_priority that of another one in  *)
(* place, without reordering the run queue.  It stores what it read with   *)
(* interrupts on, so that the other's priority may also go down.           *)
WritePriority(self, t, p) ==
  /\ At(self, "run") /\ self # Idle
  /\ t # Idle
  /\ t # self => status[t] \in {"ready", "blocked"}
  /\ priority' = [priority EXCEPT ![t] = p]
  /\ UNCHANGED << schedVars, sleepVars, intrVars, pc, panic >>

(* check_and_preempt, first part: the early returns. *)
CheckAndPreempt(self) ==
  /\ At(self, "preempt")
  /\ Goto(self, IF self = Idle \/ ready_list = << >> THEN "run" ELSE "front")
  /\ UNCHANGED << schedVars, sleepVars, intrVars, priority, panic >>

(* check_and_preempt, second part: list_front asserts a nonempty list;     *)
(* yield to its first thread when that has a higher priority.              *)
PreemptToFront(self) ==
  /\ At(self, "front")
  /\ \/ /\ ready_list = << >>
        /\ panic' = "list_front"
        /\ UNCHANGED << schedVars, pc >>
     \/ /\ ready_list # << >>
        /\ Goto(self, "run")
        /\ IF priority[self] < priority[Head(ready_list)]
           THEN YieldFrom(status, ready_list)
           ELSE UNCHANGED schedVars
        /\ UNCHANGED panic
  /\ UNCHANGED << sleepVars, intrVars, priority >>

ThreadYield(self) ==
  /\ At(self, "run") /\ self # Idle
  /\ YieldFrom(status, ready_list)
  /\ UNCHANGED << sleepVars, intrVars, priority, pc, panic >>

(* thread_block, called by whoever waits for another thread. *)
ThreadBlock(self) ==
  /\ At(self, "run") /\ self # Idle
  /\ Block(status, ready_list)
  /\ UNCHANGED << sleepVars, intrVars, priority, pc, panic >>

(* thread_unblock of a thread that waits for another thread; its one       *)
(* caller, sema_up, then calls check_and_preempt before it turns the       *)
(* interrupts on again.                                                    *)
ThreadUnblock(self, t) ==
  /\ At(self, "run") /\ self # Idle
  /\ t # Idle /\ status[t] = "blocked" /\ t \notin Range(sleep_list) /\ pc[t] # "unborn"
  /\ PreemptOrContinue([status EXCEPT ![t] = "ready"], Readied(ready_list, t))
  /\ UNCHANGED << sleepVars, intrVars, priority, pc, panic >>

(* check_and_preempt with interrupts off and nobody unblocked: sema_up of  *)
(* a semaphore nobody waits for.                                           *)
PreemptIfHigher(self) ==
  /\ At(self, "run") /\ self # Idle
  /\ PreemptOrContinue(status, ready_list)
  /\ UNCHANGED << sleepVars, intrVars, priority, pc, panic >>

(* sema_up in the handler of a device interrupt, when the thread it wakes  *)
(* does not outrank the interrupted one: no preemption.                    *)
IntrUnblock(t) ==
  /\ InKernel(current)
  /\ t # Idle /\ status[t] = "blocked" /\ t \notin Range(sleep_list) /\ pc[t] # "unborn"
  /\ status' = [status EXCEPT ![t] = "ready"]
  /\ ready_list' = Readied(ready_list, t)
  /\ UNCHANGED << current, destruction_req, thread_ticks, sleepVars, intrVars, priority,
                  pc, panic >>

ThreadExit(self) ==
  /\ At(self, "run") /\ self # Idle
  /\ DoSchedule(status, "dying", ready_list)
  /\ UNCHANGED << sleepVars, intrVars, priority, pc, panic >>

(* The loop of idle(): block again each time it gets the CPU. *)
IdleLoop ==
  /\ At(Idle, "run")
  /\ Block(status, ready_list)
  /\ UNCHANGED << sleepVars, intrVars, priority, pc, panic >>

-------------------------------------------------------------------------------
(* timer_sleep reads the clock with interrupts on; until thread_sleep      *)
(* stores it, wakeup_tick stands for the value in its argument ...         *)
TimerSleep(self, n) ==
  /\ At(self, "run") /\ self # Idle
  /\ ticks + n \in 0 .. MaxTick
  /\ wakeup_tick' = [wakeup_tick EXCEPT ![self] = ticks + n]
  /\ Goto(self, "sleep")
  /\ UNCHANGED << schedVars, sleep_list, ticks, intrVars, priority, panic >>

(* ... and thread_sleep queues the thread and blocks it. *)
ThreadSleep(self) ==
  /\ At(self, "sleep")
  /\ sleep_list' = InsertAscending(sleep_list, self, wakeup_tick)
  /\ Block(status, ready_list)
  /\ Goto(self, "run")
  /\ UNCHANGED << wakeup_tick, ticks, intrVars, priority, panic >>

(* Mutant of TimerInterrupt: the time slice is one tick too long. *)
TimerInterruptLate ==
  /\ InKernel(current)
  /\ in_intr' = TRUE
  /\ ticks' = IF ticks < MaxTick THEN ticks + 1 ELSE ticks
  /\ thread_ticks' = thread_ticks + 1
  /\ yield_on_return' = (thread_ticks + 1 > TIME_SLICE)
  /\ UNCHANGED << current, status, ready_list, destruction_req, sleep_list, wakeup_tick,
                  priority, pc, panic >>

(* intr_handler enters timer_interrupt: count the tick, then thread_tick. *)
TimerInterrupt ==
  /\ InKernel(current)
  /\ in_intr' = TRUE
  /\ ticks' = IF ticks < MaxTick THEN ticks + 1 ELSE ticks
  /\ thread_ticks' = thread_ticks + 1
  /\ yield_on_return' = (thread_ticks + 1 >= TIME_SLICE)
  /\ UNCHANGED << current, status, ready_list, destruction_req, sleep_list, wakeup_tick,
                  priority, pc, panic >>

(* Mutants of FrontSleeperDue: a tick late; whatever the tick. *)
FrontSleeperOverdue == sleep_list # << >> /\ wakeup_tick[Head(sleep_list)] < ticks
AnySleeper == sleep_list # << >>

FrontSleeperDue == sleep_list # << >> /\ wakeup_tick[Head(sleep_list)] =< ticks

(* thread_check_sleep_list: the front sleeper is due ... *)
WakeSleeper ==
  /\ in_intr /\ panic = "none"
  /\ FrontSleeperDue
  /\ sleep_list' = Tail(sleep_list)
  /\ ready_list' = Readied(ready_list, Head(sleep_list))
  /\ status' = [status EXCEPT ![Head(sleep_list)] = "ready"]
  /\ UNCHANGED << current, destruction_req, thread_ticks, wakeup_tick, ticks, intrVars,
                  priority, pc, panic >>

(* ... or it is not, and the handler returns, yielding if the time slice   *)
(* of the interrupted thread is over.                                      *)
TimerReturn ==
  /\ in_intr /\ panic = "none"
  /\ ~FrontSleeperDue
  /\ in_intr' = FALSE
  /\ yield_on_return' = FALSE
  /\ IF yield_on_return THEN YieldFrom(status, ready_list) ELSE UNCHANGED schedVars
  /\ UNCHANGED << sleepVars, priority, pc, panic >>

-------------------------------------------------------------------------------
ThreadStep(self) ==
  \/ \E t \in Thread, p \in Priority : ThreadCreate(self, t, p) \/ ThreadCreateFails(self, t, p)
  \/ \E p \in Priority : ThreadSetPriority(self, p)
  \/ \E t \in Thread, p \in Priority : WritePriority(self, t, p)
  \/ CheckAndPreempt(self)
  \/ PreemptToFront(self)
  \/ ThreadYield(self)
  \/ ThreadBlock(self)
  \/ \E t \in Thread : ThreadUnblock(self, t)
  \/ PreemptIfHigher(self)
  \/ ThreadExit(self)
  \/ \E n \in -1 .. MaxTick : TimerSleep(self, n)
  \/ ThreadSleep(self)

Next ==
  \/ \E self \in Thread : ThreadStep(self)
  \/ \E t \in Thread : IntrUnblock(t)
  \/ IdleLoop
  \/ TimerInterrupt
  \/ WakeSleeper
  \/ TimerReturn

(***************************************************************************)
(* The hardware timer keeps firing, its handler goes through the sleep     *)
(* queue and returns, and the idle thread loops.  Nothing is assumed of    *)
(* the other threads: they may compute for ever without entering the       *)
(* kernel.                                                                 *)
(***************************************************************************)
Fairness ==
  /\ WF_vars(TimerInterrupt)
  /\ WF_vars(WakeSleeper)
  /\ WF_vars(TimerReturn)
  /\ WF_vars(IdleLoop)

Spec == Init /\ [][Next]_vars

FairSpec == Spec /\ Fairness

-------------------------------------------------------------------------------
TypeOK ==
  /\ current \in Thread
  /\ status \in [Thread -> {"running", "ready", "blocked", "dying", "free"}]
  /\ priority \in [Thread -> Priority]
  /\ ready_list \in Seq(Thread)
  /\ sleep_list \in Seq(Thread)
  /\ wakeup_tick \in [Thread -> 0 .. MaxTick]
  /\ destruction_req \in Seq(Thread)
  /\ ticks \in 0 .. MaxTick
  /\ thread_ticks \in 0 .. TIME_SLICE
  /\ in_intr \in BOOLEAN /\ yield_on_return \in BOOLEAN
  /\ pc \in [Thread -> {"run", "preempt", "front", "sleep", "unborn"}]
  /\ panic \in {"none", "list_front"}

(* The CPU runs on the stack of the one thread marked THREAD_RUNNING       *)
(* (the assertion of thread_current, thread.c).                            *)
CurrentIsRunning == \A t \in Thread : status[t] = "running" <=> t = current

(* The run queue holds exactly the READY threads other than idle, each     *)
(* once: no ready thread is lost and none is queued twice.                 *)
RunQueueIsReadyThreads ==
  /\ \A t \in Thread \ {Idle} : status[t] = "ready" <=> t \in Range(ready_list)
  /\ Idle \notin Range(ready_list)
  /\ NoDuplicates(ready_list)

(* Only blocked threads sleep, each queued once, ordered by wake-up time   *)
(* (thread_check_sleep_list stops at the first one that is not due).       *)
SleepQueueOrdered ==
  /\ \A i \in 1..Len(sleep_list) : sleep_list[i] # Idle /\ status[sleep_list[i]] = "blocked"
  /\ NoDuplicates(sleep_list)
  /\ IsAscending(sleep_list, wakeup_tick)

(* A struct thread waits for destruction only when it is dead, once, and   *)
(* never while the CPU is still on its stack.                              *)
DestructionIsDeferred ==
  /\ \A i \in 1..Len(destruction_req) :
        status[destruction_req[i]] = "dying" /\ destruction_req[i] # current
  /\ NoDuplicates(destruction_req)

(* What each queue of struct threads holds is what the status of each      *)
(* thread and the CPU say: nobody is lost between them, nobody is in two,  *)
(* and nobody's page is freed while somebody still runs on it.             *)
QueuesMatchStates ==
  /\ CurrentIsRunning
  /\ RunQueueIsReadyThreads
  /\ SleepQueueOrdered
  /\ DestructionIsDeferred

(* When the timer interrupt returns, every thread whose time has come has  *)
(* been taken off the sleep queue.                                         *)
NobodyOversleeps ==
  [][in_intr /\ ~in_intr' =>
       \A t \in Range(sleep_list') : wakeup_tick'[t] > ticks']_vars

(* A sleeping thread is made ready only when its wake-up tick is reached.  *)
NobodyWakesEarly ==
  [][\A t \in Thread : t \in Range(sleep_list) /\ t \notin Range(sleep_list')
        => wakeup_tick[t] =< ticks /\ in_intr]_vars

(* Every thread put to sleep is eventually made ready (unless the kernel   *)
(* stops at a failed assertion first).                                     *)
SleeperWakes ==
  \A t \in Thread : t \in Range(sleep_list) ~> (t \notin Range(sleep_list) \/ panic # "none")

(* With a single priority level, a ready thread is eventually scheduled:   *)
(* equal priorities queue in FIFO order and time slices end.               *)
ReadyThreadRuns ==
  \A t \in Thread : (status[t] = "ready" /\ t # Idle) ~> (status[t] = "running" \/ panic # "none")
===============================================================================
