----------------------------- MODULE ThreadsProofs -----------------------------
(***************************************************************************)
(* The invariants of module Threads, for every number of threads, every    *)
(* priority range and every clock.                                         *)
(*                                                                         *)
(* SchedInv is what schedule() needs and re-establishes: it relates the    *)
(* thread marked running, the states of all threads, the run queue, the    *)
(* sleep queue and the list of the dead.  The lemmas show that each of the *)
(* scheduler's entry points keeps it; the actions then follow from them.   *)
(***************************************************************************)
EXTENDS Threads, KernelListProofs

Status == {"running", "ready", "blocked", "dying", "free"}

RunQueueOf(st, rl) ==
  /\ \A t \in Thread \ {Idle} : st[t] = "ready" <=> t \in Range(rl)
  /\ Idle \notin Range(rl)
  /\ NoDuplicates(rl)

SleepersOf(st, sl) == \A t \in Range(sl) : t # Idle /\ st[t] = "blocked"

DeadOf(st, dead) ==
  /\ \A t \in Range(dead) : st[t] = "dying"
  /\ NoDuplicates(dead)

SchedInv(cur, st, rl, sl, dead) ==
  /\ cur \in Thread
  /\ st \in [Thread -> Status]
  /\ rl \in Seq(Thread) /\ sl \in Seq(Thread) /\ dead \in Seq(Thread)
  /\ \A t \in Thread : st[t] = "running" <=> t = cur
  /\ RunQueueOf(st, rl)
  /\ SleepersOf(st, sl)
  /\ DeadOf(st, dead)
  /\ st[Idle] \in {"running", "ready", "blocked"}

(* A time slice that is over is one the interrupt handler knows about. *)
SliceInv == thread_ticks = TIME_SLICE => in_intr /\ yield_on_return

(* The idle thread never enters a routine that runs with interrupts on. *)
IdleInv == pc[Idle] = "run"

IInv ==
  /\ TypeOK
  /\ SchedInv(current, status, ready_list, sleep_list, destruction_req)
  /\ NoDuplicates(sleep_list)
  /\ IsAscending(sleep_list, wakeup_tick)
  /\ SliceInv /\ IdleInv

-------------------------------------------------------------------------------
(* The members of a list are those at its positions. *)
LEMMA RangeIsIndexed ==
  ASSUME NEW T, NEW s \in Seq(T)
  PROVE  /\ \A x : x \in Range(s) <=> \E i \in 1 .. Len(s) : x = s[i]
         /\ Range(s) \subseteq T
  BY DEF Range

(* list_init: nothing is linked. *)
LEMMA EmptyRange == Range(<< >>) = {} /\ NoDuplicates(<< >>)
  BY DEF Range, NoDuplicates

(***************************************************************************)
(* schedule(): current has given up the CPU in st, and nobody runs.        *)
(***************************************************************************)
LEMMA ScheduleKeeps ==
  ASSUME ThreadsAssumption,
         NEW st \in [Thread -> Status], NEW rl \in Seq(Thread),
         NEW sl \in Seq(Thread), NEW dead \in Seq(Thread),
         current \in Thread, current \notin Range(dead),
         \A t \in Thread : st[t] # "running",
         RunQueueOf(st, rl), SleepersOf(st, sl), DeadOf(st, dead),
         st[Idle] \in {"ready", "blocked"},
         Schedule(st, rl, dead)
  PROVE  /\ SchedInv(current', status', ready_list', sl, destruction_req')
         /\ thread_ticks' = 0
<1> DEFINE next == IF rl = << >> THEN Idle ELSE Head(rl)
           rest == IF rl = << >> THEN << >> ELSE Tail(rl)
<1>1. /\ current' = next
      /\ status' = [st EXCEPT ![next] = "running"]
      /\ ready_list' = rest
      /\ destruction_req' = IF st[current] = "dying" /\ current # Main
                            THEN Append(dead, current) ELSE dead
      /\ thread_ticks' = 0
  BY DEF Schedule
<1>2. Idle \in Thread
  BY DEF ThreadsAssumption
<1>3. /\ next \in Thread /\ rest \in Seq(Thread)
      /\ st[next] \in {"ready", "blocked"}
      /\ next = Idle \/ next \in Range(rl)
      /\ Range(rl) \subseteq Range(rest) \cup {next}
      /\ Range(rest) \subseteq Range(rl)
      /\ next \notin Range(rest)
      /\ NoDuplicates(rest)
  <2>1. CASE rl = << >>
    BY <2>1, <1>2, EmptyRange
  <2>2. CASE rl # << >>
    <3>1. /\ Tail(rl) \in Seq(Thread) /\ Head(rl) \in Thread
          /\ Range(rl) = Range(Tail(rl)) \cup {Head(rl)}
          /\ NoDuplicates(Tail(rl)) /\ Head(rl) \notin Range(Tail(rl))
      BY <2>2, TailProperties DEF RunQueueOf
    <3>2. Head(rl) # Idle /\ st[Head(rl)] = "ready"
      BY <3>1 DEF RunQueueOf
    <3> QED BY <2>2, <3>1, <3>2
  <2> QED BY <2>1, <2>2
<1> HIDE DEF next, rest
<1>4. status' \in [Thread -> Status] /\ \A t \in Thread : status'[t] = "running" <=> t = next
  BY <1>1, <1>3 DEF Status
<1>5. \A t \in Thread : t # next => status'[t] = st[t]
  BY <1>1, <1>3
<1>6. RunQueueOf(status', rest)
  <2>1. ASSUME NEW t \in Thread \ {Idle} PROVE status'[t] = "ready" <=> t \in Range(rest)
    BY <1>3, <1>4, <1>5 DEF RunQueueOf
  <2> QED BY <2>1, <1>3 DEF RunQueueOf
<1>7. SleepersOf(status', sl)
  <2> SUFFICES ASSUME NEW t \in Range(sl) PROVE t # Idle /\ status'[t] = "blocked"
    BY DEF SleepersOf
  <2>1. t \in Thread /\ t # Idle /\ st[t] = "blocked"
    BY RangeIsIndexed DEF SleepersOf
  <2>2. t # next
    BY <2>1, <1>3 DEF RunQueueOf
  <2> QED BY <2>1, <2>2, <1>5
<1>8. destruction_req' \in Seq(Thread) /\ DeadOf(status', destruction_req')
  <2>1. \A t \in Range(dead) : status'[t] = "dying"
    <3> SUFFICES ASSUME NEW t \in Range(dead) PROVE status'[t] = "dying"
      OBVIOUS
    <3>1. t \in Thread /\ st[t] = "dying"
      BY RangeIsIndexed DEF DeadOf
    <3> QED BY <3>1, <1>3, <1>5
  <2>2. CASE st[current] = "dying" /\ current # Main
    <3>1. /\ Append(dead, current) \in Seq(Thread)
          /\ Range(Append(dead, current)) = Range(dead) \cup {current}
          /\ NoDuplicates(Append(dead, current))
      BY AppendRange DEF DeadOf
    <3>2. status'[current] = "dying"
      BY <2>2, <1>3, <1>5
    <3> QED BY <1>1, <2>1, <2>2, <3>1, <3>2 DEF DeadOf
  <2>3. CASE ~ (st[current] = "dying" /\ current # Main)
    BY <1>1, <2>1, <2>3 DEF DeadOf
  <2> QED BY <2>2, <2>3
<1>9. status'[Idle] \in {"running", "ready", "blocked"}
  BY <1>2, <1>4, <1>5
<1> QED
  BY <1>1, <1>3, <1>4, <1>6, <1>7, <1>8, <1>9 DEF SchedInv

(* thread_block, with sl the sleep queue afterwards. *)
LEMMA BlockKeeps ==
  ASSUME ThreadsAssumption,
         NEW st, NEW rl, NEW sl \in Seq(Thread),
         SchedInv(current, st, rl, sleep_list, destruction_req),
         \A t \in Range(sl) : t # Idle /\ (t = current \/ st[t] = "blocked"),
         Block(st, rl)
  PROVE  /\ SchedInv(current', status', ready_list', sl, destruction_req')
         /\ thread_ticks' = 0
<1> DEFINE st2 == [st EXCEPT ![current] = "blocked"]
<1>1. Schedule(st2, rl, destruction_req)
  BY DEF Block
<1>2. /\ st2 \in [Thread -> Status] /\ current \in Thread
      /\ st2[current] = "blocked"
      /\ \A t \in Thread : t # current => st2[t] = st[t]
      /\ st[current] = "running"
  BY DEF SchedInv, Status
<1> HIDE DEF st2
<1>3. RunQueueOf(st2, rl)
  BY <1>2 DEF SchedInv, RunQueueOf
<1>4. SleepersOf(st2, sl)
  BY <1>2, RangeIsIndexed DEF SleepersOf
<1>5. DeadOf(st2, destruction_req) /\ current \notin Range(destruction_req)
  BY <1>2, RangeIsIndexed DEF SchedInv, DeadOf
<1>6. st2[Idle] \in {"ready", "blocked"} /\ \A t \in Thread : st2[t] # "running"
  BY <1>2 DEF SchedInv, ThreadsAssumption
<1> QED
  BY <1>1, <1>2, <1>3, <1>4, <1>5, <1>6, ScheduleKeeps DEF SchedInv

(* do_schedule: the dead are freed, and current is ready again or dying. *)
LEMMA DoScheduleKeeps ==
  ASSUME ThreadsAssumption,
         NEW st, NEW rl, NEW rl2 \in Seq(Thread), NEW new \in {"ready", "dying"},
         SchedInv(current, st, rl, sleep_list, destruction_req),
         NoDuplicates(rl2),
         Range(rl2) = IF new = "ready" /\ current # Idle
                      THEN Range(rl) \cup {current} ELSE Range(rl),
         new = "dying" => current # Idle,
         DoSchedule(st, new, rl2)
  PROVE  /\ SchedInv(current', status', ready_list', sleep_list, destruction_req')
         /\ thread_ticks' = 0
<1> DEFINE st2 == [t \in Thread |-> IF t = current THEN new
                                    ELSE IF t \in Range(destruction_req) THEN "free"
                                    ELSE st[t]]
<1>1. Schedule(st2, rl2, << >>)
  BY DEF DoSchedule
<1>2. /\ current \in Thread /\ st2 \in [Thread -> Status]
      /\ st2[current] = new
      /\ \A t \in Thread : t # current => \/ st2[t] = st[t]
                                          \/ st2[t] = "free" /\ st[t] = "dying"
      /\ st[current] = "running"
  BY DEF SchedInv, Status, DeadOf
<1> HIDE DEF st2
<1>3. RunQueueOf(st2, rl2)
  <2>1. ASSUME NEW t \in Thread \ {Idle} PROVE st2[t] = "ready" <=> t \in Range(rl2)
    <3>1. CASE t = current
      BY <3>1, <1>2 DEF SchedInv, RunQueueOf
    <3>2. CASE t # current
      BY <3>2, <1>2 DEF SchedInv, RunQueueOf
    <3> QED BY <3>1, <3>2
  <2> QED BY <2>1 DEF SchedInv, RunQueueOf
<1>4. SleepersOf(st2, sleep_list)
  BY <1>2, RangeIsIndexed DEF SchedInv, SleepersOf
<1>5. DeadOf(st2, << >>) /\ current \notin Range(<< >>) /\ << >> \in Seq(Thread)
  BY EmptyRange DEF DeadOf
<1>6. st2[Idle] \in {"ready", "blocked"} /\ \A t \in Thread : st2[t] # "running"
  BY <1>2 DEF SchedInv, ThreadsAssumption
<1>7. sleep_list \in Seq(Thread)
  BY DEF SchedInv
<1> QED
  BY <1>1, <1>2, <1>3, <1>4, <1>5, <1>6, <1>7, ScheduleKeeps

(* thread_yield, of the idle thread too. *)
LEMMA YieldFromKeeps ==
  ASSUME ThreadsAssumption, NEW st, NEW rl,
         SchedInv(current, st, rl, sleep_list, destruction_req),
         YieldFrom(st, rl)
  PROVE  /\ SchedInv(current', status', ready_list', sleep_list, destruction_req')
         /\ thread_ticks' = 0
<1>1. /\ rl \in Seq(Thread) /\ current \in Thread /\ NoDuplicates(rl)
      /\ current # Idle => current \notin Range(rl)
  BY DEF SchedInv, RunQueueOf
<1> DEFINE rl2 == IF current = Idle THEN rl ELSE Readied(rl, current)
<1>2. /\ rl2 \in Seq(Thread) /\ NoDuplicates(rl2)
      /\ Range(rl2) = IF current # Idle THEN Range(rl) \cup {current} ELSE Range(rl)
  <2>1. CASE current = Idle
    BY <2>1, <1>1
  <2>2. CASE current # Idle
    BY <2>2, <1>1, InsertDescendingProperties DEF Readied
  <2> QED BY <2>1, <2>2
<1>3. DoSchedule(st, "ready", rl2)
  BY DEF YieldFrom
<1> HIDE DEF rl2
<1> QED
  BY <1>2, <1>3, DoScheduleKeeps

(* thread_unblock of a blocked thread that is not asleep. *)
LEMMA ReadiedKeeps ==
  ASSUME ThreadsAssumption, NEW sl \in Seq(Thread), NEW t \in Thread, NEW key,
         SchedInv(current, status, ready_list, sleep_list, destruction_req),
         Range(sl) \subseteq Range(sleep_list),
         t # Idle, t \notin Range(sl), status[t] \in {"blocked", "free"}
  PROVE  SchedInv(current, [status EXCEPT ![t] = "ready"],
                  InsertDescending(ready_list, t, key), sl, destruction_req)
<1> DEFINE st2 == [status EXCEPT ![t] = "ready"]
           rl2 == InsertDescending(ready_list, t, key)
<1>1. /\ st2 \in [Thread -> Status] /\ st2[t] = "ready"
      /\ \A u \in Thread : u # t => st2[u] = status[u]
  BY DEF SchedInv, Status
<1>2. /\ ready_list \in Seq(Thread) /\ NoDuplicates(ready_list) /\ t \notin Range(ready_list)
  BY DEF SchedInv, RunQueueOf
<1>3. /\ rl2 \in Seq(Thread) /\ NoDuplicates(rl2)
      /\ Range(rl2) = Range(ready_list) \cup {t}
  BY <1>2, InsertDescendingProperties
<1> HIDE DEF st2, rl2
<1>4. RunQueueOf(st2, rl2)
  BY <1>1, <1>3 DEF SchedInv, RunQueueOf
<1>5. SleepersOf(st2, sl)
  BY <1>1, RangeIsIndexed DEF SchedInv, SleepersOf
<1>6. DeadOf(st2, destruction_req)
  BY <1>1, RangeIsIndexed DEF SchedInv, DeadOf
<1>7. /\ \A u \in Thread : st2[u] = "running" <=> u = current
      /\ st2[Idle] \in {"running", "ready", "blocked"}
  BY <1>1 DEF SchedInv, ThreadsAssumption
<1>8. SchedInv(current, st2, rl2, sl, destruction_req)
  BY <1>1, <1>3, <1>4, <1>5, <1>6, <1>7 DEF SchedInv
<1> QED
  BY <1>8 DEF st2, rl2

(* check_and_preempt with interrupts off. *)
LEMMA PreemptKeeps ==
  ASSUME ThreadsAssumption, NEW st, NEW rl,
         SchedInv(current, st, rl, sleep_list, destruction_req),
         PreemptOrContinue(st, rl)
  PROVE  /\ SchedInv(current', status', ready_list', sleep_list, destruction_req')
         /\ thread_ticks' \in {0, thread_ticks}
<1>1. CASE YieldFrom(st, rl)
  BY <1>1, YieldFromKeeps
<1>2. CASE /\ status' = st /\ ready_list' = rl
           /\ UNCHANGED << current, destruction_req, thread_ticks >>
  BY <1>2
<1> QED
  BY <1>1, <1>2 DEF PreemptOrContinue

-------------------------------------------------------------------------------
(* The state thread_start leaves. *)
LEMMA InitInv == Init => IInv
<1> SUFFICES ASSUME Init PROVE IInv
  OBVIOUS
<1>1. /\ ready_list = << >> /\ sleep_list = << >> /\ destruction_req = << >>
      /\ << >> \in Seq(Thread) /\ Range(<< >>) = {} /\ NoDuplicates(<< >>)
  BY EmptyRange DEF Init
<1>2. TypeOK
  <2>1. /\ 0 \in 0 .. PRI_MAX /\ 0 \in 0 .. MaxTick /\ 0 \in 0 .. TIME_SLICE
        /\ PRI_DEFAULT \in 0 .. PRI_MAX /\ Main \in Thread
    BY ThreadsAssumption DEF ThreadsAssumption
  <2>2. /\ status \in [Thread -> {"running", "ready", "blocked", "dying", "free"}]
        /\ priority \in [Thread -> Priority]
        /\ wakeup_tick \in [Thread -> 0 .. MaxTick]
        /\ pc \in [Thread -> {"run", "preempt", "front", "sleep", "unborn"}]
    BY <2>1 DEF Init, Priority
  <2> QED BY <1>1, <2>1, <2>2 DEF Init, TypeOK
<1>3. SchedInv(current, status, ready_list, sleep_list, destruction_req)
  BY <1>1, ThreadsAssumption
     DEF Init, SchedInv, RunQueueOf, SleepersOf, DeadOf, Status, ThreadsAssumption
<1>4. IsAscending(sleep_list, wakeup_tick)
  BY <1>1 DEF IsAscending
<1>5. SliceInv /\ IdleInv
  BY ThreadsAssumption DEF Init, SliceInv, IdleInv, ThreadsAssumption
<1> QED
  BY <1>1, <1>2, <1>3, <1>4, <1>5 DEF IInv

(***************************************************************************)
(* What remains to be shown of an action that goes through schedule().     *)
(***************************************************************************)
LEMMA SchedulerStep ==
  ASSUME IInv, thread_ticks' \in {0, thread_ticks},
         SchedInv(current', status', ready_list', sleep_list', destruction_req'),
         priority' \in [Thread -> Priority],
         wakeup_tick' \in [Thread -> 0 .. MaxTick],
         NoDuplicates(sleep_list'), IsAscending(sleep_list', wakeup_tick'),
         ticks' = ticks,
         in_intr' \in BOOLEAN, yield_on_return' \in BOOLEAN,
         thread_ticks' = thread_ticks =>
            thread_ticks < TIME_SLICE \/ UNCHANGED << in_intr, yield_on_return >>,
         pc' \in [Thread -> {"run", "preempt", "front", "sleep", "unborn"}], pc'[Idle] = "run",
         panic' \in {"none", "list_front"}
  PROVE  IInv'
<1>1. TypeOK'
  <2>1. thread_ticks' \in 0 .. TIME_SLICE /\ ticks' \in 0 .. MaxTick
    BY ThreadsAssumption DEF IInv, TypeOK, ThreadsAssumption
  <2>2. /\ current' \in Thread /\ status' \in [Thread -> Status]
        /\ ready_list' \in Seq(Thread) /\ sleep_list' \in Seq(Thread)
        /\ destruction_req' \in Seq(Thread)
    BY DEF SchedInv
  <2> QED BY <2>1, <2>2 DEF TypeOK, Status
<1>2. SliceInv'
  BY ThreadsAssumption DEF IInv, TypeOK, SliceInv, ThreadsAssumption
<1> QED
  BY <1>1, <1>2 DEF IInv, IdleInv

(* Facts every step of a running thread starts from. *)
LEMMA RunningThread ==
  ASSUME IInv
  PROVE  /\ current \in Thread /\ status[current] = "running"
         /\ ready_list \in Seq(Thread) /\ sleep_list \in Seq(Thread)
         /\ current \notin Range(sleep_list) /\ current \notin Range(ready_list)
  BY RangeIsIndexed DEF IInv, SchedInv, SleepersOf, RunQueueOf

(* thread_create, at the run queue. *)
LEMMA CreatedKeeps ==
  ASSUME ThreadsAssumption, NEW t \in Thread, NEW key,
         SchedInv(current, status, ready_list, sleep_list, destruction_req),
         t # Idle, status[t] = "free"
  PROVE  SchedInv(current, [status EXCEPT ![t] = "ready"],
                  InsertDescending(ready_list, t, key), sleep_list, destruction_req)
<1>1. sleep_list \in Seq(Thread) /\ t \notin Range(sleep_list)
  BY DEF SchedInv, SleepersOf
<1> QED
  BY <1>1, ReadiedKeeps

(* The actions of a running thread. *)
LEMMA ThreadStepKeeps ==
  ASSUME IInv, NEW self \in Thread, ThreadStep(self)
  PROVE  IInv'
<1> USE ThreadsAssumption
<1>0. /\ TypeOK /\ SliceInv /\ pc[Idle] = "run" /\ Idle \in Thread
      /\ SchedInv(current, status, ready_list, sleep_list, destruction_req)
      /\ NoDuplicates(sleep_list) /\ IsAscending(sleep_list, wakeup_tick)
  BY DEF IInv, IdleInv, ThreadsAssumption
<1>a. ASSUME ~ in_intr PROVE thread_ticks < TIME_SLICE
  BY <1>0, <1>a DEF TypeOK, SliceInv, ThreadsAssumption
<1>1. ASSUME NEW t \in Thread, NEW p \in Priority, ThreadCreate(self, t, p) PROVE IInv'
  <2> USE <1>1 DEF ThreadCreate
  <2>1. priority' \in [Thread -> Priority] /\ wakeup_tick' \in [Thread -> 0 .. MaxTick]
    BY <1>0 DEF TypeOK, ThreadsAssumption
  <2>2. pc' \in [Thread -> {"run", "preempt", "front", "sleep", "unborn"}] /\ pc'[Idle] = "run"
    BY <1>0 DEF TypeOK
  <2>3. t # Idle /\ t \notin Range(sleep_list)
    BY <1>0 DEF SchedInv, SleepersOf
  <2>4. SchedInv(current', status', ready_list', sleep_list', destruction_req')
    BY <1>0, <2>3, CreatedKeeps
  <2>5. IsAscending(sleep_list', wakeup_tick')
    <3>1. \A i \in 1 .. Len(sleep_list) : sleep_list[i] \in Thread /\ sleep_list[i] # t
      BY <1>0, <2>3, RangeIsIndexed DEF TypeOK
    <3> QED BY <1>0, <3>1 DEF IsAscending, TypeOK
  <2> QED BY <1>0, <1>a, <2>1, <2>2, <2>4, <2>5, SchedulerStep DEF TypeOK, intrVars, At, InKernel
<1>b. ASSUME NEW t \in Thread, NEW p \in Priority, ThreadCreateFails(self, t, p) PROVE IInv'
  <2> USE <1>b DEF ThreadCreateFails
  <2>1. priority' \in [Thread -> Priority] /\ wakeup_tick' \in [Thread -> 0 .. MaxTick]
    BY <1>0 DEF TypeOK, ThreadsAssumption
  <2>2. /\ pc' \in [Thread -> {"run", "preempt", "front", "sleep", "unborn"}]
        /\ t # Idle /\ pc'[Idle] = "run" /\ t \notin Range(sleep_list)
    BY <1>0 DEF TypeOK, SchedInv, SleepersOf
  <2>3. SchedInv(current', status', ready_list', sleep_list', destruction_req')
    BY <1>0, <2>2, RangeIsIndexed
       DEF SchedInv, RunQueueOf, SleepersOf, DeadOf, Status
  <2>4. IsAscending(sleep_list', wakeup_tick')
    <3>1. \A i \in 1 .. Len(sleep_list) : sleep_list[i] \in Thread /\ sleep_list[i] # t
      BY <1>0, <2>2, RangeIsIndexed DEF TypeOK
    <3> QED BY <1>0, <3>1 DEF IsAscending, TypeOK
  <2> QED BY <1>0, <1>a, <2>1, <2>2, <2>3, <2>4, SchedulerStep DEF TypeOK, intrVars, At, InKernel
<1>2. ASSUME NEW p \in Priority, ThreadSetPriority(self, p) PROVE IInv'
  BY <1>0, <1>2, SchedulerStep
     DEF ThreadSetPriority, TypeOK, Goto, schedVars, sleepVars, intrVars
<1>3. ASSUME NEW t \in Thread, NEW p \in Priority, WritePriority(self, t, p) PROVE IInv'
  BY <1>0, <1>3, SchedulerStep
     DEF WritePriority, TypeOK, schedVars, sleepVars, intrVars
<1>4. ASSUME CheckAndPreempt(self) PROVE IInv'
  BY <1>0, <1>4, SchedulerStep
     DEF CheckAndPreempt, TypeOK, Goto, At, schedVars, sleepVars, intrVars
<1>5. ASSUME PreemptToFront(self) PROVE IInv'
  <2>1. /\ UNCHANGED << sleepVars, intrVars, priority >>
        /\ pc' \in [Thread -> {"run", "preempt", "front", "sleep", "unborn"}] /\ pc'[Idle] = "run"
        /\ panic' \in {"none", "list_front"}
        /\ YieldFrom(status, ready_list) \/ UNCHANGED schedVars
        /\ ~ in_intr
    BY <1>0, <1>5 DEF PreemptToFront, TypeOK, Goto, At, InKernel
  <2>2. /\ SchedInv(current', status', ready_list', sleep_list', destruction_req')
        /\ thread_ticks' \in {0, thread_ticks}
    BY <1>0, <2>1, YieldFromKeeps DEF schedVars, sleepVars
  <2> QED BY <1>0, <1>a, <2>1, <2>2, SchedulerStep DEF TypeOK, sleepVars, intrVars
<1>6. ASSUME ThreadYield(self) PROVE IInv'
  <2>1. /\ SchedInv(current', status', ready_list', sleep_list', destruction_req')
        /\ thread_ticks' = 0
    BY <1>0, <1>6, YieldFromKeeps DEF ThreadYield, sleepVars
  <2> QED BY <1>0, <1>6, <1>a, <2>1, SchedulerStep
             DEF ThreadYield, TypeOK, sleepVars, intrVars, At, InKernel
<1>7. ASSUME ThreadBlock(self) PROVE IInv'
  <2>1. /\ SchedInv(current', status', ready_list', sleep_list', destruction_req')
        /\ thread_ticks' = 0
    <3>1. sleep_list \in Seq(Thread)
          /\ \A t \in Range(sleep_list) : t # Idle /\ status[t] = "blocked"
      BY <1>0 DEF TypeOK, SchedInv, SleepersOf
    <3> QED BY <1>0, <1>7, <3>1, BlockKeeps DEF ThreadBlock, sleepVars
  <2> QED BY <1>0, <1>7, <1>a, <2>1, SchedulerStep
             DEF ThreadBlock, TypeOK, sleepVars, intrVars, At, InKernel
<1>8. ASSUME NEW t \in Thread, ThreadUnblock(self, t) PROVE IInv'
  <2> USE <1>8 DEF ThreadUnblock
  <2>1. SchedInv(current, [status EXCEPT ![t] = "ready"], Readied(ready_list, t),
                 sleep_list, destruction_req)
    BY <1>0, ReadiedKeeps DEF Readied, TypeOK
  <2>2. /\ SchedInv(current', status', ready_list', sleep_list', destruction_req')
        /\ thread_ticks' \in {0, thread_ticks}
    BY <2>1, PreemptKeeps DEF sleepVars
  <2> QED BY <1>0, <1>a, <2>2, SchedulerStep DEF TypeOK, sleepVars, intrVars, At, InKernel
<1>9. ASSUME PreemptIfHigher(self) PROVE IInv'
  <2>1. /\ SchedInv(current', status', ready_list', sleep_list', destruction_req')
        /\ thread_ticks' \in {0, thread_ticks}
    BY <1>0, <1>9, PreemptKeeps DEF PreemptIfHigher, sleepVars
  <2> QED BY <1>0, <1>9, <1>a, <2>1, SchedulerStep
             DEF PreemptIfHigher, TypeOK, sleepVars, intrVars, At, InKernel
<1>10. ASSUME ThreadExit(self) PROVE IInv'
  <2>1. DoSchedule(status, "dying", ready_list) /\ current # Idle /\ ~ in_intr
    BY <1>10 DEF ThreadExit, At, InKernel
  <2>2. ready_list \in Seq(Thread) /\ NoDuplicates(ready_list)
    BY <1>0 DEF SchedInv, RunQueueOf
  <2>3. /\ SchedInv(current', status', ready_list', sleep_list, destruction_req')
        /\ thread_ticks' = 0
    BY <1>0, <2>1, <2>2, DoScheduleKeeps
  <2> QED BY <1>0, <1>10, <1>a, <2>1, <2>3, SchedulerStep
             DEF ThreadExit, TypeOK, sleepVars, intrVars
<1>11. ASSUME NEW n \in -1 .. MaxTick, TimerSleep(self, n) PROVE IInv'
  <2> USE <1>11 DEF TimerSleep
  <2>1. /\ wakeup_tick' \in [Thread -> 0 .. MaxTick]
        /\ pc' \in [Thread -> {"run", "preempt", "front", "sleep", "unborn"}] /\ pc'[Idle] = "run"
    BY <1>0 DEF TypeOK, Goto
  <2>2. IsAscending(sleep_list', wakeup_tick')
    <3>1. \A i \in 1 .. Len(sleep_list) : sleep_list[i] \in Thread /\ sleep_list[i] # self
      BY <1>0, RangeIsIndexed, RunningThread DEF TypeOK, At, InKernel, IInv
    <3> QED BY <1>0, <3>1 DEF IsAscending, TypeOK
  <2> QED BY <1>0, <2>1, <2>2, SchedulerStep DEF TypeOK, schedVars, intrVars
<1>12. ASSUME ThreadSleep(self) PROVE IInv'
  <2> USE <1>12 DEF ThreadSleep
  <2>0. /\ self = current /\ ~ in_intr /\ self # Idle /\ self \notin Range(sleep_list)
        /\ sleep_list \in Seq(Thread)
    BY <1>0, RunningThread DEF At, InKernel, TypeOK
  <2>a. wakeup_tick \in [Thread -> Int]
    BY <1>0 DEF TypeOK
  <2>1. /\ sleep_list' \in Seq(Thread)
        /\ Range(sleep_list') = Range(sleep_list) \cup {self}
        /\ NoDuplicates(sleep_list')
    BY <1>0, <2>0, InsertAscendingProperties
  <2>2. IsAscending(sleep_list', wakeup_tick')
    BY <1>0, <2>0, <2>a, InsertAscendingSorted
  <2>3. /\ SchedInv(current', status', ready_list', sleep_list', destruction_req')
        /\ thread_ticks' = 0
    <3>1. \A t \in Range(sleep_list') : t # Idle /\ (t = current \/ status[t] = "blocked")
      BY <1>0, <2>0, <2>1 DEF SchedInv, SleepersOf
    <3> QED BY <1>0, <2>1, <3>1, BlockKeeps
  <2> QED BY <1>0, <1>a, <2>0, <2>1, <2>2, <2>3, SchedulerStep DEF TypeOK, Goto, intrVars
<1> QED
  BY <1>1, <1>b, <1>2, <1>3, <1>4, <1>5, <1>6, <1>7, <1>8, <1>9, <1>10, <1>11, <1>12
     DEF ThreadStep

(* The interrupt handlers and the idle loop. *)
LEMMA InterruptStepKeeps ==
  ASSUME IInv,
         \/ \E t \in Thread : IntrUnblock(t)
         \/ IdleLoop \/ TimerInterrupt \/ WakeSleeper \/ TimerReturn
  PROVE  IInv'
<1> USE ThreadsAssumption
<1>0. /\ TypeOK /\ SliceInv /\ pc[Idle] = "run" /\ Idle \in Thread
      /\ SchedInv(current, status, ready_list, sleep_list, destruction_req)
      /\ NoDuplicates(sleep_list) /\ IsAscending(sleep_list, wakeup_tick)
  BY DEF IInv, IdleInv, ThreadsAssumption
<1>a. ASSUME ~ in_intr \/ ~ yield_on_return PROVE thread_ticks < TIME_SLICE
  BY <1>0, <1>a DEF TypeOK, SliceInv, ThreadsAssumption
<1>1. ASSUME NEW t \in Thread, IntrUnblock(t) PROVE IInv'
  <2>1. SchedInv(current', status', ready_list', sleep_list', destruction_req')
    BY <1>0, <1>1, ReadiedKeeps DEF IntrUnblock, Readied, TypeOK, sleepVars
  <2> QED BY <1>0, <1>1, <2>1, SchedulerStep DEF IntrUnblock, TypeOK, sleepVars, intrVars
<1>2. ASSUME IdleLoop PROVE IInv'
  <2>1. sleep_list \in Seq(Thread)
        /\ \A t \in Range(sleep_list) : t # Idle /\ status[t] = "blocked"
    BY <1>0 DEF TypeOK, SchedInv, SleepersOf
  <2>2. /\ SchedInv(current', status', ready_list', sleep_list', destruction_req')
        /\ thread_ticks' = 0
    BY <1>0, <1>2, <2>1, BlockKeeps DEF IdleLoop, sleepVars
  <2> QED BY <1>0, <1>2, <1>a, <2>2, SchedulerStep
             DEF IdleLoop, TypeOK, sleepVars, intrVars, At, InKernel
<1>3. ASSUME TimerInterrupt PROVE IInv'
  <2>1. /\ thread_ticks < TIME_SLICE /\ thread_ticks' = thread_ticks + 1
        /\ in_intr' = TRUE /\ yield_on_return' = (thread_ticks + 1 >= TIME_SLICE)
    BY <1>3, <1>a DEF TimerInterrupt, InKernel
  <2>2. /\ thread_ticks' \in 0 .. TIME_SLICE
        /\ ticks' \in 0 .. MaxTick
    BY <1>0, <1>3, <2>1 DEF TimerInterrupt, TypeOK, ThreadsAssumption
  <2>3. SliceInv'
    <3>1. thread_ticks \in Int /\ TIME_SLICE \in Int
      BY <1>0 DEF TypeOK, ThreadsAssumption
    <3>2. thread_ticks + 1 = TIME_SLICE => thread_ticks + 1 >= TIME_SLICE
      BY <3>1
    <3> QED BY <2>1, <3>2 DEF SliceInv
  <2>4. yield_on_return' \in BOOLEAN /\ in_intr' \in BOOLEAN
    BY <2>1
  <2>5. TypeOK'
    BY <1>0, <1>3, <2>2, <2>4 DEF TimerInterrupt, TypeOK
  <2> QED BY <1>0, <1>3, <2>3, <2>5 DEF TimerInterrupt, IInv, IdleInv
<1>4. ASSUME WakeSleeper PROVE IInv'
  <2> USE <1>4 DEF WakeSleeper
  <2> DEFINE t == Head(sleep_list)
  <2>1. /\ sleep_list # << >> /\ sleep_list \in Seq(Thread)
    BY <1>0 DEF FrontSleeperDue, TypeOK
  <2>2. /\ sleep_list' \in Seq(Thread) /\ t \in Thread /\ t \in Range(sleep_list)
        /\ Range(sleep_list') \subseteq Range(sleep_list)
        /\ NoDuplicates(sleep_list') /\ t \notin Range(sleep_list')
    BY <1>0, <2>1, TailProperties
  <2>3. IsAscending(sleep_list', wakeup_tick')
    BY <1>0, <2>1, TailAscending
  <2>4. t # Idle /\ status[t] = "blocked"
    BY <1>0, <2>2 DEF SchedInv, SleepersOf
  <2> HIDE DEF t
  <2>5. /\ status' = [status EXCEPT ![t] = "ready"]
        /\ ready_list' = InsertDescending(ready_list, t, priority)
    BY DEF Readied, t
  <2>6. SchedInv(current', status', ready_list', sleep_list', destruction_req')
    <3>1. SchedInv(current, [status EXCEPT ![t] = "ready"],
                   InsertDescending(ready_list, t, priority), sleep_list', destruction_req)
      BY <1>0, <2>2, <2>4, ReadiedKeeps
    <3> QED BY <2>5, <3>1
  <2> QED BY <1>0, <2>2, <2>3, <2>6, SchedulerStep DEF TypeOK, intrVars
<1>5. ASSUME TimerReturn PROVE IInv'
  <2>1. /\ SchedInv(current', status', ready_list', sleep_list', destruction_req')
        /\ thread_ticks' \in {0, thread_ticks}
        /\ yield_on_return => thread_ticks' = 0
    BY <1>0, <1>5, YieldFromKeeps DEF TimerReturn, schedVars, sleepVars
  <2>2. thread_ticks' = thread_ticks => thread_ticks < TIME_SLICE
    BY <1>a, <2>1, ThreadsAssumption DEF ThreadsAssumption
  <2> QED BY <1>0, <1>5, <2>1, <2>2, SchedulerStep DEF TimerReturn, TypeOK, sleepVars
<1> QED
  BY <1>1, <1>2, <1>3, <1>4, <1>5

(* Every step of the thread system keeps IInv, and so does every step of a *)
(* system built on it that is one of these steps (see SynchProofs).        *)
LEMMA NextKeeps ==
  ASSUME IInv, [Next]_vars
  PROVE  IInv'
<1>1. CASE Next
  BY <1>1, ThreadStepKeeps, InterruptStepKeeps DEF Next
<1>2. CASE UNCHANGED vars
  BY <1>2
     DEF IInv, TypeOK, SchedInv, RunQueueOf, SleepersOf, DeadOf, SliceInv, IdleInv,
         vars, schedVars, sleepVars, intrVars
<1> QED
  BY <1>1, <1>2

(***************************************************************************)
(* IInv is an inductive invariant of the thread system.                    *)
(***************************************************************************)
THEOREM Invariance == Spec => []IInv
  BY InitInv, NextKeeps, PTL DEF Spec

-------------------------------------------------------------------------------
(* Every variable keeps its type: in particular no thread runs for longer  *)
(* than its time slice, however ticks and interrupts interleave.           *)
THEOREM TypeCorrect == Spec => []TypeOK
<1>1. IInv => TypeOK
  BY DEF IInv
<1> QED
  BY Invariance, <1>1, PTL

(* thread_current's assertion never fails: the CPU is on the stack of the  *)
(* one thread that is marked THREAD_RUNNING.                               *)
THEOREM CurrentRuns == Spec => []CurrentIsRunning
<1>1. IInv => CurrentIsRunning
  BY DEF IInv, SchedInv, CurrentIsRunning
<1> QED
  BY Invariance, <1>1, PTL

(* The run queue is exactly the set of ready threads, each linked once.    *)
THEOREM RunQueueCorrect == Spec => []RunQueueIsReadyThreads
<1>1. IInv => RunQueueIsReadyThreads
  BY DEF IInv, SchedInv, RunQueueOf, RunQueueIsReadyThreads
<1> QED
  BY Invariance, <1>1, PTL

(* The sleep queue holds blocked threads, each once, earliest first.       *)
THEOREM SleepQueueCorrect == Spec => []SleepQueueOrdered
<1>1. IInv => SleepQueueOrdered
  BY RangeIsIndexed DEF IInv, SchedInv, SleepersOf, SleepQueueOrdered
<1> QED
  BY Invariance, <1>1, PTL

(* A struct thread is freed only once, and never under the CPU's feet.     *)
THEOREM DestructionCorrect == Spec => []DestructionIsDeferred
<1>1. IInv => DestructionIsDeferred
  <2> SUFFICES ASSUME IInv PROVE DestructionIsDeferred
    OBVIOUS
  <2>1. \A i \in 1 .. Len(destruction_req) : status[destruction_req[i]] = "dying"
    BY RangeIsIndexed DEF IInv, SchedInv, DeadOf
  <2>2. status[current] = "running"
    BY DEF IInv, SchedInv
  <2> QED BY <2>1, <2>2 DEF IInv, SchedInv, DeadOf, DestructionIsDeferred
<1> QED
  BY Invariance, <1>1, PTL

(* The run queue, the sleep queue and the destruction queue are what the   *)
(* states of the threads and the CPU say, after any step of the kernel.    *)
THEOREM QueuesCorrect == Spec => []QueuesMatchStates
<1>1. CurrentIsRunning /\ RunQueueIsReadyThreads /\ SleepQueueOrdered /\ DestructionIsDeferred
        => QueuesMatchStates
  BY DEF QueuesMatchStates
<1> QED
  BY CurrentRuns, RunQueueCorrect, SleepQueueCorrect, DestructionCorrect, <1>1, PTL

(* timer_interrupt leaves nobody asleep whose time has come: because the   *)
(* queue is ascending, the first thread that is not due ends the search.   *)
THEOREM SleepersAreWokenInTime == Spec => NobodyOversleeps
<1>1. ASSUME IInv, [Next]_vars, in_intr, ~ in_intr'
      PROVE  \A t \in Range(sleep_list') : wakeup_tick'[t] > ticks'
  <2>1. TimerReturn
    BY <1>1 DEF Next, ThreadStep, ThreadCreate, ThreadCreateFails, ThreadSetPriority, WritePriority,
        CheckAndPreempt, PreemptToFront, ThreadYield, ThreadBlock, ThreadUnblock,
        PreemptIfHigher, ThreadExit, TimerSleep, ThreadSleep, IntrUnblock, IdleLoop,
        TimerInterrupt, WakeSleeper, At, InKernel, vars, intrVars
  <2>2. UNCHANGED << sleep_list, wakeup_tick, ticks >> /\ ~ FrontSleeperDue
    BY <2>1 DEF TimerReturn, sleepVars
  <2>3. ASSUME NEW t \in Range(sleep_list) PROVE wakeup_tick[t] > ticks
    <3>1. /\ sleep_list \in Seq(Thread) /\ ticks \in Int
          /\ wakeup_tick \in [Thread -> 0 .. MaxTick] /\ MaxTick \in Nat
      BY <1>1, ThreadsAssumption DEF IInv, TypeOK, ThreadsAssumption
    <3>2. PICK i \in 1 .. Len(sleep_list) : t = sleep_list[i]
      BY <3>1, RangeIsIndexed
    <3>3. sleep_list # << >> /\ Head(sleep_list) = sleep_list[1] /\ 1 \in 1 .. Len(sleep_list)
      BY <3>1, <3>2
    <3>4. wakeup_tick[sleep_list[1]] > ticks
      BY <2>2, <3>1, <3>3 DEF FrontSleeperDue
    <3>5. wakeup_tick[sleep_list[1]] =< wakeup_tick[sleep_list[i]]
      BY <1>1, <3>1, <3>3 DEF IInv, IsAscending
    <3> QED BY <3>1, <3>2, <3>3, <3>4, <3>5
  <2> QED BY <2>2, <2>3
<1> QED
  BY Invariance, <1>1, PTL DEF Spec, NobodyOversleeps

(* A sleeping thread leaves the sleep queue in the timer interrupt only,   *)
(* and not before its wake-up tick.                                        *)
THEOREM SleepersAreNotWokenEarly == Spec => NobodyWakesEarly
<1>1. ASSUME IInv, [Next]_vars
      PROVE  [\A t \in Thread : t \in Range(sleep_list) /\ t \notin Range(sleep_list')
                => wakeup_tick[t] =< ticks /\ in_intr]_vars
  <2> SUFFICES ASSUME NEW t \in Thread,
                      t \in Range(sleep_list), t \notin Range(sleep_list')
               PROVE  wakeup_tick[t] =< ticks /\ in_intr
    OBVIOUS
  <2>0. sleep_list \in Seq(Thread) /\ wakeup_tick \in [Thread -> 0 .. MaxTick]
    BY <1>1 DEF IInv, TypeOK
  <2>1. CASE WakeSleeper
    <3>1. /\ sleep_list # << >> /\ sleep_list' = Tail(sleep_list) /\ in_intr
          /\ wakeup_tick[Head(sleep_list)] =< ticks
      BY <2>1 DEF WakeSleeper, FrontSleeperDue
    <3>2. t = Head(sleep_list)
      BY <1>1, <2>0, <3>1, TailProperties
    <3> QED BY <3>1, <3>2
  <2>2. CASE \E self \in Thread : ThreadSleep(self)
    <3>1. PICK self \in Thread : sleep_list' = InsertAscending(sleep_list, self, wakeup_tick)
      BY <2>2 DEF ThreadSleep
    <3> QED BY <1>1, <2>0, <3>1, InsertAscendingProperties
  <2>3. CASE ~ WakeSleeper /\ ~ \E self \in Thread : ThreadSleep(self)
    <3>1. sleep_list' = sleep_list
      BY <1>1, <2>3 DEF Next, ThreadStep, ThreadCreate, ThreadCreateFails, ThreadSetPriority, WritePriority,
          CheckAndPreempt, PreemptToFront, ThreadYield, ThreadBlock, ThreadUnblock,
          PreemptIfHigher, ThreadExit, TimerSleep, IntrUnblock, IdleLoop,
          TimerInterrupt, TimerReturn, vars, sleepVars
    <3> QED BY <1>1, <3>1
  <2> QED BY <2>1, <2>2, <2>3
<1> QED
  BY Invariance, <1>1, PTL DEF Spec, NobodyWakesEarly
===============================================================================
