--------------------------------- MODULE Synch ---------------------------------
(***************************************************************************)
(* Semaphores and locks with priority donation: threads/synch.c with       *)
(* donate_priority, remove_with_lock and refresh_priority of               *)
(* threads/thread.c, on top of the thread system of module Threads.        *)
(*                                                                         *)
(* sema_down and sema_up run with interrupts off and are one step each.    *)
(* lock_acquire, lock_release and thread_set_priority do not: pc[t] says   *)
(* how far thread t has got, and any other thread may run in between.  One *)
(* operation on a list is taken as one step although interrupts are on.    *)
(* donate_priority, refresh_priority and thread_set_priority stop before   *)
(* each store and before each reading of lock->holder that another thread  *)
(* may have changed since the last; what they have read and not yet used   *)
(* is in walk[t], so that it can be stale when it is.                      *)
(***************************************************************************)
EXTENDS KernelList

CONSTANTS
  Thread, Main, Idle, PRI_MAX, PRI_DEFAULT, TIME_SLICE, MaxTick,  \* as in Threads
  Lock,       \* locks, numbered in the order in which clients nest them
  Sema,       \* semaphores that are not part of a lock
  IntrSema,   \* those of them that an interrupt handler ups
  InitValue,  \* their initial values
  MaxValue,   \* bound: no semaphore is upped beyond this value
  SetPriority,  \* bound: the priorities clients give themselves
  Sleeper,    \* bound: the clients that call timer_sleep
  Uses,       \* the locks each client works with
  MaxDepth,   \* the 8 hops donate_priority walks at most
  NULL

ASSUME SynchAssumption ==
  /\ Main \in Thread /\ Idle \in Thread /\ Main # Idle /\ NULL \notin Thread
  /\ IsFiniteSet(Thread)
  /\ PRI_MAX \in Nat /\ PRI_DEFAULT \in 0 .. PRI_MAX
  /\ TIME_SLICE \in Nat \ {0} /\ MaxTick \in Nat
  /\ Lock \subseteq Nat /\ NULL \notin Lock /\ Lock \cap Sema = {}
  /\ IntrSema \subseteq Sema /\ SetPriority \subseteq 0 .. PRI_MAX
  /\ InitValue \in [Sema -> Nat] /\ MaxValue \in Nat /\ MaxDepth \in Nat

VARIABLES
  current, status, priority, ready_list, sleep_list, wakeup_tick, destruction_req,
  ticks, thread_ticks, in_intr, yield_on_return, pc, panic,    \* as in Threads
  value,              \* semaphore.value, of a lock's semaphore too
  waiters,            \* semaphore.waiters
  holder,             \* lock.holder
  original_priority,
  wait_lock,
  donations,          \* the threads linked in a thread's list of donors
  target,             \* the lock or semaphore a thread's routine works on
  walk,               \* the local variables of a routine that sets priorities
  held                \* ghost: the locks between sema_down and sema_up

Sched == INSTANCE Threads

schedVars == << current, status, ready_list, destruction_req, thread_ticks >>
clockVars == << sleep_list, wakeup_tick, ticks, in_intr, yield_on_return >>
semaVars  == << value, waiters >>
donateVars == << original_priority, wait_lock, donations, walk >>
synchVars == << semaVars, donateVars, holder, target, held >>
vars == << schedVars, clockVars, priority, pc, panic, synchVars >>

Priority == Sched!Priority
At(t, l) == Sched!At(t, l)
Goto(t, l) == Sched!Goto(t, l)

Client == Thread \ {Idle}

AnySema == Lock \cup Sema

(* What a routine that sets priorities has read: the thread it looks at    *)
(* (curr, or max_thread), the lock, how far it has walked, the thread it   *)
(* is about to write to, and the priority it has read or was given.        *)
NoWalk == [from |-> NULL, lock |-> NULL, depth |-> 0, to |-> NULL, pri |-> 0]

-------------------------------------------------------------------------------
(* Main has created the other clients, at any priorities not above its own *)
(* so that they wait in the run queue; nobody holds a lock yet.            *)
Init ==
  /\ current = Main
  /\ status = [t \in Thread |-> IF t = Main THEN "running"
                                ELSE IF t = Idle THEN "blocked" ELSE "ready"]
  /\ priority \in { p \in [Thread -> Priority] :
                      /\ p[Main] = PRI_DEFAULT /\ p[Idle] = 0
                      /\ \A t \in Client : p[t] =< PRI_DEFAULT }
  /\ ready_list \in { s \in SetToSeqs(Client \ {Main}) : IsDescending(s, priority) }
  /\ sleep_list = << >>
  /\ wakeup_tick = [t \in Thread |-> 0]
  /\ destruction_req = << >>
  /\ ticks = 0 /\ thread_ticks = 0
  /\ in_intr = FALSE /\ yield_on_return = FALSE
  /\ pc = [t \in Thread |-> "run"]
  /\ panic = "none"
  /\ value = [s \in AnySema |-> IF s \in Lock THEN 1 ELSE InitValue[s]]
  /\ waiters = [s \in AnySema |-> << >>]
  /\ holder = [l \in Lock |-> NULL]
  /\ original_priority = priority
  /\ wait_lock = [t \in Thread |-> NULL]
  /\ donations = [t \in Thread |-> << >>]
  /\ target = [t \in Thread |-> NULL]
  /\ walk = [t \in Thread |-> NoWalk]
  /\ held = [t \in Thread |-> {}]

-------------------------------------------------------------------------------
(* Semaphores *)

(***************************************************************************)
(* One round of sema_down's loop on s by the current thread: take the      *)
(* semaphore and return to the caller, or queue by priority and block; a   *)
(* woken thread comes back here, with interrupts still off.                *)
(***************************************************************************)
Down(self, s) ==
  \/ /\ value[s] > 0
     /\ value' = [value EXCEPT ![s] = @ - 1]
     /\ held' = IF s \in Lock THEN [held EXCEPT ![self] = @ \cup {s}] ELSE held
     /\ target' = [target EXCEPT ![self] = IF s \in Lock THEN s ELSE NULL]
     /\ Goto(self, IF s \in Lock THEN "acquired" ELSE "run")
     /\ UNCHANGED << waiters, schedVars >>
  \/ /\ value[s] = 0
     /\ waiters' = [waiters EXCEPT ![s] = InsertDescending(@, self, priority)]
     /\ target' = [target EXCEPT ![self] = s]
     /\ Goto(self, "woken")
     /\ Sched!Block(status, ready_list)
     /\ UNCHANGED << value, held >>

(* What there is after a sema_up: a wait list, states and a run queue. *)
Unchanged(s) == [waiting |-> waiters[s], status |-> status, ready |-> ready_list]

(* Mutants of Upped: nobody is unblocked; only when the value was 0; the   *)
(* thread unblocked stays in the wait list; it is queued but not READY.    *)
UppedWithoutWakeup(s) == { Unchanged(s) }

UppedFromZero(s) ==
  IF waiters[s] = << >> \/ value[s] # 0 THEN { Unchanged(s) }
  ELSE { [waiting |-> Tail(q),
          status  |-> [status EXCEPT ![Head(q)] = "ready"],
          ready   |-> Sched!Readied(ready_list, Head(q))] :
            q \in SortsDescending(waiters[s], priority) }

UppedUnmarked(s) ==
  IF waiters[s] = << >> THEN { Unchanged(s) }
  ELSE { [waiting |-> Tail(q),
          status  |-> status,
          ready   |-> Sched!Readied(ready_list, Head(q))] :
            q \in SortsDescending(waiters[s], priority) }

(* sema_up of s: sort the waiters and unblock the first. *)
Upped(s) ==
  IF waiters[s] = << >> THEN { Unchanged(s) }
  ELSE { [waiting |-> Tail(q),
          status  |-> [status EXCEPT ![Head(q)] = "ready"],
          ready   |-> Sched!Readied(ready_list, Head(q))] :
            q \in SortsDescending(waiters[s], priority) }

(* The rest of it: count up, and check_and_preempt with interrupts off. *)
Up(s) ==
  /\ value' = [value EXCEPT ![s] = @ + 1]
  /\ \E u \in Upped(s) :
       /\ waiters' = [waiters EXCEPT ![s] = u.waiting]
       /\ Sched!PreemptOrContinue(u.status, u.ready)

SemaDown(self, s) ==
  /\ At(self, "run") /\ self # Idle
  /\ Down(self, s)
  /\ UNCHANGED << clockVars, priority, panic, donateVars, holder >>

(* Mutant of Woken: sema_down tests the value with an if, not a while. *)
WokenWithoutLoop(self) ==
  LET s == target[self]
  IN  /\ At(self, "woken")
      /\ value' = [value EXCEPT ![s] = IF @ > 0 THEN @ - 1 ELSE @]
      /\ held' = IF s \in Lock THEN [held EXCEPT ![self] = @ \cup {s}] ELSE held
      /\ target' = [target EXCEPT ![self] = IF s \in Lock THEN s ELSE NULL]
      /\ Goto(self, IF s \in Lock THEN "acquired" ELSE "run")
      /\ UNCHANGED << waiters, schedVars >>
      /\ UNCHANGED << clockVars, priority, panic, donateVars, holder >>

(* A thread that sema_up has woken goes round sema_down's loop again. *)
Woken(self) ==
  /\ At(self, "woken")
  /\ Down(self, target[self])
  /\ UNCHANGED << clockVars, priority, panic, donateVars, holder >>

SemaUp(self, s) ==
  /\ At(self, "run") /\ self # Idle
  /\ value[s] < MaxValue
  /\ Up(s)
  /\ UNCHANGED << clockVars, priority, pc, panic, donateVars, holder, target, held >>

(***************************************************************************)
(* sema_up in the handler of an external interrupt: check_and_preempt      *)
(* calls thread_yield, which asserts that it is not in one.                *)
(***************************************************************************)
IntrSemaUp(s) ==
  /\ Sched!InKernel(current) /\ pc[current] # "woken"
  /\ value[s] < MaxValue
  /\ value' = [value EXCEPT ![s] = @ + 1]
  /\ \E u \in Upped(s) :
       /\ waiters' = [waiters EXCEPT ![s] = u.waiting]
       /\ status' = u.status
       /\ ready_list' = u.ready
       /\ panic' = IF /\ u.ready # << >> /\ current # Idle
                      /\ priority[current] < priority[Head(u.ready)]
                   THEN "yield_in_intr" ELSE "none"
  /\ UNCHANGED << current, destruction_req, thread_ticks, clockVars, priority, pc,
                  donateVars, holder, target, held >>

-------------------------------------------------------------------------------
(* Locks *)

(* Clients nest locks in one order and do not acquire a lock they hold. *)
MayAcquire(self, l) == l \in Uses[self] /\ \A k \in held[self] : k < l

(* lock_acquire, up to its test of the holder. *)
LockAcquire(self, l) ==
  /\ At(self, "run") /\ self # Idle
  /\ MayAcquire(self, l)
  /\ target' = [target EXCEPT ![self] = l]
  /\ IF holder[l] = NULL
     THEN Goto(self, "down") /\ UNCHANGED wait_lock
     ELSE Goto(self, "donor") /\ wait_lock' = [wait_lock EXCEPT ![self] = l]
  /\ UNCHANGED << schedVars, clockVars, priority, panic, semaVars, original_priority,
                  donations, walk, holder, held >>

(***************************************************************************)
(* The waiter links its donation_elem into the list of lock->holder, which *)
(* it reads again: by now the holder may be gone, or the element may still *)
(* be linked in the list of an earlier holder.                             *)
(***************************************************************************)
LinkDonor(self) ==
  LET l == target[self]
  IN  /\ At(self, "donor")
      /\ \/ /\ holder[l] = NULL
            /\ panic' = "null_holder"
            /\ UNCHANGED << donations, walk, pc >>
         \/ /\ holder[l] # NULL
            /\ \E t \in Thread : self \in Range(donations[t])
            /\ panic' = "relinked"
            /\ UNCHANGED << donations, walk, pc >>
         \/ /\ holder[l] # NULL
            /\ \A t \in Thread : self \notin Range(donations[t])
            /\ donations' = [donations EXCEPT ![holder[l]] =
                               InsertDescending(@, self, priority)]
            /\ walk' = [walk EXCEPT ![self] =
                          [NoWalk EXCEPT !.from = self, !.lock = wait_lock[self]]]
            /\ Goto(self, "donate")
            /\ UNCHANGED panic
      /\ UNCHANGED << schedVars, clockVars, priority, semaVars, original_priority,
                      wait_lock, holder, target, held >>

HigherOf(p, q) == IF p < q THEN q ELSE p

(* donate_priority's loop: go on while there is a lock and it has a        *)
(* holder; read lock->holder again, and the holder's priority.             *)
DonatePriority(self) ==
  LET w == walk[self]
      more == w.lock # NULL /\ w.depth < MaxDepth /\ holder[w.lock] # NULL
  IN  /\ At(self, "donate")
      /\ IF more
         THEN /\ walk' = [walk EXCEPT ![self].pri = priority[holder[w.lock]]]
              /\ Goto(self, "compare")
         ELSE /\ walk' = [walk EXCEPT ![self] = NoWalk]
              /\ Goto(self, "down")
      /\ UNCHANGED << schedVars, clockVars, priority, panic, semaVars, original_priority,
                      wait_lock, donations, holder, target, held >>

(* Compare with curr->priority, and read lock->holder for the assignment. *)
DonateCompare(self) ==
  LET w == walk[self]
  IN  /\ At(self, "compare")
      /\ walk' = [walk EXCEPT ![self].pri = HigherOf(@, priority[w.from]),
                              ![self].to = holder[w.lock]]
      /\ Goto(self, "raise")
      /\ UNCHANGED << schedVars, clockVars, priority, panic, semaVars, original_priority,
                      wait_lock, donations, holder, target, held >>

(* The assignment itself, of a priority that may no longer be the higher   *)
(* one, to a thread that may no longer hold the lock.                      *)
DonateRaise(self) ==
  LET w == walk[self]
  IN  /\ At(self, "raise")
      /\ IF w.to = NULL
         THEN /\ panic' = "null_holder"
              /\ UNCHANGED << priority, pc >>
         ELSE /\ priority' = [priority EXCEPT ![w.to] = w.pri]
              /\ Goto(self, "hop")
              /\ UNCHANGED panic
      /\ UNCHANGED << schedVars, clockVars, semaVars, donateVars, holder, target, held >>

(* Read lock->holder once more, and go on with the lock it waits for. *)
DonateHop(self) ==
  LET w == walk[self]
      h == holder[w.lock]
  IN  /\ At(self, "hop")
      /\ IF h = NULL
         THEN /\ panic' = "null_holder"
              /\ UNCHANGED << walk, pc >>
         ELSE /\ walk' = [walk EXCEPT ![self] =
                            [NoWalk EXCEPT !.from = h, !.lock = wait_lock[h],
                                           !.depth = w.depth + 1]]
              /\ Goto(self, "donate")
              /\ UNCHANGED panic
      /\ UNCHANGED << schedVars, clockVars, priority, semaVars, original_priority,
                      wait_lock, donations, holder, target, held >>

(* lock_acquire's sema_down, first round. *)
LockDown(self) ==
  /\ At(self, "down")
  /\ Down(self, target[self])
  /\ UNCHANGED << clockVars, priority, panic, donateVars, holder >>

(* lock_acquire, after sema_down. *)
LockAcquired(self) ==
  /\ At(self, "acquired")
  /\ wait_lock' = [wait_lock EXCEPT ![self] = NULL]
  /\ holder' = [holder EXCEPT ![target[self]] = self]
  /\ target' = [target EXCEPT ![self] = NULL]
  /\ Goto(self, "run")
  /\ UNCHANGED << schedVars, clockVars, priority, panic, semaVars, original_priority,
                  donations, walk, held >>

(* Mutant of LockTryAcquire: the semaphore's value is not tested. *)
LockTryAcquireUntested(self, l) ==
  /\ At(self, "run") /\ self # Idle
  /\ MayAcquire(self, l)
  /\ value' = [value EXCEPT ![l] = @ - 1]
  /\ held' = [held EXCEPT ![self] = @ \cup {l}]
  /\ target' = [target EXCEPT ![self] = l]
  /\ Goto(self, "acquired")
  /\ UNCHANGED << schedVars, clockVars, priority, panic, waiters, donateVars, holder >>

(* lock_try_acquire: sema_try_down, then the holder with interrupts on. *)
LockTryAcquire(self, l) ==
  /\ At(self, "run") /\ self # Idle
  /\ MayAcquire(self, l)
  /\ value[l] > 0
  /\ value' = [value EXCEPT ![l] = @ - 1]
  /\ held' = [held EXCEPT ![self] = @ \cup {l}]
  /\ target' = [target EXCEPT ![self] = l]
  /\ Goto(self, "acquired")
  /\ UNCHANGED << schedVars, clockVars, priority, panic, waiters, donateVars, holder >>

-------------------------------------------------------------------------------
(* lock_release: the holder unlinks the donors that wait for this lock     *)
(* (remove_with_lock).                                                     *)
LockRelease(self, l) ==
  /\ At(self, "run") /\ l \in held[self]
  /\ target' = [target EXCEPT ![self] = l]
  /\ IF holder[l] = self
     THEN /\ donations' = [donations EXCEPT ![self] =
                              Kept(@, { d \in Thread : wait_lock[d] # l })]
          /\ Goto(self, "fallback")
          /\ UNCHANGED panic
     ELSE /\ panic' = "not_holder"
          /\ UNCHANGED << donations, pc >>
  /\ UNCHANGED << schedVars, clockVars, priority, semaVars, original_priority, wait_lock,
                  walk, holder, held >>

(* thread_set_priority: the priority first ... *)
ThreadSetPriority(self, p) ==
  /\ At(self, "run") /\ self # Idle
  /\ priority' = [priority EXCEPT ![self] = p]
  /\ walk' = [walk EXCEPT ![self].pri = p]
  /\ Goto(self, "rebase")
  /\ UNCHANGED << schedVars, clockVars, panic, semaVars, original_priority, wait_lock,
                  donations, holder, target, held >>

(* ... then the original priority. *)
Rebase(self) ==
  /\ At(self, "rebase")
  /\ original_priority' = [original_priority EXCEPT ![self] = walk[self].pri]
  /\ walk' = [walk EXCEPT ![self] = NoWalk]
  /\ Goto(self, "fallback")
  /\ UNCHANGED << schedVars, clockVars, priority, panic, semaVars, wait_lock, donations,
                  holder, target, held >>

(* What follows refresh_priority: check_and_preempt in thread_set_priority, *)
(* the reset of lock->holder in lock_release.                               *)
Refreshed(self) == IF target[self] = NULL THEN "preempt" ELSE "unhold"

(* refresh_priority, for both: fall back to the thread's own priority ... *)
FallBack(self) ==
  /\ At(self, "fallback")
  /\ priority' = [priority EXCEPT ![self] = original_priority[self]]
  /\ Goto(self, "refresh")
  /\ UNCHANGED << schedVars, clockVars, panic, semaVars, donateVars, holder, target,
                  held >>

(***************************************************************************)
(* ... and look for a donor.  The list_sort here compares with             *)
(* thread_priority_cmp, which takes the list element for thread.elem while *)
(* these are donation_elems: what it reads as the priority of each is the  *)
(* null tail.next of that thread's own donations list.  All compare equal, *)
(* nothing moves, and the donor taken is the one linked in front.          *)
(***************************************************************************)
RefreshPriority(self) ==
  /\ At(self, "refresh")
  /\ IF donations[self] # << >> /\ priority[self] < priority[Head(donations[self])]
     THEN /\ walk' = [walk EXCEPT ![self].from = Head(donations[self])]
          /\ Goto(self, "adopt")
     ELSE /\ UNCHANGED walk
          /\ Goto(self, Refreshed(self))
  /\ UNCHANGED << schedVars, clockVars, priority, panic, semaVars, original_priority,
                  wait_lock, donations, holder, target, held >>

(* The donor's priority is read a second time for the assignment. *)
AdoptPriority(self) ==
  /\ At(self, "adopt")
  /\ priority' = [priority EXCEPT ![self] = priority[walk[self].from]]
  /\ walk' = [walk EXCEPT ![self] = NoWalk]
  /\ Goto(self, Refreshed(self))
  /\ UNCHANGED << schedVars, clockVars, panic, semaVars, original_priority, wait_lock,
                  donations, holder, target, held >>

(* Mutant of LockUnhold: lock->holder is not reset. *)
LockUnholdForgotten(self) ==
  /\ At(self, "unhold")
  /\ Goto(self, "up")
  /\ UNCHANGED << schedVars, clockVars, priority, panic, semaVars, donateVars, target,
                  holder, held >>

LockUnhold(self) ==
  /\ At(self, "unhold")
  /\ holder' = [holder EXCEPT ![target[self]] = NULL]
  /\ Goto(self, "up")
  /\ UNCHANGED << schedVars, clockVars, priority, panic, semaVars, donateVars, target,
                  held >>

LockUp(self) ==
  /\ At(self, "up")
  /\ Goto(self, "run")
  /\ held' = [held EXCEPT ![self] = @ \ {target[self]}]
  /\ target' = [target EXCEPT ![self] = NULL]
  /\ Up(target[self])
  /\ UNCHANGED << clockVars, priority, panic, donateVars, holder >>

-------------------------------------------------------------------------------
(* Interrupts are on in every state of a thread but that of a woken one. *)
TimerInterrupt == pc[current] # "woken" /\ Sched!TimerInterrupt

(* The steps of the thread system that leave semaphores and locks alone. *)
SchedStep ==
  /\ \/ \E self \in Thread :
          \/ Sched!CheckAndPreempt(self)
          \/ Sched!PreemptToFront(self)
          \/ Sched!ThreadYield(self)
          \/ self \in Sleeper /\ \E n \in 0 .. MaxTick : Sched!TimerSleep(self, n)
          \/ Sched!ThreadSleep(self)
     \/ Sched!IdleLoop
     \/ TimerInterrupt
     \/ Sched!WakeSleeper
     \/ Sched!TimerReturn
  /\ UNCHANGED synchVars

SynchStep(self) ==
  \/ \E s \in Sema : SemaDown(self, s) \/ SemaUp(self, s)
  \/ \E l \in Lock : LockAcquire(self, l) \/ LockTryAcquire(self, l) \/ LockRelease(self, l)
  \/ LinkDonor(self)
  \/ DonatePriority(self)
  \/ DonateCompare(self)
  \/ DonateRaise(self)
  \/ DonateHop(self)
  \/ LockDown(self)
  \/ Woken(self)
  \/ LockAcquired(self)
  \/ Rebase(self)
  \/ FallBack(self)
  \/ RefreshPriority(self)
  \/ AdoptPriority(self)
  \/ LockUnhold(self)
  \/ LockUp(self)
  \/ \E p \in SetPriority : ThreadSetPriority(self, p)

Next ==
  \/ SchedStep
  \/ \E self \in Client : SynchStep(self)
  \/ \E s \in IntrSema : IntrSemaUp(s)

Spec == Init /\ [][Next]_vars

-------------------------------------------------------------------------------
PC == {"run", "preempt", "front", "sleep", "woken", "donor", "donate", "compare",
       "raise", "hop", "down", "acquired", "rebase", "fallback", "refresh", "adopt",
       "unhold", "up"}

Panic == {"none", "list_front", "yield_in_intr", "null_holder", "relinked", "not_holder"}

TypeOK ==
  /\ current \in Thread
  /\ status \in [Thread -> {"running", "ready", "blocked", "dying", "free"}]
  /\ priority \in [Thread -> Priority] /\ original_priority \in [Thread -> Priority]
  /\ ready_list \in Seq(Thread) /\ sleep_list \in Seq(Thread)
  /\ pc \in [Thread -> PC] /\ panic \in Panic
  /\ value \in [AnySema -> Nat]
  /\ waiters \in [AnySema -> Seq(Thread)]
  /\ holder \in [Lock -> Thread \cup {NULL}]
  /\ wait_lock \in [Thread -> Lock \cup {NULL}]
  /\ donations \in [Thread -> Seq(Thread)]
  /\ target \in [Thread -> AnySema \cup {NULL}]
  /\ walk \in [Thread -> [from : Thread \cup {NULL}, lock : Lock \cup {NULL},
                          depth : 0 .. MaxDepth, to : Thread \cup {NULL}, pri : Priority]]
  /\ held \in [Thread -> SUBSET Lock]

(* A lock is held by at most one thread: the comment on lock_init.         *)
MutualExclusion ==
  \A t, u \in Thread : t # u => held[t] \cap held[u] = {}

(* A lock's semaphore is 1 exactly while nobody holds the lock, and        *)
(* lock.holder never names a thread that does not hold it.                 *)
LockStateAgrees ==
  \A l \in Lock :
    /\ value[l] = IF \E t \in Thread : l \in held[t] THEN 0 ELSE 1
    /\ holder[l] # NULL => l \in held[holder[l]]

(* lock_release's assertion: whoever releases a lock is its holder.        *)
HolderReleases == panic # "not_holder"

(* A lock, its semaphore and its holder agree between any two steps of     *)
(* lock_acquire and lock_release, of any number of threads.                *)
LockingIsSound ==
  /\ MutualExclusion
  /\ LockStateAgrees
  /\ HolderReleases

(* struct thread's elem is in one list at most: the run queue, the sleep   *)
(* queue or the wait list of the one semaphore the thread is blocked on.   *)
ElemInOneList ==
  /\ \A s \in AnySema :
       /\ NoDuplicates(waiters[s])
       /\ \A t \in Range(waiters[s]) :
            status[t] = "blocked" /\ pc[t] = "woken" /\ target[t] = s
  /\ \A t \in Client :
       pc[t] = "woken" /\ status[t] = "blocked" => t \in Range(waiters[target[t]])
  /\ \A t \in Range(ready_list) : status[t] = "ready"
  /\ \A t \in Range(sleep_list) : status[t] = "blocked" /\ pc[t] # "woken"

(* No wakeup is lost: while threads wait for s, every unit of s is on its  *)
(* way to a thread that sema_up has unblocked.                             *)
NoLostWakeup ==
  \A s \in AnySema :
    waiters[s] # << >> =>
      value[s] =< Cardinality({ t \in Thread :
                    pc[t] = "woken" /\ target[t] = s /\ status[t] # "blocked" })

(* The wait list of a semaphore, its count and the states of the threads   *)
(* agree whatever thread or interrupt handler ups it, and when.            *)
WaitListsAreSound ==
  /\ NoLostWakeup
  /\ ElemInOneList

(* When the CPU is idle, nobody is stuck on a lock whose holders could all *)
(* have run on: a thread waits for a lock only behind a thread that waits. *)
NoLockStall ==
  (current = Idle /\ ready_list = << >>) =>
     \A l \in Lock : waiters[l] # << >> =>
        \E t \in Client : l \in held[t] /\ status[t] = "blocked"
                          /\ (pc[t] = "woken" \/ t \in Range(sleep_list))

-------------------------------------------------------------------------------
(* The lock seen by its clients: it belongs to the thread that has come    *)
(* out of sema_down, whatever lock.holder says at the moment.              *)
Owner == [l \in Lock |-> IF \E t \in Thread : l \in held[t]
                         THEN CHOOSE t \in Thread : l \in held[t] ELSE NULL]

Askers == [l \in Lock |-> { t \in Thread :
             target[t] = l /\ pc[t] \in {"donor", "donate", "compare", "raise",
                                         "hop", "down", "woken"} }]

Locks == INSTANCE LockService WITH owner <- Owner, asking <- Askers

(* lock_acquire, lock_try_acquire and lock_release, interleaved step by    *)
(* step, implement the lock service.                                       *)
ImplementsLocks == Locks!Spec

-------------------------------------------------------------------------------
(***************************************************************************)
(* Seen from the thread system, a thread inside a synchronization routine  *)
(* is one that runs with interrupts on, and a failed assertion of synch.c  *)
(* is a kernel that takes no more steps.                                   *)
(***************************************************************************)
SysPc == [t \in Thread |-> IF pc[t] \in {"preempt", "front", "sleep"} THEN pc[t] ELSE "run"]
SysPanic == IF panic = "list_front" THEN panic ELSE "none"

Sys == INSTANCE Threads WITH pc <- SysPc, panic <- SysPanic

(* Every step of a semaphore or a lock is, for the run queue, the thread   *)
(* states and the clock, a step thread.c allows or none at all: nothing in *)
(* synch.c schedules a thread behind the back of the thread system.        *)
SchedulerSteps == [][Sys!Next]_(Sys!vars)

-------------------------------------------------------------------------------
(* What comments of the repository say, and the code does not do.          *)

(* synch.c: lock_acquire "Acquires LOCK, sleeping until it becomes         *)
(* available if necessary"; it does not fault on a holder that has gone    *)
(* or corrupt a list by linking its donation_elem twice.                   *)
AcquireSleepsOrSucceeds == panic \notin {"null_holder", "relinked"}
==================================================================================
