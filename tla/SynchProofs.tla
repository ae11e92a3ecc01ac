------------------------------- MODULE SynchProofs -------------------------------
(***************************************************************************)
(* Mutual exclusion, the agreement of lock.holder with the semaphore, and  *)
(* the assertion of lock_release, for any number of threads, locks and     *)
(* semaphores.  The inductive invariant LInv follows each routine that     *)
(* runs with interrupts on: it says, for every point where another thread  *)
(* may come in, which lock the routine works on and who holds it.  It      *)
(* needs nothing of the scheduler: whatever the order in which threads     *)
(* run, the order of the assignments inside lock_acquire and lock_release  *)
(* is what keeps the locks consistent.                                     *)
(*                                                                         *)
(* The second half is about the threads themselves.  Each step is one of   *)
(* module Threads for the scheduler, so that the invariant of ThreadsProofs*)
(* holds here too; SInv adds wait lists to it, which gives that no wakeup  *)
(* is lost, and what donate_priority may find in its local variables.      *)
(***************************************************************************)
EXTENDS Synch, KernelListProofs

LockTypes ==
  /\ value \in [AnySema -> Nat]
  /\ holder \in [Lock -> Thread \cup {NULL}]
  /\ target \in [Thread -> AnySema \cup {NULL}]
  /\ held \in [Thread -> SUBSET Lock]
  /\ pc \in [Thread -> PC]

(* Where a thread's routine works on no lock, on one it does not hold yet, *)
(* on one it holds.                                                        *)
Outside == {"run", "preempt", "front", "sleep"}
Asking  == {"donor", "donate", "compare", "raise", "hop", "down"}
Setting == {"fallback", "refresh", "adopt"}
Inside  == {"acquired", "unhold", "up"}

TargetInv ==
  \A t \in Thread :
    /\ pc[t] \in Outside \cup {"rebase"} => target[t] = NULL
    /\ pc[t] \in Asking => target[t] \in Lock
    /\ pc[t] = "woken" => target[t] \in AnySema
    /\ pc[t] \in Inside => target[t] \in held[t]
    /\ pc[t] \in Setting => target[t] \in held[t] \cup {NULL}

(* A lock's semaphore is 1 or 0, and 1 exactly while nobody holds it. *)
ValueInv ==
  \A l \in Lock : /\ value[l] \in {0, 1}
                  /\ value[l] = 1 <=> \A t \in Thread : l \notin held[t]

(* lock.holder is behind held: it is not yet set in a thread that has just *)
(* come out of sema_down, and reset already in one about to call sema_up.  *)
HolderInv ==
  \A l \in Lock :
    /\ holder[l] # NULL => l \in held[holder[l]]
    /\ \A t \in Thread : l \in held[t] =>
         \/ holder[l] = t
         \/ target[t] = l /\ pc[t] \in {"acquired", "up"}
    /\ \A t \in Thread : target[t] = l /\ pc[t] = "up" => holder[l] = NULL

LInv == LockTypes /\ TargetInv /\ ValueInv /\ MutualExclusion /\ HolderInv
         /\ HolderReleases

-------------------------------------------------------------------------------
(* Facts about the constants that every proof starts from. *)
LEMMA Names ==
  /\ Lock \subseteq AnySema /\ Sema \subseteq AnySema /\ IntrSema \subseteq Sema
  /\ NULL \notin Lock /\ NULL \notin Thread /\ Lock \cap Sema = {}
  /\ Client \subseteq Thread /\ Lock \subseteq Nat
  BY SynchAssumption DEF SynchAssumption, AnySema, Client

(* lock_init and sema_init. *)
LEMMA InitLInv == Init => LInv
<1> SUFFICES ASSUME Init PROVE LInv
  OBVIOUS
<1>1. LockTypes
  BY Names, SynchAssumption DEF Init, LockTypes, SynchAssumption, PC, AnySema
<1>2. TargetInv
  BY DEF Init, TargetInv, Outside, Asking, Inside, Setting
<1>3. ValueInv
  BY Names DEF Init, ValueInv
<1>4. MutualExclusion /\ HolderReleases
  BY DEF Init, MutualExclusion, HolderReleases
<1>5. HolderInv
  BY DEF Init, HolderInv
<1> QED
  BY <1>1, <1>2, <1>3, <1>4, <1>5 DEF LInv

(***************************************************************************)
(* A step that takes, gives back and signs no lock keeps LInv, when at     *)
(* most one thread moves, and moves in step with its target.               *)
(***************************************************************************)
LEMMA HarmlessStep ==
  ASSUME LInv, LockTypes', TargetInv',
         held' = held, holder' = holder, panic' # "not_holder",
         \A l \in Lock : value'[l] = value[l],
         \A t \in Thread : \/ pc'[t] = pc[t] /\ target'[t] = target[t]
                           \/ /\ pc[t] \notin {"acquired", "up"}
                              /\ pc'[t] \notin {"acquired", "up"}
  PROVE  LInv'
<1>1. ValueInv'
  BY DEF LInv, ValueInv
<1>2. MutualExclusion'
  BY DEF LInv, MutualExclusion
<1>3. HolderInv'
  BY DEF LInv, HolderInv
<1> QED
  BY <1>1, <1>2, <1>3 DEF LInv, HolderReleases

(* The steps of the thread system move a thread between routines that have *)
(* nothing to do with locks.                                               *)
LEMMA SchedMoves ==
  ASSUME pc \in [Thread -> PC], panic # "not_holder", SchedStep
  PROVE  /\ UNCHANGED synchVars
         /\ pc' \in [Thread -> PC] /\ panic' # "not_holder"
         /\ \A t \in Thread : \/ pc'[t] = pc[t]
                              \/ pc[t] \in Outside /\ pc'[t] \in Outside
<1> USE DEF PC, Outside, Sched!At, Sched!InKernel, Sched!Goto
<1>1. UNCHANGED synchVars
  BY DEF SchedStep
<1>2. CASE \E self \in Thread : Sched!CheckAndPreempt(self)
  BY <1>1, <1>2 DEF Sched!CheckAndPreempt
<1>3. CASE \E self \in Thread : Sched!PreemptToFront(self)
  BY <1>1, <1>3 DEF Sched!PreemptToFront
<1>4. CASE \E self \in Thread : Sched!ThreadYield(self)
  BY <1>1, <1>4 DEF Sched!ThreadYield
<1>5. CASE \E self \in Thread : \E n \in 0 .. MaxTick : Sched!TimerSleep(self, n)
  BY <1>1, <1>5 DEF Sched!TimerSleep
<1>6. CASE \E self \in Thread : Sched!ThreadSleep(self)
  BY <1>1, <1>6 DEF Sched!ThreadSleep
<1>7. CASE Sched!IdleLoop \/ TimerInterrupt \/ Sched!WakeSleeper \/ Sched!TimerReturn
  BY <1>1, <1>7 DEF Sched!IdleLoop, TimerInterrupt, Sched!TimerInterrupt,
                    Sched!WakeSleeper, Sched!TimerReturn
<1> QED
  BY <1>2, <1>3, <1>4, <1>5, <1>6, <1>7 DEF SchedStep

LEMMA SchedStepKeeps ==
  ASSUME LInv, SchedStep
  PROVE  LInv'
<1>1. /\ UNCHANGED << value, holder, target, held >>
      /\ pc' \in [Thread -> PC] /\ panic' # "not_holder"
      /\ \A t \in Thread : \/ pc'[t] = pc[t]
                           \/ pc[t] \in Outside /\ pc'[t] \in Outside
  BY SchedMoves DEF LInv, LockTypes, HolderReleases, synchVars, semaVars
<1>2. LockTypes'
  BY <1>1 DEF LInv, LockTypes
<1>3. TargetInv'
  BY <1>1 DEF LInv, TargetInv, Outside, Asking, Inside, Setting
<1> QED
  BY <1>1, <1>2, <1>3, HarmlessStep DEF Outside

(* sema_up of a semaphore that belongs to no lock, from anywhere. *)
LEMMA SemaUpKeeps ==
  ASSUME LInv, NEW s \in Sema, value' = [value EXCEPT ![s] = @ + 1],
         UNCHANGED << pc, holder, target, held >>, panic' # "not_holder"
  PROVE  LInv'
<1>1. LockTypes' /\ \A l \in Lock : value'[l] = value[l]
  BY Names DEF LInv, LockTypes
<1>2. TargetInv'
  BY DEF LInv, TargetInv
<1> QED
  BY <1>1, <1>2, HarmlessStep

-------------------------------------------------------------------------------
(* sema_down or sema_try_down takes the semaphore of a lock nobody holds.  *)
LEMMA TakesKeeps ==
  ASSUME LInv, NEW self \in Thread, NEW l \in Lock, value[l] > 0,
         pc[self] \notin {"acquired", "up"},
         value' = [value EXCEPT ![l] = @ - 1],
         held' = [held EXCEPT ![self] = @ \cup {l}],
         target' = [target EXCEPT ![self] = l],
         pc' = [pc EXCEPT ![self] = "acquired"],
         holder' = holder, panic' = panic
  PROVE  LInv'
<1>1. LockTypes /\ l \in AnySema
  BY Names DEF LInv
<1>2. value[l] = 1 /\ \A t \in Thread : l \notin held[t]
  BY DEF LInv, ValueInv
<1>3. LockTypes'
  <2>1. value' \in [AnySema -> Nat]
    BY <1>1, <1>2 DEF LockTypes
  <2> QED BY <1>1, <2>1 DEF LockTypes, PC
<1>4. TargetInv'
  BY <1>1 DEF LInv, TargetInv, LockTypes, Outside, Asking, Inside, Setting, AnySema
<1>5. ValueInv'
  <2> SUFFICES ASSUME NEW k \in Lock
               PROVE  /\ value'[k] \in {0, 1}
                      /\ value'[k] = 1 <=> \A t \in Thread : k \notin held'[t]
    BY DEF ValueInv
  <2>1. k \in AnySema
    BY Names
  <2>2. CASE k = l
    BY <1>1, <1>2, <2>2 DEF LockTypes
  <2>3. CASE k # l
    BY <1>1, <2>1, <2>3 DEF LInv, ValueInv, LockTypes
  <2> QED BY <2>2, <2>3
<1>6. MutualExclusion'
  BY <1>1, <1>2 DEF LInv, MutualExclusion, LockTypes
<1>7. HolderInv'
  BY <1>1, <1>2, Names DEF LInv, HolderInv, LockTypes
<1> QED
  BY <1>3, <1>4, <1>5, <1>6, <1>7 DEF LInv, HolderReleases

(* One round of sema_down, on a lock or on any other semaphore. *)
LEMMA DownKeeps ==
  ASSUME LInv, NEW self \in Thread, NEW s \in AnySema,
         pc[self] \notin {"acquired", "up"},
         Down(self, s), UNCHANGED << holder, panic >>
  PROVE  LInv'
<1>1. LockTypes
  BY DEF LInv
<1>2. CASE value[s] > 0 /\ s \in Lock
  BY <1>2, TakesKeeps DEF Down, Goto, Sched!Goto
<1>3. CASE value[s] > 0 /\ s \notin Lock
  <2>1. /\ value' = [value EXCEPT ![s] = @ - 1] /\ held' = held
        /\ target' = [target EXCEPT ![self] = NULL]
        /\ pc' = [pc EXCEPT ![self] = "run"]
    BY <1>1, <1>3 DEF Down, Goto, Sched!Goto, LockTypes
  <2>2. value' \in [AnySema -> Nat] /\ \A l \in Lock : value'[l] = value[l]
    BY <1>1, <1>3, <2>1 DEF LockTypes, AnySema
  <2>3. LockTypes'
    BY <1>1, <2>1, <2>2 DEF LockTypes, PC
  <2>4. TargetInv'
    BY <1>1, <2>1 DEF LInv, TargetInv, LockTypes, Outside, Asking, Inside, Setting
  <2> QED BY <1>1, <2>1, <2>2, <2>3, <2>4, HarmlessStep DEF LockTypes, LInv, HolderReleases
<1>4. CASE value[s] = 0
  <2>1. /\ value' = value /\ held' = held
        /\ target' = [target EXCEPT ![self] = s]
        /\ pc' = [pc EXCEPT ![self] = "woken"]
    BY <1>4 DEF Down, Goto, Sched!Goto
  <2>2. LockTypes'
    BY <1>1, <2>1 DEF LockTypes, PC
  <2>3. TargetInv'
    BY <1>1, <2>1 DEF LInv, TargetInv, LockTypes, Outside, Asking, Inside, Setting
  <2> QED BY <1>1, <2>1, <2>2, <2>3, HarmlessStep DEF LockTypes, LInv, HolderReleases
<1> QED
  BY <1>1, <1>2, <1>3, <1>4 DEF LockTypes

-------------------------------------------------------------------------------
(* The steps of a routine between two uses of a semaphore: those on the    *)
(* way to lock_acquire's sema_down, and those that set a thread's own      *)
(* priority.                                                               *)
DonateStep(self) ==
  LinkDonor(self) \/ DonatePriority(self) \/ DonateCompare(self) \/ DonateRaise(self)
    \/ DonateHop(self)

SettingStep(self) ==
  \/ \E l \in Lock : LockRelease(self, l)
  \/ \E p \in SetPriority : ThreadSetPriority(self, p)
  \/ Rebase(self) \/ FallBack(self) \/ RefreshPriority(self) \/ AdoptPriority(self)

LEMMA RoutineStepKeeps ==
  ASSUME LInv, NEW self \in Client,
         (\E l \in Lock : LockAcquire(self, l)) \/ DonateStep(self) \/ SettingStep(self)
  PROVE  LInv'
<1> USE DEF At, Goto, Sched!At, Sched!Goto, Sched!InKernel, semaVars, donateVars
<1>0. LockTypes /\ TargetInv /\ HolderInv /\ HolderReleases /\ self \in Thread
  BY Names DEF LInv
<1>1. /\ value' = value /\ held' = held /\ holder' = holder
      /\ \A t \in Thread \ {self} : pc'[t] = pc[t] /\ target'[t] = target[t]
      /\ pc' \in [Thread -> PC]
      /\ pc[self] \in Outside \cup Asking \cup Setting \cup {"rebase"}
  <2> USE DEF LockTypes, Outside, Asking, Setting, PC
  <2>1. CASE \E l \in Lock : LockAcquire(self, l)
    BY <1>0, <2>1 DEF LockAcquire
  <2>2. CASE \E l \in Lock : LockRelease(self, l)
    BY <1>0, <2>2 DEF LockRelease
  <2>3. CASE LinkDonor(self)
    BY <1>0, <2>3 DEF LinkDonor
  <2>4. CASE DonatePriority(self)
    BY <1>0, <2>4 DEF DonatePriority
  <2>5. CASE DonateCompare(self)
    BY <1>0, <2>5 DEF DonateCompare
  <2>6. CASE DonateRaise(self)
    BY <1>0, <2>6 DEF DonateRaise
  <2>7. CASE DonateHop(self)
    BY <1>0, <2>7 DEF DonateHop
  <2>8. CASE \E p \in SetPriority : ThreadSetPriority(self, p)
    BY <1>0, <2>8 DEF ThreadSetPriority
  <2>9. CASE Rebase(self)
    BY <1>0, <2>9 DEF Rebase
  <2>10. CASE FallBack(self)
    BY <1>0, <2>10 DEF FallBack
  <2>11. CASE RefreshPriority(self)
    BY <1>0, <2>11 DEF RefreshPriority, Refreshed
  <2>12. CASE AdoptPriority(self)
    BY <1>0, <2>12 DEF AdoptPriority, Refreshed
  <2> QED BY <2>1, <2>2, <2>3, <2>4, <2>5, <2>6, <2>7, <2>8, <2>9, <2>10, <2>11, <2>12 DEF DonateStep, SettingStep
<1>2. /\ target' \in [Thread -> AnySema \cup {NULL}]
      /\ panic' # "not_holder"
      /\ pc'[self] \in Outside \cup {"rebase"} => target'[self] = NULL
      /\ pc'[self] \in Asking => target'[self] \in Lock
      /\ pc'[self] \in Setting \cup {"unhold"} => target'[self] \in held[self] \cup {NULL}
      /\ pc'[self] = "unhold" => target'[self] # NULL
      /\ pc'[self] \notin {"woken", "acquired", "up"}
  <2>1. CASE \E l \in Lock : LockAcquire(self, l)
    BY <1>0, <2>1, Names
       DEF LockAcquire, LockTypes, HolderReleases, Outside, Asking, Setting
  <2>2. CASE \E l \in Lock : LockRelease(self, l)
    <3>1. PICK l \in Lock : LockRelease(self, l)
      BY <2>2
    <3>2. target[self] = NULL /\ l \in held[self] /\ pc[self] = "run"
      BY <1>0, <3>1 DEF LockRelease, TargetInv, Outside
    <3>3. holder[l] = self
      BY <1>0, <3>2, Names DEF HolderInv
    <3> QED
      BY <1>0, <3>1, <3>2, <3>3, Names
         DEF LockRelease, LockTypes, HolderReleases, Outside, Asking, Setting
  <2>3. CASE LinkDonor(self)
    BY <1>0, <2>3 DEF LinkDonor, LockTypes, TargetInv, HolderReleases, Outside, Asking,
       Setting
  <2>4. CASE DonatePriority(self)
    BY <1>0, <2>4 DEF DonatePriority, LockTypes, TargetInv, HolderReleases, Outside, Asking,
       Setting
  <2>5. CASE DonateCompare(self)
    BY <1>0, <2>5 DEF DonateCompare, LockTypes, TargetInv, HolderReleases, Outside, Asking,
       Setting
  <2>6. CASE DonateRaise(self)
    BY <1>0, <2>6 DEF DonateRaise, LockTypes, TargetInv, HolderReleases, Outside, Asking,
       Setting
  <2>7. CASE DonateHop(self)
    BY <1>0, <2>7 DEF DonateHop, LockTypes, TargetInv, HolderReleases, Outside, Asking,
       Setting
  <2>8. CASE \E p \in SetPriority : ThreadSetPriority(self, p)
    BY <1>0, <2>8 DEF ThreadSetPriority, LockTypes, TargetInv, HolderReleases, Outside, Asking,
       Setting
  <2>9. CASE Rebase(self)
    BY <1>0, <2>9 DEF Rebase, LockTypes, TargetInv, HolderReleases, Outside, Asking,
       Setting
  <2>10. CASE FallBack(self)
    BY <1>0, <2>10 DEF FallBack, LockTypes, TargetInv, HolderReleases, Outside, Asking,
       Setting
  <2>11. CASE RefreshPriority(self)
    BY <1>0, <2>11 DEF RefreshPriority, Refreshed, LockTypes, TargetInv, HolderReleases, Outside, Asking,
       Setting
  <2>12. CASE AdoptPriority(self)
    BY <1>0, <2>12 DEF AdoptPriority, Refreshed, LockTypes, TargetInv, HolderReleases, Outside, Asking,
       Setting
  <2> QED BY <2>1, <2>2, <2>3, <2>4, <2>5, <2>6, <2>7, <2>8, <2>9, <2>10, <2>11, <2>12 DEF DonateStep, SettingStep
<1>3. LockTypes'
  BY <1>0, <1>1, <1>2 DEF LockTypes
<1>4. TargetInv'
  BY <1>0, <1>1, <1>2 DEF TargetInv, Inside
<1> QED
  BY <1>0, <1>1, <1>2, <1>3, <1>4, HarmlessStep DEF Outside, Asking, Setting

(* lock_acquire and lock_try_acquire set lock->holder. *)
LEMMA LockAcquiredKeeps ==
  ASSUME LInv, NEW self \in Thread, LockAcquired(self)
  PROVE  LInv'
<1> DEFINE l == target[self]
<1>1. /\ LockTypes /\ MutualExclusion
      /\ l \in Lock /\ l \in held[self]
      /\ holder' = [holder EXCEPT ![l] = self]
      /\ target' = [target EXCEPT ![self] = NULL]
      /\ pc' = [pc EXCEPT ![self] = "run"]
      /\ pc[self] = "acquired" /\ panic' = panic /\ held' = held /\ value' = value
  BY DEF LockAcquired, LInv, LockTypes, TargetInv, Inside, At, Goto, Sched!At, Sched!Goto,
         semaVars
<1> HIDE DEF l
<1>2. \A t \in Thread : l \in held[t] => t = self
  BY <1>1 DEF MutualExclusion
<1>3. LockTypes'
  BY <1>1 DEF LockTypes, PC
<1>4. TargetInv'
  BY <1>1 DEF LInv, LockTypes, TargetInv, Outside, Asking, Inside, Setting
<1>5. HolderInv'
  <2>1. \A t \in Thread : target[t] = l /\ pc[t] = "up" => t = self
    BY <1>1, <1>2 DEF LInv, TargetInv, Inside
  <2> QED BY <1>1, <1>2, <2>1, Names DEF LInv, HolderInv, LockTypes, l
<1> QED
  BY <1>1, <1>3, <1>4, <1>5 DEF LInv, ValueInv, MutualExclusion, HolderReleases

(* lock_release resets lock->holder. *)
LEMMA LockUnholdKeeps ==
  ASSUME LInv, NEW self \in Thread, LockUnhold(self)
  PROVE  LInv'
<1> DEFINE l == target[self]
<1>1. /\ LockTypes /\ MutualExclusion
      /\ l \in Lock /\ l \in held[self]
      /\ holder' = [holder EXCEPT ![l] = NULL]
      /\ target' = target
      /\ pc' = [pc EXCEPT ![self] = "up"]
      /\ pc[self] = "unhold" /\ panic' = panic /\ held' = held /\ value' = value
  BY DEF LockUnhold, LInv, LockTypes, TargetInv, Inside, At, Goto, Sched!At, Sched!Goto,
         semaVars
<1> HIDE DEF l
<1>2. \A t \in Thread : l \in held[t] => t = self
  BY <1>1 DEF MutualExclusion
<1>3. LockTypes'
  BY <1>1 DEF LockTypes, PC
<1>4. TargetInv'
  BY <1>1 DEF LInv, LockTypes, TargetInv, Outside, Asking, Inside, Setting
<1>5. HolderInv'
  BY <1>1, <1>2, Names DEF LInv, HolderInv, LockTypes, l
<1> QED
  BY <1>1, <1>3, <1>4, <1>5 DEF LInv, ValueInv, MutualExclusion, HolderReleases

(* lock_release's sema_up: from here on nobody holds the lock. *)
LEMMA LockUpKeeps ==
  ASSUME LInv, NEW self \in Thread, LockUp(self)
  PROVE  LInv'
<1> DEFINE l == target[self]
<1>1. /\ LockTypes /\ MutualExclusion
      /\ l \in Lock /\ l \in held[self] /\ l \in AnySema
      /\ value' = [value EXCEPT ![l] = @ + 1]
      /\ held' = [held EXCEPT ![self] = @ \ {l}]
      /\ target' = [target EXCEPT ![self] = NULL]
      /\ pc' = [pc EXCEPT ![self] = "run"]
      /\ pc[self] = "up" /\ panic' = panic /\ holder' = holder
      /\ target[self] = l
  BY Names DEF LockUp, Up, LInv, LockTypes, TargetInv, Inside, At, Goto, Sched!At, Sched!Goto
<1> HIDE DEF l
<1>2. holder[l] = NULL /\ value[l] = 0 /\ \A t \in Thread : l \in held[t] => t = self
  BY <1>1 DEF LInv, MutualExclusion, HolderInv, ValueInv
<1>3. LockTypes'
  BY <1>1 DEF LockTypes, PC
<1>4. TargetInv'
  BY <1>1 DEF LInv, LockTypes, TargetInv, Outside, Asking, Inside, Setting
<1>5. ValueInv'
  <2> SUFFICES ASSUME NEW k \in Lock
               PROVE  /\ value'[k] \in {0, 1}
                      /\ value'[k] = 1 <=> \A t \in Thread : k \notin held'[t]
    BY DEF ValueInv
  <2>1. k \in AnySema
    BY Names
  <2>2. CASE k = l
    BY <1>1, <1>2, <2>2 DEF LockTypes
  <2>3. CASE k # l
    BY <1>1, <2>1, <2>3 DEF LInv, ValueInv, LockTypes
  <2> QED BY <2>2, <2>3
<1>6. MutualExclusion'
  BY <1>1 DEF MutualExclusion, LockTypes
<1>7. HolderInv'
  BY <1>1, <1>2, Names DEF LInv, HolderInv, LockTypes
<1> QED
  BY <1>1, <1>3, <1>4, <1>5, <1>6, <1>7 DEF LInv, HolderReleases

-------------------------------------------------------------------------------
LEMMA SynchStepKeeps ==
  ASSUME LInv, NEW self \in Client, SynchStep(self)
  PROVE  LInv'
<1> USE Names DEF At, Sched!At
<1>1. ASSUME NEW s \in Sema, SemaDown(self, s) PROVE LInv'
  BY <1>1, DownKeeps DEF SemaDown
<1>2. ASSUME NEW s \in Sema, SemaUp(self, s) PROVE LInv'
  BY <1>2, SemaUpKeeps DEF SemaUp, Up, LInv, HolderReleases
<1>3. ASSUME NEW l \in Lock, LockTryAcquire(self, l) PROVE LInv'
  BY <1>3, TakesKeeps DEF LockTryAcquire, Goto, Sched!Goto
<1>4. ASSUME LockDown(self) PROVE LInv'
  <2>1. pc[self] = "down" /\ target[self] \in AnySema
    BY <1>4 DEF LockDown, LInv, TargetInv, Asking
  <2> QED BY <1>4, <2>1, DownKeeps DEF LockDown
<1>5. ASSUME Woken(self) PROVE LInv'
  <2>1. pc[self] = "woken" /\ target[self] \in AnySema
    BY <1>5 DEF Woken, LInv, TargetInv
  <2> QED BY <1>5, <2>1, DownKeeps DEF Woken
<1>6. ASSUME LockAcquired(self) \/ LockUnhold(self) \/ LockUp(self) PROVE LInv'
  BY <1>6, LockAcquiredKeeps, LockUnholdKeeps, LockUpKeeps
<1> QED
  BY <1>1, <1>2, <1>3, <1>4, <1>5, <1>6, RoutineStepKeeps
     DEF SynchStep, DonateStep, SettingStep

(***************************************************************************)
(* LInv is an inductive invariant of the synchronization routines.         *)
(***************************************************************************)
THEOREM LockInvariance == Spec => []LInv
<1>1. LInv /\ [Next]_vars => LInv'
  <2> SUFFICES ASSUME LInv, [Next]_vars PROVE LInv'
    OBVIOUS
  <2>1. CASE UNCHANGED vars
    <3>1. UNCHANGED << value, holder, target, held, pc, panic >>
      BY <2>1 DEF vars, synchVars, semaVars
    <3> QED BY <3>1 DEF LInv, LockTypes, TargetInv, ValueInv, MutualExclusion, HolderInv,
                        HolderReleases
  <2>2. ASSUME NEW s \in IntrSema, IntrSemaUp(s) PROVE LInv'
    <3>1. s \in Sema /\ panic' # "not_holder"
      BY <2>2, Names DEF IntrSemaUp
    <3> QED BY <2>2, <3>1, SemaUpKeeps DEF IntrSemaUp
  <2> QED BY <2>1, <2>2, SchedStepKeeps, SynchStepKeeps DEF Next
<1> QED
  BY InitLInv, <1>1, PTL DEF Spec

(* A lock is held by at most one thread, whoever donates what to whom and  *)
(* wherever lock_acquire and lock_release are interrupted.                 *)
THEOREM LocksExclude == Spec => []MutualExclusion
<1>1. LInv => MutualExclusion
  BY DEF LInv
<1> QED
  BY LockInvariance, <1>1, PTL

(* The value of a lock's semaphore and lock.holder agree with who holds    *)
(* the lock, although the code changes them in separate steps.             *)
THEOREM LockStateCorrect == Spec => []LockStateAgrees
<1>1. LInv => LockStateAgrees
  BY DEF LInv, ValueInv, HolderInv, LockStateAgrees
<1> QED
  BY LockInvariance, <1>1, PTL

(* The assertion lock_held_by_current_thread of lock_release never fails   *)
(* for a thread that releases a lock it has acquired.                      *)
THEOREM ReleaserHolds == Spec => []HolderReleases
<1>1. LInv => HolderReleases
  BY DEF LInv
<1> QED
  BY LockInvariance, <1>1, PTL

(* A lock, its semaphore and its holder agree between any two steps of     *)
(* lock_acquire and lock_release.                                          *)
THEOREM LockingCorrect == Spec => []LockingIsSound
<1>1. MutualExclusion /\ LockStateAgrees /\ HolderReleases => LockingIsSound
  BY DEF LockingIsSound
<1> QED
  BY LocksExclude, LockStateCorrect, ReleaserHolds, <1>1, PTL

-------------------------------------------------------------------------------
(* The lock service.  Each lemma shows how one kind of step looks to the   *)
(* clients of the locks, given that LInv holds before it.                  *)
LEMMA OwnerIsHolder ==
  ASSUME LInv, NEW l \in Lock
  PROVE  /\ \A t \in Thread : l \in held[t] => Owner[l] = t
         /\ (\A t \in Thread : l \notin held[t]) => Owner[l] = NULL
  BY DEF Owner, LInv, MutualExclusion

(* A step that neither takes nor gives a lock, and in which no thread      *)
(* starts or stops asking for one, is invisible.                           *)
LEMMA InvisibleStep ==
  ASSUME held' = held,
         \A t \in Thread, l \in Lock :
            (target'[t] = l /\ pc'[t] \in Asking \cup {"woken"})
              <=> (target[t] = l /\ pc[t] \in Asking \cup {"woken"})
  PROVE  UNCHANGED Locks!vars
<1>1. Owner' = Owner
  BY DEF Owner
<1>2. \A l \in Lock :
        { t \in Thread : target'[t] = l /\ pc'[t] \in Asking \cup {"woken"} }
          = { t \in Thread : target[t] = l /\ pc[t] \in Asking \cup {"woken"} }
  BY DEF Asking
<1>3. Askers' = Askers
  <2>1. Askers = [l \in Lock |->
                    { t \in Thread : target[t] = l /\ pc[t] \in Asking \cup {"woken"} }]
    BY DEF Askers, Asking
  <2>2. Askers' = [l \in Lock |->
                    { t \in Thread : target'[t] = l /\ pc'[t] \in Asking \cup {"woken"} }]
    BY DEF Askers, Asking
  <2> QED BY <1>2, <2>1, <2>2
<1> QED
  BY <1>1, <1>3 DEF Locks!vars

(* Who asks for which lock, pointwise and before and after a step. *)
LEMMA AskersOf ==
  /\ \A l \in Lock : Askers[l] \subseteq Thread /\ Askers'[l] \subseteq Thread
  /\ \A l \in Lock, t \in Thread :
       /\ t \in Askers[l] <=> target[t] = l /\ pc[t] \in Asking \cup {"woken"}
       /\ t \in Askers'[l] <=> target'[t] = l /\ pc'[t] \in Asking \cup {"woken"}
  /\ Askers = [l \in Lock |-> Askers[l]] /\ Askers' = [l \in Lock |-> Askers'[l]]
  /\ Owner = [l \in Lock |-> Owner[l]] /\ Owner' = [l \in Lock |-> Owner'[l]]
  BY DEF Askers, Asking, Owner

(* The askers of a lock, when nobody starts or stops asking for it. *)
LEMMA SameAskers ==
  ASSUME NEW k \in Lock,
         \A t \in Thread : (target'[t] = k /\ pc'[t] \in Asking \cup {"woken"})
                          <=> (target[t] = k /\ pc[t] \in Asking \cup {"woken"})
  PROVE  Askers'[k] = Askers[k]
<1>1. \A t \in Thread : t \in Askers'[k] <=> t \in Askers[k]
  BY AskersOf
<1> QED
  BY <1>1, AskersOf

(* lock_acquire begins: the thread asks. *)
LEMMA AcquireAsks ==
  ASSUME LInv, NEW self \in Client, NEW l \in Lock, LockAcquire(self, l)
  PROVE  Locks!Next
<1>1. /\ self \in Thread /\ l \in Nat /\ NULL \notin Lock
  BY Names
<1>2. /\ held' = held
      /\ target' = [target EXCEPT ![self] = l] /\ target \in [Thread -> AnySema \cup {NULL}]
      /\ pc[self] = "run" /\ l \notin held[self] /\ target[self] = NULL
      /\ \A t \in Thread \ {self} : pc'[t] = pc[t]
      /\ pc'[self] \in {"down", "donor"}
  BY <1>1, Names DEF LockAcquire, MayAcquire, LInv, LockTypes, TargetInv, Outside, At, Goto,
                     Sched!At, Sched!Goto
<1>3. Owner' = Owner
  BY <1>2 DEF Owner
<1>4. Owner[l] # self
  BY <1>1, <1>2, Names DEF Owner
<1>5. self \notin Askers[l]
  BY <1>2 DEF Askers
<1>6. ASSUME NEW k \in Lock \ {l} PROVE Askers'[k] = Askers[k]
  <2>1. \A t \in Thread : (target'[t] = k /\ pc'[t] \in Asking \cup {"woken"})
                            <=> (target[t] = k /\ pc[t] \in Asking \cup {"woken"})
    BY <1>1, <1>2 DEF Asking
  <2> QED BY <2>1, SameAskers
<1>7. Askers'[l] = Askers[l] \cup {self}
  BY <1>1, <1>2, AskersOf DEF Asking
<1>8. Askers' = [Askers EXCEPT ![l] = @ \cup {self}]
  BY <1>6, <1>7, AskersOf
<1> QED
  BY <1>1, <1>3, <1>4, <1>5, <1>8 DEF Locks!Next, Locks!Ask

(* sema_down or sema_try_down takes the lock: it is granted to a thread    *)
(* that has asked for it, or taken without asking.                         *)
LEMMA TakingGrants ==
  ASSUME LInv, NEW self \in Thread, NEW l \in Lock, value[l] > 0,
         \/ pc[self] \in {"down", "woken"} /\ target[self] = l
         \/ pc[self] = "run",
         held' = [held EXCEPT ![self] = @ \cup {l}],
         target' = [target EXCEPT ![self] = l],
         pc' = [pc EXCEPT ![self] = "acquired"]
  PROVE  Locks!Next
<1>1. LockTypes /\ NULL \notin Lock
  BY Names DEF LInv
<1>2. \A t \in Thread : l \notin held[t]
  BY DEF LInv, ValueInv
<1>3. Owner[l] = NULL
  BY <1>2, OwnerIsHolder
<1>4. Owner' = [Owner EXCEPT ![l] = self]
  <2>1. Owner'[l] = self
    BY <1>1, <1>2 DEF Owner, LockTypes
  <2>2. \A k \in Lock \ {l} : Owner'[k] = Owner[k]
    <3>1. \A k \in Lock \ {l}, t \in Thread : k \in held'[t] <=> k \in held[t]
      BY <1>1 DEF LockTypes
    <3>2. \A k \in Lock \ {l} : (CHOOSE t \in Thread : k \in held'[t])
                                   = (CHOOSE t \in Thread : k \in held[t])
      BY <3>1
    <3> QED BY <3>1, <3>2 DEF Owner
  <2> QED BY <2>1, <2>2, AskersOf
<1>5. ASSUME NEW k \in Lock \ {l} PROVE Askers'[k] = Askers[k]
  <2>1. \A t \in Thread : (target'[t] = k /\ pc'[t] \in Asking \cup {"woken"})
                            <=> (target[t] = k /\ pc[t] \in Asking \cup {"woken"})
    BY <1>1 DEF Asking, LockTypes, LInv, TargetInv, Outside
  <2> QED BY <2>1, SameAskers
<1>6. CASE pc[self] \in {"down", "woken"} /\ target[self] = l
  <2>1. self \in Askers[l] /\ Askers'[l] = Askers[l] \ {self}
    BY <1>1, <1>6, AskersOf DEF Asking, LockTypes
  <2>2. Askers' = [Askers EXCEPT ![l] = @ \ {self}]
    BY <1>5, <2>1, AskersOf
  <2> QED BY <1>3, <1>4, <2>1, <2>2 DEF Locks!Next, Locks!Grant
<1>7. CASE pc[self] = "run"
  <2>1. \A t \in Thread : (target'[t] = l /\ pc'[t] \in Asking \cup {"woken"})
                            <=> (target[t] = l /\ pc[t] \in Asking \cup {"woken"})
    BY <1>1, <1>7 DEF Asking, LockTypes
  <2>2. Askers' = Askers
    BY <1>5, <2>1, SameAskers, AskersOf
  <2> QED BY <1>3, <1>4, <2>2 DEF Locks!Next, Locks!TryAcquire
<1> QED
  BY <1>6, <1>7

(* lock_release's sema_up gives the lock back. *)
LEMMA UpReleases ==
  ASSUME LInv, NEW self \in Thread, LockUp(self)
  PROVE  Locks!Next
<1> DEFINE l == target[self]
<1>1. /\ LockTypes /\ MutualExclusion
      /\ l \in Lock /\ l \in held[self]
      /\ held' = [held EXCEPT ![self] = @ \ {l}]
      /\ target' = [target EXCEPT ![self] = NULL]
      /\ pc' = [pc EXCEPT ![self] = "run"]
      /\ pc[self] = "up"
  BY Names DEF LockUp, LInv, LockTypes, TargetInv, Inside, At, Goto, Sched!At, Sched!Goto
<1> HIDE DEF l
<1>2. Owner[l] = self
  BY <1>1, OwnerIsHolder
<1>3. Owner' = [Owner EXCEPT ![l] = NULL]
  <2>1. \A t \in Thread : l \notin held'[t]
    BY <1>1 DEF LockTypes, MutualExclusion
  <2>2. Owner'[l] = NULL
    BY <1>1, <2>1 DEF Owner
  <2>3. \A k \in Lock \ {l} : Owner'[k] = Owner[k]
    <3>1. \A k \in Lock \ {l}, t \in Thread : k \in held'[t] <=> k \in held[t]
      BY <1>1 DEF LockTypes
    <3>2. \A k \in Lock \ {l} : (CHOOSE t \in Thread : k \in held'[t])
                                   = (CHOOSE t \in Thread : k \in held[t])
      BY <3>1
    <3> QED BY <3>1, <3>2 DEF Owner
  <2> QED BY <2>2, <2>3, AskersOf
<1>4. ASSUME NEW k \in Lock PROVE Askers'[k] = Askers[k]
  <2>1. \A t \in Thread : (target'[t] = k /\ pc'[t] \in Asking \cup {"woken"})
                            <=> (target[t] = k /\ pc[t] \in Asking \cup {"woken"})
    BY <1>1, Names DEF Asking, LockTypes
  <2> QED BY <2>1, SameAskers
<1>5. Askers' = Askers
  BY <1>4, AskersOf
<1> QED
  BY <1>1, <1>2, <1>3, <1>5 DEF Locks!Next, Locks!Release

(* A round of sema_down: it takes a lock, or nobody sees it. *)
LEMMA DownIsGrantOrInvisible ==
  ASSUME LInv, NEW self \in Thread, NEW s \in AnySema, Down(self, s),
         \/ pc[self] \in {"down", "woken"} /\ target[self] = s
         \/ pc[self] = "run" /\ s \notin Lock
  PROVE  [Locks!Next]_(Locks!vars)
<1>1. LockTypes /\ NULL \notin Lock
  BY Names DEF LInv
<1>2. CASE value[s] > 0 /\ s \in Lock
  BY <1>2, TakingGrants DEF Down, Goto, Sched!Goto
<1>3. CASE value[s] > 0 /\ s \notin Lock
  <2>1. /\ held' = held /\ target' = [target EXCEPT ![self] = NULL]
        /\ pc' = [pc EXCEPT ![self] = "run"]
    BY <1>1, <1>3 DEF Down, Goto, Sched!Goto, LockTypes
  <2>2. target[self] \notin Lock
    BY <1>1, <1>3 DEF LInv, TargetInv, Outside
  <2> QED BY <1>1, <2>1, <2>2, InvisibleStep DEF LockTypes
<1>4. CASE value[s] = 0
  <2>1. /\ held' = held /\ target' = [target EXCEPT ![self] = s]
        /\ pc' = [pc EXCEPT ![self] = "woken"]
    BY <1>4 DEF Down, Goto, Sched!Goto
  <2>2. s \notin Lock => target[self] \notin Lock
    BY <1>1 DEF LInv, TargetInv, Outside
  <2> QED BY <1>1, <2>1, <2>2, InvisibleStep DEF LockTypes, Asking
<1> QED
  BY <1>1, <1>2, <1>3, <1>4 DEF LockTypes

(* The other steps of the routines concern nobody but the thread itself. *)
LEMMA InvisibleRoutineStep ==
  ASSUME LInv, NEW self \in Thread,
         \/ DonateStep(self) \/ SettingStep(self) \/ LockAcquired(self) \/ LockUnhold(self)
  PROVE  UNCHANGED Locks!vars
<1>1. LockTypes /\ TargetInv /\ NULL \notin Lock
  BY Names DEF LInv
<1> DEFINE Invisible ==
             /\ held' = held
             /\ \A t \in Thread \ {self} : pc'[t] = pc[t] /\ target'[t] = target[t]
             /\ \/ pc[self] \in Asking /\ pc'[self] \in Asking /\ target'[self] = target[self]
                \/ pc[self] \notin Asking \cup {"woken"} /\ pc'[self] \notin Asking \cup {"woken"}
<1> USE DEF LockTypes, Asking, At, Goto, Sched!At, Sched!Goto
<1>2. ASSUME DonateStep(self) PROVE Invisible
  BY <1>1, <1>2 DEF DonateStep, LinkDonor, DonatePriority, DonateCompare, DonateRaise, DonateHop
<1>3. ASSUME SettingStep(self) PROVE Invisible
  BY <1>1, <1>3 DEF SettingStep, LockRelease, ThreadSetPriority, Rebase, FallBack,
     RefreshPriority, AdoptPriority, Refreshed
<1>4. ASSUME LockAcquired(self) \/ LockUnhold(self) PROVE Invisible
  BY <1>1, <1>4 DEF LockAcquired, LockUnhold
<1>5. Invisible
  BY <1>2, <1>3, <1>4
<1> QED
  BY <1>5, InvisibleStep

LEMMA StepImplements ==
  ASSUME LInv, [Next]_vars
  PROVE  [Locks!Next]_(Locks!vars)
<1> USE Names DEF At, Sched!At
<1>1. CASE UNCHANGED vars
  <2>1. UNCHANGED << target, held, pc >>
    BY <1>1 DEF vars, synchVars
  <2> QED BY <2>1, InvisibleStep
<1>2. CASE SchedStep
  <2>1. /\ UNCHANGED << target, held >>
        /\ \A t \in Thread : pc'[t] = pc[t] \/ (pc[t] \in Outside /\ pc'[t] \in Outside)
    BY <1>2, SchedMoves DEF LInv, LockTypes, HolderReleases, synchVars
  <2> QED BY <2>1, InvisibleStep DEF Outside, Asking
<1>3. ASSUME NEW s \in IntrSema, IntrSemaUp(s) PROVE [Locks!Next]_(Locks!vars)
  BY <1>3, InvisibleStep DEF IntrSemaUp
<1>4. ASSUME NEW self \in Client, SynchStep(self) PROVE [Locks!Next]_(Locks!vars)
  <2>1. ASSUME NEW s \in Sema, SemaDown(self, s) PROVE [Locks!Next]_(Locks!vars)
    BY <2>1, DownIsGrantOrInvisible DEF SemaDown
  <2>2. ASSUME NEW s \in Sema, SemaUp(self, s) PROVE [Locks!Next]_(Locks!vars)
    BY <2>2, InvisibleStep DEF SemaUp
  <2>3. ASSUME NEW l \in Lock, LockTryAcquire(self, l) PROVE [Locks!Next]_(Locks!vars)
    BY <2>3, TakingGrants DEF LockTryAcquire, Goto, Sched!Goto
  <2>4. ASSUME LockDown(self) \/ Woken(self) PROVE [Locks!Next]_(Locks!vars)
    <3>1. pc[self] \in {"down", "woken"} /\ target[self] \in AnySema
      BY <2>4 DEF LockDown, Woken, LInv, TargetInv, Asking
    <3> QED BY <2>4, <3>1, DownIsGrantOrInvisible DEF LockDown, Woken
  <2>5. ASSUME LockUp(self) PROVE [Locks!Next]_(Locks!vars)
    BY <2>5, UpReleases
  <2> QED
    BY <1>4, <2>1, <2>2, <2>3, <2>4, <2>5, AcquireAsks, InvisibleRoutineStep
    DEF SynchStep, DonateStep, SettingStep
<1> QED
  BY <1>1, <1>2, <1>3, <1>4 DEF Next

(* The locks of synch.c implement the lock service: seen through Owner and *)
(* Askers, every behaviour of the kernel is one the service allows.        *)
THEOREM LocksImplementService == Spec => ImplementsLocks
<1>1. Init => Locks!Init
  BY Names DEF Init, Locks!Init, Owner, Askers
<1>2. LInv /\ [Next]_vars => [Locks!Next]_(Locks!vars)
  BY StepImplements
<1> QED
  BY LockInvariance, <1>1, <1>2, PTL DEF Spec, ImplementsLocks, Locks!Spec

-------------------------------------------------------------------------------
(***************************************************************************)
(* The thread system that runs the threads of this module (Sys), with its  *)
(* invariant from ThreadsProofs.  Its operators go by three names here, one *)
(* for each instance; the next four lemmas say that they are the same.     *)
(***************************************************************************)
SysP == INSTANCE ThreadsProofs WITH pc <- SysPc, panic <- SysPanic

LEMMA SameLists ==
  /\ \A s : Sched!Range(s) = Range(s) /\ Sys!Range(s) = Range(s) /\ SysP!Range(s) = Range(s)
  /\ \A s : SysP!NoDuplicates(s) <=> NoDuplicates(s)
  /\ \A s, e, key : /\ Sched!InsertDescending(s, e, key) = InsertDescending(s, e, key)
                    /\ Sys!InsertDescending(s, e, key) = InsertDescending(s, e, key)
                    /\ SysP!InsertDescending(s, e, key) = InsertDescending(s, e, key)
                    /\ Sched!InsertAscending(s, e, key) = InsertAscending(s, e, key)
                    /\ Sys!InsertAscending(s, e, key) = InsertAscending(s, e, key)
                    /\ SysP!InsertAscending(s, e, key) = InsertAscending(s, e, key)
<1>1. \A s : Sched!Range(s) = Range(s) /\ Sys!Range(s) = Range(s) /\ SysP!Range(s) = Range(s)
  BY DEF Range, Sched!Range, Sys!Range, SysP!Range
<1>2. \A s : SysP!NoDuplicates(s) <=> NoDuplicates(s)
  BY DEF NoDuplicates, SysP!NoDuplicates
<1>3. \A s, e, key : /\ Sched!InsertDescending(s, e, key) = InsertDescending(s, e, key)
                     /\ Sched!InsertAscending(s, e, key) = InsertAscending(s, e, key)
  BY DEF InsertDescending, InsertAscending, InsertBefore, InsertAt, Min,
         Sched!InsertDescending, Sched!InsertAscending, Sched!InsertBefore, Sched!InsertAt,
         Sched!Min
<1>4. \A s, e, key : /\ Sys!InsertDescending(s, e, key) = InsertDescending(s, e, key)
                     /\ Sys!InsertAscending(s, e, key) = InsertAscending(s, e, key)
  BY DEF InsertDescending, InsertAscending, InsertBefore, InsertAt, Min,
         Sys!InsertDescending, Sys!InsertAscending, Sys!InsertBefore, Sys!InsertAt, Sys!Min
<1>5. \A s, e, key : /\ SysP!InsertDescending(s, e, key) = InsertDescending(s, e, key)
                     /\ SysP!InsertAscending(s, e, key) = InsertAscending(s, e, key)
  BY DEF InsertDescending, InsertAscending, InsertBefore, InsertAt, Min,
         SysP!InsertDescending, SysP!InsertAscending, SysP!InsertBefore, SysP!InsertAt,
         SysP!Min
<1> QED
  BY <1>1, <1>2, <1>3, <1>4, <1>5

LEMMA SameScheduler ==
  /\ \A rl, t : /\ Sched!Readied(rl, t) = Sys!Readied(rl, t)
                /\ SysP!Readied(rl, t) = Sys!Readied(rl, t)
                /\ Sys!Readied(rl, t) = InsertDescending(rl, t, priority)
  /\ \A st, rl : /\ Sched!Block(st, rl) <=> Sys!Block(st, rl)
                 /\ SysP!Block(st, rl) <=> Sys!Block(st, rl)
                 /\ Sched!YieldFrom(st, rl) <=> Sys!YieldFrom(st, rl)
                 /\ SysP!YieldFrom(st, rl) <=> Sys!YieldFrom(st, rl)
                 /\ Sched!PreemptOrContinue(st, rl) <=> Sys!PreemptOrContinue(st, rl)
                 /\ SysP!PreemptOrContinue(st, rl) <=> Sys!PreemptOrContinue(st, rl)
  /\ \A st, n, rl : SysP!DoSchedule(st, n, rl) <=> Sys!DoSchedule(st, n, rl)
<1>1. \A st, rl, d : /\ Sched!Schedule(st, rl, d) <=> Sys!Schedule(st, rl, d)
                     /\ SysP!Schedule(st, rl, d) <=> Sys!Schedule(st, rl, d)
  BY DEF Sched!Schedule, Sys!Schedule, SysP!Schedule
<1>2. \A rl, t : /\ Sched!Readied(rl, t) = Sys!Readied(rl, t)
                 /\ SysP!Readied(rl, t) = Sys!Readied(rl, t)
                 /\ Sys!Readied(rl, t) = InsertDescending(rl, t, priority)
  BY SameLists DEF Sched!Readied, Sys!Readied, SysP!Readied
<1>3. \A st, n, rl : /\ Sched!DoSchedule(st, n, rl) <=> Sys!DoSchedule(st, n, rl)
                     /\ SysP!DoSchedule(st, n, rl) <=> Sys!DoSchedule(st, n, rl)
  BY <1>1, SameLists DEF Sched!DoSchedule, Sys!DoSchedule, SysP!DoSchedule
<1>4. \A st, rl : /\ Sched!Block(st, rl) <=> Sys!Block(st, rl)
                  /\ SysP!Block(st, rl) <=> Sys!Block(st, rl)
  BY <1>1 DEF Sched!Block, Sys!Block, SysP!Block
<1>5. \A st, rl : /\ Sched!YieldFrom(st, rl) <=> Sys!YieldFrom(st, rl)
                  /\ SysP!YieldFrom(st, rl) <=> Sys!YieldFrom(st, rl)
  BY <1>2, <1>3 DEF Sched!YieldFrom, Sys!YieldFrom, SysP!YieldFrom
<1>6. \A st, rl : /\ Sched!PreemptOrContinue(st, rl) <=> Sys!PreemptOrContinue(st, rl)
                  /\ SysP!PreemptOrContinue(st, rl) <=> Sys!PreemptOrContinue(st, rl)
  BY <1>5 DEF Sched!PreemptOrContinue, Sys!PreemptOrContinue, SysP!PreemptOrContinue
<1> QED
  BY <1>2, <1>3, <1>4, <1>5, <1>6

LEMMA SameThreadStep ==
  ASSUME NEW self \in Thread, Sys!ThreadStep(self)
  PROVE  SysP!ThreadStep(self)
<1> USE SameLists, SameScheduler
    DEF Sys!At, SysP!At, Sys!InKernel, SysP!InKernel, Sys!Goto, SysP!Goto,
        Sys!schedVars, SysP!schedVars, Sys!sleepVars, SysP!sleepVars,
        Sys!intrVars, SysP!intrVars
<1>1. \A t, p : Sys!ThreadCreate(self, t, p) => SysP!ThreadCreate(self, t, p)
  BY DEF Sys!ThreadCreate, SysP!ThreadCreate
<1>2. \A t, p : Sys!ThreadCreateFails(self, t, p) => SysP!ThreadCreateFails(self, t, p)
  BY DEF Sys!ThreadCreateFails, SysP!ThreadCreateFails
<1>3. \A p : Sys!ThreadSetPriority(self, p) => SysP!ThreadSetPriority(self, p)
  BY DEF Sys!ThreadSetPriority, SysP!ThreadSetPriority
<1>4. \A t, p : Sys!WritePriority(self, t, p) => SysP!WritePriority(self, t, p)
  BY DEF Sys!WritePriority, SysP!WritePriority
<1>5. Sys!CheckAndPreempt(self) => SysP!CheckAndPreempt(self)
  BY DEF Sys!CheckAndPreempt, SysP!CheckAndPreempt
<1>6. Sys!PreemptToFront(self) => SysP!PreemptToFront(self)
  BY DEF Sys!PreemptToFront, SysP!PreemptToFront
<1>7. Sys!ThreadYield(self) => SysP!ThreadYield(self)
  BY DEF Sys!ThreadYield, SysP!ThreadYield
<1>8. Sys!ThreadBlock(self) => SysP!ThreadBlock(self)
  BY DEF Sys!ThreadBlock, SysP!ThreadBlock
<1>9. \A t : Sys!ThreadUnblock(self, t) => SysP!ThreadUnblock(self, t)
  BY DEF Sys!ThreadUnblock, SysP!ThreadUnblock
<1>10. Sys!PreemptIfHigher(self) => SysP!PreemptIfHigher(self)
  BY DEF Sys!PreemptIfHigher, SysP!PreemptIfHigher
<1>11. Sys!ThreadExit(self) => SysP!ThreadExit(self)
  BY DEF Sys!ThreadExit, SysP!ThreadExit
<1>12. \A n : Sys!TimerSleep(self, n) => SysP!TimerSleep(self, n)
  BY DEF Sys!TimerSleep, SysP!TimerSleep
<1>13. Sys!ThreadSleep(self) => SysP!ThreadSleep(self)
  BY DEF Sys!ThreadSleep, SysP!ThreadSleep
<1>14. Sys!Priority = SysP!Priority
  BY DEF Sys!Priority, SysP!Priority
<1> QED
  BY ONLY Sys!ThreadStep(self), <1>1, <1>2, <1>3, <1>4, <1>5, <1>6, <1>7, <1>8, <1>9, <1>10,
     <1>11, <1>12, <1>13, <1>14 DEF Sys!ThreadStep, SysP!ThreadStep

LEMMA SameSystem == [Sys!Next]_(Sys!vars) => [SysP!Next]_(SysP!vars)
<1> USE SameLists, SameScheduler
    DEF Sys!At, SysP!At, Sys!InKernel, SysP!InKernel,
        Sys!schedVars, SysP!schedVars, Sys!sleepVars, SysP!sleepVars,
        Sys!intrVars, SysP!intrVars, Sys!FrontSleeperDue, SysP!FrontSleeperDue
<1>1. \A t : Sys!IntrUnblock(t) => SysP!IntrUnblock(t)
  BY DEF Sys!IntrUnblock, SysP!IntrUnblock
<1>2. Sys!IdleLoop => SysP!IdleLoop
  BY DEF Sys!IdleLoop, SysP!IdleLoop
<1>3. Sys!TimerInterrupt => SysP!TimerInterrupt
  BY DEF Sys!TimerInterrupt, SysP!TimerInterrupt
<1>4. Sys!WakeSleeper => SysP!WakeSleeper
  BY DEF Sys!WakeSleeper, SysP!WakeSleeper
<1>5. Sys!TimerReturn => SysP!TimerReturn
  BY DEF Sys!TimerReturn, SysP!TimerReturn
<1>6. UNCHANGED Sys!vars => UNCHANGED SysP!vars
  BY DEF Sys!vars, SysP!vars
<1>7. Sys!Next => SysP!Next
  BY ONLY SameThreadStep, <1>1, <1>2, <1>3, <1>4, <1>5 DEF Sys!Next, SysP!Next
<1> QED
  BY ONLY <1>6, <1>7

(* Every step of the thread system keeps its invariant. *)
LEMMA SystemStep ==
  ASSUME SysP!IInv, [Sys!Next]_(Sys!vars)
  PROVE  SysP!IInv'
<1>1. SysP!ThreadsAssumption
  BY SynchAssumption DEF SynchAssumption, SysP!ThreadsAssumption
<1> QED
  BY <1>1, SameSystem, SysP!NextKeeps

(* What that invariant says of the variables of this module. *)
Live == {"running", "ready", "blocked"}
SysRoutine == {"preempt", "front", "sleep"}

LEMMA SystemFacts ==
  ASSUME SysP!IInv
  PROVE  /\ current \in Thread /\ priority \in [Thread -> Priority]
         /\ status \in [Thread -> {"running", "ready", "blocked", "dying", "free"}]
         /\ ready_list \in Seq(Thread) /\ sleep_list \in Seq(Thread)
         /\ wakeup_tick \in [Thread -> 0 .. MaxTick]
         /\ \A t \in Thread : status[t] = "running" <=> t = current
         /\ \A t \in Client : status[t] = "ready" <=> t \in Range(ready_list)
         /\ Idle \notin Range(ready_list) /\ NoDuplicates(ready_list)
         /\ current \notin Range(ready_list)
         /\ Range(ready_list) \subseteq Client /\ Range(sleep_list) \subseteq Client
         /\ \A t \in Range(sleep_list) : status[t] = "blocked"
         /\ NoDuplicates(sleep_list)
         /\ pc[Idle] \notin SysRoutine /\ Idle \in Thread
<1> USE SameLists
<1>1. /\ SysP!SchedInv(current, status, ready_list, sleep_list, destruction_req)
      /\ SysP!NoDuplicates(sleep_list) /\ SysP!TypeOK /\ SysPc[Idle] = "run"
  BY DEF SysP!IInv, SysP!IdleInv
<1>2. /\ current \in Thread /\ priority \in [Thread -> Priority]
      /\ status \in [Thread -> {"running", "ready", "blocked", "dying", "free"}]
      /\ ready_list \in Seq(Thread) /\ sleep_list \in Seq(Thread)
      /\ wakeup_tick \in [Thread -> 0 .. MaxTick]
  BY <1>1 DEF SysP!TypeOK, SysP!Priority, Priority, Sched!Priority
<1>3. /\ \A t \in Thread : status[t] = "running" <=> t = current
      /\ \A t \in Client : status[t] = "ready" <=> t \in Range(ready_list)
      /\ Idle \notin Range(ready_list) /\ NoDuplicates(ready_list)
      /\ \A t \in Range(sleep_list) : t # Idle /\ status[t] = "blocked"
  BY <1>1 DEF SysP!SchedInv, SysP!RunQueueOf, SysP!SleepersOf, Client
<1>4. /\ Range(ready_list) \subseteq Thread /\ Range(sleep_list) \subseteq Thread
  BY <1>2 DEF Range
<1>5. Idle \in Thread /\ pc[Idle] \notin SysRoutine
  BY <1>1, SynchAssumption DEF SynchAssumption, SysPc, SysRoutine
<1>6. current \notin Range(ready_list)
  BY <1>2, <1>3, <1>4 DEF Client
<1> QED
  BY <1>1, <1>2, <1>3, <1>4, <1>5, <1>6 DEF Client

-------------------------------------------------------------------------------
(* The steps of this module, seen from the thread system. *)

LEMMA SysAt ==
  ASSUME NEW self \in Thread, NEW l, At(self, l)
  PROVE  /\ self = current /\ ~ in_intr /\ panic = "none" /\ SysPanic = "none"
         /\ pc[self] = l /\ Sys!InKernel(self)
         /\ Sys!At(self, IF l \in SysRoutine THEN l ELSE "run")
  BY DEF At, Sched!At, Sched!InKernel, Sys!At, Sys!InKernel, SysPc, SysPanic, SysRoutine

LEMMA SysGoto ==
  ASSUME pc \in [Thread -> PC], NEW self \in Thread, NEW l \in PC, Goto(self, l)
  PROVE  /\ Sys!Goto(self, IF l \in SysRoutine THEN l ELSE "run")
         /\ pc' \in [Thread -> PC] /\ pc'[self] = l
         /\ \A t \in Thread : t # self => pc'[t] = pc[t]
         /\ pc[self] \notin SysRoutine /\ l \notin SysRoutine => SysPc' = SysPc
  BY DEF Goto, Sched!Goto, Sys!Goto, SysPc, SysRoutine

(* A thread outside of the routines of Threads writes a priority. *)
LEMMA SysWrite ==
  ASSUME SysP!IInv, status \in [Thread -> Live],
         NEW self \in Client, Sys!At(self, "run"), NEW t \in Client, NEW p \in Priority,
         priority' = [priority EXCEPT ![t] = p],
         UNCHANGED << schedVars, clockVars >>, SysPc' = SysPc, SysPanic' = SysPanic
  PROVE  Sys!Next
<1>1. self = current /\ t # Idle /\ self # Idle /\ self \in Thread /\ t \in Thread
  BY DEF Sys!At, Sys!InKernel, Client
<1>2. t # self => status[t] \in {"ready", "blocked"}
  BY <1>1, SystemFacts DEF Live
<1>3. Sys!WritePriority(self, t, p)
  BY <1>1, <1>2 DEF Sys!WritePriority, schedVars, clockVars, Sys!schedVars, Sys!sleepVars,
     Sys!intrVars
<1> QED
  BY <1>1, <1>3 DEF Sys!Next, Sys!ThreadStep, Priority, Sched!Priority, Sys!Priority

(* Steps of a routine that the thread system does not see. *)
LEMMA SysStutter ==
  ASSUME UNCHANGED << schedVars, clockVars, priority >>, SysPc' = SysPc, SysPanic' = SysPanic
  PROVE  UNCHANGED Sys!vars
  BY DEF schedVars, clockVars, Sys!vars, Sys!schedVars, Sys!sleepVars, Sys!intrVars

(* The thread system's own steps. *)
LEMMA SysOwnSteps ==
  ASSUME pc \in [Thread -> PC], panic \in Panic, SchedStep
  PROVE  Sys!Next /\ panic' \in Panic /\ pc' \in [Thread -> PC]
<1> USE SameLists, SameScheduler DEF Sched!schedVars, Sys!schedVars, Sched!sleepVars, Sys!sleepVars,
        Sched!intrVars, Sys!intrVars, Panic
<1>0. /\ \A self \in Thread : \A l : Sched!At(self, l) =>
            /\ Sys!At(self, IF l \in SysRoutine THEN l ELSE "run")
            /\ SysPanic = "none" /\ panic = "none" /\ Sys!InKernel(self)
      /\ \A self \in Thread, l \in PC : Sched!Goto(self, l) =>
            /\ Sys!Goto(self, IF l \in SysRoutine THEN l ELSE "run") /\ pc' \in [Thread -> PC]
      /\ UNCHANGED pc => SysPc' = SysPc
      /\ UNCHANGED panic => SysPanic' = SysPanic
  BY SysAt, SysGoto DEF At, Goto, SysPc, SysPanic
<1>1. ASSUME NEW self \in Thread, Sched!CheckAndPreempt(self)
      PROVE  Sys!CheckAndPreempt(self) /\ panic' \in Panic /\ pc' \in [Thread -> PC]
  BY <1>0, <1>1 DEF Sched!CheckAndPreempt, Sys!CheckAndPreempt, PC, SysRoutine
<1>2. ASSUME NEW self \in Thread, Sched!PreemptToFront(self)
      PROVE  Sys!PreemptToFront(self) /\ panic' \in Panic /\ pc' \in [Thread -> PC]
  BY <1>0, <1>2 DEF Sched!PreemptToFront, Sys!PreemptToFront, PC, SysRoutine, SysPanic
<1>3. ASSUME NEW self \in Thread, Sched!ThreadYield(self)
      PROVE  Sys!ThreadYield(self) /\ panic' \in Panic /\ pc' \in [Thread -> PC]
  BY <1>0, <1>3 DEF Sched!ThreadYield, Sys!ThreadYield, PC, SysRoutine
<1>4. ASSUME NEW self \in Thread, NEW n \in 0 .. MaxTick, Sched!TimerSleep(self, n)
      PROVE  Sys!TimerSleep(self, n) /\ panic' \in Panic /\ pc' \in [Thread -> PC]
  BY <1>0, <1>4 DEF Sched!TimerSleep, Sys!TimerSleep, PC, SysRoutine
<1>5. ASSUME NEW self \in Thread, Sched!ThreadSleep(self)
      PROVE  Sys!ThreadSleep(self) /\ panic' \in Panic /\ pc' \in [Thread -> PC]
  BY <1>0, <1>5 DEF Sched!ThreadSleep, Sys!ThreadSleep, PC, SysRoutine
<1>6. ASSUME Sched!IdleLoop
      PROVE  Sys!IdleLoop /\ panic' \in Panic /\ pc' \in [Thread -> PC]
  BY <1>0, <1>6, SynchAssumption
     DEF Sched!IdleLoop, Sys!IdleLoop, PC, SysRoutine, SynchAssumption
<1>7. ASSUME TimerInterrupt
      PROVE  Sys!TimerInterrupt /\ panic' \in Panic /\ pc' \in [Thread -> PC]
  BY <1>0, <1>7 DEF TimerInterrupt, Sched!TimerInterrupt, Sys!TimerInterrupt, Sched!InKernel,
     Sys!InKernel, SysPanic
<1>8. ASSUME Sched!WakeSleeper
      PROVE  Sys!WakeSleeper /\ panic' \in Panic /\ pc' \in [Thread -> PC]
  BY <1>0, <1>8 DEF Sched!WakeSleeper, Sys!WakeSleeper, Sched!FrontSleeperDue,
     Sys!FrontSleeperDue, SysPanic
<1>9. ASSUME Sched!TimerReturn
      PROVE  Sys!TimerReturn /\ panic' \in Panic /\ pc' \in [Thread -> PC]
  BY <1>0, <1>9 DEF Sched!TimerReturn, Sys!TimerReturn, Sched!FrontSleeperDue,
     Sys!FrontSleeperDue, SysPanic
<1>10. 0 .. MaxTick \subseteq -1 .. MaxTick
  BY SynchAssumption DEF SynchAssumption
<1> QED
  BY ONLY SchedStep, <1>1, <1>2, <1>3, <1>4, <1>5, <1>6, <1>7, <1>8, <1>9, <1>10
     DEF SchedStep, Sys!Next, Sys!ThreadStep

-------------------------------------------------------------------------------
(* Donors: what donate_priority and refresh_priority have read is of the   *)
(* right kind at every point where they use it, however old it is.         *)
Walk == [from : Thread \cup {NULL}, lock : Lock \cup {NULL}, depth : 0 .. MaxDepth,
         to : Client \cup {NULL}, pri : Priority]

Walking  == {"compare", "raise", "hop"}
Donating == Walking \cup {"donate", "adopt"}

WalksAt(l, w) ==
  /\ l \in Donating => w.from \in Thread
  /\ l \in Walking => w.lock \in Lock /\ w.depth < MaxDepth

DonateInv ==
  /\ original_priority \in [Thread -> Priority]
  /\ wait_lock \in [Thread -> Lock \cup {NULL}]
  /\ donations \in [Thread -> Seq(Thread)]
  /\ walk \in [Thread -> Walk]
  /\ \A t \in Thread : WalksAt(pc[t], walk[t])
  /\ held[Idle] = {} /\ panic \in Panic

LEMMA NoWalkIsWalk == NoWalk \in Walk /\ 0 \in Priority /\ Priority \subseteq Int
<1>1. 0 \in Priority /\ Priority \subseteq Int /\ 0 \in 0 .. MaxDepth
  BY SynchAssumption DEF SynchAssumption, Priority, Sched!Priority
<1> QED
  BY <1>1 DEF NoWalk, Walk

(* One thread moves, with what it has read. *)
LEMMA WalkStep ==
  ASSUME DonateInv, NEW self \in Thread, NEW w \in Walk,
         walk' = [walk EXCEPT ![self] = w], WalksAt(pc'[self], w),
         \A t \in Thread : t # self => pc'[t] = pc[t],
         original_priority' \in [Thread -> Priority],
         wait_lock' \in [Thread -> Lock \cup {NULL}],
         donations' \in [Thread -> Seq(Thread)],
         held' = held, panic' \in Panic
  PROVE  DonateInv'
<1>1. walk' \in [Thread -> Walk] /\ walk'[self] = w
  BY DEF DonateInv
<1>2. \A t \in Thread : WalksAt(pc'[t], walk'[t])
  BY <1>1 DEF DonateInv
<1> QED
  BY <1>1, <1>2 DEF DonateInv, WalksAt

(* One thread moves to where it has no use for what it has read. *)
LEMMA WalkKept ==
  ASSUME DonateInv, NEW self \in Thread, walk' = walk, pc'[self] \notin Donating,
         \A t \in Thread : t # self => pc'[t] = pc[t],
         original_priority' \in [Thread -> Priority],
         wait_lock' \in [Thread -> Lock \cup {NULL}],
         donations' \in [Thread -> Seq(Thread)],
         held' = held, panic' \in Panic
  PROVE  DonateInv'
<1>1. walk' = [walk EXCEPT ![self] = walk[self]] /\ walk[self] \in Walk
  BY DEF DonateInv
<1>2. WalksAt(pc'[self], walk[self])
  BY DEF WalksAt, Donating
<1> QED
  BY <1>1, <1>2, WalkStep

(* Where the semaphores, the wait lists and who is blocked stay as they are. *)
Unwaited ==
  /\ UNCHANGED << status, destruction_req, sleep_list, waiters, value >>
  /\ \A t \in Thread : /\ pc'[t] = "woken" <=> pc[t] = "woken"
                       /\ pc[t] = "woken" => target'[t] = target[t]

LEMMA UnwaitedMove ==
  ASSUME pc \in [Thread -> PC], NEW self \in Thread, NEW l \in PC, l # "woken",
         pc[self] # "woken", Goto(self, l),
         UNCHANGED << schedVars, clockVars, semaVars >>,
         \A t \in Thread : t # self => target'[t] = target[t]
  PROVE  Unwaited
  BY SysGoto DEF Unwaited, schedVars, clockVars, semaVars

LEMMA AcquireSteps ==
  ASSUME LInv, SysP!IInv, DonateInv, NEW self \in Client,
         (\E l \in Lock : LockAcquire(self, l)) \/ LockAcquired(self) \/ LockUnhold(self)
  PROVE  UNCHANGED Sys!vars /\ DonateInv' /\ Unwaited
<1> USE DEF PC, Client
<1>0. /\ self \in Thread /\ pc \in [Thread -> PC] /\ target \in [Thread -> AnySema \cup {NULL}]
      /\ \A l : At(self, l) => pc[self] = l /\ SysPanic = "none" /\ panic = "none"
      /\ UNCHANGED panic => SysPanic' = SysPanic
  BY SysAt DEF LInv, LockTypes, SysPanic
<1>1. PICK m \in {"down", "donor", "run", "up"} :
        /\ Goto(self, m) /\ pc[self] \in {"run", "acquired", "unhold"}
        /\ \E x \in Lock \cup {NULL} : wait_lock' \in {wait_lock, [wait_lock EXCEPT ![self] = x]}
        /\ \A t \in Thread : t # self => target'[t] = target[t]
        /\ UNCHANGED << schedVars, clockVars, semaVars, priority, panic, original_priority,
                        donations, walk, held >>
  <2>1. ASSUME NEW l \in Lock, LockAcquire(self, l)
        PROVE  /\ Goto(self, "down") \/ Goto(self, "donor")
               /\ wait_lock' \in {wait_lock, [wait_lock EXCEPT ![self] = l]}
               /\ \A t \in Thread : t # self => target'[t] = target[t]
               /\ UNCHANGED << schedVars, clockVars, semaVars, priority, panic,
                               original_priority, donations, walk, held >>
               /\ pc[self] = "run"
    BY <1>0, <2>1 DEF LockAcquire
  <2>2. ASSUME LockAcquired(self) \/ LockUnhold(self)
        PROVE  /\ Goto(self, "run") \/ Goto(self, "up")
               /\ wait_lock' \in {wait_lock, [wait_lock EXCEPT ![self] = NULL]}
               /\ \A t \in Thread : t # self => target'[t] = target[t]
               /\ UNCHANGED << schedVars, clockVars, semaVars, priority, panic,
                               original_priority, donations, walk, held >>
               /\ pc[self] \in {"acquired", "unhold"}
    BY <1>0, <2>2 DEF LockAcquired, LockUnhold, donateVars
  <2> QED BY <2>1, <2>2
<1>2. /\ pc' \in [Thread -> PC] /\ pc'[self] = m /\ SysPc' = SysPc
      /\ \A t \in Thread : t # self => pc'[t] = pc[t]
  BY <1>0, <1>1, SysGoto DEF SysRoutine
<1>3. UNCHANGED Sys!vars
  BY <1>0, <1>1, <1>2, SysStutter
<1>4. Unwaited
  BY <1>0, <1>1, UnwaitedMove
<1>5. wait_lock' \in [Thread -> Lock \cup {NULL}]
  BY <1>1 DEF DonateInv
<1>6. pc'[self] \notin Donating
  BY <1>2 DEF Donating, Walking
<1>7. /\ original_priority' \in [Thread -> Priority] /\ donations' \in [Thread -> Seq(Thread)]
      /\ held' = held /\ panic' \in Panic /\ walk' = walk
  BY <1>1 DEF DonateInv
<1> QED
  BY <1>0, <1>2, <1>3, <1>4, <1>5, <1>6, <1>7, WalkKept

(* A step that faults: the kernel takes no more steps. *)
LEMMA FaultStep ==
  ASSUME DonateInv, panic = "none", panic' \in Panic \ {"list_front"},
         UNCHANGED << schedVars, clockVars, semaVars, priority, pc, donateVars, held >>,
         \A t \in Thread : pc[t] = "woken" => target'[t] = target[t]
  PROVE  UNCHANGED Sys!vars /\ DonateInv' /\ Unwaited
<1>1. SysPc' = SysPc /\ SysPanic' = SysPanic
  BY DEF SysPc, SysPanic
<1>2. UNCHANGED Sys!vars
  BY <1>1, SysStutter
<1>3. DonateInv'
  BY DEF DonateInv, donateVars
<1>4. Unwaited
  BY DEF Unwaited, schedVars, clockVars, semaVars
<1> QED
  BY <1>2, <1>3, <1>4

(* lock_acquire's donation: every step but the assignment to the holder's  *)
(* priority goes unseen by the scheduler.                                  *)
LEMMA DonateSteps ==
  ASSUME LInv, SysP!IInv, DonateInv, status \in [Thread -> Live], NEW self \in Client,
         DonateStep(self)
  PROVE  [Sys!Next]_(Sys!vars) /\ DonateInv' /\ Unwaited
<1> DEFINE w == walk[self]
<1>0. /\ self \in Thread /\ pc \in [Thread -> PC] /\ priority \in [Thread -> Priority]
      /\ \A l : At(self, l) => /\ pc[self] = l /\ SysPanic = "none" /\ panic = "none"
                               /\ l \notin SysRoutine => Sys!At(self, "run")
      /\ holder \in [Lock -> Thread \cup {NULL}] /\ w \in Walk /\ WalksAt(pc[self], w)
      /\ wait_lock \in [Thread -> Lock \cup {NULL}] /\ donations \in [Thread -> Seq(Thread)]
      /\ original_priority \in [Thread -> Priority] /\ panic \in Panic
  <2>1. self \in Thread
    BY DEF Client
  <2> QED BY <2>1, SysAt, SystemFacts DEF LInv, LockTypes, DonateInv, SysPanic
<1>1. ASSUME NEW l \in Lock, holder[l] # NULL PROVE holder[l] \in Client
  <2>1. l \in held[holder[l]]
    BY <1>1 DEF LInv, HolderInv
  <2>2. held[Idle] = {}
    BY DEF DonateInv
  <2> QED BY <1>0, <1>1, <2>1, <2>2 DEF Client
(* An unseen step of the thread, to m, with what it has read in v. *)
<1>2. ASSUME NEW m \in {"donate", "compare", "raise", "hop", "down"}, Goto(self, m),
             NEW v \in Walk, walk' = [walk EXCEPT ![self] = v], WalksAt(m, v),
             pc[self] \in {"donor"} \cup Walking \cup {"donate"},
             UNCHANGED << schedVars, clockVars, semaVars, target, held, panic,
                          original_priority, wait_lock >>,
             donations' \in [Thread -> Seq(Thread)]
      PROVE  /\ DonateInv' /\ Unwaited /\ SysPc' = SysPc /\ SysPanic' = SysPanic
             /\ priority' = priority => [Sys!Next]_(Sys!vars)
  <2>1. m \in PC /\ m \notin SysRoutine /\ pc[self] \notin SysRoutine /\ m # "woken"
        /\ pc[self] # "woken"
    BY <1>2 DEF PC, SysRoutine, Walking
  <2>2. /\ pc'[self] = m /\ SysPc' = SysPc /\ \A t \in Thread : t # self => pc'[t] = pc[t]
    BY <1>0, <1>2, <2>1, SysGoto
  <2>3. DonateInv'
    BY <1>0, <1>2, <2>2, WalkStep
  <2>4. Unwaited
    BY <1>0, <1>2, <2>1, UnwaitedMove
  <2>5. SysPanic' = SysPanic
    BY <1>2 DEF SysPanic
  <2>6. priority' = priority => UNCHANGED Sys!vars
    BY <1>2, <2>2, <2>5, SysStutter
  <2> QED BY <2>2, <2>3, <2>4, <2>5, <2>6
<1>3. CASE LinkDonor(self)
  <2> DEFINE l == target[self]
             q == InsertDescending(donations[holder[l]], self, priority)
             v == [NoWalk EXCEPT !.from = self, !.lock = wait_lock[self]]
  <2>1. pc[self] = "donor" /\ panic = "none"
    BY <1>0, <1>3 DEF LinkDonor
  <2>2. l \in Lock
    BY <2>1, <1>0 DEF LInv, TargetInv, Asking
  <2>3. CASE panic' # "none"
    <3>1. panic' \in {"null_holder", "relinked"} /\ UNCHANGED << donations, walk, pc >>
      BY <1>3, <2>1, <2>3 DEF LinkDonor
    <3>2. panic' \in Panic \ {"list_front"}
      BY <3>1 DEF Panic
    <3> QED BY <3>1, <3>2, <2>1, <1>3, FaultStep DEF LinkDonor, donateVars
  <2>4. CASE panic' = "none"
    <3>1. /\ holder[l] # NULL /\ donations' = [donations EXCEPT ![holder[l]] = q]
          /\ walk' = [walk EXCEPT ![self] = v] /\ Goto(self, "donate") /\ UNCHANGED panic
          /\ UNCHANGED << schedVars, clockVars, semaVars, target, held, original_priority,
                          wait_lock, priority >>
      BY <1>3, <2>1, <2>4 DEF LinkDonor
    <3>2. holder[l] \in Thread
      BY <1>0, <2>2, <3>1
    <3>3. q \in Seq(Thread)
      BY <1>0, <3>2, InsertDescendingProperties
    <3>4. donations' \in [Thread -> Seq(Thread)]
      BY <1>0, <3>1, <3>3
    <3>5. v \in Walk /\ v.from = self
      BY <1>0, NoWalkIsWalk DEF Walk, NoWalk
    <3>6. WalksAt("donate", v)
      BY <1>0, <3>5 DEF WalksAt, Walking
    <3> HIDE DEF q, v
    <3> QED BY <1>2, <2>1, <3>1, <3>4, <3>5, <3>6
  <2> QED BY <2>3, <2>4
<1>4. CASE DonatePriority(self)
  <2> DEFINE more == w.lock # NULL /\ w.depth < MaxDepth /\ holder[w.lock] # NULL
             v == [w EXCEPT !.pri = priority[holder[w.lock]]]
  <2>1. /\ pc[self] = "donate" /\ w.from \in Thread
        /\ UNCHANGED << schedVars, clockVars, semaVars, target, held, panic, original_priority,
                        wait_lock, donations, priority >>
    BY <1>0, <1>4 DEF DonatePriority, WalksAt, Donating
  <2>2. CASE more
    <3>1. w.lock \in Lock /\ w.depth < MaxDepth
      BY <1>0, <2>2 DEF Walk
    <3>2. holder[w.lock] \in Thread
      BY <1>0, <2>2, <3>1
    <3>3. v \in Walk /\ v.from = w.from /\ v.lock = w.lock /\ v.depth = w.depth
      BY <1>0, <3>2 DEF Walk
    <3>4. WalksAt("compare", v)
      BY <2>1, <3>1, <3>3 DEF WalksAt
    <3>5. walk' = [walk EXCEPT ![self] = v] /\ Goto(self, "compare")
      BY <1>0, <1>4, <2>2 DEF DonatePriority
    <3> HIDE DEF v
    <3> QED BY <1>0, <1>2, <2>1, <3>3, <3>4, <3>5
  <2>3. CASE ~ more
    <3>1. walk' = [walk EXCEPT ![self] = NoWalk] /\ Goto(self, "down")
      BY <1>4, <2>3 DEF DonatePriority
    <3>2. WalksAt("down", NoWalk)
      BY DEF WalksAt, Donating, Walking
    <3> QED BY <1>0, <1>2, <2>1, <3>1, <3>2, NoWalkIsWalk
  <2> QED BY <2>2, <2>3
<1>5. CASE DonateCompare(self)
  <2> DEFINE v == [w EXCEPT !.pri = HigherOf(@, priority[w.from]), !.to = holder[w.lock]]
  <2>1. /\ pc[self] = "compare" /\ Goto(self, "raise")
        /\ UNCHANGED << schedVars, clockVars, semaVars, target, held, panic, original_priority,
                        wait_lock, donations, priority >>
    BY <1>0, <1>5 DEF DonateCompare
  <2>2. w.from \in Thread /\ w.lock \in Lock /\ w.depth < MaxDepth
    BY <1>0, <2>1 DEF WalksAt, Donating, Walking
  <2>3. holder[w.lock] \in Client \cup {NULL}
    BY <1>0, <1>1, <2>2
  <2>4. HigherOf(w.pri, priority[w.from]) \in Priority
    BY <1>0, <2>2 DEF Walk, HigherOf
  <2>5. v \in Walk /\ v.from = w.from /\ v.lock = w.lock /\ v.depth = w.depth
    BY <1>0, <2>3, <2>4 DEF Walk
  <2>6. WalksAt("raise", v)
    BY <2>2, <2>5 DEF WalksAt
  <2>7. walk' = [walk EXCEPT ![self] = v]
    BY <1>0, <1>5 DEF DonateCompare, DonateInv
  <2> HIDE DEF v
  <2> QED BY <1>0, <1>2, <2>1, <2>5, <2>6, <2>7 DEF Walking
<1>6. CASE DonateRaise(self)
  <2>1. pc[self] = "raise" /\ panic = "none" /\ Sys!At(self, "run")
    BY <1>0, <1>6 DEF DonateRaise, SysRoutine
  <2>2. w.from \in Thread /\ w.lock \in Lock /\ w.depth < MaxDepth
    BY <1>0, <2>1 DEF WalksAt, Donating, Walking
  <2>3. CASE w.to = NULL
    <3>1. panic' = "null_holder" /\ UNCHANGED << priority, pc >>
      BY <1>6, <2>3 DEF DonateRaise
    <3>2. panic' \in Panic \ {"list_front"}
      BY <3>1 DEF Panic
    <3> QED BY <3>1, <3>2, <2>1, <1>6, FaultStep DEF DonateRaise
  <2>4. CASE w.to # NULL
    <3>1. /\ priority' = [priority EXCEPT ![w.to] = w.pri] /\ Goto(self, "hop")
          /\ UNCHANGED << schedVars, clockVars, semaVars, target, held, panic,
                          original_priority, wait_lock, donations, walk >>
      BY <1>6, <2>4 DEF DonateRaise, donateVars
    <3>2. w.to \in Client /\ w.pri \in Priority
      BY <1>0, <2>4 DEF Walk
    <3>3. walk' = [walk EXCEPT ![self] = w]
      BY <1>0, <3>1 DEF DonateInv
    <3>4. WalksAt("hop", w)
      BY <2>2 DEF WalksAt
    <3>5. DonateInv' /\ Unwaited /\ SysPc' = SysPc /\ SysPanic' = SysPanic
      BY <1>0, <1>2, <2>1, <3>1, <3>3, <3>4 DEF Walking
    <3>6. Sys!Next
      BY <2>1, <3>1, <3>2, <3>5, SysWrite
    <3> QED BY <3>5, <3>6
  <2> QED BY <2>3, <2>4
<1>7. CASE DonateHop(self)
  <2> DEFINE h == holder[w.lock]
             v == [NoWalk EXCEPT !.from = h, !.lock = wait_lock[h], !.depth = w.depth + 1]
  <2>1. pc[self] = "hop" /\ panic = "none"
    BY <1>0, <1>7 DEF DonateHop
  <2>2. w.from \in Thread /\ w.lock \in Lock /\ w.depth < MaxDepth
    BY <1>0, <2>1 DEF WalksAt, Donating, Walking
  <2>3. CASE h = NULL
    <3>1. panic' = "null_holder" /\ UNCHANGED << walk, pc >>
      BY <1>7, <2>3 DEF DonateHop
    <3>2. panic' \in Panic \ {"list_front"}
      BY <3>1 DEF Panic
    <3> QED BY <3>1, <3>2, <2>1, <1>7, FaultStep DEF DonateHop, donateVars
  <2>4. CASE h # NULL
    <3>1. /\ walk' = [walk EXCEPT ![self] = v] /\ Goto(self, "donate")
          /\ UNCHANGED << schedVars, clockVars, semaVars, target, held, panic,
                          original_priority, wait_lock, donations, priority >>
      BY <1>7, <2>4 DEF DonateHop
    <3>2. h \in Thread /\ wait_lock[h] \in Lock \cup {NULL}
      BY <1>0, <2>2, <2>4
    <3>3. w.depth + 1 \in 0 .. MaxDepth
      BY <1>0, <2>2, SynchAssumption DEF Walk, SynchAssumption
    <3> HIDE DEF h
    <3>4. v \in Walk /\ v.from = h
      BY <3>2, <3>3, NoWalkIsWalk DEF Walk, NoWalk
    <3>5. WalksAt("donate", v)
      BY <3>2, <3>4 DEF WalksAt, Walking
    <3> HIDE DEF v
    <3> QED BY <1>0, <1>2, <2>1, <3>1, <3>4, <3>5 DEF Walking
  <2> QED BY <2>3, <2>4
<1> QED
  BY <1>3, <1>4, <1>5, <1>6, <1>7 DEF DonateStep

(* The running thread writes its own priority, on the way to m. *)
LEMMA OwnWrite ==
  ASSUME SysP!IInv, status \in [Thread -> Live], pc \in [Thread -> PC],
         NEW self \in Client, Sys!At(self, "run"), pc[self] \notin SysRoutine,
         NEW m \in PC, m \notin {"front", "sleep"}, Goto(self, m),
         NEW p \in Priority, priority' = [priority EXCEPT ![self] = p],
         UNCHANGED << schedVars, clockVars >>, SysPanic' = SysPanic
  PROVE  Sys!Next
<1>0. self \in Thread /\ self # Idle
  BY DEF Client
<1>1. CASE m # "preempt"
  <2>1. SysPc' = SysPc
    BY <1>0, <1>1, SysGoto DEF SysRoutine
  <2> QED BY <2>1, SysWrite
<1>2. CASE m = "preempt"
  <2>1. Sys!Goto(self, "preempt")
    BY <1>0, <1>2, SysGoto DEF SysRoutine
  <2>2. Sys!ThreadSetPriority(self, p)
    BY <1>0, <2>1 DEF Sys!ThreadSetPriority, schedVars, clockVars,
       Sys!schedVars, Sys!sleepVars, Sys!intrVars
  <2> QED BY <1>0, <2>2 DEF Sys!Next, Sys!ThreadStep, Priority, Sched!Priority, Sys!Priority
<1> QED
  BY <1>1, <1>2

(* lock_release, thread_set_priority and refresh_priority write nobody's   *)
(* priority but that of the running thread.                                *)
LEMMA OwnPrioritySteps ==
  ASSUME LInv, SysP!IInv, DonateInv, status \in [Thread -> Live], NEW self \in Client,
         SettingStep(self)
  PROVE  [Sys!Next]_(Sys!vars) /\ DonateInv' /\ Unwaited
<1> DEFINE w == walk[self]
<1>0. /\ self \in Thread /\ pc \in [Thread -> PC] /\ priority \in [Thread -> Priority]
      /\ target \in [Thread -> AnySema \cup {NULL}]
      /\ \A l : At(self, l) => /\ pc[self] = l /\ SysPanic = "none" /\ panic = "none"
                               /\ l \notin SysRoutine => Sys!At(self, "run")
      /\ w \in Walk /\ WalksAt(pc[self], w)
      /\ wait_lock \in [Thread -> Lock \cup {NULL}] /\ donations \in [Thread -> Seq(Thread)]
      /\ original_priority \in [Thread -> Priority] /\ panic \in Panic
  <2>1. self \in Thread
    BY DEF Client
  <2> QED BY <2>1, SysAt, SystemFacts DEF LInv, LockTypes, DonateInv, SysPanic
<1> DEFINE Own == {"run", "rebase", "fallback", "refresh", "adopt"}
           Next0 == {"rebase", "fallback", "refresh", "adopt", "preempt", "unhold"}
(* A step of the thread to m that leaves the wait lists and the clock alone. *)
<1>1. ASSUME NEW m \in Next0, Goto(self, m), pc[self] \in Own,
             NEW v \in Walk, walk' = [walk EXCEPT ![self] = v], WalksAt(m, v),
             NEW p \in Priority, priority' = [priority EXCEPT ![self] = p],
             UNCHANGED << schedVars, clockVars, semaVars, held, panic, wait_lock >>,
             \A t \in Thread : t # self => target'[t] = target[t],
             original_priority' \in [Thread -> Priority],
             donations' \in [Thread -> Seq(Thread)], Sys!At(self, "run")
      PROVE  [Sys!Next]_(Sys!vars) /\ DonateInv' /\ Unwaited
  <2>1. /\ m \in PC /\ m \notin {"front", "sleep"} /\ pc[self] \notin SysRoutine
        /\ m # "woken" /\ pc[self] # "woken"
    BY <1>1 DEF PC, SysRoutine
  <2>2. pc'[self] = m /\ \A t \in Thread : t # self => pc'[t] = pc[t]
    BY <1>0, <1>1, <2>1, SysGoto
  <2>3. DonateInv'
    BY <1>0, <1>1, <2>2, WalkStep
  <2>4. Unwaited
    BY <1>0, <1>1, <2>1, UnwaitedMove
  <2>5. SysPanic' = SysPanic
    BY <1>1 DEF SysPanic
  <2>6. Sys!Next
    BY <1>0, <1>1, <2>1, <2>5, OwnWrite
  <2> QED BY <2>3, <2>4, <2>6
<1>2. UNCHANGED priority => priority' = [priority EXCEPT ![self] = priority[self]]
  BY <1>0
<1>3. UNCHANGED walk => walk' = [walk EXCEPT ![self] = w]
  BY <1>0 DEF DonateInv
<1>4. \A l \in {"rebase", "fallback", "refresh", "preempt", "unhold"}, v \in Walk : WalksAt(l, v)
  BY DEF WalksAt, Donating, Walking
<1>5. Refreshed(self) \in {"preempt", "unhold"}
  BY DEF Refreshed
<1>6. CASE \E l \in Lock : LockRelease(self, l)
  <2>1. PICK l \in Lock : LockRelease(self, l)
    BY <1>6
  <2>2. pc[self] = "run" /\ panic = "none" /\ Sys!At(self, "run")
    <3>1. At(self, "run")
      BY <2>1 DEF LockRelease
    <3>3. "run" \notin SysRoutine
      BY DEF SysRoutine
    <3> QED BY <1>0, <3>1, <3>3
  <2>3. CASE holder[l] = self
    <3>1. /\ donations' = [donations EXCEPT ![self] = Kept(@, {d \in Thread : wait_lock[d] # l})]
          /\ Goto(self, "fallback") /\ target' = [target EXCEPT ![self] = l]
          /\ UNCHANGED << schedVars, clockVars, semaVars, priority, original_priority,
                          wait_lock, walk, held, panic >>
      BY <2>1, <2>3 DEF LockRelease
    <3>2. donations' \in [Thread -> Seq(Thread)]
      BY <1>0, <3>1, KeptProperties
    <3>3. \A t \in Thread : t # self => target'[t] = target[t]
      BY <1>0, <3>1
    <3>4. priority[self] \in Priority /\ WalksAt("fallback", w)
      BY <1>0, <1>4
    <3> QED BY <1>0, <1>1, <1>2, <1>3, <2>2, <3>1, <3>2, <3>3, <3>4
  <2>4. CASE holder[l] # self
    <3>1. panic' = "not_holder" /\ UNCHANGED << donations, pc >>
      BY <2>1, <2>4 DEF LockRelease
    <3>2. panic' \in Panic \ {"list_front"}
      BY <3>1 DEF Panic
    <3>3. \A t \in Thread : pc[t] = "woken" => target'[t] = target[t]
      BY <1>0, <2>1, <2>2 DEF LockRelease
    <3> QED BY <2>1, <2>2, <3>1, <3>2, <3>3, FaultStep DEF LockRelease, donateVars
  <2> QED BY <2>3, <2>4
<1>7. ASSUME NEW p \in SetPriority, ThreadSetPriority(self, p)
      PROVE  [Sys!Next]_(Sys!vars) /\ DonateInv' /\ Unwaited
  <2> DEFINE v == [w EXCEPT !.pri = p]
  <2>1. /\ pc[self] = "run" /\ Sys!At(self, "run") /\ Goto(self, "rebase")
        /\ priority' = [priority EXCEPT ![self] = p]
        /\ UNCHANGED << schedVars, clockVars, semaVars, original_priority, wait_lock, donations,
                        target, held, panic >>
    <3>1. At(self, "run")
      BY <1>7 DEF ThreadSetPriority
    <3>2. /\ Goto(self, "rebase")
          /\ priority' = [priority EXCEPT ![self] = p]
          /\ UNCHANGED << schedVars, clockVars, semaVars, original_priority, wait_lock, donations,
                          target, held, panic >>
      BY <1>7 DEF ThreadSetPriority
    <3>3. "run" \notin SysRoutine
      BY DEF SysRoutine
    <3> QED BY <1>0, <3>1, <3>2, <3>3
  <2>2. p \in Priority
    BY SynchAssumption DEF SynchAssumption, Priority, Sched!Priority
  <2>3. v \in Walk
    BY <1>0, <2>2 DEF Walk
  <2>4. walk' = [walk EXCEPT ![self] = v]
    BY <1>0, <1>7 DEF ThreadSetPriority, DonateInv
  <2>5. WalksAt("rebase", v)
    BY <1>4, <2>3
  <2> HIDE DEF v
  <2> QED BY <1>0, <1>1, <2>1, <2>2, <2>3, <2>4, <2>5
<1>8. CASE Rebase(self)
  <2>1. /\ pc[self] = "rebase" /\ Sys!At(self, "run") /\ Goto(self, "fallback")
        /\ original_priority' = [original_priority EXCEPT ![self] = w.pri]
        /\ walk' = [walk EXCEPT ![self] = NoWalk]
        /\ UNCHANGED << schedVars, clockVars, semaVars, priority, wait_lock, donations,
                        target, held, panic >>
    <3>1. At(self, "rebase")
      BY <1>8 DEF Rebase
    <3>2. /\ Goto(self, "fallback")
          /\ original_priority' = [original_priority EXCEPT ![self] = w.pri]
          /\ walk' = [walk EXCEPT ![self] = NoWalk]
          /\ UNCHANGED << schedVars, clockVars, semaVars, priority, wait_lock, donations,
                          target, held, panic >>
      BY <1>8 DEF Rebase
    <3>3. "rebase" \notin SysRoutine
      BY DEF SysRoutine
    <3> QED BY <1>0, <3>1, <3>2, <3>3
  <2>2. w.pri \in Priority
    BY <1>0 DEF Walk
  <2>3. original_priority' \in [Thread -> Priority]
    BY <1>0, <2>1, <2>2
  <2>4. priority[self] \in Priority /\ WalksAt("fallback", NoWalk)
    BY <1>0, <1>4, NoWalkIsWalk
  <2> QED BY <1>0, <1>1, <1>2, <2>1, <2>3, <2>4, NoWalkIsWalk
<1>9. CASE FallBack(self)
  <2>1. /\ pc[self] = "fallback" /\ Sys!At(self, "run") /\ Goto(self, "refresh")
        /\ priority' = [priority EXCEPT ![self] = original_priority[self]]
        /\ UNCHANGED << schedVars, clockVars, semaVars, original_priority, wait_lock, donations,
                        walk, target, held, panic >>
    <3>1. At(self, "fallback")
      BY <1>9 DEF FallBack
    <3>2. /\ Goto(self, "refresh")
          /\ priority' = [priority EXCEPT ![self] = original_priority[self]]
          /\ UNCHANGED << schedVars, clockVars, semaVars, original_priority, wait_lock, donations,
                          walk, target, held, panic >>
      BY <1>9 DEF FallBack, donateVars
    <3>3. "fallback" \notin SysRoutine
      BY DEF SysRoutine
    <3> QED BY <1>0, <3>1, <3>2, <3>3
  <2>2. original_priority[self] \in Priority /\ WalksAt("refresh", w)
    BY <1>0, <1>4
  <2> QED BY <1>0, <1>1, <1>3, <2>1, <2>2
<1>10. CASE RefreshPriority(self)
  <2> DEFINE d == Head(donations[self])
             v == [w EXCEPT !.from = d]
             lower == donations[self] # << >> /\ priority[self] < priority[d]
  <2>1. /\ pc[self] = "refresh" /\ Sys!At(self, "run")
        /\ UNCHANGED << schedVars, clockVars, semaVars, priority, original_priority, wait_lock,
                        donations, target, held, panic >>
    <3>1. At(self, "refresh")
      BY <1>10 DEF RefreshPriority
    <3>2. /\ UNCHANGED << schedVars, clockVars, semaVars, priority, original_priority, wait_lock,
                          donations, target, held, panic >>
      BY <1>10 DEF RefreshPriority
    <3>3. "refresh" \notin SysRoutine
      BY DEF SysRoutine
    <3> QED BY <1>0, <3>1, <3>2, <3>3
  <2>2. priority[self] \in Priority
    BY <1>0
  <2>3. CASE lower
    <3>1. d \in Thread
      BY <1>0, <2>3
    <3>2. v \in Walk /\ v.from = d
      BY <1>0, <3>1 DEF Walk
    <3>3. walk' = [walk EXCEPT ![self] = v] /\ Goto(self, "adopt")
      BY <1>0, <1>10, <2>3 DEF RefreshPriority, DonateInv
    <3>4. WalksAt("adopt", v)
      BY <3>1, <3>2 DEF WalksAt, Walking
    <3> HIDE DEF v
    <3> QED BY <1>0, <1>1, <1>2, <2>1, <2>2, <3>2, <3>3, <3>4
  <2>4. CASE ~ lower
    <3>1. UNCHANGED walk /\ Goto(self, Refreshed(self))
      BY <1>10, <2>4 DEF RefreshPriority
    <3>2. WalksAt(Refreshed(self), w) /\ Refreshed(self) \in Next0
      BY <1>0, <1>4, <1>5
    <3> QED BY <1>0, <1>1, <1>2, <1>3, <2>1, <2>2, <3>1, <3>2
  <2> QED BY <2>3, <2>4
<1>11. CASE AdoptPriority(self)
  <2>1. /\ pc[self] = "adopt" /\ Sys!At(self, "run") /\ Goto(self, Refreshed(self))
        /\ priority' = [priority EXCEPT ![self] = priority[w.from]]
        /\ walk' = [walk EXCEPT ![self] = NoWalk]
        /\ UNCHANGED << schedVars, clockVars, semaVars, original_priority, wait_lock, donations,
                        target, held, panic >>
    <3>1. At(self, "adopt")
      BY <1>11 DEF AdoptPriority
    <3>2. /\ Goto(self, Refreshed(self))
          /\ priority' = [priority EXCEPT ![self] = priority[w.from]]
          /\ walk' = [walk EXCEPT ![self] = NoWalk]
          /\ UNCHANGED << schedVars, clockVars, semaVars, original_priority, wait_lock, donations,
                          target, held, panic >>
      BY <1>11 DEF AdoptPriority
    <3>3. "adopt" \notin SysRoutine
      BY DEF SysRoutine
    <3> QED BY <1>0, <3>1, <3>2, <3>3
  <2>2. w.from \in Thread
    BY <1>0, <2>1 DEF WalksAt, Donating
  <2>3. priority[w.from] \in Priority /\ Refreshed(self) \in Next0
    BY <1>0, <1>5, <2>2
  <2>4. WalksAt(Refreshed(self), NoWalk)
    BY <1>4, <1>5, NoWalkIsWalk
  <2> QED BY <1>0, <1>1, <2>1, <2>3, <2>4, NoWalkIsWalk
<1> QED
  BY <1>6, <1>7, <1>8, <1>9, <1>10, <1>11 DEF SettingStep

-------------------------------------------------------------------------------
(* What schedule() does to the set of blocked threads. *)
LEMMA YieldEffect ==
  ASSUME SysP!IInv, destruction_req = << >>,
         NEW st \in [Thread -> Live], st[current] # "blocked",
         NEW rl \in Seq(Thread), \A t \in Range(rl) : st[t] = "ready" /\ t # Idle,
         Sched!YieldFrom(st, rl)
  PROVE  /\ status' \in [Thread -> Live] /\ destruction_req' = << >>
         /\ \A t \in Client : status'[t] = "blocked" <=> st[t] = "blocked"
<1> DEFINE q == IF current = Idle THEN rl ELSE Sched!Readied(rl, current)
           given == [t \in Thread |-> IF t = current THEN "ready"
                                      ELSE IF t \in Sched!Range(destruction_req) THEN "free"
                                      ELSE st[t]]
           next == IF q = << >> THEN Idle ELSE Head(q)
<1>1. current \in Thread /\ Idle \in Thread
  BY SystemFacts
<1>2. q \in Seq(Thread) /\ Range(q) \subseteq Range(rl) \cup {current}
  BY <1>1, SameScheduler, InsertDescendingProperties
<1>3. given = [t \in Thread |-> IF t = current THEN "ready" ELSE st[t]]
  <2>1. Range(<< >>) = {}
    BY DEF Range
  <2> QED BY <2>1, SameLists
<1>4. /\ status' = [given EXCEPT ![next] = "running"]
      /\ given[current] = "ready"
      /\ destruction_req' = << >>
  <2>1. Sched!Schedule(given, q, << >>)
    BY DEF Sched!YieldFrom, Sched!DoSchedule
  <2>2. given[current] = "ready"
    BY <1>1, <1>3
  <2> HIDE DEF given, q
  <2> QED BY <2>1, <2>2 DEF Sched!Schedule
<1> HIDE DEF given, q
<1>5. next \in Thread /\ (next # Idle => given[next] # "blocked")
  <2>1. CASE q = << >>
    BY <2>1, <1>1
  <2>2. CASE q # << >>
    <3>1. Head(q) \in Thread /\ Head(q) \in Range(q)
      BY <1>2, <2>2, TailProperties
    <3>2. next = Head(q)
      BY <2>2
    <3> QED BY <3>1, <3>2, <1>2, <1>3
  <2> QED BY <2>1, <2>2
<1> HIDE DEF next
<1>6. given \in [Thread -> Live] /\ \A t \in Thread : given[t] = "blocked" <=> st[t] = "blocked"
  BY <1>1, <1>3 DEF Live
<1> QED
  BY <1>4, <1>5, <1>6 DEF Live, Client

LEMMA PreemptEffect ==
  ASSUME SysP!IInv, destruction_req = << >>,
         NEW st \in [Thread -> Live], st[current] # "blocked",
         NEW rl \in Seq(Thread), \A t \in Range(rl) : st[t] = "ready" /\ t # Idle,
         Sched!PreemptOrContinue(st, rl)
  PROVE  /\ status' \in [Thread -> Live] /\ destruction_req' = << >>
         /\ \A t \in Client : status'[t] = "blocked" <=> st[t] = "blocked"
  BY YieldEffect DEF Sched!PreemptOrContinue

LEMMA BlockEffect ==
  ASSUME SysP!IInv, status \in [Thread -> Live], destruction_req = << >>,
         Sched!Block(status, ready_list)
  PROVE  /\ status' \in [Thread -> Live] /\ destruction_req' = << >>
         /\ \A t \in Client : status'[t] = "blocked" <=> status[t] = "blocked" \/ t = current
<1> DEFINE given == [status EXCEPT ![current] = "blocked"]
           next == IF ready_list = << >> THEN Idle ELSE Head(ready_list)
<1>1. /\ current \in Thread /\ Idle \in Thread /\ ready_list \in Seq(Thread)
      /\ current \notin Range(ready_list) /\ Idle \notin Range(ready_list)
      /\ Range(ready_list) \subseteq Client
      /\ \A t \in Range(ready_list) : status[t] = "ready"
  BY SystemFacts
<1>2. given[current] = "blocked" /\ given \in [Thread -> Live]
      /\ \A t \in Thread : t # current => given[t] = status[t]
  BY <1>1 DEF Live
<1>3. status' = [given EXCEPT ![next] = "running"] /\ destruction_req' = << >>
  <2>1. Sched!Schedule(given, ready_list, destruction_req)
    BY DEF Sched!Block
  <2> HIDE DEF given
  <2> QED BY <2>1, <1>2 DEF Sched!Schedule
<1> HIDE DEF given
<1>4. (next \in Thread /\ next \notin {current}) \/ next = Idle
  <2>1. CASE ready_list = << >>
    BY <2>1
  <2>2. CASE ready_list # << >>
    <3>1. Head(ready_list) \in Range(ready_list)
      BY <1>1, <2>2, TailProperties
    <3> QED BY <3>1, <2>2, <1>1 DEF Client
  <2> QED BY <2>1, <2>2
<1>5. next # Idle => status[next] = "ready" /\ next \in Thread /\ next # current
  <2>1. CASE ready_list = << >>
    BY <2>1
  <2>2. CASE ready_list # << >>
    <3>1. Head(ready_list) \in Range(ready_list)
      BY <1>1, <2>2, TailProperties
    <3> QED BY <3>1, <2>2, <1>1 DEF Client
  <2> QED BY <2>1, <2>2
<1> HIDE DEF next
<1>6. \A t \in Client : status'[t] = "blocked" <=> status[t] = "blocked" \/ t = current
  <2> SUFFICES ASSUME NEW t \in Client
               PROVE  status'[t] = "blocked" <=> status[t] = "blocked" \/ t = current
    OBVIOUS
  <2>1. t \in Thread /\ t # Idle
    BY DEF Client
  <2>2. CASE t = next
    BY <2>1, <2>2, <1>2, <1>3, <1>5
  <2>3. CASE t # next
    BY <2>1, <2>3, <1>2, <1>3
  <2> QED BY <2>2, <2>3
<1>7. status' \in [Thread -> Live]
  BY <1>2, <1>3 DEF Live
<1> QED
  BY <1>3, <1>6, <1>7

-------------------------------------------------------------------------------
(***************************************************************************)
(* The wait lists.  WaitInv says where every blocked thread is linked; the *)
(* invariant of ThreadsProofs, what the run queue and the sleep queue hold. *)
(***************************************************************************)
WaitInv ==
  /\ waiters \in [AnySema -> Seq(Thread)]
  /\ \A s \in AnySema :
       /\ NoDuplicates(waiters[s])
       /\ \A t \in Range(waiters[s]) : /\ t \in Client /\ status[t] = "blocked"
                                       /\ pc[t] = "woken" /\ target[t] = s
  /\ \A t \in Client : pc[t] = "woken" /\ status[t] = "blocked" => t \in Range(waiters[target[t]])
  /\ \A t \in Client : status[t] = "blocked" => pc[t] = "woken" \/ t \in Range(sleep_list)
  /\ \A t \in Range(sleep_list) : pc[t] # "woken"
  /\ pc[Idle] # "woken"
  /\ status \in [Thread -> Live] /\ destruction_req = << >>

(* The threads that sema_up has unblocked and that have not run since. *)
OnTheWay(s) == { t \in Thread : pc[t] = "woken" /\ target[t] = s /\ status[t] # "blocked" }

Enough(s) == waiters[s] # << >> => value[s] =< Cardinality(OnTheWay(s))

LEMMA LostWakeup == NoLostWakeup <=> \A s \in AnySema : Enough(s)
  BY DEF NoLostWakeup, Enough, OnTheWay

LEMMA OnTheWayIsFinite ==
  \A s : IsFiniteSet(OnTheWay(s)) /\ Cardinality(OnTheWay(s)) \in Nat
<1> SUFFICES ASSUME NEW s PROVE IsFiniteSet(OnTheWay(s)) /\ Cardinality(OnTheWay(s)) \in Nat
  OBVIOUS
<1>1. OnTheWay(s) \in SUBSET Thread /\ IsFiniteSet(Thread)
  BY SynchAssumption DEF OnTheWay, SynchAssumption
<1> QED
  BY <1>1, FS_Subset, FS_CardinalityType

WaitsAreSound == WaitInv /\ NoLostWakeup

(* Steps that block nobody, unblock nobody and count nothing up. *)
LEMMA StillLinked ==
  ASSUME WaitInv, waiters' = waiters,
         status' \in [Thread -> Live], destruction_req' = << >>,
         \A t \in Client : status'[t] = "blocked" <=> status[t] = "blocked",
         \A t \in Thread : /\ pc'[t] = "woken" <=> pc[t] = "woken"
                           /\ pc[t] = "woken" => target'[t] = target[t],
         sleep_list' = sleep_list, \A t \in Range(sleep_list) : t \in Thread
  PROVE  WaitInv' /\ \A s \in AnySema : OnTheWay(s)' = OnTheWay(s)
<1>1. Client \subseteq Thread /\ Idle \in Thread
  BY SynchAssumption DEF Client, SynchAssumption
<1>2. WaitInv'
  BY <1>1 DEF WaitInv
<1>3. \A t \in Thread : pc[t] = "woken" => t \in Client
  BY DEF WaitInv, Client
<1>4. \A s \in AnySema : OnTheWay(s)' = OnTheWay(s)
  BY <1>3 DEF OnTheWay
<1> QED
  BY <1>2, <1>4

LEMMA StillWaiting ==
  ASSUME WaitsAreSound, waiters' = waiters,
         status' \in [Thread -> Live], destruction_req' = << >>,
         \A t \in Client : status'[t] = "blocked" <=> status[t] = "blocked",
         \A t \in Thread : /\ pc'[t] = "woken" <=> pc[t] = "woken"
                           /\ pc[t] = "woken" => target'[t] = target[t],
         sleep_list' = sleep_list, \A t \in Range(sleep_list) : t \in Thread,
         value \in [AnySema -> Nat],
         \A s \in AnySema : value'[s] \in Nat /\ value'[s] =< value[s]
  PROVE  WaitsAreSound'
<1>1. WaitInv' /\ \A s \in AnySema : OnTheWay(s)' = OnTheWay(s)
  BY StillLinked DEF WaitsAreSound
<1>2. ASSUME NEW s \in AnySema PROVE Enough(s)'
  <2>1. Enough(s)
    BY LostWakeup DEF WaitsAreSound
  <2> QED BY <1>1, <2>1, OnTheWayIsFinite DEF Enough
<1>3. NoLostWakeup'
  BY <1>2, LostWakeup DEF NoLostWakeup, Enough, OnTheWay
<1> QED
  BY <1>1, <1>3 DEF WaitsAreSound

-------------------------------------------------------------------------------
(* sema_down: the running thread takes the semaphore or queues for it. *)

(* Steps that write no priority, and after which no other thread donates. *)
LEMMA NoDonation ==
  ASSUME DonateInv, UNCHANGED << priority, donateVars >>, panic' \in Panic,
         held'[Idle] = held[Idle],
         \A t \in Thread : pc'[t] \in Donating => pc'[t] = pc[t]
  PROVE  DonateInv'
  BY DEF DonateInv, donateVars, WalksAt, Donating, Walking

(* In every wait list, the running thread counts as on its way, or not at all. *)
LEMMA LeavesTheWay ==
  ASSUME WaitsAreSound, NEW self \in Client, status[self] = "running",
         value \in [AnySema -> Nat], waiters' \in [AnySema -> Seq(Thread)],
         NEW s \in AnySema, pc[self] = "woken" => target[self] = s,
         \A x \in AnySema : OnTheWay(x)' = OnTheWay(x) \ {self},
         \A x \in AnySema : x # s => waiters'[x] = waiters[x] /\ value'[x] = value[x],
         \/ value[s] > 0 /\ value'[s] = value[s] - 1 /\ waiters'[s] = waiters[s]
         \/ value'[s] = 0
  PROVE  NoLostWakeup'
<1> SUFFICES ASSUME NEW x \in AnySema PROVE Enough(x)'
  BY LostWakeup DEF NoLostWakeup, Enough, OnTheWay
<1>1. Enough(x) /\ value[x] \in Nat
  BY LostWakeup DEF WaitsAreSound
<1>2. /\ IsFiniteSet(OnTheWay(x)) /\ Cardinality(OnTheWay(x)) \in Nat
      /\ Cardinality(OnTheWay(x) \ {self}) =
           IF self \in OnTheWay(x) THEN Cardinality(OnTheWay(x)) - 1
           ELSE Cardinality(OnTheWay(x))
      /\ Cardinality(OnTheWay(x) \ {self}) \in Nat
  BY OnTheWayIsFinite, FS_RemoveElement, FS_CardinalityType
<1>3. CASE x # s
  <2>1. self \notin OnTheWay(x)
    BY <1>3 DEF OnTheWay
  <2> QED BY <2>1, <1>1, <1>2, <1>3 DEF Enough
<1>4. CASE x = s
  <2> DEFINE c == Cardinality(OnTheWay(x))
             d == Cardinality(OnTheWay(x) \ {self})
  <2>1. c \in Nat /\ d \in Nat /\ (d = c - 1 \/ d = c) /\ d = Cardinality(OnTheWay(x))'
    BY <1>2
  <2>2. waiters'[x] # << >> => value'[x] =< d
    <3>1. CASE value[s] > 0 /\ value'[s] = value[s] - 1 /\ waiters'[s] = waiters[s]
      <4>1. waiters[x] # << >> => value[x] =< c
        BY <1>1 DEF Enough
      <4> HIDE DEF c, d
      <4> QED BY <4>1, <3>1, <2>1, <1>1, <1>4
    <3>2. CASE value'[s] = 0
      <4> HIDE DEF c, d
      <4> QED BY <3>2, <2>1, <1>4
    <3> QED BY <3>1, <3>2
  <2> HIDE DEF d
  <2> QED BY <2>1, <2>2 DEF Enough
<1> QED
  BY <1>3, <1>4

LEMMA DownSteps ==
  ASSUME LInv, SysP!IInv, DonateInv, WaitsAreSound,
         NEW self \in Client, NEW s \in AnySema, NEW l \in {"run", "down", "woken"},
         At(self, l), l = "woken" => target[self] = s,
         Down(self, s), UNCHANGED << clockVars, priority, panic, donateVars, holder >>
  PROVE  [Sys!Next]_(Sys!vars) /\ DonateInv' /\ WaitsAreSound'
<1> USE DEF PC
<1>0. /\ self \in Thread /\ self # Idle /\ self = current /\ pc[self] = l
      /\ panic = "none" /\ Sys!At(self, "run") /\ pc \in [Thread -> PC]
      /\ value \in [AnySema -> Nat] /\ held \in [Thread -> SUBSET Lock]
      /\ target \in [Thread -> AnySema \cup {NULL}]
      /\ waiters \in [AnySema -> Seq(Thread)] /\ status[self] = "running"
      /\ status \in [Thread -> Live] /\ destruction_req = << >>
      /\ SysPanic' = SysPanic /\ Idle \in Thread
      /\ self \notin Range(sleep_list)
  <2>1. self \in Thread /\ self # Idle
    BY DEF Client
  <2>2. self = current /\ pc[self] = l /\ panic = "none" /\ Sys!At(self, "run")
    BY <2>1, SysAt DEF SysRoutine
  <2>3. status[self] = "running" /\ Idle \in Thread /\ self \notin Range(sleep_list)
    BY <2>1, <2>2, SystemFacts
  <2> QED BY <2>1, <2>2, <2>3 DEF LInv, LockTypes, WaitsAreSound, WaitInv, SysPanic
<1>1. CASE value[s] > 0
  <2>1. PICK m \in {"run", "acquired"} :
          /\ Goto(self, m) /\ value' = [value EXCEPT ![s] = @ - 1]
          /\ UNCHANGED << waiters, schedVars >>
          /\ held' \in {held, [held EXCEPT ![self] = @ \cup {s}]}
          /\ \A t \in Thread : t # self => target'[t] = target[t]
    <3>1. /\ Goto(self, IF s \in Lock THEN "acquired" ELSE "run")
          /\ value' = [value EXCEPT ![s] = @ - 1] /\ UNCHANGED << waiters, schedVars >>
          /\ held' = IF s \in Lock THEN [held EXCEPT ![self] = @ \cup {s}] ELSE held
          /\ target' = [target EXCEPT ![self] = IF s \in Lock THEN s ELSE NULL]
      BY <1>0, <1>1 DEF Down
    <3>2. \A t \in Thread : t # self => target'[t] = target[t]
      BY <3>1, <1>0
    <3> QED BY <3>1, <3>2
  <2>2. /\ pc' \in [Thread -> PC] /\ pc'[self] = m /\ SysPc' = SysPc
        /\ \A t \in Thread : t # self => pc'[t] = pc[t]
    BY <1>0, <2>1, SysGoto DEF SysRoutine
  <2>3. UNCHANGED Sys!vars
    BY <2>1, <2>2, <1>0, SysStutter
  <2>4. DonateInv'
    <3>1. held'[Idle] = held[Idle]
      BY <1>0, <2>1
    <3>2. \A t \in Thread : pc'[t] \in Donating => pc'[t] = pc[t]
      BY <2>2 DEF Donating, Walking
    <3>3. panic' \in Panic
      BY <1>0 DEF Panic
    <3> QED BY <3>1, <3>2, <3>3, NoDonation
  <2>5. WaitInv'
    <3>1. /\ status' = status /\ destruction_req' = destruction_req /\ waiters' = waiters
          /\ sleep_list' = sleep_list
      BY <2>1 DEF schedVars, clockVars
    <3>2. /\ \A t \in Thread : t # self => pc'[t] = pc[t] /\ target'[t] = target[t]
          /\ pc'[self] # "woken"
      BY <2>1, <2>2
    <3>3. \A x \in AnySema : self \notin Range(waiters[x])
      BY <1>0 DEF WaitsAreSound, WaitInv
    <3>4. ASSUME NEW x \in AnySema
          PROVE  /\ NoDuplicates(waiters'[x])
                 /\ \A t \in Range(waiters'[x]) :
                      /\ t \in Client /\ status'[t] = "blocked"
                      /\ pc'[t] = "woken" /\ target'[t] = x
      BY <3>1, <3>2, <3>3 DEF WaitsAreSound, WaitInv, Client
    <3>5. \A t \in Client : pc'[t] = "woken" /\ status'[t] = "blocked" =>
             t \in Range(waiters'[target'[t]])
      BY <3>1, <3>2 DEF WaitsAreSound, WaitInv, Client
    <3>6. \A t \in Client : status'[t] = "blocked" => pc'[t] = "woken" \/ t \in Range(sleep_list')
      BY <1>0, <3>1, <3>2 DEF WaitsAreSound, WaitInv, Client, Live
    <3>7. \A t \in Range(sleep_list') : pc'[t] # "woken"
      <4>1. Range(sleep_list) \subseteq Thread
        BY SystemFacts DEF Client
      <4> QED BY <4>1, <3>1, <3>2 DEF WaitsAreSound, WaitInv
    <3>8. pc'[Idle] # "woken"
      BY <1>0, <3>2 DEF WaitsAreSound, WaitInv
    <3> QED BY <1>0, <3>1, <3>4, <3>5, <3>6, <3>7, <3>8 DEF WaitInv
  <2>6. NoLostWakeup'
    <3>1. \A x \in AnySema : OnTheWay(x)' = OnTheWay(x) \ {self}
      BY <2>1, <2>2 DEF OnTheWay, schedVars
    <3>2. \A x \in AnySema : x # s => waiters'[x] = waiters[x] /\ value'[x] = value[x]
      BY <1>0, <2>1
    <3>3. waiters' \in [AnySema -> Seq(Thread)] /\ value'[s] = value[s] - 1
          /\ waiters'[s] = waiters[s]
      BY <1>0, <2>1
    <3> QED BY <1>0, <1>1, <3>1, <3>2, <3>3, LeavesTheWay
  <2> QED BY <2>3, <2>4, <2>5, <2>6 DEF WaitsAreSound
<1>2. CASE value[s] = 0
  <2> DEFINE q == InsertDescending(waiters[s], self, priority)
  <2>1. /\ Goto(self, "woken") /\ value' = value /\ held' = held
        /\ waiters' = [waiters EXCEPT ![s] = q]
        /\ target' = [target EXCEPT ![self] = s]
        /\ Sched!Block(status, ready_list)
    BY <1>0, <1>2 DEF Down
  <2>2. /\ pc' \in [Thread -> PC] /\ pc'[self] = "woken" /\ SysPc' = SysPc
        /\ \A t \in Thread : t # self => pc'[t] = pc[t]
    BY <1>0, <2>1, SysGoto DEF SysRoutine
  <2>3. Sys!Next
    <3>1. Sys!ThreadBlock(self)
      BY <1>0, <2>1, <2>2, SameScheduler
         DEF Sys!ThreadBlock, clockVars, Sys!sleepVars, Sys!intrVars
    <3> QED BY <1>0, <3>1 DEF Sys!Next, Sys!ThreadStep
  <2>4. DonateInv'
    <3>1. held'[Idle] = held[Idle] /\ panic' \in Panic
      BY <1>0, <2>1 DEF Panic
    <3>2. \A t \in Thread : pc'[t] \in Donating => pc'[t] = pc[t]
      BY <2>2 DEF Donating, Walking
    <3> QED BY <3>1, <3>2, NoDonation
  <2>5. /\ status' \in [Thread -> Live] /\ destruction_req' = << >>
        /\ \A t \in Client : status'[t] = "blocked" <=> status[t] = "blocked" \/ t = self
    BY <1>0, <2>1, BlockEffect
  <2>6. \A x \in AnySema : self \notin Range(waiters[x])
    BY <1>0 DEF WaitsAreSound, WaitInv
  <2>7. q \in Seq(Thread) /\ Range(q) = Range(waiters[s]) \cup {self} /\ NoDuplicates(q)
    BY <1>0, <2>6, InsertDescendingProperties DEF WaitsAreSound, WaitInv
  <2> HIDE DEF q
  <2>8. /\ waiters' \in [AnySema -> Seq(Thread)] /\ waiters'[s] = q
        /\ \A x \in AnySema : x # s => waiters'[x] = waiters[x]
        /\ \A t \in Thread : t # self => target'[t] = target[t]
        /\ target'[self] = s
    BY <1>0, <2>1, <2>7
  <2>9. WaitInv'
    <3>1. ASSUME NEW x \in AnySema
          PROVE  /\ NoDuplicates(waiters'[x])
                 /\ \A t \in Range(waiters'[x]) :
                      /\ t \in Client /\ status'[t] = "blocked"
                      /\ pc'[t] = "woken" /\ target'[t] = x
      <4>1. \A t \in Range(waiters[x]) : /\ t \in Client /\ t \in Thread /\ t # self
                                         /\ status[t] = "blocked" /\ pc[t] = "woken"
                                         /\ target[t] = x
        BY <2>6 DEF WaitsAreSound, WaitInv, Client
      <4>2. \A t \in Range(waiters[x]) : /\ t \in Client /\ status'[t] = "blocked"
                                         /\ pc'[t] = "woken" /\ target'[t] = x
        BY <4>1, <2>2, <2>5, <2>8
      <4>3. CASE x = s
        <5>1. NoDuplicates(waiters'[x]) /\ Range(waiters'[x]) = Range(waiters[x]) \cup {self}
          BY <4>3, <2>7, <2>8
        <5>2. status'[self] = "blocked" /\ pc'[self] = "woken" /\ target'[self] = x
          BY <4>3, <2>2, <2>5, <2>8
        <5> QED BY <4>2, <5>1, <5>2
      <4>4. CASE x # s
        <5>1. waiters'[x] = waiters[x] /\ NoDuplicates(waiters[x])
          BY <4>4, <2>8 DEF WaitsAreSound, WaitInv
        <5> QED BY <4>2, <5>1
      <4> QED BY <4>3, <4>4
    <3>2. ASSUME NEW t \in Client, pc'[t] = "woken", status'[t] = "blocked"
          PROVE  t \in Range(waiters'[target'[t]])
      <4>1. CASE t = self
        BY <4>1, <2>7, <2>8
      <4>2. CASE t # self
        <5>1. /\ t \in Range(waiters[target[t]]) /\ target'[t] = target[t]
              /\ target[t] \in AnySema
          BY <4>2, <3>2, <2>2, <2>5, <2>8 DEF WaitsAreSound, WaitInv, Client, LInv, TargetInv
        <5> QED BY <5>1, <2>7, <2>8
      <4> QED BY <4>1, <4>2
    <3>3. ASSUME NEW t \in Client, status'[t] = "blocked"
          PROVE  pc'[t] = "woken" \/ t \in Range(sleep_list')
      BY <3>3, <2>2, <2>5 DEF WaitsAreSound, WaitInv, Client, clockVars
    <3>4. \A t \in Range(sleep_list') : pc'[t] # "woken"
      <4>1. sleep_list' = sleep_list /\ Range(sleep_list) \subseteq Thread
        BY SystemFacts DEF clockVars, Client
      <4> QED BY <4>1, <1>0, <2>2 DEF WaitsAreSound, WaitInv
    <3>5. pc'[Idle] # "woken"
      BY <1>0, <2>2 DEF WaitsAreSound, WaitInv
    <3> QED BY <3>1, <3>2, <3>3, <3>4, <3>5, <2>5, <2>8 DEF WaitInv
  <2>10. NoLostWakeup'
    <3>1. \A x \in AnySema : OnTheWay(x)' = OnTheWay(x) \ {self}
      <4> SUFFICES ASSUME NEW x \in AnySema, NEW t \in Thread
                   PROVE  t \in OnTheWay(x)' <=> t \in OnTheWay(x) /\ t # self
        BY DEF OnTheWay
      <4>1. CASE t = self
        BY <4>1, <2>5 DEF OnTheWay
      <4>2. CASE t = Idle
        BY <4>2, <1>0, <2>2 DEF OnTheWay, WaitsAreSound, WaitInv
      <4>3. CASE t # self /\ t # Idle
        BY <4>3, <2>2, <2>5, <2>8 DEF OnTheWay, Client
      <4> QED BY <4>1, <4>2, <4>3
    <3>2. /\ \A x \in AnySema : x # s => waiters'[x] = waiters[x] /\ value'[x] = value[x]
          /\ value'[s] = 0
      BY <1>2, <2>1, <2>8
    <3> QED BY <1>0, <2>8, <3>1, <3>2, LeavesTheWay
  <2> QED BY <2>3, <2>4, <2>9, <2>10 DEF WaitsAreSound
<1>3. value[s] > 0 \/ value[s] = 0
  BY <1>0
<1> QED
  BY <1>1, <1>2, <1>3

(* sema_try_down. *)
LEMMA TryAcquireStep ==
  ASSUME LInv, SysP!IInv, DonateInv, WaitsAreSound, NEW self \in Client,
         NEW l \in Lock, LockTryAcquire(self, l)
  PROVE  UNCHANGED Sys!vars /\ DonateInv' /\ WaitsAreSound'
<1> USE DEF PC
<1>0. /\ self \in Thread /\ self # Idle /\ pc[self] = "run" /\ panic = "none"
      /\ pc \in [Thread -> PC] /\ value \in [AnySema -> Nat] /\ Idle \in Thread
      /\ held \in [Thread -> SUBSET Lock] /\ l \in AnySema
      /\ target \in [Thread -> AnySema \cup {NULL}]
      /\ status \in [Thread -> Live] /\ destruction_req = << >>
  BY SysAt, Names, SystemFacts
     DEF LockTryAcquire, Client, LInv, LockTypes, WaitsAreSound, WaitInv
<1>1. /\ Goto(self, "acquired") /\ value[l] > 0 /\ value' = [value EXCEPT ![l] = @ - 1]
      /\ held' = [held EXCEPT ![self] = @ \cup {l}]
      /\ target' = [target EXCEPT ![self] = l]
      /\ UNCHANGED << schedVars, clockVars, priority, panic, waiters, donateVars >>
  BY DEF LockTryAcquire
<1>2. /\ pc' \in [Thread -> PC] /\ pc'[self] = "acquired" /\ SysPc' = SysPc
      /\ \A t \in Thread : t # self => pc'[t] = pc[t]
  BY <1>0, <1>1, SysGoto DEF SysRoutine
<1>3. UNCHANGED Sys!vars
  BY <1>1, <1>2, SysStutter DEF SysPanic
<1>4. DonateInv'
  <2>1. held'[Idle] = held[Idle] /\ panic' \in Panic
    BY <1>0, <1>1 DEF Panic
  <2>2. \A t \in Thread : pc'[t] \in Donating => pc'[t] = pc[t]
    BY <1>2 DEF Donating, Walking
  <2> QED BY <1>1, <2>1, <2>2, NoDonation
<1>5. WaitsAreSound'
  <2>1. /\ waiters' = waiters /\ status' = status /\ destruction_req' = << >>
        /\ sleep_list' = sleep_list /\ \A t \in Range(sleep_list) : t \in Thread
    BY <1>0, <1>1, SystemFacts DEF schedVars, clockVars, Client
  <2>2. \A t \in Thread : /\ pc'[t] = "woken" <=> pc[t] = "woken"
                          /\ pc[t] = "woken" => target'[t] = target[t]
    BY <1>0, <1>1, <1>2
  <2>3. \A s \in AnySema : value'[s] \in Nat /\ value'[s] =< value[s]
    BY <1>0, <1>1
  <2> QED BY <1>0, <2>1, <2>2, <2>3, StillWaiting
<1> QED
  BY <1>3, <1>4, <1>5

-------------------------------------------------------------------------------
(* sema_up: the first of the sorted waiters, if any, is unblocked. *)

LEMMA UppedFacts ==
  ASSUME SysP!IInv, WaitsAreSound, NEW s \in AnySema, NEW u \in Upped(s)
  PROVE  \/ waiters[s] = << >> /\ u = Unchanged(s)
         \/ /\ waiters[s] # << >>
            /\ \E t \in Client :
                 /\ status[t] = "blocked" /\ t \in Range(waiters[s])
                 /\ t \notin Range(sleep_list) /\ t \notin Range(ready_list) /\ t # current
                 /\ u.waiting \in Seq(Thread) /\ NoDuplicates(u.waiting)
                 /\ Range(u.waiting) = Range(waiters[s]) \ {t}
                 /\ u.status = [status EXCEPT ![t] = "ready"]
                 /\ u.ready = InsertDescending(ready_list, t, priority)
<1>1. CASE waiters[s] = << >>
  BY <1>1 DEF Upped
<1>2. CASE waiters[s] # << >>
  <2>0. waiters[s] \in Seq(Thread) /\ NoDuplicates(waiters[s])
    BY DEF WaitsAreSound, WaitInv
  <2>1. PICK q \in SortsDescending(waiters[s], priority) :
          u = [waiting |-> Tail(q),
               status  |-> [status EXCEPT ![Head(q)] = "ready"],
               ready   |-> Sched!Readied(ready_list, Head(q))]
    BY <1>2 DEF Upped
  <2>2. /\ q \in Seq(Thread) /\ Len(q) = Len(waiters[s]) /\ Range(q) = Range(waiters[s])
        /\ NoDuplicates(q)
    BY <2>0, SortsDescendingProperties
  <2>3. q # << >>
    BY <1>2, <2>0, <2>2
  <2>4. PICK t \in Thread : t = Head(q)
    BY <2>2, <2>3, TailProperties
  <2>5. /\ Tail(q) \in Seq(Thread) /\ NoDuplicates(Tail(q)) /\ t \in Range(waiters[s])
        /\ Range(Tail(q)) = Range(waiters[s]) \ {t}
    <3>1. /\ Range(q) = Range(Tail(q)) \cup {t} /\ t \notin Range(Tail(q))
          /\ Tail(q) \in Seq(Thread) /\ NoDuplicates(Tail(q))
      BY <2>2, <2>3, <2>4, TailProperties
    <3> QED BY <3>1, <2>2
  <2>6. /\ t \in Client /\ status[t] = "blocked" /\ t \notin Range(sleep_list)
    BY <2>5 DEF WaitsAreSound, WaitInv
  <2>7. t \notin Range(ready_list) /\ t # current
    BY <2>6, SystemFacts
  <2>8. /\ u.waiting = Tail(q) /\ u.status = [status EXCEPT ![t] = "ready"]
        /\ u.ready = InsertDescending(ready_list, t, priority)
    BY <2>1, <2>4, SameScheduler
  <2> QED BY <1>2, <2>5, <2>6, <2>7, <2>8
<1> QED
  BY <1>1, <1>2

(* What sema_up leaves for check_and_preempt. *)
LEMMA UppedIsSchedulable ==
  ASSUME SysP!IInv, WaitsAreSound, NEW s \in AnySema, NEW u \in Upped(s)
  PROVE  /\ u.status \in [Thread -> Live] /\ u.status[current] = "running"
         /\ u.ready \in Seq(Thread)
         /\ \A t \in Range(u.ready) : u.status[t] = "ready" /\ t # Idle
<1>1. /\ status \in [Thread -> Live] /\ status[current] = "running" /\ current \in Thread
      /\ ready_list \in Seq(Thread) /\ Range(ready_list) \subseteq Client
      /\ \A t \in Range(ready_list) : status[t] = "ready" /\ t # Idle
  BY SystemFacts DEF WaitsAreSound, WaitInv, Client
<1>2. CASE u = Unchanged(s)
  BY <1>1, <1>2 DEF Unchanged
<1>3. CASE u # Unchanged(s)
  <2>1. PICK t \in Client :
                 /\ t # current /\ u.status = [status EXCEPT ![t] = "ready"]
                 /\ u.ready = InsertDescending(ready_list, t, priority)
    BY <1>3, UppedFacts
  <2>2. t \in Thread /\ t # Idle
    BY DEF Client
  <2>3. u.ready \in Seq(Thread) /\ Range(u.ready) = Range(ready_list) \cup {t}
    BY <1>1, <2>1, <2>2, InsertDescendingProperties
  <2> QED BY <1>1, <2>1, <2>2, <2>3 DEF Live, Client
<1> QED
  BY <1>2, <1>3

LEMMA UpWaits ==
  ASSUME LInv, SysP!IInv, WaitsAreSound, NEW s \in AnySema, NEW u \in Upped(s),
         value' = [value EXCEPT ![s] = @ + 1],
         waiters' = [waiters EXCEPT ![s] = u.waiting],
         status' \in [Thread -> Live], destruction_req' = << >>,
         \A t \in Client : status'[t] = "blocked" <=> u.status[t] = "blocked",
         sleep_list' = sleep_list,
         \A t \in Thread : /\ pc'[t] = "woken" <=> pc[t] = "woken"
                           /\ pc[t] = "woken" => target'[t] = target[t]
  PROVE  WaitsAreSound'
<1>0. /\ value \in [AnySema -> Nat] /\ waiters \in [AnySema -> Seq(Thread)]
      /\ Range(sleep_list) \subseteq Thread /\ Idle \in Thread /\ Client \subseteq Thread
      /\ status \in [Thread -> Live] /\ pc[Idle] # "woken"
      /\ \A t \in Client : pc[t] = "woken" => target[t] \in AnySema
  BY SystemFacts DEF LInv, LockTypes, TargetInv, WaitsAreSound, WaitInv, Client
<1>1. CASE waiters[s] = << >> /\ u = Unchanged(s)
  <2>1. waiters' = waiters /\ u.status = status
    BY <1>0, <1>1 DEF Unchanged
  <2>2. WaitInv' /\ \A x \in AnySema : OnTheWay(x)' = OnTheWay(x)
    BY <1>0, <2>1, StillLinked DEF WaitsAreSound
  <2>3. ASSUME NEW x \in AnySema PROVE Enough(x)'
    <3>1. CASE x = s
      BY <3>1, <1>1, <2>1 DEF Enough
    <3>2. CASE x # s
      <4>1. Enough(x) /\ value'[x] = value[x]
        BY <3>2, <1>0, LostWakeup DEF WaitsAreSound
      <4> QED BY <4>1, <2>1, <2>2 DEF Enough
    <3> QED BY <3>1, <3>2
  <2>4. NoLostWakeup'
    BY <2>3, LostWakeup DEF NoLostWakeup, Enough, OnTheWay
  <2> QED BY <2>2, <2>4 DEF WaitsAreSound
<1>2. CASE ~ (waiters[s] = << >> /\ u = Unchanged(s))
  <2>0. /\ waiters[s] # << >>
        /\ \E t \in Client :
             /\ status[t] = "blocked" /\ t \in Range(waiters[s])
             /\ t \notin Range(sleep_list) /\ t \notin Range(ready_list) /\ t # current
             /\ u.waiting \in Seq(Thread) /\ NoDuplicates(u.waiting)
             /\ Range(u.waiting) = Range(waiters[s]) \ {t}
             /\ u.status = [status EXCEPT ![t] = "ready"]
             /\ u.ready = InsertDescending(ready_list, t, priority)
    BY <1>2, UppedFacts
  <2>1. PICK t \in Client :
             /\ waiters[s] # << >>
             /\ status[t] = "blocked" /\ t \in Range(waiters[s])
             /\ t \notin Range(sleep_list)
             /\ u.waiting \in Seq(Thread) /\ NoDuplicates(u.waiting)
             /\ Range(u.waiting) = Range(waiters[s]) \ {t}
             /\ u.status = [status EXCEPT ![t] = "ready"]
    BY <2>0
  <2>2. /\ t \in Thread /\ pc[t] = "woken" /\ target[t] = s
        /\ \A x \in AnySema : x # s => t \notin Range(waiters[x])
    BY <1>0, <2>1 DEF WaitsAreSound, WaitInv
  <2>3. /\ waiters' \in [AnySema -> Seq(Thread)] /\ waiters'[s] = u.waiting
        /\ \A x \in AnySema : x # s => waiters'[x] = waiters[x]
    BY <1>0, <2>1
  <2>4. \A r \in Client : status'[r] = "blocked" <=> status[r] = "blocked" /\ r # t
    BY <1>0, <2>1, <2>2
  <2>5. WaitInv'
    <3>1. ASSUME NEW x \in AnySema
          PROVE  /\ NoDuplicates(waiters'[x])
                 /\ \A r \in Range(waiters'[x]) :
                      /\ r \in Client /\ status'[r] = "blocked"
                      /\ pc'[r] = "woken" /\ target'[r] = x
      <4>1. CASE x = s
        BY <4>1, <1>0, <2>1, <2>2, <2>3, <2>4 DEF WaitsAreSound, WaitInv
      <4>2. CASE x # s
        <5>1. waiters'[x] = waiters[x] /\ NoDuplicates(waiters[x])
          BY <4>2, <2>3 DEF WaitsAreSound, WaitInv
        <5>2. \A r \in Range(waiters[x]) : /\ r \in Client /\ status[r] = "blocked" /\ r # t
                                           /\ pc[r] = "woken" /\ target[r] = x
          BY <4>2, <2>2 DEF WaitsAreSound, WaitInv
        <5> QED BY <5>1, <5>2, <1>0, <2>4
      <4> QED BY <4>1, <4>2
    <3>2. ASSUME NEW r \in Client, pc'[r] = "woken", status'[r] = "blocked"
          PROVE  r \in Range(waiters'[target'[r]])
      <4>1. /\ r # t /\ r \in Range(waiters[target[r]]) /\ target'[r] = target[r]
            /\ target[r] \in AnySema
        BY <3>2, <1>0, <2>4 DEF WaitsAreSound, WaitInv
      <4> QED BY <4>1, <2>1, <2>3
    <3>3. \A r \in Client : status'[r] = "blocked" => pc'[r] = "woken" \/ r \in Range(sleep_list')
      BY <1>0, <2>4 DEF WaitsAreSound, WaitInv
    <3>4. \A r \in Range(sleep_list') : pc'[r] # "woken"
      BY <1>0 DEF WaitsAreSound, WaitInv
    <3> QED BY <3>1, <3>2, <3>3, <3>4, <1>0, <2>3 DEF WaitInv
  <2>6. ASSUME NEW x \in AnySema PROVE Enough(x)'
    <3>1. /\ IsFiniteSet(OnTheWay(x)) /\ Cardinality(OnTheWay(x)) \in Nat
          /\ Enough(x) /\ value[x] \in Nat
      BY <1>0, OnTheWayIsFinite, LostWakeup DEF WaitsAreSound
    <3>2. CASE x # s
      <4>1. OnTheWay(x)' = OnTheWay(x)
        <5> SUFFICES ASSUME NEW r \in Thread PROVE r \in OnTheWay(x)' <=> r \in OnTheWay(x)
          BY DEF OnTheWay
        <5> QED BY <3>2, <1>0, <2>2, <2>4 DEF OnTheWay, Client
      <4>2. waiters'[x] = waiters[x] /\ value'[x] = value[x]
        BY <3>2, <1>0, <2>3
      <4> QED BY <4>1, <4>2, <3>1 DEF Enough
    <3>3. CASE x = s
      <4>1. OnTheWay(x)' = OnTheWay(x) \cup {t} /\ t \notin OnTheWay(x)
        <5>1. ASSUME NEW r \in Thread
              PROVE  r \in OnTheWay(x)' <=> r \in OnTheWay(x) \/ r = t
          BY <3>3, <1>0, <2>2, <2>4 DEF OnTheWay, Client
        <5>2. OnTheWay(x) \subseteq Thread /\ OnTheWay(x)' \subseteq Thread
          BY DEF OnTheWay
        <5>3. t \notin OnTheWay(x)
          BY <2>1 DEF OnTheWay
        <5>4. \A r : r \in OnTheWay(x)' <=> r \in OnTheWay(x) \cup {t}
          BY <5>1, <5>2, <2>2
        <5> QED BY <5>3, <5>4
      <4>2. Cardinality(OnTheWay(x))' = Cardinality(OnTheWay(x)) + 1
        BY <4>1, <3>1, FS_AddElement
      <4>3. value'[x] = value[x] + 1 /\ value[x] =< Cardinality(OnTheWay(x))
        BY <3>1, <3>3, <1>0, <2>1 DEF Enough
      <4>4. value'[x] =< Cardinality(OnTheWay(x))'
        BY <4>2, <4>3, <3>1
      <4> QED BY <4>4 DEF Enough
    <3> QED BY <3>2, <3>3
  <2>7. NoLostWakeup'
    BY <2>6, LostWakeup DEF NoLostWakeup, Enough, OnTheWay
  <2> QED BY <2>5, <2>7 DEF WaitsAreSound
<1> QED
  BY <1>1, <1>2

LEMMA UppedOne ==
  ASSUME SysP!IInv, WaitsAreSound, NEW s \in AnySema, NEW u \in Upped(s), u # Unchanged(s)
  PROVE  \E t \in Client : /\ status[t] = "blocked" /\ t \notin Range(sleep_list)
                           /\ u.status = [status EXCEPT ![t] = "ready"]
                           /\ u.ready = InsertDescending(ready_list, t, priority)
  BY UppedFacts

(* sema_up and lock_release's sema_up, with check_and_preempt at the end. *)
LEMMA UpSteps ==
  ASSUME LInv, SysP!IInv, DonateInv, WaitsAreSound,
         NEW self \in Client, NEW s \in AnySema, NEW l \in {"run", "up"}, At(self, l), Up(s),
         \/ l = "run" /\ UNCHANGED << pc, target, held >>
         \/ /\ Goto(self, "run")
            /\ held' = [held EXCEPT ![self] = @ \ {s}]
            /\ target' = [target EXCEPT ![self] = NULL],
         UNCHANGED << clockVars, priority, panic, donateVars >>
  PROVE  Sys!Next /\ DonateInv' /\ WaitsAreSound'
<1> USE DEF PC
<1>0. /\ self \in Thread /\ self # Idle /\ self = current /\ pc[self] = l
      /\ panic = "none" /\ Sys!At(self, "run") /\ pc \in [Thread -> PC]
      /\ held \in [Thread -> SUBSET Lock] /\ target \in [Thread -> AnySema \cup {NULL}]
      /\ destruction_req = << >> /\ SysPanic' = SysPanic
  BY SysAt DEF SysRoutine, Client, LInv, LockTypes, WaitsAreSound, WaitInv, SysPanic
<1>1. PICK u \in Upped(s) : /\ value' = [value EXCEPT ![s] = @ + 1]
                            /\ waiters' = [waiters EXCEPT ![s] = u.waiting]
                            /\ Sched!PreemptOrContinue(u.status, u.ready)
  BY DEF Up
<1>2. /\ SysPc' = SysPc /\ held'[Idle] = held[Idle]
      /\ \A t \in Thread : /\ pc'[t] \in Donating => pc'[t] = pc[t]
                           /\ pc'[t] = "woken" <=> pc[t] = "woken"
                           /\ pc[t] = "woken" => target'[t] = target[t]
  <2>1. CASE UNCHANGED << pc, target, held >>
    BY <2>1 DEF SysPc
  <2>2. CASE /\ Goto(self, "run")
             /\ held' = [held EXCEPT ![self] = @ \ {s}]
             /\ target' = [target EXCEPT ![self] = NULL]
    <3>1. /\ pc' \in [Thread -> PC] /\ pc'[self] = "run" /\ SysPc' = SysPc
          /\ \A t \in Thread : t # self => pc'[t] = pc[t]
      BY <1>0, <2>2, SysGoto DEF SysRoutine
    <3>2. held'[Idle] = held[Idle]
      BY <1>0, <2>2, SystemFacts
    <3> QED BY <3>1, <3>2, <2>2, <1>0 DEF Donating, Walking
  <2> QED BY <2>1, <2>2
<1>3. Sys!PreemptOrContinue(u.status, u.ready)
  BY <1>1, SameScheduler
<1>4. /\ UNCHANGED << SysPc, SysPanic, priority >>
      /\ UNCHANGED Sys!sleepVars /\ UNCHANGED Sys!intrVars
  BY <1>0, <1>2 DEF clockVars, Sys!sleepVars, Sys!intrVars
<1>5. Sys!Next
  <2>1. CASE u = Unchanged(s)
    <3>1. Sys!PreemptIfHigher(self)
      BY <2>1, <1>0, <1>3, <1>4 DEF Sys!PreemptIfHigher, Unchanged
    <3> QED BY <1>0, <3>1 DEF Sys!Next, Sys!ThreadStep
  <2>2. CASE u # Unchanged(s)
    <3>1. PICK t \in Client : /\ status[t] = "blocked" /\ t \notin Range(sleep_list)
                              /\ u.status = [status EXCEPT ![t] = "ready"]
                              /\ u.ready = InsertDescending(ready_list, t, priority)
      BY <2>2, UppedOne
    <3>2. /\ t \in Thread /\ t # Idle /\ SysPc[t] # "unborn" /\ t \notin Sys!Range(sleep_list)
          /\ u.ready = Sys!Readied(ready_list, t)
      BY <3>1, <1>0, SameLists, SameScheduler DEF Client, SysPc
    <3>3. Sys!PreemptOrContinue([status EXCEPT ![t] = "ready"], Sys!Readied(ready_list, t))
      BY <1>3, <3>1, <3>2
    <3>4. Sys!ThreadUnblock(self, t)
      BY <1>0, <1>4, <3>1, <3>2, <3>3 DEF Sys!ThreadUnblock
    <3> QED BY <1>0, <3>2, <3>4 DEF Sys!Next, Sys!ThreadStep
  <2> QED BY <2>1, <2>2
<1>6. DonateInv'
  BY <1>0, <1>2, NoDonation DEF Panic
<1>7. WaitsAreSound'
  <2>1. /\ u.status \in [Thread -> Live] /\ u.status[current] # "blocked"
        /\ u.ready \in Seq(Thread)
        /\ \A t \in Range(u.ready) : u.status[t] = "ready" /\ t # Idle
    BY UppedIsSchedulable
  <2>2. /\ status' \in [Thread -> Live] /\ destruction_req' = << >>
        /\ \A t \in Client : status'[t] = "blocked" <=> u.status[t] = "blocked"
    BY <2>1, <1>0, <1>1, PreemptEffect
  <2>3. sleep_list' = sleep_list
    BY DEF clockVars
  <2> QED BY <1>1, <1>2, <2>2, <2>3, UpWaits
<1> QED
  BY <1>5, <1>6, <1>7

(* sema_up in an interrupt handler. *)
LEMMA IntrUpStep ==
  ASSUME LInv, SysP!IInv, DonateInv, WaitsAreSound, NEW s \in AnySema, IntrSemaUp(s)
  PROVE  [Sys!Next]_(Sys!vars) /\ DonateInv' /\ WaitsAreSound'
<1>1. PICK u \in Upped(s) : /\ waiters' = [waiters EXCEPT ![s] = u.waiting]
                            /\ status' = u.status /\ ready_list' = u.ready
  BY DEF IntrSemaUp
<1>2. /\ panic = "none" /\ panic' \in {"none", "yield_in_intr"} /\ ~ in_intr
      /\ value' = [value EXCEPT ![s] = @ + 1]
      /\ UNCHANGED << current, destruction_req, thread_ticks, clockVars, priority, pc,
                      donateVars, target, held >>
  BY DEF IntrSemaUp, Sched!InKernel
<1>3. SysPanic = "none" /\ SysPanic' = SysPanic /\ SysPc' = SysPc /\ Sys!InKernel(current)
  BY <1>2 DEF SysPanic, SysPc, Sys!InKernel
<1>4. [Sys!Next]_(Sys!vars)
  <2>1. CASE u = Unchanged(s)
    BY <2>1, <1>1, <1>2, <1>3, SysStutter DEF Unchanged, schedVars
  <2>2. CASE u # Unchanged(s)
    <3>1. PICK t \in Client : /\ status[t] = "blocked" /\ t \notin Range(sleep_list)
                              /\ u.status = [status EXCEPT ![t] = "ready"]
                              /\ u.ready = InsertDescending(ready_list, t, priority)
      BY <2>2, UppedOne
    <3>2. /\ t \in Thread /\ t # Idle /\ SysPc[t] # "unborn" /\ t \notin Sys!Range(sleep_list)
          /\ u.ready = Sys!Readied(ready_list, t)
      BY <3>1, SameLists, SameScheduler DEF Client, SysPc
    <3>3. UNCHANGED Sys!sleepVars /\ UNCHANGED Sys!intrVars
      BY <1>2 DEF clockVars, Sys!sleepVars, Sys!intrVars
    <3>4. Sys!IntrUnblock(t)
      BY <1>1, <1>2, <1>3, <3>1, <3>2, <3>3 DEF Sys!IntrUnblock
    <3> QED BY <3>2, <3>4 DEF Sys!Next
  <2> QED BY <2>1, <2>2
<1>5. DonateInv'
  BY <1>2, NoDonation DEF Panic
<1>6. WaitsAreSound'
  <2>1. status' \in [Thread -> Live] /\ destruction_req' = << >> /\ sleep_list' = sleep_list
    BY <1>1, <1>2, UppedIsSchedulable DEF WaitsAreSound, WaitInv, clockVars
  <2> QED BY <1>1, <1>2, <2>1, UpWaits
<1> QED
  BY <1>4, <1>5, <1>6

-------------------------------------------------------------------------------
(* The thread system's own steps and the wait lists. *)
LEMMA SleepStep ==
  ASSUME SysP!IInv, WaitsAreSound, value \in [AnySema -> Nat], pc \in [Thread -> PC],
         NEW self \in Thread, Sched!ThreadSleep(self), UNCHANGED synchVars
  PROVE  WaitsAreSound'
<1> USE DEF PC
<1>0. /\ self = current /\ pc[self] = "sleep" /\ self # Idle /\ self \in Client
      /\ status \in [Thread -> Live] /\ destruction_req = << >> /\ pc[Idle] # "woken"
      /\ sleep_list \in Seq(Thread) /\ Idle \in Thread /\ status[self] = "running"
      /\ Range(sleep_list) \subseteq Client /\ Client \subseteq Thread
  <2>1. self = current /\ pc[self] = "sleep"
    BY DEF Sched!ThreadSleep, Sched!At, Sched!InKernel
  <2>2. self # Idle
    BY <2>1, SystemFacts DEF SysRoutine
  <2> QED BY <2>1, <2>2, SystemFacts DEF Client, WaitsAreSound, WaitInv
<1>1. /\ sleep_list' = InsertAscending(sleep_list, self, wakeup_tick)
      /\ Sched!Block(status, ready_list)
      /\ pc' = [pc EXCEPT ![self] = "run"]
      /\ UNCHANGED << waiters, value, target >>
  BY SameLists DEF Sched!ThreadSleep, Sched!Goto, synchVars, semaVars
<1>2. Range(sleep_list') = Range(sleep_list) \cup {self}
  BY <1>0, <1>1, InsertAscendingProperties
<1>3. /\ status' \in [Thread -> Live] /\ destruction_req' = << >>
      /\ \A t \in Client : status'[t] = "blocked" <=> status[t] = "blocked" \/ t = self
  BY <1>0, <1>1, BlockEffect
<1>4. /\ pc'[self] = "run" /\ \A t \in Thread : t # self => pc'[t] = pc[t]
      /\ \A t \in Thread : pc'[t] = "woken" <=> pc[t] = "woken"
  BY <1>0, <1>1
<1>5. WaitInv'
  <2>1. ASSUME NEW x \in AnySema
        PROVE  /\ NoDuplicates(waiters'[x])
               /\ \A t \in Range(waiters'[x]) :
                    t \in Client /\ status'[t] = "blocked" /\ pc'[t] = "woken" /\ target'[t] = x
    BY <1>0, <1>1, <1>3, <1>4 DEF WaitsAreSound, WaitInv
  <2>2. \A t \in Client : pc'[t] = "woken" /\ status'[t] = "blocked" =>
           t \in Range(waiters'[target'[t]])
    BY <1>0, <1>1, <1>3, <1>4 DEF WaitsAreSound, WaitInv
  <2>3. \A t \in Client : status'[t] = "blocked" => pc'[t] = "woken" \/ t \in Range(sleep_list')
    BY <1>0, <1>2, <1>3, <1>4 DEF WaitsAreSound, WaitInv
  <2>4. \A t \in Range(sleep_list') : pc'[t] # "woken"
    BY <1>0, <1>2, <1>4 DEF WaitsAreSound, WaitInv
  <2>5. pc'[Idle] # "woken" /\ waiters' \in [AnySema -> Seq(Thread)]
    BY <1>0, <1>1, <1>4 DEF WaitsAreSound, WaitInv
  <2> QED BY <2>1, <2>2, <2>3, <2>4, <2>5, <1>3 DEF WaitInv
<1>6. \A x \in AnySema : OnTheWay(x)' = OnTheWay(x)
  <2> SUFFICES ASSUME NEW x \in AnySema, NEW t \in Thread
               PROVE  t \in OnTheWay(x)' <=> t \in OnTheWay(x)
    BY DEF OnTheWay
  <2> QED BY <1>0, <1>1, <1>3, <1>4 DEF OnTheWay, Client
<1>7. NoLostWakeup'
  <2>1. \A x \in AnySema : Enough(x)'
    BY <1>1, <1>6, LostWakeup DEF WaitsAreSound, Enough
  <2> QED BY <2>1, LostWakeup DEF NoLostWakeup, Enough, OnTheWay
<1> QED
  BY <1>5, <1>7 DEF WaitsAreSound

LEMMA WakeStep ==
  ASSUME SysP!IInv, WaitsAreSound, Sched!WakeSleeper, UNCHANGED synchVars
  PROVE  WaitsAreSound'
<1>1. PICK t \in Thread : t = Head(sleep_list) /\ t \in Range(sleep_list)
                           /\ Range(sleep_list) = Range(Tail(sleep_list)) \cup {t}
  BY SystemFacts, TailProperties DEF Sched!WakeSleeper, Sched!FrontSleeperDue
<1>2. /\ t \in Client /\ pc[t] # "woken" /\ pc[Idle] # "woken"
      /\ status \in [Thread -> Live] /\ destruction_req = << >>
      /\ Range(sleep_list) \subseteq Client /\ Client \subseteq Thread
  BY <1>1, SystemFacts DEF WaitsAreSound, WaitInv, Client
<1>3. /\ sleep_list' = Tail(sleep_list) /\ status' = [status EXCEPT ![t] = "ready"]
      /\ UNCHANGED << pc, waiters, value, target, destruction_req >>
  BY <1>1 DEF Sched!WakeSleeper, synchVars, semaVars
<1>4. /\ status' \in [Thread -> Live]
      /\ \A r \in Thread : status'[r] = IF r = t THEN "ready" ELSE status[r]
  BY <1>2, <1>3 DEF Live
<1>5. Range(sleep_list') \subseteq Range(sleep_list)
  BY <1>1, <1>3
<1>6. WaitInv'
  <2>1. ASSUME NEW x \in AnySema
        PROVE  /\ NoDuplicates(waiters'[x])
               /\ \A r \in Range(waiters'[x]) :
                    r \in Client /\ status'[r] = "blocked" /\ pc'[r] = "woken" /\ target'[r] = x
    BY <1>2, <1>3, <1>4 DEF WaitsAreSound, WaitInv
  <2>2. \A r \in Client : pc'[r] = "woken" /\ status'[r] = "blocked" =>
           r \in Range(waiters'[target'[r]])
    BY <1>2, <1>3, <1>4 DEF WaitsAreSound, WaitInv
  <2>3. \A r \in Client : status'[r] = "blocked" => pc'[r] = "woken" \/ r \in Range(sleep_list')
    BY <1>1, <1>2, <1>3, <1>4 DEF WaitsAreSound, WaitInv
  <2>4. \A r \in Range(sleep_list') : pc'[r] # "woken"
    BY <1>3, <1>5 DEF WaitsAreSound, WaitInv
  <2> QED BY <2>1, <2>2, <2>3, <2>4, <1>2, <1>3, <1>4 DEF WaitsAreSound, WaitInv
<1>7. \A x \in AnySema : OnTheWay(x)' = OnTheWay(x)
  BY <1>2, <1>3, <1>4 DEF OnTheWay
<1>8. NoLostWakeup'
  <2>1. \A x \in AnySema : Enough(x)'
    BY <1>3, <1>7, LostWakeup DEF WaitsAreSound, Enough
  <2> QED BY <2>1, LostWakeup DEF NoLostWakeup, Enough, OnTheWay
<1> QED
  BY <1>6, <1>8 DEF WaitsAreSound

LEMMA SchedStepWaits ==
  ASSUME LInv, SysP!IInv, DonateInv, WaitsAreSound, SchedStep
  PROVE  Sys!Next /\ DonateInv' /\ WaitsAreSound'
<1> USE DEF PC
<1>0. /\ pc \in [Thread -> PC] /\ value \in [AnySema -> Nat] /\ panic \in Panic
      /\ current \in Thread /\ status[current] = "running"
      /\ status \in [Thread -> Live] /\ destruction_req = << >>
      /\ ready_list \in Seq(Thread) /\ Idle \in Thread
      /\ \A t \in Range(ready_list) : status[t] = "ready" /\ t # Idle
      /\ \A t \in Range(sleep_list) : t \in Thread
  BY SystemFacts DEF LInv, LockTypes, DonateInv, WaitsAreSound, WaitInv, Client
<1>1. Sys!Next /\ panic' \in Panic /\ pc' \in [Thread -> PC] /\ UNCHANGED synchVars
  BY <1>0, SysOwnSteps DEF SchedStep
<1>2. /\ \A t \in Thread : /\ pc'[t] \in Donating => pc'[t] = pc[t]
                           /\ pc'[t] = "woken" <=> pc[t] = "woken"
      /\ UNCHANGED << waiters, value, target, held, donateVars >>
  BY <1>0, <1>1, SchedMoves
     DEF LInv, HolderReleases, synchVars, semaVars, Outside, Donating, Walking
<1>3. DonateInv'
  <2>1. priority' = priority
    BY DEF SchedStep, Sched!CheckAndPreempt, Sched!PreemptToFront, Sched!ThreadYield,
           Sched!TimerSleep, Sched!ThreadSleep, Sched!IdleLoop, TimerInterrupt,
           Sched!TimerInterrupt, Sched!WakeSleeper, Sched!TimerReturn
  <2> QED BY <2>1, <1>1, <1>2, NoDonation
<1>4. CASE \E self \in Thread : Sched!ThreadSleep(self)
  BY <1>0, <1>1, <1>3, <1>4, SleepStep
<1>5. CASE Sched!WakeSleeper
  BY <1>1, <1>3, <1>5, WakeStep
<1>6. ASSUME ~ (\E self \in Thread : Sched!ThreadSleep(self)), ~ Sched!WakeSleeper
      PROVE  WaitsAreSound'
  <2>1. sleep_list' = sleep_list
    BY <1>6 DEF SchedStep, Sched!CheckAndPreempt, Sched!PreemptToFront, Sched!ThreadYield,
           Sched!TimerSleep, Sched!IdleLoop, TimerInterrupt, Sched!TimerInterrupt,
           Sched!TimerReturn, Sched!sleepVars
  <2>2. \/ status' = status /\ destruction_req' = destruction_req
        \/ Sched!YieldFrom(status, ready_list)
        \/ current = Idle /\ Sched!Block(status, ready_list)
    BY <1>6 DEF SchedStep, Sched!CheckAndPreempt, Sched!PreemptToFront, Sched!ThreadYield,
           Sched!TimerSleep, Sched!IdleLoop, TimerInterrupt, Sched!TimerInterrupt,
           Sched!TimerReturn, Sched!schedVars, Sched!At, Sched!InKernel
  <2>3. /\ status' \in [Thread -> Live] /\ destruction_req' = << >>
        /\ \A t \in Client : status'[t] = "blocked" <=> status[t] = "blocked"
    <3>1. CASE status' = status /\ destruction_req' = destruction_req
      BY <3>1, <1>0
    <3>2. CASE Sched!YieldFrom(status, ready_list)
      BY <3>2, <1>0, YieldEffect
    <3>3. CASE current = Idle /\ Sched!Block(status, ready_list)
      BY <3>3, <1>0, BlockEffect DEF Client
    <3> QED BY <2>2, <3>1, <3>2, <3>3
  <2>4. /\ waiters' = waiters /\ \A s \in AnySema : value'[s] \in Nat /\ value'[s] =< value[s]
        /\ \A t \in Thread : /\ pc'[t] = "woken" <=> pc[t] = "woken"
                             /\ pc[t] = "woken" => target'[t] = target[t]
    BY <1>0, <1>2
  <2> QED BY <1>0, <2>1, <2>3, <2>4, StillWaiting
<1> QED
  BY <1>1, <1>3, <1>4, <1>5, <1>6

-------------------------------------------------------------------------------
(***************************************************************************)
(* The invariant of the whole: of the locks, of the thread system that     *)
(* runs the threads, of donations under way and of the wait lists.         *)
(***************************************************************************)
SInv == LInv /\ SysP!IInv /\ DonateInv /\ WaitsAreSound

LEMMA InitSInv == Init => SInv
<1> SUFFICES ASSUME Init PROVE SInv
  OBVIOUS
<1> USE SynchAssumption DEF SynchAssumption
<1>1. /\ ready_list \in Seq(Client \ {Main}) /\ Range(ready_list) = Client \ {Main}
      /\ NoDuplicates(ready_list)
  <2>1. Client \ {Main} \in SUBSET Thread /\ IsFiniteSet(Thread)
    BY DEF Client
  <2>2. IsFiniteSet(Client \ {Main}) /\ ready_list \in SetToSeqs(Client \ {Main})
    BY <2>1, FS_Subset DEF Init
  <2> QED BY <2>2, SetToSeqsProperties
<1>2. /\ status = [t \in Thread |-> IF t = Main THEN "running"
                                    ELSE IF t = Idle THEN "blocked" ELSE "ready"]
      /\ priority \in [Thread -> Priority] /\ original_priority = priority
      /\ current = Main /\ sleep_list = << >> /\ destruction_req = << >>
      /\ pc = [t \in Thread |-> "run"] /\ panic = "none"
      /\ waiters = [s \in AnySema |-> << >>]
      /\ SysPc = [t \in Thread |-> "run"] /\ SysPanic = "none"
  BY DEF Init, SysPc, SysPanic
<1>3. Range(<< >>) = {} /\ NoDuplicates(<< >>)
  BY DEF Range, NoDuplicates
<1>4. SysP!IInv
  <2>1. SysP!TypeOK
    <3>1. /\ ready_list \in Seq(Thread) /\ sleep_list \in Seq(Thread)
          /\ destruction_req \in Seq(Thread)
      BY <1>1, <1>2 DEF Client
    <3>2. /\ wakeup_tick \in [Thread -> 0 .. MaxTick] /\ ticks \in 0 .. MaxTick
          /\ thread_ticks \in 0 .. TIME_SLICE /\ in_intr \in BOOLEAN
          /\ yield_on_return \in BOOLEAN
      <4>1. 0 \in 0 .. MaxTick /\ 0 \in 0 .. TIME_SLICE
        OBVIOUS
      <4>2. /\ wakeup_tick = [t \in Thread |-> 0] /\ ticks = 0 /\ thread_ticks = 0
            /\ in_intr = FALSE /\ yield_on_return = FALSE
        BY DEF Init
      <4> QED BY ONLY <4>1, <4>2
    <3>3. /\ current \in Thread
          /\ status \in [Thread -> {"running", "ready", "blocked", "dying", "free"}]
          /\ priority \in [Thread -> SysP!Priority]
          /\ SysPc \in [Thread -> {"run", "preempt", "front", "sleep", "unborn"}]
          /\ SysPanic \in {"none", "list_front"}
      BY <1>2 DEF Priority, Sched!Priority, SysP!Priority
    <3> QED BY <3>1, <3>2, <3>3 DEF SysP!TypeOK
  <2>2. SysP!SchedInv(current, status, ready_list, sleep_list, destruction_req)
    <3>1. SysP!RunQueueOf(status, ready_list)
      BY <1>1, <1>2, SameLists DEF SysP!RunQueueOf, Client
    <3>2. SysP!SleepersOf(status, sleep_list) /\ SysP!DeadOf(status, destruction_req)
      BY <1>2, <1>3, SameLists DEF SysP!SleepersOf, SysP!DeadOf
    <3>3. /\ ready_list \in Seq(Thread) /\ sleep_list \in Seq(Thread)
          /\ destruction_req \in Seq(Thread)
      BY <2>1 DEF SysP!TypeOK
    <3>4. /\ current \in Thread /\ status \in [Thread -> SysP!Status]
          /\ \A t \in Thread : status[t] = "running" <=> t = current
          /\ status[Idle] \in {"running", "ready", "blocked"}
      BY <1>2 DEF SysP!Status
    <3> QED BY <3>1, <3>2, <3>3, <3>4 DEF SysP!SchedInv
  <2>3. SysP!NoDuplicates(sleep_list) /\ SysP!IsAscending(sleep_list, wakeup_tick)
    BY <1>2, <1>3, SameLists DEF SysP!IsAscending
  <2>4. SysP!SliceInv /\ SysP!IdleInv
    BY <1>2 DEF SysP!SliceInv, SysP!IdleInv, Init
  <2> QED BY <2>1, <2>2, <2>3, <2>4 DEF SysP!IInv
<1>5. DonateInv
  <2>1. walk \in [Thread -> Walk] /\ \A t \in Thread : WalksAt(pc[t], walk[t])
    BY NoWalkIsWalk, <1>2 DEF Init, WalksAt, Donating, Walking
  <2>2. /\ wait_lock \in [Thread -> Lock \cup {NULL}] /\ donations \in [Thread -> Seq(Thread)]
        /\ held[Idle] = {} /\ panic \in Panic
    BY DEF Init, Panic
  <2> QED BY <2>1, <2>2, <1>2 DEF DonateInv
<1>6. WaitsAreSound
  <2>1. WaitInv
    BY <1>2, <1>3 DEF WaitInv, Live, Client
  <2>2. NoLostWakeup
    BY <1>2 DEF NoLostWakeup
  <2> QED BY <2>1, <2>2 DEF WaitsAreSound
<1> QED
  BY <1>4, <1>5, <1>6, InitLInv DEF SInv

(* One step per operation of a thread. *)
LEMMA SynchStepSystem ==
  ASSUME SInv, NEW self \in Client, SynchStep(self)
  PROVE  [Sys!Next]_(Sys!vars) /\ DonateInv' /\ WaitsAreSound'
<1>0. /\ LInv /\ SysP!IInv /\ DonateInv /\ WaitsAreSound /\ status \in [Thread -> Live]
      /\ self \in Thread /\ Sema \subseteq AnySema /\ Lock \subseteq AnySema
  BY Names DEF SInv, WaitsAreSound, WaitInv
<1>1. ASSUME Unwaited PROVE WaitsAreSound'
  <2>1. /\ \A t \in Range(sleep_list) : t \in Thread
        /\ status' \in [Thread -> Live] /\ destruction_req' = << >>
        /\ \A t \in Client : status'[t] = "blocked" <=> status[t] = "blocked"
        /\ value \in [AnySema -> Nat] /\ waiters' = waiters /\ sleep_list' = sleep_list
        /\ \A s \in AnySema : value'[s] \in Nat /\ value'[s] =< value[s]
    BY <1>0, <1>1, SystemFacts DEF Unwaited, WaitsAreSound, WaitInv, LInv, LockTypes, Client
  <2>2. \A t \in Thread : /\ pc'[t] = "woken" <=> pc[t] = "woken"
                          /\ pc[t] = "woken" => target'[t] = target[t]
    BY <1>1 DEF Unwaited
  <2> QED BY <1>0, <2>1, <2>2, StillWaiting
<1>2. CASE (\E l \in Lock : LockAcquire(self, l)) \/ LockAcquired(self) \/ LockUnhold(self)
  BY <1>0, <1>1, <1>2, AcquireSteps
<1>3. CASE DonateStep(self)
  BY <1>0, <1>1, <1>3, DonateSteps
<1>4. CASE SettingStep(self)
  BY <1>0, <1>1, <1>4, OwnPrioritySteps
<1>5. ASSUME NEW s \in Sema, SemaDown(self, s)
      PROVE  [Sys!Next]_(Sys!vars) /\ DonateInv' /\ WaitsAreSound'
  BY <1>0, <1>5, DownSteps DEF SemaDown
<1>6. CASE LockDown(self)
  <2>1. At(self, "down") /\ target[self] \in Lock
    BY <1>0, <1>6, SysAt DEF LockDown, LInv, TargetInv, Asking
  <2> QED BY <1>0, <1>6, <2>1, DownSteps DEF LockDown
<1>7. CASE Woken(self)
  <2>1. At(self, "woken") /\ target[self] \in AnySema
    BY <1>0, <1>7, SysAt DEF Woken, LInv, TargetInv
  <2> QED BY <1>0, <1>7, <2>1, DownSteps DEF Woken
<1>8. ASSUME NEW l \in Lock, LockTryAcquire(self, l)
      PROVE  [Sys!Next]_(Sys!vars) /\ DonateInv' /\ WaitsAreSound'
  BY <1>0, <1>8, TryAcquireStep
<1>9. ASSUME NEW s \in Sema, SemaUp(self, s)
      PROVE  [Sys!Next]_(Sys!vars) /\ DonateInv' /\ WaitsAreSound'
  <2>1. /\ At(self, "run") /\ Up(s)
        /\ UNCHANGED << pc, target, held, clockVars, priority, panic, donateVars >>
    BY <1>9 DEF SemaUp
  <2> QED BY <1>0, <2>1, UpSteps
<1>10. CASE LockUp(self)
  <2>1. /\ At(self, "up") /\ Up(target[self]) /\ Goto(self, "run")
        /\ held' = [held EXCEPT ![self] = @ \ {target[self]}]
        /\ target' = [target EXCEPT ![self] = NULL]
        /\ UNCHANGED << clockVars, priority, panic, donateVars >>
    BY <1>10 DEF LockUp
  <2>2. target[self] \in Lock
    BY <1>0, <2>1, SysAt DEF LInv, TargetInv, LockTypes, Inside
  <2> QED BY <1>0, <2>1, <2>2, UpSteps
<1> QED
  BY ONLY SynchStep(self), <1>2, <1>3, <1>4, <1>5, <1>6, <1>7, <1>8, <1>9, <1>10
     DEF SynchStep, DonateStep, SettingStep

LEMMA StepsAreScheduled ==
  ASSUME SInv, [Next]_vars
  PROVE  [Sys!Next]_(Sys!vars) /\ DonateInv' /\ WaitsAreSound'
<1>0. LInv /\ SysP!IInv /\ DonateInv /\ WaitsAreSound
  BY DEF SInv
<1>1. CASE UNCHANGED vars
  <2>1. /\ UNCHANGED << schedVars, clockVars, priority, pc, panic, synchVars >>
    BY <1>1 DEF vars
  <2>2. UNCHANGED Sys!vars
    BY <2>1, SysStutter DEF SysPc, SysPanic
  <2>3. DonateInv'
    BY <1>0, <2>1 DEF DonateInv, synchVars, donateVars
  <2>4. WaitsAreSound'
    <3>1. /\ waiters' = waiters /\ value' = value /\ target' = target /\ pc' = pc
          /\ status' = status /\ destruction_req' = destruction_req /\ sleep_list' = sleep_list
      BY <2>1 DEF synchVars, semaVars, schedVars, clockVars
    <3>2. /\ \A t \in Range(sleep_list) : t \in Thread
          /\ status \in [Thread -> Live] /\ destruction_req = << >>
          /\ value \in [AnySema -> Nat]
          /\ \A s \in AnySema : value'[s] \in Nat /\ value'[s] =< value[s]
      BY <1>0, <3>1, SystemFacts DEF WaitsAreSound, WaitInv, LInv, LockTypes, Client
    <3> QED BY <1>0, <3>1, <3>2, StillWaiting
  <2> QED BY <2>2, <2>3, <2>4
<1>2. CASE SchedStep
  BY <1>0, <1>2, SchedStepWaits
<1>3. ASSUME NEW self \in Client, SynchStep(self)
      PROVE  [Sys!Next]_(Sys!vars) /\ DonateInv' /\ WaitsAreSound'
  BY <1>3, SynchStepSystem
<1>4. ASSUME NEW s \in IntrSema, IntrSemaUp(s)
      PROVE  [Sys!Next]_(Sys!vars) /\ DonateInv' /\ WaitsAreSound'
  BY <1>0, <1>4, Names, IntrUpStep
<1> QED
  BY ONLY [Next]_vars, <1>1, <1>2, <1>3, <1>4 DEF Next

(* SInv is an inductive invariant of the threads and their synchronization. *)
THEOREM SynchInvariance == Spec => []SInv
<1>1. SInv /\ LInv' /\ [Next]_vars => SInv'
  <2> SUFFICES ASSUME SInv, LInv', [Next]_vars PROVE SInv'
    OBVIOUS
  <2>1. [Sys!Next]_(Sys!vars) /\ DonateInv' /\ WaitsAreSound'
    BY StepsAreScheduled
  <2>2. SysP!IInv'
    BY <2>1, SystemStep DEF SInv
  <2> QED BY <2>1, <2>2 DEF SInv
<1> QED
  BY InitSInv, <1>1, LockInvariance, PTL DEF Spec

(* The variables of semaphores, locks and donations have their types,      *)
(* whatever the number of threads and the order of their steps.            *)
THEOREM TypeCorrect == Spec => []TypeOK
<1>1. SInv => TypeOK
  <2> SUFFICES ASSUME SInv PROVE TypeOK
    OBVIOUS
  <2>1. walk \in [Thread -> Walk]
    BY DEF SInv, DonateInv
  <2>2. \A t \in Thread :
           walk[t] \in [from : Thread \cup {NULL}, lock : Lock \cup {NULL},
                        depth : 0 .. MaxDepth, to : Thread \cup {NULL}, pri : Priority]
    BY <2>1 DEF Walk, Client
  <2>3. walk \in [Thread -> [from : Thread \cup {NULL}, lock : Lock \cup {NULL},
                             depth : 0 .. MaxDepth, to : Thread \cup {NULL}, pri : Priority]]
    BY <2>1, <2>2
  <2> QED BY <2>3, SystemFacts
          DEF SInv, TypeOK, LInv, LockTypes, DonateInv, WaitsAreSound, WaitInv
<1> QED
  BY SynchInvariance, <1>1, PTL

(* sema_up loses no wakeup, and the wait lists, the run queue and the      *)
(* sleep queue never share an element.                                     *)
THEOREM WaitListsCorrect == Spec => []WaitListsAreSound
<1>1. SInv => WaitListsAreSound
  <2> SUFFICES ASSUME SInv PROVE WaitListsAreSound
    OBVIOUS
  <2>1. WaitInv /\ NoLostWakeup /\ SysP!IInv
    BY DEF SInv, WaitsAreSound
  <2>2. \A t \in Range(ready_list) : status[t] = "ready"
    BY <2>1, SystemFacts
  <2>3. \A t \in Range(sleep_list) : status[t] = "blocked" /\ pc[t] # "woken"
    BY <2>1, SystemFacts DEF WaitInv
  <2>4. ElemInOneList
    BY <2>1, <2>2, <2>3 DEF ElemInOneList, WaitInv
  <2> QED BY <2>1, <2>4 DEF WaitListsAreSound
<1> QED
  BY SynchInvariance, <1>1, PTL

(* When nothing can run, whoever holds a lock others wait for waits too:   *)
(* no release of a lock leaves its waiters behind.                         *)
THEOREM NoStall == Spec => []NoLockStall
<1>1. SInv => NoLockStall
  <2> SUFFICES ASSUME SInv, current = Idle, ready_list = << >>,
                      NEW l \in Lock, waiters[l] # << >>
               PROVE  \E t \in Client : l \in held[t] /\ status[t] = "blocked"
                                        /\ (pc[t] = "woken" \/ t \in Range(sleep_list))
    BY DEF NoLockStall
  <2>0. LInv /\ SysP!IInv /\ DonateInv /\ WaitInv /\ NoLostWakeup /\ l \in AnySema
    BY Names DEF SInv, WaitsAreSound
  <2>1. \A t \in Client : status[t] = "blocked"
    <3>1. Range(ready_list) = {}
      BY DEF Range
    <3>2. \A t \in Client : status[t] # "ready" /\ status[t] # "running"
      BY <2>0, <3>1, SystemFacts DEF Client
    <3> QED BY <2>0, <3>2 DEF WaitInv, Live, Client
  <2>2. OnTheWay(l) = {}
    BY <2>0, <2>1 DEF OnTheWay, WaitInv, Client
  <2>3. value[l] =< 0
    BY <2>0, <2>2, LostWakeup, FS_EmptySet DEF Enough
  <2>4. PICK t \in Thread : l \in held[t]
    BY <2>0, <2>3 DEF LInv, ValueInv
  <2>5. t \in Client
    BY <2>0, <2>4 DEF DonateInv, Client
  <2> QED BY <2>0, <2>1, <2>4, <2>5 DEF WaitInv
<1> QED
  BY SynchInvariance, <1>1, PTL

(* Every step of synch.c is, for the scheduler, a step of thread.c or none. *)
THEOREM SchedulerImplements == Spec => SchedulerSteps
<1>1. SInv /\ [Next]_vars => [Sys!Next]_(Sys!vars)
  BY StepsAreScheduled
<1> QED
  BY SynchInvariance, <1>1, PTL DEF Spec, SchedulerSteps
===============================================================================
