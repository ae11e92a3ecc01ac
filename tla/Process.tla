--------------------------------- MODULE Process ---------------------------------
(***************************************************************************)
(* The life of processes: fork, exec, wait and exit of                     *)
(* userprog/process.c, the system calls that hold filesys_lock             *)
(* (userprog/syscall.c) and the exceptions that end a process              *)
(* (userprog/exception.c).                                                 *)
(*                                                                         *)
(* All of it runs with interrupts on; user processes have one priority, so *)
(* any of them may run between two accesses to shared state.  A step is    *)
(* one such access, or one operation on a semaphore or on filesys_lock,    *)
(* whose promises module Synch is about: sema_down waits for a positive    *)
(* value and takes one unit.                                               *)
(***************************************************************************)
EXTENDS Integers, Sequences, SequencesExt

CONSTANTS
  Proc,        \* the processes there may ever be: a tid is not used twice
  Main,        \* the kernel thread that starts initd and waits for it
  Initd,
  UserStatus,  \* the codes programs pass to exit
  NULL

(* What the kernel passes to exit: for a fault or a failed exec, and for a *)
(* process that could not be forked; a new struct thread holds 0.          *)
FAULT == -1
NOT_FORKED == -2

ASSUME ProcessAssumption ==
  /\ Main \in Proc /\ Initd \in Proc /\ Main # Initd /\ NULL \notin Proc
  /\ UserStatus \subseteq Int

VARIABLES
  pc,           \* where each process stands
  child_list,
  load_sema, wait_sema, exit_sema,  \* values of the semaphores of struct thread
  exit_status,
  fs_holder,    \* filesys_lock's holder
  child,        \* local of fork and wait: the struct thread they work on
  status,       \* local of process_wait: the status it will return
  forked,       \* history: what fork told about each process
  panic         \* the freed memory the kernel has touched, or "none"

semas == << load_sema, wait_sema, exit_sema >>
vars == << pc, child_list, semas, exit_status, fs_holder, child, status, forked, panic >>

-------------------------------------------------------------------------------
(* initd runs its program; main is in process_wait. *)
Init ==
  /\ pc = [p \in Proc |-> CASE p = Main -> "wait_down" [] p = Initd -> "user"
                            [] OTHER -> "none"]
  /\ child_list = [p \in Proc |-> IF p = Main THEN << Initd >> ELSE << >>]
  /\ load_sema = [p \in Proc |-> 0]
  /\ wait_sema = [p \in Proc |-> 0]
  /\ exit_sema = [p \in Proc |-> 0]
  /\ exit_status = [p \in Proc |-> 0]
  /\ fs_holder = NULL
  /\ child = [p \in Proc |-> IF p = Main THEN Initd ELSE NULL]
  /\ status = [p \in Proc |-> 0]
  /\ forked = [p \in Proc |-> "no"]
  /\ panic = "none"

At(p, l) == pc[p] = l /\ panic = "none"

Goto(p, l) == pc' = [pc EXCEPT ![p] = l]

(* Main goes on to power_off. *)
Return(p) == Goto(p, IF p = Main THEN "done" ELSE "user")

(* A dead thread's page is freed when the scheduler runs next. *)
Freed(p) == pc[p] = "dead"

Down(s, p) == s[p] > 0 /\ s' = [s EXCEPT ![p] = @ - 1]
Up(s, p) == s' = [s EXCEPT ![p] = @ + 1]

-------------------------------------------------------------------------------
(* fork, the parent *)

(***************************************************************************)
(* thread_create links the new thread at the end of the parent's list,     *)
(* which writes to the element that was last.  It fails after that when    *)
(* there is no memory for a descriptor table; the thread stays there,      *)
(* blocked.  A failure before it changes nothing.                          *)
(***************************************************************************)
Fork(p, c) ==
  /\ At(p, "user") /\ pc[c] = "none"
  /\ IF child_list[p] # << >> /\ Freed(Last(child_list[p]))
     THEN /\ panic' = "child_list"
          /\ UNCHANGED << pc, child_list, child >>
     ELSE /\ child_list' = [child_list EXCEPT ![p] = Append(@, c)]
          /\ \/ /\ pc' = [pc EXCEPT ![p] = "fork_find", ![c] = "copy"]
                /\ child' = [child EXCEPT ![p] = c]
             \/ /\ pc' = [pc EXCEPT ![c] = "stillborn"]
                /\ UNCHANGED child
          /\ UNCHANGED panic
  /\ UNCHANGED << semas, exit_status, fs_holder, status, forked >>

(* The elements process_get_child looks at until it finds c. *)
Visited(s, c) == { s[i] : i \in { j \in 1 .. Len(s) : c \notin { s[k] : k \in 1 .. j - 1 } } }

(* Mutant of ForkFindChild: the parent does not wait for its child's copy. *)
ForkFindChildOnly(p) ==
  /\ At(p, "fork_find")
  /\ Goto(p, "fork_check")
  /\ UNCHANGED << child_list, semas, exit_status, fs_holder, child, status, forked, panic >>

ForkFindChild(p) ==
  /\ At(p, "fork_find")
  /\ IF \E c \in Visited(child_list[p], child[p]) : Freed(c)
     THEN panic' = "child_list" /\ UNCHANGED pc
     ELSE Goto(p, "fork_load") /\ UNCHANGED panic
  /\ UNCHANGED << child_list, semas, exit_status, fs_holder, child, status, forked >>

ForkAwaitLoad(p) ==
  /\ At(p, "fork_load") /\ ~ Freed(child[p])
  /\ Down(load_sema, child[p])
  /\ Goto(p, "fork_check")
  /\ UNCHANGED << child_list, wait_sema, exit_sema, exit_status, fs_holder, child, status,
                  forked, panic >>

(* The child is taken for one that could not be loaded by its exit_status; *)
(* it is let go, and stays in the list of its parent.                      *)
ForkCheck(p) ==
  LET c == child[p]
  IN  /\ At(p, "fork_check") /\ ~ Freed(c)
      /\ \/ /\ exit_status[c] = NOT_FORKED
            /\ Up(exit_sema, c)
            /\ forked' = [forked EXCEPT ![c] = "error"]
         \/ /\ exit_status[c] # NOT_FORKED
            /\ UNCHANGED exit_sema
            /\ forked' = [forked EXCEPT ![c] = "tid"]
      /\ child' = [child EXCEPT ![p] = NULL]
      /\ Goto(p, "user")
      /\ UNCHANGED << child_list, load_sema, wait_sema, exit_status, fs_holder, status,
                      panic >>

-------------------------------------------------------------------------------
(* fork, the child *)

(* __do_fork copies the parent's address space and descriptors, or fails;  *)
(* either way it wakes the parent.                                         *)
Copy(c) ==
  /\ At(c, "copy")
  /\ Up(load_sema, c)
  /\ \/ Goto(c, "user")
     \/ Goto(c, "copy_failed")
  /\ UNCHANGED << child_list, wait_sema, exit_sema, exit_status, fs_holder, child, status,
                  forked, panic >>

(* ... and ends with exit(-2) if it has failed. *)
CopyFailed(c) ==
  /\ At(c, "copy_failed")
  /\ exit_status' = [exit_status EXCEPT ![c] = NOT_FORKED]
  /\ Goto(c, "exit_up")
  /\ UNCHANGED << child_list, semas, fs_holder, child, status, forked, panic >>

-------------------------------------------------------------------------------
(* exit *)

(* What every end of a process by exit(s) begins with. *)
Exiting(p, s) ==
  /\ exit_status' = [exit_status EXCEPT ![p] = s]
  /\ Goto(p, "exit_up")

Exit(p, s) ==
  /\ At(p, "user")
  /\ Exiting(p, s)
  /\ UNCHANGED << child_list, semas, fs_holder, child, status, forked, panic >>

(* A page fault that vm_try_handle_fault refuses. *)
PageFault(p) ==
  /\ At(p, "user")
  /\ Exiting(p, FAULT)
  /\ UNCHANGED << child_list, semas, fs_holder, child, status, forked, panic >>

(* kill, for any other exception: thread_exit without a status. *)
Kill(p) ==
  /\ At(p, "user")
  /\ Goto(p, "exit_up")
  /\ UNCHANGED << child_list, semas, exit_status, fs_holder, child, status, forked,
                  panic >>

(* Mutants of ExitWakesParent: it does not wait to be let go; it wakes     *)
(* nobody.                                                                 *)
ExitAtOnce(p) ==
  /\ At(p, "exit_up")
  /\ Up(wait_sema, p)
  /\ Goto(p, "dead")
  /\ UNCHANGED << child_list, load_sema, exit_sema, exit_status, fs_holder, child, status,
                  forked, panic >>

ExitWakesNobody(p) ==
  /\ At(p, "exit_up")
  /\ Goto(p, "exit_down")
  /\ UNCHANGED << child_list, semas, exit_status, fs_holder, child, status, forked, panic >>

(* process_exit gives up the process's resources and wakes a parent that   *)
(* waits, now or later.                                                    *)
ExitWakesParent(p) ==
  /\ At(p, "exit_up")
  /\ Up(wait_sema, p)
  /\ Goto(p, "exit_down")
  /\ UNCHANGED << child_list, load_sema, exit_sema, exit_status, fs_holder, child, status,
                  forked, panic >>

(* Let go by the parent, the thread dies and its page is freed. *)
ExitDies(p) ==
  /\ At(p, "exit_down")
  /\ Down(exit_sema, p)
  /\ Goto(p, "dead")
  /\ UNCHANGED << child_list, load_sema, wait_sema, exit_status, fs_holder, child, status,
                  forked, panic >>

-------------------------------------------------------------------------------
(* process_wait: look for c, which may be anything a program passes ... *)
Wait(p, c) ==
  /\ At(p, "user")
  /\ IF \E d \in Visited(child_list[p], c) : Freed(d)
     THEN panic' = "child_list" /\ UNCHANGED << pc, child >>
     ELSE /\ c \in Range(child_list[p])
          /\ child' = [child EXCEPT ![p] = c]
          /\ Goto(p, "wait_down")
          /\ UNCHANGED panic
  /\ UNCHANGED << child_list, semas, exit_status, fs_holder, status, forked >>

(* ... wait for it to exit and read its status ... *)
WaitDown(p) ==
  /\ At(p, "wait_down") /\ ~ Freed(child[p])
  /\ Down(wait_sema, child[p])
  /\ Goto(p, "wait_read")
  /\ UNCHANGED << child_list, load_sema, exit_sema, exit_status, fs_holder, child, status,
                  forked, panic >>

WaitRead(p) ==
  /\ At(p, "wait_read") /\ ~ Freed(child[p])
  /\ status' = [status EXCEPT ![p] = exit_status[child[p]]]
  /\ Goto(p, "wait_remove")
  /\ UNCHANGED << child_list, semas, exit_status, fs_holder, child, forked, panic >>

(* The elements list_remove writes to when it unlinks c. *)
Neighbours(s, c) ==
  { s[i] : i \in { j \in 1 .. Len(s) : \/ j + 1 \in 1 .. Len(s) /\ s[j + 1] = c
                                       \/ j - 1 \in 1 .. Len(s) /\ s[j - 1] = c } }

(* ... unlink it, after a millisecond of sleep ... *)
WaitRemove(p) ==
  /\ At(p, "wait_remove") /\ ~ Freed(child[p])
  /\ IF \E c \in Neighbours(child_list[p], child[p]) : Freed(c)
     THEN panic' = "child_list" /\ UNCHANGED << pc, child_list >>
     ELSE /\ child_list' = [child_list EXCEPT ![p] = RemoveFirst(@, child[p])]
          /\ Goto(p, "wait_up")
          /\ UNCHANGED panic
  /\ UNCHANGED << semas, exit_status, fs_holder, child, status, forked >>

(* ... and let it die. *)
WaitUp(p) ==
  /\ At(p, "wait_up") /\ ~ Freed(child[p])
  /\ Up(exit_sema, child[p])
  /\ child' = [child EXCEPT ![p] = NULL]
  /\ Return(p)
  /\ UNCHANGED << child_list, load_sema, wait_sema, exit_status, fs_holder, status, forked,
                  panic >>

(* fork or wait goes on with the struct thread of a child that is gone. *)
UseAfterFree(p) ==
  /\ child[p] # NULL /\ Freed(child[p]) /\ panic = "none"
  /\ pc[p] # "fork_find"
  /\ panic' = "child"
  /\ UNCHANGED << pc, child_list, semas, exit_status, fs_holder, child, status, forked >>

-------------------------------------------------------------------------------
(* filesys_lock *)

(***************************************************************************)
(* lock_acquire, on the way from l1 to l2.  A holder that has died with    *)
(* the lock is still followed by the donation of its next waiter.          *)
(***************************************************************************)
Acquire(p, l1, l2) ==
  /\ At(p, l1)
  /\ \/ /\ fs_holder = NULL
        /\ fs_holder' = p
        /\ Goto(p, l2)
        /\ UNCHANGED panic
     \/ /\ fs_holder # NULL /\ Freed(fs_holder)
        /\ panic' = "lock_holder"
        /\ UNCHANGED << pc, fs_holder >>
  /\ UNCHANGED << child_list, semas, exit_status, child, status, forked >>

Release(p, l1, l2) ==
  /\ At(p, l1)
  /\ fs_holder' = NULL
  /\ Goto(p, l2)
  /\ UNCHANGED << child_list, semas, exit_status, child, status, forked, panic >>

(* read, write, open, create and the others: filesys_lock around the call. *)
FileCall(p) ==
  /\ At(p, "user") /\ Goto(p, "fs_acquire")
  /\ UNCHANGED << child_list, semas, exit_status, fs_holder, child, status, forked, panic >>

FileCallAcquires(p) == Acquire(p, "fs_acquire", "fs")

FileCallReturns(p) == Release(p, "fs", "user")

(* The buffer of read or write reaches a page that is not there: the page  *)
(* fault ends the process inside the call.                                 *)
FileCallFaults(p) ==
  /\ At(p, "fs")
  /\ Exiting(p, FAULT)
  /\ UNCHANGED << child_list, semas, fs_holder, child, status, forked, panic >>

(* exec: the address space is given up before the file is looked for. *)
Exec(p) ==
  /\ At(p, "user") /\ Goto(p, "load_open")
  /\ UNCHANGED << child_list, semas, exit_status, fs_holder, child, status, forked, panic >>

LoadOpens(p) == Acquire(p, "load_open", "load_opening")

LoadOpened(p) == Release(p, "load_opening", "load_header")

LoadReads(p) == Acquire(p, "load_header", "load_reading")

LoadReadDone(p) == Release(p, "load_reading", "load_rest")

(* A header that is none: load returns without releasing filesys_lock. *)
LoadBadHeader(p) ==
  /\ At(p, "load_reading")
  /\ Exiting(p, FAULT)
  /\ UNCHANGED << child_list, semas, fs_holder, child, status, forked, panic >>

(* After a header: another program header is read, or the program starts.  *)
(* Outside of filesys_lock, load fails for want of a file, memory or a     *)
(* valid segment, and with it exec.                                        *)
LoadEnds(p) ==
  /\ \/ At(p, "load_rest") /\ (Goto(p, "load_header") \/ Goto(p, "user")) /\ UNCHANGED exit_status
     \/ /\ At(p, "load_open") \/ At(p, "load_header") \/ At(p, "load_rest")
        /\ Exiting(p, FAULT)
  /\ UNCHANGED << child_list, semas, fs_holder, child, status, forked, panic >>

-------------------------------------------------------------------------------
(* The steps a process takes once it has entered the kernel ... *)
KernelStep(p) ==
  \/ ForkFindChild(p) \/ ForkAwaitLoad(p) \/ ForkCheck(p)
  \/ Copy(p) \/ CopyFailed(p)
  \/ ExitWakesParent(p) \/ ExitDies(p)
  \/ WaitDown(p) \/ WaitRead(p) \/ WaitRemove(p) \/ WaitUp(p)
  \/ UseAfterFree(p)
  \/ FileCallAcquires(p) \/ FileCallReturns(p) \/ FileCallFaults(p)
  \/ LoadOpens(p) \/ LoadOpened(p) \/ LoadReads(p) \/ LoadReadDone(p) \/ LoadBadHeader(p)
  \/ LoadEnds(p)

(* ... and those its program makes it take. *)
UserStep(p) ==
  \/ \E c \in Proc : Fork(p, c) \/ Wait(p, c)
  \/ \E s \in UserStatus : Exit(p, s)
  \/ PageFault(p) \/ Kill(p) \/ FileCall(p) \/ Exec(p)

Next == \E p \in Proc : KernelStep(p) \/ UserStep(p)

Spec == Init /\ [][Next]_vars

(* Processes have one priority and take turns, so a process that can go on *)
(* inside the kernel does.  Programs may compute for ever.                 *)
FairSpec == Spec /\ \A p \in Proc : WF_vars(KernelStep(p))

-------------------------------------------------------------------------------
PC == {"none", "stillborn", "user", "done", "dead",
       "fork_find", "fork_load", "fork_check", "copy", "copy_failed",
       "exit_up", "exit_down", "wait_down", "wait_read", "wait_remove", "wait_up",
       "fs_acquire", "fs", "load_open", "load_opening", "load_header", "load_reading",
       "load_rest"}

TypeOK ==
  /\ pc \in [Proc -> PC]
  /\ child_list \in [Proc -> Seq(Proc)]
  /\ load_sema \in [Proc -> 0 .. 1] /\ wait_sema \in [Proc -> 0 .. 1]
  /\ exit_sema \in [Proc -> 0 .. 2]
  /\ exit_status \in [Proc -> UserStatus \cup {0, FAULT, NOT_FORKED}]
  /\ fs_holder \in Proc \cup {NULL}
  /\ child \in [Proc -> Proc \cup {NULL}]
  /\ status \in [Proc -> UserStatus \cup {0, FAULT, NOT_FORKED}]
  /\ forked \in [Proc -> {"no", "tid", "error"}]
  /\ panic \in {"none", "child", "child_list", "lock_holder"}

(* A child copies its parent's page table and descriptors only while the   *)
(* parent stands in process_fork, where it changes neither and cannot die  *)
(* (the hint in __do_fork).                                                *)
ForkerStandsStill ==
  \A c \in Proc : pc[c] = "copy" =>
    \E p \in Proc : child[p] = c /\ pc[p] \in {"fork_find", "fork_load"}

(* The struct thread a parent works on in fork or wait is not freed under  *)
(* it, and from the sema_down of wait_sema on it belongs to a process that *)
(* has set its status and only waits to be let go; but not that of a child *)
(* fork has given up and left in the list.                                 *)
ChildOutlivesItsUse ==
  \A p \in Proc : child[p] # NULL /\ forked[child[p]] # "error" =>
    /\ ~ Freed(child[p])
    /\ pc[p] \in {"wait_read", "wait_remove", "wait_up"} => pc[child[p]] = "exit_down"

(* Everyone's list holds its own children, each once; a child that is gone *)
(* is out of it, unless fork has given it up.                              *)
ChildrenAreListed ==
  /\ \A p, q \in Proc : p # q => Range(child_list[p]) \cap Range(child_list[q]) = {}
  /\ \A p \in Proc : IsInjective(child_list[p])
  /\ \A p \in Proc : \A c \in Range(child_list[p]) : Freed(c) => forked[c] = "error"

(* Parents and children agree on who is alive, through fork, exit and wait *)
(* in any order, with semaphores that are never upped twice.               *)
FamilyIsSound ==
  /\ TypeOK
  /\ ChildOutlivesItsUse
  /\ ChildrenAreListed

(* fork returns: the child signals once, whether it succeeds or fails. *)
ForkReturns ==
  \A p \in Proc : (pc[p] = "fork_load") ~> (pc[p] # "fork_load" \/ panic # "none")

(* A parent that waits for a child that exits is woken, also when the      *)
(* child was first.                                                        *)
ExitEndsWait ==
  \A p \in Proc :
    (pc[p] = "wait_down" /\ pc[child[p]] = "exit_up")
       ~> (pc[p] # "wait_down" \/ panic # "none")

(* Nobody sleeps for ever on a child that has come to its signal.          *)
CallsReturn == ForkReturns /\ ExitEndsWait
==================================================================================
