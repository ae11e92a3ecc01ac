# Verification of the JUNGLE Pintos-KAIST kernel

TLA+ models of the kernel in `src/pintos-kaist`, TLC configurations that check
them on small instances, and TLAPS proofs for every instance.  File names below
are relative to `src/pintos-kaist`.

The kernel is built with `THREADS`, `USERPROG`, `FILESYS` and `VM`, at `-O0`
(`Make.config:19`): every read of shared memory in the source is a read in the
program, and two reads of one field are two chances for another thread to run.
There is one CPU.  Interrupts are the only source of interleaving: code that
runs with interrupts off is atomic, everything else can be interrupted between
any two accesses to shared state.

## Inventory

| part | state | operations | who calls it |
|---|---|---|---|
| lists (`lib/kernel/list.c`) | pointers inside the elements | insert, ordered insert, splice, sort, unique, reverse, pop, remove | everybody |
| hash tables (`lib/kernel/hash.c`) | buckets of lists, `elem_cnt` | insert, replace, find, delete, iterate, clear, rehash | supplemental page tables |
| thread system (`threads/thread.c`) | `status`, `priority`, run queue `ready_list`, `sleep_list`, `destruction_req`, `thread_ticks` | create, block, unblock, yield, exit, set priority, `check_and_preempt`, `idle`, `schedule` | synchronization, processes, interrupt return |
| alarm clock (`devices/timer.c`) | `ticks`, `wakeup_tick` | `timer_sleep`, timer interrupt, `thread_check_sleep_list` | any thread; hardware |
| interrupts (`threads/interrupt.c`) | `in_external_intr`, `yield_on_return` | `intr_handler`, `intr_yield_on_return` | hardware |
| semaphores (`threads/synch.c`) | `value`, `waiters` | down, try down, up | threads; disk interrupt (up) |
| locks, priority donation (`synch.c`, `thread.c`) | `holder`, `wait_lock`, `donations`, `original_priority` | acquire, try, release, `donate_priority`, `remove_with_lock`, `refresh_priority` | allocators, file system, system calls, disk |
| condition variables (`synch.c`) | list of one-shot semaphores | wait, signal, broadcast | tests |
| disk (`devices/disk.c`) | channel lock, `completion_wait`, `expecting_interrupt` | reset and identify, read, write, interrupt | file system, swap |
| interrupt queues (`intq.c`, `serial.c`, `kbd.c`, `input.c`) | ring buffer, one waiting reader, one waiting writer | getc, putc | threads; serial and keyboard interrupts |
| console (`lib/kernel/console.c`, `lib/stdio.c`) | `console_lock` and its depth | printf, puts, putbuf, snprintf | everybody |
| processes (`userprog/process.c`) | `child_list`, `load_sema`, `wait_sema`, `exit_sema`, `exit_status`, descriptor table | fork, exec, wait, exit, load | system calls |
| system calls, faults (`syscall.c`, `exception.c`) | `filesys_lock` | the call table, `page_fault` | user programs |
| virtual memory (`vm/*.c`) | supplemental page tables, `frame_list`, swap table, page tables | allocate, claim, evict, swap in and out, copy, mmap | page faults, fork, exec, exit |
| file system (`filesys/*.c`) | open inodes and their counts, free map in memory and on disk, root directory | create, open, close, remove, read, write, deny write | system calls, load |
| page tables (`threads/mmu.c`) | four levels of table pages | walk, set, clear, dirty bits, destroy | virtual memory, fork, exec, exit |
| allocators (`palloc.c`, `malloc.c`, `bitmap.c`) | bitmaps under a pool lock, arenas and free lists | get, free | everybody |
| MLFQS, FAT, page cache | none | stubs | nobody |

How they interact: every blocking operation comes down to `thread_block` under
a semaphore (or to the two slots of an interrupt queue), every wake-up to
`thread_unblock`; the scheduler knows nothing of who waits for what.  Locks
call into the thread system (donation) and the thread system calls back into
locks (`allocate_tid`, `palloc`).  Interrupt handlers call `thread_unblock`,
`sema_up` and the interrupt queues, and may not sleep.  Page faults re-enter
the kernel from inside system calls, with whatever locks those hold.

What is hard here:

* the preemption points inside `lock_acquire`, `lock_release`,
  `thread_set_priority` and `check_and_preempt`, which run with interrupts on
  and read shared fields more than once;
* the run queue, the sleep queue and the wait lists share one list element in
  `struct thread`, and nothing but the thread's state keeps them apart;
* priorities change while threads stand in lists ordered by priority;
* a dead thread's page is freed by somebody else, later;
* Mesa-style semaphores: a woken thread competes for what it was woken for;
* above that layer, process exit, eviction of another process's page, and
  error paths that leave `filesys_lock` held.

What makes each part correct, and where it is (or will be) stated:

* thread system: the run queue is the set of ready threads, one thread runs,
  the dead are freed once and late, ready threads of one level take turns;
* alarm clock: nobody is woken early, nobody oversleeps, everybody wakes;
* semaphores and locks: no lost wake-up, mutual exclusion, whoever releases
  holds, nobody is stuck on a free lock, only the scheduler schedules;
* donation: that a thread never runs below its own priority, inherits the
  priority of whoever waits for it, and loses it at release, is what the
  documents say and what the code does not quite do (see below); what does hold
  is that no race of donations disturbs the locks, the run queue or the threads
  in wait;
* processes: fork and wait never work on a struct thread that is gone, the
  parent stands still while it is copied, and whoever waits for a child that
  exits is woken, whichever comes first;
* condition variables: a thread in `cond_wait` is listed or has been given its
  one wake-up, and a signal wakes the most urgent of the sleepers;
* disk: a transfer is completed by its own interrupt and leaves nothing to the
  next one;
* interrupt queues: no byte is lost or reordered, a waiting thread is the one
  the queue remembers, the UART's interrupts are enabled when there is work;
* virtual memory: a page is in one frame or in one swap slot, with the content
  the program left there, and a store to a mapped file reaches the file if the file
  can be written;
* file system: the counts of an inode are the number of its openers, an open
  file keeps its sectors even when it is removed, and the directory on the disk
  never names sectors that are not marked;
* allocators, page tables, hash tables, lists: what is handed out belongs to
  one owner, failures leave no trace, and a routine does what its users expect;
* loader: the pages and bytes the headers ask for, as far as 32 bits count them;
* argument stack, transfer of file data, printf: pure algorithms, right
  when they agree with a definition that does not know how they work.

## Modules

| module | models | built on |
|---|---|---|
| `KernelList` | the list operations the kernel's queues use, as operators on sequences | SequencesExt |
| `Threads` | `thread.c`, the alarm clock, the timer interrupt | `KernelList` |
| `LockService` | what a lock promises (abstract) | |
| `Synch` | semaphores, locks, priority donation | an instance of `Threads` |
| `Process` | fork, exec and load, wait and exit; `filesys_lock` and the faults under it | the promises of `Synch` |
| `VM` | `vm/*.c` with what fork, exec and exit do to an address space | |
| `FileStore` | what the disk promises about files (abstract) | |
| `Files` | `filesys/*.c`, descriptors, the running file, `filesys_lock`, halt and reboot | refines `FileStore` |
| `Disk` | `devices/disk.c` and an ATA controller | the promises of `Synch` |
| `Terminal` | `intq.c`, `input.c`, `serial.c`, the end of `kbd.c`, the console's lock, a UART | the promises of `Synch` |
| `Monitor` | condition variables | `KernelList`, the promises of `Synch` |
| `Memory` | `palloc.c` on its bitmap, `malloc.c` on top | the promises of `Synch` |
| `HashTable` | `hash.c` | |
| `PageTable` | `mmu.c` | |
| `LinkedList` | `list.c` at the level of pointers | compared with `KernelList` |
| `FileData` | `inode_read_at`, `inode_write_at`, `file.c` | |
| `Loader` | program headers to reserved pages to bytes | |
| `Arguments` | `argument_stack` | |
| `Format` | one printf conversion, `vsnprintf` | |
| `ThreadsMC`, `SynchMC`, `ProcessMC`, `VMMC`, `FilesMC` | small instances | |
| `StructuresMC` | one instance each of `Monitor` to `Format`; the variable `part` says which of them a behaviour is about, the variables of the others stay `NULL` | |
| `KernelListProofs` | lemmas about the lists | TLAPS |
| `ThreadsProofs`, `SynchProofs`, `ProcessProofs`, `DiskProofs`, `TerminalProofs`, `VMProofs`, `FilesProofs` | theorems about the module in their name | TLAPS, `KernelListProofs`; `SynchProofs` an instance of `ThreadsProofs` |

### State

The variables have the names of the fields and globals they stand for.  A list
is the sequence of its elements; `thread_priority_cmp` and its like become the
`key` function of `InsertDescending` and `InsertAscending`.  Three variables
have no field of their own:

* `pc[t]` is where thread `t` stands inside a routine that runs with interrupts
  on; `target`, `walk` are that routine's local variables;
* `panic` names the assertion or the null pointer that has stopped the kernel
  (or, for `null_holder`, ended the thread that followed it): no step is taken
  after it, so every invariant speaks of the execution up to the first failure;
* `held` (history): the locks a thread has taken and not yet given back,
  from the `sema_down` to the `sema_up`; `holder` lags behind it in the code.

### Steps

An action is what the code does with interrupts off, or one access to shared
state made with interrupts on.

| action | code |
|---|---|
| `ThreadCreate`, `ThreadCreateFails` | `thread_create`, up to `check_and_preempt`; the error return that leaves a blocked thread behind |
| `ThreadSetPriority`, `Rebase`, `FallBack` | `thread_set_priority`: the write of `priority`, that of `original_priority`, and the reset at the start of its `refresh_priority` |
| `CheckAndPreempt`, `PreemptToFront` | the two halves of `check_and_preempt` when its caller leaves interrupts on |
| `ThreadYield`, `ThreadBlock`, `ThreadUnblock`, `ThreadExit`, `IdleLoop` | the functions of those names; `ThreadUnblock` goes on into the `check_and_preempt` of its caller `sema_up` |
| `IntrUnblock`, `IntrSemaUp` | `sema_up` in a device's interrupt handler |
| `TimerSleep`, `ThreadSleep` | `timer_sleep` up to and from the point where interrupts go off |
| `TimerInterrupt`, `WakeSleeper`, `TimerReturn` | `intr_handler` with `timer_interrupt`, `thread_tick`, one round of `thread_check_sleep_list`, and the return |
| `SemaDown`, `Woken` | the first and each further round of `sema_down`'s loop |
| `SemaUp` | `sema_up` |
| `LockAcquire`, `LinkDonor`, `LockDown`, `Woken`, `LockAcquired` | `lock_acquire` from its test of the holder to the end |
| `DonatePriority`, `DonateCompare`, `DonateRaise`, `DonateHop` | a hop of `donate_priority`: the test and the read of the holder's priority (`thread.c:485`), the comparison with the donor's and the read of the holder to write to, the write (`thread.c:484`), and the step to the next lock |
| `LockTryAcquire`, `LockAcquired` | `lock_try_acquire` when it succeeds (it changes nothing otherwise) |
| `LockRelease`, `FallBack`, `RefreshPriority`, `AdoptPriority`, `LockUnhold`, `LockUp` | `lock_release` with `remove_with_lock`, the reset, the comparison and the write of `refresh_priority`, the reset of the holder and `sema_up` |

| action of `Process` | code |
|---|---|
| `Fork`, `ForkFindChild`, `ForkAwaitLoad`, `ForkCheck` | `process_fork`: `thread_create`, `process_get_child`, `sema_down`, the test of `exit_status` |
| `Copy`, `CopyFailed` | `__do_fork` up to its `sema_up`, on either path; its `exit(-2)` |
| `Exit`, `PageFault`, `Kill`, `ExitWakesParent`, `ExitDies` | the ways into `thread_exit`; `process_exit` up to the `sema_up` of `wait_sema`, and its `sema_down` of `exit_sema` |
| `Wait`, `WaitDown`, `WaitRead`, `WaitRemove`, `WaitUp` | the statements of `process_wait` |
| `FileCall`, `FileCallAcquires`, `FileCallReturns`, `FileCallFaults` | a system call on a file, with `filesys_lock` around it |
| `Exec`, `LoadOpens`, `LoadOpened`, `LoadReads`, `LoadReadDone`, `LoadBadHeader`, `LoadEnds` | `exec`, and `load` cut at its uses of `filesys_lock` |

`Process` is a layer above: a semaphore is its value, and `filesys_lock` its
holder, which is what `SynchProofs` and the runs of `Synch` entitle it to; user
processes have one priority, so there is no donation to speak of.  `pc` is
again where a process stands, `child` and `status` are locals of `process_fork`
and `process_wait`, `forked` (history) is what fork told about each process.
Its `panic` names the freed memory the kernel has touched: a page of a dead
thread is free as soon as the scheduler runs again.  That happens in this code:
fork leaves a child it has given up in `child_list`, and a process that dies in
`load` or in a system call with `filesys_lock` held remains the lock's holder.

`schedule`, `do_schedule`, `thread_block`, `thread_yield` and `check_and_preempt`
with interrupts off are operators (`Schedule`, `DoSchedule`, `Block`,
`YieldFrom`, `PreemptOrContinue`) that `Synch` uses as the code does.

`WritePriority` stands in `Threads` for the writes other modules make to a
priority without going through the run queue; `Synch` does it with
`DonateRaise`, `FallBack` and `AdoptPriority`, and `SchedulerSteps`
checks that `Synch` does nothing to the scheduler that `Threads` does not have
as a step.

### The other modules

**`VM`**.  A process is in user mode or in one of the steps of `vm_get_frame`
(`GetFrame`, `PopVictim`), `anon_swap_out` (`SwapScan`, `SwapFlip`, `SwapOut`),
`file_backed_swap_out` (`WriteBack`), the rest of `vm_evict_frame` (`Unlink`),
`AppendFrame`, `Link` (`vm_do_claim_page`) and one of the three `swap_in`s.  All
of it runs with interrupts on, so every process may be between any two of these.
`CopyPage`, `MemCpy`, `CopyDone` are the child's copy of its parent's table;
`CloseRunning`, `KillPages`, `DestroyPml4` are the close of the running file
in `process_exit` and `process_cleanup` (`exec` goes through the latter only).
`deny_write` is who denies writing to the mapped file because it is the program that
runs (`NULL` for a program whose process has gone on to another one), and `FileAfter` is what a
write-back at `munmap` or at the end of an address space leaves in the file: nothing new
while writing is denied, and anything if only a part is written; the code does not look at
what `file_write_at` returns.  A read of a program or a mapping may fall short (`ReadFails`),
and the fault then ends the process.  The content of a page is where it
came from (`zero`, `file`, `stored`, `any`); `expect` (history) is what the program may
rely on.  After fork that is what the parent's page has, if it was in memory: a claim that
failed (`vm.c:445` to `vm.c:475`) leaves a frame with anything in it on a page whose content is in a
slot, and `vm.c:560` copies that.  The model stops at ten kernel panics or null pointers (`panic`) and at
the first step after which the structures mean nothing any more (`broken`): the
page table of the wrong process is cleared (`foreign`), a slot is taken twice
(`slot`), two processes are inside the frame list (`list`).  All three happen;
the properties speak of what comes before.

**`Files`**.  `Create` to `Unlock` are `filesys_create` with `free_map_allocate`,
`inode_create` and `dir_add`; `OpenInode` and `ReadInode` are `dir_lookup` and
`inode_open`; `Get...`/`Put...` read and write an inode's counters, in two steps
as compiled; `Test`, `Unlist`, `ReleaseInode`, `ReleaseData`, `FreeInode` are
`inode_close`; `Erase` is `dir_remove`; `LoadOpened` to `Denied` are the parts of
`load` that touch files; `ExitStep` and `Duplicate` are the loops of
`process_exit` and `__do_fork` over the descriptors.  `WriteMap` copies the free
map to the disk some time after it was changed.  `Halt` turns the machine off
between any two steps and boots from what the disk holds.  `lost` (history) counts
the files that nobody can close any more: a failed `load`, the program before an
`exec`, and the copy `mmap` makes.  `raced` becomes true when two processes count
the openers of one inode at once, or the map written is out of date; the run stops
there (`FollowRaces` FALSE), because what follows is arbitrary.

**`Disk`**.  `Path(cmd)` lists the steps of `disk_read`, `disk_write` and
`identify_ata_device` in their order, and a thread advances along it; the controller
(`ResetDone`, `DataReady`, `DataWanted`, `DataWritten`, `Failed`) moves by itself and
raises the interrupt.  `expecting_interrupt` is never reset by the code, nor here.

**`Terminal`**.  Interrupt-queue code runs with interrupts off: one step from
call to return or to the point where the thread blocks.  `AcquireAndWait`,
`LockGranted`, `Woken`, `TakeKey` are `intq_getc` for threads; `SerialInterrupt` is
the whole handler with both loops; `QueueChar`, `SerialPutc` are `serial_putc` with its
polling when the queue is full and interrupts are off.  `panic` is the assertion in
`wait` (`intq.c:84`).

**`Memory`** takes `bitmap_scan`, `bitmap_set_multiple` and the clearing in
`palloc_free_multiple` bit by bit, since pages are freed without the pool's lock.
**`PageTable`** goes down and up one level a step.  **`LinkedList`**,
**`HashTable`** (`hash_clear`, iteration), **`FileData`**, **`Loader`**,
**`Arguments`** and **`Format`** take a step for each round of the loop in the code.

### Abstractions

* One list operation is one step, although interrupts are on: half-linked lists
  are not modelled.
* Threads of the model do at any point what a kernel thread may do; the
  clients of `Synch` nest locks in one order (as the kernel's do) and do not
  acquire a lock they hold.
* The two runs of `Threads`: `MaxTick` stops the value of `ticks`, not the
  interrupts, so time slices go on ending.
* `thread_create`'s use of `tid_lock` and of the allocators' locks is left out
  (the tid is never read by the scheduler); an allocation that fails before
  anything is changed is no step.
* `Process` takes the release of a process's resources in `process_exit` as part
  of the step that wakes the parent, and the copying of a parent as one step;
  address spaces, the descriptor table and the contents of files are left out.
  A tid is not used twice, and a freed page is not given to a new thread.
* `idle` has run once, as `thread_start` waits for.
* `VM`: mappings are one page long; dirty bits are kept for mapped pages only
  (nobody reads the others); the kernel's own mapping of a frame counts as dirty
  from the first load on, so an evicted file page is always written; a frame that
  is not cleared (stack pages are not) holds `any`; there is one mapped file, which
  also is a program that may be run; struct pages and the hash table
  that finds them are not limited by memory, struct frames are.
* `Files`: what a sector holds is an inode's header, zeros or something else.
  The inodes of the root directory and the free map are left out, as is reading; so is
  the return of `file_open` that cannot allocate its struct file and closes the inode again.
  `MaxOpen`, `MaxCalls` and `MaxFaults` (halts and failed allocations together) are
  bounds.
* `Disk`: the statistics and the text of the identification are left out; the two
  channels share nothing, so there is one.  `MaxOps` bounds the transfers.
* `Terminal`: which character a key means, the shift keys, and the polling mode
  before interrupts work are left out.  `MaxKeys`, `MaxIntr` are bounds.
* `Memory` has one size of block: the descriptors share only the pool.  It leaves
  out `populate_pools`, and `realloc` and `calloc`, which call `malloc` and `free`.
* `HashTable` starts with one bucket and aims at one element in each (4 and 2 in
  the code), so that small tables rehash.  `PageTable` has two entries in a table.
* `LinkedList` takes one routine at a time on an arbitrary list; `KernelList` is
  used for lists everywhere else.
* `FileData`, `Loader`: bytes are named by their origin; a sector has 3 bytes, a
  page 2, an address 4 bits and a `uint32_t` 3.  `FileData` takes one request at a time, which
  `filesys_lock` makes true of system calls; the write-backs of mapped pages take no lock, and
  their interleaving with other requests on the same bytes is not modelled.
* `PageTable` frees what lies under entry 0 of the top level only, as `pml4_destroy`
  does: user addresses from 2^39 to `KERN_BASE` would be under another entry.

## Runs

| run | configuration | checks |
|---|---|---|
| `threads` | 4 pages for threads, 2 priorities, slices of 2 ticks, `ticks` 0 to 2 | types, `QueuesMatchStates`, `NobodyOversleeps`, `NobodyWakesEarly`: 733 thousand states |
| `threads_live` | as above with 1 priority and `ticks` 0 to 1, fair | `SleeperWakes`, `ReadyThreadRuns` |
| `synch_nested` | 3 clients, 2 locks, one client of both; the third client starts at the lower priority (`NestedInit`), the others at the higher | `LockingIsSound`: 2.1 million states |
| `synch_locks` | 2 clients, 2 locks, one client of both; clients set their priorities | types, `NoLockStall`, `ImplementsLocks`, `SchedulerSteps`: 288 thousand states |
| `synch_sema` | 3 clients, 1 semaphore, upped by interrupts too; clients set their priorities | `WaitListsAreSound`: 121 thousand states |
| `process` | main, initd and two more processes, any of them parent of another; programs exit with -2, the status fork looks for, or are killed (0) or fault (-1) | `FamilyIsSound`, `ForkerStandsStill`, `CallsReturn`: 118 thousand states, in 2 minutes |
| `vm` | 2 processes with a page of program, stack and mapping each; 2 frames and 2 slots, or 3 and 1, or 4 and none; 4 structs frame | `MemoryIsSound`, `ContentKept`, `StoresReachFile`: 1 million states |
| `files` | 2 processes, 2 names, 3 sectors, 2 directory entries, 1 descriptor each, 2 structs inode, files of 0 or 1 sectors; 6 calls, 1 halt or failed allocation | `InodesAreSound`, `OpenStorageKept`, `EntriesOnDisk`, `RunningFileKept`, `ImplementsStore`: 414 thousand states |
| `disk` | 2 threads, 2 devices of one sector, 2 values, 3 transfers after the reset | `ChannelIsOrderly`, `TransferDone`, `TransferEnds` |
| `terminal` | 2 readers, 2 writers of lines of 2 characters, rings of 3 (2 bytes), 3 keys, 1 character from a handler | `BytesInOrder`, `WaitersAndInterruptsAgree`, `QueuesDrain`: 400 thousand states |
| `structures` | the instances in `StructuresMC` | one property of each of the nine small modules, two of `Monitor`: 559 thousand states together |
| `find_acquire` | 3 clients, 1 lock, 2 priorities | `AcquireSleepsOrSucceeds`, violated |

A property of a run is mostly a conjunction of named parts, each with a comment of
its own in the module:

| property | parts |
|---|---|
| `QueuesMatchStates` | `CurrentIsRunning`, `RunQueueIsReadyThreads`, `SleepQueueOrdered`, `DestructionIsDeferred` |
| `LockingIsSound` | `MutualExclusion`, `LockStateAgrees`, `HolderReleases` |
| `WaitListsAreSound` | `NoLostWakeup`, `ElemInOneList` |
| `FamilyIsSound` | types, `ChildOutlivesItsUse`, `ChildrenAreListed` |
| `CallsReturn` | `ForkReturns`, `ExitEndsWait` |
| `MemoryIsSound` | types, `PrivateFrames`, `SlotsExclusive` |
| `InodesAreSound` | types, `ListedInUse`, `CountsExact`, `LockNotKept` |
| `ChannelIsOrderly` | types, `ChannelQuiet`, `DataPhase` |
| `BytesInOrder` | `QueuesAreFifo`, `LinesWhole` |
| `WaitersAndInterruptsAgree` | types, `WaiterIsRemembered`, `InterruptsMatchQueues` |
| `WakeupsAreExact`, `HighestIsSignalled` | of `Monitor`: types, `OneWakeupEach`; `PicksHighest` |
| `AllocationIsSound` | of `Memory`: `PagesAreExclusive`, `BlocksAreExclusive`, `FailsOnlyWhenFull` |
| `TableIsSound` | of `HashTable`: `FindsContent`, `ChainsAreExact`, `VisitsEachOnce` |
| `TreeIsSound` | of `PageTable`: `TreeIsExact`, `MappingsAgree`, `FailedWalkLeavesNoTrace`, `DestroyFreesAll` |
| `ListsAreSound` | of `LinkedList`: `ListsAreWhole`, `RoutinesKeepPromises`, `MergesSortedRuns`, `PassHalvesRuns` |
| `TransferIsSound` | of `FileData`: `TransfersAll`, `TransfersExactly` |
| `ProgramIsInPlace` | of `Loader`: `ImageIsRight`, `ReservesUserPages`; of `Arguments`: `ProgramFindsArguments` |
| `OutputIsSound` | of `Format`: `DigitsFit`, `FieldIsRight`, `OutputIsCut` |

The instances of `structures`:

| module | instance |
|---|---|
| `Monitor` | 4 threads of 3 priorities; a comparison may read 0 or 3 where there is no thread |
| `Memory` | 2 threads, 3 pages, 2 blocks in an arena, big blocks of 2 pages, 2 objects each |
| `HashTable` | 5 elements, two of them equal; 3 hash functions, one of them constant; any rehash may fail |
| `PageTable` | 6 pages for tables, 2 frames, 4 user pages that share tables at every level |
| `LinkedList` | 4 elements with keys 0 to 2 and every routine |
| `FileData` | files up to 6 bytes, requests up to 7, at every offset |
| `Loader` | every single header of a grid that wraps around 4 bits and has segments too long for 3, and pairs of small ones |
| `Arguments` | 1 to 3 words of 1, 3, 6 or 8 characters |
| `Format` | 2736 conversions into buffers of 0, 1 and 8 characters; 11 digits for the code's 64 |

Why the bounds are enough to be interesting: two priorities are what a
comparison can tell apart; three clients give a holder, a waiter and an
outsider who overtakes the waiter, and with two locks a chain of two donations.
In `synch_nested` the chain ends at a thread of the lower priority, which is raised; that
clients also change their own priorities meanwhile is in `synch_locks`, with two of them.  `MaxDepth` is the code's 8, which no
chain here reaches.  Slices of one tick make every timer interrupt a yield, the
worst case for interleavings.  Donation by four threads at once (needed for
a donor in front that is not the highest) is out of these bounds.

In `vm`, two frames and two slots make three pages of one process go round
through swap, one slot fills up, and no slots make the evictions of mapped files the only ones; either process may
run the mapped file, and stop to by `exec` or exit.  In
`files`, three sectors hold one file with data and one without, or a file that is
removed while open next to one that takes its name; six calls are enough for
create, open, exec, remove, create and close.

`CHECK_DEADLOCK` is off: a kernel that has panicked takes no step, and the bounded
instances run out of calls, keys, transfers or work.

In `process`, two processes besides initd are two siblings or a child and a
grandchild: enough for a list with neighbours, for a child that is waited for
while another is created, and for a dead holder of `filesys_lock` with somebody
behind it.

Symmetry permutes `a` and `b` in the runs of `Synch`, and processes, names and structs
inode in `files`; they play the same part there.  It is used only in runs without
liveness properties.

### Fairness

`FairSpec` assumes that the timer interrupt keeps coming (`timer_init` programs
a periodic interrupt), that its handler goes on and returns (it runs with
interrupts off and cannot be interrupted) and that the idle thread, when it
has the CPU, loops.  Nothing is assumed of other threads: they may compute for
ever.  `ReadyThreadRuns` therefore needs time slices, and needs one priority
level, because the code lets a higher priority starve a lower one for ever.

`Process`'s `FairSpec` assumes that a process which can go on inside the kernel
does (`WF` of `KernelStep`): user processes all have `PRI_DEFAULT`, and
`ReadyThreadRuns` is what the scheduler promises to threads of one priority.
Programs (`UserStep`) may compute for ever.  `WF` is enough: only the parent
takes units from `load_sema` and `wait_sema`, so a `sema_down` on them stays
enabled.

`VM` has no liveness property: a page fault takes one eviction at most (`vm_get_frame` has no
loop), and nothing in it waits for another process.

`Disk` assumes that the controller completes a command, that its interrupt is
delivered, and that a thread which can go on does; not that a lock is granted in
turn (`TransferEnds` is about a transfer that has got the channel).  `Terminal`
assumes that the UART sends what it is given, that the serial interrupt is
delivered, and that threads run; nobody has to press a key.

### What the violated statement shows

| run | statement | what happens |
|---|---|---|
| `find_acquire` | `lock_acquire` sleeps or succeeds (`synch.c:251`) | the holder leaves between the test of `lock->holder` and its use |

### What the code does not promise

The models contain the following behaviours of the code; a property that holds
cannot be stated about them, or it has to leave them out.  Each was found as a
counterexample to a comment, a document or a test.

* A lock's holder does not always inherit its waiters' priority (`README.md:55`):
  a taken lock has no holder for a while, and whoever waits then donates nothing
  (`synch.c:268`).  `remove_with_lock` and the reset of the holder are two steps, and a
  donor that comes in between is never removed.
* A thread may run below its own priority: a donor reads the holder's priority
  (`thread.c:485`), the holder raises its own, and the donor's store (`thread.c:484`) puts the
  old one back.  `thread_set_priority` "sets the current thread's priority"
  (`thread.c:393`), and does so in two writes.
* `refresh_priority` resets the priority, looks for the best donor and writes it in three
  steps, with interrupts on: a donation in between is overwritten, as one is by
  `thread_set_priority`, and none of this moves a thread that is in the run queue.
* `list_front` in `check_and_preempt` may get an empty list (`thread.c:544`): the run
  queue empties between the test and the use.  `Threads` stops there.
* `sema_up` "may be called from an interrupt handler" (`synch.c:156`), but then
  `check_and_preempt` may yield inside the handler, which asserts that it is not in one.
* The timer interrupt wakes a thread and returns to a less urgent one: no yield is
  asked for (`thread.c:387`; `README.md:54` says a higher priority preempts).
* A failed fork may return a tid (`tests/userprog/no-vm/multi-oom.c:6` expects -1): the
  child wakes the parent before it sets its status to -2.
* `kill` ends a process without a status, so `process_wait` returns 0 where its
  comment says -1; an orphan waits on its `exit_sema` for ever; `thread_create` leaves
  a blocked thread in `child_list` when its descriptor table cannot be allocated.
* `load` keeps `filesys_lock` on a bad header, and a process that dies in a system call
  with the lock held stays its holder: every later call on files waits for ever.
* Eviction clears the page table of the process that runs, not of the page's owner
  (`vm.c:230`), so that the owner goes on using a page that has been given away.
  `list_push_back` at `vm.c:282` is done without `frame_lock`; `bitmap_scan_and_flip` on
  the swap table is not protected at all.
* The kernel panics, or follows an uninitialized pointer, when the frame list is
  empty, when the victim's frame has no page yet, or a page of a process that has
  exited, or one that is not initialized (`vm.c:207` to `vm.c:226`).
* A store to a mapped page never reaches the file when the process ends or calls `exec` while
  the file is somebody's program, and may not when the write falls short
  (`vm/file.c:106` says that a dirty page has to be written; `vm/file.c:124` ignores that
  `inode_write_at` writes nothing, `inode.c:240`); `munmap` writes
  nothing then either, but leaves the page mapped.  An eviction of such a page stops the
  kernel instead (`vm.c:226`).
* A segment longer than 32 bits can count is accepted and loaded in part: `load` keeps the
  bytes to read and to zero in `uint32_t` variables (`process.c:631`), though user addresses
  go on far beyond 4 GiB.
* A destroyed page keeps its swap slot; `munmap` leaves the page mapped
  (`tests/vm/mmap-unmap.c:1` says it must not be accessible); fork does not copy a page
  that is in a swap slot, and hands an untouched mapped page a wrong file; the pages
  the stack grows by are not zeroed.
* Two processes that open, close or deny writing to one inode lose updates of its
  counters, as `close`, `exit`, `fork`, `mmap` and `file_deny_write` run without
  `filesys_lock`; an inode may be freed while it is open, and `inode_open` may make a
  second one of the same sector (`inode.c:52` says there is one).  The copy of the
  free map on the disk may be older than the map in memory when that happens during
  a create.
* A `filesys_create` that fails after `inode_create` has allocated the data gives back
  the inode's sector only.  A failed `load` never closes its file; `exec` forgets the file
  of the program before; the file `mmap` reopens is never closed; a forked child does
  not remember the running file, so that the program may be written once its parent
  has gone.
* A thread that waits for the lock of an interrupt queue does not look again whether
  the queue is still empty: the assertion in `wait` (`intq.c:84`) fails when a byte came
  in between.  This takes two readers.
* `disk_write` does not look at the status after the data is out: an error there is
  not noticed.
* A negative width given with `*` along with the 0 flag pads a number on both sides
  (`stdio.c:365`, `stdio.c:504`), which no caller in the kernel does.
* `parse[64]` in `process_exec` (`process.c:353`) and the allocation of `load_segment`
  (`process.c:916`) are not checked; the models stay below.

## Proofs

Eight modules hold theorems.  They assume what the `ASSUME`s of the modules say:

| assumption | says |
|---|---|
| `ThreadsAssumption` | `Main` and `Idle` are two threads, `PRI_MAX` and `MaxTick` are natural numbers, a time slice has at least one tick |
| `SynchAssumption` | that of `Threads`; threads are finitely many, locks are numbered, semaphores of locks are no other semaphores; the priorities that are set exist; `NULL` is neither a thread nor a lock |
| `ProcessAssumption` | main and initd are two processes, exit statuses are integers |
| `DiskAssumption` | the boot thread is one of the threads; `NULL` is no thread, value, sector or command |
| `TerminalAssumption` | nobody is a reader and a writer; a ring has room for a byte; lengths and bounds are natural numbers |
| `VMAssumption` | pages of the pool and slots are numbered and finitely many; segments, stack and mappings are apart, and the stack has a top; `NULL` and `DANGLING` point to nothing |
| `FilesAssumption` | sectors, descriptors and directory entries are numbered and finitely many, there is a descriptor, and none of sectors and descriptors has number 0 or 1; processes are finitely many; `NULL` is no process, inode, name, header, entry or file, and a sector of zeros or of anything is no header |

No bound on the number of threads, locks, priorities, ticks, processes, pages, slots,
transfers, keys, lines, files, inodes or sectors is assumed.

| module | theorem | invariant or property |
|---|---|---|
| `ThreadsProofs` | `QueuesCorrect` and its parts, `TypeCorrect`, `SleepersAreWokenInTime`, `SleepersAreNotWokenEarly` | `QueuesMatchStates`, `TypeOK`, `NobodyOversleeps`, `NobodyWakesEarly` |
| `SynchProofs` | `LockingCorrect` and its parts, `LocksImplementService` | `LockingIsSound`, `ImplementsLocks` |
| | `TypeCorrect`, `WaitListsCorrect`, `NoStall`, `SchedulerImplements` | `TypeOK`, `WaitListsAreSound`, `NoLockStall`, `SchedulerSteps` |
| `ProcessProofs` | `FamilyCorrect`, `CopyIsUndisturbed` | `FamilyIsSound`, `ForkerStandsStill` |
| `DiskProofs` | `ChannelCorrect`, `TransfersCorrect` | `ChannelIsOrderly`, `TransferDone` |
| `TerminalProofs` | `BytesCorrect`, `WaitersCorrect` | `BytesInOrder`, `WaitersAndInterruptsAgree` |
| `VMProofs` | `MemoryCorrect`, `ContentCorrect`, `StoresCorrect` | `MemoryIsSound`, `ContentKept`, `StoresReachFile` |
| `FilesProofs` | `InodesCorrect`, `StorageCorrect`, `EntriesCorrect`, `RunningFileCorrect`, `StoreImplemented` | `InodesAreSound`, `OpenStorageKept`, `EntriesOnDisk`, `RunningFileKept`, `ImplementsStore` |

Each module has an inductive invariant with a theorem of its own (`Invariance`,
`LockInvariance`, `SynchInvariance`, `FamilyInvariance`, `DiskInvariance`, `TerminalInvariance`,
`VMInvariance`, `FilesInvariance`).  TLC has checked each on the instance of the module's run before it was proved.

**`KernelListProofs`**: lemmas about `InsertDescending`, `InsertAscending`,
`Append` and `Tail`: what is in the list afterwards, that nothing is linked
twice, and that an ascending list stays ascending.  `Kept` (what `list_remove` leaves of a
list, a recursive function) keeps the order and everything but the element:
the library's induction theorems cannot be used, but the least length at which the
claim fails can be looked at (`MinIsLeast`).  `SortsDescending` is the sort of the
wait lists; `SetToSeqsProperties` gives the run queue at the start.

**`ThreadsProofs`**: none of the invariants is inductive alone: that the thread
`schedule` switches to is not in the sleep queue needs the disjointness of run
queue and sleep queue, which needs the statuses of both, which needs that
exactly one thread is running, and a dead thread stays out of the run queue
only because its status is `dying`.  The inductive invariant `IInv` is

* `SchedInv(current, status, ready_list, sleep_list, destruction_req)`: the
  status of every thread tells in which list it is, and the lists have no
  duplicates.  It is an operator of five arguments, so that it can be stated of the
  states between two parts of an action (`BlockKeeps`, `DoScheduleKeeps`,
  `YieldFromKeeps`, `ReadiedKeeps`, `PreemptKeeps` each say that one routine
  of the scheduler leads from one such state to another, and all come down to
  `ScheduleKeeps`);
* the order of the sleep queue, which `NobodyOversleeps` rests on: the search
  stops at the first sleeper that is not due;
* `SliceInv`: a time slice is over only inside the interrupt handler that is
  about to yield, so the next tick starts below `TIME_SLICE`;
* `IdleInv`: the idle thread is in no interruptible routine.

The order of the run queue is not part of it: donations break it.

**`SynchProofs`**, the locks: the inductive
invariant `LInv` says for every value of `pc` which lock a thread's routine
works on and whether it holds it (`TargetInv`), that the value of a lock's
semaphore counts its holders (`ValueInv`), and how far `lock.holder` may lag
behind (`HolderInv`: it may be unset in a thread that has just left
`sema_down` or is about to call `sema_up`, and in no other that holds the lock).
It says nothing of the scheduler, so the result does not depend on
priorities, donation or the order in which threads run.  For the refinement,
`OwnerIsHolder` shows that `Owner` is well defined, and each action is a step
of the service (`AcquireAsks`, `TakingGrants`, `UpReleases`) or leaves owners
and askers alone (`InvisibleStep`).

**`SynchProofs`**, the threads: every step of `Synch` is shown to be, for the scheduler, a step
of `Threads` or none (`SchedulerImplements`); through the instance `SysP` of
`ThreadsProofs` the invariant `IInv` therefore holds of the threads that `Synch`
synchronizes (`NextKeeps`) without being proved again.  On it stands `SInv`, which adds what
`donate_priority`, `thread_set_priority` and `refresh_priority` have read and not yet written
(`DonateInv`: it is a priority, whoever has changed it since, and the walk is where `pc` says)
and the wait lists (`WaitsAreSound`: a thread that is blocked and
not asleep is linked once in the list of the semaphore it works on, and while threads wait,
every unit of the semaphore is on its way to a thread that `sema_up` has unblocked).
That no unit is lost is shown by counting: `sema_up` adds one to both sides, and a woken
thread that takes a unit, or finds none and sleeps again, leaves the threads on their
way.  `NoStall` follows for the idle CPU.  Nothing is claimed of which thread has the higher
priority: that is what the races of donations with changes of priority leave open.

**`ProcessProofs`**: `process.c` keeps a parent from using a struct thread that
is freed without any lock, by the values of three semaphores.  `FamilyInv` relates where a
parent and a child stand to these values and to `child_list`: a child that copies has a
parent that waits for it in fork (`CopyIsAwaited`), whoever has been signalled by `wait_sema`
finds the child waiting for `exit_sema` unless fork had given it up before
(`ExitIsSignalled`), and only a child that no parent will look at again, or that fork has
given up, is let go and dies (`DeadIsLetGo`).

**`DiskProofs`**: `DiskInv` says for each step of a transfer what the controller may
be doing and which interrupts it owes (`Serves`), and that whoever is past
`lock_acquire` holds the channel's lock.  That the wait of one transfer cannot be ended by
the interrupt of another needs that no interrupt is owed when a command is
given.

**`TerminalProofs`**: positions of a ring and the bytes between them (`OneTurn`, `RingSteps`,
`QueueShape`), after which a queue is a sequence; a thread in `wait` has the queue's
lock, so it is alone there, and the queue it waits for stays as it is until it
is signalled (`SleepersAt`); the last character of a line that was queued is the console holder's
(`ConsoleInv`), so that only what a handler throws in comes between two characters of a
line (`LinesWhole`).

**`VMProofs`**: the invariant `Strong` has ten parts, one for each structure that a page is in
while it is claimed, evicted, copied or destroyed: `ClaimOf` and `HeldOf` (what a process has at
each step of `vm_do_claim_page`), `Unallocated`, `FrameInv` and `MapOf` (frames and page table
entries are exclusive), `EmptyOf`, `SwapOf` and `SlotOf` (slots), `VictimOf` (between the copy to a
slot and the note of it in the page), `ContentOf`, `ForkOf` (a parent stands still while it is
copied).  `VMInv` is `TypeOK /\ (Sound => Strong)`: it holds up to the first step at which two
processes met in the list or the table, or one evicted another's page; the types hold always.  There is
a lemma for each action that it keeps the ten parts and every pending store (`...Keeps`), and one
that it keeps the types (`...Types`).  `StoresCorrect` is about every eviction, `munmap`, `exec`
and exit, with writes that fail: it excepts the step that ends the address space of the store's
process (`KillPages`), and that only while the file is denied writing or when the write was cut short.  `ContentOf` was not inductive at first: it
failed for a fork that copies from the frame a failed claim had left behind, which is what the
code does (see `VM` above), and the model had expected too much.

**`FilesProofs`**: the five properties rest on the counts of an inode, since
whoever counts its openers down to 0 gives back the sectors of a removed file and frees
it.  The invariant `SoundInv` says of the time before the first race that

* `LockInv`, `CallInv`: who has `filesys_lock` at each point of a call, and what its
  locals are;
* `FileInv`, `ForkInv`: what file a call works on, and that a parent stands still
  while its child duplicates its files;
* `CountInv`: an inode's `open` is the number of places that refer to it, and its
  `deny` the number of deniers.  A place is a descriptor of a process, its running program or the
  call it is in; a close that has counted down refers no more, though the descriptor
  is not yet cleared.  `CounterInv`: at most one process is between the reading of a
  counter and its writing, so what was read is still right;
* `ListInv`: which inodes are on the list at each point of `inode_close`;
* `NameInv`, `OwnerInv`: every sector has one owner at most: the entry that names the
  file, the inode once it is removed, or the creator while it is in `filesys_create`.
  `dir_add`, `dir_remove` and the releases hand sectors on;
* `ContentInv`: the headers in use are on the disk and no write goes to them;
* `MapInv`: the map in memory has no more than the one on the disk, but for what is about to be
  written.

One lemma for each action (`...Keeps`) says that it keeps all of these; an action with
several outcomes has one for each.  What a boot leaves is sound if the disk it found was
(`BootIsSound`), which `HaltKeeps` shows of the disk at any step.  Four of the theorems
hold of every run, as what they say ends with the first race.  `InodesCorrect`, whose
types and list are claimed of the last state too, is about the runs that end there
(`FollowRaces` FALSE, as in `files`): after a race an inode may be freed twice.

The proofs hold up to the first step at which the kernel stops (`panic`), for `VM` until
`Sound` ends and for `Files` until two processes race; that there is none cannot be
proved, as it is not so.

### Model-checked only

* Liveness (`SleeperWakes`, `ReadyThreadRuns`, `CallsReturn`, `TransferEnds`,
  `QueuesDrain`): it rests on fairness, and TLAPS cannot reason about
  `ENABLED`.
* `HighestIsSignalled` and the invariants of `Monitor`, `Memory`, `HashTable`, `PageTable`, `LinkedList`, `FileData`, `Loader`, `Arguments`, `Format`:
  most say that an algorithm agrees with a definition over all inputs of a
  bounded size; in general that is an induction over data whose theorem takes
  an operator as a parameter.

## Plan

Every safety property of the runs about threads, locks, processes, memory, files, disk and
terminal is proved, and so are their refinements.  What would come next:

1. `Monitor` and `Memory`, whose invariants are about interleavings and inductive in
   principle: what a waiter of a condition has been promised, and which bits of the
   pool's map belong to whom.
2. Liveness, once the prover can reason about `ENABLED`.

## Not modelled

Boot, descriptor tables and the context switch itself (machine set-up before the
scheduler starts); VGA output, the string functions, the parsing of format strings
and `hex_dump`; the key map; `populate_pools`; MLFQS, FAT and the page cache, which
are stubs; the calibrated busy waits of the timer; the check of user addresses and
the calls `filesize`, `seek` and `tell` as system calls (`FileData` has the seek);
`readdir` and subdirectories, which no system call reaches; the user programs.
