------------------------------- MODULE Terminal -------------------------------
(***************************************************************************)
(* Characters in and out: the interrupt queues (devices/intq.c), the input *)
(* buffer (devices/input.c) that the keyboard and the serial port fill and *)
(* threads read, the transmit queue of the serial port (devices/serial.c)  *)
(* that printing threads fill under the console lock (lib/kernel/          *)
(* console.c), and the UART at the other end.                              *)
(*                                                                         *)
(* The queues' code runs with interrupts off, so it is one step up to the  *)
(* point where the thread blocks, or yields in lock_release.  Keys are     *)
(* numbers; which character a scan code means is left out, and so is the   *)
(* polling mode the serial port is in before interrupts work.              *)
(***************************************************************************)
EXTENDS Integers, Sequences

CONSTANTS
  Reader,     \* threads that read the standard input
  Writer,     \* threads that print
  BufSize,    \* INTQ_BUFSIZE
  LineLen,    \* characters of a line
  MaxKeys,    \* bound on the keys pressed and characters received
  MaxIntr,    \* bound on the characters printed by interrupt handlers
  NULL

ASSUME TerminalAssumption ==
  /\ Reader \cap Writer = {} /\ NULL \notin Reader \cup Writer
  /\ BufSize \in Nat \ {0, 1} /\ LineLen \in Nat /\ MaxKeys \in Nat /\ MaxIntr \in Nat

VARIABLES
  q,          \* the two queues: buffer (the input buffer) and txq
  put, got,   \* all that was ever added to each queue, and taken from it
  ier, thr, rbr,  \* the UART: interrupts enabled, and its two data registers
  console,    \* the holder of console_lock
  pc,         \* where each thread stands
  printed,    \* characters of its line each writer has queued
  keys, intrs, panic

uart == <<ier, thr, rbr>>
budget == <<keys, intrs>>
vars == <<q, put, got, uart, console, pc, printed, budget, panic>>

Thread == Reader \cup Writer
EmptyQueue == [buf |-> [i \in 0 .. BufSize - 1 |-> NULL], head |-> 0, tail |-> 0,
               lock |-> NULL, not_full |-> NULL, not_empty |-> NULL]

Init ==
  /\ q = [rx |-> EmptyQueue, tx |-> EmptyQueue]
  /\ put = [rx |-> <<>>, tx |-> <<>>] /\ got = put
  /\ ier = {"recv"} /\ thr = NULL /\ rbr = NULL
  /\ console = NULL
  /\ pc = [t \in Thread |-> "out"]
  /\ printed = [w \in Writer |-> 0]
  /\ keys = 0 /\ intrs = 0 /\ panic = FALSE

-------------------------------------------------------------------------------
(* intq.c *)

After(pos) == (pos + 1) % BufSize
IsEmpty(k) == k.head = k.tail

(* One slot more than the queue can tell from an empty one. *)
IsFullLate(k) == k.head = k.tail /\ k.buf[k.tail] # NULL
IsFull(k) == After(k.head) = k.tail

(* What is in a queue, in order. *)
Contents(k) ==
  [i \in 1 .. (k.head - k.tail) % BufSize |-> k.buf[(k.tail + i - 1) % BufSize]]

AppendByte(k, b) == [k EXCEPT !.buf[k.head] = b, !.head = After(@), !.not_empty = NULL]
RemoveByte(k) == [k EXCEPT !.tail = After(@), !.not_full = NULL]

AwakeNobody(p, t) == p
(* signal: the thread that waits, if any, may run. *)
Awake(p, t) == IF t = NULL THEN p ELSE [p EXCEPT ![t] = "woken"]

(* Append B to queue N, and remove the first byte of queue N. *)
Putc(n, b) ==
  /\ q' = [q EXCEPT ![n] = AppendByte(@, b)]
  /\ put' = [put EXCEPT ![n] = Append(@, b)]
Getc(n) ==
  /\ q' = [q EXCEPT ![n] = RemoveByte(@)]
  /\ got' = [got EXCEPT ![n] = Append(@, q[n].buf[q[n].tail])]

(* write_ier, for the queues K. *)
IerFor(k) ==
  (IF IsEmpty(k.tx) THEN {} ELSE {"xmit"}) \cup (IF IsFull(k.rx) THEN {} ELSE {"recv"})

(* A reader waits for a byte in one queue, a writer for room in the other. *)
QueueOf(t) == IF t \in Reader THEN "rx" ELSE "tx"
Waiter(t) == IF t \in Reader THEN "not_empty" ELSE "not_full"
HasToWait(t) == IF t \in Reader THEN IsEmpty(q.rx) ELSE IsFull(q.tx)

(* wait, by a thread that has the queue's lock. *)
Wait(t) ==
  /\ q' = [q EXCEPT ![QueueOf(t)].lock = t, ![QueueOf(t)][Waiter(t)] = t]
  /\ pc' = [pc EXCEPT ![t] = "wait"]

(* T takes the queue's lock and waits, or blocks on the lock. *)
AcquireAndWait(t) ==
  /\ HasToWait(t)
  /\ IF q[QueueOf(t)].lock = NULL
       THEN Wait(t)
       ELSE pc' = [pc EXCEPT ![t] = "lock"] /\ UNCHANGED q
  /\ UNCHANGED <<put, got, uart, console, printed, budget, panic>>

(* The lock is T's: wait asserts that there is still something to wait for. *)
LockGranted(t) ==
  /\ pc[t] = "lock" /\ q[QueueOf(t)].lock = NULL /\ ~panic
  /\ IF HasToWait(t) THEN Wait(t) /\ UNCHANGED panic
                     ELSE panic' = TRUE /\ UNCHANGED <<q, pc>>
  /\ UNCHANGED <<put, got, uart, console, printed, budget>>

(* The end of wait: lock_release, which yields to a waiter of higher       *)
(* priority before the condition is tested again.                          *)
Woken(t) ==
  /\ pc[t] = "woken" /\ ~panic
  /\ q' = [q EXCEPT ![QueueOf(t)].lock = NULL]
  /\ pc' = [pc EXCEPT ![t] = "loop"]
  /\ UNCHANGED <<put, got, uart, console, printed, budget, panic>>

-------------------------------------------------------------------------------
(* input.c: input_getc *)

(* input_getc without serial_notify. *)
TakeKeyUntold(t) ==
  /\ ~IsEmpty(q.rx) /\ Getc("rx")
  /\ pc' = [Awake(pc, q.rx.not_full) EXCEPT ![t] = "out"]
  /\ UNCHANGED <<ier, put, thr, rbr, console, printed, budget, panic>>

TakeKey(t) ==
  /\ ~IsEmpty(q.rx) /\ Getc("rx")
  /\ pc' = [Awake(pc, q.rx.not_full) EXCEPT ![t] = "out"]
  /\ ier' = IerFor(q')
  /\ UNCHANGED <<put, thr, rbr, console, printed, budget, panic>>

InputGetc(t) ==
  /\ pc[t] \in {"out", "loop"} /\ ~panic
  /\ AcquireAndWait(t) \/ TakeKey(t)

(* input_putc, from an interrupt handler that has seen room. *)
InputPutc(b) ==
  /\ Putc("rx", b)
  /\ pc' = Awake(pc, q.rx.not_empty)

(* keyboard_interrupt: a key that finds the buffer full is dropped. *)
KeyboardInterrupt ==
  /\ keys < MaxKeys /\ ~panic
  /\ keys' = keys + 1
  /\ IF IsFull(q.rx) THEN UNCHANGED <<q, put, pc, ier>>
                     ELSE InputPutc(keys + 1) /\ ier' = IerFor(q')
  /\ UNCHANGED <<got, thr, rbr, console, printed, intrs, panic>>

-------------------------------------------------------------------------------
(* console.c and serial_putc *)

(* printf: the line is the holder's of the console lock. *)
AcquireConsole(t) ==
  /\ pc[t] = "out" /\ console = NULL /\ printed[t] < LineLen /\ ~panic
  /\ console' = t
  /\ pc' = [pc EXCEPT ![t] = "print"]
  /\ UNCHANGED <<q, put, got, uart, printed, budget, panic>>

QueueChar(t) ==
  /\ ~IsFull(q.tx) /\ Putc("tx", <<t, printed[t] + 1>>)
  /\ pc' = [Awake(pc, q.tx.not_empty) EXCEPT ![t] = "print"]
  /\ ier' = IerFor(q')
  /\ printed' = [printed EXCEPT ![t] = @ + 1]
  /\ UNCHANGED <<got, thr, rbr, console, budget, panic>>

SerialPutc(t) ==
  /\ pc[t] \in {"print", "loop"} /\ printed[t] < LineLen /\ ~panic
  /\ AcquireAndWait(t) \/ QueueChar(t)

ReleaseConsole(t) ==
  /\ pc[t] = "print" /\ printed[t] = LineLen /\ ~panic
  /\ console' = NULL
  /\ pc' = [pc EXCEPT ![t] = "out"]
  /\ UNCHANGED <<q, put, got, uart, printed, budget, panic>>

(* An interrupt handler that prints takes no lock and never waits: it      *)
(* sends the first character by polling when the queue is full.            *)
PutcInHandler ==
  /\ intrs < MaxIntr /\ ~panic
  /\ intrs' = intrs + 1
  /\ LET b == <<NULL, intrs + 1>> IN
     IF IsFull(q.tx)
       THEN /\ thr = NULL
            /\ thr' = q.tx.buf[q.tx.tail]
            /\ q' = [q EXCEPT !.tx = AppendByte(RemoveByte(@), b)]
            /\ put' = [put EXCEPT !.tx = Append(@, b)]
            /\ got' = [got EXCEPT !.tx = Append(@, thr')]
            /\ pc' = Awake(pc, q.tx.not_full)
       ELSE Putc("tx", b) /\ UNCHANGED <<thr, got, pc>>
  /\ ier' = IerFor(q')
  /\ UNCHANGED <<rbr, console, printed, keys, panic>>

-------------------------------------------------------------------------------
(* serial_interrupt: the UART interrupts while it has a byte or room for   *)
(* one and the interrupt is enabled.  Its FIFO is off: it holds one byte.  *)
SerialInterrupt ==
  /\ ~panic
  /\ ("recv" \in ier /\ rbr # NULL) \/ ("xmit" \in ier /\ thr = NULL)
  /\ LET recv == rbr # NULL /\ ~IsFull(q.rx)
         xmit == thr = NULL /\ ~IsEmpty(q.tx)
         first == q.tx.buf[q.tx.tail]
     IN
     /\ q' = [rx |-> IF recv THEN AppendByte(q.rx, rbr) ELSE q.rx,
              tx |-> IF xmit THEN RemoveByte(q.tx) ELSE q.tx]
     /\ put' = IF recv THEN [put EXCEPT !.rx = Append(@, rbr)] ELSE put
     /\ got' = IF xmit THEN [got EXCEPT !.tx = Append(@, first)] ELSE got
     /\ rbr' = IF recv THEN NULL ELSE rbr
     /\ thr' = IF xmit THEN first ELSE thr
     /\ pc' = Awake(IF recv THEN Awake(pc, q.rx.not_empty) ELSE pc,
                    IF xmit THEN q.tx.not_full ELSE NULL)
  /\ ier' = IerFor(q')
  /\ UNCHANGED <<console, printed, budget, panic>>

(* The UART, which is as slow as it likes; the sender at the other end     *)
(* waits until its last byte has been taken.                               *)
Transmit ==
  /\ thr # NULL /\ thr' = NULL
  /\ UNCHANGED <<q, put, got, ier, rbr, console, pc, printed, budget, panic>>

Receive ==
  /\ rbr = NULL /\ keys < MaxKeys
  /\ keys' = keys + 1 /\ rbr' = keys'
  /\ UNCHANGED <<q, put, got, ier, thr, console, pc, printed, intrs, panic>>

ThreadStep(t) ==
  \/ LockGranted(t) \/ Woken(t)
  \/ t \in Reader /\ InputGetc(t)
  \/ t \in Writer /\ (AcquireConsole(t) \/ SerialPutc(t) \/ ReleaseConsole(t))

Next ==
  \/ KeyboardInterrupt \/ PutcInHandler \/ SerialInterrupt \/ Transmit \/ Receive
  \/ \E t \in Thread : ThreadStep(t)

Spec == Init /\ [][Next]_vars

(* The UART sends, interrupts are delivered, and threads run.              *)
Fairness ==
  /\ WF_vars(Transmit) /\ WF_vars(SerialInterrupt)
  /\ \A t \in Thread : WF_vars(ThreadStep(t))
FairSpec == Spec /\ Fairness

-------------------------------------------------------------------------------
TypeOK ==
  /\ \A n \in {"rx", "tx"} :
       /\ q[n].head \in 0 .. BufSize - 1 /\ q[n].tail \in 0 .. BufSize - 1
       /\ q[n].lock \in Thread \cup {NULL}
       /\ q[n].not_full \in Writer \cup {NULL} /\ q[n].not_empty \in Reader \cup {NULL}
  /\ console \in Writer \cup {NULL}
  /\ pc \in [Thread -> {"out", "print", "lock", "wait", "woken", "loop"}]
  /\ printed \in [Writer -> 0 .. LineLen]
  /\ ier \subseteq {"recv", "xmit"}
  /\ keys \in 0 .. MaxKeys /\ intrs \in 0 .. MaxIntr /\ panic \in BOOLEAN

(* Every byte that went into a queue comes out once and in order, however  *)
(* threads and interrupts take turns and the ring wraps around.            *)
QueuesAreFifo == \A n \in {"rx", "tx"} : put[n] = got[n] \o Contents(q[n])

(* A thread sleeps in wait if and only if the queue remembers it, with the *)
(* queue's lock, and only while the queue is empty (or full): no wakeup is *)
(* lost between the test and the blocking, and none comes twice.           *)
WaiterIsRemembered ==
  \A t \in Thread :
    pc[t] = "wait" <=>
      q[QueueOf(t)][Waiter(t)] = t /\ q[QueueOf(t)].lock = t /\ HasToWait(t)

(* Whenever an interrupt can come, the interrupts enabled are those the    *)
(* queues call for.  (serial_notify and write_ier)                         *)
InterruptsMatchQueues == ier = IerFor(q)

(* What is remembered of the queues outside of them - who sleeps on them,  *)
(* which interrupts they call for - is true of them.                       *)
WaitersAndInterruptsAgree ==
  /\ TypeOK
  /\ WaiterIsRemembered
  /\ InterruptsMatchQueues

(* The characters of a line follow each other, but for those an interrupt  *)
(* handler throws in.  (acquire_console)                                   *)
Follows(s, i, b) == \E j \in 1 .. i - 1 : s[j] = b /\ \A m \in j + 1 .. i - 1 : s[m][1] = NULL

LinesWhole ==
  \A i \in 1 .. Len(put.tx) :
    LET b == put.tx[i]
    IN  b[1] # NULL /\ b[2] > 1 => Follows(put.tx, i, <<b[1], b[2] - 1>>)

(* Bytes arrive in the order in which they were typed or printed, and      *)
(* lines are not mixed up.                                                 *)
BytesInOrder ==
  /\ QueuesAreFifo
  /\ LinesWhole

(* Both queues run empty again and again: what is typed is read and what   *)
(* is printed is sent, unless the kernel panics.                           *)
QueuesDrain == \A n \in {"rx", "tx"} : []<>(IsEmpty(q[n]) \/ panic)
===============================================================================
