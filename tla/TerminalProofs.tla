---------------------------- MODULE TerminalProofs ----------------------------
(***************************************************************************)
(* The invariants of module Terminal, for any number of threads, any size  *)
(* of the queues and of the lines, and any number of keys and interrupts.  *)
(*                                                                         *)
(* The ring: the positions of a queue determine how many bytes it holds    *)
(* and in which slots (QueueShape), so that appending and removing act on  *)
(* its contents as on a sequence.  The sleepers: whoever is in wait has    *)
(* the queue's lock, hence is alone there, and what it waits for cannot    *)
(* happen without the signal (SleepersAt).  The lines: the last character  *)
(* of a line that was queued is the console holder's (ConsoleInv).         *)
(***************************************************************************)
EXTENDS Terminal, SequenceTheorems, TLAPS

Queue == {"rx", "tx"}
Pos == 0 .. BufSize - 1

QueueOver(T) ==
  [buf : [Pos -> T], head : Pos, tail : Pos, lock : Thread \cup {NULL},
   not_full : Writer \cup {NULL}, not_empty : Reader \cup {NULL}]

-------------------------------------------------------------------------------
(* Positions in the ring. *)

(* A number that is at most one turn off, brought back into the ring. *)
LEMMA OneTurn ==
  ASSUME NEW B \in Nat \ {0}, NEW x \in Int
  PROVE  /\ 0 =< x /\ x < B => x % B = x
         /\ B =< x /\ x < 2 * B => x % B = x - B
         /\ -B =< x /\ x < 0 => x % B = x + B
<1>1. x % B \in 0 .. B - 1 /\ x = B * (x \div B) + (x % B) /\ x \div B \in Int
  OBVIOUS
<1> DEFINE d == x \div B
<1>2. d \in Int
  BY <1>1
<1>3. /\ d >= 1 => B * d >= B
      /\ d >= 2 => B * d >= 2 * B
      /\ d =< -1 => B * d =< -B
      /\ d =< -2 => B * d =< -(2 * B)
      /\ d = 0 => B * d = 0
      /\ d = 1 => B * d = B
      /\ d = -1 => B * d = -B
  BY <1>2
<1> HIDE DEF d
<1> QED BY <1>1, <1>2, <1>3

(* The position after another, and the distance between two. *)
LEMMA RingSteps ==
  ASSUME NEW x \in Pos, NEW y \in Pos
  PROVE  /\ After(x) \in Pos /\ After(x) = IF x = BufSize - 1 THEN 0 ELSE x + 1
         /\ (x - y) % BufSize = IF y =< x THEN x - y ELSE x - y + BufSize
         /\ (x + y) % BufSize = IF x + y < BufSize THEN x + y ELSE x + y - BufSize
<1>1. /\ BufSize \in Nat \ {0} /\ BufSize > 1 /\ x \in Int /\ y \in Int
      /\ 0 =< x /\ x < BufSize /\ 0 =< y /\ y < BufSize
  BY TerminalAssumption DEF Pos
<1>2. x + 1 \in Int /\ x - y \in Int /\ x + y \in Int
  BY <1>1
<1>3. After(x) = IF x = BufSize - 1 THEN 0 ELSE x + 1
  <2>1. /\ 0 =< x + 1 /\ x + 1 < BufSize => (x + 1) % BufSize = x + 1
        /\ BufSize =< x + 1 /\ x + 1 < 2 * BufSize => (x + 1) % BufSize = (x + 1) - BufSize
    BY ONLY <1>1, <1>2, OneTurn
  <2> QED BY <1>1, <2>1 DEF After
<1>4. (x - y) % BufSize = IF y =< x THEN x - y ELSE x - y + BufSize
  <2>1. /\ 0 =< x - y /\ x - y < BufSize => (x - y) % BufSize = x - y
        /\ -BufSize =< x - y /\ x - y < 0 => (x - y) % BufSize = (x - y) + BufSize
    BY ONLY <1>1, <1>2, OneTurn
  <2> QED BY <1>1, <2>1
<1>5. (x + y) % BufSize = IF x + y < BufSize THEN x + y ELSE x + y - BufSize
  <2>1. /\ 0 =< x + y /\ x + y < BufSize => (x + y) % BufSize = x + y
        /\ BufSize =< x + y /\ x + y < 2 * BufSize => (x + y) % BufSize = (x + y) - BufSize
    BY ONLY <1>1, <1>2, OneTurn
  <2> QED BY <1>1, <2>1
<1>6. After(x) \in Pos
  BY <1>1, <1>3 DEF Pos
<1> QED BY <1>3, <1>4, <1>5, <1>6

Count(k) == (k.head - k.tail) % BufSize
Slot(k, i) == (k.tail + i - 1) % BufSize

(* What the positions of a queue say: how many bytes it holds, where they  *)
(* are, and when it is full and when empty.                                *)
LEMMA QueueShape ==
  ASSUME NEW T, NEW k \in QueueOver(T)
  PROVE  /\ Count(k) \in Pos
         /\ Count(k) = IF k.tail =< k.head THEN k.head - k.tail
                                           ELSE k.head - k.tail + BufSize
         /\ IsEmpty(k) <=> Count(k) = 0
         /\ IsFull(k) <=> Count(k) = BufSize - 1
         /\ \A i \in 1 .. Count(k) + 1 :
              /\ Slot(k, i) \in Pos
              /\ Slot(k, i) = IF k.tail + i - 1 < BufSize THEN k.tail + i - 1
                                                          ELSE k.tail + i - 1 - BufSize
<1>1. k.head \in Pos /\ k.tail \in Pos
  BY DEF QueueOver
<1>2. BufSize \in Nat /\ BufSize > 1
  BY TerminalAssumption
<1> DEFINE h == k.head
           u == k.tail
<1>3. /\ (h - u) % BufSize = IF u =< h THEN h - u ELSE h - u + BufSize
      /\ After(h) = IF h = BufSize - 1 THEN 0 ELSE h + 1
  BY <1>1, RingSteps
<1>4. Count(k) \in Pos
  BY <1>1, <1>2, <1>3 DEF Count, Pos
<1>5. ASSUME NEW i \in 1 .. Count(k) + 1
      PROVE  /\ Slot(k, i) \in Pos
             /\ Slot(k, i) = IF u + i - 1 < BufSize THEN u + i - 1 ELSE u + i - 1 - BufSize
  <2>1. i - 1 \in Pos /\ u + i - 1 = u + (i - 1)
    BY <1>1, <1>2, <1>4 DEF Pos
  <2>2. (u + (i - 1)) % BufSize = IF u + (i - 1) < BufSize THEN u + (i - 1)
                                                           ELSE u + (i - 1) - BufSize
    BY <1>1, <2>1, RingSteps
  <2> QED BY <1>1, <1>2, <2>1, <2>2 DEF Slot, Pos
<1>6. /\ IsEmpty(k) <=> Count(k) = 0
      /\ IsFull(k) <=> Count(k) = BufSize - 1
  BY <1>1, <1>2, <1>3 DEF IsEmpty, IsFull, Count, Pos
<1> QED BY <1>3, <1>4, <1>5, <1>6 DEF Count

(* What a queue holds is a sequence, a byte to a slot. *)
LEMMA ContentsIsSequence ==
  ASSUME NEW T, NEW k \in QueueOver(T)
  PROVE  /\ Contents(k) \in Seq(T) /\ Len(Contents(k)) = Count(k)
         /\ \A i \in 1 .. Count(k) : Contents(k)[i] = k.buf[Slot(k, i)]
<1>1. k.buf \in [Pos -> T]
  BY DEF QueueOver
<1>2. Contents(k) = [i \in 1 .. Count(k) |-> k.buf[Slot(k, i)]]
  BY DEF Contents, Count, Slot
<1>3. \A i \in 1 .. Count(k) : k.buf[Slot(k, i)] \in T
  <2> TAKE i \in 1 .. Count(k)
  <2>1. Slot(k, i) \in Pos
    <3>1. Count(k) \in Nat
      BY QueueShape, TerminalAssumption DEF Pos
    <3> QED BY <3>1, QueueShape
  <2> QED BY <1>1, <2>1
<1>4. Count(k) \in Nat
  BY QueueShape, TerminalAssumption DEF Pos
<1> HIDE DEF Contents
<1> QED BY <1>2, <1>3, <1>4

(* Appending to a queue that is not full. *)
LEMMA AppendByteProperties ==
  ASSUME NEW T, NEW k \in QueueOver(T), ~ IsFull(k), NEW b \in T
  PROVE  /\ AppendByte(k, b) \in QueueOver(T)
         /\ Contents(AppendByte(k, b)) = Append(Contents(k), b)
         /\ ~ IsEmpty(AppendByte(k, b))
<1> DEFINE a == AppendByte(k, b)
<1>1. /\ BufSize \in Nat /\ BufSize > 1 /\ k.head \in Pos /\ k.tail \in Pos
      /\ k.buf \in [Pos -> T]
  BY TerminalAssumption DEF QueueOver
<1>2. /\ a.buf = [k.buf EXCEPT ![k.head] = b] /\ a.head = After(k.head) /\ a.tail = k.tail
      /\ a \in QueueOver(T)
  <2>1. After(k.head) \in Pos
    BY <1>1, RingSteps
  <2> QED BY <1>1, <2>1 DEF AppendByte, QueueOver
<1>3. /\ Count(k) \in Pos /\ Count(k) # BufSize - 1
      /\ Count(k) = IF k.tail =< k.head THEN k.head - k.tail ELSE k.head - k.tail + BufSize
  BY QueueShape
<1> HIDE DEF a
<1>4. Count(a) = Count(k) + 1
  <2>1. Count(a) = IF a.tail =< a.head THEN a.head - a.tail ELSE a.head - a.tail + BufSize
    BY <1>2, QueueShape
  <2>2. After(k.head) = IF k.head = BufSize - 1 THEN 0 ELSE k.head + 1
    BY <1>1, RingSteps
  <2> QED BY <1>1, <1>2, <1>3, <2>1, <2>2 DEF Pos
<1>5. ASSUME NEW i \in 1 .. Count(k)
      PROVE  a.buf[Slot(a, i)] = k.buf[Slot(k, i)]
  <2>1. Slot(a, i) = Slot(k, i)
    BY <1>2 DEF Slot
  <2>2. /\ Slot(k, i) \in Pos
        /\ Slot(k, i) = IF k.tail + i - 1 < BufSize THEN k.tail + i - 1
                                                    ELSE k.tail + i - 1 - BufSize
    BY <1>1, <1>3, QueueShape DEF Pos
  <2>3. Slot(k, i) # k.head
    BY <1>1, <1>3, <2>2 DEF Pos
  <2> QED BY <1>1, <1>2, <2>1, <2>2, <2>3
<1>6. a.buf[Slot(a, Count(k) + 1)] = b
  <2>1. Slot(a, Count(k) + 1) = IF a.tail + (Count(k) + 1) - 1 < BufSize
                                  THEN a.tail + (Count(k) + 1) - 1
                                  ELSE a.tail + (Count(k) + 1) - 1 - BufSize
    BY <1>1, <1>2, <1>3, <1>4, QueueShape DEF Pos
  <2>2. Slot(a, Count(k) + 1) = k.head
    BY <1>1, <1>2, <1>3, <2>1 DEF Pos
  <2> QED BY <1>1, <1>2, <2>2
<1>7. /\ Contents(k) \in Seq(T) /\ Len(Contents(k)) = Count(k)
      /\ \A i \in 1 .. Count(k) : Contents(k)[i] = k.buf[Slot(k, i)]
      /\ Contents(a) \in Seq(T) /\ Len(Contents(a)) = Count(a)
      /\ \A i \in 1 .. Count(a) : Contents(a)[i] = a.buf[Slot(a, i)]
  BY <1>2, ContentsIsSequence
<1>8. Contents(a) = Append(Contents(k), b)
  <2>1. /\ Append(Contents(k), b) \in Seq(T) /\ Len(Append(Contents(k), b)) = Count(k) + 1
        /\ \A i \in 1 .. Count(k) : Append(Contents(k), b)[i] = Contents(k)[i]
        /\ Append(Contents(k), b)[Count(k) + 1] = b
    BY <1>7, AppendProperties
  <2>2. \A i \in 1 .. Count(k) + 1 : Contents(a)[i] = Append(Contents(k), b)[i]
    BY <1>3, <1>4, <1>5, <1>6, <1>7, <2>1 DEF Pos
  <2> QED BY <1>4, <1>7, <2>1, <2>2, SeqEqual
<1>9. ~ IsEmpty(a)
  BY <1>1, <1>2, <1>3, <1>4, QueueShape DEF Pos
<1> QED BY <1>2, <1>8, <1>9 DEF a

(* Taking the first byte of a queue that is not empty. *)
LEMMA RemoveByteProperties ==
  ASSUME NEW T, NEW k \in QueueOver(T), ~ IsEmpty(k)
  PROVE  /\ RemoveByte(k) \in QueueOver(T)
         /\ Contents(k) = << k.buf[k.tail] >> \o Contents(RemoveByte(k))
         /\ k.buf[k.tail] \in T
         /\ ~ IsFull(RemoveByte(k))
<1> DEFINE a == RemoveByte(k)
<1>1. /\ BufSize \in Nat /\ BufSize > 1 /\ k.head \in Pos /\ k.tail \in Pos
      /\ k.buf \in [Pos -> T]
  BY TerminalAssumption DEF QueueOver
<1>2. /\ a.buf = k.buf /\ a.head = k.head /\ a.tail = After(k.tail)
      /\ a \in QueueOver(T)
  <2>1. After(k.tail) \in Pos
    BY <1>1, RingSteps
  <2> QED BY <1>1, <2>1 DEF RemoveByte, QueueOver
<1>3. /\ Count(k) \in Pos /\ Count(k) # 0
      /\ Count(k) = IF k.tail =< k.head THEN k.head - k.tail ELSE k.head - k.tail + BufSize
  BY QueueShape
<1> HIDE DEF a
<1>4. After(k.tail) = IF k.tail = BufSize - 1 THEN 0 ELSE k.tail + 1
  BY <1>1, RingSteps
<1>5. Count(a) = Count(k) - 1
  <2>1. Count(a) = IF a.tail =< a.head THEN a.head - a.tail ELSE a.head - a.tail + BufSize
    BY <1>2, QueueShape
  <2> QED BY <1>1, <1>2, <1>3, <1>4, <2>1 DEF Pos
<1>6. ASSUME NEW i \in 1 .. Count(k) - 1
      PROVE  Slot(a, i) = Slot(k, i + 1)
  <2>1. Slot(k, i + 1) = IF k.tail + (i + 1) - 1 < BufSize THEN k.tail + (i + 1) - 1
                                                   ELSE k.tail + (i + 1) - 1 - BufSize
    BY <1>1, <1>3, QueueShape DEF Pos
  <2>2. Slot(a, i) = IF a.tail + i - 1 < BufSize THEN a.tail + i - 1
                                                 ELSE a.tail + i - 1 - BufSize
    BY <1>1, <1>2, <1>3, <1>5, QueueShape DEF Pos
  <2> QED BY <1>1, <1>2, <1>3, <1>4, <2>1, <2>2 DEF Pos
<1>7. Slot(k, 1) = k.tail
  <2>1. Slot(k, 1) = IF k.tail + 1 - 1 < BufSize THEN k.tail + 1 - 1
                                                 ELSE k.tail + 1 - 1 - BufSize
    BY <1>1, <1>3, QueueShape DEF Pos
  <2> QED BY <1>1, <2>1 DEF Pos
<1>8. /\ Contents(k) \in Seq(T) /\ Len(Contents(k)) = Count(k)
      /\ \A i \in 1 .. Count(k) : Contents(k)[i] = k.buf[Slot(k, i)]
      /\ Contents(a) \in Seq(T) /\ Len(Contents(a)) = Count(a)
      /\ \A i \in 1 .. Count(a) : Contents(a)[i] = a.buf[Slot(a, i)]
  BY <1>2, ContentsIsSequence
<1>9. Contents(k) = << k.buf[k.tail] >> \o Contents(a)
  <2> DEFINE f == << k.buf[k.tail] >>
             c == f \o Contents(a)
  <2>1. f \in Seq(T) /\ Len(f) = 1 /\ f[1] = k.buf[k.tail]
    BY <1>1
  <2>2. /\ c \in Seq(T) /\ Len(c) = Count(k)
        /\ c[1] = k.buf[k.tail]
        /\ \A i \in 1 .. Count(k) : i > 1 => c[i] = Contents(a)[i - 1]
    <3> HIDE DEF f
    <3>1. /\ c \in Seq(T) /\ Len(c) = Len(f) + Len(Contents(a))
          /\ \A i \in 1 .. Len(f) + Len(Contents(a)) :
               c[i] = IF i =< Len(f) THEN f[i] ELSE Contents(a)[i - Len(f)]
      BY <1>8, <2>1, ConcatProperties
    <3> QED BY <1>1, <1>3, <1>5, <1>8, <2>1, <3>1 DEF Pos
  <2> HIDE DEF c
  <2>3. ASSUME NEW i \in 1 .. Count(k)
        PROVE  Contents(k)[i] = c[i]
    <3>1. CASE i = 1
      BY <1>7, <1>8, <2>2, <3>1
    <3>2. CASE i > 1
      <4>1. i - 1 \in 1 .. Count(k) - 1 /\ (i - 1) + 1 = i
        BY <1>1, <1>3, <3>2 DEF Pos
      <4>2. a.buf[Slot(a, i - 1)] = k.buf[Slot(k, i)]
        BY <1>2, <1>6, <4>1
      <4> QED BY <1>5, <1>8, <2>2, <3>2, <4>1, <4>2
    <3> QED BY <1>1, <1>3, <3>1, <3>2 DEF Pos
  <2>4. Contents(k) = c
    BY <1>8, <2>2, <2>3, SeqEqual
  <2> QED BY <2>4 DEF c
<1>10. ~ IsFull(a)
  BY <1>1, <1>2, <1>3, <1>5, QueueShape DEF Pos
<1> QED BY <1>1, <1>2, <1>9, <1>10 DEF a

-------------------------------------------------------------------------------
Byte == (1 .. MaxKeys) \cup ((Writer \cup {NULL}) \X Nat) \cup {NULL}

(* The types of what the threads and the interrupt handlers pass on. *)
DataInv ==
  /\ q \in [Queue -> QueueOver(Byte)]
  /\ put \in [Queue -> Seq(Byte)] /\ got \in [Queue -> Seq(Byte)]
  /\ rbr \in (1 .. MaxKeys) \cup {NULL}
  /\ keys \in 0 .. MaxKeys /\ intrs \in 0 .. MaxIntr /\ panic \in BOOLEAN
  /\ printed \in [Writer -> 0 .. LineLen]
  /\ pc \in [Thread -> {"out", "print", "lock", "wait", "woken", "loop"}]

(* The queue's lock is held by the thread of C that is in wait, asleep or  *)
(* woken; the queue remembers it while it sleeps, and it sleeps only while *)
(* it has a reason to.                                                     *)
SleepersAt(C, lock, waiter, blocked, p) ==
  /\ lock \in C \cup {NULL}
  /\ \A t \in C : /\ p[t] \in {"wait", "woken"} <=> lock = t
                  /\ p[t] = "wait" <=> waiter = t
                  /\ p[t] = "wait" => blocked

SleepInv ==
  /\ q.rx.not_full = NULL /\ q.tx.not_empty = NULL
  /\ SleepersAt(Reader, q.rx.lock, q.rx.not_empty, IsEmpty(q.rx), pc)
  /\ SleepersAt(Writer, q.tx.lock, q.tx.not_full, IsFull(q.tx), pc)

(* A writer that is in printf has the console, and the last character of a *)
(* line that was queued is the holder's.                                   *)
ConsoleInv ==
  /\ console \in Writer \cup {NULL}
  /\ \A w \in Writer :
       /\ pc[w] # "out" <=> console = w
       /\ pc[w] \in {"lock", "wait", "woken", "loop"} => printed[w] < LineLen
       /\ pc[w] = "out" => printed[w] \in {0, LineLen}
       /\ console = w /\ printed[w] > 0 =>
             Follows(put.tx, Len(put.tx) + 1, <<w, printed[w]>>)

QueueInv == QueuesAreFifo /\ InterruptsMatchQueues
TerminalInv == DataInv /\ QueueInv /\ SleepInv /\ ConsoleInv /\ LinesWhole

-------------------------------------------------------------------------------
(* A signal wakes the sleeper, if there is one. *)
LEMMA SleepersSignalled ==
  ASSUME NEW C, NEW lock, NEW waiter, NEW blocked \in BOOLEAN, NEW p, NULL \notin C,
         SleepersAt(C, lock, waiter, blocked, p), NEW after \in BOOLEAN, NEW p2,
         \A t \in C : p2[t] = IF t = waiter THEN "woken" ELSE p[t]
  PROVE  SleepersAt(C, lock, NULL, after, p2)
  BY DEF SleepersAt

(* Any other thread may do what it wants outside of wait. *)
LEMMA SleepersUndisturbed ==
  ASSUME NEW C, NEW lock, NEW waiter, NEW blocked \in BOOLEAN, NEW p,
         SleepersAt(C, lock, waiter, blocked, p), NEW after \in BOOLEAN, NEW p2,
         blocked => after,
         \A t \in C : p2[t] = p[t] \/ {p[t], p2[t]} \cap {"wait", "woken"} = {}
  PROVE  SleepersAt(C, lock, waiter, after, p2)
<1>1. ASSUME NEW t \in C
      PROVE  /\ p2[t] \in {"wait", "woken"} <=> lock = t
             /\ p2[t] = "wait" <=> waiter = t
             /\ p2[t] = "wait" => after
  BY DEF SleepersAt
<1> QED BY <1>1 DEF SleepersAt

(* wait, with the lock and a reason. *)
LEMMA SleepersJoined ==
  ASSUME NEW C, NEW waiter, NEW blocked \in BOOLEAN, NEW p, NULL \notin C,
         SleepersAt(C, NULL, waiter, blocked, p), blocked, NEW t \in C, NEW p2,
         \A u \in C : p2[u] = IF u = t THEN "wait" ELSE p[u]
  PROVE  SleepersAt(C, t, t, blocked, p2)
  BY DEF SleepersAt

(* The end of wait gives up the lock. *)
LEMMA SleepersLeft ==
  ASSUME NEW C, NEW lock, NEW waiter, NEW blocked \in BOOLEAN, NEW p, NULL \notin C,
         SleepersAt(C, lock, waiter, blocked, p), NEW t \in C, p[t] = "woken", NEW p2,
         \A u \in C : p2[u] = IF u = t THEN "loop" ELSE p[u]
  PROVE  SleepersAt(C, NULL, waiter, blocked, p2)
  BY DEF SleepersAt

-------------------------------------------------------------------------------
(* What a step does to one queue, seen from the bytes that passed. *)
Ring(k) == [buf |-> k.buf, head |-> k.head, tail |-> k.tail]

(* Locks and waiters say nothing of the bytes. *)
LEMMA SameRing ==
  ASSUME NEW k, NEW k2, Ring(k2) = Ring(k)
  PROVE  Contents(k2) = Contents(k) /\ (IsEmpty(k2) <=> IsEmpty(k)) /\ (IsFull(k2) <=> IsFull(k))
<1>1. k2.buf = k.buf /\ k2.head = k.head /\ k2.tail = k.tail
  BY DEF Ring
<1> QED BY <1>1 DEF Contents, IsEmpty, IsFull

(* First in, first out: a byte more at the end of both ... *)
LEMMA FifoAppend ==
  ASSUME NEW T, NEW k \in QueueOver(T), NEW p \in Seq(T), NEW g \in Seq(T), NEW b \in T,
         p = g \o Contents(k), ~ IsFull(k)
  PROVE  Append(p, b) = g \o Contents(AppendByte(k, b))
<1>1. Contents(k) \in Seq(T)
  BY ContentsIsSequence
<1> DEFINE c == Contents(k)
<1> HIDE DEF c
<1>2. Append(g \o c, b) = g \o Append(c, b)
  <2>1. /\ g \o c \in Seq(T) /\ << b >> \in Seq(T)
        /\ (g \o c) \o << b >> = g \o (c \o << b >>)
    BY <1>1, ConcatAssociative, ConcatProperties DEF c
  <2> QED BY <1>1, <2>1, AppendIsConcat DEF c
<1> QED BY <1>2, AppendByteProperties DEF c

(* ... and the first of the contents moved to those that were taken. *)
LEMMA FifoRemove ==
  ASSUME NEW T, NEW k \in QueueOver(T), NEW p \in Seq(T), NEW g \in Seq(T),
         p = g \o Contents(k), ~ IsEmpty(k)
  PROVE  p = Append(g, k.buf[k.tail]) \o Contents(RemoveByte(k))
<1>1. /\ RemoveByte(k) \in QueueOver(T) /\ k.buf[k.tail] \in T
      /\ Contents(k) = << k.buf[k.tail] >> \o Contents(RemoveByte(k))
  BY RemoveByteProperties
<1>2. Contents(RemoveByte(k)) \in Seq(T)
  BY <1>1, ContentsIsSequence
<1> DEFINE c == Contents(RemoveByte(k))
           b == k.buf[k.tail]
<1> HIDE DEF c, b
<1>3. g \o (<< b >> \o c) = Append(g, b) \o c
  <2>1. b \in T /\ c \in Seq(T)
    BY <1>1, <1>2 DEF c, b
  <2>2. << b >> \in Seq(T) /\ (g \o << b >>) \o c = g \o (<< b >> \o c)
    BY <2>1, ConcatAssociative
  <2> QED BY <2>1, <2>2, AppendIsConcat
<1> QED BY <1>1, <1>3 DEF c, b

-------------------------------------------------------------------------------
(* Lines, in a sequence of characters. *)
IsWhole(s) ==
  \A i \in 1 .. Len(s) :
    s[i][1] # NULL /\ s[i][2] > 1 => Follows(s, i, << s[i][1], s[i][2] - 1 >>)

(* A character more: who followed whom before stays, and what an interrupt  *)
(* handler throws in does not come between.                                *)
LEMMA FollowsAppend ==
  ASSUME NEW T, NEW s \in Seq(T), NEW b \in T, NEW c
  PROVE  /\ \A i \in 1 .. Len(s) + 1 : Follows(Append(s, b), i, c) <=> Follows(s, i, c)
         /\ b = c => Follows(Append(s, b), Len(Append(s, b)) + 1, c)
         /\ b[1] = NULL /\ Follows(s, Len(s) + 1, c)
              => Follows(Append(s, b), Len(Append(s, b)) + 1, c)
<1> DEFINE a == Append(s, b)
<1>1. /\ a \in Seq(T) /\ Len(a) = Len(s) + 1 /\ Len(s) \in Nat
      /\ \A i \in 1 .. Len(s) : a[i] = s[i]
      /\ a[Len(s) + 1] = b
  BY AppendProperties
<1> HIDE DEF a
<1>2. ASSUME NEW i \in 1 .. Len(s) + 1
      PROVE  Follows(a, i, c) <=> Follows(s, i, c)
  <2>1. \A j \in 1 .. i - 1 : a[j] = s[j]
    BY <1>1
  <2>2. \A j \in 1 .. i - 1 : \A m \in j + 1 .. i - 1 : m \in 1 .. i - 1
    BY <1>1
  <2> QED BY <2>1, <2>2 DEF Follows
<1>3. ASSUME b = c
      PROVE  Follows(a, Len(a) + 1, c)
  <2>1. Len(s) + 1 \in 1 .. (Len(a) + 1) - 1 /\ (Len(s) + 1) + 1 .. (Len(a) + 1) - 1 = {}
    BY <1>1
  <2> QED BY <1>1, <1>3, <2>1 DEF Follows
<1>4. ASSUME b[1] = NULL, Follows(s, Len(s) + 1, c)
      PROVE  Follows(a, Len(a) + 1, c)
  <2>1. PICK j \in 1 .. (Len(s) + 1) - 1 :
              s[j] = c /\ \A m \in j + 1 .. (Len(s) + 1) - 1 : s[m][1] = NULL
    BY <1>4 DEF Follows
  <2>2. j \in 1 .. Len(s) /\ j \in 1 .. (Len(a) + 1) - 1 /\ a[j] = c
    BY <1>1, <2>1
  <2>3. ASSUME NEW m \in j + 1 .. (Len(a) + 1) - 1
        PROVE  a[m][1] = NULL
    <3>1. CASE m = Len(s) + 1
      BY <1>1, <1>4, <3>1
    <3>2. CASE m # Len(s) + 1
      <4>1. m \in 1 .. Len(s) /\ m \in j + 1 .. (Len(s) + 1) - 1
        BY <1>1, <2>2, <3>2
      <4> QED BY <1>1, <2>1, <4>1
    <3> QED BY <3>1, <3>2
  <2> QED BY <2>2, <2>3 DEF Follows
<1> QED BY <1>2, <1>3, <1>4 DEF a

(* The next character of a line, after the last, keeps the lines whole. *)
LEMMA WholeAppend ==
  ASSUME NEW T, NEW s \in Seq(T), NEW b \in T, IsWhole(s),
         b[1] # NULL /\ b[2] > 1 => Follows(s, Len(s) + 1, << b[1], b[2] - 1 >>)
  PROVE  IsWhole(Append(s, b))
<1> DEFINE a == Append(s, b)
<1>1. /\ a \in Seq(T) /\ Len(a) = Len(s) + 1 /\ Len(s) \in Nat
      /\ \A i \in 1 .. Len(s) : a[i] = s[i]
      /\ a[Len(s) + 1] = b
  BY AppendProperties
<1>2. \A c : \A i \in 1 .. Len(s) + 1 : Follows(a, i, c) <=> Follows(s, i, c)
  BY FollowsAppend
<1> HIDE DEF a
<1> SUFFICES ASSUME NEW i \in 1 .. Len(a), a[i][1] # NULL, a[i][2] > 1
             PROVE  Follows(a, i, << a[i][1], a[i][2] - 1 >>)
  BY DEF IsWhole, a
<1>3. CASE i = Len(s) + 1
  BY <1>1, <1>2, <1>3
<1>4. CASE i # Len(s) + 1
  <2>1. i \in 1 .. Len(s)
    BY <1>1, <1>4
  <2> QED BY <1>1, <1>2, <2>1 DEF IsWhole
<1> QED BY <1>3, <1>4

(* Facts about the state that every step uses. *)
LEMMA Facts ==
  ASSUME DataInv
  PROVE  /\ q.rx \in QueueOver(Byte) /\ q.tx \in QueueOver(Byte)
         /\ put.rx \in Seq(Byte) /\ put.tx \in Seq(Byte)
         /\ got.rx \in Seq(Byte) /\ got.tx \in Seq(Byte)
         /\ NULL \notin Reader /\ NULL \notin Writer
         /\ \A t \in Reader : t \in Thread /\ t \notin Writer /\ QueueOf(t) = "rx"
                              /\ Waiter(t) = "not_empty"
         /\ \A t \in Writer : t \in Thread /\ t \notin Reader /\ QueueOf(t) = "tx"
                              /\ Waiter(t) = "not_full"
  BY TerminalAssumption DEF DataInv, Queue, Thread, QueueOf, Waiter

(* A change of one queue leaves the other alone. *)
LEMMA QueueUpdate ==
  ASSUME DataInv, NEW n \in Queue, NEW k, q' = [q EXCEPT ![n] = k]
  PROVE  /\ n = "rx" => q'.rx = k /\ q'.tx = q.tx
         /\ n = "tx" => q'.tx = k /\ q'.rx = q.rx
         /\ k \in QueueOver(Byte) => q' \in [Queue -> QueueOver(Byte)]
  BY DEF DataInv, Queue

(* intq_putc, on either queue. *)
LEMMA PutcUpdate ==
  ASSUME DataInv, NEW n \in Queue, NEW b \in Byte, ~ IsFull(q[n]), Putc(n, b)
  PROVE  /\ n = "rx" => /\ q'.rx = AppendByte(q.rx, b) /\ q'.tx = q.tx
                        /\ put'.rx = Append(put.rx, b) /\ put'.tx = put.tx
         /\ n = "tx" => /\ q'.tx = AppendByte(q.tx, b) /\ q'.rx = q.rx
                        /\ put'.tx = Append(put.tx, b) /\ put'.rx = put.rx
         /\ q' \in [Queue -> QueueOver(Byte)] /\ put' \in [Queue -> Seq(Byte)]
<1>1. q[n] \in QueueOver(Byte) /\ put[n] \in Seq(Byte)
  BY DEF DataInv
<1>2. AppendByte(q[n], b) \in QueueOver(Byte)
  BY <1>1, AppendByteProperties
<1>3. q' = [q EXCEPT ![n] = AppendByte(q[n], b)]
  BY DEF Putc
<1>4. Append(put[n], b) \in Seq(Byte) /\ put' = [put EXCEPT ![n] = Append(put[n], b)]
  BY <1>1, AppendProperties DEF Putc
<1>5. put \in [Queue -> Seq(Byte)]
  BY DEF DataInv
<1> QED BY <1>2, <1>3, <1>4, <1>5, QueueUpdate DEF Queue

(* intq_getc, on the input buffer. *)
LEMMA GetcUpdate ==
  ASSUME DataInv, ~ IsEmpty(q.rx), Getc("rx")
  PROVE  /\ q'.rx = RemoveByte(q.rx) /\ q'.tx = q.tx
         /\ got'.rx = Append(got.rx, q.rx.buf[q.rx.tail]) /\ got'.tx = got.tx
         /\ q' \in [Queue -> QueueOver(Byte)] /\ got' \in [Queue -> Seq(Byte)]
<1>1. q.rx \in QueueOver(Byte) /\ got.rx \in Seq(Byte)
  BY Facts
<1>2. RemoveByte(q.rx) \in QueueOver(Byte) /\ q.rx.buf[q.rx.tail] \in Byte
  BY <1>1, RemoveByteProperties
<1>3. q' = [q EXCEPT !["rx"] = RemoveByte(q["rx"])]
  BY DEF Getc
<1>4. /\ Append(got.rx, q.rx.buf[q.rx.tail]) \in Seq(Byte)
      /\ got' = [got EXCEPT !["rx"] = Append(got.rx, q.rx.buf[q.rx.tail])]
  BY <1>1, <1>2, AppendProperties DEF Getc
<1>5. got \in [Queue -> Seq(Byte)]
  BY DEF DataInv
<1> QED BY <1>2, <1>3, <1>4, <1>5, QueueUpdate DEF Queue

(* The other fields of the queues. *)
LEMMA FieldUpdates ==
  ASSUME NEW T, NEW k \in QueueOver(T), NEW b
  PROVE  /\ AppendByte(k, b).lock = k.lock /\ AppendByte(k, b).not_full = k.not_full
         /\ AppendByte(k, b).not_empty = NULL
         /\ RemoveByte(k).lock = k.lock /\ RemoveByte(k).not_empty = k.not_empty
         /\ RemoveByte(k).not_full = NULL
  BY DEF QueueOver, AppendByte, RemoveByte

(* signal changes the place of one thread. *)
LEMMA AwakePointwise ==
  ASSUME DataInv, NEW t \in Thread \cup {NULL}
  PROVE  /\ Awake(pc, t) \in [Thread -> {"out", "print", "lock", "wait", "woken", "loop"}]
         /\ \A u \in Thread : Awake(pc, t)[u] = IF u = t THEN "woken" ELSE pc[u]
  BY TerminalAssumption DEF DataInv, Awake, Thread

-------------------------------------------------------------------------------
(* Waiting: a step that changes the locks and the waiters of queues only. *)
LockStep(t) ==
  /\ UNCHANGED << put, got, ier, thr, rbr, console, printed, keys, intrs >>
  /\ panic' \in BOOLEAN
  /\ \/ /\ pc[t] \in {"out", "print", "lock", "loop"} /\ HasToWait(t)
        /\ q[QueueOf(t)].lock = NULL /\ Wait(t)
     \/ pc[t] \in {"out", "print", "loop"} /\ pc' = [pc EXCEPT ![t] = "lock"] /\ UNCHANGED q
     \/ UNCHANGED << q, pc >>
     \/ /\ pc[t] = "woken" /\ q' = [q EXCEPT ![QueueOf(t)].lock = NULL]
        /\ pc' = [pc EXCEPT ![t] = "loop"]
  /\ t \in Writer => pc[t] # "out" /\ printed[t] < LineLen

(* A reader waits, or stops waiting. *)
LEMMA ReaderLocks ==
  ASSUME DataInv, QueueInv, SleepInv, NEW t \in Reader, LockStep(t)
  PROVE  /\ DataInv' /\ QueueInv' /\ SleepInv'
         /\ \A u \in Writer : pc'[u] = pc[u]
<1> DEFINE PCs == {"out", "print", "lock", "wait", "woken", "loop"}
<1>1. /\ QueueOf(t) = "rx" /\ Waiter(t) = "not_empty" /\ t \in Thread
      /\ q.rx \in QueueOver(Byte) /\ q.tx \in QueueOver(Byte) /\ t \notin Writer
      /\ NULL \notin Reader
      /\ \A u \in Reader : u \in Thread /\ u \notin Writer
      /\ \A u \in Writer : u \in Thread /\ u \notin Reader
  BY Facts
<1>2. pc \in [Thread -> PCs] /\ q \in [Queue -> QueueOver(Byte)]
  BY DEF DataInv
<1>3. /\ IsEmpty(q.rx) \in BOOLEAN /\ IsFull(q.tx) \in BOOLEAN
      /\ HasToWait(t) <=> IsEmpty(q.rx)
  BY <1>1 DEF IsEmpty, IsFull, HasToWait
<1>4. ASSUME pc' \in [Thread -> PCs], q' \in [Queue -> QueueOver(Byte)], q'.tx = q.tx,
             Ring(q'.rx) = Ring(q.rx), q'.rx.not_full = q.rx.not_full,
             \A u \in Thread : u # t => pc'[u] = pc[u],
             SleepersAt(Reader, q'.rx.lock, q'.rx.not_empty, IsEmpty(q.rx), pc')
      PROVE  DataInv' /\ QueueInv' /\ SleepInv' /\ \A u \in Writer : pc'[u] = pc[u]
  <2>0. \A u \in Writer : pc'[u] = pc[u]
    BY <1>1, <1>4
  <2>1. DataInv'
    BY <1>4 DEF DataInv, LockStep
  <2>2. /\ Contents(q'.rx) = Contents(q.rx) /\ (IsEmpty(q'.rx) <=> IsEmpty(q.rx))
        /\ (IsFull(q'.rx) <=> IsFull(q.rx))
    BY <1>4, SameRing
  <2>3. QueueInv'
    <3>1. put' = put /\ got' = got /\ ier' = ier
      BY DEF LockStep
    <3>2. IerFor(q') = IerFor(q)
      BY <1>4, <2>2 DEF IerFor
    <3> QED BY <1>4, <2>2, <3>1, <3>2 DEF QueueInv, QueuesAreFifo, InterruptsMatchQueues
  <2>4. SleepersAt(Writer, q'.tx.lock, q'.tx.not_full, IsFull(q'.tx), pc')
    BY <1>4, <2>0, <1>3, SleepersUndisturbed DEF SleepInv
  <2>5. (IsEmpty(q'.rx)) = (IsEmpty(q.rx))
    BY <2>2, <1>3 DEF IsEmpty
  <2> QED BY <1>4, <2>0, <2>1, <2>3, <2>4, <2>5 DEF SleepInv
<1>5. CASE /\ pc[t] \in {"out", "print", "lock", "loop"} /\ HasToWait(t)
           /\ q[QueueOf(t)].lock = NULL /\ Wait(t)
  <2>1. q' = [q EXCEPT !["rx"] = [q.rx EXCEPT !.lock = t, !.not_empty = t]]
    BY <1>1, <1>2, <1>5 DEF Wait, Queue
  <2> DEFINE k == [q.rx EXCEPT !.lock = t, !.not_empty = t]
  <2>2. /\ k \in QueueOver(Byte) /\ k.lock = t /\ k.not_empty = t
        /\ k.not_full = q.rx.not_full /\ Ring(k) = Ring(q.rx)
    BY <1>1 DEF QueueOver, Ring
  <2> HIDE DEF k
  <2>3. q'.rx = k /\ q'.tx = q.tx /\ q' \in [Queue -> QueueOver(Byte)]
    BY <2>1, <2>2, <1>2 DEF k, Queue
  <2>4. pc' = [pc EXCEPT ![t] = "wait"]
    BY <1>5 DEF Wait
  <2>5. SleepersAt(Reader, NULL, q.rx.not_empty, IsEmpty(q.rx), pc)
    BY <1>1, <1>5 DEF SleepInv
  <2>6. SleepersAt(Reader, t, t, IsEmpty(q.rx), pc')
    BY <1>1, <1>2, <1>3, <1>5, <2>4, <2>5, SleepersJoined
  <2> QED BY <1>1, <1>2, <1>4, <2>2, <2>3, <2>4, <2>6
<1>6. CASE pc[t] \in {"out", "print", "loop"} /\ pc' = [pc EXCEPT ![t] = "lock"] /\ UNCHANGED q
  <2>1. SleepersAt(Reader, q.rx.lock, q.rx.not_empty, IsEmpty(q.rx), pc)
    BY DEF SleepInv
  <2>2. SleepersAt(Reader, q.rx.lock, q.rx.not_empty, IsEmpty(q.rx), pc')
    BY <1>1, <1>2, <1>3, <1>6, <2>1, SleepersUndisturbed
  <2> QED BY <1>1, <1>2, <1>4, <1>6, <2>2
<1>7. CASE UNCHANGED << q, pc >>
  BY <1>2, <1>4, <1>7 DEF SleepInv
<1>8. CASE /\ pc[t] = "woken" /\ q' = [q EXCEPT ![QueueOf(t)].lock = NULL]
           /\ pc' = [pc EXCEPT ![t] = "loop"]
  <2> DEFINE k == [q.rx EXCEPT !.lock = NULL]
  <2>1. q' = [q EXCEPT !["rx"] = k]
    BY <1>1, <1>2, <1>8 DEF Queue
  <2>2. /\ k \in QueueOver(Byte) /\ k.lock = NULL /\ k.not_empty = q.rx.not_empty
        /\ k.not_full = q.rx.not_full /\ Ring(k) = Ring(q.rx)
    BY <1>1 DEF QueueOver, Ring
  <2> HIDE DEF k
  <2>3. q'.rx = k /\ q'.tx = q.tx /\ q' \in [Queue -> QueueOver(Byte)]
    BY <2>1, <2>2, <1>2 DEF Queue
  <2>5. SleepersAt(Reader, q.rx.lock, q.rx.not_empty, IsEmpty(q.rx), pc)
    BY DEF SleepInv
  <2>4. pc[t] = "woken" /\ \A u \in Reader : pc'[u] = IF u = t THEN "loop" ELSE pc[u]
    BY <1>1, <1>2, <1>8
  <2>6. SleepersAt(Reader, NULL, q.rx.not_empty, IsEmpty(q.rx), pc')
    BY <1>1, <1>3, <2>4, <2>5, SleepersLeft
  <2> QED BY <1>1, <1>2, <1>4, <1>8, <2>2, <2>3, <2>6
<1> QED BY <1>5, <1>6, <1>7, <1>8 DEF LockStep

(* A writer waits, or stops waiting. *)
LEMMA WriterLocks ==
  ASSUME DataInv, QueueInv, SleepInv, NEW t \in Writer, LockStep(t)
  PROVE  /\ DataInv' /\ QueueInv' /\ SleepInv'
         /\ \A u \in Reader : pc'[u] = pc[u]
<1> DEFINE PCs == {"out", "print", "lock", "wait", "woken", "loop"}
<1>1. /\ QueueOf(t) = "tx" /\ Waiter(t) = "not_full" /\ t \in Thread
      /\ q.tx \in QueueOver(Byte) /\ q.rx \in QueueOver(Byte) /\ t \notin Reader
      /\ NULL \notin Writer
      /\ \A u \in Writer : u \in Thread /\ u \notin Reader
      /\ \A u \in Reader : u \in Thread /\ u \notin Writer
  BY Facts
<1>2. pc \in [Thread -> PCs] /\ q \in [Queue -> QueueOver(Byte)]
  BY DEF DataInv
<1>3. /\ IsFull(q.tx) \in BOOLEAN /\ IsEmpty(q.rx) \in BOOLEAN
      /\ HasToWait(t) <=> IsFull(q.tx)
  BY <1>1 DEF IsFull, IsEmpty, HasToWait
<1>4. ASSUME pc' \in [Thread -> PCs], q' \in [Queue -> QueueOver(Byte)], q'.rx = q.rx,
             Ring(q'.tx) = Ring(q.tx), q'.tx.not_empty = q.tx.not_empty,
             \A u \in Thread : u # t => pc'[u] = pc[u],
             SleepersAt(Writer, q'.tx.lock, q'.tx.not_full, IsFull(q.tx), pc')
      PROVE  DataInv' /\ QueueInv' /\ SleepInv' /\ \A u \in Reader : pc'[u] = pc[u]
  <2>0. \A u \in Reader : pc'[u] = pc[u]
    BY <1>1, <1>4
  <2>1. DataInv'
    BY <1>4 DEF DataInv, LockStep
  <2>2. /\ Contents(q'.tx) = Contents(q.tx) /\ (IsFull(q'.tx) <=> IsFull(q.tx))
        /\ (IsEmpty(q'.tx) <=> IsEmpty(q.tx))
    BY <1>4, SameRing
  <2>3. QueueInv'
    <3>1. put' = put /\ got' = got /\ ier' = ier
      BY DEF LockStep
    <3>2. IerFor(q') = IerFor(q)
      BY <1>4, <2>2 DEF IerFor
    <3> QED BY <1>4, <2>2, <3>1, <3>2 DEF QueueInv, QueuesAreFifo, InterruptsMatchQueues
  <2>4. SleepersAt(Reader, q'.rx.lock, q'.rx.not_empty, IsEmpty(q'.rx), pc')
    BY <1>4, <2>0, <1>3, SleepersUndisturbed DEF SleepInv
  <2>5. (IsFull(q'.tx)) = (IsFull(q.tx))
    BY <2>2, <1>3 DEF IsFull
  <2> QED BY <1>4, <2>0, <2>1, <2>3, <2>4, <2>5 DEF SleepInv
<1>5. CASE /\ pc[t] \in {"out", "print", "lock", "loop"} /\ HasToWait(t)
           /\ q[QueueOf(t)].lock = NULL /\ Wait(t)
  <2>1. q' = [q EXCEPT !["tx"] = [q.tx EXCEPT !.lock = t, !.not_full = t]]
    BY <1>1, <1>2, <1>5 DEF Wait, Queue
  <2> DEFINE k == [q.tx EXCEPT !.lock = t, !.not_full = t]
  <2>2. /\ k \in QueueOver(Byte) /\ k.lock = t /\ k.not_full = t
        /\ k.not_empty = q.tx.not_empty /\ Ring(k) = Ring(q.tx)
    BY <1>1 DEF QueueOver, Ring
  <2> HIDE DEF k
  <2>3. q'.tx = k /\ q'.rx = q.rx /\ q' \in [Queue -> QueueOver(Byte)]
    BY <2>1, <2>2, <1>2 DEF k, Queue
  <2>4. pc' = [pc EXCEPT ![t] = "wait"]
    BY <1>5 DEF Wait
  <2>5. SleepersAt(Writer, NULL, q.tx.not_full, IsFull(q.tx), pc)
    BY <1>1, <1>5 DEF SleepInv
  <2>6. SleepersAt(Writer, t, t, IsFull(q.tx), pc')
    BY <1>1, <1>2, <1>3, <1>5, <2>4, <2>5, SleepersJoined
  <2> QED BY <1>1, <1>2, <1>4, <2>2, <2>3, <2>4, <2>6
<1>6. CASE pc[t] \in {"out", "print", "loop"} /\ pc' = [pc EXCEPT ![t] = "lock"] /\ UNCHANGED q
  <2>1. SleepersAt(Writer, q.tx.lock, q.tx.not_full, IsFull(q.tx), pc)
    BY DEF SleepInv
  <2>2. SleepersAt(Writer, q.tx.lock, q.tx.not_full, IsFull(q.tx), pc')
    BY <1>1, <1>2, <1>3, <1>6, <2>1, SleepersUndisturbed
  <2> QED BY <1>1, <1>2, <1>4, <1>6, <2>2
<1>7. CASE UNCHANGED << q, pc >>
  BY <1>2, <1>4, <1>7 DEF SleepInv
<1>8. CASE /\ pc[t] = "woken" /\ q' = [q EXCEPT ![QueueOf(t)].lock = NULL]
           /\ pc' = [pc EXCEPT ![t] = "loop"]
  <2> DEFINE k == [q.tx EXCEPT !.lock = NULL]
  <2>1. q' = [q EXCEPT !["tx"] = k]
    BY <1>1, <1>2, <1>8 DEF Queue
  <2>2. /\ k \in QueueOver(Byte) /\ k.lock = NULL /\ k.not_full = q.tx.not_full
        /\ k.not_empty = q.tx.not_empty /\ Ring(k) = Ring(q.tx)
    BY <1>1 DEF QueueOver, Ring
  <2> HIDE DEF k
  <2>3. q'.tx = k /\ q'.rx = q.rx /\ q' \in [Queue -> QueueOver(Byte)]
    BY <2>1, <2>2, <1>2 DEF Queue
  <2>5. SleepersAt(Writer, q.tx.lock, q.tx.not_full, IsFull(q.tx), pc)
    BY DEF SleepInv
  <2>4. pc[t] = "woken" /\ \A u \in Writer : pc'[u] = IF u = t THEN "loop" ELSE pc[u]
    BY <1>1, <1>2, <1>8
  <2>6. SleepersAt(Writer, NULL, q.tx.not_full, IsFull(q.tx), pc')
    BY <1>1, <1>3, <2>4, <2>5, SleepersLeft
  <2> QED BY <1>1, <1>2, <1>4, <1>8, <2>2, <2>3, <2>6
<1> QED BY <1>5, <1>6, <1>7, <1>8 DEF LockStep

-------------------------------------------------------------------------------
(* The lines and the console, when nothing is printed and nobody begins or *)
(* ends a line.                                                            *)
LEMMA ConsoleKept ==
  ASSUME ConsoleInv, LinesWhole, console' = console, printed' = printed, put'.tx = put.tx,
         \A w \in Writer : \/ pc'[w] = pc[w]
                           \/ pc[w] # "out" /\ pc'[w] # "out" /\ printed[w] < LineLen
  PROVE  ConsoleInv' /\ LinesWhole'
<1>1. LinesWhole'
  BY DEF LinesWhole
<1>2. ASSUME NEW w \in Writer
      PROVE  /\ pc'[w] # "out" <=> console' = w
             /\ pc'[w] \in {"lock", "wait", "woken", "loop"} => printed'[w] < LineLen
             /\ pc'[w] = "out" => printed'[w] \in {0, LineLen}
             /\ console' = w /\ printed'[w] > 0 =>
                   Follows(put'.tx, Len(put'.tx) + 1, <<w, printed'[w]>>)
  BY DEF ConsoleInv
<1> QED BY <1>1, <1>2 DEF ConsoleInv

(* Waiting, and its end, keep the invariant. *)
LEMMA LockStepKeeps ==
  ASSUME TerminalInv, NEW t \in Thread, LockStep(t)
  PROVE  TerminalInv'
<1> USE DEF TerminalInv
<1>0. put' = put /\ console' = console /\ printed' = printed
  BY DEF LockStep
<1>1. CASE t \in Reader
  <2>1. DataInv' /\ QueueInv' /\ SleepInv' /\ \A w \in Writer : pc'[w] = pc[w]
    BY <1>1, ReaderLocks
  <2> QED BY <1>0, <2>1, ConsoleKept
<1>2. CASE t \in Writer
  <2>1. DataInv' /\ QueueInv' /\ SleepInv'
    BY <1>2, WriterLocks
  <2>2. pc \in [Thread -> {"out", "print", "lock", "wait", "woken", "loop"}]
    BY DEF DataInv
  <2>3. ASSUME NEW w \in Writer
        PROVE  \/ pc'[w] = pc[w]
               \/ pc[w] # "out" /\ pc'[w] # "out" /\ printed[w] < LineLen
    <3>1. w \in Thread
      BY DEF Thread
    <3>2. \/ UNCHANGED pc \/ pc' = [pc EXCEPT ![t] = "lock"]
          \/ pc' = [pc EXCEPT ![t] = "wait"] \/ pc' = [pc EXCEPT ![t] = "loop"]
      BY DEF LockStep, Wait
    <3>3. pc[t] # "out" /\ printed[t] < LineLen
      BY <1>2 DEF LockStep
    <3> QED BY <2>2, <3>1, <3>2, <3>3
  <2> QED BY <1>0, <2>1, <2>3, ConsoleKept
<1> QED BY <1>1, <1>2 DEF Thread

-------------------------------------------------------------------------------
(* QueuesAreFifo, one queue at a time. *)
LEMMA QueuesFifoParts ==
  ASSUME DataInv
  PROVE  QueuesAreFifo <=> /\ put.rx = got.rx \o Contents(q.rx)
                           /\ put.tx = got.tx \o Contents(q.tx)
  BY DEF QueuesAreFifo

(* A byte that comes in: the keyboard's or the serial port's. *)
LEMMA ByteArrives ==
  ASSUME DataInv, QueuesAreFifo, SleepInv, NEW b \in Byte, ~ IsFull(q.rx)
  PROVE  /\ AppendByte(q.rx, b) \in QueueOver(Byte)
         /\ Append(put.rx, b) \in Seq(Byte)
         /\ Append(put.rx, b) = got.rx \o Contents(AppendByte(q.rx, b))
         /\ AppendByte(q.rx, b).not_full = NULL
         /\ \A p : (\A r \in Reader : p[r] = Awake(pc, q.rx.not_empty)[r]) =>
              SleepersAt(Reader, AppendByte(q.rx, b).lock, AppendByte(q.rx, b).not_empty,
                         IsEmpty(AppendByte(q.rx, b)), p)
         /\ \A w \in Writer : Awake(pc, q.rx.not_empty)[w] = pc[w]
<1>1. /\ q.rx \in QueueOver(Byte) /\ put.rx \in Seq(Byte) /\ got.rx \in Seq(Byte)
      /\ NULL \notin Reader /\ NULL \notin Writer
      /\ \A r \in Reader : r \in Thread /\ r \notin Writer
      /\ \A w \in Writer : w \in Thread /\ w \notin Reader
  BY Facts
<1>2. q.rx.not_empty \in Reader \cup {NULL}
  BY <1>1 DEF QueueOver
<1>3. /\ \A u \in Thread : Awake(pc, q.rx.not_empty)[u]
                             = IF u = q.rx.not_empty THEN "woken" ELSE pc[u]
  BY <1>2, AwakePointwise DEF Thread
<1>4. /\ AppendByte(q.rx, b).lock = q.rx.lock /\ AppendByte(q.rx, b).not_full = q.rx.not_full
      /\ AppendByte(q.rx, b).not_empty = NULL
  BY <1>1, FieldUpdates
<1>5. ASSUME NEW p, \A r \in Reader : p[r] = Awake(pc, q.rx.not_empty)[r]
      PROVE  SleepersAt(Reader, AppendByte(q.rx, b).lock, AppendByte(q.rx, b).not_empty,
                        IsEmpty(AppendByte(q.rx, b)), p)
  <2>1. SleepersAt(Reader, q.rx.lock, q.rx.not_empty, IsEmpty(q.rx), pc)
    BY DEF SleepInv
  <2>2. IsEmpty(q.rx) \in BOOLEAN /\ IsEmpty(AppendByte(q.rx, b)) \in BOOLEAN
    BY DEF IsEmpty
  <2>3. \A r \in Reader : p[r] = IF r = q.rx.not_empty THEN "woken" ELSE pc[r]
    BY <1>1, <1>3, <1>5
  <2>4. SleepersAt(Reader, q.rx.lock, NULL, IsEmpty(AppendByte(q.rx, b)), p)
    BY <1>1, <2>1, <2>2, <2>3, SleepersSignalled
  <2> QED BY <1>4, <2>4
<1>6. ASSUME NEW w \in Writer
      PROVE  Awake(pc, q.rx.not_empty)[w] = pc[w]
  <2>1. w \in Thread /\ w # q.rx.not_empty
    BY <1>1, <1>2
  <2> QED BY <1>3, <2>1
<1>7. put.rx = got.rx \o Contents(q.rx)
  BY QueuesFifoParts
<1>8. AppendByte(q.rx, b) \in QueueOver(Byte)
  BY <1>1, AppendByteProperties
<1>9. /\ Append(put.rx, b) \in Seq(Byte)
      /\ Append(put.rx, b) = got.rx \o Contents(AppendByte(q.rx, b))
  <2>1. Append(put.rx, b) \in Seq(Byte)
    BY <1>1, AppendProperties
  <2> QED BY <1>1, <1>7, <2>1, FifoAppend
<1>10. AppendByte(q.rx, b).not_full = NULL
  BY <1>4 DEF SleepInv
<1> QED BY <1>5, <1>6, <1>8, <1>9, <1>10

(* A byte that goes out: the transmit queue's first. *)
LEMMA ByteLeaves ==
  ASSUME DataInv, QueuesAreFifo, SleepInv, ~ IsEmpty(q.tx)
  PROVE  /\ RemoveByte(q.tx) \in QueueOver(Byte)
         /\ q.tx.buf[q.tx.tail] \in Byte
         /\ Append(got.tx, q.tx.buf[q.tx.tail]) \in Seq(Byte)
         /\ put.tx = Append(got.tx, q.tx.buf[q.tx.tail]) \o Contents(RemoveByte(q.tx))
         /\ RemoveByte(q.tx).not_empty = NULL
         /\ ~ IsFull(RemoveByte(q.tx))
         /\ \A p, b : b \in BOOLEAN /\ (\A w \in Writer : p[w] = Awake(pc, q.tx.not_full)[w]) =>
              SleepersAt(Writer, RemoveByte(q.tx).lock, RemoveByte(q.tx).not_full, b, p)
         /\ \A r \in Reader : Awake(pc, q.tx.not_full)[r] = pc[r]
         /\ \A w \in Writer : \/ Awake(pc, q.tx.not_full)[w] = pc[w]
                              \/ pc[w] = "wait" /\ Awake(pc, q.tx.not_full)[w] = "woken"
<1>1. /\ q.tx \in QueueOver(Byte) /\ put.tx \in Seq(Byte) /\ got.tx \in Seq(Byte)
      /\ NULL \notin Reader /\ NULL \notin Writer
      /\ \A r \in Reader : r \in Thread /\ r \notin Writer
      /\ \A w \in Writer : w \in Thread /\ w \notin Reader
  BY Facts
<1>2. q.tx.not_full \in Writer \cup {NULL}
  BY <1>1 DEF QueueOver
<1>3. /\ \A u \in Thread : Awake(pc, q.tx.not_full)[u]
                             = IF u = q.tx.not_full THEN "woken" ELSE pc[u]
  BY <1>2, AwakePointwise DEF Thread
<1>4. /\ RemoveByte(q.tx).lock = q.tx.lock /\ RemoveByte(q.tx).not_empty = q.tx.not_empty
      /\ RemoveByte(q.tx).not_full = NULL
  BY <1>1, FieldUpdates
<1>5. SleepersAt(Writer, q.tx.lock, q.tx.not_full, IsFull(q.tx), pc)
  BY DEF SleepInv
<1>6. ASSUME NEW p, NEW b, b \in BOOLEAN, \A w \in Writer : p[w] = Awake(pc, q.tx.not_full)[w]
      PROVE  SleepersAt(Writer, RemoveByte(q.tx).lock, RemoveByte(q.tx).not_full, b, p)
  <2>2. IsFull(q.tx) \in BOOLEAN
    BY DEF IsFull
  <2>3. \A w \in Writer : p[w] = IF w = q.tx.not_full THEN "woken" ELSE pc[w]
    BY <1>1, <1>3, <1>6
  <2>4. SleepersAt(Writer, q.tx.lock, NULL, b, p)
    BY <1>1, <1>5, <1>6, <2>2, <2>3, SleepersSignalled
  <2> QED BY <1>4, <2>4
<1>7. /\ \A r \in Reader : Awake(pc, q.tx.not_full)[r] = pc[r]
      /\ \A w \in Writer : \/ Awake(pc, q.tx.not_full)[w] = pc[w]
                           \/ pc[w] = "wait" /\ Awake(pc, q.tx.not_full)[w] = "woken"
  <2>1. ASSUME NEW r \in Reader PROVE Awake(pc, q.tx.not_full)[r] = pc[r]
    <3>1. r \in Thread /\ r # q.tx.not_full
      BY <1>1, <1>2
    <3> QED BY <1>3, <3>1
  <2>2. ASSUME NEW w \in Writer
        PROVE  \/ Awake(pc, q.tx.not_full)[w] = pc[w]
               \/ pc[w] = "wait" /\ Awake(pc, q.tx.not_full)[w] = "woken"
    <3>1. w \in Thread
      BY <1>1
    <3>2. w = q.tx.not_full => pc[w] = "wait"
      BY <1>5 DEF SleepersAt
    <3> QED BY <1>3, <3>1, <3>2
  <2> QED BY <2>1, <2>2
<1>8. put.tx = got.tx \o Contents(q.tx)
  BY QueuesFifoParts
<1>9. /\ RemoveByte(q.tx) \in QueueOver(Byte) /\ q.tx.buf[q.tx.tail] \in Byte
      /\ ~ IsFull(RemoveByte(q.tx))
  BY <1>1, RemoveByteProperties
<1>10. /\ Append(got.tx, q.tx.buf[q.tx.tail]) \in Seq(Byte)
       /\ put.tx = Append(got.tx, q.tx.buf[q.tx.tail]) \o Contents(RemoveByte(q.tx))
  <2>1. Append(got.tx, q.tx.buf[q.tx.tail]) \in Seq(Byte)
    BY <1>1, <1>9, AppendProperties
  <2> QED BY <1>1, <1>8, <2>1, FifoRemove
<1> QED BY <1>4, <1>6, <1>7, <1>9, <1>10 DEF SleepInv

-------------------------------------------------------------------------------
(* keyboard_interrupt *)
LEMMA KeyboardKeeps ==
  ASSUME TerminalInv, KeyboardInterrupt
  PROVE  TerminalInv'
<1> USE DEF TerminalInv
<1>1. /\ got' = got /\ rbr' = rbr /\ console' = console /\ printed' = printed
      /\ intrs' = intrs /\ panic' = panic /\ keys' = keys + 1 /\ keys < MaxKeys
  BY DEF KeyboardInterrupt
<1>2. /\ keys' \in 0 .. MaxKeys /\ keys + 1 \in Byte
  BY <1>1, TerminalAssumption DEF DataInv, Byte
<1>3. CASE IsFull(q.rx)
  <2>1. q' = q /\ put' = put /\ pc' = pc /\ ier' = ier
    BY <1>3 DEF KeyboardInterrupt
  <2>2. DataInv' /\ QueueInv' /\ SleepInv'
    BY <1>1, <1>2, <2>1
       DEF DataInv, QueueInv, QueuesAreFifo, InterruptsMatchQueues, SleepInv
  <2> QED BY <1>1, <2>1, <2>2, ConsoleKept
<1>4. CASE ~ IsFull(q.rx)
  <2>1. Putc("rx", keys + 1) /\ pc' = Awake(pc, q.rx.not_empty) /\ ier' = IerFor(q')
    BY <1>4 DEF KeyboardInterrupt, InputPutc
  <2>2. /\ q'.rx = AppendByte(q.rx, keys + 1) /\ q'.tx = q.tx
        /\ put'.rx = Append(put.rx, keys + 1) /\ put'.tx = put.tx
        /\ q' \in [Queue -> QueueOver(Byte)] /\ put' \in [Queue -> Seq(Byte)]
    BY <1>2, <1>4, <2>1, PutcUpdate DEF Queue
  <2> HIDE DEF TerminalInv
  <2>3. /\ DataInv /\ QueuesAreFifo /\ SleepInv
    BY DEF TerminalInv, QueueInv
  <2>4. /\ put'.rx = got.rx \o Contents(q'.rx) /\ q'.rx.not_full = NULL
        /\ SleepersAt(Reader, q'.rx.lock, q'.rx.not_empty, IsEmpty(q'.rx), pc')
        /\ \A w \in Writer : pc'[w] = pc[w]
    BY <1>2, <1>4, <2>1, <2>2, <2>3, ByteArrives
  <2>5. put.tx = got.tx \o Contents(q.tx)
    BY <2>3, QueuesFifoParts
  <2>6. q.rx.not_empty \in Thread \cup {NULL}
    BY <2>3, Facts DEF QueueOver, Thread
  <2>7. pc' \in [Thread -> {"out", "print", "lock", "wait", "woken", "loop"}]
    BY <2>1, <2>3, <2>6, AwakePointwise
  <2>8. DataInv'
    BY <1>1, <1>2, <2>2, <2>3, <2>7 DEF DataInv
  <2>9. QueueInv'
    <3>1. \A n \in Queue : put'[n] = got'[n] \o Contents(q'[n])
      BY <1>1, <2>2, <2>4, <2>5 DEF Queue
    <3> QED BY <2>1, <3>1 DEF QueueInv, QueuesAreFifo, InterruptsMatchQueues, Queue
  <2>10. SleepInv'
    <3>1. SleepersAt(Writer, q.tx.lock, q.tx.not_full, IsFull(q.tx), pc) /\ q.tx.not_empty = NULL
      BY <2>3 DEF SleepInv
    <3>2. SleepersAt(Writer, q.tx.lock, q.tx.not_full, IsFull(q.tx), pc')
      <4>1. IsFull(q.tx) \in BOOLEAN
        BY DEF IsFull
      <4> QED BY <2>4, <3>1, <4>1, SleepersUndisturbed
    <3> QED BY <2>2, <2>4, <3>1, <3>2 DEF SleepInv
  <2>11. ConsoleInv' /\ LinesWhole'
    BY <1>1, <2>2, <2>4, ConsoleKept DEF TerminalInv
  <2> QED BY <2>8, <2>9, <2>10, <2>11 DEF TerminalInv
<1> QED BY <1>3, <1>4

(* input_getc, when there is a key. *)
LEMMA TakeKeyKeeps ==
  ASSUME TerminalInv, NEW t \in Reader, pc[t] \in {"out", "loop"}, TakeKey(t)
  PROVE  TerminalInv'
<1>0. DataInv /\ QueuesAreFifo /\ SleepInv
  BY DEF TerminalInv, QueueInv
<1>1. /\ put' = put /\ rbr' = rbr /\ console' = console /\ printed' = printed
      /\ intrs' = intrs /\ panic' = panic /\ keys' = keys
      /\ ~ IsEmpty(q.rx) /\ Getc("rx") /\ ier' = IerFor(q')
      /\ pc' = [Awake(pc, q.rx.not_full) EXCEPT ![t] = "out"]
  BY DEF TakeKey, budget
<1>2. /\ q'.rx = RemoveByte(q.rx) /\ q'.tx = q.tx
      /\ got'.rx = Append(got.rx, q.rx.buf[q.rx.tail]) /\ got'.tx = got.tx
      /\ q' \in [Queue -> QueueOver(Byte)] /\ got' \in [Queue -> Seq(Byte)]
  BY <1>0, <1>1, GetcUpdate
<1>3. pc' = [pc EXCEPT ![t] = "out"]
  BY <1>0, <1>1 DEF SleepInv, Awake
<1>4. /\ q.rx \in QueueOver(Byte) /\ put.rx \in Seq(Byte) /\ got.rx \in Seq(Byte)
      /\ \A u \in Reader : u \in Thread /\ u \notin Writer
      /\ \A u \in Writer : u \in Thread
  BY <1>0, Facts
<1>5. pc \in [Thread -> {"out", "print", "lock", "wait", "woken", "loop"}]
  BY <1>0 DEF DataInv
<1>6. DataInv'
  <2>1. pc' \in [Thread -> {"out", "print", "lock", "wait", "woken", "loop"}]
    BY <1>3, <1>5
  <2> QED BY <1>0, <1>1, <1>2, <2>1 DEF DataInv
<1>7. QueueInv'
  <2>1. put.rx = got.rx \o Contents(q.rx) /\ put.tx = got.tx \o Contents(q.tx)
    BY <1>0, QueuesFifoParts
  <2>2. put.rx = got'.rx \o Contents(q'.rx)
    BY <1>1, <1>2, <1>4, <2>1, FifoRemove
  <2>3. \A n \in Queue : put'[n] = got'[n] \o Contents(q'[n])
    BY <1>1, <1>2, <2>1, <2>2 DEF Queue
  <2> QED BY <1>1, <2>3 DEF QueueInv, QueuesAreFifo, InterruptsMatchQueues, Queue
<1>8. SleepInv'
  <2>1. /\ SleepersAt(Writer, q.tx.lock, q.tx.not_full, IsFull(q.tx), pc)
        /\ SleepersAt(Reader, q.rx.lock, q.rx.not_empty, IsEmpty(q.rx), pc)
        /\ q.tx.not_empty = NULL
    BY <1>0 DEF SleepInv
  <2>2. IsEmpty(q.rx) \in BOOLEAN /\ IsFull(q.tx) \in BOOLEAN /\ IsEmpty(q'.rx) \in BOOLEAN
    BY DEF IsEmpty, IsFull
  <2>3. SleepersAt(Writer, q.tx.lock, q.tx.not_full, IsFull(q.tx), pc')
    <3>1. \A w \in Writer : pc'[w] = pc[w]
      BY <1>3, <1>4, <1>5
    <3> QED BY <2>1, <2>2, <3>1, SleepersUndisturbed
  <2>4. SleepersAt(Reader, q.rx.lock, q.rx.not_empty, IsEmpty(q'.rx), pc')
    <3>1. \A u \in Reader : pc'[u] = pc[u] \/ {pc[u], pc'[u]} \cap {"wait", "woken"} = {}
      BY <1>3, <1>4, <1>5
    <3> QED BY <1>1, <2>1, <2>2, <3>1, SleepersUndisturbed
  <2>5. /\ q'.rx.lock = q.rx.lock /\ q'.rx.not_empty = q.rx.not_empty /\ q'.rx.not_full = NULL
    BY <1>2, <1>4, FieldUpdates
  <2> QED BY <1>2, <2>1, <2>3, <2>4, <2>5 DEF SleepInv
<1>9. ConsoleInv' /\ LinesWhole'
  <2>1. \A w \in Writer : pc'[w] = pc[w]
    BY <1>3, <1>4, <1>5
  <2> QED BY <1>1, <2>1, ConsoleKept DEF TerminalInv
<1> QED BY <1>6, <1>7, <1>8, <1>9 DEF TerminalInv

(* serial_putc, when there is room. *)
LEMMA QueueCharKeeps ==
  ASSUME TerminalInv, NEW t \in Writer, pc[t] \in {"print", "loop"}, printed[t] < LineLen,
         QueueChar(t)
  PROVE  TerminalInv'
<1> DEFINE b == << t, printed[t] + 1 >>
           PCs == {"out", "print", "lock", "wait", "woken", "loop"}
<1>0. DataInv /\ QueuesAreFifo /\ SleepInv /\ ConsoleInv /\ LinesWhole
  BY DEF TerminalInv, QueueInv
<1>1. /\ got' = got /\ rbr' = rbr /\ console' = console /\ thr' = thr
      /\ intrs' = intrs /\ panic' = panic /\ keys' = keys
      /\ ~ IsFull(q.tx) /\ Putc("tx", b) /\ ier' = IerFor(q')
      /\ pc' = [Awake(pc, q.tx.not_empty) EXCEPT ![t] = "print"]
      /\ printed' = [printed EXCEPT ![t] = printed[t] + 1]
  BY DEF QueueChar, budget
<1>2. printed \in [Writer -> 0 .. LineLen] /\ LineLen \in Nat /\ printed[t] \in 0 .. LineLen
  BY <1>0, TerminalAssumption DEF DataInv
<1>3. b \in Byte /\ b[1] = t /\ b[2] = printed[t] + 1
  BY <1>2 DEF Byte
<1> HIDE DEF b
<1>4. /\ q'.tx = AppendByte(q.tx, b) /\ q'.rx = q.rx
      /\ put'.tx = Append(put.tx, b) /\ put'.rx = put.rx
      /\ q' \in [Queue -> QueueOver(Byte)] /\ put' \in [Queue -> Seq(Byte)]
  BY <1>0, <1>1, <1>3, PutcUpdate DEF Queue
<1>5. pc' = [pc EXCEPT ![t] = "print"]
  BY <1>0, <1>1 DEF SleepInv, Awake
<1>6. /\ q.tx \in QueueOver(Byte) /\ put.tx \in Seq(Byte) /\ got.tx \in Seq(Byte)
      /\ t \in Thread /\ t \notin Reader /\ t # NULL
      /\ \A u \in Reader : u \in Thread /\ u \notin Writer
      /\ \A u \in Writer : u \in Thread /\ u \notin Reader
  BY <1>0, Facts
<1>7. pc \in [Thread -> PCs]
  BY <1>0 DEF DataInv
<1>8. DataInv'
  <2>1. pc' \in [Thread -> PCs]
    BY <1>5, <1>7
  <2>2. printed' \in [Writer -> 0 .. LineLen]
    <3>1. printed[t] + 1 \in 0 .. LineLen
      BY <1>2
    <3> QED BY <1>1, <1>2, <3>1
  <2> QED BY <1>0, <1>1, <1>4, <2>1, <2>2 DEF DataInv
<1>9. QueueInv'
  <2>1. put.rx = got.rx \o Contents(q.rx) /\ put.tx = got.tx \o Contents(q.tx)
    BY <1>0, QueuesFifoParts
  <2>2. put'.tx = got.tx \o Contents(q'.tx)
    <3>1. Append(put.tx, b) = got.tx \o Contents(AppendByte(q.tx, b))
      BY <1>1, <1>3, <1>6, <2>1, FifoAppend
    <3> QED BY <1>4, <3>1
  <2>3. \A n \in Queue : put'[n] = got'[n] \o Contents(q'[n])
    BY <1>1, <1>4, <2>1, <2>2 DEF Queue
  <2> QED BY <1>1, <2>3 DEF QueueInv, QueuesAreFifo, InterruptsMatchQueues, Queue
<1>10. SleepInv'
  <2>1. /\ SleepersAt(Writer, q.tx.lock, q.tx.not_full, IsFull(q.tx), pc)
        /\ SleepersAt(Reader, q.rx.lock, q.rx.not_empty, IsEmpty(q.rx), pc)
        /\ q.rx.not_full = NULL
    BY <1>0 DEF SleepInv
  <2>2. IsEmpty(q.rx) \in BOOLEAN /\ IsFull(q.tx) \in BOOLEAN /\ IsFull(q'.tx) \in BOOLEAN
    BY DEF IsEmpty, IsFull
  <2>3. SleepersAt(Reader, q.rx.lock, q.rx.not_empty, IsEmpty(q.rx), pc')
    <3>1. \A r \in Reader : pc'[r] = pc[r]
      BY <1>5, <1>6, <1>7
    <3> QED BY <2>1, <2>2, <3>1, SleepersUndisturbed
  <2>4. SleepersAt(Writer, q.tx.lock, q.tx.not_full, IsFull(q'.tx), pc')
    <3>1. \A u \in Writer : pc'[u] = pc[u] \/ {pc[u], pc'[u]} \cap {"wait", "woken"} = {}
      BY <1>5, <1>6, <1>7
    <3> QED BY <1>1, <2>1, <2>2, <3>1, SleepersUndisturbed
  <2>5. /\ q'.tx.lock = q.tx.lock /\ q'.tx.not_full = q.tx.not_full /\ q'.tx.not_empty = NULL
    BY <1>4, <1>6, FieldUpdates
  <2> QED BY <1>4, <2>1, <2>3, <2>4, <2>5 DEF SleepInv
<1>11. console = t /\ pc[t] # "out"
  BY <1>0 DEF ConsoleInv
<1>12. printed[t] > 0 => Follows(put.tx, Len(put.tx) + 1, << t, printed[t] >>)
  BY <1>0, <1>11 DEF ConsoleInv
<1>13. LinesWhole'
  <2>1. IsWhole(put.tx)
    BY <1>0 DEF LinesWhole, IsWhole
  <2>2. b[1] # NULL /\ b[2] > 1 => Follows(put.tx, Len(put.tx) + 1, << b[1], b[2] - 1 >>)
    <3>1. b[2] > 1 => printed[t] > 0 /\ b[2] - 1 = printed[t]
      BY <1>2, <1>3
    <3> QED BY <1>3, <1>12, <3>1
  <2>3. IsWhole(put'.tx)
    BY <1>3, <1>4, <1>6, <2>1, <2>2, WholeAppend
  <2> QED BY <2>3 DEF LinesWhole, IsWhole
<1>14. ConsoleInv'
  <2>1. Follows(put'.tx, Len(put'.tx) + 1, << t, printed'[t] >>)
    <3>1. b = << t, printed'[t] >>
      BY <1>1, <1>2 DEF b
    <3> QED BY <1>3, <1>4, <1>6, <3>1, FollowsAppend
  <2>2. ASSUME NEW w \in Writer, w # t
        PROVE  pc'[w] = pc[w] /\ printed'[w] = printed[w] /\ console # w
    BY <1>1, <1>2, <1>5, <1>6, <1>7, <1>11, <2>2
  <2>3. pc'[t] = "print" /\ console' = t
    BY <1>1, <1>5, <1>6, <1>7, <1>11
  <2>4. ASSUME NEW w \in Writer
        PROVE  /\ pc'[w] # "out" <=> console' = w
               /\ pc'[w] \in {"lock", "wait", "woken", "loop"} => printed'[w] < LineLen
               /\ pc'[w] = "out" => printed'[w] \in {0, LineLen}
               /\ console' = w /\ printed'[w] > 0 =>
                     Follows(put'.tx, Len(put'.tx) + 1, <<w, printed'[w]>>)
    <3>1. CASE w = t
      BY <2>1, <2>3, <3>1
    <3>2. CASE w # t
      BY <1>0, <1>1, <2>2, <3>2 DEF ConsoleInv
    <3> QED BY <3>1, <3>2
  <2> QED BY <1>0, <1>1, <2>4 DEF ConsoleInv
<1> QED BY <1>8, <1>9, <1>10, <1>13, <1>14 DEF TerminalInv

(* printf begins and ends. *)
LEMMA ConsoleStepKeeps ==
  ASSUME TerminalInv, NEW t \in Writer, AcquireConsole(t) \/ ReleaseConsole(t)
  PROVE  TerminalInv'
<1> DEFINE PCs == {"out", "print", "lock", "wait", "woken", "loop"}
<1>0. DataInv /\ QueueInv /\ SleepInv /\ ConsoleInv /\ LinesWhole
  BY DEF TerminalInv
<1>1. UNCHANGED << q, put, got, ier, thr, rbr, printed, keys, intrs, panic >>
  BY DEF AcquireConsole, ReleaseConsole, budget, uart
<1>2. /\ t \in Thread /\ t # NULL
      /\ \A u \in Reader : u \in Thread /\ u \notin Writer
      /\ \A u \in Writer : u \in Thread /\ u \notin Reader
  BY <1>0, Facts
<1>3. pc \in [Thread -> PCs]
  BY <1>0 DEF DataInv
<1>4. \/ /\ pc[t] = "out" /\ console = NULL /\ printed[t] < LineLen
         /\ console' = t /\ pc' = [pc EXCEPT ![t] = "print"]
      \/ /\ pc[t] = "print" /\ printed[t] = LineLen
         /\ console' = NULL /\ pc' = [pc EXCEPT ![t] = "out"]
  BY DEF AcquireConsole, ReleaseConsole
<1>5. DataInv'
  <2>1. pc' \in [Thread -> PCs]
    BY <1>3, <1>4
  <2> QED BY <1>0, <1>1, <2>1 DEF DataInv
<1>6. QueueInv'
  BY <1>0, <1>1 DEF QueueInv, QueuesAreFifo, InterruptsMatchQueues
<1>7. SleepInv'
  <2>1. IsEmpty(q.rx) \in BOOLEAN /\ IsFull(q.tx) \in BOOLEAN
    BY DEF IsEmpty, IsFull
  <2>2. \A u \in Thread : pc'[u] = pc[u] \/ {pc[u], pc'[u]} \cap {"wait", "woken"} = {}
    BY <1>3, <1>4
  <2>3. /\ SleepersAt(Writer, q.tx.lock, q.tx.not_full, IsFull(q.tx), pc)
        /\ SleepersAt(Reader, q.rx.lock, q.rx.not_empty, IsEmpty(q.rx), pc)
    BY <1>0 DEF SleepInv
  <2>4. SleepersAt(Writer, q.tx.lock, q.tx.not_full, IsFull(q.tx), pc')
    BY <1>2, <2>1, <2>2, <2>3, SleepersUndisturbed
  <2>5. SleepersAt(Reader, q.rx.lock, q.rx.not_empty, IsEmpty(q.rx), pc')
    BY <1>2, <2>1, <2>2, <2>3, SleepersUndisturbed
  <2> QED BY <1>0, <1>1, <2>4, <2>5 DEF SleepInv
<1>8. LinesWhole'
  BY <1>0, <1>1 DEF LinesWhole
<1>9. ConsoleInv'
  <2>1. printed[t] \in 0 .. LineLen /\ LineLen \in Nat
    BY <1>0, TerminalAssumption DEF DataInv
  <2>2. pc[t] = "out" /\ printed[t] < LineLen => printed[t] = 0
    <3>1. pc[t] = "out" => printed[t] \in {0, LineLen}
      BY <1>0 DEF ConsoleInv
    <3> QED BY <2>1, <3>1
  <2>3. pc[t] = "print" => console = t
    BY <1>0 DEF ConsoleInv
  <2>4. ASSUME NEW w \in Writer
        PROVE  /\ pc'[w] # "out" <=> console' = w
               /\ pc'[w] \in {"lock", "wait", "woken", "loop"} => printed'[w] < LineLen
               /\ pc'[w] = "out" => printed'[w] \in {0, LineLen}
               /\ console' = w /\ printed'[w] > 0 =>
                     Follows(put'.tx, Len(put'.tx) + 1, <<w, printed'[w]>>)
    <3>0. /\ pc[w] # "out" <=> console = w
          /\ pc[w] \in {"lock", "wait", "woken", "loop"} => printed[w] < LineLen
          /\ pc[w] = "out" => printed[w] \in {0, LineLen}
          /\ w # NULL
      BY <1>0, Facts DEF ConsoleInv
    <3>1. CASE w = t
      BY <1>1, <1>2, <1>3, <1>4, <2>1, <2>2, <3>0, <3>1
    <3>2. CASE w # t
      <4>1. pc'[w] = pc[w] /\ console # w /\ console' # w
        BY <1>2, <1>3, <1>4, <2>3, <3>0, <3>2
      <4> QED BY <1>1, <3>0, <4>1
    <3> QED BY <3>1, <3>2
  <2> QED BY <1>0, <1>4, <2>4 DEF ConsoleInv
<1> QED BY <1>5, <1>6, <1>7, <1>8, <1>9 DEF TerminalInv

(* The UART alone. *)
LEMMA UartKeeps ==
  ASSUME TerminalInv, Transmit \/ Receive
  PROVE  TerminalInv'
<1>0. DataInv /\ QueueInv /\ SleepInv /\ ConsoleInv /\ LinesWhole
  BY DEF TerminalInv
<1>1. UNCHANGED << q, put, got, ier, console, pc, printed, intrs, panic >>
  BY DEF Transmit, Receive, budget
<1>2. keys' \in 0 .. MaxKeys /\ rbr' \in (1 .. MaxKeys) \cup {NULL}
  BY <1>0, TerminalAssumption DEF DataInv, Transmit, Receive, budget
<1> QED BY <1>0, <1>1, <1>2 DEF TerminalInv, DataInv, QueueInv, QueuesAreFifo,
           InterruptsMatchQueues, SleepInv, ConsoleInv, LinesWhole

(* serial_interrupt: at most one byte in and one out. *)
LEMMA SerialKeeps ==
  ASSUME TerminalInv, SerialInterrupt
  PROVE  TerminalInv'
<1> DEFINE recv == rbr # NULL /\ ~ IsFull(q.rx)
           xmit == thr = NULL /\ ~ IsEmpty(q.tx)
           first == q.tx.buf[q.tx.tail]
           PCs == {"out", "print", "lock", "wait", "woken", "loop"}
           pcR == IF recv THEN Awake(pc, q.rx.not_empty) ELSE pc
           pcX == IF xmit THEN Awake(pc, q.tx.not_full) ELSE pc
<1>0. DataInv /\ QueuesAreFifo /\ SleepInv /\ ConsoleInv /\ LinesWhole
  BY DEF TerminalInv, QueueInv
<1>1. /\ q' = [rx |-> IF recv THEN AppendByte(q.rx, rbr) ELSE q.rx,
               tx |-> IF xmit THEN RemoveByte(q.tx) ELSE q.tx]
      /\ put' = IF recv THEN [put EXCEPT !.rx = Append(put.rx, rbr)] ELSE put
      /\ got' = IF xmit THEN [got EXCEPT !.tx = Append(got.tx, first)] ELSE got
      /\ rbr' = IF recv THEN NULL ELSE rbr
      /\ pc' = Awake(pcR, IF xmit THEN q.tx.not_full ELSE NULL)
      /\ ier' = IerFor(q')
      /\ UNCHANGED << console, printed, keys, intrs, panic >>
  BY DEF SerialInterrupt, budget
<1>2. /\ q.rx \in QueueOver(Byte) /\ q.tx \in QueueOver(Byte)
      /\ put.rx \in Seq(Byte) /\ got.rx \in Seq(Byte)
      /\ put.tx \in Seq(Byte) /\ got.tx \in Seq(Byte)
      /\ NULL \notin Reader /\ NULL \notin Writer
      /\ \A u \in Reader : u \in Thread /\ u \notin Writer
      /\ \A u \in Writer : u \in Thread /\ u \notin Reader
  BY <1>0, Facts
<1>3. /\ pc \in [Thread -> PCs] /\ put \in [Queue -> Seq(Byte)] /\ got \in [Queue -> Seq(Byte)]
      /\ rbr \in (1 .. MaxKeys) \cup {NULL}
  BY <1>0 DEF DataInv
<1>4. /\ put.rx = got.rx \o Contents(q.rx) /\ put.tx = got.tx \o Contents(q.tx)
  BY <1>0, QueuesFifoParts
<1>5. /\ q.rx.not_full = NULL /\ q.tx.not_empty = NULL
      /\ SleepersAt(Reader, q.rx.lock, q.rx.not_empty, IsEmpty(q.rx), pc)
      /\ SleepersAt(Writer, q.tx.lock, q.tx.not_full, IsFull(q.tx), pc)
      /\ IsEmpty(q.rx) \in BOOLEAN /\ IsFull(q.tx) \in BOOLEAN
  BY <1>0 DEF SleepInv, IsEmpty, IsFull
<1>6. q.rx.not_empty \in Reader \cup {NULL} /\ q.tx.not_full \in Writer \cup {NULL}
  BY <1>2 DEF QueueOver
<1> HIDE DEF recv, xmit, first
(* Readers see what happens to the input queue, writers to the other. *)
<1>7. /\ pc' \in [Thread -> PCs]
      /\ \A r \in Reader : pc'[r] = pcR[r]
      /\ \A w \in Writer : pc'[w] = pcX[w]
  <2>1. \A u \in Thread :
           /\ Awake(pc, q.rx.not_empty)[u] = IF u = q.rx.not_empty THEN "woken" ELSE pc[u]
           /\ Awake(pc, q.tx.not_full)[u] = IF u = q.tx.not_full THEN "woken" ELSE pc[u]
    BY <1>0, <1>6, AwakePointwise DEF Thread
  <2>2. Awake(pc, q.rx.not_empty) \in [Thread -> PCs]
    BY <1>0, <1>6, AwakePointwise DEF Thread
  <2>3. pcR \in [Thread -> PCs]
    BY <1>3, <2>2
  <2> DEFINE x == IF xmit THEN q.tx.not_full ELSE NULL
  <2>4. x \in Writer \cup {NULL}
    BY <1>6
  <2>5. pc' = IF x = NULL THEN pcR ELSE [pcR EXCEPT ![x] = "woken"]
    BY <1>1 DEF Awake
  <2>6. \A u \in Thread : pc'[u] = IF u = x THEN "woken" ELSE pcR[u]
    <3> HIDE DEF pcR, x
    <3>1. NULL \notin Thread
      BY TerminalAssumption DEF Thread
    <3> QED BY <2>3, <2>4, <2>5, <3>1 DEF Thread
  <2>7. pc' \in [Thread -> PCs]
    <3> HIDE DEF pcR, x
    <3> QED BY <2>3, <2>5
  <2>8. ASSUME NEW r \in Reader PROVE pc'[r] = pcR[r]
    <3>1. r \in Thread /\ r # x
      BY <1>2, <2>4
    <3> QED BY <2>6, <3>1
  <2>9. ASSUME NEW w \in Writer PROVE pc'[w] = pcX[w]
    <3>1. w \in Thread /\ w # NULL /\ w # q.rx.not_empty
      BY <1>2, <1>6
    <3>2. pcR[w] = pc[w]
      BY <2>1, <3>1
    <3> QED BY <2>1, <2>6, <3>1, <3>2
  <2> QED BY <2>7, <2>8, <2>9
<1>8. q'.rx = (IF recv THEN AppendByte(q.rx, rbr) ELSE q.rx)
      /\ q'.tx = (IF xmit THEN RemoveByte(q.tx) ELSE q.tx)
  BY <1>1
(* The input queue. *)
<1>9. /\ q'.rx \in QueueOver(Byte) /\ q'.rx.not_full = NULL
      /\ put'.rx = got.rx \o Contents(q'.rx) /\ put' \in [Queue -> Seq(Byte)]
      /\ put'.tx = put.tx
      /\ SleepersAt(Reader, q'.rx.lock, q'.rx.not_empty, IsEmpty(q'.rx), pc')
      /\ rbr' \in (1 .. MaxKeys) \cup {NULL}
  <2>1. CASE recv
    <3>1. rbr \in Byte /\ ~ IsFull(q.rx)
      BY <1>3, <2>1 DEF Byte, recv
    <3>2. /\ AppendByte(q.rx, rbr) \in QueueOver(Byte)
          /\ Append(put.rx, rbr) \in Seq(Byte)
          /\ Append(put.rx, rbr) = got.rx \o Contents(AppendByte(q.rx, rbr))
          /\ AppendByte(q.rx, rbr).not_full = NULL
      BY <1>0, <3>1, ByteArrives
    <3>3. \A r \in Reader : pc'[r] = Awake(pc, q.rx.not_empty)[r]
      BY <1>7, <2>1
    <3>4. SleepersAt(Reader, AppendByte(q.rx, rbr).lock, AppendByte(q.rx, rbr).not_empty,
                     IsEmpty(AppendByte(q.rx, rbr)), pc')
      BY <1>0, <3>1, <3>3, ByteArrives
    <3>5. put' = [put EXCEPT !.rx = Append(put.rx, rbr)] /\ rbr' = NULL
      BY <1>1, <2>1
    <3>6. put'.rx = Append(put.rx, rbr) /\ put'.tx = put.tx /\ put' \in [Queue -> Seq(Byte)]
      BY <1>3, <3>2, <3>5 DEF Queue
    <3> QED BY <1>8, <2>1, <3>2, <3>4, <3>5, <3>6
  <2>2. CASE ~ recv
    <3>1. \A r \in Reader : pc'[r] = pc[r]
      BY <1>7, <2>2
    <3>2. SleepersAt(Reader, q.rx.lock, q.rx.not_empty, IsEmpty(q.rx), pc')
      BY <1>5, <3>1, SleepersUndisturbed
    <3> QED BY <1>1, <1>2, <1>3, <1>4, <1>5, <1>8, <2>2, <3>2
  <2> QED BY <2>1, <2>2
(* The transmit queue. *)
<1>10. /\ q'.tx \in QueueOver(Byte) /\ q'.tx.not_empty = NULL
       /\ put.tx = got'.tx \o Contents(q'.tx) /\ got' \in [Queue -> Seq(Byte)]
       /\ got'.rx = got.rx
       /\ SleepersAt(Writer, q'.tx.lock, q'.tx.not_full, IsFull(q'.tx), pc')
       /\ \A w \in Writer : pc'[w] = pc[w] \/ (pc[w] = "wait" /\ pc'[w] = "woken")
  <2>1. CASE xmit
    <3>1. ~ IsEmpty(q.tx)
      BY <2>1 DEF xmit
    <3>2. /\ RemoveByte(q.tx) \in QueueOver(Byte)
          /\ Append(got.tx, first) \in Seq(Byte)
          /\ put.tx = Append(got.tx, first) \o Contents(RemoveByte(q.tx))
          /\ RemoveByte(q.tx).not_empty = NULL
      BY <1>0, <3>1, ByteLeaves DEF first
    <3>3. \A w \in Writer : pc'[w] = Awake(pc, q.tx.not_full)[w]
      BY <1>7, <2>1
    <3>4. SleepersAt(Writer, RemoveByte(q.tx).lock, RemoveByte(q.tx).not_full,
                     IsFull(RemoveByte(q.tx)), pc')
      <4>1. IsFull(RemoveByte(q.tx)) \in BOOLEAN
        BY DEF IsFull
      <4> QED BY <1>0, <3>1, <3>3, <4>1, ByteLeaves
    <3>5. got' = [got EXCEPT !.tx = Append(got.tx, first)]
      BY <1>1, <2>1
    <3>6. got'.tx = Append(got.tx, first) /\ got'.rx = got.rx /\ got' \in [Queue -> Seq(Byte)]
      BY <1>3, <3>2, <3>5 DEF Queue
    <3>7. \A w \in Writer : pc'[w] = pc[w] \/ (pc[w] = "wait" /\ pc'[w] = "woken")
      BY <1>0, <3>1, <3>3, ByteLeaves
    <3> QED BY <1>8, <2>1, <3>2, <3>4, <3>6, <3>7
  <2>2. CASE ~ xmit
    <3>1. \A w \in Writer : pc'[w] = pc[w]
      BY <1>7, <2>2
    <3>2. SleepersAt(Writer, q.tx.lock, q.tx.not_full, IsFull(q.tx), pc')
      BY <1>5, <3>1, SleepersUndisturbed
    <3> QED BY <1>1, <1>2, <1>3, <1>4, <1>5, <1>8, <2>2, <3>1, <3>2
  <2> QED BY <2>1, <2>2
<1>11. DataInv'
  <2>1. q' \in [Queue -> QueueOver(Byte)]
    BY <1>1, <1>9, <1>10 DEF Queue
  <2> QED BY <1>0, <1>1, <1>7, <1>9, <1>10, <2>1 DEF DataInv
<1>12. QueueInv'
  <2>1. \A n \in Queue : put'[n] = got'[n] \o Contents(q'[n])
    BY <1>9, <1>10 DEF Queue
  <2> QED BY <1>1, <2>1 DEF QueueInv, QueuesAreFifo, InterruptsMatchQueues, Queue
<1>13. SleepInv'
  BY <1>9, <1>10 DEF SleepInv
<1>14. ConsoleInv' /\ LinesWhole'
  <2>1. ASSUME NEW w \in Writer
        PROVE  \/ pc'[w] = pc[w]
               \/ pc[w] # "out" /\ pc'[w] # "out" /\ printed[w] < LineLen
    <3>1. pc[w] = "wait" => printed[w] < LineLen
      BY <1>0 DEF ConsoleInv
    <3> QED BY <1>10, <3>1
  <2> QED BY <1>0, <1>1, <1>9, <2>1, ConsoleKept
<1> QED BY <1>11, <1>12, <1>13, <1>14 DEF TerminalInv

(* serial_putc in an interrupt handler. *)
LEMMA HandlerKeeps ==
  ASSUME TerminalInv, PutcInHandler
  PROVE  TerminalInv'
<1> DEFINE b == << NULL, intrs + 1 >>
           PCs == {"out", "print", "lock", "wait", "woken", "loop"}
<1>0. DataInv /\ QueuesAreFifo /\ SleepInv /\ ConsoleInv /\ LinesWhole
  BY DEF TerminalInv, QueueInv
<1>1. /\ intrs' = intrs + 1 /\ intrs < MaxIntr /\ ier' = IerFor(q')
      /\ UNCHANGED << rbr, console, printed, keys, panic >>
  BY DEF PutcInHandler
<1>2. /\ q.tx \in QueueOver(Byte) /\ put.tx \in Seq(Byte) /\ got.tx \in Seq(Byte)
      /\ \A u \in Reader : u \in Thread /\ u \notin Writer
      /\ \A u \in Writer : u \in Thread /\ u \notin Reader
  BY <1>0, Facts
<1>3. /\ pc \in [Thread -> PCs] /\ put \in [Queue -> Seq(Byte)] /\ got \in [Queue -> Seq(Byte)]
      /\ q \in [Queue -> QueueOver(Byte)]
      /\ intrs \in 0 .. MaxIntr
  BY <1>0 DEF DataInv
<1>4. b \in Byte /\ b[1] = NULL /\ intrs' \in 0 .. MaxIntr
  <2>1. intrs + 1 \in Nat /\ intrs + 1 \in 0 .. MaxIntr
    BY <1>1, <1>3, TerminalAssumption
  <2> QED BY <1>1, <2>1 DEF Byte
<1> HIDE DEF b
<1>5. put.rx = got.rx \o Contents(q.rx) /\ put.tx = got.tx \o Contents(q.tx)
  BY <1>0, QueuesFifoParts
<1>6. /\ q.rx.not_full = NULL /\ q.tx.not_empty = NULL
      /\ SleepersAt(Reader, q.rx.lock, q.rx.not_empty, IsEmpty(q.rx), pc)
      /\ SleepersAt(Writer, q.tx.lock, q.tx.not_full, IsFull(q.tx), pc)
      /\ IsEmpty(q.rx) \in BOOLEAN /\ IsFull(q.tx) \in BOOLEAN
  BY <1>0 DEF SleepInv, IsEmpty, IsFull
(* What the two ways of printing have in common. *)
<1>7. /\ q'.tx \in QueueOver(Byte) /\ q'.tx.not_empty = NULL /\ q'.rx = q.rx
      /\ q' \in [Queue -> QueueOver(Byte)]
      /\ put'.tx = Append(put.tx, b) /\ put'.rx = put.rx /\ put' \in [Queue -> Seq(Byte)]
      /\ got'.rx = got.rx /\ got' \in [Queue -> Seq(Byte)]
      /\ put'.tx = got'.tx \o Contents(q'.tx)
      /\ SleepersAt(Writer, q'.tx.lock, q'.tx.not_full, IsFull(q'.tx), pc')
      /\ pc' \in [Thread -> PCs]
      /\ \A r \in Reader : pc'[r] = pc[r]
      /\ \A w \in Writer : pc'[w] = pc[w] \/ (pc[w] = "wait" /\ pc'[w] = "woken")
  <2>1. CASE IsFull(q.tx)
    <3> DEFINE first == q.tx.buf[q.tx.tail]
               rest == RemoveByte(q.tx)
    <3>1. /\ q' = [q EXCEPT !["tx"] = AppendByte(RemoveByte(q["tx"]), b)]
          /\ put' = [put EXCEPT !["tx"] = Append(put["tx"], b)]
          /\ got' = [got EXCEPT !["tx"] = Append(got["tx"], first)]
          /\ pc' = Awake(pc, q.tx.not_full)
      BY <2>1 DEF PutcInHandler, b
    <3>2. ~ IsEmpty(q.tx)
      <4>1. /\ IsEmpty(q.tx) <=> Count(q.tx) = 0
            /\ IsFull(q.tx) <=> Count(q.tx) = BufSize - 1
        BY <1>2, QueueShape
      <4> QED BY <2>1, <4>1, TerminalAssumption
    <3>3. /\ rest \in QueueOver(Byte) /\ first \in Byte
          /\ Append(got.tx, first) \in Seq(Byte)
          /\ put.tx = Append(got.tx, first) \o Contents(rest)
          /\ rest.not_empty = NULL /\ ~ IsFull(rest)
          /\ \A r \in Reader : pc'[r] = pc[r]
          /\ \A w \in Writer : pc'[w] = pc[w] \/ (pc[w] = "wait" /\ pc'[w] = "woken")
      BY <1>0, <3>1, <3>2, ByteLeaves
    <3>4. \A full : full \in BOOLEAN => SleepersAt(Writer, rest.lock, rest.not_full, full, pc')
      BY <1>0, <3>1, <3>2, ByteLeaves
    <3>5. pc' \in [Thread -> PCs]
      <4>1. q.tx.not_full \in Thread \cup {NULL}
        BY <1>2 DEF QueueOver, Thread
      <4> QED BY <1>0, <3>1, <4>1, AwakePointwise
    <3> HIDE DEF first, rest
    <3>6. /\ AppendByte(rest, b) \in QueueOver(Byte)
          /\ AppendByte(rest, b).lock = rest.lock
          /\ AppendByte(rest, b).not_full = rest.not_full
          /\ AppendByte(rest, b).not_empty = NULL
      BY <1>4, <3>3, AppendByteProperties, FieldUpdates
    <3>7. /\ Append(put.tx, b) \in Seq(Byte)
          /\ Append(put.tx, b) = Append(got.tx, first) \o Contents(AppendByte(rest, b))
      <4>1. Append(put.tx, b) \in Seq(Byte)
        BY <1>2, <1>4, AppendProperties
      <4> DEFINE g == Append(got.tx, first)
                 p == put.tx
      <4>2. /\ g \in Seq(Byte) /\ p \in Seq(Byte) /\ p = g \o Contents(rest)
            /\ rest \in QueueOver(Byte) /\ ~ IsFull(rest)
        BY <1>2, <3>3
      <4> HIDE DEF g, p
      <4>3. Append(p, b) = g \o Contents(AppendByte(rest, b))
        BY <1>4, <4>2, FifoAppend
      <4> QED BY <4>1, <4>3 DEF g, p
    <3>8. /\ q'.tx = AppendByte(rest, b) /\ q'.rx = q.rx /\ q' \in [Queue -> QueueOver(Byte)]
      BY <1>3, <3>1, <3>6 DEF Queue, rest
    <3>9. /\ put'.tx = Append(put.tx, b) /\ put'.rx = put.rx /\ put' \in [Queue -> Seq(Byte)]
          /\ got'.tx = Append(got.tx, first) /\ got'.rx = got.rx /\ got' \in [Queue -> Seq(Byte)]
      BY <1>3, <3>1, <3>3, <3>7 DEF Queue
    <3>10. IsFull(q'.tx) \in BOOLEAN
      BY DEF IsFull
    <3>11. SleepersAt(Writer, q'.tx.lock, q'.tx.not_full, IsFull(q'.tx), pc')
      BY <3>4, <3>6, <3>8, <3>10
    <3> QED BY <3>3, <3>5, <3>6, <3>7, <3>8, <3>9, <3>11
  <2>2. CASE ~ IsFull(q.tx)
    <3>1. Putc("tx", b) /\ got' = got /\ pc' = pc
      BY <2>2 DEF PutcInHandler, b
    <3>2. /\ q'.tx = AppendByte(q.tx, b) /\ q'.rx = q.rx
          /\ put'.tx = Append(put.tx, b) /\ put'.rx = put.rx
          /\ q' \in [Queue -> QueueOver(Byte)] /\ put' \in [Queue -> Seq(Byte)]
      BY <1>0, <1>4, <2>2, <3>1, PutcUpdate DEF Queue
    <3>3. /\ q'.tx.lock = q.tx.lock /\ q'.tx.not_full = q.tx.not_full /\ q'.tx.not_empty = NULL
      BY <1>2, <3>2, FieldUpdates
    <3>4. Append(put.tx, b) = got.tx \o Contents(AppendByte(q.tx, b))
      BY <1>2, <1>4, <1>5, <2>2, FifoAppend
    <3>5. IsFull(q'.tx) \in BOOLEAN
      BY DEF IsFull
    <3>6. SleepersAt(Writer, q.tx.lock, q.tx.not_full, IsFull(q'.tx), pc')
      BY <1>6, <2>2, <3>1, <3>5, SleepersUndisturbed
    <3>7. q'.tx \in QueueOver(Byte)
      BY <3>2 DEF Queue
    <3> QED BY <1>3, <3>1, <3>2, <3>3, <3>4, <3>6, <3>7
  <2> QED BY <2>1, <2>2
<1>8. DataInv'
  BY <1>0, <1>1, <1>4, <1>7 DEF DataInv
<1>9. QueueInv'
  <2>1. \A n \in Queue : put'[n] = got'[n] \o Contents(q'[n])
    BY <1>5, <1>7 DEF Queue
  <2> QED BY <1>1, <2>1 DEF QueueInv, QueuesAreFifo, InterruptsMatchQueues, Queue
<1>10. SleepInv'
  <2>1. SleepersAt(Reader, q.rx.lock, q.rx.not_empty, IsEmpty(q.rx), pc')
    BY <1>6, <1>7, SleepersUndisturbed
  <2> QED BY <1>6, <1>7, <2>1 DEF SleepInv
<1>11. LinesWhole'
  <2>1. IsWhole(put.tx)
    BY <1>0 DEF LinesWhole, IsWhole
  <2>2. IsWhole(Append(put.tx, b))
    BY <1>2, <1>4, <2>1, WholeAppend
  <2> QED BY <1>7, <2>2 DEF LinesWhole, IsWhole
<1>12. ConsoleInv'
  <2>1. ASSUME NEW w \in Writer
        PROVE  /\ pc'[w] # "out" <=> console' = w
               /\ pc'[w] \in {"lock", "wait", "woken", "loop"} => printed'[w] < LineLen
               /\ pc'[w] = "out" => printed'[w] \in {0, LineLen}
               /\ console' = w /\ printed'[w] > 0 =>
                     Follows(put'.tx, Len(put'.tx) + 1, <<w, printed'[w]>>)
    <3>1. /\ pc[w] # "out" <=> console = w
          /\ pc[w] \in {"lock", "wait", "woken", "loop"} => printed[w] < LineLen
          /\ pc[w] = "out" => printed[w] \in {0, LineLen}
          /\ console = w /\ printed[w] > 0 =>
                Follows(put.tx, Len(put.tx) + 1, <<w, printed[w]>>)
      BY <1>0 DEF ConsoleInv
    <3>2. Follows(put.tx, Len(put.tx) + 1, <<w, printed[w]>>)
            => Follows(put'.tx, Len(put'.tx) + 1, <<w, printed[w]>>)
      <4> DEFINE c == << w, printed[w] >>
                 s == put.tx
      <4> HIDE DEF c, s
      <4>1. s \in Seq(Byte) /\ put'.tx = Append(s, b)
        BY <1>2, <1>7 DEF s
      <4>2. Follows(s, Len(s) + 1, c) => Follows(Append(s, b), Len(Append(s, b)) + 1, c)
        BY <1>4, <4>1, FollowsAppend
      <4> QED BY <4>1, <4>2 DEF c, s
    <3>3. pc'[w] = pc[w] \/ (pc[w] = "wait" /\ pc'[w] = "woken")
      BY <1>7
    <3> QED BY <1>1, <3>1, <3>2, <3>3
  <2> QED BY <1>0, <1>1, <2>1 DEF ConsoleInv
<1> QED BY <1>8, <1>9, <1>10, <1>11, <1>12 DEF TerminalInv

-------------------------------------------------------------------------------
(* Whatever a thread does. *)
LEMMA ThreadStepKeeps ==
  ASSUME TerminalInv, NEW t \in Thread, ThreadStep(t)
  PROVE  TerminalInv'
<1>0. DataInv /\ SleepInv /\ ConsoleInv
  BY DEF TerminalInv
<1>1. /\ panic \in BOOLEAN
      /\ t \in Writer /\ pc[t] \in {"lock", "woken"} => printed[t] < LineLen
  BY <1>0 DEF DataInv, ConsoleInv
<1>2. CASE LockGranted(t)
  <2>1. LockStep(t)
    BY <1>1, <1>2 DEF LockGranted, LockStep, uart, budget
  <2> QED BY <2>1, LockStepKeeps
<1>3. CASE Woken(t)
  <2>1. LockStep(t)
    BY <1>1, <1>3 DEF Woken, LockStep, uart, budget
  <2> QED BY <2>1, LockStepKeeps
<1>4. CASE t \in Reader /\ InputGetc(t)
  <2>0. pc[t] \in {"out", "loop"}
    BY <1>4 DEF InputGetc
  <2>1. CASE AcquireAndWait(t)
    <3>1. t \notin Writer
      BY <1>0, <1>4, Facts
    <3>2. LockStep(t)
      BY <1>1, <2>0, <2>1, <3>1 DEF AcquireAndWait, LockStep, uart, budget
    <3> QED BY <3>2, LockStepKeeps
  <2>2. CASE TakeKey(t)
    BY <1>4, <2>0, <2>2, TakeKeyKeeps
  <2> QED BY <1>4, <2>1, <2>2 DEF InputGetc
<1>5. CASE t \in Writer /\ SerialPutc(t)
  <2>0. pc[t] \in {"print", "loop"} /\ printed[t] < LineLen
    BY <1>5 DEF SerialPutc
  <2>1. CASE AcquireAndWait(t)
    <3>1. LockStep(t)
      BY <1>1, <2>0, <2>1 DEF AcquireAndWait, LockStep, uart, budget
    <3> QED BY <3>1, LockStepKeeps
  <2>2. CASE QueueChar(t)
    BY <1>5, <2>0, <2>2, QueueCharKeeps
  <2> QED BY <1>5, <2>1, <2>2 DEF SerialPutc
<1>6. CASE t \in Writer /\ (AcquireConsole(t) \/ ReleaseConsole(t))
  BY <1>6, ConsoleStepKeeps
<1> QED BY <1>2, <1>3, <1>4, <1>5, <1>6 DEF ThreadStep

(* The invariant holds at first ... *)
LEMMA TerminalInit ==
  ASSUME Init
  PROVE  TerminalInv
<1> DEFINE k == EmptyQueue
<1>0. /\ BufSize \in Nat /\ BufSize > 1 /\ LineLen \in Nat /\ MaxKeys \in Nat /\ MaxIntr \in Nat
      /\ NULL \notin Thread /\ NULL \notin Reader /\ NULL \notin Writer
  BY TerminalAssumption DEF Thread
<1>1. /\ k \in QueueOver(Byte) /\ k.lock = NULL /\ k.not_full = NULL /\ k.not_empty = NULL
      /\ k.head = 0 /\ k.tail = 0
  <2>1. [i \in 0 .. BufSize - 1 |-> NULL] \in [Pos -> Byte] /\ 0 \in Pos
    BY <1>0 DEF Pos, Byte
  <2> QED BY <2>1 DEF EmptyQueue, QueueOver
<1> HIDE DEF k
<1>2. q = [rx |-> k, tx |-> k] /\ put = [rx |-> << >>, tx |-> << >>] /\ got = put
  BY DEF Init, k
<1>3. DataInv
  <2>1. q \in [Queue -> QueueOver(Byte)] /\ put \in [Queue -> Seq(Byte)]
    <3>1. q \in [Queue -> QueueOver(Byte)]
      BY <1>1, <1>2 DEF Queue
    <3> DEFINE e == << >>
    <3>2. e \in Seq(Byte) /\ put = [rx |-> e, tx |-> e]
      BY <1>2
    <3> HIDE DEF e
    <3>3. put \in [Queue -> Seq(Byte)]
      BY <3>2 DEF Queue
    <3> QED BY <3>1, <3>3
  <2>2. pc \in [Thread -> {"out", "print", "lock", "wait", "woken", "loop"}]
    BY DEF Init
  <2>3. printed \in [Writer -> 0 .. LineLen]
    BY <1>0 DEF Init
  <2>4. rbr \in (1 .. MaxKeys) \cup {NULL} /\ keys \in 0 .. MaxKeys /\ intrs \in 0 .. MaxIntr
        /\ panic \in BOOLEAN
    <3>1. rbr = NULL /\ keys = 0 /\ intrs = 0
      BY DEF Init
    <3>2. panic \in BOOLEAN
      BY DEF Init
    <3> QED BY <1>0, <3>1, <3>2
  <2> QED BY <1>2, <2>1, <2>2, <2>3, <2>4 DEF DataInv
<1>4. Count(k) = 0 /\ IsEmpty(k) /\ ~ IsFull(k)
  <2>1. /\ IsEmpty(k) <=> Count(k) = 0
        /\ IsFull(k) <=> Count(k) = BufSize - 1
    BY <1>1, QueueShape
  <2>2. IsEmpty(k)
    BY <1>1 DEF IsEmpty
  <2> QED BY <1>0, <2>1, <2>2
<1>5. QueueInv
  <2>1. Contents(k) = << >>
    <3>1. Contents(k) \in Seq(Byte) /\ Len(Contents(k)) = 0
      BY <1>1, <1>4, ContentsIsSequence
    <3> QED BY <3>1, EmptySeq
  <2>2. \A n \in Queue : put[n] = got[n] \o Contents(q[n])
    <3>1. << >> \o << >> = << >>
      BY ConcatEmptySeq
    <3>2. /\ put.rx = << >> /\ got.rx = << >> /\ q.rx = k
          /\ put.tx = << >> /\ got.tx = << >> /\ q.tx = k
      BY <1>2
    <3>3. /\ put.rx = got.rx \o Contents(q.rx)
          /\ put.tx = got.tx \o Contents(q.tx)
      BY <2>1, <3>1, <3>2
    <3> QED BY <3>3 DEF Queue
  <2>3. ier = IerFor(q)
    BY <1>2, <1>4 DEF IerFor, Init
  <2> QED BY <2>2, <2>3 DEF QueueInv, QueuesAreFifo, InterruptsMatchQueues, Queue
<1>6. SleepInv
  <2>1. /\ \A r \in Reader : pc[r] = "out" /\ r # NULL
        /\ \A w \in Writer : pc[w] = "out" /\ w # NULL
    BY <1>0 DEF Init, Thread
  <2>2. /\ SleepersAt(Reader, NULL, NULL, IsEmpty(q.rx), pc)
        /\ SleepersAt(Writer, NULL, NULL, IsFull(q.tx), pc)
    BY <2>1 DEF SleepersAt
  <2> QED BY <1>1, <1>2, <2>2 DEF SleepInv
<1>7. ConsoleInv
  BY <1>0 DEF Init, ConsoleInv, Thread
<1>8. LinesWhole
  <2>1. Len(put.tx) = 0
    BY <1>2
  <2> QED BY <2>1 DEF LinesWhole
<1> QED BY <1>3, <1>5, <1>6, <1>7, <1>8 DEF TerminalInv

(* ... and as long as nothing happens. *)
LEMMA TerminalStutter ==
  ASSUME TerminalInv, UNCHANGED vars
  PROVE  TerminalInv'
  BY DEF vars, uart, budget, TerminalInv, DataInv, QueueInv, QueuesAreFifo,
         InterruptsMatchQueues, SleepInv, ConsoleInv, LinesWhole

(* The invariant, for any number of threads, bytes and interrupts. *)
THEOREM TerminalInvariance == Spec => []TerminalInv
<1>1. Init => TerminalInv
  BY TerminalInit
<1>2. TerminalInv /\ [Next]_vars => TerminalInv'
  BY KeyboardKeeps, HandlerKeeps, SerialKeeps, UartKeeps, ThreadStepKeeps, TerminalStutter
     DEF Next
<1> QED BY <1>1, <1>2, PTL DEF Spec

(* Bytes come out of both queues in the order they went in, whatever the   *)
(* interrupts do, and printed lines stay whole (acquire_console).          *)
THEOREM BytesCorrect == Spec => []BytesInOrder
<1>1. TerminalInv => BytesInOrder
  BY DEF TerminalInv, QueueInv, BytesInOrder
<1> QED BY <1>1, TerminalInvariance, PTL

(* A thread sleeps exactly while the queue remembers it with its lock and  *)
(* has nothing for it (intq.c's wait and signal), and the UART's interrupts*)
(* are those the queues call for (serial_notify).                          *)
THEOREM WaitersCorrect == Spec => []WaitersAndInterruptsAgree
<1>1. ASSUME TerminalInv PROVE WaitersAndInterruptsAgree
  <2>0. DataInv /\ QueueInv /\ SleepInv /\ ConsoleInv
    BY <1>1 DEF TerminalInv
  <2>1. /\ q.rx \in QueueOver(Byte) /\ q.tx \in QueueOver(Byte)
        /\ \A t \in Reader : QueueOf(t) = "rx" /\ Waiter(t) = "not_empty"
        /\ \A t \in Writer : QueueOf(t) = "tx" /\ Waiter(t) = "not_full" /\ t \notin Reader
    BY <2>0, Facts
  <2>2. /\ SleepersAt(Reader, q.rx.lock, q.rx.not_empty, IsEmpty(q.rx), pc)
        /\ SleepersAt(Writer, q.tx.lock, q.tx.not_full, IsFull(q.tx), pc)
    BY <2>0 DEF SleepInv
  <2>3. ASSUME NEW t \in Thread
        PROVE  pc[t] = "wait" <=>
                 /\ q[QueueOf(t)][Waiter(t)] = t /\ q[QueueOf(t)].lock = t /\ HasToWait(t)
    <3>1. CASE t \in Reader
      BY <2>1, <2>2, <3>1 DEF SleepersAt, HasToWait
    <3>2. CASE t \in Writer
      BY <2>1, <2>2, <3>2 DEF SleepersAt, HasToWait
    <3> QED BY <3>1, <3>2 DEF Thread
  <2>4. ier = IerFor(q)
    BY <2>0 DEF QueueInv, InterruptsMatchQueues
  <2>5. TypeOK
    <3>1. \A n \in {"rx", "tx"} :
             /\ q[n].head \in 0 .. BufSize - 1 /\ q[n].tail \in 0 .. BufSize - 1
             /\ q[n].lock \in Thread \cup {NULL}
             /\ q[n].not_full \in Writer \cup {NULL} /\ q[n].not_empty \in Reader \cup {NULL}
      BY <2>1 DEF QueueOver, Pos
    <3>2. ier \subseteq {"recv", "xmit"}
      BY <2>4 DEF IerFor
    <3> QED BY <2>0, <3>1, <3>2 DEF TypeOK, DataInv, ConsoleInv
  <2> QED BY <2>3, <2>4, <2>5
          DEF WaitersAndInterruptsAgree, WaiterIsRemembered, InterruptsMatchQueues
<1> QED BY <1>1, TerminalInvariance, PTL
===============================================================================
