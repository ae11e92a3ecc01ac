------------------------------ MODULE DiskProofs ------------------------------
(***************************************************************************)
(* The invariants of module Disk, for any number of threads, sectors and   *)
(* transfers.                                                              *)
(*                                                                         *)
(* DiskInv says, for each step of a transfer, what the controller and the  *)
(* interrupt it owes may be doing by then (Serves): the driver never asks  *)
(* the controller more than that, so this is all that keeps a late         *)
(* interrupt of one transfer from ending the wait of the next.             *)
(***************************************************************************)
EXTENDS Disk, TLAPS

Active(t) == req[t].cmd # NULL
Step(t) == Path(req[t].cmd)[req[t].at]

(* T is past lock_acquire, or identifies a device. *)
Using(t) == Active(t) /\ Step(t) # "acquire"

RequestsAreWhole ==
  \A t \in Thread : req[t] # NoReq =>
    /\ req[t].cmd \in Command
    /\ req[t].at \in 1 .. Len(Path(req[t].cmd))
    /\ req[t].cmd # "identify" => req[t].sec \in Sector
    /\ req[t].cmd = "write" => req[t].buf \in Value

(* Before Booted there is only the boot thread; afterwards the channel's   *)
(* user holds its lock.                                                    *)
LockInv ==
  /\ ~ Booted => /\ channel.holder = NULL
                 /\ \A t \in Thread : Active(t) => t = Boot /\ req[t].cmd = "identify"
  /\ Booted => \A t \in Thread : /\ req[t].cmd # "identify"
                                 /\ Using(t) <=> channel.holder = t

(* Nothing is under way, and no interrupt counts. *)
Quiet == channel.completion = 0 /\ Idle /\ ~ (ctrl.irq /\ channel.expecting)

(* The interrupt of the command: not yet, raised, or handled. *)
NoInterrupt == ~ ctrl.irq /\ channel.completion = 0
Interrupted == ~ ctrl.irq <=> channel.completion = 1

Selected(t) == ctrl.dev = req[t].dev /\ ctrl.sec = req[t].sec
Commanded(t) == Selected(t) /\ channel.expecting /\ ctrl.cmd = req[t].cmd

Agree(t) == req[t].cmd = "read" => ctrl.buf = platter[ctrl.dev][ctrl.sec]
Written(t) == req[t].buf = platter[ctrl.dev][ctrl.sec] \/ ctrl.err

(* What the controller may be doing when t comes to its next step. *)
ReadServes(t) ==
  /\ Step(t) = "down" =>
       \/ ctrl.bsy /\ ~ ctrl.drq /\ NoInterrupt
       \/ ~ ctrl.bsy /\ (ctrl.drq => Agree(t)) /\ Interrupted
  /\ Step(t) = "poll" => ~ ctrl.bsy /\ (ctrl.drq => Agree(t)) /\ NoInterrupt
  /\ Step(t) = "input" => ~ ctrl.bsy /\ ctrl.drq /\ Agree(t) /\ NoInterrupt
  /\ Step(t) = "release" => Idle /\ NoInterrupt /\ req[t].buf = platter[ctrl.dev][ctrl.sec]

WriteServes(t) ==
  /\ Step(t) = "poll" =>
       \/ ctrl.bsy /\ ~ ctrl.drq /\ NoInterrupt /\ ctrl.buf = NULL
       \/ ~ ctrl.bsy /\ ctrl.drq /\ NoInterrupt
       \/ Idle /\ Interrupted
  /\ Step(t) = "output" => ~ ctrl.bsy /\ ctrl.drq /\ NoInterrupt
  /\ Step(t) = "down" =>
       \/ ctrl.bsy /\ ~ ctrl.drq /\ NoInterrupt /\ ctrl.buf = req[t].buf
       \/ Idle /\ Interrupted /\ Written(t)
  /\ Step(t) = "release" => Idle /\ NoInterrupt /\ Written(t)

Serves(t) ==
  \/ Step(t) = "select" /\ Quiet
  \/ Step(t) = "expect" /\ Selected(t) /\ Idle /\ NoInterrupt
  \/ Step(t) = "command" /\ Selected(t) /\ Idle /\ NoInterrupt /\ channel.expecting
  \/ /\ Step(t) \in {"down", "poll", "input", "output", "release"}
     /\ Commanded(t)
     /\ IF req[t].cmd = "write" THEN WriteServes(t) ELSE ReadServes(t)

ChannelInv ==
  /\ boot \in {"reset", "wait"} =>
       /\ \A t \in Thread : ~ Active(t)
       /\ ~ channel.expecting /\ channel.completion = 0 /\ ~ ctrl.drq
       /\ ctrl.bsy => ctrl.cmd = "reset"
  /\ boot \notin {"reset", "wait"} /\ (\A t \in Thread : ~ Using(t)) => Quiet
  /\ \A t \in Thread : Using(t) => Serves(t)

(* A transfer that fails is the end of the kernel, with the lock held. *)
PanicInv == panic => Booted

DiskInv == TypeOK /\ RequestsAreWhole /\ LockInv /\ ChannelInv /\ PanicInv

-------------------------------------------------------------------------------
(* The step that follows each step of a transfer R. *)
Phase(r) == Path(r.cmd)[r.at]

OnItsWay(r) == r.cmd \in Command /\ r.at \in 1 .. Len(Path(r.cmd))

LEMMA NextPhase ==
  ASSUME NEW r \in Request, OnItsWay(r)
  PROVE  /\ Phase(r) = "acquire" => Done(r) # NoReq /\ Phase(Done(r)) = "select"
         /\ Phase(r) = "select" => Done(r) # NoReq /\ Phase(Done(r)) = "expect"
         /\ Phase(r) = "expect" => Done(r) # NoReq /\ Phase(Done(r)) = "command"
         /\ Phase(r) = "command" =>
              Done(r) # NoReq /\ Phase(Done(r)) = IF r.cmd = "write" THEN "poll" ELSE "down"
         /\ Phase(r) = "down" =>
              Done(r) # NoReq /\ Phase(Done(r)) = IF r.cmd = "write" THEN "release" ELSE "poll"
         /\ Phase(r) = "poll" =>
              Done(r) # NoReq /\ Phase(Done(r)) = IF r.cmd = "write" THEN "output" ELSE "input"
         /\ Phase(r) = "output" =>
              r.cmd = "write" /\ Done(r) # NoReq /\ Phase(Done(r)) = "down"
         /\ Phase(r) = "input" =>
              /\ r.cmd # "write"
              /\ IF r.cmd = "identify" THEN Done(r) = NoReq
                                       ELSE Done(r) # NoReq /\ Phase(Done(r)) = "release"
         /\ Phase(r) = "release" => r.cmd # "identify" /\ Done(r) = NoReq
         /\ Phase(r) = "acquire" => r.cmd # "identify"
         /\ Done(r) # NoReq =>
              /\ OnItsWay(Done(r)) /\ Done(r) \in Request
              /\ Done(r).cmd = r.cmd /\ Done(r).dev = r.dev /\ Done(r).sec = r.sec
              /\ Done(r).buf = r.buf
<1> DEFINE n == [r EXCEPT !.at = @ + 1]
           P == Path(r.cmd)
<1>1. Len(P) \in {6, 8} /\ r.at \in Nat
  BY DEF Path, Steps, OnItsWay, Command
<1>2. r.at = Len(P) => Done(r) = NoReq
  BY DEF Done
<1>3. r.at # Len(P) =>
        /\ Done(r) = n /\ n # NoReq /\ n \in Request /\ OnItsWay(n) /\ n.at = r.at + 1
        /\ n.cmd = r.cmd /\ n.dev = r.dev /\ n.sec = r.sec /\ n.buf = r.buf
  <2> SUFFICES ASSUME r.at # Len(P)
               PROVE  /\ Done(r) = n /\ n # NoReq /\ n \in Request /\ OnItsWay(n)
                      /\ n.at = r.at + 1
                      /\ n.cmd = r.cmd /\ n.dev = r.dev /\ n.sec = r.sec /\ n.buf = r.buf
    OBVIOUS
  <2>1. n.at = r.at + 1 /\ n.cmd = r.cmd /\ n.dev = r.dev /\ n.sec = r.sec /\ n.buf = r.buf
    BY DEF Request
  <2>2. r.at + 1 \in 1 .. Len(P) /\ r.at + 1 \in 0 .. 8 /\ r.at + 1 # 0
    <3>1. PICK m : m = Len(P)
      OBVIOUS
    <3>2. m \in {6, 8} /\ r.at \in 1 .. m /\ r.at # m
      BY <3>1, <1>1 DEF OnItsWay
    <3>3. r.at + 1 \in 1 .. m /\ r.at + 1 \in 0 .. 8 /\ r.at + 1 # 0
      BY <3>2
    <3> QED BY <3>1, <3>3
  <2>3. n \in Request
    BY <2>2 DEF Request
  <2>4. Done(r) = n
    BY DEF Done
  <2>5. n # NoReq
    BY <2>1, <2>2 DEF NoReq
  <2>6. OnItsWay(n)
    BY <2>1, <2>2 DEF OnItsWay
  <2> QED BY <2>1, <2>3, <2>4, <2>5, <2>6
<1> HIDE DEF n
<1>4. Phase(r) = P[r.at] /\ (r.at # Len(P) => Phase(Done(r)) = P[r.at + 1])
  BY <1>3 DEF Phase
<1>5. CASE r.cmd = "identify"
  <2>1. P = <<"select", "expect", "command", "down", "poll", "input">>
    BY <1>5 DEF Path, Steps
  <2>2. Len(P) = 6
    BY <2>1
  <2>3. r.at \in {1, 2, 3, 4, 5, 6}
    BY <2>2 DEF OnItsWay
  <2> HIDE DEF P
  <2>5. CASE r.at = 1 BY <2>5, <2>1, <2>2, <1>3, <1>4, <1>5
  <2>6. CASE r.at = 2 BY <2>6, <2>1, <2>2, <1>3, <1>4, <1>5
  <2>7. CASE r.at = 3 BY <2>7, <2>1, <2>2, <1>3, <1>4, <1>5
  <2>8. CASE r.at = 4 BY <2>8, <2>1, <2>2, <1>3, <1>4, <1>5
  <2>9. CASE r.at = 5 BY <2>9, <2>1, <2>2, <1>3, <1>4, <1>5
  <2>10. CASE r.at = 6 BY <2>10, <2>1, <2>2, <1>2, <1>4, <1>5
  <2> QED BY <2>3, <2>5, <2>6, <2>7, <2>8, <2>9, <2>10
<1>6. CASE r.cmd = "read"
  <2>1. P = <<"acquire", "select", "expect", "command", "down", "poll", "input", "release">>
    BY <1>6 DEF Path, Steps
  <2>2. Len(P) = 8
    BY <2>1
  <2>3. r.at \in {1, 2, 3, 4, 5, 6, 7, 8}
    BY <2>2 DEF OnItsWay
  <2> HIDE DEF P
  <2>4. CASE r.at = 1 BY <2>4, <2>1, <2>2, <1>3, <1>4, <1>6
  <2>5. CASE r.at = 2 BY <2>5, <2>1, <2>2, <1>3, <1>4, <1>6
  <2>6. CASE r.at = 3 BY <2>6, <2>1, <2>2, <1>3, <1>4, <1>6
  <2>7. CASE r.at = 4 BY <2>7, <2>1, <2>2, <1>3, <1>4, <1>6
  <2>8. CASE r.at = 5 BY <2>8, <2>1, <2>2, <1>3, <1>4, <1>6
  <2>9. CASE r.at = 6 BY <2>9, <2>1, <2>2, <1>3, <1>4, <1>6
  <2>10. CASE r.at = 7 BY <2>10, <2>1, <2>2, <1>3, <1>4, <1>6
  <2>11. CASE r.at = 8 BY <2>11, <2>1, <2>2, <1>2, <1>4, <1>6
  <2> QED BY <2>3, <2>4, <2>5, <2>6, <2>7, <2>8, <2>9, <2>10, <2>11
<1>7. CASE r.cmd = "write"
  <2>1. P = <<"acquire", "select", "expect", "command", "poll", "output", "down", "release">>
    BY <1>7 DEF Path, Steps
  <2>2. Len(P) = 8
    BY <2>1
  <2>3. r.at \in {1, 2, 3, 4, 5, 6, 7, 8}
    BY <2>2 DEF OnItsWay
  <2> HIDE DEF P
  <2>4. CASE r.at = 1 BY <2>4, <2>1, <2>2, <1>3, <1>4, <1>7
  <2>5. CASE r.at = 2 BY <2>5, <2>1, <2>2, <1>3, <1>4, <1>7
  <2>6. CASE r.at = 3 BY <2>6, <2>1, <2>2, <1>3, <1>4, <1>7
  <2>7. CASE r.at = 4 BY <2>7, <2>1, <2>2, <1>3, <1>4, <1>7
  <2>8. CASE r.at = 5 BY <2>8, <2>1, <2>2, <1>3, <1>4, <1>7
  <2>9. CASE r.at = 6 BY <2>9, <2>1, <2>2, <1>3, <1>4, <1>7
  <2>10. CASE r.at = 7 BY <2>10, <2>1, <2>2, <1>3, <1>4, <1>7
  <2>11. CASE r.at = 8 BY <2>11, <2>1, <2>2, <1>2, <1>4, <1>7
  <2> QED BY <2>3, <2>4, <2>5, <2>6, <2>7, <2>8, <2>9, <2>10, <2>11
<1> QED
  BY <1>5, <1>6, <1>7 DEF OnItsWay, Command

-------------------------------------------------------------------------------
(* Typing, field by field. *)
LEMMA Fields ==
  ASSUME TypeOK
  PROVE  /\ channel.holder \in Thread \cup {NULL} /\ channel.expecting \in BOOLEAN
         /\ channel.completion \in 0 .. 1
         /\ ctrl.bsy \in BOOLEAN /\ ctrl.drq \in BOOLEAN /\ ctrl.err \in BOOLEAN
         /\ ctrl.irq \in BOOLEAN /\ ctrl.cmd \in Command \cup {NULL, "reset"}
         /\ ctrl.dev \in Device /\ ctrl.sec \in Sector \cup {NULL}
         /\ ctrl.buf \in Value \cup {NULL}
         /\ \A t \in Thread : /\ req[t] \in Request
                              /\ req[t].cmd \in Command \cup {NULL} /\ req[t].dev \in Device
                              /\ req[t].sec \in Sector \cup {NULL}
                              /\ req[t].buf \in Value \cup {NULL}
  BY DEF TypeOK, Request

(* The types of the variables that a step leaves alone. *)
LEMMA TypeStep ==
  ASSUME TypeOK,
         channel' \in [holder : Thread \cup {NULL}, expecting : BOOLEAN, completion : 0..1]
           \/ channel' = channel,
         ctrl' = ctrl, is_ata' \in [Device -> BOOLEAN] \/ is_ata' = is_ata, platter' = platter,
         req' \in [Thread -> Request] \/ req' = req,
         boot' = boot, ops' = ops, panic' \in BOOLEAN
  PROVE  TypeOK'
<1>1. channel' \in [holder : Thread \cup {NULL}, expecting : BOOLEAN, completion : 0..1]
  BY DEF TypeOK
<1>2. ctrl' \in [bsy : BOOLEAN, drq : BOOLEAN, err : BOOLEAN, irq : BOOLEAN,
                 cmd : Command \cup {NULL, "reset"}, dev : Device, sec : Sector \cup {NULL},
                 buf : Value \cup {NULL}]
  BY DEF TypeOK
<1>3. is_ata' \in [Device -> BOOLEAN]
  BY DEF TypeOK
<1>4. platter' \in [Device -> [Sector -> Value]]
  BY DEF TypeOK
<1>5. req' \in [Thread -> Request]
  BY DEF TypeOK
<1>6. boot' \in {"reset", "wait", "disk 0", "disk 1", "done"} /\ ops' \in 0 .. MaxOps
  BY DEF TypeOK
<1> QED
  BY <1>1, <1>2, <1>3, <1>4, <1>5, <1>6 DEF TypeOK

(* A thread that has a request is somewhere in it. *)
LEMMA ActiveIsOnItsWay ==
  ASSUME DiskAssumption, DiskInv, NEW t \in Thread
  PROVE  /\ Active(t) => OnItsWay(req[t]) /\ req[t] \in Request
         /\ Active(t) <=> req[t] # NoReq
         /\ Step(t) = Phase(req[t])
<1>1. req[t] # NoReq => req[t].cmd \in Command /\ NULL \notin Command
  BY DEF DiskInv, RequestsAreWhole, DiskAssumption
<1>2. NoReq.cmd = NULL
  BY DEF NoReq
<1> QED
  BY <1>1, <1>2, Fields DEF DiskInv, RequestsAreWhole, Active, OnItsWay, Step, Phase

(* The channel has one user at a time. *)
LEMMA OneUser ==
  ASSUME DiskAssumption, DiskInv, NEW t \in Thread, Using(t)
  PROVE  /\ \A u \in Thread : u # t => ~ Using(u)
         /\ boot \notin {"reset", "wait"}
         /\ Booted => channel.holder = t
         /\ ~ Booted => t = Boot /\ req[t].cmd = "identify"
  BY DEF DiskInv, LockInv, ChannelInv, Using

(***************************************************************************)
(* A step of the channel's user, to its next step or out of the transfer:  *)
(* what is left to show is that the controller serves the one, or is quiet *)
(* after the other.                                                        *)
(***************************************************************************)
LEMMA UserStepKeeps ==
  ASSUME DiskAssumption, DiskInv, TypeOK', NEW t \in Thread, Using(t),
         NEW n \in Request, req' = [req EXCEPT ![t] = n],
         n # NoReq => /\ OnItsWay(n) /\ Phase(n) # "acquire" /\ n.cmd = req[t].cmd
                      /\ n.cmd # "identify" => n.sec \in Sector
                      /\ n.cmd = "write" => n.buf \in Value
                      /\ channel'.holder = channel.holder
                      /\ Serves(t)',
         n = NoReq => channel'.holder = NULL /\ Quiet',
         boot' = boot, panic' => panic \/ Booted'
  PROVE  DiskInv'
<1>1. /\ req \in [Thread -> Request] /\ req'[t] = n
      /\ \A u \in Thread : u # t => req'[u] = req[u]
      /\ NULL \notin Command
  BY DEF DiskInv, TypeOK, DiskAssumption
<1>2. RequestsAreWhole'
  BY <1>1 DEF DiskInv, RequestsAreWhole, OnItsWay
<1>3. /\ \A u \in Thread : u # t => (Active(u)' <=> Active(u)) /\ (Using(u)' <=> Using(u))
      /\ Active(t)' <=> n # NoReq
      /\ Using(t)' <=> n # NoReq
  <2>1. NoReq.cmd = NULL
    BY DEF NoReq
  <2>2. n # NoReq => n.cmd # NULL
    BY <1>1 DEF OnItsWay
  <2> QED BY <1>1, <2>1, <2>2 DEF Active, Using, Step, Phase
<1>4. \A u \in Thread : u # t => ~ Using(u)
  BY OneUser
<1>5. LockInv'
  <2>1. CASE Booted
    <3>1. channel.holder = t /\ req[t].cmd # "identify" /\ boot = "done"
      BY <2>1, OneUser DEF DiskInv, LockInv, Booted
    <3>2. \A u \in Thread : req'[u].cmd # "identify"
      <4>1. n = NoReq => n.cmd # "identify"
        BY <1>1 DEF NoReq, Command
      <4> QED BY <4>1, <3>1, <2>1, <1>1 DEF DiskInv, LockInv
    <3>3. Booted'
      BY <3>1, <3>2 DEF Booted, DiskAssumption
    <3>4. \A u \in Thread : Using(u)' <=> channel'.holder = u
      BY <3>1, <1>3, <1>4 DEF DiskAssumption
    <3> QED BY <3>2, <3>3, <3>4 DEF LockInv
  <2>2. CASE ~ Booted
    <3>1. t = Boot /\ req[t].cmd = "identify" /\ channel.holder = NULL
      BY <2>2, OneUser DEF DiskInv, LockInv
    <3>2. \A u \in Thread : u # t => ~ Active(u) /\ ~ Active(u)'
      BY <3>1, <2>2, <1>3 DEF DiskInv, LockInv
    <3>3. CASE n # NoReq
      <4>1. ~ Booted'
        BY <3>1, <3>3, <2>2, <1>1 DEF Booted
      <4> QED BY <4>1, <3>1, <3>2, <3>3, <1>1 DEF LockInv
    <3>4. CASE n = NoReq
      <4>1. \A u \in Thread : ~ Active(u)'
        BY <3>2, <3>4, <1>3
      <4>2. channel'.holder = NULL
        BY <3>4
      <4>3. \A u \in Thread : ~ Using(u)' /\ req'[u].cmd # "identify"
        BY <4>1, <1>1 DEF Using, Active, Command
      <4>4. \A u \in Thread : u # NULL
        BY DEF DiskAssumption
      <4> QED BY <4>1, <4>2, <4>3, <4>4 DEF LockInv
    <3> QED BY <3>3, <3>4
  <2> QED BY <2>1, <2>2
<1>6. ChannelInv'
  <2>1. boot' \notin {"reset", "wait"}
    BY OneUser
  <2>2. \A u \in Thread : Using(u)' => u = t /\ n # NoReq
    BY <1>3, <1>4
  <2>3. (\A u \in Thread : ~ Using(u)') => n = NoReq
    BY <1>3
  <2> QED BY <2>1, <2>2, <2>3 DEF ChannelInv
<1>7. PanicInv'
  <2>1. Booted => Booted'
    <3>1. n = NoReq => n.cmd # "identify"
      BY <1>1 DEF NoReq, Command
    <3> QED BY <3>1, <1>1 DEF Booted, DiskAssumption
  <2> QED BY <2>1 DEF DiskInv, PanicInv
<1> QED
  BY <1>2, <1>5, <1>6, <1>7 DEF DiskInv

(* What holds of a thread at its next step. *)
LEMMA AtStep ==
  ASSUME DiskAssumption, DiskInv, NEW t \in Thread, NEW ph, At(t, ph)
  PROVE  /\ Active(t) /\ ~ panic /\ Step(t) = ph /\ Phase(req[t]) = ph
         /\ req[t] \in Request /\ OnItsWay(req[t])
         /\ req[t].cmd # "identify" => req[t].sec \in Sector
         /\ req[t].cmd = "write" => req[t].buf \in Value
         /\ ph # "acquire" => Using(t) /\ Serves(t)
<1>1. Active(t) /\ ~ panic /\ Step(t) = ph
  BY DEF At, Active, Step
<1>2. req[t] # NoReq /\ req[t] \in Request /\ OnItsWay(req[t]) /\ Phase(req[t]) = ph
  BY <1>1, ActiveIsOnItsWay
<1>3. ph # "acquire" => Using(t) /\ Serves(t)
  BY <1>1 DEF Using, DiskInv, ChannelInv
<1> QED
  BY <1>1, <1>2, <1>3 DEF DiskInv, RequestsAreWhole

(* A request that advances keeps its type. *)
LEMMA AdvanceKeepsType ==
  ASSUME DiskAssumption, DiskInv, NEW t \in Thread, NEW n \in Request \cup {NoReq},
         req' = [req EXCEPT ![t] = n]
  PROVE  /\ req' \in [Thread -> Request] /\ req'[t] = n /\ n \in Request
         /\ \A u \in Thread : u # t => req'[u] = req[u]
<1>1. NoReq \in Request
  BY DEF NoReq, Request, Device
<1> QED
  BY <1>1 DEF DiskInv, TypeOK

(* lock_acquire: the channel comes to its next user as quiet as it was. *)
LEMMA LockAcquireKeeps ==
  ASSUME DiskAssumption, DiskInv, NEW t \in Thread, LockAcquire(t)
  PROVE  DiskInv'
<1> DEFINE n == Done(req[t])
<1>1. /\ At(t, "acquire") /\ channel.holder = NULL
      /\ channel' = [channel EXCEPT !.holder = t]
      /\ req' = [req EXCEPT ![t] = n]
      /\ UNCHANGED << ctrl, is_ata, platter, boot, ops, panic >>
  BY DEF LockAcquire, Advance
<1>2. /\ Step(t) = "acquire" /\ ~ panic /\ req[t].cmd # "identify" /\ Active(t)
      /\ n # NoReq /\ n \in Request /\ OnItsWay(n) /\ Phase(n) = "select"
      /\ n.cmd = req[t].cmd /\ n.sec = req[t].sec /\ n.buf = req[t].buf
      /\ n.sec \in Sector /\ (n.cmd = "write" => n.buf \in Value)
  BY <1>1, AtStep, NextPhase
<1> HIDE DEF n
<1>3. /\ req' \in [Thread -> Request] /\ req'[t] = n
      /\ \A u \in Thread : u # t => req'[u] = req[u]
  BY <1>1, <1>2, AdvanceKeepsType
<1>4. Booted /\ Booted'
  <2>1. Booted
    BY <1>2 DEF DiskInv, LockInv
  <2> QED BY <2>1, <1>1, <1>2, <1>3 DEF Booted, DiskAssumption
<1>5. /\ channel'.holder = t /\ channel'.expecting = channel.expecting
      /\ channel'.completion = channel.completion
      /\ channel' \in [holder : Thread \cup {NULL}, expecting : BOOLEAN, completion : 0..1]
  BY <1>1 DEF DiskInv, TypeOK
<1>6. TypeOK'
  BY <1>1, <1>3, <1>5 DEF DiskInv, TypeOK
<1>7. \A u \in Thread : ~ Using(u)
  BY <1>1, <1>4 DEF DiskInv, LockInv, DiskAssumption
<1>8. \A u \in Thread : Using(u)' <=> u = t
  <2>1. Using(t)'
    BY <1>2, <1>3 DEF Using, Active, Step, Phase, OnItsWay, DiskAssumption
  <2>2. \A u \in Thread : u # t => (Using(u)' <=> Using(u))
    BY <1>3 DEF Using, Active, Step
  <2> QED BY <2>1, <2>2, <1>7
<1>9. RequestsAreWhole'
  BY <1>2, <1>3 DEF DiskInv, RequestsAreWhole, OnItsWay
<1>10. LockInv'
  <2>1. \A u \in Thread : req'[u].cmd # "identify"
    BY <1>2, <1>3, <1>4 DEF DiskInv, LockInv
  <2> QED BY <2>1, <1>4, <1>5, <1>8 DEF LockInv
<1>11. ChannelInv'
  <2>1. boot = "done" /\ boot' = "done"
    BY <1>4 DEF Booted
  <2>2. Quiet'
    BY <2>1, <1>1, <1>5, <1>7 DEF DiskInv, ChannelInv, Quiet, Idle
  <2>3. Step(t)' = "select"
    BY <1>2, <1>3 DEF Step, Phase
  <2> QED BY <2>1, <2>2, <2>3, <1>8 DEF ChannelInv, Serves
<1> QED
  BY <1>4, <1>6, <1>9, <1>10, <1>11 DEF DiskInv, PanicInv

(* lock_release: what is left of the transfer is nothing. *)
LEMMA LockReleaseKeeps ==
  ASSUME DiskAssumption, DiskInv, NEW t \in Thread, LockRelease(t)
  PROVE  DiskInv'
<1>1. /\ At(t, "release")
      /\ channel' = [channel EXCEPT !.holder = NULL]
      /\ req' = [req EXCEPT ![t] = Done(req[t])]
      /\ UNCHANGED << ctrl, is_ata, platter, boot, ops, panic >>
  BY DEF LockRelease, Advance
<1>2. Using(t) /\ Serves(t) /\ Step(t) = "release" /\ ~ panic /\ Done(req[t]) = NoReq
  BY <1>1, AtStep, NextPhase
<1>3. NoReq \in Request /\ req' \in [Thread -> Request]
  BY <1>1, <1>2, AdvanceKeepsType
<1>4. /\ channel'.holder = NULL /\ channel'.completion = channel.completion
      /\ channel' \in [holder : Thread \cup {NULL}, expecting : BOOLEAN, completion : 0..1]
  BY <1>1 DEF DiskInv, TypeOK
<1>5. TypeOK'
  BY <1>1, <1>3, <1>4 DEF DiskInv, TypeOK
<1>6. Idle /\ NoInterrupt
  BY <1>2 DEF Serves, ReadServes, WriteServes
<1>7. Quiet'
  BY <1>1, <1>4, <1>6 DEF Quiet, Idle, NoInterrupt
<1> QED
  BY <1>1, <1>2, <1>3, <1>4, <1>5, <1>7, UserStepKeeps

(* The steps before the command: the controller is idle. *)
LEMMA SetupKeeps ==
  ASSUME DiskAssumption, DiskInv, NEW t \in Thread,
         SelectSector(t) \/ Expect(t) \/ IssuePioCommand(t)
  PROVE  DiskInv'
<1> DEFINE n == Done(req[t])
<1>1. /\ req' = [req EXCEPT ![t] = n]
      /\ At(t, "select") \/ At(t, "expect") \/ At(t, "command")
      /\ UNCHANGED << is_ata, platter, boot, ops, panic >>
  BY DEF SelectSector, Expect, IssuePioCommand, Advance
<1>2. /\ Using(t) /\ Serves(t) /\ ~ panic
      /\ n # NoReq /\ n \in Request /\ OnItsWay(n)
      /\ n.cmd = req[t].cmd /\ n.dev = req[t].dev /\ n.sec = req[t].sec /\ n.buf = req[t].buf
      /\ n.cmd # "identify" => n.sec \in Sector
      /\ n.cmd = "write" => n.buf \in Value
      /\ At(t, "select") => Phase(n) = "expect" /\ Step(t) = "select"
      /\ At(t, "expect") => Phase(n) = "command" /\ Step(t) = "expect"
      /\ At(t, "command") =>
           Phase(n) = (IF n.cmd = "write" THEN "poll" ELSE "down") /\ Step(t) = "command"
      /\ req[t].dev \in Device /\ req[t].sec \in Sector \cup {NULL} /\ req[t].cmd \in Command
  <2>1. req[t] \in Request /\ OnItsWay(req[t])
    BY <1>1, AtStep
  <2>2. req[t].dev \in Device /\ req[t].sec \in Sector \cup {NULL} /\ req[t].cmd \in Command
    BY <2>1 DEF Request, OnItsWay
  <2> QED BY <2>1, <2>2, <1>1, AtStep, NextPhase
<1> HIDE DEF n
<1>3. req' \in [Thread -> Request] /\ req'[t] = n /\ Step(t)' = Phase(n)
  BY <1>1, <1>2, AdvanceKeepsType DEF Step, Phase
<1>4. CASE SelectSector(t)
  <2>1. /\ channel' = channel
        /\ ctrl' = [ctrl EXCEPT !.irq = FALSE, !.dev = req[t].dev, !.sec = req[t].sec]
        /\ Phase(n) = "expect" /\ Step(t) = "select"
    BY <1>2, <1>4 DEF SelectSector
  <2>2. /\ ctrl'.bsy = ctrl.bsy /\ ctrl'.drq = ctrl.drq /\ ~ ctrl'.irq
        /\ ctrl'.dev = req[t].dev /\ ctrl'.sec = req[t].sec
        /\ ctrl' \in [bsy : BOOLEAN, drq : BOOLEAN, err : BOOLEAN, irq : BOOLEAN,
                      cmd : Command \cup {NULL, "reset"}, dev : Device,
                      sec : Sector \cup {NULL}, buf : Value \cup {NULL}]
    BY <2>1, <1>2 DEF DiskInv, TypeOK
  <2>3. TypeOK'
    BY <1>1, <1>3, <2>1, <2>2 DEF DiskInv, TypeOK
  <2>4. Quiet
    BY <2>1, <1>2 DEF Serves
  <2>5. Serves(t)'
    BY <1>2, <1>3, <2>1, <2>2, <2>4 DEF Serves, Selected, Idle, NoInterrupt, Quiet
  <2> QED BY <1>1, <1>2, <2>1, <2>3, <2>5, UserStepKeeps
<1>5. CASE Expect(t)
  <2>1. /\ channel' = [channel EXCEPT !.expecting = TRUE] /\ ctrl' = ctrl
        /\ Phase(n) = "command" /\ Step(t) = "expect"
    BY <1>2, <1>5 DEF Expect
  <2>2. /\ channel'.expecting /\ channel'.holder = channel.holder
        /\ channel'.completion = channel.completion
        /\ channel' \in [holder : Thread \cup {NULL}, expecting : BOOLEAN, completion : 0..1]
    BY <2>1 DEF DiskInv, TypeOK
  <2>3. TypeOK'
    BY <1>1, <1>3, <2>1, <2>2 DEF DiskInv, TypeOK
  <2>4. Selected(t) /\ Idle /\ NoInterrupt
    BY <2>1, <1>2 DEF Serves
  <2>5. Serves(t)'
    BY <1>2, <1>3, <2>1, <2>2, <2>4 DEF Serves, Selected, Idle, NoInterrupt
  <2> QED BY <1>1, <1>2, <2>1, <2>2, <2>3, <2>5, UserStepKeeps
<1>6. CASE IssuePioCommand(t)
  <2>1. At(t, "command") /\ channel' = channel
    BY <1>6 DEF IssuePioCommand
  <2>2. Selected(t) /\ Idle /\ NoInterrupt /\ channel.expecting
    BY <2>1, <1>2 DEF Serves
  <2>3. ctrl' = [ctrl EXCEPT !.bsy = TRUE, !.err = FALSE, !.irq = FALSE, !.cmd = req[t].cmd,
                             !.buf = NULL]
    BY <1>6, <2>2 DEF IssuePioCommand
  <2>4. /\ ctrl'.bsy /\ ~ ctrl'.drq /\ ~ ctrl'.irq /\ ctrl'.cmd = req[t].cmd
        /\ ctrl'.dev = ctrl.dev /\ ctrl'.sec = ctrl.sec /\ ctrl'.buf = NULL
        /\ ctrl' \in [bsy : BOOLEAN, drq : BOOLEAN, err : BOOLEAN, irq : BOOLEAN,
                      cmd : Command \cup {NULL, "reset"}, dev : Device,
                      sec : Sector \cup {NULL}, buf : Value \cup {NULL}]
    BY <2>2, <2>3, <1>2 DEF DiskInv, TypeOK, Idle
  <2>5. TypeOK'
    BY <1>1, <1>3, <2>1, <2>4 DEF DiskInv, TypeOK
  <2>6. Commanded(t)' /\ NoInterrupt'
    BY <1>2, <1>3, <2>1, <2>2, <2>4 DEF Commanded, Selected, NoInterrupt
  <2>7. Serves(t)'
    BY <1>2, <1>3, <2>1, <2>4, <2>6 DEF Serves, ReadServes, WriteServes
  <2> QED BY <1>1, <1>2, <2>1, <2>5, <2>7, UserStepKeeps
<1> QED
  BY <1>4, <1>5, <1>6

(* sema_down of completion_wait takes the interrupt of this very command. *)
LEMMA SemaDownKeeps ==
  ASSUME DiskAssumption, DiskInv, NEW t \in Thread, SemaDown(t)
  PROVE  DiskInv'
<1> DEFINE n == Done(req[t])
<1>1. /\ At(t, "down") /\ channel.completion > 0
      /\ channel' = [channel EXCEPT !.completion = @ - 1]
      /\ req' = [req EXCEPT ![t] = n]
      /\ UNCHANGED << ctrl, is_ata, platter, boot, ops, panic >>
  BY DEF SemaDown, Advance
<1>2. /\ Using(t) /\ Serves(t) /\ ~ panic /\ Step(t) = "down"
      /\ n # NoReq /\ n \in Request /\ OnItsWay(n)
      /\ n.cmd = req[t].cmd /\ n.dev = req[t].dev /\ n.sec = req[t].sec /\ n.buf = req[t].buf
      /\ n.cmd # "identify" => n.sec \in Sector
      /\ n.cmd = "write" => n.buf \in Value
      /\ Phase(n) = IF n.cmd = "write" THEN "release" ELSE "poll"
  BY <1>1, AtStep, NextPhase
<1> HIDE DEF n
<1>3. req' \in [Thread -> Request] /\ req'[t] = n /\ Step(t)' = Phase(n)
  BY <1>1, <1>2, AdvanceKeepsType DEF Step, Phase
<1>4. /\ channel'.expecting = channel.expecting /\ channel'.holder = channel.holder
      /\ channel.completion = 1 /\ channel'.completion = 0
      /\ channel' \in [holder : Thread \cup {NULL}, expecting : BOOLEAN, completion : 0..1]
  <2>1. channel \in [holder : Thread \cup {NULL}, expecting : BOOLEAN, completion : 0..1]
    BY DEF DiskInv, TypeOK
  <2>2. channel.completion \in 0 .. 1
    BY <2>1
  <2>3. channel.completion = 1
    BY <2>2, <1>1
  <2> QED BY <2>1, <2>3, <1>1
<1>5. TypeOK'
  BY <1>1, <1>3, <1>4 DEF DiskInv, TypeOK
<1>6. Commanded(t) /\ Commanded(t)'
  BY <1>1, <1>2, <1>3, <1>4 DEF Serves, Commanded, Selected
<1>7. Serves(t)'
  <2>1. CASE n.cmd = "write"
    <3>1. Idle /\ ~ ctrl.irq /\ Written(t)
      BY <2>1, <1>2, <1>4 DEF Serves, WriteServes, NoInterrupt, Interrupted
    <3> QED BY <3>1, <2>1, <1>1, <1>2, <1>3, <1>4, <1>6
            DEF Serves, WriteServes, NoInterrupt, Idle, Written
  <2>2. CASE n.cmd # "write"
    <3>1. ~ ctrl.bsy /\ (ctrl.drq => Agree(t)) /\ ~ ctrl.irq
      BY <2>2, <1>2, <1>4 DEF Serves, ReadServes, NoInterrupt, Interrupted
    <3> QED BY <3>1, <2>2, <1>1, <1>2, <1>3, <1>4, <1>6
            DEF Serves, ReadServes, NoInterrupt, Agree
  <2> QED BY <2>1, <2>2
<1> QED
  BY <1>1, <1>2, <1>4, <1>5, <1>7, UserStepKeeps

(* wait_while_busy: data are there, or the device is no disk, or panic. *)
LEMMA WaitWhileBusyKeeps ==
  ASSUME DiskAssumption, DiskInv, NEW t \in Thread, WaitWhileBusy(t)
  PROVE  DiskInv'
<1> DEFINE n == Done(req[t])
<1>1. At(t, "poll") /\ UNCHANGED << channel, ctrl, platter, boot, ops >>
  BY DEF WaitWhileBusy
<1>2. /\ Using(t) /\ Serves(t) /\ ~ panic /\ Step(t) = "poll"
      /\ n # NoReq /\ n \in Request /\ OnItsWay(n)
      /\ n.cmd = req[t].cmd /\ n.dev = req[t].dev /\ n.sec = req[t].sec /\ n.buf = req[t].buf
      /\ n.cmd # "identify" => n.sec \in Sector
      /\ n.cmd = "write" => n.buf \in Value
      /\ Phase(n) = IF n.cmd = "write" THEN "output" ELSE "input"
  BY <1>1, AtStep, NextPhase
<1> HIDE DEF n
<1>3. CASE ~ ctrl.bsy /\ ctrl.drq
  <2>1. req' = [req EXCEPT ![t] = n] /\ UNCHANGED << is_ata, panic >>
    BY <1>3 DEF WaitWhileBusy, Advance, n
  <2>2. req' \in [Thread -> Request] /\ req'[t] = n /\ Step(t)' = Phase(n)
    BY <2>1, <1>2, AdvanceKeepsType DEF Step, Phase
  <2>3. TypeOK'
    <3>1. TypeOK
      BY DEF DiskInv
    <3>2. /\ channel' = channel /\ ctrl' = ctrl /\ platter' = platter /\ boot' = boot
          /\ ops' = ops /\ is_ata' = is_ata /\ panic' = panic
      BY <1>1, <2>1
    <3>3. panic \in BOOLEAN
      BY <3>1 DEF TypeOK
    <3> QED BY <3>1, <3>2, <3>3, <2>2, TypeStep
  <2>4. Commanded(t)'
    BY <1>1, <1>2, <2>2 DEF Serves, Commanded, Selected
  <2>5. Serves(t)'
    <3>1. CASE n.cmd = "write"
      <4>1. NoInterrupt
        BY <3>1, <1>2, <1>3 DEF Serves, WriteServes, Idle
      <4> QED BY <4>1, <3>1, <2>2, <2>4, <1>1, <1>2, <1>3 DEF Serves, WriteServes, NoInterrupt
    <3>2. CASE n.cmd # "write"
      <4>1. NoInterrupt /\ Agree(t)
        BY <3>2, <1>2, <1>3 DEF Serves, ReadServes
      <4> QED BY <4>1, <3>2, <2>2, <2>4, <1>1, <1>2, <1>3
              DEF Serves, ReadServes, NoInterrupt, Agree
    <3> QED BY <3>1, <3>2
  <2> QED BY <1>1, <1>2, <2>1, <2>3, <2>5, UserStepKeeps
<1>4. CASE ~ (~ ctrl.bsy /\ ctrl.drq) /\ req[t].cmd = "identify"
  <2>1. /\ is_ata' = [is_ata EXCEPT ![req[t].dev] = FALSE] /\ panic' = panic
        /\ req' = [req EXCEPT ![t] = NoReq]
    BY <1>4 DEF WaitWhileBusy
  <2>2. req' \in [Thread -> Request] /\ NoReq \in Request
    BY <2>1, AdvanceKeepsType
  <2>3. TypeOK'
    <3>1. TypeOK
      BY DEF DiskInv
    <3>2. is_ata' \in [Device -> BOOLEAN]
      BY <3>1, <2>1 DEF TypeOK
    <3>3. /\ channel' = channel /\ ctrl' = ctrl /\ platter' = platter /\ boot' = boot
          /\ ops' = ops /\ panic' = panic
      BY <1>1, <2>1
    <3>4. panic \in BOOLEAN
      BY <3>1 DEF TypeOK
    <3> QED BY <3>1, <3>2, <3>3, <3>4, <2>2, TypeStep
  <2>4. ~ ctrl.bsy /\ ~ ctrl.drq /\ NoInterrupt
    BY <1>2, <1>4 DEF Serves, ReadServes
  <2>5. Quiet'
    BY <2>4, <1>1 DEF Quiet, Idle, NoInterrupt
  <2>6. channel.holder = NULL
    BY <1>2, <1>4 DEF DiskInv, LockInv
  <2> QED BY <1>1, <1>2, <2>1, <2>2, <2>3, <2>5, <2>6, UserStepKeeps
<1>5. CASE ~ (~ ctrl.bsy /\ ctrl.drq) /\ req[t].cmd # "identify"
  <2>1. panic' = TRUE /\ UNCHANGED << req, is_ata >>
    BY <1>5 DEF WaitWhileBusy
  <2>2. TypeOK'
    BY <1>1, <2>1 DEF DiskInv, TypeOK
  <2>3. Booted
    BY <1>2, <1>5, OneUser
  <2>4. RequestsAreWhole' /\ LockInv' /\ PanicInv'
    BY <2>1, <2>3, <1>1
    DEF DiskInv, RequestsAreWhole, LockInv, PanicInv, Booted, Using, Active, Step
  <2>5. \A u \in Thread : (Using(u)' <=> Using(u)) /\ (Active(u)' <=> Active(u))
                          /\ (Serves(u)' <=> Serves(u))
    BY <2>1, <1>1 DEF Using, Active, Step, Serves, Selected, Commanded, Quiet, Idle, NoInterrupt,
                      Interrupted, ReadServes, WriteServes, Agree, Written
  <2>6. ChannelInv'
    BY <2>1, <2>5, <1>1 DEF DiskInv, ChannelInv, Quiet, Idle
  <2> QED BY <2>2, <2>4, <2>6 DEF DiskInv
<1> QED
  BY <1>3, <1>4, <1>5

(* input_sector, after which an identification is over, and output_sector. *)
LEMMA InputSectorKeeps ==
  ASSUME DiskAssumption, DiskInv, NEW t \in Thread, InputSector(t)
  PROVE  DiskInv'
<1> DEFINE r == [req[t] EXCEPT !.buf = ctrl.buf]
           n == Done(r)
<1>1. /\ At(t, "input")
      /\ req' = [req EXCEPT ![t] = n]
      /\ ctrl' = [ctrl EXCEPT !.drq = FALSE]
      /\ UNCHANGED << channel, is_ata, platter, boot, ops, panic >>
  BY DEF InputSector, DiskInv, TypeOK
<1>2. /\ Using(t) /\ Serves(t) /\ ~ panic /\ Step(t) = "input"
      /\ req[t] \in Request /\ OnItsWay(req[t]) /\ Phase(req[t]) = "input"
      /\ req[t].cmd # "identify" => req[t].sec \in Sector
  BY <1>1, AtStep
<1>3. /\ r \in Request /\ r.cmd = req[t].cmd /\ r.at = req[t].at /\ r.sec = req[t].sec
      /\ r.dev = req[t].dev /\ r.buf = ctrl.buf
  BY <1>2, Fields DEF DiskInv, Request
<1>4. OnItsWay(r) /\ Phase(r) = "input"
  BY <1>2, <1>3 DEF OnItsWay, Phase
<1> HIDE DEF r
<1>5. /\ r.cmd # "write"
      /\ r.cmd = "identify" => n = NoReq
      /\ r.cmd # "identify" => n # NoReq /\ Phase(n) = "release"
      /\ n # NoReq => /\ OnItsWay(n) /\ n \in Request /\ n.cmd = r.cmd /\ n.dev = r.dev
                      /\ n.sec = r.sec /\ n.buf = r.buf
  BY <1>3, <1>4, NextPhase
<1> HIDE DEF n
<1>6. /\ req' \in [Thread -> Request] /\ req'[t] = n /\ n \in Request /\ Step(t)' = Phase(n)
  BY <1>1, <1>5, AdvanceKeepsType DEF Step, Phase
<1>7. /\ ctrl'.bsy = ctrl.bsy /\ ~ ctrl'.drq /\ ctrl'.irq = ctrl.irq /\ ctrl'.cmd = ctrl.cmd
      /\ ctrl'.dev = ctrl.dev /\ ctrl'.sec = ctrl.sec
      /\ ctrl' \in [bsy : BOOLEAN, drq : BOOLEAN, err : BOOLEAN, irq : BOOLEAN,
                      cmd : Command \cup {NULL, "reset"}, dev : Device,
                      sec : Sector \cup {NULL}, buf : Value \cup {NULL}]
  BY <1>1 DEF DiskInv, TypeOK
<1>8. TypeOK'
  BY <1>1, <1>6, <1>7 DEF DiskInv, TypeOK
<1>9. Commanded(t) /\ ~ ctrl.bsy /\ Agree(t) /\ NoInterrupt
  BY <1>2, <1>3, <1>5 DEF Serves, ReadServes
<1>10. CASE n = NoReq
  <2>1. Quiet'
    BY <1>1, <1>7, <1>9 DEF Quiet, Idle, NoInterrupt
  <2>2. channel.holder = NULL
    BY <1>2, <1>3, <1>5, <1>10 DEF DiskInv, LockInv
  <2> QED BY <1>1, <1>2, <1>6, <1>8, <1>10, <2>1, <2>2, UserStepKeeps
<1>11. CASE n # NoReq
  <2>1. req[t].cmd = "read" /\ n.cmd = "read" /\ Phase(n) = "release"
    BY <1>2, <1>3, <1>5, <1>11 DEF OnItsWay, Command
  <2>2. n.buf = platter[ctrl.dev][ctrl.sec]
    BY <1>3, <1>5, <1>9, <1>11, <2>1 DEF Agree
  <2>3. Serves(t)'
    BY <1>1, <1>3, <1>5, <1>6, <1>7, <1>9, <1>11, <2>1, <2>2
    DEF Serves, ReadServes, Commanded, Selected, Idle, NoInterrupt
  <2> QED BY <1>1, <1>2, <1>3, <1>5, <1>6, <1>8, <1>11, <2>1, <2>3, UserStepKeeps
<1> QED
  BY <1>10, <1>11

LEMMA OutputSectorKeeps ==
  ASSUME DiskAssumption, DiskInv, NEW t \in Thread, OutputSector(t)
  PROVE  DiskInv'
<1> DEFINE n == Done(req[t])
<1>1. /\ At(t, "output")
      /\ req' = [req EXCEPT ![t] = n]
      /\ UNCHANGED << channel, is_ata, platter, boot, ops, panic >>
  BY DEF OutputSector, Advance
<1>2. /\ Using(t) /\ Serves(t) /\ ~ panic /\ Step(t) = "output"
      /\ n # NoReq /\ n \in Request /\ OnItsWay(n) /\ n.cmd = "write"
      /\ n.cmd = req[t].cmd /\ n.dev = req[t].dev /\ n.sec = req[t].sec /\ n.buf = req[t].buf
      /\ n.sec \in Sector /\ n.buf \in Value /\ Phase(n) = "down"
  BY <1>1, AtStep, NextPhase
<1> HIDE DEF n
<1>3. req' \in [Thread -> Request] /\ req'[t] = n /\ Step(t)' = Phase(n)
  BY <1>1, <1>2, AdvanceKeepsType DEF Step, Phase
<1>4. Commanded(t) /\ ~ ctrl.bsy /\ ctrl.drq /\ NoInterrupt
  BY <1>2 DEF Serves, WriteServes
<1>5. ctrl' = [ctrl EXCEPT !.drq = FALSE, !.bsy = TRUE, !.buf = req[t].buf]
  BY <1>4 DEF OutputSector
<1>6. /\ ctrl'.bsy /\ ~ ctrl'.drq /\ ctrl'.irq = ctrl.irq /\ ctrl'.cmd = ctrl.cmd
      /\ ctrl'.dev = ctrl.dev /\ ctrl'.sec = ctrl.sec /\ ctrl'.buf = n.buf
      /\ ctrl' \in [bsy : BOOLEAN, drq : BOOLEAN, err : BOOLEAN, irq : BOOLEAN,
                      cmd : Command \cup {NULL, "reset"}, dev : Device,
                      sec : Sector \cup {NULL}, buf : Value \cup {NULL}]
  BY <1>2, <1>5 DEF DiskInv, TypeOK
<1>7. TypeOK'
  BY <1>1, <1>3, <1>6 DEF DiskInv, TypeOK
<1>8. Serves(t)'
  BY <1>1, <1>2, <1>3, <1>4, <1>6 DEF Serves, WriteServes, Commanded, Selected, NoInterrupt
<1> QED
  BY <1>1, <1>2, <1>7, <1>8, UserStepKeeps

(* disk_read and disk_write begin outside of the lock. *)
LEMMA CallKeeps ==
  ASSUME DiskAssumption, DiskInv, NEW t \in Thread, Call(t)
  PROVE  DiskInv'
<1>1. /\ NoReq \in Request /\ NoReq.at = 0 /\ 1 \in 0 .. 8
      /\ {"read", "write"} \subseteq Command
  BY DEF NoReq, Request, Device, Command
<1>2. /\ Booted /\ req[t] = NoReq /\ ~ panic /\ ops < MaxOps /\ ops' = ops + 1
      /\ UNCHANGED << channel, ctrl, is_ata, platter, boot, panic >>
  BY DEF Call
<1>3. PICK n \in Request :
        /\ req' = [req EXCEPT ![t] = n]
        /\ n.cmd \in {"read", "write"} /\ n.sec \in Sector /\ n.at = 1 /\ n # NoReq
        /\ n.cmd = "write" => n.buf \in Value
  <2>1. PICK d \in Device, s \in Sector :
          \/ req' = [req EXCEPT ![t] = [NoReq EXCEPT
                       !.cmd = "read", !.dev = d, !.sec = s, !.at = 1]]
          \/ \E v \in Value : req' = [req EXCEPT ![t] = [NoReq EXCEPT
                       !.cmd = "write", !.dev = d, !.sec = s, !.buf = v, !.at = 1]]
    BY DEF Call
  <2>2. CASE req' = [req EXCEPT ![t] = [NoReq EXCEPT
                       !.cmd = "read", !.dev = d, !.sec = s, !.at = 1]]
    <3> DEFINE m == [NoReq EXCEPT !.cmd = "read", !.dev = d, !.sec = s, !.at = 1]
    <3>1. m \in Request
      BY <1>1 DEF Request
    <3>2. m.cmd = "read" /\ m.sec = s /\ m.at = 1
      BY DEF NoReq
    <3> HIDE DEF m
    <3>3. m # NoReq
      BY <3>2, <1>1
    <3> QED BY <2>2, <3>1, <3>2, <3>3 DEF m
  <2>3. CASE \E v \in Value : req' = [req EXCEPT ![t] = [NoReq EXCEPT
                       !.cmd = "write", !.dev = d, !.sec = s, !.buf = v, !.at = 1]]
    <3>0. PICK v \in Value : req' = [req EXCEPT ![t] = [NoReq EXCEPT
                       !.cmd = "write", !.dev = d, !.sec = s, !.buf = v, !.at = 1]]
      BY <2>3
    <3> DEFINE m == [NoReq EXCEPT !.cmd = "write", !.dev = d, !.sec = s, !.buf = v, !.at = 1]
    <3>1. m \in Request
      BY <1>1 DEF Request
    <3>2. m.cmd = "write" /\ m.sec = s /\ m.at = 1 /\ m.buf = v
      BY DEF NoReq
    <3> HIDE DEF m
    <3>3. m # NoReq
      BY <3>2, <1>1
    <3> QED BY <3>0, <3>1, <3>2, <3>3 DEF m
  <2> QED BY <2>1, <2>2, <2>3
<1>4. Phase(n) = "acquire" /\ OnItsWay(n)
  <2>1. CASE n.cmd = "read"
    BY <2>1, <1>3 DEF Phase, OnItsWay, Path, Steps, Command
  <2>2. CASE n.cmd = "write"
    BY <2>2, <1>3 DEF Phase, OnItsWay, Path, Steps, Command
  <2> QED BY <2>1, <2>2, <1>3
<1>5. /\ req' \in [Thread -> Request] /\ req'[t] = n
      /\ \A u \in Thread : u # t => req'[u] = req[u]
  BY <1>3, AdvanceKeepsType
<1>6. TypeOK'
  <2>1. TypeOK
    BY DEF DiskInv
  <2>2. ops' \in 0 .. MaxOps
    <3>1. MaxOps \in Nat
      BY DEF DiskAssumption
    <3>2. ops \in 0 .. MaxOps
      BY <2>1 DEF TypeOK
    <3> QED BY <3>1, <3>2, <1>2
  <2> QED BY <2>1, <2>2, <1>2, <1>5 DEF TypeOK
<1>7. RequestsAreWhole'
  BY <1>1, <1>3, <1>4, <1>5 DEF DiskInv, RequestsAreWhole, OnItsWay
<1>8. \A u \in Thread : Using(u)' <=> Using(u)
  <2>1. ~ Using(t)
    BY <1>2 DEF Using, Active, NoReq
  <2>2. ~ Using(t)'
    BY <1>4, <1>5 DEF Using, Step, Phase
  <2>3. \A u \in Thread : u # t => (Using(u)' <=> Using(u))
    BY <1>5 DEF Using, Active, Step
  <2> QED BY <2>1, <2>2, <2>3
<1>9. Booted' /\ boot' = "done"
  BY <1>1, <1>2, <1>3, <1>5 DEF Booted, DiskAssumption
<1>10. LockInv'
  <2>1. \A u \in Thread : req'[u].cmd # "identify"
    BY <1>1, <1>2, <1>3, <1>5 DEF DiskInv, LockInv
  <2> QED BY <2>1, <1>2, <1>8, <1>9 DEF DiskInv, LockInv
<1>11. ChannelInv'
  <2>1. boot = "done"
    BY <1>2 DEF Booted
  <2>2. (\A u \in Thread : ~ Using(u)) => Quiet'
    BY <2>1, <1>2 DEF DiskInv, ChannelInv, Quiet, Idle
  <2>3. \A u \in Thread : Using(u) => Serves(u)'
    <3> SUFFICES ASSUME NEW u \in Thread, Using(u) PROVE Serves(u)'
      OBVIOUS
    <3>1. u # t /\ Serves(u)
      BY <1>2 DEF Using, Active, NoReq, DiskInv, ChannelInv
    <3>2. req'[u] = req[u] /\ Step(u)' = Step(u)
      BY <3>1, <1>5 DEF Step
    <3> QED BY <3>1, <3>2, <1>2
            DEF Serves, Selected, Commanded, Quiet, Idle, NoInterrupt, Interrupted, ReadServes,
                WriteServes, Agree, Written
  <2> QED BY <2>2, <2>3, <1>8, <1>9 DEF ChannelInv
<1> QED
  BY <1>2, <1>6, <1>7, <1>9, <1>10, <1>11 DEF DiskInv, PanicInv

(***************************************************************************)
(* disk_init: the reset is over before the first device is looked at.      *)
(***************************************************************************)
LEMMA DiskInitKeeps ==
  ASSUME DiskAssumption, DiskInv, DiskInit
  PROVE  DiskInv'
<1>1. CASE ResetChannel
  <2>1. /\ boot = "reset" /\ boot' = "wait"
        /\ ctrl' = [ctrl EXCEPT !.bsy = TRUE, !.cmd = "reset"]
        /\ UNCHANGED << channel, is_ata, platter, req, ops, panic >>
    BY <1>1 DEF ResetChannel
  <2>2. /\ ctrl'.drq = ctrl.drq /\ ctrl'.cmd = "reset" /\ ctrl' \in [bsy : BOOLEAN, drq : BOOLEAN, err : BOOLEAN, irq : BOOLEAN,
                      cmd : Command \cup {NULL, "reset"}, dev : Device,
                      sec : Sector \cup {NULL}, buf : Value \cup {NULL}]
    BY <2>1 DEF DiskInv, TypeOK
  <2>3. TypeOK'
    BY <2>1, <2>2 DEF DiskInv, TypeOK
  <2>4. \A t \in Thread : ~ Active(t) /\ ~ Active(t)' /\ ~ Using(t)'
    BY <2>1 DEF DiskInv, ChannelInv, Active, Using
  <2>5. ChannelInv'
    BY <2>1, <2>2, <2>4 DEF DiskInv, ChannelInv
  <2>6. ~ Booted /\ ~ Booted'
    BY <2>1 DEF Booted
  <2> QED BY <2>1, <2>3, <2>4, <2>5, <2>6
          DEF DiskInv, RequestsAreWhole, LockInv, PanicInv
<1>2. CASE CheckDeviceType
  <2>1. /\ boot = "wait" /\ ~ ctrl.bsy /\ is_ata' \in [Device -> BOOLEAN] /\ boot' = "disk 0"
        /\ UNCHANGED << channel, ctrl, platter, req, ops, panic >>
    BY <1>2 DEF CheckDeviceType
  <2>2. TypeOK'
    BY <2>1 DEF DiskInv, TypeOK
  <2>3. \A t \in Thread : ~ Active(t) /\ ~ Active(t)' /\ ~ Using(t)'
    BY <2>1 DEF DiskInv, ChannelInv, Active, Using
  <2>4. Quiet'
    BY <2>1 DEF DiskInv, ChannelInv, Quiet, Idle
  <2>5. ChannelInv'
    BY <2>1, <2>3, <2>4 DEF ChannelInv
  <2>6. ~ Booted /\ ~ Booted'
    BY <2>1 DEF Booted
  <2> QED BY <2>1, <2>2, <2>3, <2>5, <2>6
          DEF DiskInv, RequestsAreWhole, LockInv, PanicInv
<1>3. CASE IdentifyNext
  <2>1. PICK d \in Device :
          /\ boot = <<"disk 0", "disk 1">>[d + 1]
          /\ boot' = <<"disk 1", "done">>[d + 1]
          /\ req' = [req EXCEPT ![Boot] =
               IF is_ata[d] THEN [NoReq EXCEPT !.cmd = "identify", !.dev = d, !.at = 1] ELSE @]
    BY <1>3 DEF IdentifyNext
  <2>2. req[Boot] = NoReq /\ UNCHANGED << channel, ctrl, is_ata, platter, ops, panic >>
    BY <1>3 DEF IdentifyNext
  <2> DEFINE n == IF is_ata[d] THEN [NoReq EXCEPT !.cmd = "identify", !.dev = d, !.at = 1]
                               ELSE NoReq
  <2>3. boot \in {"disk 0", "disk 1"} /\ boot' \in {"disk 1", "done"}
    <3>0. /\ <<"disk 0", "disk 1">>[1] = "disk 0" /\ <<"disk 0", "disk 1">>[2] = "disk 1"
          /\ <<"disk 1", "done">>[1] = "disk 1" /\ <<"disk 1", "done">>[2] = "done"
      OBVIOUS
    <3>1. CASE d = 0
      <4>1. d + 1 = 1
        BY <3>1
      <4> QED BY <2>1, <3>0, <4>1
    <3>2. CASE d = 1
      <4>1. d + 1 = 2
        BY <3>2
      <4> QED BY <2>1, <3>0, <4>1
    <3> QED BY <3>1, <3>2 DEF Device
  <2>4. /\ n \in Request
        /\ n # NoReq => n.cmd = "identify" /\ n.at = 1
        /\ n = NoReq => n.cmd = NULL
    <3> DEFINE m == [NoReq EXCEPT !.cmd = "identify", !.dev = d, !.at = 1]
    <3>1. NoReq \in Request /\ NoReq.cmd = NULL /\ 1 \in 0 .. 8 /\ "identify" \in Command
      BY DEF NoReq, Request, Device, Command
    <3>2. m \in Request
      BY <3>1 DEF Request
    <3>3. m.cmd = "identify" /\ m.at = 1
      BY DEF NoReq
    <3>4. NULL # "identify"
      BY DEF DiskAssumption, Command
    <3> HIDE DEF m
    <3>5. n = m \/ n = NoReq
      BY DEF m
    <3> HIDE DEF n
    <3> QED BY <3>1, <3>2, <3>3, <3>4, <3>5
  <2>5. n # NoReq => OnItsWay(n) /\ Phase(n) = "select"
    BY <2>4 DEF OnItsWay, Phase, Path, Steps, Command
  <2>6. req' = [req EXCEPT ![Boot] = n]
    BY <2>1, <2>2 DEF DiskInv, TypeOK, DiskAssumption
  <2> HIDE DEF n
  <2>7. /\ req' \in [Thread -> Request] /\ req'[Boot] = n
        /\ \A u \in Thread : u # Boot => req'[u] = req[u]
    BY <2>4, <2>6, AdvanceKeepsType DEF DiskAssumption
  <2>8. TypeOK'
    <3>1. TypeOK
      BY DEF DiskInv
    <3> QED BY <3>1, <2>2, <2>3, <2>7 DEF TypeOK
  <2>9. ~ Booted /\ ~ panic
    BY <2>3 DEF Booted, DiskInv, PanicInv
  <2>10. \A u \in Thread : ~ Active(u)
    BY <2>2, <2>9 DEF DiskInv, LockInv, Active, NoReq
  <2>11. /\ \A u \in Thread : u # Boot => ~ Active(u)' /\ ~ Using(u)'
         /\ Active(Boot)' <=> n # NoReq
         /\ Using(Boot)' <=> n # NoReq
    <3>1. \A u \in Thread : u # Boot => ~ Active(u)' /\ ~ Using(u)'
      BY <2>7, <2>10 DEF Active, Using
    <3>2. NULL # "identify"
      BY DEF DiskAssumption, Command
    <3> QED BY <3>1, <3>2, <2>4, <2>5, <2>7 DEF Active, Using, Step, Phase
  <2>12. RequestsAreWhole'
    BY <2>4, <2>5, <2>7 DEF DiskInv, RequestsAreWhole, OnItsWay
  <2>13. LockInv'
    <3>1. channel'.holder = NULL /\ Boot \in Thread /\ NULL \notin Thread
      BY <2>2, <2>9 DEF DiskInv, LockInv, DiskAssumption
    <3>2. CASE n # NoReq
      <4>1. ~ Booted'
        BY <3>2, <2>4, <2>7 DEF Booted
      <4> QED BY <3>1, <3>2, <4>1, <2>4, <2>7, <2>11 DEF LockInv
    <3>3. CASE n = NoReq
      <4>1. \A u \in Thread : ~ Active(u)' /\ ~ Using(u)'
        BY <3>3, <2>11
      <4>2. \A u \in Thread : req'[u].cmd # "identify"
        BY <4>1 DEF Active, DiskAssumption, Command
      <4> QED BY <3>1, <4>1, <4>2 DEF LockInv
    <3> QED BY <3>2, <3>3
  <2>14. ChannelInv'
    <3>1. Quiet
      BY <2>3, <2>10 DEF DiskInv, ChannelInv, Using
    <3>2. Quiet'
      BY <3>1, <2>2 DEF Quiet, Idle
    <3>3. Using(Boot)' => Step(Boot)' = "select"
      BY <2>5, <2>7, <2>11 DEF Step, Phase
    <3> QED BY <3>2, <3>3, <2>3, <2>11 DEF ChannelInv, Serves
  <2> QED BY <2>2, <2>8, <2>9, <2>12, <2>13, <2>14 DEF DiskInv, PanicInv
<1> QED
  BY <1>1, <1>2, <1>3 DEF DiskInit

(***************************************************************************)
(* The controller and its interrupts: they change neither who uses the     *)
(* channel nor how far it got.                                             *)
(***************************************************************************)
LEMMA MachineStep ==
  ASSUME DiskAssumption, DiskInv, TypeOK', UNCHANGED << req, boot, panic >>,
         channel'.holder = channel.holder, ChannelInv'
  PROVE  DiskInv'
<1>1. /\ Booted' <=> Booted
      /\ \A t \in Thread : (Active(t)' <=> Active(t)) /\ (Using(t)' <=> Using(t))
  BY DEF Booted, Active, Using, Step
<1>2. RequestsAreWhole'
  BY DEF DiskInv, RequestsAreWhole
<1>3. LockInv'
  BY <1>1 DEF DiskInv, LockInv
<1>4. PanicInv'
  BY <1>1 DEF DiskInv, PanicInv
<1> QED
  BY <1>2, <1>3, <1>4 DEF DiskInv

(* What is not the boot's reset is a command of the channel's user, who    *)
(* waits for it, or asks for the status.                                   *)
LEMMA BusyIsServing ==
  ASSUME DiskAssumption, DiskInv, ctrl.bsy, boot \notin {"reset", "wait"}
  PROVE  \E t \in Thread :
           /\ Using(t) /\ Serves(t) /\ Commanded(t) /\ \A u \in Thread : u # t => ~ Using(u)
           /\ ctrl.cmd = req[t].cmd /\ req[t].cmd \in Command
           /\ ~ ctrl.drq /\ NoInterrupt
           /\ req[t].cmd # "write" => Step(t) = "down"
           /\ req[t].cmd = "write" => \/ Step(t) = "poll" /\ ctrl.buf = NULL
                                      \/ Step(t) = "down" /\ ctrl.buf = req[t].buf
                                                         /\ req[t].buf \in Value
<1>1. PICK t \in Thread : Using(t) /\ Serves(t)
  BY DEF DiskInv, ChannelInv, Quiet, Idle
<1>2. \A u \in Thread : u # t => ~ Using(u)
  BY <1>1, OneUser
<1>3. OnItsWay(req[t]) /\ req[t] # NoReq
  BY <1>1, ActiveIsOnItsWay DEF Using
<1>4. req[t].cmd \in Command /\ (req[t].cmd = "write" => req[t].buf \in Value)
  BY <1>3 DEF OnItsWay, DiskInv, RequestsAreWhole
<1>5. Commanded(t) /\ IF req[t].cmd = "write" THEN WriteServes(t) ELSE ReadServes(t)
  BY <1>1 DEF Serves, Quiet, Idle
<1>6. Step(t) \in {"down", "poll", "input", "output", "release"}
  BY <1>1 DEF Serves, Quiet, Idle
<1>7. CASE req[t].cmd = "write"
  <2>1. Step(t) # "input"
    BY <1>3, <1>7, ActiveIsOnItsWay, NextPhase
  <2> QED
    BY <2>1, <1>1, <1>2, <1>4, <1>5, <1>6, <1>7 DEF WriteServes, Commanded, Idle
<1>8. CASE req[t].cmd # "write"
  <2>1. Step(t) # "output"
    BY <1>3, <1>8, ActiveIsOnItsWay, NextPhase
  <2> QED
    BY <2>1, <1>1, <1>2, <1>4, <1>5, <1>6, <1>8 DEF ReadServes, Commanded, Idle
<1> QED
  BY <1>7, <1>8

(* The controller works on the user's command, or ends the reset. *)
LEMMA ControllerKeeps ==
  ASSUME DiskAssumption, DiskInv, Controller
  PROVE  DiskInv'
<1>1. /\ ctrl.bsy /\ UNCHANGED << channel, is_ata, req, boot, ops, panic >>
      /\ ResetDone \/ DataReady \/ DataWanted \/ DataWritten \/ Failed
  BY DEF Controller, ResetDone, DataReady, DataWanted, DataWritten, Failed
<1>2. \A t \in Thread : /\ Active(t)' <=> Active(t)
                        /\ Using(t)' <=> Using(t)
                        /\ Step(t)' = Step(t)
  BY <1>1 DEF Active, Using, Step
<1>4. CASE boot \in {"reset", "wait"}
  <2>1. ctrl.cmd = "reset"
    BY <1>1, <1>4 DEF DiskInv, ChannelInv
  <2>2. ResetDone
    BY <1>1, <2>1 DEF DataReady, DataWanted, DataWritten, Failed, Command
  <2>3. PICK i \in BOOLEAN : ctrl' = [ctrl EXCEPT !.bsy = FALSE, !.irq = i]
    BY <2>2 DEF ResetDone
  <2>4. ctrl' \in [bsy : BOOLEAN, drq : BOOLEAN, err : BOOLEAN, irq : BOOLEAN,
                      cmd : Command \cup {NULL, "reset"}, dev : Device,
                      sec : Sector \cup {NULL}, buf : Value \cup {NULL}]
        /\ ctrl'.drq = ctrl.drq /\ ~ ctrl'.bsy
    BY <2>3 DEF DiskInv, TypeOK
  <2>5. platter' = platter
    BY <2>2 DEF ResetDone
  <2>6. TypeOK'
    BY <1>1, <2>4, <2>5 DEF DiskInv, TypeOK
  <2>7. ChannelInv'
    BY <1>1, <1>2, <1>4, <2>4 DEF DiskInv, ChannelInv, Using
  <2> QED BY <1>1, <2>6, <2>7, MachineStep
<1>5. CASE boot \notin {"reset", "wait"}
  <2>1. PICK t \in Thread :
          /\ Using(t) /\ Serves(t) /\ Commanded(t) /\ \A u \in Thread : u # t => ~ Using(u)
          /\ ctrl.cmd = req[t].cmd /\ req[t].cmd \in Command
          /\ ~ ctrl.drq /\ NoInterrupt
          /\ req[t].cmd # "write" => Step(t) = "down"
          /\ req[t].cmd = "write" => \/ Step(t) = "poll" /\ ctrl.buf = NULL
                                     \/ Step(t) = "down" /\ ctrl.buf = req[t].buf
                                                        /\ req[t].buf \in Value
    BY <1>1, <1>5, BusyIsServing
  <2>2. /\ TypeOK /\ ctrl.sec \in Sector \cup {NULL}
        /\ ctrl.cmd # "identify" => ctrl.sec \in Sector
    <3>1. TypeOK
      BY DEF DiskInv
    <3>2. req[t].cmd # "identify" => req[t].sec \in Sector
      BY <2>1, ActiveIsOnItsWay DEF Using, DiskInv, RequestsAreWhole
    <3> QED BY <3>1, <3>2, <2>1, Fields DEF Commanded, Selected
  <2>3. ~ ResetDone
    BY <2>1 DEF ResetDone, Command
  <2>4. SUFFICES TypeOK' /\ Serves(t)'
    <3>1. ASSUME TypeOK', Serves(t)' PROVE ChannelInv'
      BY <3>1, <1>1, <1>2, <1>5, <2>1 DEF ChannelInv
    <3> QED BY <3>1, <1>1, MachineStep
  <2>5. CASE DataReady
    <3>1. /\ ctrl.cmd \in {"identify", "read"} /\ platter' = platter
          /\ ctrl' = [ctrl EXCEPT !.bsy = FALSE, !.drq = TRUE, !.irq = TRUE,
                !.buf = IF ctrl.cmd = "read" THEN platter[ctrl.dev][ctrl.sec] ELSE NULL]
      BY <2>5 DEF DataReady
    <3>2. (IF ctrl.cmd = "read" THEN platter[ctrl.dev][ctrl.sec] ELSE NULL) \in Value \cup {NULL}
      <4>1. platter \in [Device -> [Sector -> Value]] /\ ctrl.dev \in Device
        BY <2>2, Fields DEF TypeOK
      <4> QED BY <4>1, <2>2
    <3>3. /\ ~ ctrl'.bsy /\ ctrl'.drq /\ ctrl'.irq /\ ctrl'.cmd = ctrl.cmd
          /\ ctrl'.dev = ctrl.dev /\ ctrl'.sec = ctrl.sec
          /\ ctrl.cmd = "read" => ctrl'.buf = platter[ctrl.dev][ctrl.sec]
          /\ ctrl' \in [bsy : BOOLEAN, drq : BOOLEAN, err : BOOLEAN, irq : BOOLEAN,
                      cmd : Command \cup {NULL, "reset"}, dev : Device,
                      sec : Sector \cup {NULL}, buf : Value \cup {NULL}]
      BY <2>2, <3>1, <3>2 DEF TypeOK
    <3>4. TypeOK'
      BY <1>1, <2>2, <3>1, <3>3 DEF TypeOK
    <3>5. /\ req[t].cmd # "write" /\ Step(t) = "down" /\ Commanded(t)' /\ Agree(t)'
          /\ Interrupted'
      BY <1>1, <2>1, <3>1, <3>3 DEF Commanded, Selected, Agree, Interrupted, NoInterrupt
    <3> QED BY <3>3, <3>4, <3>5, <1>1, <1>2 DEF Serves, ReadServes
  <2>6. CASE DataWanted
    <3>1. /\ ctrl.cmd = "write" /\ ctrl.buf = NULL /\ platter' = platter
          /\ ctrl' = [ctrl EXCEPT !.bsy = FALSE, !.drq = TRUE]
      BY <2>6 DEF DataWanted
    <3>2. /\ ~ ctrl'.bsy /\ ctrl'.drq /\ ctrl'.irq = ctrl.irq /\ ctrl'.cmd = ctrl.cmd
          /\ ctrl'.dev = ctrl.dev /\ ctrl'.sec = ctrl.sec
          /\ ctrl' \in [bsy : BOOLEAN, drq : BOOLEAN, err : BOOLEAN, irq : BOOLEAN,
                      cmd : Command \cup {NULL, "reset"}, dev : Device,
                      sec : Sector \cup {NULL}, buf : Value \cup {NULL}]
      BY <2>2, <3>1 DEF TypeOK
    <3>3. TypeOK'
      BY <1>1, <2>2, <3>1, <3>2 DEF TypeOK
    <3>4. req[t].cmd = "write" /\ Step(t) = "poll" /\ Commanded(t)' /\ NoInterrupt'
      BY <1>1, <2>1, <3>1, <3>2 DEF Commanded, Selected, NoInterrupt, DiskAssumption
    <3> QED BY <3>2, <3>3, <3>4, <1>1, <1>2 DEF Serves, WriteServes
  <2>7. CASE DataWritten
    <3>1. /\ ctrl.cmd = "write" /\ ctrl.buf # NULL
          /\ ctrl' = [ctrl EXCEPT !.bsy = FALSE, !.irq = TRUE]
          /\ platter' = [platter EXCEPT ![ctrl.dev][ctrl.sec] = ctrl.buf]
      BY <2>7 DEF DataWritten
    <3>2. /\ ~ ctrl'.bsy /\ ctrl'.drq = ctrl.drq /\ ctrl'.irq /\ ctrl'.cmd = ctrl.cmd
          /\ ctrl'.dev = ctrl.dev /\ ctrl'.sec = ctrl.sec
          /\ ctrl' \in [bsy : BOOLEAN, drq : BOOLEAN, err : BOOLEAN, irq : BOOLEAN,
                      cmd : Command \cup {NULL, "reset"}, dev : Device,
                      sec : Sector \cup {NULL}, buf : Value \cup {NULL}]
      BY <2>2, <3>1 DEF TypeOK
    <3>3. /\ platter' \in [Device -> [Sector -> Value]]
          /\ platter'[ctrl.dev][ctrl.sec] = ctrl.buf
      <4>1. platter \in [Device -> [Sector -> Value]] /\ ctrl.dev \in Device
        BY <2>2, Fields DEF TypeOK
      <4>2. ctrl.sec \in Sector /\ ctrl.buf \in Value
        BY <3>1, <2>1, <2>2
      <4> QED BY <4>1, <4>2, <3>1
    <3>4. TypeOK'
      BY <1>1, <2>2, <3>2, <3>3 DEF TypeOK
    <3>5. /\ req[t].cmd = "write" /\ Step(t) = "down" /\ Commanded(t)' /\ Interrupted'
          /\ Written(t)' /\ Idle'
      BY <1>1, <2>1, <3>1, <3>2, <3>3
      DEF Commanded, Selected, NoInterrupt, Interrupted, Written, Idle
    <3> QED BY <3>4, <3>5, <1>1, <1>2 DEF Serves, WriteServes
  <2>8. CASE Failed
    <3>1. ctrl' = [ctrl EXCEPT !.bsy = FALSE, !.err = TRUE, !.irq = TRUE] /\ platter' = platter
      BY <2>8 DEF Failed
    <3>2. /\ ~ ctrl'.bsy /\ ctrl'.drq = ctrl.drq /\ ctrl'.irq /\ ctrl'.cmd = ctrl.cmd
          /\ ctrl'.dev = ctrl.dev /\ ctrl'.sec = ctrl.sec /\ ctrl'.err
          /\ ctrl' \in [bsy : BOOLEAN, drq : BOOLEAN, err : BOOLEAN, irq : BOOLEAN,
                      cmd : Command \cup {NULL, "reset"}, dev : Device,
                      sec : Sector \cup {NULL}, buf : Value \cup {NULL}]
      BY <2>2, <3>1 DEF TypeOK
    <3>3. TypeOK'
      BY <1>1, <2>2, <3>1, <3>2 DEF TypeOK
    <3>4. Commanded(t)' /\ Interrupted' /\ Written(t)' /\ Idle'
      BY <1>1, <2>1, <3>1, <3>2 DEF Commanded, Selected, NoInterrupt, Interrupted, Written, Idle
    <3> QED BY <3>2, <3>3, <3>4, <1>1, <1>2, <2>1 DEF Serves, WriteServes, ReadServes
  <2> QED BY <1>1, <2>3, <2>5, <2>6, <2>7, <2>8
<1> QED
  BY <1>4, <1>5

(* interrupt_handler: the interrupt it counts is one somebody waits for. *)
LEMMA InterruptHandlerKeeps ==
  ASSUME DiskAssumption, DiskInv, InterruptHandler
  PROVE  DiskInv'
<1>1. /\ ctrl.irq /\ ctrl' = [ctrl EXCEPT !.irq = FALSE]
      /\ channel' = [channel EXCEPT !.completion = IF channel.expecting THEN @ + 1 ELSE @]
      /\ UNCHANGED << is_ata, platter, req, boot, ops, panic >>
  BY DEF InterruptHandler
<1>2. \A t \in Thread : /\ Active(t)' <=> Active(t)
                        /\ Using(t)' <=> Using(t)
                        /\ Step(t)' = Step(t)
  BY <1>1 DEF Active, Using, Step
<1>3. channel.expecting => channel.completion = 0
  <2>1. CASE \E t \in Thread : Using(t)
    <3>1. PICK t \in Thread : Using(t) /\ Serves(t)
      BY <2>1 DEF DiskInv, ChannelInv
    <3>2. CASE Step(t) \in {"select", "expect", "command"}
      BY <3>1, <3>2, <1>1 DEF Serves, Quiet, NoInterrupt
    <3>3. CASE Step(t) \notin {"select", "expect", "command"}
      <4>1. channel.completion \in 0 .. 1
        BY Fields DEF DiskInv
      <4>2. OnItsWay(req[t]) /\ req[t] \in Request /\ Step(t) = Phase(req[t])
        BY <3>1, ActiveIsOnItsWay DEF Using
      <4>3. /\ req[t].cmd = "write" => Step(t) # "input"
            /\ req[t].cmd # "write" => Step(t) # "output"
        BY <4>2, NextPhase
      <4> QED BY <3>1, <3>3, <4>1, <4>3, <1>1
              DEF Serves, WriteServes, ReadServes, NoInterrupt, Interrupted
    <3> QED BY <3>2, <3>3
  <2>2. CASE \A t \in Thread : ~ Using(t)
    BY <2>2, <1>1 DEF DiskInv, ChannelInv, Quiet
  <2> QED BY <2>1, <2>2
<1>4. /\ channel'.holder = channel.holder /\ channel'.expecting = channel.expecting
      /\ channel.expecting => channel'.completion = 1
      /\ ~ channel.expecting => channel'.completion = channel.completion
      /\ channel' \in [holder : Thread \cup {NULL}, expecting : BOOLEAN, completion : 0..1]
  <2>1. channel \in [holder : Thread \cup {NULL}, expecting : BOOLEAN, completion : 0..1]
    BY DEF DiskInv, TypeOK
  <2>2. CASE channel.expecting
    <3>1. channel' = [channel EXCEPT !.completion = 1]
      BY <2>1, <2>2, <1>1, <1>3
    <3>2. /\ channel' \in [holder : Thread \cup {NULL}, expecting : BOOLEAN, completion : 0..1]
          /\ channel'.completion = 1 /\ channel'.holder = channel.holder
          /\ channel'.expecting = channel.expecting
      BY <2>1, <3>1
    <3> QED BY <2>2, <3>2
  <2>3. CASE ~ channel.expecting
    <3>1. channel' = channel
      BY <2>1, <2>3, <1>1
    <3> QED BY <2>1, <2>3, <3>1
  <2> QED BY <2>2, <2>3
<1>5. /\ ctrl'.bsy = ctrl.bsy /\ ctrl'.drq = ctrl.drq /\ ~ ctrl'.irq /\ ctrl'.cmd = ctrl.cmd
      /\ ctrl'.dev = ctrl.dev /\ ctrl'.sec = ctrl.sec /\ ctrl'.err = ctrl.err
      /\ ctrl'.buf = ctrl.buf
      /\ ctrl' \in [bsy : BOOLEAN, drq : BOOLEAN, err : BOOLEAN, irq : BOOLEAN,
                      cmd : Command \cup {NULL, "reset"}, dev : Device,
                      sec : Sector \cup {NULL}, buf : Value \cup {NULL}]
  BY <1>1 DEF DiskInv, TypeOK
<1>6. TypeOK'
  BY <1>1, <1>4, <1>5 DEF DiskInv, TypeOK
<1>7. (\A t \in Thread : ~ Using(t)) /\ boot \notin {"reset", "wait"} => Quiet'
  BY <1>1, <1>4, <1>5 DEF DiskInv, ChannelInv, Quiet, Idle
<1>8. ASSUME NEW t \in Thread, Using(t) PROVE Serves(t)'
  <2>1. Serves(t)
    BY <1>8 DEF DiskInv, ChannelInv
  <2>2. CASE Step(t) \in {"select", "expect", "command"}
    BY <2>1, <2>2, <1>1, <1>2, <1>4, <1>5 DEF Serves, Quiet, Idle, NoInterrupt
  <2>3. CASE Step(t) \notin {"select", "expect", "command"}
    <3>1. Commanded(t) /\ Commanded(t)'
      BY <2>1, <2>3, <1>1, <1>4, <1>5 DEF Serves, Commanded, Selected
    <3>2. Interrupted' /\ ~ NoInterrupt
      BY <1>1, <1>4, <1>5, <3>1 DEF Interrupted, Commanded, NoInterrupt
    <3>3. CASE req[t].cmd = "write"
      <4>1. /\ WriteServes(t) /\ Step(t) \in {"down", "poll", "input", "output", "release"}
        BY <2>1, <2>3, <3>3 DEF Serves
      <4>2. WriteServes(t)'
        BY <4>1, <3>2, <1>1, <1>2, <1>5 DEF WriteServes, Idle, Written
      <4> QED BY <4>1, <4>2, <3>1, <3>3, <1>1, <1>2 DEF Serves
    <3>4. CASE req[t].cmd # "write"
      <4>1. /\ ReadServes(t) /\ Step(t) \in {"down", "poll", "input", "output", "release"}
        BY <2>1, <2>3, <3>4 DEF Serves
      <4>2. ReadServes(t)'
        BY <4>1, <3>2, <1>1, <1>2, <1>5 DEF ReadServes, Agree
      <4> QED BY <4>1, <4>2, <3>1, <3>4, <1>1, <1>2 DEF Serves
    <3> QED BY <3>3, <3>4
  <2> QED BY <2>2, <2>3
<1>9. ChannelInv'
  <2>1. boot \in {"reset", "wait"} => ~ channel.expecting
    BY DEF DiskInv, ChannelInv
  <2> QED BY <2>1, <1>1, <1>2, <1>4, <1>5, <1>7, <1>8 DEF DiskInv, ChannelInv
<1> QED
  BY <1>1, <1>4, <1>6, <1>9, MachineStep

-------------------------------------------------------------------------------
LEMMA InitDisk ==
  ASSUME DiskAssumption, Init
  PROVE  DiskInv
<1>1. NoReq \in Request /\ NoReq.cmd = NULL /\ NULL \notin Command
  BY DEF NoReq, Request, Device, DiskAssumption
<1>2. \A t \in Thread : req[t] = NoReq /\ ~ Active(t) /\ ~ Using(t)
  BY <1>1 DEF Init, Active, Using
<1>3. ~ Booted
  BY DEF Init, Booted
<1>4. TypeOK
  <2>1. req \in [Thread -> Request]
    BY <1>1 DEF Init
  <2>2. channel \in [holder : Thread \cup {NULL}, expecting : BOOLEAN, completion : 0..1]
    BY DEF Init
  <2>3. 0 \in Device
    BY DEF Device
  <2>4. ctrl \in [bsy : BOOLEAN, drq : BOOLEAN, err : BOOLEAN, irq : BOOLEAN,
                  cmd : Command \cup {NULL, "reset"}, dev : Device,
                  sec : Sector \cup {NULL}, buf : Value \cup {NULL}]
    BY <2>3 DEF Init
  <2>5. ops \in 0 .. MaxOps
    BY DEF Init, DiskAssumption
  <2> QED BY <2>1, <2>2, <2>4, <2>5 DEF Init, TypeOK
<1>5. RequestsAreWhole
  BY <1>2 DEF RequestsAreWhole
<1>6. LockInv
  BY <1>2, <1>3 DEF LockInv, Init
<1>7. ChannelInv
  BY <1>2 DEF ChannelInv, Init
<1> QED
  BY <1>4, <1>5, <1>6, <1>7 DEF DiskInv, PanicInv, Init

LEMMA NextKeeps ==
  ASSUME DiskAssumption, DiskInv, [Next]_vars
  PROVE  DiskInv'
<1>1. CASE DiskInit
  BY <1>1, DiskInitKeeps
<1>2. CASE Controller
  BY <1>2, ControllerKeeps
<1>3. CASE InterruptHandler
  BY <1>3, InterruptHandlerKeeps
<1>4. ASSUME NEW t \in Thread, Call(t) \/ ThreadStep(t)
      PROVE  DiskInv'
  BY <1>4, CallKeeps, LockAcquireKeeps, LockReleaseKeeps, SetupKeeps, SemaDownKeeps,
     WaitWhileBusyKeeps, InputSectorKeeps, OutputSectorKeeps DEF ThreadStep
<1>5. CASE UNCHANGED vars
  <2>1. /\ channel' = channel /\ ctrl' = ctrl /\ is_ata' = is_ata /\ platter' = platter
        /\ req' = req /\ boot' = boot /\ ops' = ops /\ panic' = panic
    BY <1>5 DEF vars
  <2>2. TypeOK' /\ RequestsAreWhole' /\ LockInv' /\ PanicInv'
    <3>1. TypeOK'
      <4>1. TypeOK
        BY DEF DiskInv
      <4>2. panic \in BOOLEAN
        BY <4>1 DEF TypeOK
      <4> QED BY <4>1, <4>2, <2>1, TypeStep
    <3>2. RequestsAreWhole'
      BY <2>1 DEF DiskInv, RequestsAreWhole
    <3>3. Booted' <=> Booted
      BY <2>1 DEF Booted
    <3>4. LockInv' /\ PanicInv'
      BY <2>1, <3>3 DEF DiskInv, LockInv, PanicInv, Active, Using, Step
    <3> QED BY <3>1, <3>2, <3>4
  <2>3. \A t \in Thread : (Using(t)' <=> Using(t)) /\ (Active(t)' <=> Active(t))
    BY <2>1 DEF Active, Using, Step
  <2>4. \A t \in Thread : Serves(t) => Serves(t)'
    BY <2>1 DEF Serves, ReadServes, WriteServes, Step, Selected, Commanded, Quiet, Idle,
       NoInterrupt, Interrupted, Agree, Written
  <2>5. ChannelInv'
    BY <2>1, <2>3, <2>4 DEF DiskInv, ChannelInv, Quiet, Idle
  <2> QED BY <2>2, <2>5 DEF DiskInv
<1> QED
  BY <1>1, <1>2, <1>3, <1>4, <1>5 DEF Next

(* From boot on and for ever, the controller does no more than what the    *)
(* step that the channel's user has come to allows it.                     *)
THEOREM DiskInvariance == Spec => []DiskInv
<1>1. Init => DiskInv
  BY InitDisk, DiskAssumption
<1>2. DiskInv /\ [Next]_vars => DiskInv'
  BY NextKeeps, DiskAssumption
<1> QED
  BY <1>1, <1>2, PTL DEF Spec

(* The channel meets every transfer in the state it expects: no completion *)
(* or interrupt of an earlier one is left when the lock is free, and data  *)
(* move only while the controller serves the mover's own command and       *)
(* sector (select_sector, issue_pio_command and interrupt_handler).        *)
THEOREM ChannelCorrect == Spec => []ChannelIsOrderly
<1>1. ASSUME DiskInv PROVE ChannelIsOrderly
  <2>1. ChannelQuiet
    <3>1. SUFFICES ASSUME Booted, channel.holder = NULL
                   PROVE  Quiet
      BY DEF ChannelQuiet, Quiet
    <3>2. \A t \in Thread : t # NULL
      BY DiskAssumption DEF DiskAssumption
    <3>3. \A t \in Thread : ~ Using(t)
      BY <1>1, <3>1, <3>2 DEF DiskInv, LockInv
    <3> QED BY <1>1, <3>1, <3>3 DEF DiskInv, ChannelInv, Booted
  <2>2. DataPhase
    <3>1. SUFFICES ASSUME NEW t \in Thread, At(t, "input") \/ At(t, "output")
                   PROVE  /\ ctrl.drq /\ ~ ctrl.bsy /\ ctrl.cmd = req[t].cmd
                          /\ ctrl.dev = req[t].dev /\ ctrl.sec = req[t].sec
      BY DEF DataPhase
    <3>2. CASE At(t, "input")
      <4>1. /\ Step(t) = "input" /\ Phase(req[t]) = "input" /\ req[t] \in Request
            /\ OnItsWay(req[t]) /\ Serves(t)
        BY <1>1, <3>2, AtStep, DiskAssumption
      <4>2. req[t].cmd # "write"
        BY <4>1, NextPhase
      <4> QED BY <4>1, <4>2 DEF Serves, ReadServes, Commanded, Selected
    <3>3. CASE At(t, "output")
      <4>1. /\ Step(t) = "output" /\ Phase(req[t]) = "output" /\ req[t] \in Request
            /\ OnItsWay(req[t]) /\ Serves(t)
        BY <1>1, <3>3, AtStep, DiskAssumption
      <4>2. req[t].cmd = "write"
        BY <4>1, NextPhase
      <4> QED BY <4>1, <4>2 DEF Serves, WriteServes, Commanded, Selected
    <3> QED BY <3>1, <3>2, <3>3
  <2> QED BY <1>1, <2>1, <2>2 DEF ChannelIsOrderly, DiskInv
<1> QED
  BY <1>1, DiskInvariance, PTL

(* disk_read returns what the sector holds; disk_write returns after the   *)
(* device has written the buffer, or has reported an error.                *)
THEOREM TransfersCorrect == Spec => []TransferDone
<1>1. ASSUME DiskInv PROVE TransferDone
  <2>1. SUFFICES ASSUME NEW t \in Thread, At(t, "release")
                 PROVE  \/ req[t].buf = platter[req[t].dev][req[t].sec]
                        \/ req[t].cmd = "write" /\ ctrl.err
    BY DEF TransferDone
  <2>2. /\ Step(t) = "release" /\ Serves(t)
    BY <1>1, <2>1, AtStep, DiskAssumption
  <2>3. ctrl.dev = req[t].dev /\ ctrl.sec = req[t].sec
    BY <2>2 DEF Serves, Commanded, Selected
  <2>4. CASE req[t].cmd = "write"
    BY <2>2, <2>3, <2>4 DEF Serves, WriteServes, Written
  <2>5. CASE req[t].cmd # "write"
    BY <2>2, <2>3, <2>5 DEF Serves, ReadServes
  <2> QED BY <2>4, <2>5
<1> QED
  BY <1>1, DiskInvariance, PTL
===============================================================================
