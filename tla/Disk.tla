--------------------------------- MODULE Disk ---------------------------------
(***************************************************************************)
(* devices/disk.c: one ATA channel with its two devices.  A transfer is a  *)
(* fixed sequence of steps of a thread that holds the channel's lock; the  *)
(* controller works on its own between them and interrupts when a command  *)
(* is done.  disk_init resets the channel and identifies the devices in    *)
(* the boot thread, before anybody else runs and without the lock.         *)
(*                                                                         *)
(* Abstractions: the lock and the semaphore are what Synch shows them to   *)
(* be; the bytes of a sector number are one register; the statistics are   *)
(* left out; the other channel is a copy of this one.                      *)
(***************************************************************************)
EXTENDS Integers, Sequences

CONSTANTS
  Thread,     \* the threads that use the disks
  Boot,       \* the one that runs disk_init
  Sector,     \* the sectors of a device
  Value,      \* what a sector may hold
  NULL,
  MaxOps      \* bound on the number of transfers

Device == {0, 1}
Command == {"identify", "read", "write"}

ASSUME DiskAssumption ==
  /\ Boot \in Thread /\ MaxOps \in Nat
  /\ NULL \notin Thread \cup Value \cup Sector /\ NULL \notin Command \cup {"reset"}

VARIABLES
  channel,    \* struct channel: the lock's holder, expecting_interrupt, completion_wait
  ctrl,       \* the controller: its status bits, INTRQ, the selected sector, its buffer
  is_ata,     \* of each device
  platter,    \* what the devices hold
  req,        \* the transfer each thread is in, and how far it got
  boot,       \* how far disk_init got
  ops, panic

vars == <<channel, ctrl, is_ata, platter, req, boot, ops, panic>>

Request == [cmd : Command \cup {NULL}, dev : Device, sec : Sector \cup {NULL},
            buf : Value \cup {NULL}, at : 0..8]
NoReq == [cmd |-> NULL, dev |-> 0, sec |-> NULL, buf |-> NULL, at |-> 0]

(* identify_ata_device, disk_read and disk_write, step by step. *)
Steps == [
  identify |-> <<"select", "expect", "command", "down", "poll", "input">>,
  read  |-> <<"acquire", "select", "expect", "command", "down", "poll", "input", "release">>,
  write |-> <<"acquire", "select", "expect", "command", "poll", "output", "down", "release">>]

(* A write that leaves before its interrupt; a first command before it is  *)
(* expected to interrupt; a read that lets others in once it is on its way. *)
PathWithoutWait(cmd) == [Steps EXCEPT !.write =
  <<"acquire", "select", "expect", "command", "poll", "output", "release">>][cmd]
PathExpectLate(cmd) == [Steps EXCEPT !.identify =
  <<"select", "command", "expect", "down", "poll", "input">>][cmd]
PathEarlyRelease(cmd) == [Steps EXCEPT !.read =
  <<"acquire", "select", "expect", "command", "release", "down", "poll", "input">>][cmd]

Path(cmd) == Steps[cmd]

At(t, step) == ~panic /\ req[t].cmd # NULL /\ Path(req[t].cmd)[req[t].at] = step

(* R is done with its step. *)
Done(r) == IF r.at = Len(Path(r.cmd)) THEN NoReq ELSE [r EXCEPT !.at = @ + 1]
Advance(t) == req' = [req EXCEPT ![t] = Done(@)]

Booted == boot = "done" /\ req[Boot].cmd # "identify"

Idle == ~ctrl.bsy /\ ~ctrl.drq

Init ==
  /\ channel = [holder |-> NULL, expecting |-> FALSE, completion |-> 0]
  /\ ctrl = [bsy |-> FALSE, drq |-> FALSE, err |-> FALSE, irq |-> FALSE,
             cmd |-> NULL, dev |-> 0, sec |-> NULL, buf |-> NULL]
  /\ is_ata = [d \in Device |-> FALSE]
  /\ platter \in [Device -> [Sector -> Value]]
  /\ req = [t \in Thread |-> NoReq]
  /\ boot = "reset" /\ ops = 0 /\ panic = FALSE

-------------------------------------------------------------------------------
(* disk_init *)

(* The soft reset keeps the devices busy for a while. *)
ResetChannel ==
  /\ boot = "reset"
  /\ ctrl' = [ctrl EXCEPT !.bsy = TRUE, !.cmd = "reset"]
  /\ boot' = "wait"
  /\ UNCHANGED <<channel, is_ata, platter, req, ops, panic>>

(* Which devices answer like ATA disks is the machine's business. *)
CheckDeviceType ==
  /\ boot = "wait" /\ ~ctrl.bsy
  /\ is_ata' \in [Device -> BOOLEAN]
  /\ boot' = "disk 0"
  /\ UNCHANGED <<channel, ctrl, platter, req, ops, panic>>

(* The devices are identified one after the other. *)
IdentifyNext ==
  /\ req[Boot] = NoReq
  /\ \E d \in Device :
       /\ boot = <<"disk 0", "disk 1">>[d + 1]
       /\ boot' = <<"disk 1", "done">>[d + 1]
       /\ req' = [req EXCEPT ![Boot] =
            IF is_ata[d] THEN [NoReq EXCEPT !.cmd = "identify", !.dev = d, !.at = 1] ELSE @]
  /\ UNCHANGED <<channel, ctrl, is_ata, platter, ops, panic>>

-------------------------------------------------------------------------------
(* disk_read and disk_write *)

(* disk_get returns a disk that is_ata; the sector is below its capacity. *)
Call(t) ==
  /\ Booted /\ req[t] = NoReq /\ ops < MaxOps /\ ~panic
  /\ \E d \in {e \in Device : is_ata[e]}, s \in Sector :
       \/ req' = [req EXCEPT ![t] = [NoReq EXCEPT
                    !.cmd = "read", !.dev = d, !.sec = s, !.at = 1]]
       \/ \E v \in Value : req' = [req EXCEPT ![t] = [NoReq EXCEPT
                    !.cmd = "write", !.dev = d, !.sec = s, !.buf = v, !.at = 1]]
  /\ ops' = ops + 1
  /\ UNCHANGED <<channel, ctrl, is_ata, platter, boot, panic>>

LockAcquire(t) ==
  /\ At(t, "acquire") /\ channel.holder = NULL
  /\ channel' = [channel EXCEPT !.holder = t]
  /\ Advance(t)
  /\ UNCHANGED <<ctrl, is_ata, platter, boot, ops, panic>>

LockRelease(t) ==
  /\ At(t, "release")
  /\ channel' = [channel EXCEPT !.holder = NULL]
  /\ Advance(t)
  /\ UNCHANGED <<ctrl, is_ata, platter, boot, ops, panic>>

(* Waiting for the idle controller reads the status register, which takes  *)
(* back an interrupt that is pending.  Identifying selects no sector.      *)
SelectSector(t) ==
  /\ At(t, "select")
  /\ ctrl' = [ctrl EXCEPT !.irq = FALSE, !.dev = req[t].dev, !.sec = req[t].sec]
  /\ Advance(t)
  /\ UNCHANGED <<channel, is_ata, platter, boot, ops, panic>>

(* issue_pio_command expects the interrupt before it can come. *)
Expect(t) ==
  /\ At(t, "expect")
  /\ channel' = [channel EXCEPT !.expecting = TRUE]
  /\ Advance(t)
  /\ UNCHANGED <<ctrl, is_ata, platter, boot, ops, panic>>

IssuePioCommand(t) ==
  /\ At(t, "command")
  /\ ctrl' = IF Idle THEN [ctrl EXCEPT !.bsy = TRUE, !.err = FALSE, !.irq = FALSE,
                                       !.cmd = req[t].cmd, !.buf = NULL]
                     ELSE ctrl
  /\ Advance(t)
  /\ UNCHANGED <<channel, is_ata, platter, boot, ops, panic>>

SemaDown(t) ==
  /\ At(t, "down") /\ channel.completion > 0
  /\ channel' = [channel EXCEPT !.completion = @ - 1]
  /\ Advance(t)
  /\ UNCHANGED <<ctrl, is_ata, platter, boot, ops, panic>>

(* wait_while_busy, which gives up after thirty seconds.  A disk that does *)
(* not identify itself is no disk; a transfer that fails is the end.       *)
WaitWhileBusy(t) ==
  /\ At(t, "poll")
  /\ IF ~ctrl.bsy /\ ctrl.drq
       THEN Advance(t) /\ UNCHANGED <<is_ata, panic>>
       ELSE IF req[t].cmd = "identify"
       THEN /\ is_ata' = [is_ata EXCEPT ![req[t].dev] = FALSE]
            /\ req' = [req EXCEPT ![t] = NoReq]
            /\ UNCHANGED panic
       ELSE panic' = TRUE /\ UNCHANGED <<req, is_ata>>
  /\ UNCHANGED <<channel, ctrl, platter, boot, ops>>

(* The last word read from the data register ends the data phase. *)
InputSector(t) ==
  /\ At(t, "input")
  /\ req' = [req EXCEPT ![t] = Done([@ EXCEPT !.buf = ctrl.buf])]
  /\ ctrl' = [ctrl EXCEPT !.drq = FALSE]
  /\ UNCHANGED <<channel, is_ata, platter, boot, ops, panic>>

(* The last word written to it starts the writing. *)
OutputSector(t) ==
  /\ At(t, "output")
  /\ ctrl' = IF ctrl.drq THEN [ctrl EXCEPT !.drq = FALSE, !.bsy = TRUE, !.buf = req[t].buf]
                         ELSE ctrl
  /\ Advance(t)
  /\ UNCHANGED <<channel, is_ata, platter, boot, ops, panic>>

(* interrupt_handler: expecting_interrupt, once set, is never reset. *)
InterruptHandler ==
  /\ ctrl.irq /\ ~panic
  /\ ctrl' = [ctrl EXCEPT !.irq = FALSE]
  /\ channel' = [channel EXCEPT !.completion = IF channel.expecting THEN @ + 1 ELSE @]
  /\ UNCHANGED <<is_ata, platter, req, boot, ops, panic>>

-------------------------------------------------------------------------------
(* The controller, as far as the driver relies on it *)

(* A reset may or may not end in an interrupt. *)
ResetDone ==
  /\ ctrl.bsy /\ ctrl.cmd = "reset"
  /\ \E i \in BOOLEAN : ctrl' = [ctrl EXCEPT !.bsy = FALSE, !.irq = i]
  /\ UNCHANGED platter

DataReady ==
  /\ ctrl.bsy /\ ctrl.cmd \in {"identify", "read"}
  /\ ctrl' = [ctrl EXCEPT !.bsy = FALSE, !.drq = TRUE, !.irq = TRUE,
                !.buf = IF ctrl.cmd = "read" THEN platter[ctrl.dev][ctrl.sec] ELSE NULL]
  /\ UNCHANGED platter

(* A device asks for the data of a write without an interrupt. *)
DataWanted ==
  /\ ctrl.bsy /\ ctrl.cmd = "write" /\ ctrl.buf = NULL
  /\ ctrl' = [ctrl EXCEPT !.bsy = FALSE, !.drq = TRUE]
  /\ UNCHANGED platter

DataWritten ==
  /\ ctrl.bsy /\ ctrl.cmd = "write" /\ ctrl.buf # NULL
  /\ ctrl' = [ctrl EXCEPT !.bsy = FALSE, !.irq = TRUE]
  /\ platter' = [platter EXCEPT ![ctrl.dev][ctrl.sec] = ctrl.buf]

(* Any command may fail; one that does asks for no data. *)
Failed ==
  /\ ctrl.bsy /\ ctrl.cmd \in Command
  /\ ctrl' = [ctrl EXCEPT !.bsy = FALSE, !.err = TRUE, !.irq = TRUE]
  /\ UNCHANGED platter

Controller ==
  /\ ~panic
  /\ ResetDone \/ DataReady \/ DataWanted \/ DataWritten \/ Failed
  /\ UNCHANGED <<channel, is_ata, req, boot, ops, panic>>

ThreadStep(t) ==
  \/ LockAcquire(t) \/ LockRelease(t) \/ SelectSector(t) \/ Expect(t) \/ IssuePioCommand(t)
  \/ SemaDown(t) \/ WaitWhileBusy(t) \/ InputSector(t) \/ OutputSector(t)

DiskInit == ResetChannel \/ CheckDeviceType \/ IdentifyNext

Next ==
  \/ DiskInit \/ Controller \/ InterruptHandler
  \/ \E t \in Thread : Call(t) \/ ThreadStep(t)

Spec == Init /\ [][Next]_vars

(* The machine: the controller answers, interrupts are delivered, and a    *)
(* thread that can run does.                                               *)
Fairness ==
  /\ WF_vars(Controller) /\ WF_vars(InterruptHandler) /\ WF_vars(DiskInit)
  /\ \A t \in Thread : WF_vars(ThreadStep(t))
FairSpec == Spec /\ Fairness

-------------------------------------------------------------------------------
(* Every variable keeps its type; there is never more than one completion. *)
TypeOK ==
  /\ channel \in [holder : Thread \cup {NULL}, expecting : BOOLEAN, completion : 0..1]
  /\ ctrl \in [bsy : BOOLEAN, drq : BOOLEAN, err : BOOLEAN, irq : BOOLEAN,
               cmd : Command \cup {NULL, "reset"}, dev : Device, sec : Sector \cup {NULL},
               buf : Value \cup {NULL}]
  /\ is_ata \in [Device -> BOOLEAN] /\ platter \in [Device -> [Sector -> Value]]
  /\ req \in [Thread -> Request] /\ boot \in {"reset", "wait", "disk 0", "disk 1", "done"}
  /\ ops \in 0..MaxOps /\ panic \in BOOLEAN

(* When nobody holds the channel's lock and nobody identifies a device,    *)
(* nothing of the last transfer is left: no completion that the next       *)
(* sema_down would take for its own, no interrupt to come that would, and  *)
(* no busy device.                                                         *)
(* (select_sector, and interrupt_handler's expecting_interrupt)            *)
ChannelQuiet ==
  (Booted /\ channel.holder = NULL) =>
    channel.completion = 0 /\ ~(ctrl.irq /\ channel.expecting) /\ Idle

(* When a transfer is over, the buffer and the sector agree: disk_read     *)
(* returns what the sector holds, and disk_write returns after the device  *)
(* has written it, unless the device reported an error, which disk_write   *)
(* does not look at once the data are out.                                 *)
TransferDone ==
  \A t \in Thread : At(t, "release") =>
    \/ req[t].buf = platter[req[t].dev][req[t].sec]
    \/ req[t].cmd = "write" /\ ctrl.err

(* A thread moves data only while the controller serves its own command,   *)
(* on its own sector.                                                      *)
DataPhase ==
  \A t \in Thread : (At(t, "input") \/ At(t, "output")) =>
    /\ ctrl.drq /\ ~ctrl.bsy /\ ctrl.cmd = req[t].cmd
    /\ ctrl.dev = req[t].dev /\ ctrl.sec = req[t].sec

(* The channel serves one transfer at a time: each meets the controller in *)
(* the state it expects and leaves nothing of itself to the next.          *)
ChannelIsOrderly ==
  /\ TypeOK
  /\ ChannelQuiet
  /\ DataPhase

(* No completion is lost: a transfer that has the channel ends, unless the *)
(* kernel panics.  (sema_down of completion_wait)                          *)
Started(t) == req[t].cmd # NULL /\ ~At(t, "acquire")
TransferEnds == \A t \in Thread : Started(t) ~> (~Started(t) \/ panic)
===============================================================================
