-------------------------------- MODULE Ide --------------------------------
(***************************************************************************)
(* One channel of devices/ide.c with its two disks, under the block layer  *)
(* of devices/block.c: the part of ide_init that identifies and registers  *)
(* the disks, on the task main, then block_read and block_write by tasks.  *)
(*                                                                         *)
(* The semaphores are those of module Semaphore, for which no interrupt    *)
(* may land under a spin lock (module Kernel), with one exception that     *)
(* needs two tasks which wait: schedule dispatches the task it has chosen  *)
(* even if that one sleeps by now.  The chosen task's sema_down returns    *)
(* then, while it still is in the wait list.  What follows on broken lists *)
(* is not modelled: the tasks stop.                                        *)
(*                                                                         *)
(* Interrupts are open wherever the driver runs, so a pending one is       *)
(* served before the next statement of a task.  The drives are external: a *)
(* ready drive takes a command, is busy for a while, and then asks for     *)
(* data, ends or fails.                                                    *)
(***************************************************************************)
EXTENDS Integers, FiniteSets

CONSTANTS
    Task,
    Main,      \* the task ide_init runs on
    NULL,      \* no task
    Sectors,   \* the sector numbers passed to block_read and block_write
    Capacity,  \* Capacity[d]: the sectors of disk d, as the disk reports them
    Requests   \* bound: Requests[t] is how many requests task t makes

Disk == {0, 1}
Sem  == {"sema_rw", "sema_wait"}

\* identify_ata_device reads a 28-bit capacity (words 60 and 61).
ASSUME IdeAssumption ==
    /\ Main \in Task /\ NULL \notin Task
    /\ Sectors \subseteq Nat
    /\ Capacity \in [Disk -> 1 .. 2^28]
    /\ Requests \in [Task -> Nat]

VARIABLES
    pc,
    req,         \* req[t]: the operation t performs
    left,        \* left[t]: the requests t may still make
    value, waiting,   \* the semaphores (module Semaphore)
    next,        \* next[t]: the task a preempted schedule has chosen, or NULL
    lba,         \* the LBA registers, bits 0 to 23
    device,      \* the device register
    drive,       \* drive[d]: the state of a drive and its last command
    irq,         \* the channel's interrupt is pending
    there,       \* there[d]: the kind of drive connected and working
    is_ata_disk, \* ata_disk.is_ata_disk
    nr_sectors,  \* block.nr_sectors, 0 before block_register
    probed,      \* dev_no of ide_init's second loop
    woken,       \* history: how often sema_up(&sema_rw) found a waiter
    stray,       \* history: a sleeping task was dispatched
    disturbed    \* history: a poll gave up, a second task was let in, or stray

semas   == <<value, waiting>>
disks   == <<there, is_ata_disk, nr_sectors, probed>>
history == <<woken, stray, disturbed>>
vars    == <<pc, req, left, semas, next, lba, device, drive, irq, disks, history>>

\* Mutant: two tasks may use the channel at once.
two_users == [s \in Sem |-> IF s = "sema_rw" THEN 2 ELSE 0]

\* sema_init of ide_init.
SemInit == [s \in Sem |-> IF s = "sema_rw" THEN 1 ELSE 0]

Sema == INSTANCE Semaphore

Request(op, d, n) == [op |-> op, disk |-> d, sector |-> n]
NoRequest == Request("none", 0, 0)

\* From sema_down(&sema_rw) on to its sema_up.
Users == {t \in Task : req[t].op \in {"read", "write"}
                       /\ pc[t] \notin {"user", "down", "sema_rw"}}

---------------------------------------------------------------------------
(* The channel's registers, as the drives decode them.                     *)

DEV_MBS == 160
DEV_LBA == 64
DEV_DEV == 16

Selected  == (device \div DEV_DEV) % 2
Addressed == lba + (device % DEV_DEV) * 2^24

Is(st, d) == drive[d].state = st
BSY(d) == Is("busy", d) \/ Is("storing", d)
DRQ(d) == Is("drq", d)

IdleDrive == [state |-> "idle", op |-> "none", sector |-> 0]
To(d, st) == drive' = [drive EXCEPT ![d] = IF st = "idle" THEN IdleDrive
                                           ELSE [@ EXCEPT !.state = st]]

---------------------------------------------------------------------------
(* The steps of a task.                                                    *)

\* A task executes statements; no interrupt is pending.
Goto(t, from, to) ==
    /\ ~irq /\ ~stray
    /\ pc[t] = from
    /\ pc' = [pc EXCEPT ![t] = to]
    /\ req' = IF to = "user" THEN [req EXCEPT ![t] = NoRequest] ELSE req
    /\ UNCHANGED <<left, irq>>

Asleep(t) == \E s \in Sem : t \in waiting[s]

\* schedule reads the head of the ready list, another task, and is preempted
\* before it has disabled interrupts.
choose_next(t) ==
    /\ ~irq /\ ~stray
    /\ pc[t] \in Sem /\ next[t] = NULL
    /\ \E u \in Task \ {t} : ~Asleep(u) /\ next' = [next EXCEPT ![t] = u]
    /\ UNCHANGED <<pc, req, left, semas, lba, device, drive, irq, disks, history>>

stale(t) == next[t] # NULL /\ Asleep(next[t])

\* sema_down: the task goes on, or sleeps until it no longer waits.
Down(t, s, from, to) ==
    /\ \/ Goto(t, from, to) /\ Sema!Take(s) /\ UNCHANGED next
       \/ Goto(t, from, s) /\ Sema!Sleep(s, t) /\ UNCHANGED next
       \/ /\ Goto(t, s, to) /\ t \notin waiting[s] /\ ~stale(t)
          /\ next' = [next EXCEPT ![t] = NULL]
          /\ UNCHANGED semas
    /\ disturbed' = (disturbed \/ (s = "sema_rw" /\ pc'[t] = to /\ Users # {}))
    /\ UNCHANGED <<lba, device, drive, disks, woken, stray>>

\* A woken task goes on in schedule and dispatches a task that sleeps.
dispatch_stale(t) ==
    /\ ~irq /\ ~stray
    /\ pc[t] \in Sem /\ ~Asleep(t) /\ stale(t)
    /\ LET u == next[t] IN
       pc' = [pc EXCEPT ![u] = IF pc[u] = "sema_rw" THEN "idle1"
                              ELSE IF req[u].op = "write" THEN "ok" ELSE "poll"]
    /\ next' = [next EXCEPT ![t] = NULL]
    /\ stray' = TRUE /\ disturbed' = TRUE
    /\ UNCHANGED <<req, left, semas, lba, device, drive, irq, disks, woken>>

sema_down_rw(t) == req[t].op \in {"read", "write"} /\ Down(t, "sema_rw", "down", "idle1")

\* wait_until_idle prints a message when it gives up, and goes on.
wait_until_idle(t) ==
    /\ \/ Goto(t, "idle1", "select")
       \/ Goto(t, "idle2", IF req[t].op = "identify" THEN "cmd" ELSE "sector")
    /\ disturbed' = (disturbed \/ BSY(Selected) \/ DRQ(Selected))
    /\ UNCHANGED <<semas, next, lba, device, drive, disks, woken, stray>>

select_disk(t) ==
    /\ Goto(t, "select", "idle2")
    /\ device' = DEV_MBS + DEV_DEV * req[t].disk
    /\ UNCHANGED <<semas, next, lba, drive, disks, history>>

\* Mutant: the upper four bits of the address are not written.
high_bits_dropped(n) == 0

high_bits(n) == n \div 2^24

select_sector(t) ==
    /\ Goto(t, "sector", "cmd")
    /\ lba' = req[t].sector % 2^24
    /\ device' = DEV_MBS + DEV_LBA + DEV_DEV * req[t].disk + high_bits(req[t].sector)
    /\ UNCHANGED <<semas, next, drive, disks, history>>

\* A selected drive that is not ready does not see the command.
issue_pio_cmd(t) ==
    /\ Goto(t, "cmd", IF req[t].op = "write" THEN "poll" ELSE "wait")
    /\ drive' = IF BSY(Selected) \/ DRQ(Selected) THEN drive
                ELSE [drive EXCEPT ![Selected] =
                        [state |-> "busy", op |-> req[t].op,
                         sector |-> IF req[t].op = "identify" THEN 0 ELSE Addressed]]
    /\ UNCHANGED <<semas, next, lba, device, disks, history>>

sema_down_wait(t) ==
    Down(t, "sema_wait", "wait", IF req[t].op = "write" THEN "ok" ELSE "poll")

\* Mutant: the status is not polled until BSY is clear.
settled_always(d) == TRUE

settled(d) == ~BSY(d)

\* wait_while_busy; it may give up while the drive is busy.
wait_while_busy(t) ==
    /\ Goto(t, "poll", IF settled(Selected) /\ DRQ(Selected)
                       THEN "transfer" ELSE "fail")
    /\ disturbed' = (disturbed \/ ~settled(Selected))
    /\ UNCHANGED <<semas, next, lba, device, drive, disks, woken, stray>>

\* input_sector takes the data a drive offers, output_sector gives it some.
transfer(t) ==
    /\ Goto(t, "transfer", IF req[t].op = "write" THEN "wait" ELSE "ok")
    /\ IF ~DRQ(Selected) THEN UNCHANGED drive
       ELSE To(Selected, IF req[t].op = "write" THEN "storing" ELSE "idle")
    /\ UNCHANGED <<semas, next, lba, device, disks, history>>

raise_rw ==
    /\ Sema!Raise("sema_rw")
    /\ woken' = IF waiting["sema_rw"] = {} THEN woken ELSE woken + 1

\* Mutant: the path of an error returns without sema_up.
give_back_unless_failed(t) ==
    IF pc[t] = "fail" THEN UNCHANGED <<value, waiting, woken>> ELSE raise_rw

give_back(t) == raise_rw

\* ide_read and ide_write return.
complete(t) ==
    /\ req[t].op # "identify"
    /\ Goto(t, "ok", "user") \/ Goto(t, "fail", "user")
    /\ give_back(t)
    /\ UNCHANGED <<next, lba, device, drive, disks, stray, disturbed>>

---------------------------------------------------------------------------
(* Detection: what a drive shows after the reset, and what is made of it.  *)

Kinds == {"ata", "packet", "none"}

Shows(e, m, h, ready, busy) ==
    [error |-> e, lbam |-> m, lbah |-> h, DRDY |-> ready, BSY |-> busy]

\* A drive has passed its test; disk 0 may report that disk 1 has failed.
Diagnoses(d) == IF d = 0 /\ there[1] = "none" THEN {1, 129} ELSE {1}

\* A parallel or serial ATA drive is ready.  A packet device is not before its
\* first command.  For a disk that is not there the other one answers, or
\* nobody does.
Signatures(d) ==
    CASE there[d] = "ata" -> {Shows(e, 0, 0, TRUE, FALSE) : e \in Diagnoses(d)}
                      \cup {Shows(e, 60, 195, TRUE, FALSE) : e \in Diagnoses(d)}
      [] there[d] = "packet" -> {Shows(e, 20, 235, FALSE, FALSE) : e \in Diagnoses(d)}
      [] OTHER -> {Shows(1, 0, 0, FALSE, FALSE), Shows(0, 0, 0, FALSE, FALSE),
                   Shows(255, 255, 255, TRUE, TRUE)}

\* Mutant: a disk need not be ready.
passed_unless_busy(d, s) == (s.error = 1 \/ (s.error = 129 /\ d = 0)) /\ ~s.BSY

passed(d, s) == (s.error = 1 \/ (s.error = 129 /\ d = 0)) /\ s.DRDY /\ ~s.BSY

is_ata(d, s) == passed(d, s) /\ <<s.lbam, s.lbah>> \in {<<0, 0>>, <<60, 195>>}

\* What check_disk_type returns: whether disk 1 is worth a look.
check_disk_type(d, s) == passed(d, s) \/ s.error # 129

\* reset_adaptor, and check_disk_type for disk 0 and perhaps for disk 1; the
\* disk looked at last stays selected.
detect(s) ==
    LET second == check_disk_type(0, s[0])
    IN  /\ is_ata_disk = [d \in Disk |-> (d = 0 \/ second) /\ is_ata(d, s[d])]
        /\ device = DEV_MBS + (IF second THEN DEV_DEV ELSE 0)

---------------------------------------------------------------------------
(* ide_init after check_disk_type, for the disks of the channel.           *)

\* Mutant: the last sector number is one too large.
valid_up_to_size(d, n) == n <= nr_sectors[d]

valid_sector_no(d, n) == n < nr_sectors[d]

\* The loop skips what is no ATA disk, and identifies the others.
probe(t) ==
    /\ t = Main /\ probed \in Disk /\ ~irq /\ ~stray
    /\ pc[t] = "user"
    /\ IF is_ata_disk[probed]
       THEN /\ pc' = [pc EXCEPT ![t] = "idle1"]
            /\ req' = [req EXCEPT ![t] = Request("identify", probed, 0)]
            /\ UNCHANGED probed
       ELSE probed' = probed + 1 /\ UNCHANGED <<pc, req>>
    /\ UNCHANGED <<left, semas, next, lba, device, drive, irq, there, is_ata_disk, nr_sectors,
                   history>>

\* identify_ata_device returns; the disk is registered in any case.
block_register(t) ==
    /\ req[t].op = "identify"
    /\ \/ /\ Goto(t, "ok", "user")
          /\ nr_sectors' = [nr_sectors EXCEPT ![probed] = Capacity[probed]]
          /\ UNCHANGED is_ata_disk
       \/ /\ Goto(t, "fail", "user")
          /\ is_ata_disk' = [is_ata_disk EXCEPT ![probed] = FALSE]
          /\ UNCHANGED nr_sectors
    /\ probed' = probed + 1
    /\ UNCHANGED <<semas, next, lba, device, drive, there, history>>

\* block_read and block_write, once the disks are registered.  A sector that
\* is not on the disk returns at once.
block_request(t) ==
    /\ probed \notin Disk /\ ~irq /\ ~stray
    /\ pc[t] = "user" /\ left[t] > 0
    /\ \E op \in {"read", "write"}, d \in Disk, n \in Sectors :
          /\ valid_sector_no(d, n)
          /\ req' = [req EXCEPT ![t] = Request(op, d, n)]
    /\ pc' = [pc EXCEPT ![t] = "down"]
    /\ left' = [left EXCEPT ![t] = @ - 1]
    /\ UNCHANGED <<semas, next, lba, device, drive, irq, disks, history>>

---------------------------------------------------------------------------
(* The drives and the interrupt.                                           *)

\* A drive executes its command.  A sector it does not have fails.
Drive(d) ==
    /\ \/ /\ Is("busy", d)
          /\ drive[d].sector < Capacity[d]
          /\ To(d, "drq")
          /\ irq' = (irq \/ drive[d].op # "write")
       \/ /\ Is("storing", d)
          /\ To(d, "idle")
          /\ irq' = TRUE
       \/ /\ BSY(d)
          /\ To(d, "failed")
          /\ irq' = TRUE
    /\ UNCHANGED <<pc, req, left, semas, next, lba, device, disks, history>>

ide_interrupt ==
    /\ irq
    /\ irq' = FALSE
    /\ Sema!Raise("sema_wait")
    /\ UNCHANGED <<pc, req, left, next, lba, device, drive, disks, history>>

---------------------------------------------------------------------------
\* Any drives are connected, and ide_init has looked for them.
Init ==
    /\ pc = [t \in Task |-> "user"]
    /\ req = [t \in Task |-> NoRequest]
    /\ left = Requests
    /\ Sema!Init
    /\ next = [t \in Task |-> NULL]
    /\ lba = 0
    /\ drive = [d \in Disk |-> IdleDrive]
    /\ irq = FALSE
    /\ there \in [Disk -> Kinds]
    /\ \E s0 \in Signatures(0), s1 \in Signatures(1) :
          detect([d \in Disk |-> IF d = 0 THEN s0 ELSE s1])
    /\ nr_sectors = [d \in Disk |-> 0]
    /\ probed = 0
    /\ woken = 0
    /\ stray = FALSE /\ disturbed = FALSE

Step(t) ==
    \/ sema_down_rw(t) \/ wait_until_idle(t) \/ select_disk(t) \/ select_sector(t)
    \/ issue_pio_cmd(t) \/ sema_down_wait(t) \/ wait_while_busy(t) \/ transfer(t)
    \/ complete(t) \/ probe(t) \/ block_register(t)

Next ==
    \/ \E t \in Task : Step(t) \/ block_request(t) \/ choose_next(t) \/ dispatch_stale(t)
    \/ \E d \in Disk : Drive(d)
    \/ ide_interrupt

Spec == Init /\ [][Next]_vars

\* A task runs again and again (module Kernel), however often it is
\* interrupted; a drive ends its command; interrupts are served.
FairSpec ==
    /\ Spec
    /\ \A t \in Task : SF_vars(Step(t) \/ dispatch_stale(t))
    /\ \A d \in Disk : WF_vars(Drive(d))
    /\ WF_vars(ide_interrupt)
---------------------------------------------------------------------------
(* Properties.                                                             *)

PC == {"user", "down", "sema_rw", "idle1", "select", "idle2", "sector", "cmd",
       "wait", "sema_wait", "poll", "transfer", "ok", "fail"}

RequestType == {NoRequest} \cup [op : {"identify"}, disk : Disk, sector : {0}]
                           \cup [op : {"read", "write"}, disk : Disk, sector : Sectors]

DriveType == [state : {"idle", "failed", "busy", "drq", "storing"},
              op : {"none", "identify", "read", "write"}, sector : Nat]

\* The kind of every variable.  A drive is never asked for a sector it does
\* not have, as valid_sector_no keeps what block_register was given; two tasks
\* on the channel may mix their addresses.
TypeOK ==
    /\ pc \in [Task -> PC]
    /\ req \in [Task -> RequestType]
    /\ left \in [Task -> Nat]
    /\ value \in [Sem -> Nat] /\ waiting \in [Sem -> SUBSET Task]
    /\ next \in [Task -> Task \cup {NULL}]
    /\ lba \in 0 .. 2^24 - 1 /\ device \in 0 .. 255
    /\ drive \in [Disk -> DriveType]
    /\ \A d \in Disk : disturbed \/ drive[d].sector < Capacity[d]
    /\ irq \in BOOLEAN /\ there \in [Disk -> Kinds]
    /\ is_ata_disk \in [Disk -> BOOLEAN]
    /\ nr_sectors \in [Disk -> Nat] /\ probed \in 0 .. 2
    /\ woken \in Nat /\ stray \in BOOLEAN /\ disturbed \in BOOLEAN

\* As long as schedule has not dispatched a sleeping task, sema_rw admits one
\* task to the channel until a task has had to wait for it.  A waiter does not
\* take the unit it is woken for, so each contended use admits one task more.
OneUser == stray \/ Cardinality(Users) <= 1 + woken

\* The last command of t's disk is the one t gave.
Own(t) == /\ drive[req[t].disk].op = req[t].op
          /\ drive[req[t].disk].sector = req[t].sector

\* When ide_read, ide_write or identify_ata_device moves data, the selected
\* drive is the one asked for, and it offers or takes that very sector: all 28
\* bits of the address arrive, and no interrupt of an earlier command lets the
\* task read too early.
TransfersOwnSector ==
    \A t \in Task : pc[t] = "transfer" /\ ~disturbed =>
        /\ Selected = req[t].disk
        /\ DRQ(Selected) /\ Own(t)

\* ide_init finds what is there: a command is only ever given to an ATA drive,
\* and once ide_init has passed an ATA drive it has identified it, unless the
\* drive failed the command.
FindsDrives ==
    \A d \in Disk :
        /\ drive[d].op # "none" => there[d] = "ata"
        /\ d < probed /\ there[d] = "ata" /\ ~disturbed =>
              nr_sectors[d] = Capacity[d] \/ Is("failed", d)

\* An error is returned only when the drive has failed that very command.
ErrorsReal ==
    \A t \in Task : pc[t] = "fail" /\ ~disturbed =>
        Is("failed", req[t].disk) /\ Own(t)

\* Every request returns, whatever the drives answer, and so does ide_init.
RequestsReturn == \A t \in Task : pc[t] # "user" ~> (pc[t] = "user" \/ disturbed)

\* devices/ide.c:380 waits `for interrupt from ada adaptor signaling the
\* completion of write': when ide_write returns, the drive has stored the data.
WriteCompletes ==
    \A t \in Task : pc[t] = "ok" /\ req[t].op = "write" /\ ~disturbed =>
        ~Is("storing", req[t].disk)
=============================================================================
