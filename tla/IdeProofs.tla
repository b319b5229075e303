----------------------------- MODULE IdeProofs -----------------------------
(***************************************************************************)
(* What holds of the disk channel for every set of tasks, any requests and *)
(* any two drives.                                                         *)
(***************************************************************************)
EXTENDS Ide, FiniteSetTheorems, TLAPS

Active(t)  == pc[t] \notin {"user", "down", "sema_rw"}
Serves(t)  == req[t].op \in {"read", "write"}

\* A task that has selected its disk.
HasSelected(t) == pc[t] \in {"idle2", "sector", "cmd", "wait", "sema_wait", "poll",
                             "transfer", "ok", "fail"}

\* A request belongs to the statement its task is at: main identifies the disk
\* that is probed, and afterwards disks that are registered are read and written.
RequestOK(t) ==
    /\ pc[t] = "user" <=> req[t].op = "none"
    /\ req[t].op = "identify" =>
          /\ t = Main /\ probed \in Disk /\ req[t].disk = probed
          /\ is_ata_disk[probed]
          /\ pc[t] \notin {"down", "sema_rw", "sector"}
    /\ Serves(t) =>
          /\ probed \notin Disk
          /\ nr_sectors[req[t].disk] = Capacity[req[t].disk]
          /\ req[t].sector < Capacity[req[t].disk]

\* What ide_init has found of the disks up to `probed'.
DisksOK ==
    \A d \in Disk :
        /\ is_ata_disk[d] => there[d] = "ata"
        /\ nr_sectors[d] \in {0, Capacity[d]}
        /\ nr_sectors[d] # 0 => there[d] = "ata"
        /\ d >= probed /\ there[d] = "ata" => is_ata_disk[d]

\* Only ATA drives are selected, and given commands.
SelectionOK ==
    /\ \A t \in Task : HasSelected(t) => there[Selected] = "ata"
    /\ \A d \in Disk : drive[d].op # "none" => there[d] = "ata"

\* Whoever waits sleeps in the sema_down it called.
SleepOK == \A s \in Sem : \A t \in waiting[s] : pc[t] = s

\* The tasks that use the channel or were woken to use it.
Admitted == {t \in Task : Serves(t) /\ pc[t] # "down" /\ t \notin waiting["sema_rw"]}

\* Every unit of sema_rw is there, or in use; sema_up makes one for each task it
\* wakes.
UnitsOK == /\ IsFiniteSet(Admitted)
           /\ value["sema_rw"] + Cardinality(Admitted) = 1 + woken

\* While no poll gave up and no second task was let in: one task is on the
\* channel, its disk is selected, and the drive executes its command.
Alone == \A t, u \in Task : Active(t) /\ Active(u) => t = u

Free(d) == ~BSY(d) /\ ~DRQ(d)

CommandOK(t) ==
    /\ HasSelected(t) => Selected = req[t].disk
    /\ pc[t] \in {"sector", "cmd"} => Free(Selected)
    /\ pc[t] = "cmd" /\ Serves(t) => Addressed = req[t].sector
    /\ pc[t] = "poll" \/ (pc[t] \in {"wait", "sema_wait"} /\ req[t].op # "write") =>
          /\ Own(t)
          /\ \/ Is("busy", Selected) \/ DRQ(Selected) \/ Is("failed", Selected)
    /\ pc[t] = "transfer" => Own(t) /\ DRQ(Selected)
    /\ pc[t] = "fail" => Own(t) /\ Is("failed", Selected)

FoundOK ==
    \A d \in Disk : d < probed /\ there[d] = "ata" =>
        nr_sectors[d] = Capacity[d] \/ Is("failed", d)

ChannelOK == ~disturbed => Alone /\ (\A t \in Task : CommandOK(t)) /\ FoundOK

\* The last two are lost with the first sleeping task that is dispatched.
IInv == /\ TypeOK /\ (\A t \in Task : RequestOK(t)) /\ DisksOK /\ SelectionOK
        /\ ChannelOK
        /\ stray \/ (SleepOK /\ UnitsOK)
---------------------------------------------------------------------------
(* The address registers: what is written is what the drive decodes.       *)

LEMMA DeviceOfDisk ==
    ASSUME NEW d \in Disk
    PROVE  /\ 160 + 16 * d \in 0 .. 255
           /\ ((160 + 16 * d) \div 16) % 2 = d
  BY SMT DEF Disk

LEMMA DeviceOfSector ==
    ASSUME NEW d \in Disk, NEW h \in 0 .. 15
    PROVE  /\ 160 + 64 + 16 * d + h \in 0 .. 255
           /\ ((160 + 64 + 16 * d + h) \div 16) % 2 = d
  BY SMT DEF Disk

LEMMA SectorSplits ==
    ASSUME NEW d \in Disk, NEW n \in Nat, n < 2^28
    PROVE  /\ n \div 2^24 \in 0 .. 15 /\ n % 2^24 \in 0 .. 2^24 - 1
           /\ (n % 2^24) + ((160 + 64 + 16 * d + n \div 2^24) % 16) * 2^24 = n
  BY SMT DEF Disk

LEMMA Capacities ==
    ASSUME NEW d \in Disk
    PROVE  /\ Capacity[d] \in Nat /\ 0 < Capacity[d] /\ Capacity[d] <= 2^28
           /\ \A n \in Nat : n < Capacity[d] => n < 2^28
<1>1. Capacity[d] \in 1 .. 2^28
  BY IdeAssumption, Zenon
<1>2. \A c \in 1 .. 2^28 : c \in Nat /\ 0 < c /\ c <= 2^28 /\ \A n \in Nat : n < c => n < 2^28
  BY SMT
<1> QED BY <1>1, <1>2, Zenon

LEMMA AddressIsNat ==
    ASSUME NEW l \in 0 .. 2^24 - 1, NEW v \in 0 .. 255
    PROVE  l + (v % 16) * 2^24 \in Nat /\ (v \div 16) % 2 \in Disk
  BY SMT DEF Disk

LEMMA Registers ==
    ASSUME TypeOK
    PROVE  Selected \in Disk /\ Addressed \in Nat
<1>1. lba \in 0 .. 2^24 - 1 /\ device \in 0 .. 255
  BY DEF TypeOK
<1>2. /\ lba + (device % 16) * 2^24 \in Nat
      /\ (device \div 16) % 2 \in Disk
  BY <1>1, AddressIsNat, Zenon
<1> QED BY <1>2, Zenon DEF Selected, Addressed, DEV_DEV

LEMMA Types ==
    ASSUME TypeOK, NEW t \in Task
    PROVE  /\ pc[t] \in PC
           /\ req[t].op \in {"none", "identify", "read", "write"}
           /\ req[t].disk \in Disk /\ req[t].sector \in Nat
           /\ req[t].op = "identify" => req[t].sector = 0
<1>1. req[t] \in RequestType
  BY DEF TypeOK
<1>2. NoRequest.op = "none" /\ NoRequest.disk \in Disk /\ NoRequest.sector \in Nat
  BY DEF NoRequest, Request, Disk
<1>3. Sectors \subseteq Nat
  BY IdeAssumption
<1>4. pc[t] \in PC
  BY DEF TypeOK
<1>5. CASE req[t] = NoRequest
  BY <1>2, <1>4, <1>5
<1>6. CASE req[t] \in [op : {"identify"}, disk : Disk, sector : {0}]
  BY <1>4, <1>6
<1>7. CASE req[t] \in [op : {"read", "write"}, disk : Disk, sector : Sectors]
  BY <1>3, <1>4, <1>7
<1> QED BY <1>1, <1>5, <1>6, <1>7 DEF RequestType

---------------------------------------------------------------------------
(* Detection: an ATA disk is what ide_init takes for one, and it takes all  *)
(* of them.                                                                *)

LEMMA Identified ==
    ASSUME NEW d \in Disk, there \in [Disk -> Kinds], NEW s \in Signatures(d)
    PROVE  is_ata(d, s) <=> there[d] = "ata"
<1>1. CASE there[d] = "ata"
  BY <1>1 DEF Signatures, Shows, Diagnoses, is_ata, passed, Disk
<1>2. CASE there[d] = "packet"
  BY <1>2 DEF Signatures, Shows, Diagnoses, is_ata, passed
<1>3. CASE there[d] = "none"
  BY <1>3 DEF Signatures, Shows, Diagnoses, is_ata, passed
<1> QED BY <1>1, <1>2, <1>3 DEF Kinds

\* An ATA disk 1 is looked at, as disk 0 then does not say that it failed.
LEMMA Detected ==
    ASSUME there \in [Disk -> Kinds],
           NEW s0 \in Signatures(0), NEW s1 \in Signatures(1),
           detect([d \in Disk |-> IF d = 0 THEN s0 ELSE s1])
    PROVE  /\ is_ata_disk \in [Disk -> BOOLEAN]
           /\ \A d \in Disk : is_ata_disk[d] <=> there[d] = "ata"
           /\ device \in 0 .. 255
<1> DEFINE s == [d \in Disk |-> IF d = 0 THEN s0 ELSE s1]
<1>1. s[0] = s0 /\ s[1] = s1
  BY DEF Disk
<1>2. is_ata(0, s[0]) <=> there[0] = "ata"
  BY <1>1, Identified DEF Disk
<1>3. is_ata(1, s[1]) <=> there[1] = "ata"
  BY <1>1, Identified DEF Disk
<1>4. there[1] = "ata" => check_disk_type(0, s[0])
  <2> SUFFICES ASSUME there[1] = "ata" PROVE s0.error # 129
    BY <1>1 DEF check_disk_type
  <2>1. CASE there[0] = "ata"
    BY <2>1 DEF Signatures, Shows, Diagnoses
  <2>2. CASE there[0] = "packet"
    BY <2>2 DEF Signatures, Shows, Diagnoses
  <2>3. CASE there[0] = "none"
    BY <2>3 DEF Signatures, Shows
  <2> QED BY <2>1, <2>2, <2>3 DEF Kinds, Disk
<1>5. /\ is_ata_disk = [d \in Disk |-> (d = 0 \/ check_disk_type(0, s[0])) /\ is_ata(d, s[d])]
      /\ device = 160 + (IF check_disk_type(0, s[0]) THEN 16 ELSE 0)
  BY DEF detect, DEV_MBS, DEV_DEV
<1> HIDE DEF s
<1>6. is_ata_disk \in [Disk -> BOOLEAN]
  BY <1>5 DEF is_ata
<1>7. \A d \in Disk : is_ata_disk[d] <=> there[d] = "ata"
  BY <1>2, <1>3, <1>4, <1>5 DEF Disk
<1>8. device \in 0 .. 255
  BY <1>5
<1> QED BY <1>6, <1>7, <1>8

LEMMA NoRequestIs ==
    /\ NoRequest.op = "none" /\ NoRequest.disk = 0 /\ NoRequest.sector = 0
    /\ \A op, d, n : /\ Request(op, d, n).op = op
                     /\ Request(op, d, n).disk = d
                     /\ Request(op, d, n).sector = n
  BY DEF NoRequest, Request

\* The values the steps make have the kinds of TypeOK.
LEMMA Made ==
    /\ NoRequest \in RequestType /\ IdleDrive \in DriveType
    /\ \A d \in Disk : Request("identify", d, 0) \in RequestType
    /\ \A op \in {"read", "write"}, d \in Disk, n \in Sectors :
           Request(op, d, n) \in RequestType
    /\ \A v \in DriveType, st \in {"idle", "failed", "busy", "drq", "storing"} :
           [v EXCEPT !.state = st] \in DriveType /\ [v EXCEPT !.state = st].sector = v.sector
    /\ \A op \in {"identify", "read", "write"}, n \in Nat :
           [state |-> "busy", op |-> op, sector |-> n] \in DriveType
  BY DEF RequestType, DriveType, Request, IdleDrive

LEMMA InitInv == Init => IInv
<1> SUFFICES ASSUME Init PROVE IInv
  OBVIOUS
<1>1. /\ is_ata_disk \in [Disk -> BOOLEAN]
      /\ \A d \in Disk : is_ata_disk[d] <=> there[d] = "ata"
      /\ device \in 0 .. 255
  BY Detected DEF Init
<1>2. TypeOK
  <2>1. SemInit \in [Sem -> Nat]
    BY DEF SemInit, Sem
  <2>2. /\ value \in [Sem -> Nat] /\ waiting \in [Sem -> SUBSET Task]
    BY <2>1 DEF Init, Sema!Init
  <2>3. drive \in [Disk -> DriveType] /\ \A d \in Disk : drive[d].sector < Capacity[d]
    <3>1. IdleDrive \in DriveType /\ IdleDrive.sector = 0
      BY DEF IdleDrive, DriveType
    <3>2. \A d \in Disk : Capacity[d] \in Nat /\ 0 < Capacity[d]
      BY Capacities
    <3> QED BY <3>1, <3>2 DEF Init
  <2>4. pc \in [Task -> PC] /\ left \in [Task -> Nat]
    BY IdeAssumption DEF Init, PC
  <2>5. req \in [Task -> RequestType]
    BY DEF Init, RequestType
  <2>6. /\ lba = 0 /\ irq = FALSE /\ there \in [Disk -> Kinds]
        /\ nr_sectors = [d \in Disk |-> 0] /\ probed = 0
        /\ woken = 0 /\ disturbed = FALSE
    BY Zenon DEF Init
  <2>7. 0 \in 0 .. 2^24 - 1
    BY SMT
  <2>8. lba \in 0 .. 2^24 - 1
    BY <2>6, <2>7, Zenon
  <2>9. irq \in BOOLEAN /\ disturbed \in BOOLEAN
    BY <2>6, Zenon
  <2>10. nr_sectors \in [Disk -> Nat] /\ probed \in 0 .. 2 /\ woken \in Nat
    BY <2>6
  <2>11. next \in [Task -> Task \cup {NULL}] /\ stray \in BOOLEAN
    BY Zenon DEF Init
  <2> QED BY <1>1, <2>2, <2>3, <2>4, <2>5, <2>6, <2>8, <2>9, <2>10, <2>11, Zenon DEF TypeOK
<1>3. \A t \in Task : RequestOK(t)
  BY NoRequestIs DEF Init, RequestOK, Serves
<1>4. DisksOK
  BY <1>1 DEF Init, DisksOK
<1>5. SelectionOK
  BY DEF Init, SelectionOK, HasSelected, IdleDrive
<1>6. SleepOK
  BY DEF Init, SleepOK, Sema!Init
<1>7. UnitsOK
  <2>1. Admitted = {}
    BY NoRequestIs DEF Init, Admitted, Serves
  <2>2. value["sema_rw"] = 1 /\ woken = 0
    BY DEF Init, Sema!Init, SemInit, Sem
  <2> QED BY <2>1, <2>2, FS_EmptySet DEF UnitsOK
<1>8. ChannelOK
  BY DEF Init, ChannelOK, Alone, Active, CommandOK, HasSelected, FoundOK, Disk
<1> QED BY <1>2, <1>3, <1>4, <1>5, <1>6, <1>7, <1>8 DEF IInv

---------------------------------------------------------------------------
(* The invariant holds after every step, one conjunct at a time.           *)

LEMMA Facts ==
    ASSUME IInv, NEW t \in Task
    PROVE  /\ TypeOK /\ RequestOK(t) /\ DisksOK /\ SelectionOK
           /\ ~stray => SleepOK /\ UnitsOK
           /\ pc[t] \in PC
           /\ req[t].op \in {"none", "identify", "read", "write"}
           /\ req[t].disk \in Disk /\ req[t].sector \in Nat
           /\ req[t].op = "identify" => req[t].sector = 0
           /\ Selected \in Disk /\ Addressed \in Nat
           /\ ~disturbed => CommandOK(t) /\ Alone /\ FoundOK
  BY Types, Registers DEF IInv, ChannelOK

\* After a sleeping task has been dispatched, no task goes on.
LEMMA Awake ==
    ASSUME NEW t \in Task, Step(t) \/ block_request(t)
    PROVE  ~stray
  BY DEF Step, block_request, sema_down_rw, wait_until_idle, select_disk, select_sector,
         issue_pio_cmd, sema_down_wait, Down, wait_while_busy, transfer, complete, probe,
         block_register, Goto

LEMMA Typing ==
    ASSUME TypeOK
    PROVE  /\ pc \in [Task -> PC] /\ req \in [Task -> RequestType] /\ left \in [Task -> Nat]
           /\ value \in [Sem -> Nat] /\ waiting \in [Sem -> SUBSET Task]
           /\ next \in [Task -> Task \cup {NULL}]
           /\ drive \in [Disk -> DriveType] /\ nr_sectors \in [Disk -> Nat]
           /\ probed \in 0 .. 2 /\ woken \in Nat /\ disturbed \in BOOLEAN
  BY DEF TypeOK

LEMMA Returned ==
    ASSUME TypeOK, NEW t \in Task, NEW from, Goto(t, from, "user")
    PROVE  req' \in [Task -> RequestType] /\ req' = [req EXCEPT ![t] = NoRequest]
<1>1. NoRequest \in RequestType
  BY Made
<1> QED BY <1>1, Typing DEF Goto

\* A drive changes its state and keeps its command, or forgets it.
LEMMA Changed ==
    ASSUME TypeOK, NEW d \in Disk,
           NEW st \in {"idle", "failed", "busy", "drq", "storing"}, To(d, st)
    PROVE  /\ drive' \in [Disk -> DriveType]
           /\ \A e \in Disk : disturbed \/ drive'[e].sector < Capacity[e]
<1>1. drive[d] \in DriveType /\ drive \in [Disk -> DriveType]
  BY DEF TypeOK
<1>2. CASE st = "idle"
  <2>1. IdleDrive \in DriveType /\ IdleDrive.sector = 0
    BY DEF IdleDrive, DriveType
  <2>2. drive' = [drive EXCEPT ![d] = IdleDrive]
    BY <1>2 DEF To
  <2>3. \A e \in Disk : drive'[e] = IF e = d THEN IdleDrive ELSE drive[e]
    BY <1>1, <2>2
  <2>4. drive' \in [Disk -> DriveType]
    BY <1>1, <2>1, <2>2
  <2> QED BY <2>1, <2>3, <2>4, Capacities DEF TypeOK
<1>3. CASE st # "idle"
  <2> DEFINE v == [drive[d] EXCEPT !.state = st]
  <2>1. v \in DriveType /\ v.sector = drive[d].sector
    BY <1>1, Made
  <2>2. drive' = [drive EXCEPT ![d] = v]
    BY <1>3 DEF To
  <2> HIDE DEF v
  <2>3. \A e \in Disk : drive'[e] = IF e = d THEN v ELSE drive[e]
    BY <1>1, <2>2
  <2>4. drive' \in [Disk -> DriveType]
    BY <1>1, <2>1, <2>2
  <2> QED BY <2>1, <2>3, <2>4 DEF TypeOK
<1> QED BY <1>2, <1>3

LEMMA TypeStep ==
    ASSUME IInv, NEW t \in Task, Step(t) \/ block_request(t)
    PROVE  TypeOK'
<1>0. /\ RequestOK(t) /\ Selected \in Disk /\ Addressed \in Nat
      /\ req[t].op \in {"none", "identify", "read", "write"}
      /\ req[t].disk \in Disk /\ req[t].sector \in Nat
      /\ ~disturbed => CommandOK(t)
  BY Facts
<1>t. TypeOK
  BY DEF IInv
<1> USE <1>t
<1>1. CASE sema_down_rw(t)
  <2>1. /\ pc' \in [Task -> PC] /\ UNCHANGED req
        /\ value' \in [Sem -> Nat] /\ waiting' \in [Sem -> SUBSET Task]
        /\ disturbed' \in BOOLEAN /\ (disturbed => disturbed')
    BY <1>1, Typing DEF sema_down_rw, Down, Goto, Sema!Take, Sema!Sleep, PC, Sem, semas
  <2> QED BY <1>1, <2>1 DEF sema_down_rw, Down, Goto, TypeOK, disks
<1>2. CASE wait_until_idle(t)
  BY <1>2 DEF wait_until_idle, Goto, TypeOK, PC, Sem, semas, disks
<1>3. CASE select_disk(t)
  <2>1. device' \in 0 .. 255
    BY <1>0, <1>3 DEF select_disk, DEV_MBS, DEV_DEV, Disk
  <2> QED BY <1>3, <2>1 DEF select_disk, Goto, TypeOK, PC, Sem, semas, disks, history
<1>4. CASE select_sector(t)
  <2>1. req[t].sector \in Nat /\ req[t].sector < 2^28
    BY <1>0, <1>4, Capacities DEF select_sector, Goto, RequestOK, Serves
  <2>2. /\ req[t].sector \div 2^24 \in 0 .. 15
        /\ req[t].sector % 2^24 \in 0 .. 2^24 - 1
    BY <1>0, <2>1, SectorSplits, Zenon
  <2>3. lba' \in 0 .. 2^24 - 1
    BY <1>4, <2>2, Zenon DEF select_sector
  <2>4. device' \in 0 .. 255
    BY <1>0, <1>4, <2>2 DEF select_sector, high_bits, DEV_MBS, DEV_LBA, DEV_DEV, Disk
  <2> QED BY <1>4, <2>3, <2>4 DEF select_sector, Goto, TypeOK, PC, semas, disks, history
<1>5. CASE issue_pio_cmd(t)
  <2>1. pc' \in [Task -> PC] /\ UNCHANGED req
    BY <1>5, Typing DEF issue_pio_cmd, Goto, PC
  <2>2. drive' \in [Disk -> DriveType]
    BY <1>0, <1>5, Typing, Made DEF issue_pio_cmd, Goto, RequestOK
  <2>3. \A d \in Disk : disturbed' \/ drive'[d].sector < Capacity[d]
    BY <1>0, <1>5, Capacities
       DEF issue_pio_cmd, Goto, history, TypeOK, RequestOK, CommandOK, Serves, HasSelected
  <2> QED BY <1>5, <2>1, <2>2, <2>3 DEF issue_pio_cmd, Goto, TypeOK, semas, disks, history
<1>6. CASE sema_down_wait(t)
  <2>1. /\ pc' \in [Task -> PC] /\ UNCHANGED req
        /\ value' \in [Sem -> Nat] /\ waiting' \in [Sem -> SUBSET Task]
        /\ disturbed' \in BOOLEAN /\ (disturbed => disturbed')
    BY <1>6, Typing DEF sema_down_wait, Down, Goto, Sema!Take, Sema!Sleep, PC, Sem, semas
  <2> QED BY <1>6, <2>1 DEF sema_down_wait, Down, Goto, TypeOK, disks
<1>7. CASE wait_while_busy(t)
  BY <1>7 DEF wait_while_busy, Goto, TypeOK, PC, Sem, semas, disks
<1>8. CASE transfer(t)
  <2>0. UNCHANGED drive \/ To(Selected, "storing") \/ To(Selected, "idle")
    BY <1>8 DEF transfer
  <2>1. drive' \in [Disk -> DriveType]
    BY <1>0, <2>0, Typing, Changed
  <2>3. \A d \in Disk : disturbed \/ drive'[d].sector < Capacity[d]
    BY <1>0, <2>0, Changed DEF TypeOK
  <2>2. \A d \in Disk : disturbed' \/ drive'[d].sector < Capacity[d]
    BY <1>8, <2>3 DEF transfer, history
  <2> QED BY <1>8, <2>1, <2>2 DEF transfer, Goto, TypeOK, PC, semas, disks, history
<1>9. CASE complete(t)
  <2>1. /\ value' \in [Sem -> Nat] /\ waiting' \in [Sem -> SUBSET Task] /\ woken' \in Nat
    BY <1>9, Typing DEF complete, give_back, raise_rw, Sema!Raise, Sem
  <2>2. pc' \in [Task -> PC] /\ req' \in [Task -> RequestType]
    BY <1>9, Typing, Returned DEF complete, Goto, PC
  <2> QED BY <1>9, <2>1, <2>2 DEF complete, Goto, TypeOK, disks
<1>10. CASE probe(t)
  <2>1. pc' \in [Task -> PC] /\ probed' \in 0 .. 2
    BY <1>10, Typing DEF probe, PC, Disk
  <2>2. req' \in [Task -> RequestType]
    <3>1. Request("identify", probed, 0) \in RequestType
      BY <1>10, Made DEF probe
    <3> QED BY <1>10, <3>1, Typing DEF probe
  <2> QED BY <1>10, <2>1, <2>2 DEF probe, TypeOK, semas, history
<1>11. CASE block_register(t)
  <2>1. /\ pc' \in [Task -> PC] /\ req' \in [Task -> RequestType]
        /\ UNCHANGED <<left, irq>>
    BY <1>11, Typing, Returned DEF block_register, Goto, PC
  <2>2. probed \in Disk /\ probed' \in 0 .. 2
    BY <1>0, <1>11, Typing DEF block_register, RequestOK, Disk
  <2>3. nr_sectors' \in [Disk -> Nat] /\ is_ata_disk' \in [Disk -> BOOLEAN]
    BY <1>11, <2>2, Capacities DEF block_register, TypeOK
  <2> QED BY <1>11, <2>1, <2>2, <2>3 DEF block_register, TypeOK, semas, history
<1>12. CASE block_request(t)
  <2>1. pc' \in [Task -> PC] /\ left' \in [Task -> Nat]
    BY <1>12, Typing DEF block_request, PC
  <2>2. req' \in [Task -> RequestType]
    <3>1. PICK op \in {"read", "write"}, d \in Disk, n \in Sectors :
             req' = [req EXCEPT ![t] = Request(op, d, n)]
      BY <1>12 DEF block_request
    <3>2. Request(op, d, n) \in RequestType
      BY Made
    <3> QED BY <3>1, <3>2, Typing
  <2> QED BY <1>12, <2>1, <2>2 DEF block_request, TypeOK, semas, disks, history
<1> QED BY <1>1, <1>2, <1>3, <1>4, <1>5, <1>6, <1>7, <1>8, <1>9, <1>10, <1>11, <1>12
        DEF Step

LEMMA Forgets ==
    ASSUME TypeOK, NEW d \in Disk, NEW st, To(d, st)
    PROVE  /\ \A e \in Disk : drive'[e].op \in {drive[e].op, "none"}
           /\ \A e \in Disk : e # d => drive'[e] = drive[e]
           /\ drive'[d].state = st
           /\ st # "idle" => drive'[d].op = drive[d].op /\ drive'[d].sector = drive[d].sector
<1>1. drive[d] \in DriveType /\ drive \in [Disk -> DriveType]
  BY DEF TypeOK
<1>2. \A e \in Disk : e # d => drive'[e] = drive[e]
  BY <1>1 DEF To
<1>3. CASE st = "idle"
  BY <1>1, <1>2, <1>3 DEF To, IdleDrive
<1>4. CASE st # "idle"
  BY <1>1, <1>2, <1>4 DEF To, DriveType
<1> QED BY <1>3, <1>4

LEMMA DriveTypes ==
    ASSUME TypeOK, NEW d \in Disk, Drive(d)
    PROVE  TypeOK'
<1>1. To(d, "drq") \/ To(d, "idle") \/ To(d, "failed")
  BY DEF Drive
<1>2. /\ drive' \in [Disk -> DriveType]
      /\ \A e \in Disk : disturbed \/ drive'[e].sector < Capacity[e]
  BY <1>1, Changed
<1>3. irq' \in BOOLEAN
  BY DEF Drive, TypeOK
<1> QED BY <1>2, <1>3 DEF Drive, TypeOK, semas, disks, history

LEMMA InterruptTypes ==
    ASSUME TypeOK, ide_interrupt
    PROVE  TypeOK'
<1>1. value' \in [Sem -> Nat] /\ waiting' \in [Sem -> SUBSET Task]
  BY Typing DEF ide_interrupt, Sema!Raise, Sem
<1> QED BY <1>1 DEF ide_interrupt, TypeOK, disks, history

---------------------------------------------------------------------------
(* What a step of a task is, and what it leaves alone.                     *)

LEMMA Moves ==
    ASSUME TypeOK, NEW t \in Task, Step(t) \/ block_request(t)
    PROVE  /\ \A u \in Task : u # t => pc'[u] = pc[u] /\ req'[u] = req[u]
           /\ UNCHANGED there
<1>1. CASE sema_down_rw(t)
  BY <1>1 DEF sema_down_rw, Down, Goto, TypeOK, disks
<1>2. CASE wait_until_idle(t)
  BY <1>2 DEF wait_until_idle, Goto, TypeOK, disks
<1>3. CASE select_disk(t)
  BY <1>3 DEF select_disk, Goto, TypeOK, disks
<1>4. CASE select_sector(t)
  BY <1>4 DEF select_sector, Goto, TypeOK, disks
<1>5. CASE issue_pio_cmd(t)
  BY <1>5 DEF issue_pio_cmd, Goto, TypeOK, disks
<1>6. CASE sema_down_wait(t)
  BY <1>6 DEF sema_down_wait, Down, Goto, TypeOK, disks
<1>7. CASE wait_while_busy(t)
  BY <1>7 DEF wait_while_busy, Goto, TypeOK, disks
<1>8. CASE transfer(t)
  BY <1>8 DEF transfer, Goto, TypeOK, disks
<1>9. CASE complete(t)
  BY <1>9 DEF complete, Goto, TypeOK, disks
<1>10. CASE probe(t)
  BY <1>10 DEF probe, TypeOK
<1>11. CASE block_register(t)
  BY <1>11 DEF block_register, Goto, TypeOK
<1>12. CASE block_request(t)
  BY <1>12 DEF block_request, TypeOK, disks
<1> QED BY <1>1, <1>2, <1>3, <1>4, <1>5, <1>6, <1>7, <1>8, <1>9, <1>10, <1>11, <1>12
        DEF Step

\* A step inside a request, which changes neither the request nor the disks.
Within(t) ==
    \/ sema_down_rw(t) \/ wait_until_idle(t) \/ select_disk(t) \/ select_sector(t)
    \/ issue_pio_cmd(t) \/ sema_down_wait(t) \/ wait_while_busy(t) \/ transfer(t)

LEMMA WithinKeeps ==
    ASSUME IInv, NEW t \in Task, Within(t)
    PROVE  /\ UNCHANGED req /\ UNCHANGED disks
           /\ pc[t] # "user" /\ pc'[t] # "user" /\ pc'[t] # "down"
           /\ pc'[t] \in {"sema_rw", "sector"} => Serves(t)
           /\ pc' = [pc EXCEPT ![t] = pc'[t]]
<1>1. RequestOK(t) /\ TypeOK /\ req[t].op \in {"none", "identify", "read", "write"}
  BY Facts
<1>2. CASE sema_down_rw(t)
  BY <1>1, <1>2 DEF sema_down_rw, Down, Goto, TypeOK, Serves
<1>3. CASE wait_until_idle(t)
  BY <1>1, <1>3 DEF wait_until_idle, Goto, TypeOK, RequestOK, Serves
<1>4. CASE select_disk(t) \/ select_sector(t) \/ issue_pio_cmd(t) \/ transfer(t)
  BY <1>1, <1>4 DEF select_disk, select_sector, issue_pio_cmd, transfer, Goto, TypeOK
<1>5. CASE sema_down_wait(t)
  BY <1>1, <1>5 DEF sema_down_wait, Down, Goto, TypeOK
<1>6. CASE wait_while_busy(t)
  BY <1>1, <1>6 DEF wait_while_busy, Goto, TypeOK
<1> QED BY <1>2, <1>3, <1>4, <1>5, <1>6 DEF Within

LEMMA RequestStep ==
    ASSUME IInv, NEW t \in Task, Step(t) \/ block_request(t)
    PROVE  \A u \in Task : RequestOK(u)'
<1> SUFFICES ASSUME NEW u \in Task PROVE RequestOK(u)'
  OBVIOUS
<1>1. /\ RequestOK(t) /\ RequestOK(u) /\ TypeOK /\ DisksOK
      /\ req[t].op \in {"none", "identify", "read", "write"} /\ req[t].disk \in Disk
      /\ req[u].op \in {"none", "identify", "read", "write"} /\ req[u].disk \in Disk
  BY Facts
<1>2. u # t => pc'[u] = pc[u] /\ req'[u] = req[u]
  BY <1>1, Moves
<1>3. CASE Within(t)
  BY <1>1, <1>3, WithinKeeps DEF RequestOK, Serves, disks, TypeOK
<1>4. CASE complete(t)
  BY <1>1, <1>2, <1>4, Returned, NoRequestIs DEF complete, Goto, RequestOK, Serves, disks, TypeOK
<1>5. CASE probe(t)
  BY <1>1, <1>2, <1>5, NoRequestIs DEF probe, RequestOK, Serves, TypeOK
<1>6. CASE block_register(t)
  BY <1>1, <1>2, <1>6, Returned, NoRequestIs DEF block_register, Goto, RequestOK, Serves, TypeOK
<1>7. CASE block_request(t)
  <2>1. PICK op \in {"read", "write"}, d \in Disk, n \in Sectors :
           valid_sector_no(d, n) /\ req' = [req EXCEPT ![t] = Request(op, d, n)]
    BY <1>7 DEF block_request
  <2>2. req'[t].op = op /\ req'[t].disk = d /\ req'[t].sector = n
    BY <1>1, <2>1, NoRequestIs DEF TypeOK
  <2>3. n \in Nat /\ nr_sectors[d] = Capacity[d] /\ n < Capacity[d]
    <3>1. n \in Nat
      BY IdeAssumption, Zenon
    <3>2. nr_sectors[d] \in {0, Capacity[d]} /\ n < nr_sectors[d]
      BY <1>1, <2>1 DEF valid_sector_no, DisksOK
    <3> QED BY <3>1, <3>2
  <2>4. /\ pc' = [pc EXCEPT ![t] = "down"] /\ UNCHANGED disks /\ probed \notin Disk
    BY <1>7 DEF block_request
  <2> QED BY <1>1, <1>2, <2>1, <2>2, <2>3, <2>4 DEF RequestOK, Serves, disks, TypeOK
<1> QED BY <1>3, <1>4, <1>5, <1>6, <1>7 DEF Step, Within

LEMMA DisksStep ==
    ASSUME IInv, NEW t \in Task, Step(t) \/ block_request(t)
    PROVE  DisksOK'
<1>1. RequestOK(t) /\ TypeOK /\ DisksOK
  BY Facts
<1>2. CASE Within(t)
  BY <1>1, <1>2, WithinKeeps DEF disks, DisksOK
<1>3. CASE complete(t) \/ block_request(t)
  BY <1>1, <1>3 DEF complete, block_request, disks, DisksOK
<1>4. CASE probe(t)
  BY <1>1, <1>4 DEF probe, DisksOK, Disk, TypeOK
<1>5. CASE block_register(t)
  <2>1. \A d \in Disk : Capacity[d] \in Nat /\ Capacity[d] # 0
    BY Capacities
  <2>2. probed \in Disk /\ there[probed] = "ata" /\ probed' = probed + 1
    BY <1>1, <1>5 DEF block_register, RequestOK, DisksOK
  <2>3. /\ nr_sectors' \in {nr_sectors, [nr_sectors EXCEPT ![probed] = Capacity[probed]]}
        /\ is_ata_disk' \in {is_ata_disk, [is_ata_disk EXCEPT ![probed] = FALSE]}
        /\ UNCHANGED there
    BY <1>5 DEF block_register
  <2>4. \A d \in Disk : d >= probed' => d >= probed /\ d # probed
    BY <2>2 DEF Disk
  <2>5. /\ nr_sectors \in [Disk -> Nat] /\ is_ata_disk \in [Disk -> BOOLEAN]
    BY <1>1 DEF TypeOK
  <2>6. \A d \in Disk : /\ nr_sectors'[d] \in {0, Capacity[d]}
                        /\ nr_sectors'[d] # 0 => there[d] = "ata"
    BY <1>1, <2>1, <2>2, <2>3, <2>5 DEF DisksOK
  <2>7. \A d \in Disk : /\ is_ata_disk'[d] => is_ata_disk[d]
                        /\ d # probed => (is_ata_disk'[d] <=> is_ata_disk[d])
    BY <2>3, <2>5
  <2> QED BY <1>1, <2>2, <2>3, <2>4, <2>6, <2>7 DEF DisksOK
<1> QED BY <1>2, <1>3, <1>4, <1>5 DEF Step, Within

LEMMA Selects ==
    ASSUME IInv, NEW t \in Task
    PROVE  /\ select_disk(t) => Selected' = req[t].disk
           /\ select_sector(t) => /\ Selected' = req[t].disk
                                  /\ Addressed' = req[t].sector
<1>1. /\ RequestOK(t) /\ req[t].disk \in Disk /\ req[t].sector \in Nat
      /\ req[t].op \in {"none", "identify", "read", "write"}
  BY Facts
<1> DEFINE d == req[t].disk
           n == req[t].sector
<1>2. ASSUME select_disk(t) PROVE Selected' = req[t].disk
  <2>1. device' = 160 + 16 * d
    BY <1>2 DEF select_disk, DEV_MBS, DEV_DEV
  <2>2. Selected' = (device' \div 16) % 2
    BY Zenon DEF Selected, DEV_DEV
  <2> QED BY <1>1, <2>1, <2>2, DeviceOfDisk, Zenon
<1>3. ASSUME select_sector(t) PROVE Selected' = d /\ Addressed' = n
  <2>1. device' = 160 + 64 + 16 * d + n \div 2^24 /\ lba' = n % 2^24
    BY <1>3, Zenon DEF select_sector, DEV_MBS, DEV_LBA, DEV_DEV, high_bits
  <2>2. n < 2^28
    BY <1>1, <1>3, Capacities DEF select_sector, Goto, RequestOK, Serves
  <2>3. Selected' = (device' \div 16) % 2 /\ Addressed' = lba' + (device' % 16) * 2^24
    BY Zenon DEF Selected, Addressed, DEV_DEV
  <2>4. /\ n \div 2^24 \in 0 .. 15
        /\ (n % 2^24) + ((160 + 64 + 16 * d + n \div 2^24) % 16) * 2^24 = n
    <3>1. d \in Disk /\ n \in Nat
      BY <1>1
    <3> HIDE DEF d, n
    <3> QED BY <2>2, <3>1, SectorSplits, Zenon
  <2>5. Selected' = d
    BY <1>1, <2>1, <2>3, <2>4, DeviceOfSector, Zenon
  <2>6. Addressed' = n
    BY <2>1, <2>3, <2>4, Zenon
  <2> QED BY <2>5, <2>6
<1> QED BY <1>2, <1>3

LEMMA SelectionStep ==
    ASSUME IInv, NEW t \in Task, Step(t) \/ block_request(t)
    PROVE  SelectionOK'
<1>1. /\ RequestOK(t) /\ TypeOK /\ DisksOK /\ SelectionOK
      /\ req[t].op \in {"none", "identify", "read", "write"} /\ req[t].disk \in Disk
      /\ Selected \in Disk
  BY Facts
<1>2. pc[t] # "user" => there[req[t].disk] = "ata"
  BY <1>1, Capacities DEF RequestOK, DisksOK, Serves
<1>3. /\ \A u \in Task : u # t => pc'[u] = pc[u]
      /\ UNCHANGED there
  BY <1>1, Moves
<1>4. CASE select_disk(t) \/ select_sector(t)
  <2>1. there[Selected'] = "ata"
    BY <1>2, <1>4, Selects DEF select_disk, select_sector, Goto
  <2>2. UNCHANGED drive
    BY <1>4 DEF select_disk, select_sector
  <2> QED BY <1>1, <1>3, <2>1, <2>2 DEF SelectionOK
<1>5. CASE issue_pio_cmd(t)
  <2>1. pc[t] = "cmd" /\ there[Selected] = "ata" /\ UNCHANGED Selected
    BY <1>1, <1>5 DEF issue_pio_cmd, Goto, SelectionOK, HasSelected, Selected
  <2>2. \A d \in Disk : d # Selected => drive'[d] = drive[d]
    BY <1>1, <1>5 DEF issue_pio_cmd, TypeOK
  <2> QED BY <1>1, <1>3, <2>1, <2>2 DEF SelectionOK
<1>6. CASE transfer(t)
  <2>1. pc[t] = "transfer" /\ UNCHANGED Selected
    BY <1>6 DEF transfer, Goto, Selected
  <2>2. \A d \in Disk : drive'[d].op \in {drive[d].op, "none"}
    BY <1>1, <1>6, Forgets DEF transfer
  <2> QED BY <1>1, <1>3, <2>1, <2>2 DEF SelectionOK, HasSelected
<1>7. CASE sema_down_rw(t) \/ wait_until_idle(t) \/ sema_down_wait(t) \/ wait_while_busy(t)
  <2>1. UNCHANGED <<device, drive>> /\ (HasSelected(t)' => HasSelected(t))
    BY <1>1, <1>7
       DEF sema_down_rw, wait_until_idle, sema_down_wait, wait_while_busy, Down, Goto,
           HasSelected, TypeOK
  <2> QED BY <1>1, <1>3, <2>1 DEF SelectionOK, Selected, HasSelected
<1>8. CASE complete(t) \/ probe(t) \/ block_register(t) \/ block_request(t)
  <2>1. UNCHANGED <<device, drive>> /\ (HasSelected(t)' => HasSelected(t))
    BY <1>1, <1>8
       DEF complete, probe, block_register, block_request, Goto, HasSelected, TypeOK
  <2> QED BY <1>1, <1>3, <2>1 DEF SelectionOK, Selected, HasSelected
<1> QED BY <1>4, <1>5, <1>6, <1>7, <1>8 DEF Step

LEMMA SleepStep ==
    ASSUME IInv, NEW t \in Task, Step(t) \/ block_request(t)
    PROVE  SleepOK'
<1>1. /\ TypeOK /\ SleepOK
      /\ \A u \in Task : u # t => pc'[u] = pc[u]
  BY Facts, Awake, Moves
<1>2. CASE sema_down_rw(t) \/ sema_down_wait(t)
  <2>1. PICK s \in Sem : \E from, to : /\ Down(t, s, from, to) /\ from \notin Sem
    BY <1>2 DEF sema_down_rw, sema_down_wait, Sem
  <2>2. PICK from, to : Down(t, s, from, to) /\ from \notin Sem
    BY <2>1
  <2>3. CASE Goto(t, from, to) /\ Sema!Take(s)
    BY <1>1, <2>2, <2>3 DEF Goto, Sema!Take, SleepOK
  <2>4. CASE Goto(t, from, s) /\ Sema!Sleep(s, t)
    BY <1>1, <2>4 DEF Goto, Sema!Sleep, SleepOK, TypeOK
  <2>5. CASE Goto(t, s, to) /\ t \notin waiting[s] /\ UNCHANGED semas
    BY <1>1, <2>5 DEF Goto, semas, SleepOK
  <2> QED BY <2>2, <2>3, <2>4, <2>5 DEF Down
<1>3. CASE complete(t)
  <2>1. \A s \in Sem : waiting'[s] \subseteq waiting[s]
    BY <1>1, <1>3 DEF complete, give_back, raise_rw, Sema!Raise, TypeOK, Sem
  <2>2. pc[t] \notin Sem
    BY <1>3 DEF complete, Goto, Sem
  <2> QED BY <1>1, <2>1, <2>2 DEF SleepOK, TypeOK
<1>4. CASE ~(sema_down_rw(t) \/ sema_down_wait(t) \/ complete(t))
  <2>1. UNCHANGED waiting /\ pc[t] \notin Sem
    BY <1>4 DEF Step, wait_until_idle, select_disk, select_sector, issue_pio_cmd,
                wait_while_busy, transfer, probe, block_register, block_request, Goto, semas, Sem
  <2> QED BY <1>1, <2>1 DEF SleepOK, TypeOK
<1> QED BY <1>2, <1>3, <1>4

---------------------------------------------------------------------------
(* The units of sema_rw.                                                   *)

LEMMA UnitsKept ==
    ASSUME UnitsOK, Admitted' = Admitted, UNCHANGED <<value["sema_rw"], woken>>
    PROVE  UnitsOK'
  BY DEF UnitsOK

\* sema_down takes the unit that it finds.
LEMMA UnitTaken ==
    ASSUME TypeOK, UnitsOK, NEW t \in Task, t \notin Admitted,
           Admitted' = Admitted \cup {t}, value'["sema_rw"] = value["sema_rw"] - 1,
           UNCHANGED woken
    PROVE  UnitsOK'
<1>1. IsFiniteSet(Admitted \cup {t})
      /\ Cardinality(Admitted \cup {t}) = Cardinality(Admitted) + 1
  BY FS_AddElement DEF UnitsOK
<1>2. value["sema_rw"] \in Nat /\ woken \in Nat /\ Cardinality(Admitted) \in Nat
  BY FS_CardinalityType DEF TypeOK, Sem, UnitsOK
<1> QED BY <1>1, <1>2 DEF UnitsOK

\* sema_up raises the value whether or not it wakes a task u.
LEMMA UnitReturned ==
    ASSUME TypeOK, UnitsOK, NEW t \in Admitted,
           value'["sema_rw"] = value["sema_rw"] + 1,
           \/ Admitted' = Admitted \ {t} /\ UNCHANGED woken
           \/ /\ woken' = woken + 1
              /\ \E u \in Task : u \notin Admitted /\ Admitted' = (Admitted \ {t}) \cup {u}
    PROVE  UnitsOK'
<1>1. /\ IsFiniteSet(Admitted \ {t})
      /\ Cardinality(Admitted \ {t}) = Cardinality(Admitted) - 1
  BY FS_RemoveElement DEF UnitsOK
<1>2. /\ value["sema_rw"] \in Nat /\ woken \in Nat /\ Cardinality(Admitted) \in Nat
      /\ Cardinality(Admitted \ {t}) \in Nat
  BY <1>1, FS_CardinalityType DEF TypeOK, Sem, UnitsOK
<1>3. CASE Admitted' = Admitted \ {t} /\ UNCHANGED woken
  BY <1>1, <1>2, <1>3 DEF UnitsOK
<1>4. CASE /\ woken' = woken + 1
           /\ \E u \in Task : u \notin Admitted /\ Admitted' = (Admitted \ {t}) \cup {u}
  <2>1. PICK u \in Task : u \notin Admitted /\ Admitted' = (Admitted \ {t}) \cup {u}
    BY <1>4
  <2>2. IsFiniteSet(Admitted') /\ Cardinality(Admitted') = Cardinality(Admitted \ {t}) + 1
    BY <1>1, <2>1, FS_AddElement
  <2> QED BY <1>1, <1>2, <1>4, <2>2 DEF UnitsOK
<1> QED BY <1>3, <1>4

LEMMA UnitsStep ==
    ASSUME IInv, NEW t \in Task, Step(t) \/ block_request(t)
    PROVE  UnitsOK'
<1>1. /\ TypeOK /\ SleepOK /\ UnitsOK /\ RequestOK(t)
      /\ req[t].op \in {"none", "identify", "read", "write"}
      /\ \A u \in Task : RequestOK(u)
  BY Facts, Awake
<1>2. \A u \in Task : u # t => pc'[u] = pc[u] /\ req'[u] = req[u]
  BY <1>1, Moves
<1>3. CASE sema_down_rw(t)
  <2>1. UNCHANGED <<req, woken>> /\ Serves(t)
    BY <1>3 DEF sema_down_rw, Down, Goto, Serves
  <2>2. t \notin waiting["sema_rw"] \/ pc[t] = "sema_rw"
    BY <1>1 DEF SleepOK, Sem
  <2>3. CASE Goto(t, "down", "idle1") /\ Sema!Take("sema_rw")
    <3>1. UNCHANGED waiting /\ value'["sema_rw"] = value["sema_rw"] - 1 /\ pc[t] = "down"
      BY <1>1, <2>3 DEF Sema!Take, Goto, TypeOK, Sem
    <3>2. pc'[t] = "idle1"
      BY <1>1, <2>3 DEF Goto, TypeOK
    <3>3. t \notin Admitted /\ Admitted' = Admitted \cup {t}
      BY <1>2, <2>1, <2>2, <3>1, <3>2 DEF Admitted, Serves
    <3> QED BY <1>1, <2>1, <3>1, <3>3, UnitTaken
  <2>4. CASE Goto(t, "down", "sema_rw") /\ Sema!Sleep("sema_rw", t)
    <3>1. /\ UNCHANGED value /\ waiting'["sema_rw"] = waiting["sema_rw"] \cup {t}
          /\ pc[t] = "down"
      BY <1>1, <2>4 DEF Sema!Sleep, Goto, TypeOK, Sem
    <3>2. Admitted' = Admitted
      BY <1>2, <2>1, <3>1 DEF Admitted, Serves
    <3> QED BY <1>1, <2>1, <3>1, <3>2, UnitsKept
  <2>5. CASE Goto(t, "sema_rw", "idle1") /\ t \notin waiting["sema_rw"] /\ UNCHANGED semas
    <3>1. pc[t] = "sema_rw" /\ pc'[t] = "idle1" /\ UNCHANGED <<value, waiting>>
      BY <1>1, <2>5 DEF Goto, semas, TypeOK
    <3>2. Admitted' = Admitted
      BY <1>2, <2>1, <3>1 DEF Admitted, Serves
    <3> QED BY <1>1, <2>1, <3>1, <3>2, UnitsKept
  <2> QED BY <1>3, <2>3, <2>4, <2>5 DEF sema_down_rw, Down
<1>4. CASE complete(t)
  <2>1. /\ pc[t] \in {"ok", "fail"} /\ Serves(t) /\ pc'[t] = "user" /\ ~ Serves(t)'
    BY <1>1, <1>4, Returned, NoRequestIs DEF complete, Goto, RequestOK, Serves, TypeOK
  <2>2. t \in Admitted
    BY <1>1, <2>1 DEF Admitted, SleepOK, Sem
  <2>3. value'["sema_rw"] = value["sema_rw"] + 1
    BY <1>1, <1>4 DEF complete, give_back, raise_rw, Sema!Raise, TypeOK, Sem
  <2>4. CASE waiting["sema_rw"] = {}
    <3>1. UNCHANGED <<waiting, woken>>
      BY <1>4, <2>4 DEF complete, give_back, raise_rw, Sema!Raise
    <3>2. Admitted' = Admitted \ {t}
      BY <1>2, <2>1, <3>1 DEF Admitted, Serves
    <3> QED BY <1>1, <2>2, <2>3, <3>1, <3>2, UnitReturned
  <2>5. CASE waiting["sema_rw"] # {}
    <3>1. PICK u \in waiting["sema_rw"] : waiting' = [waiting EXCEPT !["sema_rw"] = @ \ {u}]
      BY <1>4, <2>5 DEF complete, give_back, raise_rw, Sema!Raise
    <3>2. /\ u \in Task /\ pc[u] = "sema_rw" /\ u # t
          /\ waiting'["sema_rw"] = waiting["sema_rw"] \ {u}
      BY <1>1, <2>1, <3>1 DEF SleepOK, TypeOK, Sem
    <3>3. Serves(u)
      BY <1>1, <3>2, Facts DEF RequestOK, Serves
    <3>4. u \notin Admitted /\ Admitted' = (Admitted \ {t}) \cup {u}
      BY <1>2, <2>1, <3>1, <3>2, <3>3 DEF Admitted, Serves
    <3>5. woken' = woken + 1
      BY <1>4, <2>5 DEF complete, give_back, raise_rw
    <3> QED BY <1>1, <2>2, <2>3, <3>2, <3>4, <3>5, UnitReturned
  <2> QED BY <2>4, <2>5
<1>5. CASE sema_down_wait(t)
  <2>1. /\ UNCHANGED <<req, woken>> /\ UNCHANGED <<value["sema_rw"], waiting["sema_rw"]>>
        /\ pc[t] # "down" /\ pc'[t] # "down"
    BY <1>1, <1>5
       DEF sema_down_wait, Down, Goto, Sema!Take, Sema!Sleep, semas, TypeOK, Sem
  <2>2. Admitted' = Admitted
    BY <1>2, <2>1 DEF Admitted, Serves
  <2> QED BY <1>1, <2>1, <2>2, UnitsKept
<1>6. CASE probe(t) \/ block_register(t) \/ block_request(t)
  <2>1. UNCHANGED <<value, waiting, woken>> /\ t \notin Admitted
    BY <1>1, <1>6
       DEF probe, block_register, block_request, semas, history, Admitted, RequestOK, Serves
  <2>2. pc'[t] = "down" \/ ~ Serves(t)'
    BY <1>1, <1>6, Returned, NoRequestIs
       DEF probe, block_register, block_request, Goto, Serves, TypeOK, RequestOK
  <2>3. Admitted' = Admitted
    BY <1>2, <2>1, <2>2 DEF Admitted, Serves
  <2> QED BY <1>1, <2>1, <2>3, UnitsKept
<1>7. CASE Within(t) /\ ~sema_down_rw(t) /\ ~sema_down_wait(t)
  <2>1. UNCHANGED <<req, value, waiting, woken>> /\ pc[t] # "down" /\ pc'[t] # "down"
    BY <1>1, <1>7, WithinKeeps
       DEF Within, wait_until_idle, select_disk, select_sector, issue_pio_cmd,
           wait_while_busy, transfer, Goto, semas, history
  <2>2. Admitted' = Admitted
    BY <1>2, <2>1 DEF Admitted, Serves
  <2> QED BY <1>1, <2>1, <2>2, UnitsKept
<1> QED BY <1>3, <1>4, <1>5, <1>6, <1>7 DEF Step, Within

---------------------------------------------------------------------------
(* The channel while no poll gave up and no second task was let in.        *)

LEMMA Calm ==
    ASSUME TypeOK, NEW t \in Task, Step(t) \/ block_request(t), ~disturbed'
    PROVE  ~disturbed
<1>1. CASE sema_down_rw(t) \/ wait_until_idle(t) \/ sema_down_wait(t) \/ wait_while_busy(t)
  BY <1>1 DEF sema_down_rw, wait_until_idle, sema_down_wait, wait_while_busy, Down
<1>2. CASE ~(sema_down_rw(t) \/ wait_until_idle(t) \/ sema_down_wait(t) \/ wait_while_busy(t))
  <2>1. UNCHANGED disturbed
    BY <1>2 DEF Step, select_disk, select_sector, issue_pio_cmd, transfer, complete, probe,
                block_register, block_request, history
  <2> QED BY <2>1
<1> QED BY <1>1, <1>2

LEMMA AloneStep ==
    ASSUME IInv, NEW t \in Task, Step(t) \/ block_request(t), ~disturbed'
    PROVE  Alone'
<1>1. /\ TypeOK /\ RequestOK(t) /\ Alone /\ ~disturbed
      /\ \A u \in Task : /\ RequestOK(u)
                         /\ req[u].op \in {"none", "identify", "read", "write"}
  BY Facts, Calm
<1>2. \A u \in Task : u # t => pc'[u] = pc[u]
  BY <1>1, Moves
<1>3. CASE Active(t)' => Active(t)
  BY <1>1, <1>2, <1>3 DEF Alone, Active
<1>4. CASE sema_down_rw(t) /\ Active(t)'
  <2>1. Users = {} /\ Serves(t)
    BY <1>1, <1>4 DEF sema_down_rw, Down, Goto, Active, Serves, TypeOK
  <2>2. \A u \in Task : ~Active(u)
    BY <1>1, <2>1 DEF Users, Active, RequestOK, Serves
  <2> QED BY <1>2, <2>2 DEF Alone, Active
<1>5. CASE probe(t)
  <2>1. probed \in Disk /\ t = Main /\ pc[t] = "user"
    BY <1>5 DEF probe
  <2>2. \A u \in Task : ~Active(u)
    BY <1>1, <2>1 DEF Active, RequestOK, Serves
  <2> QED BY <1>2, <2>2 DEF Alone, Active
<1>6. ~sema_down_rw(t) /\ ~probe(t) /\ Active(t)' => Active(t)
  BY <1>1 DEF Step, Active, wait_until_idle, select_disk, select_sector, issue_pio_cmd,
              sema_down_wait, Down, wait_while_busy, transfer, complete, block_register,
              block_request, Goto, TypeOK
<1> QED BY <1>3, <1>4, <1>5, <1>6

LEMMA FoundStep ==
    ASSUME IInv, NEW t \in Task, Step(t) \/ block_request(t), ~disturbed'
    PROVE  FoundOK'
<1>1. /\ TypeOK /\ RequestOK(t) /\ DisksOK /\ FoundOK /\ CommandOK(t)
      /\ req[t].op \in {"none", "identify", "read", "write"} /\ Selected \in Disk
      /\ UNCHANGED there
  BY Facts, Calm, Moves
<1>2. CASE issue_pio_cmd(t)
  <2>1. /\ pc[t] = "cmd" /\ Selected = req[t].disk /\ UNCHANGED disks
        /\ \A d \in Disk : d # Selected => drive'[d] = drive[d]
    BY <1>1, <1>2 DEF issue_pio_cmd, Goto, CommandOK, HasSelected, TypeOK
  <2>2. Selected >= probed \/ nr_sectors[Selected] = Capacity[Selected]
    BY <1>1, <2>1 DEF RequestOK, Serves, Disk
  <2>3. ASSUME NEW d \in Disk, d < probed, there[d] = "ata"
        PROVE  nr_sectors[d] = Capacity[d] \/ drive'[d].state = "failed"
    BY <1>1, <2>1, <2>2, <2>3 DEF FoundOK, Is, TypeOK, Disk
  <2> QED BY <1>1, <2>1, <2>3 DEF FoundOK, Is, disks
<1>3. CASE transfer(t)
  <2>1. \A d \in Disk : Is("failed", d) => drive'[d] = drive[d]
    BY <1>1, <1>3, Forgets DEF transfer, DRQ, Is
  <2>2. UNCHANGED disks
    BY <1>3 DEF transfer
  <2> QED BY <1>1, <2>1, <2>2 DEF FoundOK, Is, disks
<1>4. CASE probe(t)
  <2>1. UNCHANGED <<drive, nr_sectors>> /\ probed \in Disk
    BY <1>4 DEF probe
  <2>2. probed' = probed \/ (probed' = probed + 1 /\ there[probed] # "ata")
    BY <1>1, <1>4, <2>1 DEF probe, DisksOK, Disk
  <2> QED BY <1>1, <2>1, <2>2 DEF FoundOK, Is, Disk
<1>5. CASE block_register(t)
  <2>1. /\ UNCHANGED drive /\ probed \in Disk /\ probed' = probed + 1
        /\ req[t].disk = probed
    BY <1>1, <1>5 DEF block_register, RequestOK
  <2>2. nr_sectors'[probed] = Capacity[probed] \/ Is("failed", probed)
    <3>1. CASE Goto(t, "ok", "user") /\ nr_sectors' = [nr_sectors EXCEPT ![probed] = Capacity[probed]]
      BY <1>1, <2>1, <3>1 DEF TypeOK
    <3>2. CASE Goto(t, "fail", "user")
      BY <1>1, <2>1, <3>2 DEF Goto, CommandOK, HasSelected
    <3> QED BY <1>5, <3>1, <3>2 DEF block_register
  <2>3. \A d \in Disk : d # probed => nr_sectors'[d] = nr_sectors[d]
    BY <1>1, <1>5 DEF block_register, TypeOK
  <2> QED BY <1>1, <2>1, <2>2, <2>3 DEF FoundOK, Is, Disk
<1>6. CASE Within(t) /\ ~issue_pio_cmd(t) /\ ~transfer(t)
  BY <1>1, <1>6, WithinKeeps
     DEF Within, sema_down_rw, wait_until_idle, select_disk, select_sector, sema_down_wait,
         wait_while_busy, Down, disks, FoundOK, Is
<1>7. CASE complete(t) \/ block_request(t)
  BY <1>1, <1>7 DEF complete, block_request, disks, FoundOK, Is
<1> QED BY <1>2, <1>3, <1>4, <1>5, <1>6, <1>7 DEF Step, Within

\* A task that is not on the channel expects nothing of it.
LEMMA Idle ==
    ASSUME NEW t \in Task, ~Active(t)
    PROVE  CommandOK(t)
  BY DEF Active, CommandOK, HasSelected

LEMMA CommandSame ==
    ASSUME NEW t \in Task, CommandOK(t), UNCHANGED <<lba, device, drive, pc[t], req[t]>>
    PROVE  CommandOK(t)'
  BY DEF CommandOK, HasSelected, Free, Own, BSY, DRQ, Is, Selected, Addressed, Serves

LEMMA CommandStep ==
    ASSUME IInv, NEW t \in Task, Step(t) \/ block_request(t), ~disturbed'
    PROVE  CommandOK(t)'
<1>1. /\ TypeOK /\ TypeOK' /\ RequestOK(t) /\ CommandOK(t)
      /\ req[t].op \in {"none", "identify", "read", "write"}
      /\ req[t].disk \in Disk /\ req[t].sector \in Nat /\ Selected \in Disk
      /\ drive[Selected] \in DriveType
      /\ req[t].op = "identify" => req[t].sector = 0
  BY Facts, Calm, TypeStep DEF TypeOK
<1>2. CASE sema_down_rw(t)
  <2>1. ~ HasSelected(t)'
    BY <1>1, <1>2 DEF sema_down_rw, Down, Goto, TypeOK, HasSelected
  <2> QED BY <2>1 DEF CommandOK, HasSelected
<1>3. CASE wait_until_idle(t)
  <2>1. /\ UNCHANGED <<lba, device, drive, req>>
        /\ Free(Selected) /\ pc[t] \in {"idle1", "idle2"}
        /\ pc'[t] \in {"select", "sector", "cmd"}
        /\ HasSelected(t)' => HasSelected(t)
        /\ pc'[t] = "cmd" => req[t].op = "identify"
    BY <1>1, <1>3 DEF wait_until_idle, Goto, TypeOK, Free, HasSelected
  <2> QED BY <1>1, <2>1 DEF CommandOK, Selected, Free, BSY, DRQ, Is, Serves
<1>4. CASE select_disk(t)
  <2>1. Selected' = req'[t].disk /\ pc'[t] = "idle2"
    BY <1>1, <1>4, Selects DEF select_disk, Goto, TypeOK
  <2> QED BY <2>1 DEF CommandOK
<1>5. CASE select_sector(t)
  <2>1. /\ Selected' = req[t].disk /\ Addressed' = req[t].sector /\ pc'[t] = "cmd"
        /\ UNCHANGED <<req, drive>> /\ pc[t] = "sector"
    BY <1>1, <1>5, Selects DEF select_sector, Goto, TypeOK
  <2>2. Selected = req[t].disk /\ Free(Selected)
    BY <1>1, <2>1 DEF CommandOK, HasSelected
  <2> QED BY <2>1, <2>2 DEF CommandOK, Free, BSY, DRQ, Is
<1>6. CASE issue_pio_cmd(t)
  <2>1. /\ UNCHANGED <<lba, device, req>> /\ pc[t] = "cmd" /\ pc'[t] \in {"poll", "wait"}
        /\ UNCHANGED Selected
    BY <1>1, <1>6 DEF issue_pio_cmd, Goto, TypeOK, Selected
  <2>2. Selected = req[t].disk /\ Free(Selected) /\ (Serves(t) => Addressed = req[t].sector)
    BY <1>1, <2>1 DEF CommandOK, HasSelected
  <2>3. drive'[Selected] = [state |-> "busy", op |-> req[t].op, sector |-> req[t].sector]
    BY <1>1, <1>6, <2>1, <2>2 DEF issue_pio_cmd, Free, TypeOK, Serves, RequestOK
  <2>4. Own(t)' /\ drive'[Selected].state = "busy"
    BY <2>1, <2>2, <2>3 DEF Own
  <2> QED BY <2>1, <2>2, <2>4 DEF CommandOK, Is
<1>7. CASE sema_down_wait(t)
  <2>1. /\ UNCHANGED <<lba, device, drive, req>> /\ pc[t] \in {"wait", "sema_wait"}
        /\ pc'[t] \in {"sema_wait", IF req[t].op = "write" THEN "ok" ELSE "poll"}
    BY <1>1, <1>7 DEF sema_down_wait, Down, Goto, TypeOK
  <2> QED BY <1>1, <2>1 DEF CommandOK, HasSelected, Own, DRQ, Is, Selected
<1>8. CASE wait_while_busy(t)
  <2>1. /\ UNCHANGED <<lba, device, drive, req>> /\ pc[t] = "poll" /\ ~BSY(Selected)
        /\ pc'[t] = IF DRQ(Selected) THEN "transfer" ELSE "fail"
    BY <1>1, <1>8 DEF wait_while_busy, settled, Goto, TypeOK
  <2> QED BY <1>1, <2>1 DEF CommandOK, HasSelected, Own, BSY, DRQ, Is, Selected
<1>9. CASE transfer(t)
  <2>1. /\ UNCHANGED <<device, req>> /\ pc[t] = "transfer" /\ pc'[t] \in {"wait", "ok"}
        /\ pc'[t] = "wait" => req[t].op = "write"
    BY <1>1, <1>9 DEF transfer, Goto, TypeOK
  <2> QED BY <1>1, <2>1 DEF CommandOK, HasSelected, Selected
<1>10. CASE complete(t) \/ block_register(t) \/ block_request(t)
  <2>1. ~ HasSelected(t)'
    BY <1>1, <1>10 DEF complete, block_register, block_request, Goto, TypeOK, HasSelected
  <2> QED BY <2>1 DEF CommandOK, HasSelected
<1>11. CASE probe(t)
  <2>1. ~ HasSelected(t)'
    BY <1>1, <1>11 DEF probe, TypeOK, HasSelected
  <2> QED BY <2>1 DEF CommandOK, HasSelected
<1> QED BY <1>2, <1>3, <1>4, <1>5, <1>6, <1>7, <1>8, <1>9, <1>10, <1>11 DEF Step

LEMMA ChannelStep ==
    ASSUME IInv, NEW t \in Task, Step(t) \/ block_request(t)
    PROVE  ChannelOK'
<1> SUFFICES ASSUME ~disturbed' PROVE (Alone /\ (\A u \in Task : CommandOK(u)) /\ FoundOK)'
  BY DEF ChannelOK
<1>1. TypeOK /\ Alone /\ \A u \in Task : CommandOK(u)
  BY Facts, Calm
<1>2. ASSUME NEW u \in Task, u # t PROVE CommandOK(u)'
  <2>1. UNCHANGED <<pc[u], req[u]>>
    BY <1>1, <1>2, Moves
  <2>2. CASE ~Active(u)
    BY <2>1, <2>2, Idle DEF Active, CommandOK, HasSelected
  <2>3. CASE Active(u)
    <3>1. ~Active(t)
      BY <1>1, <1>2, <2>3 DEF Alone
    <3>2. UNCHANGED <<lba, device, drive>>
      BY <3>1 DEF Step, Active, sema_down_rw, wait_until_idle, select_disk, select_sector,
                  issue_pio_cmd, sema_down_wait, Down, wait_while_busy, transfer, complete, probe,
                  block_register, block_request, Goto
    <3> QED BY <1>1, <2>1, <3>2, CommandSame
  <2> QED BY <2>2, <2>3
<1>3. CommandOK(t)'
  BY CommandStep
<1>4. Alone' /\ FoundOK'
  BY AloneStep, FoundStep
<1> QED BY <1>2, <1>3, <1>4

LEMMA TaskStep ==
    ASSUME IInv, NEW t \in Task, Step(t) \/ block_request(t)
    PROVE  IInv'
<1>1. TypeOK' /\ \A u \in Task : RequestOK(u)'
  BY TypeStep, RequestStep
<1>2. DisksOK' /\ SelectionOK'
  BY DisksStep, SelectionStep
<1>3. SleepOK' /\ UnitsOK' /\ ChannelOK'
  BY SleepStep, UnitsStep, ChannelStep
<1> QED BY <1>1, <1>2, <1>3 DEF IInv

\* A drive that executes a command keeps it.
LEMMA DriveStep ==
    ASSUME IInv, NEW d \in Disk, Drive(d)
    PROVE  IInv'
<1>1. /\ TypeOK /\ DisksOK /\ SelectionOK /\ ChannelOK
      /\ stray \/ (SleepOK /\ UnitsOK)
      /\ \A t \in Task : RequestOK(t)
      /\ UNCHANGED <<pc, req, value, waiting, lba, device, woken, stray, disturbed>>
      /\ UNCHANGED <<there, is_ata_disk, nr_sectors, probed>>
  BY DEF IInv, Drive, semas, disks, history
<1>2. TypeOK'
  BY <1>1, DriveTypes
<1>3. PICK st : /\ To(d, st)
                /\ \/ Is("busy", d) /\ st \in {"drq", "failed"}
                   \/ Is("storing", d) /\ st \in {"idle", "failed"}
  BY DEF Drive, BSY
<1>4. /\ \A e \in Disk : drive'[e].op \in {drive[e].op, "none"}
      /\ \A e \in Disk : e # d => drive'[e] = drive[e]
      /\ drive'[d].state = st
      /\ st # "idle" => drive'[d].op = drive[d].op /\ drive'[d].sector = drive[d].sector
  BY <1>1, <1>3, Forgets
<1>5. (\A t \in Task : RequestOK(t)') /\ DisksOK'
  BY <1>1 DEF RequestOK, Serves, DisksOK
<1>6. SelectionOK'
  BY <1>1, <1>4 DEF SelectionOK, HasSelected, Selected
<1>7. stray' \/ (SleepOK' /\ UnitsOK')
  BY <1>1 DEF SleepOK, UnitsOK, Admitted, Serves
<1>8. ASSUME ~disturbed PROVE (Alone /\ (\A t \in Task : CommandOK(t)) /\ FoundOK)'
  <2>1. Alone' /\ FoundOK'
    BY <1>1, <1>3, <1>4, <1>8 DEF ChannelOK, Alone, Active, FoundOK, Is
  <2>2. ASSUME NEW t \in Task PROVE CommandOK(t)'
    <3>1. CommandOK(t) /\ Selected \in Disk /\ req[t].disk \in Disk
      BY <1>1, <1>8, Facts DEF ChannelOK
    <3>2. UNCHANGED Selected /\ UNCHANGED Addressed
      BY <1>1 DEF Selected, Addressed
    <3>3. CASE Selected # d
      BY <1>1, <1>4, <3>1, <3>2, <3>3
         DEF CommandOK, HasSelected, Free, Own, BSY, DRQ, Is, Serves
    <3>4. CASE Selected = d /\ st # "idle"
      BY <1>1, <1>3, <1>4, <3>1, <3>2, <3>4
         DEF CommandOK, HasSelected, Free, Own, BSY, DRQ, Is, Serves
    <3>5. CASE Selected = d /\ st = "idle"
      BY <1>1, <1>3, <1>4, <3>1, <3>2, <3>5
         DEF CommandOK, HasSelected, Free, Own, BSY, DRQ, Is, Serves
    <3> QED BY <3>3, <3>4, <3>5
  <2> QED BY <2>1, <2>2
<1> QED BY <1>1, <1>2, <1>5, <1>6, <1>7, <1>8 DEF IInv, ChannelOK

LEMMA InterruptStep ==
    ASSUME IInv, ide_interrupt
    PROVE  IInv'
<1>1. /\ TypeOK /\ DisksOK /\ SelectionOK /\ ChannelOK
      /\ stray \/ (SleepOK /\ UnitsOK)
      /\ \A t \in Task : RequestOK(t)
      /\ UNCHANGED <<pc, req, lba, device, drive, woken, stray, disturbed>>
      /\ UNCHANGED <<there, is_ata_disk, nr_sectors, probed>>
  BY DEF IInv, ide_interrupt, disks, history
<1>2. TypeOK'
  BY <1>1, InterruptTypes
<1>3. /\ \A s \in Sem : waiting'[s] \subseteq waiting[s]
      /\ UNCHANGED <<value["sema_rw"], waiting["sema_rw"]>>
  BY <1>1 DEF ide_interrupt, Sema!Raise, TypeOK, Sem
<1>4. (\A t \in Task : RequestOK(t)') /\ DisksOK'
  BY <1>1 DEF RequestOK, Serves, DisksOK
<1>5. SelectionOK'
  BY <1>1 DEF SelectionOK, HasSelected, Selected
<1>6. stray' \/ (SleepOK' /\ UnitsOK')
  BY <1>1, <1>3 DEF SleepOK, UnitsOK, Admitted, Serves
<1>7. ChannelOK'
  BY <1>1 DEF ChannelOK, Alone, Active, FoundOK, CommandOK, HasSelected, Free, Own, BSY, DRQ,
              Is, Serves, Selected, Addressed
<1> QED BY <1>2, <1>4, <1>5, <1>6, <1>7 DEF IInv

\* schedule chooses a task: nobody moves.
LEMMA ChooseStep ==
    ASSUME IInv, NEW t \in Task, choose_next(t)
    PROVE  IInv'
<1> USE DEF choose_next, semas, disks, history
<1>1. next' \in [Task -> Task \cup {NULL}]
  BY Typing DEF IInv
<1>2. TypeOK' /\ (\A u \in Task : RequestOK(u)') /\ DisksOK'
  BY <1>1 DEF IInv, TypeOK, RequestOK, Serves, DisksOK
<1>3. SelectionOK' /\ (stray' \/ (SleepOK' /\ UnitsOK'))
  BY DEF IInv, SelectionOK, HasSelected, Selected, SleepOK, UnitsOK, Admitted, Serves
<1>4. ChannelOK'
  BY DEF IInv, ChannelOK, Alone, Active, FoundOK, CommandOK, HasSelected, Free, Own, BSY, DRQ,
         Is, Serves, Selected, Addressed
<1> QED BY <1>2, <1>3, <1>4 DEF IInv

\* A sleeping task u goes on, where its sema_down returns to.
LEMMA StrayStep ==
    ASSUME IInv, NEW t \in Task, dispatch_stale(t)
    PROVE  IInv'
<1> DEFINE u == next[t]
           to == IF pc[u] = "sema_rw" THEN "idle1"
                 ELSE IF req[u].op = "write" THEN "ok" ELSE "poll"
<1>1. /\ TypeOK /\ SleepOK /\ DisksOK /\ SelectionOK
      /\ \A v \in Task : RequestOK(v)
      /\ UNCHANGED <<req, value, waiting, left, lba, device, drive, irq, woken>>
      /\ UNCHANGED <<there, is_ata_disk, nr_sectors, probed>>
      /\ stray' = TRUE /\ disturbed' = TRUE
  BY DEF IInv, dispatch_stale, semas, disks
<1>2. u \in Task /\ pc[u] \in {"sema_rw", "sema_wait"}
  <2>1. next[t] \in Task
    BY <1>1, Typing DEF dispatch_stale, stale
  <2> QED BY <1>1, <2>1 DEF dispatch_stale, stale, Asleep, SleepOK, Sem
<1>3. pc' = [pc EXCEPT ![u] = to]
  BY DEF dispatch_stale
<1>4. /\ to \in {"idle1", "ok", "poll"}
      /\ to # "idle1" => pc[u] = "sema_wait"
  BY <1>2
<1> HIDE DEF to, u
<1>5. TypeOK'
  <2>1. pc' \in [Task -> PC]
    BY <1>1, <1>3, <1>4, Typing DEF PC
  <2>2. next' \in [Task -> Task \cup {NULL}]
    BY <1>1, Typing DEF dispatch_stale
  <2> QED BY <1>1, <2>1, <2>2 DEF TypeOK
<1>6. (\A v \in Task : RequestOK(v)') /\ DisksOK'
  BY <1>1, <1>2, <1>3, <1>4, Typing DEF RequestOK, Serves, DisksOK
<1>7. SelectionOK'
  BY <1>1, <1>2, <1>3, <1>4, Typing DEF SelectionOK, HasSelected, Selected
<1> QED BY <1>1, <1>5, <1>6, <1>7 DEF IInv, ChannelOK

LEMMA Stutter ==
    ASSUME IInv, UNCHANGED vars
    PROVE  IInv'
<1> USE DEF vars, semas, disks, history
<1>1. TypeOK' /\ (\A t \in Task : RequestOK(t)') /\ DisksOK'
  BY DEF IInv, TypeOK, RequestOK, Serves, DisksOK
<1>2. SelectionOK' /\ (stray' \/ (SleepOK' /\ UnitsOK'))
  BY DEF IInv, SelectionOK, HasSelected, Selected, SleepOK, UnitsOK, Admitted, Serves
<1>3. ChannelOK'
  BY DEF IInv, ChannelOK, Alone, Active, FoundOK, CommandOK, HasSelected, Free, Own, BSY, DRQ,
         Is, Serves, Selected, Addressed
<1> QED BY <1>1, <1>2, <1>3 DEF IInv

LEMMA NextInv == IInv /\ [Next]_vars => IInv'
<1> SUFFICES ASSUME IInv, [Next]_vars PROVE IInv'
  OBVIOUS
<1>1. CASE \E t \in Task : Step(t) \/ block_request(t)
  BY <1>1, TaskStep
<1>2. CASE \E d \in Disk : Drive(d)
  BY <1>2, DriveStep
<1>3. CASE ide_interrupt
  BY <1>3, InterruptStep
<1>4. CASE UNCHANGED vars
  BY <1>4, Stutter
<1>5. CASE \E t \in Task : choose_next(t)
  BY <1>5, ChooseStep
<1>6. CASE \E t \in Task : dispatch_stale(t)
  BY <1>6, StrayStep
<1> QED BY <1>1, <1>2, <1>3, <1>4, <1>5, <1>6 DEF Next

LEMMA Invariance == Spec => []IInv
<1>1. Init => IInv
  BY InitInv
<1>2. IInv /\ [Next]_vars => IInv'
  BY NextInv
<1> QED BY <1>1, <1>2, PTL DEF Spec

---------------------------------------------------------------------------
\* The variables of the driver and of the disks keep their types, and a drive
\* is never asked for a sector it does not have while one task is on the
\* channel.
THEOREM TypeCorrect == Spec => []TypeOK
<1>1. IInv => TypeOK
  BY DEF IInv
<1> QED BY <1>1, Invariance, PTL

\* Until schedule dispatches a sleeping task, sema_rw lets one task use the
\* channel, and one more for each sema_up that woke a task, however many tasks
\* there are and whatever they ask for.
THEOREM ChannelExcludes == Spec => []OneUser
<1>1. IInv => OneUser
  <2> SUFFICES ASSUME IInv, ~stray PROVE Cardinality(Users) <= 1 + woken
    BY DEF OneUser
  <2>1. TypeOK /\ SleepOK /\ UnitsOK
    BY DEF IInv
  <2>2. Users \subseteq Admitted
    BY <2>1 DEF Users, Admitted, Serves, SleepOK, Sem
  <2>3. IsFiniteSet(Users) /\ Cardinality(Users) <= Cardinality(Admitted)
    BY <2>1, <2>2, FS_Subset DEF UnitsOK
  <2>4. /\ Cardinality(Users) \in Nat /\ Cardinality(Admitted) \in Nat
        /\ value["sema_rw"] \in Nat /\ woken \in Nat
    BY <2>1, <2>3, FS_CardinalityType DEF UnitsOK, TypeOK, Sem
  <2> QED BY <2>1, <2>3, <2>4 DEF UnitsOK
<1> QED BY <1>1, Invariance, PTL

\* The data that input_sector and output_sector move are those of the sector
\* asked for, on the disk asked for.
THEOREM TransfersMatch == Spec => []TransfersOwnSector
<1>1. IInv => TransfersOwnSector
  BY DEF IInv, ChannelOK, CommandOK, HasSelected, TransfersOwnSector
<1> QED BY <1>1, Invariance, PTL

\* ide_init gives commands to ATA drives only and registers every one it has
\* passed with the size it reports, unless that drive failed the command.
THEOREM DrivesFound == Spec => []FindsDrives
<1>1. IInv => FindsDrives
  BY DEF IInv, ChannelOK, SelectionOK, FoundOK, FindsDrives
<1> QED BY <1>1, Invariance, PTL

\* ide_read, ide_write and identify_ata_device return an error only for a
\* command of theirs that the drive has failed.
THEOREM ErrorsAreReal == Spec => []ErrorsReal
<1>1. IInv => ErrorsReal
  <2> SUFFICES ASSUME IInv, NEW t \in Task, pc[t] = "fail", ~disturbed
               PROVE  Is("failed", req[t].disk) /\ Own(t)
    BY DEF ErrorsReal
  <2>1. CommandOK(t)
    BY DEF IInv, ChannelOK
  <2> QED BY <2>1 DEF CommandOK, HasSelected
<1> QED BY <1>1, Invariance, PTL
=============================================================================
