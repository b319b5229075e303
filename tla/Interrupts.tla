----------------------------- MODULE Interrupts -----------------------------
(***************************************************************************)
(* How interrupts reach their handlers: the two 8259 controllers, the      *)
(* gates, generic_isr step by step on the stack of the task it interrupts, *)
(* and the handlers of the timer, the keyboard, the serial port and the    *)
(* disk, from main's init_interrupt on.                                    *)
(*                                                                         *)
(* A handler runs with IF clear, but the serial handler calls sema_down.   *)
(* If it has to sleep, schedule leaves it on the stack of the task it      *)
(* interrupted, before the end of interrupt, and sets IF.                  *)
(*                                                                         *)
(* The semaphore is that of module Semaphore and schedule is the round     *)
(* robin of module Sched, as if no interrupt landed under a spin lock nor  *)
(* where schedule has chosen a task and can still be preempted             *)
(* (sched.c:179 to 210).                                                   *)
(***************************************************************************)
EXTENDS Integers, FiniteSets, Sequences, SequencesExt

CONSTANTS
    Task,
    Main,      \* the task main runs on
    Writer,    \* the tasks that call serial_putc
    MaxPutc,   \* bound: the calls of serial_putc by each of them
    MaxEvents, \* bound: the interrupts each device but the timer requests
    MaxDepth   \* bound: handlers nested on one stack

\* sched_init's idle task never calls serial_putc.
ASSUME InterruptsAssumption ==
    /\ IsFiniteSet(Task) /\ Main \in Task
    /\ Writer \subseteq Task /\ Writer # Task
    /\ MaxPutc \in Nat /\ MaxEvents \in [{1, 4, 14} -> Nat] /\ MaxDepth \in Nat \ {0}

\* IRQ numbers.  Vectors are these plus HARDWARE_INTR_START.
TIMER  == 0
KBD    == 1
SERIAL == 4
DISK   == 14
Line   == {TIMER, KBD, SERIAL, DISK}
TASK   == 100    \* no line: the lowest record of a stack, the task itself

VARIABLES
    gate,     \* isr_table, for the vectors of the lines
    IF_flag,
    stack,    \* stack[t]: the records of generic_isr above t's own, with the
              \* statement each is at and the characters it still writes
    cur,      \* the task whose stack the processor is on
    ready,    \* the ready list
    sched_on_return,
    irr,      \* the controllers' pending edges
    master, slave,    \* their in-service bits
    obf,      \* the keyboard holds a byte
    dr,       \* the serial port holds a character
    value, waiting,   \* sema_write (module Semaphore)
    putc, events,     \* what is left of MaxPutc and MaxEvents
    early,    \* history: a key was pressed before kbd_init
    crashed   \* schedule followed a null list head: the machine faults for ever

pics    == <<irr, master, slave>>
devices == <<obf, dr, events>>
semas   == <<value, waiting>>
threads == <<cur, ready, crashed>>
vars    == <<gate, IF_flag, stack, threads, sched_on_return, pics, devices, semas,
             putc, early>>

Sem  == {"sema_write"}
Sema == INSTANCE Semaphore WITH SemInit <- [s \in Sem |-> 1]

Record(line, pc, left) == [irq |-> line, pc |-> pc, left |-> left]

\* main has started up to the statement named by its own record.
Boot == <<"init_interrupt", "hw_timer_init", "serial_init", "kbd_init",
          "sched_init", "ide_init">>

Top(t)     == stack[t][Len(stack[t])]
SetTop(t, r) == stack' = [stack EXCEPT ![t][Len(stack[t])] = r]
At(t, pc)  == ~crashed /\ cur = t /\ Top(t).pc = pc
Goto(t, pc) == SetTop(t, Record(Top(t).irq, pc, Top(t).left))

---------------------------------------------------------------------------
(* The interrupt controllers (pic_init, pic_end_of_interrupt).             *)

\* Mutant: pic_init does not tell the master that its line 2 is the slave.
no_cascade(l) == l

\* The slave is wired to IRQ 2 of the master.
MasterLine(l) == IF l < 8 THEN l ELSE 2

\* The line is pending and no line of its priority or above is in service.
Requested(l) ==
    /\ l \in irr
    /\ \A m \in master : m > MasterLine(l)
    /\ l >= 8 => \A s \in slave : s > l

Acknowledge(l) ==
    /\ irr' = irr \ {l}
    /\ master' = master \cup {MasterLine(l)}
    /\ slave' = IF l >= 8 THEN slave \cup {l} ELSE slave

\* A non-specific end of interrupt clears the bit of highest priority.
EndOfInterrupt(bits) == {b \in bits : \E c \in bits : c < b}

\* Mutant: the slave is not told.
eoi_master_only(l) ==
    /\ master' = EndOfInterrupt(master)
    /\ UNCHANGED slave

pic_end_of_interrupt(l) ==
    /\ master' = EndOfInterrupt(master)
    /\ slave' = IF l >= 8 THEN EndOfInterrupt(slave) ELSE slave

---------------------------------------------------------------------------
(* The scheduler and the semaphore, as the other modules show them.        *)

\* list_del of a task in a list.
list_del(queue, t) == IF t \notin Range(queue) THEN queue
                      ELSE RemoveAt(queue, CHOOSE i \in DOMAIN queue : queue[i] = t)

\* schedule: the head of the ready list runs next, a running task goes to the
\* tail, and IF is set on the stack of the next task.  Before sched_init the
\* list's head is null, and if it ran empty it would be no task.
schedule(queue) ==
    IF queue = <<>>
    THEN crashed' = TRUE /\ UNCHANGED <<cur, ready, IF_flag>>
    ELSE /\ cur' = Head(queue)
         /\ ready' = IF cur \in Range(queue)
                     THEN Append(list_del(queue, cur), cur) ELSE queue
         /\ IF_flag' = TRUE
         /\ UNCHANGED crashed

\* sema_down(&sema_write) of a task or a handler.  It goes on when it has been
\* given the processor again.
sema_down(t) ==
    /\ At(t, "down")
    /\ Goto(t, "poll")
    /\ \/ Sema!Take("sema_write") /\ UNCHANGED <<IF_flag, threads>>
       \/ Sema!Sleep("sema_write", t) /\ schedule(list_del(ready, t))
    /\ UNCHANGED <<gate, sched_on_return, pics, devices, putc, early>>

\* serial_putc_poll reads the modem status, which LSR_REG numbers: it ends when
\* the other end is ready.  Nothing is received by it.
serial_putc_poll(t) ==
    /\ At(t, "poll")
    /\ Goto(t, "up")
    /\ UNCHANGED <<gate, IF_flag, threads, sched_on_return, pics, devices, semas,
                   putc, early>>

\* After sema_up a task returns; the handler writes '\n' after '\r', or returns.
SetTopAfterUp(t) ==
    LET r == Top(t)
    IN  SetTop(t, IF r.irq = TASK  THEN Record(TASK, "user", 0)
                  ELSE IF r.left > 0 THEN Record(r.irq, "down", r.left - 1)
                  ELSE Record(r.irq, "eoi", 0))

\* Mutant: sema_up wakes nobody.
raise_only(t) ==
    /\ At(t, "up")
    /\ value' = [value EXCEPT !["sema_write"] = @ + 1]
    /\ SetTopAfterUp(t)
    /\ UNCHANGED <<gate, IF_flag, threads, sched_on_return, pics, devices, waiting,
                   putc, early>>

\* sema_up(&sema_write): the task it wakes goes to the tail of the ready list.
sema_up(t) ==
    /\ At(t, "up")
    /\ Sema!Raise("sema_write")
    /\ \/ waiting["sema_write"] = {} /\ UNCHANGED ready
       \/ \E u \in waiting["sema_write"] \ waiting'["sema_write"] : ready' = Append(ready, u)
    /\ SetTopAfterUp(t)
    /\ UNCHANGED <<gate, IF_flag, cur, crashed, sched_on_return, pics, devices,
                   putc, early>>

---------------------------------------------------------------------------
(* The gates and generic_isr.                                              *)

\* Mutant: set_interrupt_gate makes trap gates, which leave IF set.
trap_gate == TRUE

\* IF behind a gate of type GATE_TYPE_INTR.
interrupt_gate == FALSE

\* The processor takes the interrupt of highest priority.
Interrupt(l) ==
    /\ ~crashed /\ IF_flag
    /\ Requested(l)
    /\ \A m \in Line : Requested(m) => MasterLine(m) >= MasterLine(l)
    /\ Len(stack[cur]) <= MaxDepth
    /\ Acknowledge(l)
    /\ stack' = [stack EXCEPT ![cur] = Append(@, Record(l, "entry", 0))]
    /\ IF_flag' = interrupt_gate
    /\ UNCHANGED <<gate, threads, sched_on_return, devices, semas, putc, early>>

entry(t) ==
    /\ At(t, "entry")
    /\ sched_on_return' = FALSE
    /\ Goto(t, "isr")
    /\ UNCHANGED <<gate, IF_flag, threads, pics, devices, semas, putc, early>>

\* systick_intr: with PRIO_DEFAULT a time slice is one tick, so task_tick asks
\* for schedule every time (TickAssumption of module Kernel).
systick_intr(t) ==
    /\ sched_on_return' = TRUE
    /\ Goto(t, "eoi")
    /\ UNCHANGED <<devices, semas>>

\* Mutant: kbd_interrupt returns before it has read the byte.
kbd_not_read(t) ==
    /\ Goto(t, "eoi")
    /\ UNCHANGED <<devices, sched_on_return, semas>>

\* kbd_interrupt reads the byte; what it makes of it is module Keyboard.
kbd_interrupt(t) ==
    /\ obf' = FALSE
    /\ Goto(t, "eoi")
    /\ UNCHANGED <<dr, events, sched_on_return, semas>>

\* serial_interrupt reads the character and writes it, and '\n' after '\r'.
serial_interrupt(t) ==
    /\ dr' = FALSE
    /\ \E second \in {0, 1} :
          SetTop(t, Record(Top(t).irq, "down", second))
    /\ UNCHANGED <<obf, events, sched_on_return, semas>>

\* ide_interrupt raises the semaphore of its channel (module Ide), and
\* default_isr prints: nothing here changes.
ide_interrupt(t) ==
    /\ Goto(t, "eoi")
    /\ UNCHANGED <<devices, sched_on_return, semas>>
default_isr(t) ==
    /\ Goto(t, "eoi")
    /\ UNCHANGED <<devices, sched_on_return, semas>>

isr(t) ==
    /\ At(t, "isr")
    /\ LET handler == gate[Top(t).irq]
       IN  \/ handler = "systick_intr"     /\ systick_intr(t)
           \/ handler = "kbd_interrupt"    /\ kbd_interrupt(t)
           \/ handler = "serial_interrupt" /\ serial_interrupt(t)
           \/ handler = "ide_interrupt"    /\ ide_interrupt(t)
           \/ handler = "default_isr"      /\ default_isr(t)
    /\ UNCHANGED <<gate, IF_flag, threads, pics, putc, early>>

eoi(t) ==
    /\ At(t, "eoi")
    /\ pic_end_of_interrupt(Top(t).irq)
    /\ Goto(t, "test")
    /\ UNCHANGED <<gate, IF_flag, threads, sched_on_return, irr, devices, semas,
                   putc, early>>

\* schedule on return; the record stays on the stack until its task runs again.
test(t) ==
    /\ At(t, "test")
    /\ Goto(t, "iret")
    /\ IF sched_on_return THEN schedule(ready) ELSE UNCHANGED <<IF_flag, threads>>
    /\ UNCHANGED <<gate, sched_on_return, pics, devices, semas, putc, early>>

\* isr_exit restores the interrupted context, in which IF was set.
iret(t) ==
    /\ At(t, "iret")
    /\ stack' = [stack EXCEPT ![t] = Front(@)]
    /\ IF_flag' = TRUE
    /\ UNCHANGED <<gate, threads, sched_on_return, pics, devices, semas, putc, early>>

generic_isr(t) == entry(t) \/ isr(t) \/ eoi(t) \/ test(t) \/ iret(t)

---------------------------------------------------------------------------
(* main, and the tasks.                                                    *)

\* main's next statement of Boot, which handles the vectors of lines by h.
BootStep(i, lines, h) ==
    /\ At(Main, Boot[i])
    /\ Goto(Main, IF i < Len(Boot) THEN Boot[i + 1] ELSE "user")
    /\ gate' = [l \in Line |-> IF l \in lines THEN h ELSE gate[l]]
    /\ UNCHANGED <<cur, crashed, sched_on_return, devices, putc, early>>

\* Mutant: init_interrupt ends by enabling interrupts.
init_and_enable ==
    /\ BootStep(1, Line, "default_isr")
    /\ irr' = {} /\ master' = {} /\ slave' = {}
    /\ IF_flag' = TRUE
    /\ UNCHANGED <<ready, semas>>

\* pic_init initialises the controllers, which forget the pending edges, and
\* unmasks all lines.
init_interrupt ==
    /\ BootStep(1, Line, "default_isr")
    /\ irr' = {} /\ master' = {} /\ slave' = {}
    /\ UNCHANGED <<IF_flag, ready, semas>>

hw_timer_init ==
    /\ BootStep(2, {TIMER}, "systick_intr")
    /\ UNCHANGED <<IF_flag, ready, pics, semas>>

\* serial_enable_intr ends by enabling interrupts.
serial_init ==
    /\ BootStep(3, {SERIAL}, "serial_interrupt")
    /\ value' = [s \in Sem |-> 1] /\ waiting' = [s \in Sem |-> {}]
    /\ IF_flag' = TRUE
    /\ UNCHANGED <<ready, pics>>

kbd_init ==
    /\ BootStep(4, {KBD}, "kbd_interrupt")
    /\ UNCHANGED <<IF_flag, ready, pics, semas>>

\* From here on there are lists to schedule from.
sched_init ==
    /\ BootStep(5, {}, "none")
    /\ ready' = <<Main>> \o SetToSeq(Task \ {Main})
    /\ UNCHANGED <<IF_flag, pics, semas>>

ide_init ==
    /\ BootStep(6, {DISK}, "ide_interrupt")
    /\ UNCHANGED <<IF_flag, ready, pics, semas>>

main == \/ init_interrupt \/ hw_timer_init \/ serial_init
        \/ kbd_init \/ sched_init \/ ide_init

\* A task calls serial_putc.
serial_putc(t) ==
    /\ At(t, "user")
    /\ putc[t] > 0
    /\ Goto(t, "down")
    /\ putc' = [putc EXCEPT ![t] = @ - 1]
    /\ UNCHANGED <<gate, IF_flag, threads, sched_on_return, pics, devices, semas, early>>

---------------------------------------------------------------------------
(* The devices.                                                            *)

tick ==
    /\ ~crashed /\ TIMER \notin irr
    /\ irr' = irr \cup {TIMER}
    /\ UNCHANGED <<gate, IF_flag, stack, threads, sched_on_return, master, slave,
                   devices, semas, putc, early>>

\* An edge on another line.
Edge(l) ==
    /\ ~crashed /\ l \notin irr
    /\ events[l] > 0
    /\ events' = [events EXCEPT ![l] = @ - 1]
    /\ irr' = irr \cup {l}
    /\ UNCHANGED <<gate, IF_flag, stack, threads, sched_on_return, master, slave,
                   semas, putc>>

\* A byte arrives; the line has no edge while an unread byte holds it high.
key ==
    /\ Edge(KBD)
    /\ ~obf /\ obf' = TRUE
    /\ early' = (early \/ gate[KBD] # "kbd_interrupt")
    /\ UNCHANGED dr

\* A character arrives, once serial_enable_intr has set IER_RX.
receive ==
    /\ gate[SERIAL] = "serial_interrupt"
    /\ Edge(SERIAL)
    /\ ~dr /\ dr' = TRUE
    /\ UNCHANGED <<obf, early>>

\* A drive answers a command.
disk ==
    /\ gate[DISK] = "ide_interrupt"
    /\ Edge(DISK)
    /\ UNCHANGED <<obf, dr, early>>

---------------------------------------------------------------------------
\* main is at its first statement about interrupts, with IF clear since the
\* loader.
Init ==
    /\ gate = [l \in Line |-> "none"]
    /\ IF_flag = FALSE
    /\ stack = [t \in Task |-> <<Record(TASK, IF t = Main THEN Boot[1] ELSE "user", 0)>>]
    /\ cur = Main
    /\ ready = <<>>
    /\ sched_on_return = FALSE
    /\ irr = {} /\ master = {} /\ slave = {}
    /\ obf = FALSE /\ dr = FALSE
    /\ value = [s \in Sem |-> 0] /\ waiting = [s \in Sem |-> {}]
    /\ putc = [t \in Task |-> IF t \in Writer THEN MaxPutc ELSE 0]
    /\ events = MaxEvents
    /\ early = FALSE
    /\ crashed = FALSE

putc_step(t) == sema_down(t) \/ serial_putc_poll(t) \/ sema_up(t)

Next ==
    \/ main
    \/ \E t \in Task : generic_isr(t) \/ serial_putc(t) \/ putc_step(t)
    \/ \E l \in Line : Interrupt(l)
    \/ tick \/ key \/ receive \/ disk

Spec == Init /\ [][Next]_vars

---------------------------------------------------------------------------
(* Properties.                                                             *)

Gate == {"none", "default_isr", "systick_intr", "kbd_interrupt",
         "serial_interrupt", "ide_interrupt"}
PC   == Range(Boot) \cup {"user", "down", "poll", "up", "entry", "isr", "eoi",
                          "test", "iret"}

\* The kind of every variable.
TypeOK ==
    /\ gate \in [Line -> Gate]
    /\ IF_flag \in BOOLEAN
    /\ \A t \in Task : /\ Len(stack[t]) \in 1 .. MaxDepth + 1
                       /\ \A i \in 1 .. Len(stack[t]) :
                             stack[t][i] \in [irq : IF i = 1 THEN {TASK} ELSE Line,
                                              pc : PC, left : {0, 1}]
    /\ cur \in Task
    /\ ready \in Seq(Task)
    /\ sched_on_return \in BOOLEAN
    /\ irr \subseteq Line /\ master \subseteq 0 .. 7 /\ slave \subseteq 8 .. 15
    /\ obf \in BOOLEAN /\ dr \in BOOLEAN
    /\ value \in [Sem -> Nat] /\ waiting \in [Sem -> SUBSET Task]
    /\ putc \in [Task -> 0 .. MaxPutc]
    /\ DOMAIN events = {KBD, SERIAL, DISK} /\ \A l \in DOMAIN events : events[l] \in 0 .. MaxEvents[l]
    /\ early \in BOOLEAN /\ crashed \in BOOLEAN

\* The records that have not ended their interrupt.
Serving(l) == {p \in UNION {{t} \X (2 .. Len(stack[t])) : t \in Task} :
                  /\ stack[p[1]][p[2]].irq = l
                  /\ stack[p[1]][p[2]].pc \notin {"test", "iret"}}

\* Every in-service bit has exactly one handler that will end it, also while
\* the serial handler sleeps on some task's stack and the others come and go:
\* generic_isr's non-specific end of interrupt never clears another line's bit,
\* and no line stays blocked behind a bit nobody clears.
EveryBitIsServed ==
    /\ \A l \in Line : Cardinality(Serving(l)) <= 1
    /\ master = {MasterLine(l) : l \in {m \in Line : Serving(m) # {}}}
    /\ slave = {l \in Line : l >= 8 /\ Serving(l) # {}}

\* The global sched_on_return that task_tick sets still stands when
\* generic_isr tests it: no other interrupt has cleared it, on any stack.
TickReschedules ==
    \A t \in Task : Top(t).irq = TIMER /\ Top(t).pc = "test" => sched_on_return

\* schedule always finds a task, although the serial handler puts to sleep
\* whichever task it interrupted: a task that never writes sleeps in it only
\* while the owner of sema_write can run.  The exception is the boot, where
\* serial_init enables interrupts before sched_init has initialised the ready
\* list: a tick in between makes schedule follow a null list head.
FaultsOnlyBeforeScheduler == crashed => stack[Main][1].pc \in {"kbd_init", "sched_init"}

\* A byte the keyboard holds is announced: pending, or about to be read.  Only
\* a key pressed before kbd_init has set its gate is left unread by
\* default_isr, and then the line has no edge any more.
KeyAnnounced ==
    obf /\ ~early => KBD \in irr \/ \E p \in Serving(KBD) : stack[p[1]][p[2]].pc \in {"entry", "isr"}

\* A record of t is between its sema_down of sema_write and its sema_up.
Owner(t) == \E i \in 1 .. Len(stack[t]) :
                stack[t][i].pc \in {"poll", "up"} /\ t \notin waiting["sema_write"]

\* The serial handler waits on the very stack whose task is inside serial_putc:
\* that task cannot give the semaphore back.
OwnerAsleep == \E t \in waiting["sema_write"] :
                  Top(t).irq = SERIAL /\ stack[t][1].pc \in {"poll", "up"}

\* Whoever sleeps on sema_write, a task or the serial handler on the stack of
\* whichever task it interrupted, sleeps because a task that can run owns it.
\* The exception is the handler that interrupted the owner: it waits for the
\* task beneath itself, and the serial line stays in service for ever.
SleepersHaveAnOwner ==
    waiting["sema_write"] # {} /\ ~OwnerAsleep /\ ~crashed =>
        \E t \in Task : Owner(t) /\ t \in Range(ready)
=============================================================================
