# A verification project for the kernel

The repository is a small 32-bit x86 kernel: a loader, start-up code, a
preemptive round-robin scheduler with kernel tasks, spin locks and semaphores,
a page pool, an ATA disk driver under a block registry, and a timer, keyboard,
serial port and text console. It runs on one processor. This directory holds
TLA+ modules that model it, TLC configurations that check them, and TLAPS
proofs about them.

## Inventory

| Part | Source | State it keeps | Operations |
|---|---|---|---|
| scheduler | `kernel/sched.c`, `switch.S` | ready lists, list of all tasks, each task's status, pid, time slice | `sched_init`, `task_create`, `task_exit`, `task_suspend`, `task_resume`, `schedule`, `task_tick` |
| synchronisation | `kernel/sync.c` | the lock byte; count, lock and wait list of a semaphore | `spin_lock`, `spin_lock_alt`, `spin_unlock`, `sema_init`, `sema_down`, `sema_up` |
| lists | `lib/list.h` | `prev` and `next` of every node | `list_add`, `list_add_tail`, `list_del`, `list_pop`, `list_empty` |
| interrupt dispatch | `kernel/interrupt.c`, `isr-stubs.S`, `devices/pic.c` | handler table, `in_interrupt_flag`, `sched_on_return`, IF, the controllers | `generic_isr`, gates, end of interrupt |
| timer | `devices/hw_timer.c` | the chip's divisor | `hw_timer_config`, the tick |
| page pool | `kernel/mm.c`, `lib/kernel/bitmap.c` | the bitmap and its lock | `mm_init`, `mm_kget_pages`, `mm_kfree_pages` |
| ATA driver | `devices/ide.c` | per channel `sema_rw`, `sema_wait`; the adaptor's registers | `ide_init` (detect, identify, register), `ide_read`, `ide_write`, `ide_interrupt` |
| block registry | `devices/block.c` | list of block devices | register, unregister, look up by name, read, write |
| boot order | `kernel/init.c` | kernel page directory | `main` |
| serial port | `devices/serial.c` | `sema_write`; the chip's registers | `serial_init`, `serial_putc`, the receive handler |
| console | `devices/fb.c`, `kernel/utils.c` | cursor, frame buffer, `printk_buf` | `printk`, `fb_putc` |
| keyboard | `devices/kbd.c` | modifier flags | the handler: scan code to character |
| library | `lib/string.c`, `vsprintf.c` | none | copies, lengths, comparison, number conversion |
| loader and start-up | `boot/loader.S`, `boot/start.S` | none that survives | find and load the kernel, size memory, boot page tables |

How they interact. Tasks call the scheduler and the semaphores; a semaphore
calls `task_suspend` and `task_resume`, which move a task between its wait list
and the ready list. The timer's handler asks for `schedule` on return from the
interrupt; the disk's handler raises `sema_wait`. `task_create` takes pages
from the pool. `printk` is called from tasks and handlers alike. Everything
shares one processor: a task is interrupted between two instructions, its
frames stay on its own stack, and handlers run with IF clear.

What is hard: the spin locks do not disable interrupts, so a handler may spin
on a lock whose holder cannot run; `schedule` keeps a pointer it read from the
ready list across its own preemption, and so may dispatch a task that sleeps or
has exited; statuses and list membership are changed
by separate statements; a semaphore's wake-up passes through two locks; the
disk's interrupts race the driver's polling and its timeouts; the serial
handler may go to sleep on the stack of the task it interrupted, before its end
of interrupt; the console has no lock at all and is used by tasks and by the
keyboard's handler; scan codes come in bytes whose interrupts may be late; and
interrupts are on before there is a scheduler. `PROJECT.json` lists each hazard
at its line with the properties that cover it.

What makes each part correct:

- scheduler: the lists stay whole, no task is lost or in two lists, a task that
  exited never runs again and every ready task
  gets the processor;
- synchronisation: a lock excludes, a semaphore operation is atomic (which the
  code grants one waiter, not several), no wake-up is lost, a semaphore admits as
  many tasks as it has units;
- page pool: no page has two owners, no page leaks, first fit, a request fails
  only when no run is free, the bitmap fits its buffer;
- ATA driver: a read returns the sector it asked for, after its interrupt;
- block registry: a name finds the device registered under it (it does not, run
  `name_lookup`);
- interrupt dispatch: every line taken is ended exactly once, none stays blocked,
  a tick's wish to reschedule is not lost, whoever sleeps has someone to wake it;
- console: stores stay on the screen, the screen shows the text, a message is
  not mixed with another;
- keyboard: the flags are those of the keys held, what is printed is what was
  meant;
- library, timer and serial port: each call returns what it should;
- loader and start-up: the kernel found is loaded whole, the memory counted
  exists, the pool and the page tables cover it.

## Modules

| Module | Models | Composes |
|---|---|---|
| `LinkedList` | `lib/list.h` on a heap of pointers | |
| `Sched` | the steps of `sched.c`, `switch.S` and the spin lock | `LinkedList` |
| `Sync` | the semaphores of `sync.c`, called by tasks and by handlers | `Sched` |
| `Semaphore` | what a semaphore promises: atomic operations (abstract) | |
| `Kernel` | tasks running scripts of kernel calls, the tick, device interrupts; the properties | `Sync`, `Semaphore` |
| `KernelProofs` | theorems about `Kernel` | `Kernel` |
| `RingProofs` | theorems about the lists of `Kernel` while `main` alone waits | `KernelProofs` |
| `SemaphoreProofs` | theorems about the semaphores and the exit of `main` while no interrupt lands under a lock | `RingProofs` |
| `MCBoot`, `MCWorkers` | workloads for TLC | `Kernel` |
| `PageAllocator` | what the page pool promises: an atomic first-fit allocator (abstract) | |
| `PagePool` | `mm_kget_pages` and `mm_kfree_pages` over the loops of `bitmap.c`; its properties | `PageAllocator` |
| `PagePoolProofs` | theorems about `PagePool` | `PagePool` |
| `MCPagePool` | a small pool for TLC | `PagePool` |
| `Ide` | one channel of `ide.c` with two disks under `block.c`; its properties | `Semaphore` |
| `IdeProofs` | theorems about `Ide` | `Ide` |
| `MCIde` | two disks and two tasks for TLC | `Ide` |
| `Interrupts` | the controllers, the gates, `generic_isr` on the tasks' stacks, the four handlers and `main`'s order of initialisations; its properties | `Semaphore` |
| `InterruptProofs` | theorems about `Interrupts` | `Interrupts` |
| `MCInterrupts` | `main` and an idle task for TLC | `Interrupts` |
| `Console` | `printk` and `fb_putc`, one access to shared memory a step; its properties | |
| `Keyboard` | `kbd_interrupt`, the keyboard and its user, printing on the console; its properties | `Console` |
| `KeyboardProofs` | theorems about `Keyboard` and the console under it | `Keyboard` |
| `TypingProofs` | the theorem that what is typed is what is meant | `KeyboardProofs` |
| `MCKeyboard` | a small screen and five workloads for TLC | `Keyboard` |
| `Strings` | `string.c`, the registry's look-up, the identification strings | |
| `Printf` | `vsprintf`'s numbers and flags | |
| `Ports` | the timer's divisor and the serial chip's registers | |
| `Loader` | `loader.S`'s search and load, `start.S`'s memory sizing | |
| `Startup` | `mm_init` and `kernel_pg_dir_init` | |
| `Library` | one call of each function of the last five, and what it must return | `Strings`, `Printf`, `Ports`, `Loader`, `Startup` |
| `MCLibrary` | the arguments, and small pages and words, for TLC | `Library` |

The modules are layered as the code is. `Kernel` shows that the semaphores of
`sync.c` implement `Semaphore` under two conditions: no interrupt lands under a
spin lock, and `main` alone waits. With several waiters they do not: `schedule`
reads `next` without a lock (`sched.c:179`), a task that is to sleep stays
preemptible until line 210, and when it is woken it dispatches what it chose,
which may be a task that went to sleep meanwhile. That task's `sema_down` returns
without a unit, while the task is still in the wait list. `Ide`, where several
tasks wait, is built on `Semaphore` under the first condition and has this
dispatch as a step of its own (`choose_next`, `dispatch_stale`). `PagePool`
assumes of the scheduler only that a task gets the processor again and again.
`Interrupts` has both underneath, the semaphore as `Semaphore` and `schedule` as
a queue, and adds what they leave out: that a handler is entered through a
controller and ends there, on a stack that may be put aside meanwhile. The part
of `schedule` that can be preempted is one step there, so the stale dispatch is
left out of it.

### State and steps of the kernel model

A step is one C statement that touches shared state. `cur` is the task whose
stack the processor is on, `pc[t]` the statement task `t` executes next; a
preempted task keeps its `pc`. `ring` holds every `next` and `prev`, so a stale
or repeated `list_del` does to the lists what it does in C. `local[t]` is
`next` of `schedule` or `tsk_wait` of `sema_up`: values read under a lock, or
without one, and used later. `Interrupt(v)` clears IF; the handler then runs as
one step, because with IF clear nothing runs beside it. If it needs a spin lock
that is taken, its step is disabled: on the machine it spins for ever.
`schedule` from `cli` to `sti`, including the half of `switch_to` that runs on
the new stack, is one step for the same reason.

What a task does is a script, the calls it makes in order (`todo`). A page that
`mm_kget_page` hands out is named by the script, and is the task. All tasks
have `PRIO_DEFAULT`, as every caller in the repository asks for; the time slice
is then one tick, which `TickAssumption` states, so every tick reschedules.

### Where interrupts land

`IrqAt` says where the environment delivers interrupts:

- `"anywhere"` IF is set: the code as it is;
- `"unlocked"`: only where no spin lock is held, which is what the code would
  see if its spin locks disabled interrupts.

The code hangs under the first (run `boot_hang`), so liveness and everything
the hang would otherwise hide is checked under the second. Each run names the
weakest restriction its properties hold under.

### State and steps of the page pool

A step is one iteration of a loop of `bitmap.c`, or the straight-line code
between two of them; a task is preempted at any of them, with the pool's lock
held or spinning on it. `size_t` arithmetic is modulo `Size`: the end of a
search's group and the sum `page_no_start + page_count` wrap as in C. A task
frees any part of what it owns, whatever call gave it that, and may pass a run
that reaches outside the pool, or a count that makes the sum wrap; only then
the checks of `mm_kfree_pages` have work to do. Flags and addresses are left
out: a page is its number, and the address computations are its bijection.

### State and steps of the disk channel

A step is a register access or a poll, `sema_down` and `sema_up` being those of
`Semaphore`, with one addition. A task that sleeps has called `schedule`, and
may be preempted there after it has chosen whom to dispatch (`choose_next`). If
the chosen task sleeps by the time the first one is woken, it is dispatched all the
same (`dispatch_stale`): it goes on behind its `sema_down`, for `sema_rw` into the
channel and for `sema_wait` ahead of the interrupt. It stays in the wait list, and
what later list operations make of that is out of the module's reach: the tasks
stop, and `stray` records it. The properties say what holds until then. The registers keep what the driver wrote last: `device` selects
the drive for every access, and the address a command runs at is put together
from `lba` and the low four bits of `device`, as the drive does it. The drives
are external. A ready drive takes a command, is busy for any while, and asks
for data, ends or fails; it ignores a command while it is not ready, and raises
the interrupt when it has data to read, has stored data, or has failed. A poll
returns as soon as the drive answers or gives up before it does; `disturbed`
records that it did. Requests start when `ide_init` has ended. The model starts
behind the reset: each of the two drives is an ATA disk, a packet device or
absent, and shows one of the register values such a drive may show
(`Signatures`); `detect` is `check_disk_type` on those, with its rule that disk
1 is looked at only if disk 0 has not reported it as failed.

### State and steps of the interrupts

`gate` is the handler of each line, `irr`, `master` and `slave` are the
controllers. `stack[t]` holds the records of `generic_isr` on the stack of task
`t`, the lowest one being `t` itself; each record has the statement it is at. A
handler is several steps, although IF is clear, because the serial handler's
`sema_down` may leave it in the middle. `schedule` is the round robin of module
`Sched` in one step, with the null list head before `sched_init` as an outcome
of its own (`crashed`). What the handlers of keyboard and disk do beyond
reading their device is in `Keyboard` and `Ide`. Between the boot's statements
the devices may request at any time.

### State and steps of console and keyboard

The console's variables are shared without a lock, so a step is one access to
one of them. `vsprintf` writes one character of the message a step (`format`),
so two messages may end up mixed in the buffer. A cell's address is computed from
`cy` and then `cx`, and the store comes afterwards (`load_row`, `load_col`,
`store`); the sum of `++cx` and of `cy++` is kept in a register, as the build
does, and a task may be preempted between the load, the store and the comparison. A handler is not preempted: its steps run while it is not at rest.
`written`, `texts` and `overlapped` are history: what was given to `fb_putc`,
an actor's message and those `vsprintf` was writing since it began, and whether two actors were
in `fb_putc` at once. `ScreenShowsText` compares with a console without limits,
a roll of paper of which the last rows are seen.

Keys are pressed and released by a user in any order; each sends one byte or
two. `kbd_interrupt` reads a byte, both, or the prefix twice when the second is
not there yet, and decides, updates its flags and prints in one step up to
`fb_putc`. `meant` is what a key meant to its user when it was pressed: either control key is
a control key and the right alt key is an alt key. The code has it otherwise
(`kbd.c:93` reads `left_ctrl || right_alt`, and `right_ctrl` nowhere), so
`TypedIsMeant` claims nothing of what is pressed while the two readings differ
(`Crossed`). `mistimed` records that a second byte was missed or its interrupt
came twice.

### What the library's calls return

`Library` has no interleaving: a state is a function with its arguments, its
only step puts the result there. The functions are translated into operators,
memory being a function from addresses to characters, a page table one from
indices to entries; the properties state what the caller relies on, by other
means than the code: a number must read back as itself, a moved range must hold
what the source held, every address must map to its page. `startup` composes
the pool with the page tables, as `main` does. A checked property is the
conjunction of what is said of the calls of one kind: `TextsKept` of strings
and names, `NumbersReadBack` of `vsprintf`, `ChipsSetUp` of timer and serial
chip, `LoadsKernel` of the loader, `MemoryMapped` of the way from the BIOS's
memory map to the kernel's page tables; each conjunct is stated and explained
beside it. The code is not always right, and then the property says what its
callers or comments ask for, names the case in which the code does something else,
and claims nothing of it:

- names that `strcmp` confuses (`Confusable`); run `name_lookup` shows the look-up
  going wrong;
- an identification that fills its field, whose last character is lost;
- a width of a negative number, and the flags a conversion leaves behind (`Leaks`);
- timer rates whose divisor does not fit;
- in the loader, a drive whose last word is below the signature and that ends the
  scan (`EndsScan`), partitions that cross a multiple of 65536 sectors or are empty
  (`Misloads`); an empty one makes `loop` go round 65536 times, over the vectors and
  the loader itself, which the model shows as the outcome `"overwrites"`;
- a large memory region that does not start at 1 MB, and RAM that does not fit above
  `LOADER_PHYS_BASE`, whose addresses wrap.

The BIOS is one that does not keep its place in the e820 map in bits 8 to 15 of
`ebx`: `start.S:322` clears them when it prints a region.

## Runs

| Run | Question | Result |
|---|---|---|
| `boot_anywhere` | what the shipped workload, and one of two tasks creating tasks, keep under arbitrary interrupts | types, lock discipline, whole lists, no lost task, none in two lists, never the list head dispatched |
| `boot_unlocked` | what the boot gains when no interrupt lands under a spin lock | no deadlock, no return from `task_exit`, dying is final, blocked waiters, atomic semaphores, every ready task runs, every call returns |
| `boot_hang` | does `sched_init` return? | no: a tick under `list_slock` hangs the machine |
| `workers_rings` | does the list lock protect the ready list? | no: `next` is read without it |
| `page_pool` | two tasks getting and freeing pages | no page shared, none leaked, an atomic first-fit allocator, every call returns |
| `ide` | two drives of any kind detected, two tasks reading and writing, failing drives | only ATA drives get commands and all of them are identified; how many tasks are on the channel, until a stale dispatch; and while none of the named disturbances has happened, data moves for the sector asked for, errors are real, requests return |
| `ide_write` | has the drive stored the sector when `ide_write` returns? | no: a unit of `sema_wait` left by the identification ends the wait at once |
| `interrupts` | four lines, the serial handler asleep on any stack, from the boot on | every line in service has one handler that will end it, no tick is lost, a sleeper's owner can run unless the sleeper sits on it, a crash only before `sched_init`, no key unread but one from before `kbd_init` |
| `keyboard` | tasks and the handler printing at once, keys pressed and held | who brings a stray cursor back, whose text is shown, the whole screen when nothing overlaps; flags and characters, where the code agrees on what a control key is |
| `library` | each function that computes or initialises, over a set of arguments | it returns what its callers rely on, the exceptions being those the properties name |
| `serial_line` | is the serial line 8N1 after `serial_init`? | no: the register numbers are one too high |
| `name_lookup` | does the look-up return the disk of that name? | no: `hda` to `hdd` are one name to `strcmp`, the first disk answers for all |

Bounds. The boot workload is the repository's own: `main`, two idle tasks, the
semaphore of `sched_init` and the disk's, two disk waits. `MaxCount = 2` bounds
the count up to which the device raises its semaphore: one interrupt that
arrives early and one that wakes. In `workers_rings` two tasks take and give one
semaphore and exit, which is enough for a ready list to break. No property is
claimed of workloads in which several tasks wait. Ticks are not bounded.

The pool has three pages and eight values of `size_t`; counts are none, one,
two, and the largest, which no pool can serve and which wraps. So a run of two
can be refused for want of pages and for fragmentation, groups start again
behind a page in use, and every page has a neighbour. With `2 * N < Size`, as
on the machine, the end of a search cannot wrap into the pool. The theorems
below hold for every pool, task set and set of counts.

The disk channel has both disks, each there or not, and two tasks. `main`, which
has identified the disks, makes one request and the other task two: one of them
may wait for the other, and a third request may come while a woken task has not
gone on, so that a unit left behind lets a second user in (`1 + woken`) and a task
chosen by a sleeping one may sleep itself when it is dispatched. The one sector that
is asked for is above 2^24, where the device register is needed; it is the last of
disk 0, and disk 1 ends just before it. What the driver does with two tasks on the
channel is not claimed by any property.

The interrupts run has one writer and one task that never writes, one or two
requests of each device and unbounded ticks, two handlers nested on a stack:
so the serial handler meets the semaphore free, taken by the task it
interrupted and taken by the other one, and sleeps while every other line comes
and goes. A second character makes the handler meet its predecessor.

The screen has three columns and four rows, tab stops at two: every line wraps,
a message of three characters scrolls, a tab may stop or wrap. Two printing
tasks with two messages each meet at every pair of statements, which is enough
for each to load what the other incremented, or a task and the handler with two key
presses, or the keyboard alone with three presses, of letters and controls, of
seven keys with shifts, caps lock and alt, or of five with both control keys and
the right alt key: enough to hold two modifiers across a third key and to miss a
second byte.

The library has ints of 8 bits with every value in every conversion, memories
of six characters with every range, up to four disks looked up by their names and
by two that no disk has, pages of 64 bytes with 16
entries, so that a few dozen pages fill tables, the boot tables are whole or
not and the address space wraps. `mm_init` alone is run on the sizes where a
page more is taken for the bitmap. The timer has its real numbers. The loader
has registers that count to 8, a cap of 4 sectors and room for 6, one and two drives with
any of two partitions, unreadable sectors, and first sectors on both sides of
a wrap; memory sizing is in kB, with real numbers.

Deadlock. `CHECK_DEADLOCK FALSE` appears only where interrupts land anywhere:
there the machine really does hang, as `boot_hang` shows; in the three runs of
`Library`, where a call returns once; in `interrupts`, where the machine may
have faulted or wait for itself, and in `keyboard`, where everything is printed
at some time; and in the two
runs of `Ide`, where the channel comes to rest when all requests are made, and
where a command given to a drive that is not ready is never answered. In the
other runs TLC also shows that some step is always possible.

Fairness. `Fairness` in `Kernel` asks that ticks keep coming, that a handler
that can finish does, and, as strong fairness, that a task which is on the
processor again and again executes: a tick period is many thousand statements
long, so a tick does not arrive before every statement for ever. Device
interrupts are not assumed to come; no property depends on one.

`PagePool` and `Ide` rely on that scheduler: strong fairness of the statements
of a task, as the task runs again and again and meets the lock free, or the
interrupt served. That a spinning task meets the lock free is the one thing
more than `ReadyRuns` it takes: the holder needs a few instructions of a tick's
time. `Ide` also assumes that a drive ends each command and that a pending
interrupt is served.

## Proofs

`KernelProofs` proves, for every set of tasks and semaphores, every workload
and interrupts landing wherever `IrqAt` says:

- `TypeCorrect`: `Spec => []TypeOK`;
- `NoNullLink`: `Spec => []ListsLinked`, no list operation follows a null
  pointer although tasks are preempted between and inside list operations;
- `SpinLocksExclude`: `Spec => []LockDiscipline`.

Neither `TypeOK` nor `ListsLinked` is inductive. A step relinks the task in
`local[t]` or the argument of the call `t` is in, so `TypeInv` adds `CallOK`
(the statement a task is at belongs to the call it is in), `LocalOK` (what a
task read and will use is linked, or a task) and `SafeHeap` (pointers come in
pairs and lead to nodes that have pointers). The lemmas on `list_add`,
`list_add_tail` and `list_del` show that they keep a heap safe and never unlink
a node; `LockStep`, `StatusStep` and `RelinkStep` do the building blocks once,
and each statement of the code is one case that cites them. `LockDiscipline` is
then inductive relative to `TypeInv`: each statement keeps, takes or gives one
lock, which is read off the regions. The assumptions are `SchedAssumption`,
`SyncAssumption` and `KernelAssumption`: distinct names and well-typed
constants.

`RingProofs` proves, for every set of tasks and semaphores, any number of calls
and interrupts wherever they land, that a workload of `MainAlone` keeps the
lists:

- `ListsStayRings`: `MainAlone /\ Spec => []RingsOK`;
- `TasksAreFound`: `MainAlone /\ Spec => []NoTaskLost`;
- `NeverOnTwoLists`: `MainAlone /\ Spec => []OneList`.

`MainAlone` is a hypothesis on the workload, not an assumption: `main` creates a
task before all else, as `sched_init` does, and the other tasks create tasks and
raise semaphores, but neither wait nor exit. The shipped workload is of this kind
(`BootMainAlone`, which TLC evaluates on the runs of `MCBoot`). It cannot be
dropped: `workers_rings` shows the ready list broken by a task that `schedule`
has chosen, without a lock, and that suspends itself before it is dispatched.
With one task that leaves the ready list, what `schedule` chose is still there
when it is used, unless the choice is `main` itself; and then `main` does not run
and cannot leave.

The inductive invariant `AllInv` adds to `TypeInv` and `LockDiscipline`: `WorkInv`,
what the workload says of calls under way; `Rings`, that every head has a ring of
tasks and no two rings share one; `OthersPlaced`, that a task other than `main` is in
the ready list from the statement of `task_create` that puts it there on; and
`MainPlaced`, which reads the place of `main` off its program counter: in the
ready list, in the list of the semaphore it went down on, unlinked between the
two statements that move it, or popped and carried by the one task (`Wakers`)
that is waking it. `Peer` says that the ready list has a task besides `main`, or
`main` has not yet left it: therefore `schedule` finds a task, never the head.
`Members` is the least set closed under `next`, so that "nothing else is on the
list" is what a proof can use without induction; the lemmas `AddMembers` and
`DelMembers` say what `list_add` and `list_del` make of a ring and that they leave
every other one alone. One lemma per operation of `sched.c` and `sync.c` then
follows the lists through its statements.

`SemaphoreProofs` proves, for the same workloads when no interrupt lands under a
spin lock (`MainAlone` and `IrqAt = "unlocked"`):

- `SemaphoresAtomic`: `Spec => SemaphoreSpec`, `sync.c` on the lists of
  `sched.c` implements the atomic `Semaphore`;
- `SleepersBlocked`: `WaitersBlocked` always holds;
- `NobodyReturns`: `ExitNeverReturns` always holds;
- `DyingStays`: `DyingIsFinal`.

`IrqAt` is a hypothesis, since the kernel does not meet it: under a lock a tick
may switch tasks, or spin for ever (`boot_hang`). With it, `HolderRuns` is
inductive: whoever is inside a lock's statements is on the processor, so nobody
dispatches between the stores of `task_suspend`, `task_exit` and `sema_up`.
`Tidy` says what `main`'s status is: `TASK_DYING` exactly from the store of
`task_exit` on (`Leaving`), and `TASK_BLOCKED` while it is in a wait list. For
this the late stores have to be met one by one: `schedule` stores
`TASK_RUNNING` into the task it chose without a lock, which the ring invariant
shows to be one that has not left the ready list, and `sema_up` puts back the
task it popped, which is not in a list of its own any more. `NoUnit` says that from the test in `sema_down` to the
end of `task_suspend` the semaphore has no unit, as the test and the `list_add`
are under one lock. The mapping takes a unit away while a task is at `up_pop`,
between the increment and the `list_del`. Then the abstract steps are single
statements: the test of `sema_down` that succeeds is `Take`, the `list_add` of
`task_suspend` is `Sleep`, the look at the wait list of `sema_up` is `Raise`,
whether it pops a task or not, and so is the whole of a handler's `sema_up`;
every other statement is a stutter.

`PagePoolProofs` proves, for every pool, every set of tasks and counts, and
every `size_t` more than twice the pool:

- `TypeCorrect`, `PagesExclusive` and `MapCorrect`: `TypeOK`, `NoSharedPage`
  and `BitsMatch` always hold;
- `ImplementsAllocator`: `Spec => AllocatorSpec`, the pool implements the
  atomic allocator `PageAllocator`.

The inductive invariant says what a task knows where it is. `Mutex`: at most one
task is between the lock and the unlock, and none while `slock` is 1. `SearchOK`:
the pages of the group behind `idx` are free, and no run of that length starts
before the group; this is what makes a refusal right and the run found the
first. `GrantOK` and `FreeOK`: how far the loop that writes bits has come, and
that a count which wraps makes it do nothing. `NoSharedPage` is inductive only
with `BitsMatch`, as a search knows of the others' pages through the bits alone.
The refinement maps a call's pages to `wanted`, `ret` and `freeing`: the call
takes effect in `got`, `fail` or `freed`, and every loop iteration is a stutter.
The assumption is `PoolAssumption`.

`IdeProofs` proves, for every set of tasks, every set of sectors asked for and
any two drives, `TypeCorrect`, `ChannelExcludes`, `TransfersMatch`,
`DrivesFound` and `ErrorsAreReal`: `TypeOK`, `OneUser`, `TransfersOwnSector`,
`FindsDrives` and `ErrorsReal` always hold. `UnitsOK` counts, as long as there was no `stray` dispatch: the units of
`sema_rw` and the tasks it has admitted add up to `1 + woken`, as each
`sema_up` that wakes a task also makes a unit. `OneUser` is only its
consequence; it needs `SleepOK`, that a waiter sleeps where it called. The other
theorems speak of a channel that is not `disturbed`, that is, no poll has given
up, no second task is on it and no sleeping task was dispatched. `Alone` then holds, and `CommandOK` says
statement by statement what the one user knows: which drive the device register
selects, what address the registers add up to, and in which states its command
can be. A unit of `sema_wait` left by an earlier command does not break it,
since `ide_read` polls again after its `sema_down`. Lemmas on the registers show
that the address written in parts is decoded as the same number, for which a
disk must have at most 2^28 sectors (`IdeAssumption`): the identify command
reports no more in the words the driver reads, and LBA28 addresses no more.

`InterruptProofs` proves, for every finite set of tasks, any depth of nesting
and any number of requests, the six invariants the run `interrupts` checks:
`TypeCorrect`, `BitsServed`, `TicksReschedule`, `KeysAnnounced`,
`SleepersOwned` and `FaultsBeforeScheduler`. The inductive invariant goes
record by record through all stacks. `AtomicOK`: a handler other than the
serial port's is on top of the running task's stack with IF clear until its
`test`. Therefore its acknowledge and its end of interrupt meet the same
controllers, but for the bits of serial handlers that sleep, and these have a
lower priority than any line that was let through. `BitsOK` is the correspondence of bits and
records; that a line has one record (`Alone`) follows from its bit blocking it.
`TickOK` and `KeyOK` rest on `AtomicOK` in the same way, and `GatesOK` and
`BootOK` say which handlers `main` has installed, as a key that meets
`default_isr` is lost. `HoldOK`: if `sema_write` has no unit, or has a waiter,
some record is past its `sema_down` and not asleep. Two records cannot be
asleep on one stack (`SleepOK`), so the holder is either a ready task or lies
under the waiting handler, which is `OwnerAsleep`. For
`FaultsBeforeScheduler`, not all tasks can be asleep at once: a task that never
writes sleeps only in a serial handler, and a holder that cannot run lies under
one. There is one serial handler at a time, because its line stays in service,
so both would be the same task, although the holder writes.
`InterruptsAssumption` asks for just this task: `sched_init`
creates the idle task, which never calls `serial_putc`.

`KeyboardProofs` proves, for every set of tasks, every workload of messages and
keys, and every size of screen and buffer, `TypeCorrect`, `CursorReturns` and
`TextShown`: `TypeOK`, `CursorKept` and `TextOfSomeMessage` always hold. How far
the cursor strays is not bounded: two actors may increment, in turn, what the
other has stored. `CursorOK` says what holds instead: whoever stored a cursor
outside the screen last is still before the test that will see it, at `newline`
for `cx` and at `last_row` for `cy`. Lost updates do not disturb this, since an
actor that stores a smaller value brings the cursor back itself. An address out of range has been read before that, so it may still be stored to
when the cursor is back; the claim is about what the loads see. `TextOK` says of
every position of `printk_buf` that an actor has written, or has still to print,
that a message written since has this character there or ended there (`WritesOK`,
`PrintsOK`): each single store of `vsprintf` keeps it, as an actor that begins adds
its message to the `texts` of all and takes over those being written.
`FirstOK` is about the boot, when `init_cursor` may have left the cursor below
the screen: `main` prints alone, and the end of its first line scrolls the
screen, for which `KeyboardAssumption` asks that the first message, that of
`mm_init`, has such an end. `ConsoleAssumption` bounds the messages by the
buffer.

`TypingProofs` proves, under the same assumptions and for any number of key
presses, `TypedMeant`: `TypedIsMeant` always holds. The handler works on bytes
the user sent earlier, so `Tracking` names what the state does not: the moves of
keys `K` and the user's moments `S` before each (keys held, caps lock, bytes sent
and characters meant so far), from the first move ever made. Those from `lo` on
wait, each with its bytes at known places of the queue (`Queued`) and its meaning
in `meant` (`MeantAt`), and the handler's flags and text are those of moment
`lo`. Sequence and set lemmas do the rest: a press appends a move (`Joins`), a
byte read drops the first one (`Advances`), or leaves its second half when the
prefix was read twice (`AdvancesHalf`); `LetterMeans` shows that the keymap
groups print the meaning when the flags are those of that moment and not `Crossed`. `Repeated`
says that a byte read twice is a second one, so it never touches shift or caps
lock, which is why these follow the user whatever `mistimed` says.

Model-checked only: `ScreenShowsText`, which folds over all that was
written, and the calls of `Library`, whose folds and
recursive functions are out of the prover's reach, as is liveness with the
fairness it rests on. The runs `interrupts`, `keyboard` and `library` check
safety only; `keyboard` and `interrupts` have no fairness to assume of a user or
of a line.

## Plan

Written in this order, the most important behaviour first: the scheduler and
its semaphores, the page pool, the disk channel, the interrupts, console and
keyboard, the library and what runs before `main`. What is left, in order:

1. What semaphores keep when several tasks wait and exit. They are not atomic, as
   `Ide` spells out, and `workers_rings` shows the ready list break; what is left is
   an invariant of a semaphore's own list, which its lock protects, and a model of
   what the tasks do after a stale dispatch.
2. The calls of `Library`, should induction over their folds come into reach.

## Not modelled

- The mode switches of `start.S` and `loader.S`, their messages, the A20 line,
  and port I/O below the registers the drivers rely on: they have no states or
  interleavings that a model would show more of than the text.
- `spin_lock_alt`, `block_unregister` and `memcmp`: nothing calls them.
- The port writes of `reset_adaptor`, whose result only bounds its own waits.
- What the driver does after a poll has given up: it has no recovery.
- The leak of a task that exited: `task_sched_post_proc` tests `!prev` where
  its comment means `prev`, so the branch is never taken.
- What pids are for: `allocate_pid` is modelled, but it reads the counter again
  after its lock, so two tasks that create at once may give one pid to both; no
  code creates so and no caller uses a pid, so no property says they differ.
- Exceptions, trap and system gates: the kernel takes none in its own code.
- Build scripts, the linker script and headers of types.
