------------------------------- MODULE Kernel -------------------------------
(***************************************************************************)
(* The running kernel: the tasks of module Sched, their semaphores, and    *)
(* the interrupts of kernel/interrupt.c that reach the scheduler - the     *)
(* system tick and the devices whose handler is a sema_up (ide_interrupt). *)
(*                                                                         *)
(* What a task does is a script: the kernel calls it makes, in order.      *)
(* Between two calls it computes, which changes nothing here; after the    *)
(* last it computes for ever, as idle_proc does.                           *)
(***************************************************************************)
EXTENDS Sync

CONSTANTS
    Scripts,     \* the scripts a behaviour may start with: [Task -> Seq(Call)]
    IrqSem,      \* the semaphores raised by a device interrupt
    MaxCount,    \* bound: a device raises its semaphore up to this count
    IrqAt        \* where interrupts land: "anywhere" IF is set, as in the
                 \* code; "unlocked", where no spin lock is held

VARIABLES
    isr,   \* the interrupt being served: "none", "tick" or a member of IrqSem
    todo   \* todo[t]: the calls t has not made yet

vars == <<schedVars, count, isr, todo>>

ASSUME KernelAssumption ==
    /\ Scripts \subseteq [Task -> Seq(Call)]
    /\ IrqSem \subseteq Sem
    /\ MaxCount \in Nat
    /\ IrqAt \in {"anywhere", "unlocked"}
    /\ {"none", "tick"} \cap Sem = {}

PRIO_DEFAULT == 31

\* task_struct_init's DIV_ROUND_UP(priority, PRIO_DEFAULT): one tick, so that
\* task_tick's --time_slice_res <= 0 holds and every tick reschedules.
TimeSlice(priority) == (priority + PRIO_DEFAULT - 1) \div PRIO_DEFAULT
ASSUME TickAssumption == TimeSlice(PRIO_DEFAULT) - 1 <= 0

---------------------------------------------------------------------------
\* The task makes its next call.
Invoke(t) ==
    /\ cur = t /\ IF_flag /\ pc[t] = "user"
    /\ todo[t] # <<>>
    /\ call' = [call EXCEPT ![t] = Head(todo[t])]
    /\ todo' = [todo EXCEPT ![t] = Tail(todo[t])]
    /\ pc' = [pc EXCEPT ![t] = Head(todo[t]).op]
    /\ UNCHANGED <<cur, IF_flag, status, ring, lock, rest, count, isr>>

\* The processor executes one statement of task t.
TaskStep(t) ==
    \/ Invoke(t)
    \/ SchedStep(t) /\ UNCHANGED <<count, isr, todo>>
    \/ (sema_down(t) \/ sema_up(t)) /\ UNCHANGED <<isr, todo>>

---------------------------------------------------------------------------
InterruptPoint == IrqAt = "unlocked" => \A l \in Lock : lock[l] = 1

\* The processor takes interrupt v through an interrupt gate, which clears IF.
Interrupt(v) ==
    /\ IF_flag /\ cur \in Task
    /\ InterruptPoint
    /\ v \in IrqSem => count[v] < MaxCount
    /\ isr' = v
    /\ IF_flag' = FALSE
    /\ UNCHANGED <<cur, pc, call, status, ring, lock, rest, count, todo>>

\* next_task_to_run: a task still TASK_RUNNING goes to the tail.
requeue(r, t) == list_add_tail(list_del(r, t), t, Ready)

\* generic_isr for the system tick: task_tick sets sched_on_return, and after
\* the end of interrupt schedule runs on the interrupted task's stack.  It
\* spins on list_slock only to requeue a TASK_RUNNING task.
TickIsr ==
    LET requeues == status[cur] = "TASK_RUNNING" IN
    /\ isr = "tick"
    /\ requeues => lock["list_slock"] = 1
    /\ ring' = IF requeues THEN requeue(ring, cur) ELSE ring
    /\ switch_to(list_first(ring, Ready))
    /\ isr' = "none"
    /\ UNCHANGED <<pc, call, local, lock, next_pid, pid, count, todo>>

\* generic_isr for a device whose handler is sema_up(s); iret restores IF.
DeviceIsr(s) ==
    /\ isr = s
    /\ sema_up_in_isr(s)
    /\ isr' = "none"
    /\ IF_flag' = TRUE
    /\ UNCHANGED todo

---------------------------------------------------------------------------
Init ==
    /\ SchedInit
    /\ SyncInit
    /\ isr = "none"
    /\ todo \in Scripts

Vector == {"tick"} \cup IrqSem

Next ==
    \/ \E t \in Task : TaskStep(t)
    \/ \E v \in Vector : Interrupt(v)
    \/ TickIsr
    \/ \E s \in IrqSem : DeviceIsr(s)

Spec == Init /\ [][Next]_vars

\* The tick is periodic and handlers run to their end.  A task that is on the
\* processor again and again executes: a tick period is many statements long.
Fairness ==
    /\ WF_vars(Interrupt("tick"))
    /\ WF_vars(TickIsr)
    /\ \A s \in IrqSem : WF_vars(DeviceIsr(s))
    /\ \A t \in Task : SF_vars(TaskStep(t))

FairSpec == Spec /\ Fairness

\* A workload like the one the kernel boots with: main alone waits and exits,
\* and before all else it creates a task, as sched_init does.
MainAlone ==
    \A s \in Scripts :
        /\ \A t \in Task \ {InitTask} :
              \A i \in 1..Len(s[t]) : s[t][i].op \in {"create", "sema_up"}
        /\ s[InitTask] # <<>> => /\ Head(s[InitTask]).op = "create"
                                /\ Head(s[InitTask]).arg # InitTask

---------------------------------------------------------------------------
(* Properties.                                                             *)

PC == {"user", "schedule", "sched_check", "sched_lock", "sched_del", "sched_add",
       "sched_unlock", "sched_switch", "exit", "exit_status", "exit_del",
       "exit_unlock", "exit_returned", "suspend", "suspend_status",
       "suspend_del", "suspend_add", "suspend_unlock", "sema_down", "down_test",
       "down_unlock", "down_fast", "sema_up", "up_inc", "up_pop", "up_unlock",
       "resume", "resume_test", "resume_add", "resume_unlock", "create",
       "create_all_lock", "create_all_add", "create_all_unlock", "pid",
       "pid_inc", "pid_unlock", "pid_read", "create_lock", "create_add",
       "create_unlock", "create_status"}

\* The kind of every variable; in particular the processor always has a list
\* node to run on, never a null or a dangling task (switch_to of schedule).
TypeOK ==
    /\ cur \in Node
    /\ IF_flag \in BOOLEAN
    /\ pc \in [Task -> PC]
    /\ call \in [Task -> Call]
    /\ local \in [Task -> Node \cup {NULL}]
    /\ status \in [Task -> Status]
    /\ ring \in [next : [Node -> Node \cup {NULL}], prev : [Node -> Node \cup {NULL}]]
    /\ lock \in [Lock -> {0, 1}]
    /\ pages \subseteq Task
    /\ all_tasks_list \subseteq Task
    /\ next_pid \in Nat
    /\ pid \in [Task -> Nat]
    /\ count \in [Sem -> Nat]
    /\ isr \in {"none"} \cup Vector
    /\ todo \in [Task -> Seq(Call)]

\* The statements between taking and releasing each lock.
ListRegion == {"sched_del", "sched_add", "sched_unlock", "exit_status", "exit_del",
               "exit_unlock", "suspend_status", "suspend_del", "suspend_add",
               "suspend_unlock", "resume_test", "resume_add", "resume_unlock",
               "create_all_add", "create_all_unlock", "create_add", "create_unlock"}
PidRegion  == {"pid_inc", "pid_unlock"}
SemRegion  == {"down_test", "down_unlock", "down_fast", "suspend", "suspend_status",
               "suspend_del", "suspend_add", "suspend_unlock", "up_inc", "up_pop",
               "up_unlock", "resume", "resume_test", "resume_add", "resume_unlock"}

Holds(t, l) ==
    \/ l = "list_slock" /\ pc[t] \in ListRegion
    \/ l = "pid_slock" /\ pc[t] \in PidRegion
    \/ l \in Sem /\ pc[t] \in SemRegion /\ call[t].arg = l

\* A spin lock is taken exactly while one task is inside the statements it
\* protects, wherever that task was preempted and whatever woke it
\* (spin_lock and spin_unlock of sync.c and every region they bracket).
LockDiscipline ==
    \A l \in Lock :
        /\ lock[l] = 0 <=> \E t \in Task : Holds(t, l)
        /\ \A t, u \in Task : Holds(t, l) /\ Holds(u, l) => t = u

\* No list operation follows a null pointer: every list_del, list_add and
\* list_pop of sched.c and sync.c works on linked nodes, even when a task was
\* preempted in the middle of schedule, task_exit or task_suspend.
ListsLinked ==
    /\ Closed(ring, NULL)
    /\ \A h \in Head_ \cup {cur} : Linked(ring, h, NULL)

\* The ready list and every wait list are closed rings with their own head
\* only: no statement of one task splices a list another one is changing.
RingsOK == \A h \in Head_ : IsRing(ring, h, Head_ \ {h})

Waking(t)   == \E u \in Task : /\ local[u] = t
                               /\ pc[u] \in {"resume", "resume_test", "resume_add"}
Creating(t) == \E u \in Task : /\ call[u] = [op |-> "create", arg |-> t]
                               /\ pc[u] \notin {"user", "create"}
Exited(t)   == /\ call[t].op = "exit"
               /\ pc[t] \notin {"user", "exit", "exit_status", "exit_del"}

\* What schedule makes current is a task, never the head of the ready list: the
\* list it takes `next' from does not run empty.  A task that does not run can
\* be found again: it is ready, waits in the list of the semaphore it went down
\* on, is between two lists in the hands of a task that holds list_slock or
\* wakes or creates it, or has exited.
NoTaskLost ==
    /\ cur \in Task
    /\ \A t \in pages \ {cur} :
          \/ t \in Members(ring, Ready)
          \/ call[t].op = "sema_down" /\ t \in Members(ring, call[t].arg)
          \/ Waking(t)
          \/ Creating(t)
          \/ Exited(t)
          \/ Holds(t, "list_slock")

\* A task in a wait list is TASK_BLOCKED, so that task_resume puts it back on
\* the ready list when sema_up pops it.
WaitersBlocked ==
    \A s \in Sem : \A t \in Members(ring, s) \cap Task : status[t] = "TASK_BLOCKED"

\* kernel/sched.h, queued_tasks: a task is queued in the ready list or in one
\* wait list, never in two lists.  Not so when several tasks wait: a stale `next'
\* (sched.c:179) dispatches one that is in a wait list, and the list operations it
\* makes then are those of a ready task.
OneList ==
    LET queued == UNION {{h} \X (Members(ring, h) \cap Task) : h \in Head_}
    IN  \A x, y \in queued : x[2] = y[2] => x[1] = y[1]

\* task_exit does not return: what has exited is never dispatched again.
\* For main, boot/start.S says so.
ExitNeverReturns == cur \in Task => pc[cur] # "exit_returned"

\* A task marked TASK_DYING by task_exit gets no other status: not from
\* schedule's store to next->status, task_resume's or task_create's.
DyingIsFinal ==
    [][\A t \in Task : status[t] = "TASK_DYING" => status'[t] = "TASK_DYING"]_vars

\* sema_down and sema_up take effect atomically, whatever interleaves with
\* their statements: the unit sema_up adds appears with its wake-up.  Claimed for
\* workloads of MainAlone: of several waiters one may be dispatched by a stale
\* `next' (sched.c:179) and return from sema_down without a unit.
Sema == INSTANCE Semaphore WITH
    value   <- [s \in Sem |-> count[s] -
                    Cardinality({t \in Task : pc[t] = "up_pop" /\ call[t].arg = s})],
    waiting <- [s \in Sem |-> Members(ring, s) \cap Task]
SemaphoreSpec == Sema!Spec

\* The round robin is fair: a task in the ready list gets the processor.
ReadyRuns == \A t \in Task : (t \in Members(ring, Ready)) ~> (cur = t)

\* A sema_down that a task's sema_up answers returns, and so do the other
\* kernel calls of a task: no wake-up is lost and no lock is waited for in vain.
CallsReturn ==
    \A t \in Task :
        (pc[t] \notin {"user", "exit_returned"} /\ call[t].op # "exit"
            /\ call[t].arg \notin IrqSem)
        ~> (cur = t /\ pc[t] = "user")
=============================================================================
