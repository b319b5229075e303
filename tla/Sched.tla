------------------------------- MODULE Sched -------------------------------
(***************************************************************************)
(* kernel/sched.c, kernel/switch.S and the spin lock of kernel/sync.c on   *)
(* the one processor the kernel runs on.                                   *)
(*                                                                         *)
(* The processor executes the statements of one task, cur.  A step is one  *)
(* C statement that touches shared state: between any two of them, while   *)
(* IF is set, an interrupt may be taken (module Kernel).  pc[t] is where   *)
(* task t is; it keeps its value while t is preempted, because a preempted *)
(* task's frames stay on its own stack.  Tasks are created with            *)
(* PRIO_DEFAULT, as every caller in the repository does, so one ready list *)
(* stands for ready_task_list[PRIO_DEFAULT], the only one schedule reads.  *)
(***************************************************************************)
EXTENDS Integers, Sequences, LinkedList

CONSTANTS
    Task,      \* the task_struct pages the pool can hand out
    InitTask,  \* the task main() runs on
    Sem,       \* the semaphores; each also names its wait list and its slock
    Ready,     \* the head of ready_task_list[PRIO_DEFAULT]
    NULL

VARIABLES
    cur,            \* the task whose stack %esp points into: `current'
    IF_flag,        \* the interrupt flag of EFLAGS
    pc,             \* pc[t]: the statement task t executes next
    call,           \* call[t]: the kernel call t is in, with its argument
    local,          \* local[t]: `next' of schedule, `tsk_wait' of sema_up
    status,         \* task_struct.status
    ring,           \* every list_head of the scheduler and the semaphores
    lock,           \* spinlock_t.lock: 1 free, 0 taken
    pages,          \* the task_struct pages in use
    all_tasks_list, \* the tasks on the list of all tasks
    next_pid,       \* the static of allocate_pid
    pid             \* task_struct.pid

schedVars == <<cur, IF_flag, pc, call, local, status, ring, lock, pages,
               all_tasks_list, next_pid, pid>>

Status == {"TASK_RUNNING", "TASK_READY", "TASK_BLOCKED", "TASK_DYING"}
Lock   == {"list_slock", "pid_slock"} \cup Sem
Head_  == {Ready} \cup Sem
Node   == Task \cup Head_

Call   == [op : {"create"}, arg : Task] \cup [op : {"exit"}, arg : {NULL}]
          \cup [op : {"sema_down", "sema_up"}, arg : Sem]

ASSUME SchedAssumption ==
    /\ InitTask \in Task
    /\ Ready \notin Task \cup Sem
    /\ Task \cap Sem = {}
    /\ NULL \notin Node
    /\ {"list_slock", "pid_slock"} \cap Sem = {}

---------------------------------------------------------------------------
(* Building blocks of the steps.                                           *)

\* The processor executes a statement of task t at from and goes on at to.
Step(t, from, to) ==
    /\ cur = t
    /\ IF_flag
    /\ pc[t] = from
    /\ pc' = [pc EXCEPT ![t] = to]
    /\ UNCHANGED <<cur, IF_flag, call>>

rest == <<local, pages, all_tasks_list, next_pid, pid>>

\* Mutant: the lock is taken without waiting for it.
spin_lock_no_wait(t, l, from, to) ==
    /\ Step(t, from, to)
    /\ lock' = [lock EXCEPT ![l] = 0]
    /\ UNCHANGED <<status, ring, rest>>

spin_lock(t, l, from, to) ==
    /\ Step(t, from, to)
    /\ lock[l] = 1
    /\ lock' = [lock EXCEPT ![l] = 0]
    /\ UNCHANGED <<status, ring, rest>>

spin_unlock(t, l, from, to) ==
    /\ Step(t, from, to)
    /\ lock' = [lock EXCEPT ![l] = 1]
    /\ UNCHANGED <<status, ring, rest>>

SetStatus(t, from, to, tsk, s) ==
    /\ Step(t, from, to)
    /\ status' = [status EXCEPT ![tsk] = s]
    /\ UNCHANGED <<ring, lock, rest>>

Relink(t, from, to, r) ==
    /\ Step(t, from, to)
    /\ ring' = r
    /\ UNCHANGED <<status, lock, rest>>

---------------------------------------------------------------------------
(* Switching.                                                              *)

\* The caller of schedule that t returns to.
ReturnFrom(t) == IF call[t].op = "exit" THEN "exit_returned" ELSE "user"

\* task_sched_post_proc, run on the new task's stack with the task that was
\* switched away from.  The code tests !prev where it means prev.
task_sched_post_proc(prev) ==
    IF prev = NULL /\ status[prev] = "TASK_DYING" /\ prev # InitTask
    THEN /\ all_tasks_list' = all_tasks_list \ {prev}
         /\ pages' = pages \ {prev}
    ELSE UNCHANGED <<all_tasks_list, pages>>

\* schedule from cli() to sti(), entered with the choice next already made.
\* The other half of the switch - the new task leaving its own schedule, or
\* switch_initial - only calls task_sched_post_proc and sti, so it is here.
switch_to(next) ==
    /\ status' = IF next \in Task
                 THEN [status EXCEPT ![next] = "TASK_RUNNING"] ELSE status
    /\ cur' = next
    /\ IF next # cur THEN task_sched_post_proc(cur)
                     ELSE UNCHANGED <<all_tasks_list, pages>>
    /\ IF_flag' = TRUE

\* schedule, called by a task.  local[t] is `next', read before the current
\* task is put at the tail and used after it.
schedule(t) ==
    \/ /\ Step(t, "schedule", "sched_check")
       /\ local' = [local EXCEPT ![t] = list_first(ring, Ready)]
       /\ UNCHANGED <<status, ring, lock, pages, all_tasks_list, next_pid, pid>>
    \/ /\ Step(t, "sched_check",
               IF status[t] = "TASK_RUNNING" THEN "sched_lock" ELSE "sched_switch")
       /\ UNCHANGED <<status, ring, lock, rest>>
    \/ spin_lock(t, "list_slock", "sched_lock", "sched_del")
    \/ Relink(t, "sched_del", "sched_add", list_del(ring, t))
    \/ Relink(t, "sched_add", "sched_unlock", list_add_tail(ring, t, Ready))
    \/ spin_unlock(t, "list_slock", "sched_unlock", "sched_switch")
    \/ /\ cur = t /\ IF_flag /\ pc[t] = "sched_switch"
       /\ pc' = [pc EXCEPT ![t] = ReturnFrom(t)]
       /\ switch_to(local[t])
       /\ UNCHANGED <<call, local, ring, lock, next_pid, pid>>

---------------------------------------------------------------------------
(* Life of a task.                                                         *)

\* Mutant: the task is not marked as dying.
exit_not_dying(t) ==
    \/ spin_lock(t, "list_slock", "exit", "exit_del")
    \/ Relink(t, "exit_del", "exit_unlock", list_del(ring, t))
    \/ spin_unlock(t, "list_slock", "exit_unlock", "schedule")

\* Mutant: the task stays on the ready list.
exit_not_unlinked(t) ==
    \/ spin_lock(t, "list_slock", "exit", "exit_status")
    \/ SetStatus(t, "exit_status", "exit_unlock", t, "TASK_DYING")
    \/ spin_unlock(t, "list_slock", "exit_unlock", "schedule")

task_exit(t) ==
    \/ spin_lock(t, "list_slock", "exit", "exit_status")
    \/ SetStatus(t, "exit_status", "exit_del", t, "TASK_DYING")
    \/ Relink(t, "exit_del", "exit_unlock", list_del(ring, t))
    \/ spin_unlock(t, "list_slock", "exit_unlock", "schedule")

\* Mutant: the status is stored after the lock is released.
suspend_not_blocked(t) ==
    \/ spin_lock(t, "list_slock", "suspend", "suspend_del")
    \/ Relink(t, "suspend_del", "suspend_add", list_del(ring, t))
    \/ Relink(t, "suspend_add", "suspend_unlock", list_add(ring, t, call[t].arg))
    \/ spin_unlock(t, "list_slock", "suspend_unlock", "suspend_status")
    \/ SetStatus(t, "suspend_status", "down_unlock", t, "TASK_BLOCKED")

\* Mutant: the task is not taken off the ready list.
suspend_not_unlinked(t) ==
    \/ spin_lock(t, "list_slock", "suspend", "suspend_status")
    \/ SetStatus(t, "suspend_status", "suspend_add", t, "TASK_BLOCKED")
    \/ Relink(t, "suspend_add", "suspend_unlock", list_add(ring, t, call[t].arg))
    \/ spin_unlock(t, "list_slock", "suspend_unlock", "down_unlock")

\* task_suspend(current, &sema->wait), called by sema_down.
task_suspend(t) ==
    \/ spin_lock(t, "list_slock", "suspend", "suspend_status")
    \/ SetStatus(t, "suspend_status", "suspend_del", t, "TASK_BLOCKED")
    \/ Relink(t, "suspend_del", "suspend_add", list_del(ring, t))
    \/ Relink(t, "suspend_add", "suspend_unlock", list_add(ring, t, call[t].arg))
    \/ spin_unlock(t, "list_slock", "suspend_unlock", "down_unlock")

\* Mutant: the waiter is looked for among the ready tasks.
resumes_ready(tsk) == status[tsk] = "TASK_READY"

resumes(tsk) == status[tsk] = "TASK_BLOCKED"

\* task_resume(tsk_wait), called by sema_up on the task it popped.  What it
\* wakes it marks TASK_RUNNING, not TASK_READY.
task_resume(t) ==
    LET tsk == local[t] IN
    \/ spin_lock(t, "list_slock", "resume", "resume_test")
    \/ /\ Step(t, "resume_test",
               IF resumes(tsk) THEN "resume_add" ELSE "resume_unlock")
       /\ status' = IF resumes(tsk)
                    THEN [status EXCEPT ![tsk] = "TASK_RUNNING"] ELSE status
       /\ UNCHANGED <<ring, lock, rest>>
    \/ Relink(t, "resume_add", "resume_unlock", list_add_tail(ring, tsk, Ready))
    \/ spin_unlock(t, "list_slock", "resume_unlock", "up_unlock")

\* task_struct_init, up to the linking into all_tasks_list, on the page that
\* mm_kget_page gave: the argument of the call.  While that page is in use the
\* pool has none to give and task_create returns -1.
task_struct_init(t) ==
    LET tsk == call[t].arg IN
    \/ /\ Step(t, "create", IF tsk \in pages THEN "user" ELSE "create_all_lock")
       /\ IF tsk \in pages
          THEN UNCHANGED <<pages, status, pid>>
          ELSE /\ pages' = pages \cup {tsk}
               /\ status' = [status EXCEPT ![tsk] = "TASK_BLOCKED"]
               /\ pid' = [pid EXCEPT ![tsk] = 0]
       /\ UNCHANGED <<local, ring, lock, all_tasks_list, next_pid>>
    \/ spin_lock(t, "list_slock", "create_all_lock", "create_all_add")
    \/ /\ Step(t, "create_all_add", "create_all_unlock")
       /\ all_tasks_list' = all_tasks_list \cup {tsk}
       /\ UNCHANGED <<local, status, ring, lock, pages, next_pid, pid>>
    \/ spin_unlock(t, "list_slock", "create_all_unlock", "pid")

\* allocate_pid: the value is read again after the lock is released.
allocate_pid(t) ==
    \/ spin_lock(t, "pid_slock", "pid", "pid_inc")
    \/ /\ Step(t, "pid_inc", "pid_unlock")
       /\ next_pid' = next_pid + 1
       /\ UNCHANGED <<local, status, ring, lock, pages, all_tasks_list, pid>>
    \/ spin_unlock(t, "pid_slock", "pid_unlock", "pid_read")
    \/ /\ Step(t, "pid_read", "create_lock")
       /\ pid' = [pid EXCEPT ![call[t].arg] = next_pid]
       /\ UNCHANGED <<local, status, ring, lock, pages, all_tasks_list, next_pid>>

\* task_create after task_struct_init: the new task is runnable from the
\* list_add_tail on, its status is stored last.
task_create(t) ==
    \/ task_struct_init(t)
    \/ allocate_pid(t)
    \/ spin_lock(t, "list_slock", "create_lock", "create_add")
    \/ Relink(t, "create_add", "create_unlock",
              list_add_tail(ring, call[t].arg, Ready))
    \/ spin_unlock(t, "list_slock", "create_unlock", "create_status")
    \/ SetStatus(t, "create_status", "user", call[t].arg, "TASK_READY")

---------------------------------------------------------------------------
\* sched_init up to the first task_create: main's page is a task, running and
\* the only one on the ready list.
SchedInit ==
    /\ cur = InitTask
    /\ IF_flag = TRUE
    /\ pc = [t \in Task |-> "user"]
    /\ call = [t \in Task |-> [op |-> "exit", arg |-> NULL]]
    /\ local = [t \in Task |-> NULL]
    /\ status = [t \in Task |-> IF t = InitTask THEN "TASK_RUNNING" ELSE "TASK_BLOCKED"]
    /\ ring = list_add(list_head_init(Node, Head_, NULL), InitTask, Ready)
    /\ lock = [l \in Lock |-> 1]
    /\ pages = {InitTask}
    /\ all_tasks_list = {InitTask}
    /\ next_pid = 0
    /\ pid = [t \in Task |-> 0]

SchedStep(t) ==
    schedule(t) \/ task_exit(t) \/ task_suspend(t) \/ task_resume(t) \/ task_create(t)
============================================================================
