-------------------------------- MODULE Sync --------------------------------
(***************************************************************************)
(* kernel/sync.c: the semaphores, on top of the scheduler's steps.         *)
(* Semaphore s is count[s], the spin lock lock[s] and the wait list whose  *)
(* head is s.                                                              *)
(***************************************************************************)
EXTENDS Sched

CONSTANT SemInit    \* the count each semaphore is initialised with

VARIABLE count      \* semaphore_t.count

ASSUME SyncAssumption == SemInit \in [Sem -> Nat]

\* Mutant: off by one, the last unit can be taken twice.
must_wait_below_zero(s) == count[s] < 0

must_wait(s) == count[s] <= 0

\* sema_down.  A task that blocked returns without looking at count again.
sema_down(t) ==
    LET s == call[t].arg IN
    \/ spin_lock(t, s, "sema_down", "down_test") /\ UNCHANGED count
    \/ /\ Step(t, "down_test", IF must_wait(s) THEN "suspend" ELSE "down_fast")
       /\ count' = IF must_wait(s) THEN count ELSE [count EXCEPT ![s] = @ - 1]
       /\ UNCHANGED <<status, ring, lock, rest>>
    \/ spin_unlock(t, s, "down_unlock", "schedule") /\ UNCHANGED count
    \/ spin_unlock(t, s, "down_fast", "user") /\ UNCHANGED count

\* sema_up.  The first waiter, if any, is popped and handed to task_resume;
\* count stays raised for it.
sema_up(t) ==
    LET s     == call[t].arg
        first == list_first(ring, s) IN
    \/ spin_lock(t, s, "sema_up", "up_inc") /\ UNCHANGED count
    \/ /\ Step(t, "up_inc", IF count[s] + 1 > 0 THEN "up_pop" ELSE "up_unlock")
       /\ count' = [count EXCEPT ![s] = @ + 1]
       /\ UNCHANGED <<status, ring, lock, rest>>
    \/ /\ Step(t, "up_pop",
               IF ~list_empty(ring, s) /\ first \in Task THEN "resume" ELSE "up_unlock")
       /\ IF list_empty(ring, s)
          THEN UNCHANGED <<local, ring>>
          ELSE /\ local' = [local EXCEPT ![t] = first]
               /\ ring' = list_del(ring, first)
       /\ UNCHANGED <<status, lock, pages, all_tasks_list, next_pid, pid, count>>
    \/ spin_unlock(t, s, "up_unlock", "user") /\ UNCHANGED count

\* sema_up from an interrupt handler: IF is clear, so it is one step - or
\* none, when a lock it spins on is taken, because nothing else can run.
sema_up_in_isr(s) ==
    LET first  == list_first(ring, s)
        popped == list_del(ring, first)
        wakes  == first \in Task /\ resumes(first) IN
    /\ lock[s] = 1
    /\ count' = [count EXCEPT ![s] = @ + 1]
    /\ IF count[s] + 1 > 0 /\ ~list_empty(ring, s)
       THEN /\ first \in Task => lock["list_slock"] = 1
            /\ ring' = IF wakes THEN list_add_tail(popped, first, Ready) ELSE popped
            /\ status' = IF wakes THEN [status EXCEPT ![first] = "TASK_RUNNING"]
                                  ELSE status
       ELSE UNCHANGED <<ring, status>>
    /\ UNCHANGED <<cur, pc, call, lock, rest>>

SyncInit == count = SemInit
=============================================================================
