-------------------------- MODULE SemaphoreProofs --------------------------
(***************************************************************************)
(* The semaphores under the workload of MainAlone when interrupts land     *)
(* where no spin lock is held: a task that is inside a critical section    *)
(* then stays on the processor until it leaves it, and what KernelProofs   *)
(* and RingProofs leave possible - a waiter that is not TASK_BLOCKED, an   *)
(* exited task that runs again - does not happen.                          *)
(*                                                                         *)
(* SemaInv adds three facts to the ring invariant AllInv: whoever holds a  *)
(* lock runs (HolderRuns), main's status says where main is (Tidy), and a  *)
(* main that goes to sleep found no unit (NoUnit).  Each statement of      *)
(* sched.c and sync.c is shown to keep them and to be a step of module     *)
(* Semaphore or to stutter (Good).                                         *)
(***************************************************************************)
EXTENDS RingProofs

---------------------------------------------------------------------------
(* Whoever holds a lock runs, and interrupts meet free locks.              *)

HolderRuns ==
    /\ isr = "none" <=> IF_flag
    /\ \A t \in Task : \A l \in Lock : Holds(t, l) => cur = t
    /\ ~IF_flag => \A l \in Lock : lock[l] = 1

LEMMA HolderInit == Init => HolderRuns
BY DEF Init, SchedInit, HolderRuns, Holds, ListRegion, PidRegion, SemRegion

\* A statement of a task.
LEMMA HolderStep ==
    ASSUME TypeInv, HolderRuns, NEW t \in Task, NEW from, NEW to, Step(t, from, to), isr' = isr
    PROVE  HolderRuns'
<1>1. /\ cur' = cur /\ cur = t /\ IF_flag /\ IF_flag' /\ call' = call
      /\ \A u \in Task : u # t => pc'[u] = pc[u]
  BY DEF Step, TypeInv, TypeOK
<1>2. \A u \in Task : \A l \in Lock : u # t => (Holds(u, l)' <=> Holds(u, l))
  BY <1>1 DEF Holds
<1> QED BY <1>1, <1>2 DEF HolderRuns

LEMMA HolderNext ==
    IrqAt = "unlocked" /\ TypeInv /\ LockDiscipline /\ HolderRuns /\ [Next]_vars => HolderRuns'
<1> SUFFICES ASSUME IrqAt = "unlocked", TypeInv, LockDiscipline, HolderRuns, [Next]_vars
             PROVE  HolderRuns'
  OBVIOUS
<1>1. ASSUME NEW t \in Task, TaskStep(t) PROVE HolderRuns'
  <2>1. CASE Invoke(t)
    <3>1. /\ cur' = cur /\ cur = t /\ IF_flag /\ IF_flag' /\ isr' = isr
          /\ \A u \in Task : u # t => pc'[u] = pc[u] /\ call'[u] = call[u]
      BY <2>1 DEF Invoke, rest, TypeInv, TypeOK
    <3>2. \A u \in Task : \A l \in Lock : u # t => (Holds(u, l)' <=> Holds(u, l))
      BY <3>1 DEF Holds
    <3> QED BY <3>1, <3>2 DEF HolderRuns
  <2>2. CASE schedule(t) /\ UNCHANGED others
    <3>1. CASE /\ cur = t /\ IF_flag /\ pc[t] = "sched_switch"
               /\ pc' = [pc EXCEPT ![t] = ReturnFrom(t)]
               /\ switch_to(local[t])
               /\ UNCHANGED <<call, local, ring, lock, next_pid, pid>>
      <4>1. /\ IF_flag' /\ isr' = isr /\ call' = call
            /\ \A u \in Task : pc'[u] = IF u = t THEN ReturnFrom(t) ELSE pc[u]
        BY <2>2, <3>1 DEF switch_to, others, TypeInv, TypeOK
      <4>2. \A u \in Task : \A l \in Lock : ~Holds(u, l)
        BY <3>1 DEF HolderRuns, Holds, ListRegion, PidRegion, SemRegion
      <4>3. \A u \in Task : \A l \in Lock : ~Holds(u, l)'
        BY <4>1, <4>2 DEF Holds, ReturnFrom, ListRegion, PidRegion, SemRegion
      <4> QED BY <3>1, <4>1, <4>3 DEF HolderRuns
    <3> QED BY <2>2, <3>1, HolderStep
            DEF schedule, spin_lock, spin_unlock, Relink, others
  <2>3. CASE (task_exit(t) \/ task_suspend(t) \/ task_resume(t)) /\ UNCHANGED others
    BY <2>3, HolderStep
       DEF task_exit, task_suspend, task_resume, spin_lock, spin_unlock, SetStatus, Relink, others
  <2>4. CASE task_create(t) /\ UNCHANGED others
    BY <2>4, HolderStep
       DEF task_create, task_struct_init, allocate_pid, spin_lock, spin_unlock, SetStatus, Relink,
           others
  <2>5. CASE (sema_down(t) \/ sema_up(t)) /\ UNCHANGED <<isr, todo>>
    BY <2>5, HolderStep DEF sema_down, sema_up, spin_lock, spin_unlock
  <2> QED BY <1>1, <2>1, <2>2, <2>3, <2>4, <2>5 DEF TaskStep, SchedStep, others
<1>2. (\A l \in Lock : lock[l] = 1) => \A u \in Task : \A l \in Lock : ~Holds(u, l)
  BY DEF LockDiscipline
<1>3. ASSUME \A l \in Lock : lock[l] = 1, UNCHANGED <<pc, call, lock>>,
             isr' = "none" <=> IF_flag'
      PROVE  HolderRuns'
  <2>1. \A u \in Task : \A l \in Lock : ~Holds(u, l)'
    BY <1>2, <1>3 DEF Holds
  <2> QED BY <1>3, <2>1 DEF HolderRuns
<1>4. ASSUME NEW v \in Vector, Interrupt(v) PROVE HolderRuns'
  <2>1. v # "none"
    BY KernelAssumption DEF Vector
  <2> QED BY <1>3, <1>4, <2>1 DEF Interrupt, InterruptPoint
<1>5. CASE TickIsr
  BY <1>3, <1>5 DEF TickIsr, switch_to, HolderRuns
<1>6. ASSUME NEW s \in IrqSem, DeviceIsr(s) PROVE HolderRuns'
  <2>1. s # "none"
    BY KernelAssumption
  <2> QED BY <1>3, <1>6, <2>1 DEF DeviceIsr, sema_up_in_isr, HolderRuns
<1>7. CASE UNCHANGED vars
  BY <1>7 DEF vars, schedVars, HolderRuns, Holds
<1> QED BY <1>1, <1>4, <1>5, <1>6, <1>7 DEF Next

\* While an interrupt is served, nobody is in a critical section.
LEMMA IsrUnlocked ==
    ASSUME LockDiscipline, HolderRuns, ~IF_flag
    PROVE  \A t \in Task : \A l \in Lock : ~Holds(t, l)
BY DEF LockDiscipline, HolderRuns

---------------------------------------------------------------------------
(* What main's status says.                                                *)

\* main is past the store of task_exit.
Early   == {"user", "exit", "exit_status"}
Leaving == call[main].op = "exit" /\ pc[main] \notin Early

\* The statements of task_suspend that find main blocked.
BlockedPc == {"suspend_del", "suspend_add"}

Tidy ==
    /\ status[main] = "TASK_DYING" <=> Leaving
    /\ \A t \in Task \ {main} : status[t] # "TASK_DYING"
    /\ pc[main] \in BlockedPc => status[main] = "TASK_BLOCKED"
    /\ \A s \in Sem : main \in On(s) => status[main] = "TASK_BLOCKED"
    /\ pc[main] = "exit_returned" => status[main] = "TASK_DYING" /\ cur # main

\* Between the test of sema_down and the end of task_suspend there is no unit.
SleepPc == {"suspend", "suspend_status", "suspend_del", "suspend_add"}
NoUnit  == pc[main] \in SleepPc => count[call[main].arg] = 0

SemaInv == AllInv /\ HolderRuns /\ Tidy /\ NoUnit

\* What the abstract semaphore sees.
Pops(s)  == \E t \in Task : pc[t] = "up_pop" /\ call[t].arg = s
Value    == [s \in Sem |-> count[s] -
                Cardinality({t \in Task : pc[t] = "up_pop" /\ call[t].arg = s})]
Waiting  == [s \in Sem |-> Members(ring, s) \cap Task]
SemaStep == Sema!Next \/ UNCHANGED <<Value, Waiting>>

\* What a step has to do; what has exited stays so.
Stays == Leaving => Leaving'
Good  == Tidy' /\ NoUnit' /\ Stays /\ SemaStep

SameWaiters == \A s \in Sem : main \in On(s)' <=> main \in On(s)
SameUnits   == \A s \in Sem : count'[s] = count[s] /\ (Pops(s)' <=> Pops(s))

\* Semaphores and tasks are what they are.
LEMMA Places ==
    main \in Task /\ Ready \in Head_ /\ Ready \notin Sem /\ Sem \subseteq Head_
    /\ Sem \subseteq Lock /\ "list_slock" \in Lock
BY SchedAssumption DEF main, Head_, Lock

\* The argument of a semaphore's operation.
LEMMA SemArg ==
    ASSUME TypeInv, NEW t \in Task, pc[t] \in DownPc \cup UpPc
    PROVE  call[t].arg \in Sem
<1>1. call[t] \in Call /\ call[t].op \in {"sema_down", "sema_up"}
  BY DEF TypeInv, TypeOK, CallOK
<1> QED BY <1>1, CallArg

\* Whoever is inside a critical section runs.
LEMMA Inside ==
    ASSUME TypeInv, HolderRuns, NEW t \in Task, pc[t] \in ListRegion \cup SemRegion
    PROVE  cur = t
<1>1. CASE pc[t] \in ListRegion
  BY <1>1, Places DEF HolderRuns, Holds
<1>2. CASE pc[t] \in SemRegion
  <2>1. call[t].arg \in Sem
    BY <1>2, SemArg DEF SemRegion, DownPc, UpPc, ResumePc
  <2> QED BY <1>2, <2>1, Places DEF HolderRuns, Holds
<1> QED BY <1>1, <1>2

LEMMA WaiterSet ==
    ASSUME AllInv, NEW s \in Sem
    PROVE  Members(ring, s) \cap Task = IF main \in On(s) THEN {main} ELSE {}
<1>1. On(s) \subseteq {main}
  BY Places, OnTask
<1> QED BY <1>1, Places DEF On

LEMMA UnitCount ==
    ASSUME TypeInv, HolderRuns, NEW s \in Sem
    PROVE  Cardinality({t \in Task : pc[t] = "up_pop" /\ call[t].arg = s})
           = IF Pops(s) THEN 1 ELSE 0
<1> DEFINE at == {t \in Task : pc[t] = "up_pop" /\ call[t].arg = s}
<1>1. CASE Pops(s)
  <2>1. PICK t \in at : TRUE
    BY <1>1 DEF Pops
  <2>2. \A u \in at : cur = u
    BY Inside DEF SemRegion
  <2>3. at = {t}
    BY <2>1, <2>2
  <2> QED BY <1>1, <2>3, FS_Singleton
<1>2. CASE ~Pops(s)
  <2>1. at = {}
    BY <1>2 DEF Pops
  <2> QED BY <1>2, <2>1, FS_EmptySet
<1> QED BY <1>1, <1>2

LEMMA Values ==
    ASSUME AllInv, HolderRuns
    PROVE  /\ Value = [s \in Sem |-> count[s] - (IF Pops(s) THEN 1 ELSE 0)]
           /\ Waiting = [s \in Sem |-> IF main \in On(s) THEN {main} ELSE {}]
<1>1. TypeInv
  BY DEF AllInv
<1>2. Value = [s \in Sem |-> count[s] - (IF Pops(s) THEN 1 ELSE 0)]
  BY <1>1, UnitCount DEF Value
<1>3. Waiting = [s \in Sem |-> IF main \in On(s) THEN {main} ELSE {}]
  BY WaiterSet DEF Waiting
<1> QED BY <1>2, <1>3

LEMMA ValuesNext ==
    ASSUME AllInv', HolderRuns'
    PROVE  /\ Value' = [s \in Sem |-> count'[s] - (IF Pops(s)' THEN 1 ELSE 0)]
           /\ Waiting' = [s \in Sem |-> IF main \in On(s)' THEN {main} ELSE {}]
<1>1. (AllInv /\ HolderRuns =>
          /\ Value = [s \in Sem |-> count[s] - (IF Pops(s) THEN 1 ELSE 0)]
          /\ Waiting = [s \in Sem |-> IF main \in On(s) THEN {main} ELSE {}])'
  BY Values, PTL
<1> QED BY <1>1 DEF main

LEMMA WaitsAt == AllInv => \A s \in Sem : main \in On(s) => Waits /\ call[main].arg = s
<1> SUFFICES ASSUME AllInv, NEW s \in Sem, main \in On(s)
             PROVE  Waits /\ call[main].arg = s
  OBVIOUS
<1>1. Waits
  BY Places, OnTask
     DEF AllInv, RingInv, MainPlaced, InReady, Popped, Unlinked, Between, Dead, Off
<1>2. call[main].arg \in Sem
  BY <1>1, Places, CallArg DEF Waits, AllInv, TypeInv, TypeOK
<1> QED BY <1>1, <1>2, Places, OnTask DEF Waits

LEMMA WaitsNext ==
    ASSUME AllInv'
    PROVE  \A s \in Sem : main \in On(s)' => Waits' /\ call'[main].arg = s
<1>1. (AllInv => \A s \in Sem : main \in On(s) => Waits /\ call[main].arg = s)'
  BY WaitsAt, PTL
<1> QED BY <1>1 DEF main

\* Statements that main does not execute as a waiter.
NoWaitPc == GoingPc \cup {"sched_add", "sched_unlock", "suspend_add", "exit_unlock"}

LEMMA NotWaiting ==
    AllInv /\ cur = main /\ pc[main] \in NoWaitPc => \A s \in Sem : main \notin On(s)
BY WaitsAt DEF Waits, NoWaitPc, GoingPc, UpPc, ResumePc, CreatePc

\* A step of the others, or of the machine beside main.
LEMMA BesideMain ==
    ASSUME SemaInv, AllInv', cur # main, cur' = cur,
           pc'[main] = pc[main], call'[main] = call[main],
           \A t \in Task : status'[t] = "TASK_DYING" <=> status[t] = "TASK_DYING"
    PROVE  Tidy' /\ NoUnit' /\ Stays
<1>1. pc[main] \notin ListRegion \cup SemRegion
  BY Inside, Places DEF SemaInv, AllInv
<1>2. \A s \in Sem : main \in On(s)' => status'[main] = "TASK_BLOCKED"
  BY WaitsNext DEF Waits, main
<1>3. Leaving' <=> Leaving
  BY DEF Leaving
<1>4. NoUnit'
  BY <1>1 DEF NoUnit, SleepPc, SemRegion
<1>5. Tidy'
  BY <1>1, <1>2, <1>3, Places DEF SemaInv, Tidy, BlockedPc, ListRegion
<1> QED BY <1>3, <1>4, <1>5 DEF Stays

\* A statement by which nobody's waiting or units change.
LEMMA Stutters ==
    ASSUME SemaInv, AllInv', HolderRuns', SameWaiters, SameUnits
    PROVE  SemaStep
<1>1. /\ Value = [s \in Sem |-> count[s] - (IF Pops(s) THEN 1 ELSE 0)]
      /\ Waiting = [s \in Sem |-> IF main \in On(s) THEN {main} ELSE {}]
  BY Values DEF SemaInv
<1>2. /\ Value' = [s \in Sem |-> count'[s] - (IF Pops(s)' THEN 1 ELSE 0)]
      /\ Waiting' = [s \in Sem |-> IF main \in On(s)' THEN {main} ELSE {}]
  BY ValuesNext
<1>3. Value' = Value
  BY <1>1, <1>2 DEF SameUnits
<1>4. Waiting' = Waiting
  BY <1>1, <1>2 DEF SameWaiters
<1> QED BY <1>3, <1>4 DEF SemaStep

\* A statement that leaves main's status, the waiters and the units alone.
LEMMA Ordinary ==
    ASSUME SemaInv, AllInv', HolderRuns', NEW t \in Task, NEW from, NEW to, Step(t, from, to),
           count' = count, SameWaiters, "up_pop" \notin {from, to},
           status'[main] = status[main],
           \A u \in Task \ {main} : status'[u] # "TASK_DYING",
           t = main => /\ to \in SleepPc => from \in SleepPc
                       /\ to \in BlockedPc => from \in BlockedPc
                       /\ to # "exit_returned"
                       /\ call[main].op = "exit" => (from \in Early <=> to \in Early)
    PROVE  Good
<1>1. /\ cur' = cur /\ cur = t /\ call' = call /\ pc[t] = from /\ main \in Task
      /\ \A u \in Task : pc'[u] = IF u = t THEN to ELSE pc[u]
  BY Places DEF Step, SemaInv, AllInv, TypeInv, TypeOK
<1>2. SameUnits
  <2>1. \A u \in Task : pc'[u] = "up_pop" <=> pc[u] = "up_pop"
    BY <1>1
  <2> QED BY <1>1, <2>1 DEF SameUnits, Pops
<1>3. SemaStep
  BY <1>2, Stutters
<1>4. \A u \in Task : status'[u] = "TASK_DYING" <=> status[u] = "TASK_DYING"
  BY DEF SemaInv, Tidy
<1>5. Tidy' /\ NoUnit' /\ Stays
  <2>1. CASE t # main
    BY <1>1, <1>4, <2>1, BesideMain
  <2>2. CASE t = main
    <3>1. Leaving' <=> Leaving
      BY <1>1, <2>2 DEF Leaving
    <3>2. NoUnit'
      BY <1>1, <2>2 DEF SemaInv, NoUnit
    <3>3. \A s \in Sem : main \in On(s)' => status'[main] = "TASK_BLOCKED"
      BY DEF SameWaiters, SemaInv, Tidy
    <3> QED BY <1>1, <2>2, <3>1, <3>2, <3>3 DEF SemaInv, Tidy, Stays, main
  <2> QED BY <2>1, <2>2
<1> QED BY <1>3, <1>5 DEF Good

\* Such a statement that moves no node and stores no status.
LEMMA Plain ==
    ASSUME SemaInv, AllInv', HolderRuns', NEW t \in Task, NEW from, NEW to, Step(t, from, to),
           count' = count, ring' = ring, status' = status, "up_pop" \notin {from, to},
           t = main => /\ to \in SleepPc => from \in SleepPc
                       /\ to \notin BlockedPc
                       /\ to # "exit_returned"
                       /\ call[main].op = "exit" => (from \in Early <=> to \in Early)
    PROVE  Good
<1>1. SameWaiters
  BY DEF SameWaiters, On
<1>2. \A u \in Task \ {main} : status'[u] # "TASK_DYING"
  BY DEF SemaInv, Tidy
<1> QED BY <1>1, <1>2, Ordinary

\* A list statement of main between two places outside the wait lists.
LEMMA MainRelinks ==
    ASSUME SemaInv, AllInv', HolderRuns', NEW from, NEW to \in NoWaitPc, NEW r,
           Relink(main, from, to, r), count' = count,
           \A s \in Sem : main \notin On(s),
           to \in {"sched_add", "sched_unlock", "suspend_add", "exit_unlock"},
           to = "suspend_add" => from = "suspend_del",
           "up_pop" # from, from \notin Early
    PROVE  Good
<1>1. Step(main, from, to) /\ status' = status /\ main \in Task /\ cur' = main /\ pc'[main] = to
  BY Places DEF Relink, Step, SemaInv, AllInv, TypeInv, TypeOK
<1>2. (AllInv /\ cur = main /\ pc[main] \in NoWaitPc => \A s \in Sem : main \notin On(s))'
  BY NotWaiting, PTL
<1>3. SameWaiters
  BY <1>1, <1>2 DEF SameWaiters, main
<1>4. \A u \in Task \ {main} : status'[u] # "TASK_DYING"
  BY <1>1 DEF SemaInv, Tidy
<1> QED BY <1>1, <1>3, <1>4, Ordinary DEF SleepPc, BlockedPc, Early

\* A task on the ready list has not exited.
LEMMA ReadyStays ==
    ASSUME SemaInv, main \in On(Ready), pc[main] # "exit_del"
    PROVE  status[main] # "TASK_DYING"
<1>1. InReady
  <2>1. \A s \in Sem : main \notin On(s)
    BY Places, OnTask DEF SemaInv
  <2>2. ~Waits
    <3>1. Waits => call[main].arg \in Sem
      BY Places, CallArg DEF Waits, SemaInv, AllInv, TypeInv, TypeOK
    <3> QED BY <2>1, <3>1 DEF Waits
  <2> QED BY <2>2, Places
          DEF SemaInv, AllInv, RingInv, MainPlaced, Popped, Unlinked, Between, Dead, Off
<1>2. CASE pc[main] \notin GoingPc
  BY <1>1, <1>2 DEF InReady
<1>3. CASE pc[main] \in GoingPc
  <2>1. pc[main] \in DownPc \cup UpPc \cup CreatePc \cup Early \cup {"exit_del"}
    BY <1>3 DEF GoingPc, DownPc, Early
  <2>2. pc[main] \in DownPc \cup UpPc \cup CreatePc => call[main].op # "exit"
    BY Places DEF SemaInv, AllInv, TypeInv, CallOK
  <2> QED BY <2>1, <2>2 DEF SemaInv, Tidy, Leaving
<1> QED BY <1>2, <1>3

LEMMA ScheduleGood ==
    ASSUME SemaInv, AllInv', HolderRuns', NEW t \in Task, schedule(t), UNCHANGED others
    PROVE  Good
<1>1. t = main /\ main \in Task /\ cur = main
  BY OnlyMain, Places
     DEF schedule, Step, spin_lock, spin_unlock, Relink, UpPc, ResumePc, CreatePc, SemaInv
<1> USE DEF SleepPc, BlockedPc, Early, others
<1>2. CASE /\ Step(t, "schedule", "sched_check") /\ UNCHANGED <<status, ring>>
  BY <1>1, <1>2, Plain
<1>3. CASE /\ Step(t, "sched_check",
                    IF status[t] = "TASK_RUNNING" THEN "sched_lock" ELSE "sched_switch")
           /\ UNCHANGED <<status, ring>>
  <2>1. CASE status[t] = "TASK_RUNNING"
    BY <1>1, <1>3, <2>1, Plain
  <2>2. CASE status[t] # "TASK_RUNNING"
    BY <1>1, <1>3, <2>2, Plain
  <2> QED BY <2>1, <2>2
<1>4. CASE spin_lock(t, "list_slock", "sched_lock", "sched_del")
  BY <1>1, <1>4, Plain DEF spin_lock
<1>5. CASE Relink(t, "sched_del", "sched_add", list_del(ring, t))
  <2>1. \A s \in Sem : main \notin On(s)
    <3>1. pc[main] = "sched_del"
      BY <1>1, <1>5 DEF Relink, Step
    <3> QED BY <3>1, WaitsAt DEF Waits, SemaInv, Tidy
  <2>2. PICK r : r = list_del(ring, t)
    OBVIOUS
  <2>3. Relink(main, "sched_del", "sched_add", r)
    BY <1>1, <1>5, <2>2
  <2> QED BY <2>1, <2>3, MainRelinks DEF NoWaitPc
<1>6. CASE Relink(t, "sched_add", "sched_unlock", list_add_tail(ring, t, Ready))
  <2>1. \A s \in Sem : main \notin On(s)
    <3>1. pc[main] = "sched_add"
      BY <1>1, <1>6 DEF Relink, Step
    <3> QED BY <1>1, <3>1, NotWaiting DEF NoWaitPc, SemaInv
  <2>2. PICK r : r = list_add_tail(ring, t, Ready)
    OBVIOUS
  <2>3. Relink(main, "sched_add", "sched_unlock", r)
    BY <1>1, <1>6, <2>2
  <2> QED BY <2>1, <2>3, MainRelinks DEF NoWaitPc
<1>7. CASE spin_unlock(t, "list_slock", "sched_unlock", "sched_switch")
  BY <1>1, <1>7, Plain DEF spin_unlock
<1>8. CASE /\ cur = t /\ IF_flag /\ pc[t] = "sched_switch"
           /\ pc' = [pc EXCEPT ![t] = ReturnFrom(t)]
           /\ switch_to(local[t])
           /\ UNCHANGED <<call, local, ring, lock, next_pid, pid>>
  <2>1. /\ pc[main] = "sched_switch" /\ call' = call /\ ring' = ring /\ count' = count
        /\ local[main] \in Task /\ cur' = local[main]
        /\ \A u \in Task : pc'[u] = IF u = main THEN ReturnFrom(main) ELSE pc[u]
        /\ \A u \in Task : status'[u] = IF u = local[main] THEN "TASK_RUNNING" ELSE status[u]
    BY <1>1, <1>8 DEF switch_to, SemaInv, AllInv, TypeInv, TypeOK, RingInv, LocalMain, ChosenPc
  <2>2. local[main] = main => main \in On(Ready)
    BY <2>1 DEF SemaInv, AllInv, RingInv, LocalMain, ChosenPc
  <2>3. SameWaiters
    BY <2>1 DEF SameWaiters, On
  <2>4. SameUnits
    BY <1>1, <2>1 DEF SameUnits, Pops, ReturnFrom
  <2>5. call[main].op = "exit" <=> status[main] = "TASK_DYING"
    BY <2>1 DEF SemaInv, Tidy, Leaving
  <2>6. call[main].op = "exit" => cur' # main
    BY <2>1, <2>2, <2>5, ReadyStays
  <2>7. status'[main] = "TASK_DYING" <=> Leaving'
    BY <1>1, <2>1, <2>5, <2>6 DEF Leaving, ReturnFrom
  <2>8. \A s \in Sem : main \in On(s)' => status'[main] = "TASK_BLOCKED"
    <3>1. local[main] = main => \A s \in Sem : main \notin On(s)
      BY <2>2, Places, OnTask DEF SemaInv
    <3> QED BY <1>1, <2>1, <2>3, <3>1 DEF SameWaiters, SemaInv, Tidy
  <2>9. Tidy'
    BY <1>1, <2>1, <2>5, <2>6, <2>7, <2>8 DEF SemaInv, Tidy, ReturnFrom, main
  <2>10. NoUnit'
    BY <1>1, <2>1 DEF NoUnit, ReturnFrom
  <2>11. Stays
    BY <1>1, <2>1 DEF Stays, Leaving, ReturnFrom
  <2> QED BY <2>3, <2>4, <2>9, <2>10, <2>11, Stutters DEF Good
<1> QED BY <1>2, <1>3, <1>4, <1>5, <1>6, <1>7, <1>8 DEF schedule, rest

LEMMA ExitGood ==
    ASSUME SemaInv, AllInv', HolderRuns', NEW t \in Task, task_exit(t), UNCHANGED others
    PROVE  Good
<1>1. t = main /\ main \in Task /\ cur = main
  BY OnlyMain, Places
     DEF task_exit, Step, spin_lock, spin_unlock, SetStatus, Relink, UpPc, ResumePc, CreatePc,
         SemaInv
<1> USE DEF SleepPc, BlockedPc, Early, others
<1>2. CASE spin_lock(t, "list_slock", "exit", "exit_status")
  BY <1>1, <1>2, Plain DEF spin_lock
<1>3. CASE SetStatus(t, "exit_status", "exit_del", t, "TASK_DYING")
  <2>1. /\ pc[main] = "exit_status" /\ call' = call /\ ring' = ring /\ count' = count
        /\ cur' = cur
        /\ \A u \in Task : pc'[u] = IF u = main THEN "exit_del" ELSE pc[u]
        /\ \A u \in Task : status'[u] = IF u = main THEN "TASK_DYING" ELSE status[u]
    BY <1>1, <1>3 DEF SetStatus, Step, SemaInv, AllInv, TypeInv, TypeOK
  <2>2. SameWaiters
    BY <2>1 DEF SameWaiters, On
  <2>3. SameUnits
    BY <1>1, <2>1 DEF SameUnits, Pops
  <2>4. Leaving'
    BY <1>1, <2>1 DEF Leaving, SemaInv, AllInv, WorkInv, ExitOK, ExitPc
  <2>5. \A s \in Sem : main \notin On(s)
    BY <1>1, <2>1, NotWaiting DEF NoWaitPc, GoingPc, SemaInv
  <2>6. Tidy'
    BY <1>1, <2>1, <2>2, <2>4, <2>5 DEF SemaInv, Tidy, SameWaiters, main
  <2>7. NoUnit'
    BY <1>1, <2>1 DEF NoUnit
  <2> QED BY <2>2, <2>3, <2>4, <2>6, <2>7, Stutters DEF Good, Stays
<1>4. CASE Relink(t, "exit_del", "exit_unlock", list_del(ring, t))
  <2>1. \A s \in Sem : main \notin On(s)
    <3>1. pc[main] = "exit_del"
      BY <1>1, <1>4 DEF Relink, Step
    <3> QED BY <1>1, <3>1, NotWaiting DEF NoWaitPc, GoingPc, SemaInv
  <2>2. PICK r : r = list_del(ring, t)
    OBVIOUS
  <2>3. Relink(main, "exit_del", "exit_unlock", r)
    BY <1>1, <1>4, <2>2
  <2> QED BY <2>1, <2>3, MainRelinks DEF NoWaitPc
<1>5. CASE spin_unlock(t, "list_slock", "exit_unlock", "schedule")
  BY <1>1, <1>5, Plain DEF spin_unlock
<1> QED BY <1>2, <1>3, <1>4, <1>5 DEF task_exit

\* task_suspend's list_add is where sema_down puts the task to sleep.
LEMMA SleepGood ==
    ASSUME SemaInv, AllInv', HolderRuns', UNCHANGED count,
           Relink(main, "suspend_add", "suspend_unlock", list_add(ring, main, call[main].arg))
    PROVE  Good
<1>1. /\ pc[main] = "suspend_add" /\ call' = call /\ status' = status /\ main \in Task
      /\ cur = main /\ cur' = main
      /\ \A u \in Task : pc'[u] = IF u = main THEN "suspend_unlock" ELSE pc[u]
  BY Places DEF Relink, Step, SemaInv, AllInv, TypeInv, TypeOK
<1>2. PICK s \in Sem : s = call[main].arg
  BY <1>1, SemArg DEF SemaInv, AllInv, DownPc
<1>3. \A z \in Sem : main \notin On(z)
  BY <1>1, NotWaiting DEF NoWaitPc, SemaInv
<1>4. \A z \in Sem : main \in On(z)' <=> z = s
  <2>1. \A z \in Sem : main \in On(z)' => call'[main].arg = z
    BY WaitsNext
  <2>2. MainPlaced'
    BY DEF AllInv, RingInv
  <2>3. Waits'
    BY <1>1, <2>2
       DEF MainPlaced, InReady, Popped, Unlinked, Between, Dead, AllInv, RingInv, Wakers, GoingPc,
           SchedPc, UpPc, ResumePc, CreatePc, main
  <2>4. main \in Members(ring', call'[main].arg)
    BY <2>3 DEF Waits, On, main
  <2> QED BY <1>1, <1>2, <2>1, <2>4 DEF On, main
<1>5. \A z \in Sem : Pops(z)' <=> Pops(z)
  BY <1>1 DEF Pops
<1>6. ~Pops(s) /\ count[s] = 0
  <2>1. ~Pops(s)
    BY <1>1, Inside DEF Pops, SemaInv, AllInv, SemRegion
  <2> QED BY <1>1, <1>2, <2>1 DEF SemaInv, NoUnit, SleepPc
<1>7. SemaStep
  <2>1. /\ Value = [z \in Sem |-> count[z] - (IF Pops(z) THEN 1 ELSE 0)]
        /\ Waiting = [z \in Sem |-> IF main \in On(z) THEN {main} ELSE {}]
    BY Values DEF SemaInv
  <2>2. /\ Value' = [z \in Sem |-> count'[z] - (IF Pops(z)' THEN 1 ELSE 0)]
        /\ Waiting' = [z \in Sem |-> IF main \in On(z)' THEN {main} ELSE {}]
    BY ValuesNext
  <2>3. Value' = Value /\ Value[s] = 0
    BY <1>5, <1>6, <2>1, <2>2
  <2>4. Waiting' = [Waiting EXCEPT ![s] = @ \cup {main}] /\ \A z \in Sem : main \notin Waiting[z]
    BY <1>3, <1>4, <2>1, <2>2
  <2>5. Sema!Sleep(s, main)
    BY <2>3, <2>4 DEF Sema!Sleep, Value, Waiting
  <2> QED BY <1>1, <2>5 DEF SemaStep, Sema!Next
<1>8. Tidy' /\ Stays
  <2>1. status'[main] = "TASK_BLOCKED" /\ (Leaving' <=> Leaving)
    BY <1>1 DEF SemaInv, Tidy, BlockedPc, Leaving, Early
  <2> QED BY <1>1, <2>1 DEF SemaInv, Tidy, Stays, BlockedPc, main
<1>9. NoUnit'
  BY <1>1 DEF NoUnit, SleepPc
<1> QED BY <1>7, <1>8, <1>9 DEF Good

LEMMA SuspendGood ==
    ASSUME SemaInv, AllInv', HolderRuns', NEW t \in Task, task_suspend(t), UNCHANGED others
    PROVE  Good
<1>1. t = main /\ main \in Task /\ cur = main
  BY OnlyMain, Places
     DEF task_suspend, Step, spin_lock, spin_unlock, SetStatus, Relink, UpPc, ResumePc, CreatePc,
         SemaInv
<1> USE DEF SleepPc, BlockedPc, Early, others
<1>2. CASE spin_lock(t, "list_slock", "suspend", "suspend_status")
  <2>1. call[main].op # "exit"
    BY <1>1, <1>2 DEF spin_lock, Step, SemaInv, AllInv, TypeInv, CallOK, DownPc
  <2> QED BY <1>1, <1>2, <2>1, Plain DEF spin_lock
<1>3. CASE SetStatus(t, "suspend_status", "suspend_del", t, "TASK_BLOCKED")
  <2>1. /\ pc[main] = "suspend_status" /\ call' = call /\ ring' = ring /\ count' = count
        /\ cur' = cur
        /\ \A u \in Task : pc'[u] = IF u = main THEN "suspend_del" ELSE pc[u]
        /\ \A u \in Task : status'[u] = IF u = main THEN "TASK_BLOCKED" ELSE status[u]
    BY <1>1, <1>3 DEF SetStatus, Step, SemaInv, AllInv, TypeInv, TypeOK
  <2>2. SameWaiters
    BY <2>1 DEF SameWaiters, On
  <2>3. SameUnits
    BY <1>1, <2>1 DEF SameUnits, Pops
  <2>4. ~Leaving /\ ~Leaving'
    BY <1>1, <2>1 DEF Leaving, SemaInv, AllInv, TypeInv, CallOK, DownPc
  <2>5. Tidy'
    BY <1>1, <2>1, <2>4 DEF SemaInv, Tidy, main
  <2>6. NoUnit'
    BY <1>1, <2>1 DEF SemaInv, NoUnit
  <2> QED BY <2>2, <2>3, <2>4, <2>5, <2>6, Stutters DEF Good, Stays
<1>4. CASE Relink(t, "suspend_del", "suspend_add", list_del(ring, t))
  <2>1. \A s \in Sem : main \notin On(s)
    <3>1. pc[main] = "suspend_del"
      BY <1>1, <1>4 DEF Relink, Step
    <3> QED BY <1>1, <3>1, NotWaiting DEF NoWaitPc, GoingPc, SemaInv
  <2>2. PICK r : r = list_del(ring, t)
    OBVIOUS
  <2>3. Relink(main, "suspend_del", "suspend_add", r)
    BY <1>1, <1>4, <2>2
  <2> QED BY <2>1, <2>3, MainRelinks DEF NoWaitPc
<1>5. CASE Relink(t, "suspend_add", "suspend_unlock", list_add(ring, t, call[t].arg))
  BY <1>1, <1>5, SleepGood
<1>6. CASE spin_unlock(t, "list_slock", "suspend_unlock", "down_unlock")
  BY <1>1, <1>6, Plain DEF spin_unlock
<1> QED BY <1>2, <1>3, <1>4, <1>5, <1>6 DEF task_suspend

LEMMA ResumeGood ==
    ASSUME SemaInv, AllInv', HolderRuns', NEW t \in Task, task_resume(t), UNCHANGED others
    PROVE  Good
<1>1. t \in Task /\ cur = t /\ main \in Task
  BY Places DEF task_resume, Step, spin_lock, spin_unlock, Relink
<1> USE DEF SleepPc, BlockedPc, Early, others
<1>2. CASE spin_lock(t, "list_slock", "resume", "resume_test")
  <2>1. t # main
    BY <1>1, <1>2, NoWakers DEF spin_lock, Step, WakePc, SemaInv
  <2> QED BY <1>2, <2>1, Plain DEF spin_lock
<1>3. CASE /\ Step(t, "resume_test",
                    IF resumes(local[t]) THEN "resume_add" ELSE "resume_unlock")
           /\ status' = IF resumes(local[t])
                        THEN [status EXCEPT ![local[t]] = "TASK_RUNNING"] ELSE status
           /\ UNCHANGED <<ring, lock, rest>>
  <2>1. /\ pc[t] = "resume_test" /\ call' = call /\ ring' = ring /\ count' = count
        /\ cur' = cur
        /\ \A u \in Task : u # t => pc'[u] = pc[u]
        /\ pc'[t] \in {"resume_add", "resume_unlock"}
    BY <1>1, <1>3 DEF Step, SemaInv, AllInv, TypeInv, TypeOK
  <2>2. t # main
    BY <1>1, <2>1, NoWakers DEF WakePc, SemaInv
  <2>3. \A u \in Task : status'[u] = "TASK_DYING" <=> status[u] = "TASK_DYING"
    BY <1>1, <1>3 DEF resumes, SemaInv, AllInv, TypeInv, TypeOK
  <2>4. SameWaiters
    BY <2>1 DEF SameWaiters, On
  <2>5. SameUnits
    BY <2>1 DEF SameUnits, Pops
  <2> QED BY <1>1, <2>1, <2>2, <2>3, <2>4, <2>5, BesideMain, Stutters DEF Good
<1>4. CASE Relink(t, "resume_add", "resume_unlock", list_add_tail(ring, local[t], Ready))
  <2>1. Step(t, "resume_add", "resume_unlock") /\ status' = status /\ pc[t] = "resume_add"
    BY <1>4 DEF Relink, Step
  <2>2. t # main /\ status[main] = "TASK_RUNNING" /\ Off(main)
    BY <1>1, <2>1, NoWakers DEF WakePc, SemaInv, AllInv, RingInv, Wakers
  <2>3. cur' # main
    BY <1>1, <2>1, <2>2 DEF Step
  <2>4. \A s \in Sem : main \notin On(s)'
    BY <2>1, <2>2, <2>3, WaitsNext DEF Waits, main
  <2>5. SameWaiters
    BY <2>2, <2>4, Places DEF SameWaiters, Off
  <2>6. \A u \in Task \ {main} : status'[u] # "TASK_DYING"
    BY <2>1 DEF SemaInv, Tidy
  <2> QED BY <2>1, <2>2, <2>5, <2>6, Ordinary
<1>5. CASE spin_unlock(t, "list_slock", "resume_unlock", "up_unlock")
  BY <1>1, <1>5, Plain DEF spin_unlock
<1> QED BY <1>2, <1>3, <1>4, <1>5 DEF task_resume

\* task_create links another task into the ready list, never main.
LEMMA CreateMoves ==
    ASSUME SemaInv, AllInv', NEW t \in Task,
           Relink(t, "create_add", "create_unlock", list_add_tail(ring, call[t].arg, Ready))
    PROVE  SameWaiters
<1>1. /\ cur = t /\ cur' = t /\ call' = call /\ pc[t] = "create_add" /\ main \in Task
      /\ \A u \in Task : pc'[u] = IF u = t THEN "create_unlock" ELSE pc[u]
  BY Places DEF Relink, Step, SemaInv, AllInv, TypeInv, TypeOK
<1>2. PICK u \in Task \ {main} : u = call[t].arg /\ Unlisted(u)
  <2>1. call[t].arg \in pages \ {main} /\ pages \subseteq Task
    BY <1>1 DEF SemaInv, AllInv, WorkInv, MakesApart, MakePc, CreatePc, TypeInv, TypeOK
  <2>2. Unlisted(call[t].arg)
    BY <1>1 DEF Unlisted, UnlistedPc, MakePc, CreatePc
  <2> QED BY <2>1, <2>2
<1>3. \A h \in Head_ : u \notin Members(ring, h)
  BY <1>2 DEF SemaInv, AllInv, RingInv, OthersPlaced, Head_, On
<1>4. ring \in Heap /\ Rings(ring) /\ ring' = list_add_tail(ring, u, Ready)
  BY <1>2 DEF SemaInv, AllInv, RingInv, TypeInv, SafeHeap, Relink
<1>5. \A s \in Sem : Members(ring', s) = Members(ring, s)
  BY <1>2, <1>3, <1>4, Places, AddOff
<1> QED BY <1>5 DEF SameWaiters, On

LEMMA CreateGood ==
    ASSUME SemaInv, AllInv', HolderRuns', NEW t \in Task, task_create(t), UNCHANGED others
    PROVE  Good
<1>1. cur = t /\ main \in Task /\ call[t].op = "create" /\ pc[t] \in CreatePc
  <2>1. cur = t /\ pc[t] \in CreatePc
    BY DEF task_create, task_struct_init, allocate_pid, Step, spin_lock, spin_unlock, SetStatus,
           Relink, CreatePc
  <2> QED BY <2>1, Places DEF SemaInv, AllInv, TypeInv, CallOK
<1> USE DEF SleepPc, BlockedPc, Early, others, rest
<1>2. CASE task_struct_init(t)
  <2>1. CASE /\ Step(t, "create",
                     IF call[t].arg \in pages THEN "user" ELSE "create_all_lock")
             /\ IF call[t].arg \in pages
                THEN UNCHANGED <<pages, status, pid>>
                ELSE /\ pages' = pages \cup {call[t].arg}
                     /\ status' = [status EXCEPT ![call[t].arg] = "TASK_BLOCKED"]
                     /\ pid' = [pid EXCEPT ![call[t].arg] = 0]
             /\ UNCHANGED <<local, ring, lock, all_tasks_list, next_pid>>
    <3>1. CASE call[t].arg \in pages
      BY <1>1, <2>1, <3>1, Plain
    <3>2. CASE call[t].arg \notin pages
      <4>1. call[t].arg # main
        BY <3>2 DEF SemaInv, AllInv, WorkInv, MakesApart
      <4>2. /\ status'[main] = status[main]
            /\ \A u \in Task \ {main} : status'[u] # "TASK_DYING"
        BY <1>1, <2>1, <3>2, <4>1 DEF SemaInv, Tidy, AllInv, TypeInv, TypeOK
      <4>3. SameWaiters
        BY <2>1 DEF SameWaiters, On
      <4> QED BY <1>1, <2>1, <3>2, <4>2, <4>3, Ordinary
    <3> QED BY <3>1, <3>2
  <2>2. CASE spin_lock(t, "list_slock", "create_all_lock", "create_all_add")
    BY <1>1, <2>2, Plain DEF spin_lock
  <2>3. CASE Step(t, "create_all_add", "create_all_unlock") /\ UNCHANGED <<status, ring>>
    BY <1>1, <2>3, Plain
  <2>4. CASE spin_unlock(t, "list_slock", "create_all_unlock", "pid")
    BY <1>1, <2>4, Plain DEF spin_unlock
  <2> QED BY <1>2, <2>1, <2>2, <2>3, <2>4 DEF task_struct_init
<1>3. CASE allocate_pid(t)
  <2>1. CASE spin_lock(t, "pid_slock", "pid", "pid_inc")
    BY <1>1, <2>1, Plain DEF spin_lock
  <2>2. CASE Step(t, "pid_inc", "pid_unlock") /\ UNCHANGED <<status, ring>>
    BY <1>1, <2>2, Plain
  <2>3. CASE spin_unlock(t, "pid_slock", "pid_unlock", "pid_read")
    BY <1>1, <2>3, Plain DEF spin_unlock
  <2>4. CASE Step(t, "pid_read", "create_lock") /\ UNCHANGED <<status, ring>>
    BY <1>1, <2>4, Plain
  <2> QED BY <1>3, <2>1, <2>2, <2>3, <2>4 DEF allocate_pid
<1>4. CASE spin_lock(t, "list_slock", "create_lock", "create_add")
  BY <1>1, <1>4, Plain DEF spin_lock
<1>5. CASE Relink(t, "create_add", "create_unlock", list_add_tail(ring, call[t].arg, Ready))
  <2>1. Step(t, "create_add", "create_unlock") /\ status' = status
    BY <1>5 DEF Relink
  <2>2. SameWaiters
    BY <1>5, CreateMoves
  <2>3. \A u \in Task \ {main} : status'[u] # "TASK_DYING"
    BY <2>1 DEF SemaInv, Tidy
  <2> QED BY <1>1, <2>1, <2>2, <2>3, Ordinary
<1>6. CASE spin_unlock(t, "list_slock", "create_unlock", "create_status")
  BY <1>1, <1>6, Plain DEF spin_unlock
<1>7. CASE SetStatus(t, "create_status", "user", call[t].arg, "TASK_READY")
  <2>1. call[t].arg # main
    BY <1>7 DEF SetStatus, Step, SemaInv, AllInv, WorkInv, MakesApart, MakePc, CreatePc
  <2>2. /\ status'[main] = status[main]
        /\ \A u \in Task \ {main} : status'[u] # "TASK_DYING"
    BY <1>1, <1>7, <2>1 DEF SetStatus, SemaInv, Tidy, AllInv, TypeInv, TypeOK
  <2>3. SameWaiters /\ Step(t, "create_status", "user")
    BY <1>7 DEF SetStatus, SameWaiters, On
  <2> QED BY <1>1, <2>2, <2>3, Ordinary
<1> QED BY <1>2, <1>3, <1>4, <1>5, <1>6, <1>7 DEF task_create

LEMMA DownGood ==
    ASSUME SemaInv, AllInv', HolderRuns', NEW t \in Task, sema_down(t), UNCHANGED <<isr, todo>>
    PROVE  Good
<1>1. /\ t = main /\ main \in Task /\ cur = main /\ call[main].op = "sema_down"
      /\ pc[main] \in DownPc
  <2>1. cur = t /\ pc[t] \in DownPc
    BY DEF sema_down, Step, spin_lock, spin_unlock, DownPc
  <2>2. t = main
    BY <2>1, OnlyMain DEF DownPc, UpPc, ResumePc, CreatePc, SemaInv
  <2> QED BY <2>1, <2>2, Places DEF SemaInv, AllInv, TypeInv, CallOK
<1>2. PICK s \in Sem : s = call[main].arg
  BY <1>1, SemArg DEF SemaInv, AllInv
<1> USE DEF SleepPc, BlockedPc, Early
<1>3. CASE spin_lock(t, s, "sema_down", "down_test") /\ UNCHANGED count
  BY <1>1, <1>3, Plain DEF spin_lock
<1>4. CASE /\ Step(t, "down_test", IF must_wait(s) THEN "suspend" ELSE "down_fast")
           /\ count' = IF must_wait(s) THEN count ELSE [count EXCEPT ![s] = @ - 1]
           /\ UNCHANGED <<status, ring, lock, rest>>
  <2>1. /\ pc[main] = "down_test" /\ call' = call /\ ring' = ring /\ status' = status
        /\ cur' = cur /\ count[s] \in Nat
        /\ \A u \in Task : pc'[u] = IF u # main THEN pc[u]
                                    ELSE IF must_wait(s) THEN "suspend" ELSE "down_fast"
    BY <1>1, <1>4 DEF Step, SemaInv, AllInv, TypeInv, TypeOK
  <2>2. SameWaiters
    BY <2>1 DEF SameWaiters, On
  <2>3. \A z \in Sem : Pops(z)' <=> Pops(z)
    BY <1>1, <2>1 DEF Pops
  <2>4. Tidy' /\ Stays
    <3>1. ~Leaving /\ ~Leaving'
      BY <1>1, <2>1 DEF Leaving
    <3>2. pc'[main] \notin {"suspend_del", "suspend_add", "exit_returned"}
      BY <1>1, <2>1
    <3> QED BY <1>1, <2>1, <2>2, <3>1, <3>2 DEF SemaInv, Tidy, Stays, SameWaiters, main
  <2>5. CASE must_wait(s)
    <3>1. count' = count /\ count[s] = 0
      BY <1>4, <2>1, <2>5 DEF must_wait
    <3>2. NoUnit'
      BY <1>2, <2>1, <3>1 DEF NoUnit, main
    <3>3. SameUnits
      BY <2>3, <3>1 DEF SameUnits
    <3> QED BY <2>2, <2>4, <3>2, <3>3, Stutters DEF Good
  <2>6. CASE ~must_wait(s)
    <3>1. /\ count[s] > 0
          /\ \A z \in Sem : count'[z] = IF z = s THEN count[s] - 1 ELSE count[z]
      BY <1>4, <2>1, <2>6 DEF must_wait, SemaInv, AllInv, TypeInv, TypeOK
    <3>2. NoUnit'
      BY <1>1, <2>1, <2>6 DEF NoUnit
    <3>3. ~Pops(s)
      BY <1>1, <2>1, Inside DEF Pops, SemaInv, AllInv, SemRegion
    <3>4. Sema!Take(s)
      <4>1. /\ Value = [z \in Sem |-> count[z] - (IF Pops(z) THEN 1 ELSE 0)]
            /\ Waiting = [z \in Sem |-> IF main \in On(z) THEN {main} ELSE {}]
        BY Values DEF SemaInv
      <4>2. /\ Value' = [z \in Sem |-> count'[z] - (IF Pops(z)' THEN 1 ELSE 0)]
            /\ Waiting' = [z \in Sem |-> IF main \in On(z)' THEN {main} ELSE {}]
        BY ValuesNext
      <4>3. Value[s] > 0
        <5>1. Value[s] = count[s] - 0
          BY <3>3, <4>1
        <5> QED BY <2>1, <3>1, <5>1
      <4>4. Value' = [Value EXCEPT ![s] = @ - 1]
        <5>1. \A z \in Sem : Value[z] = count[z] - (IF Pops(z) THEN 1 ELSE 0)
          BY <4>1
        <5>2. \A z \in Sem : z # s => count'[z] - (IF Pops(z)' THEN 1 ELSE 0) = Value[z]
          BY <2>3, <3>1, <5>1
        <5>3. count'[s] - (IF Pops(s)' THEN 1 ELSE 0) = Value[s] - 1
          BY <2>1, <2>3, <3>1, <3>3, <5>1
        <5> QED BY <4>1, <4>2, <5>2, <5>3
      <4>5. Waiting' = Waiting
        BY <2>2, <4>1, <4>2 DEF SameWaiters
      <4> QED BY <4>3, <4>4, <4>5 DEF Sema!Take, Value, Waiting
    <3> QED BY <2>4, <3>2, <3>4 DEF Good, SemaStep, Sema!Next
  <2> QED BY <2>5, <2>6
<1>5. CASE spin_unlock(t, s, "down_unlock", "schedule") /\ UNCHANGED count
  BY <1>1, <1>5, Plain DEF spin_unlock
<1>6. CASE spin_unlock(t, s, "down_fast", "user") /\ UNCHANGED count
  BY <1>1, <1>6, Plain DEF spin_unlock
<1> QED BY <1>1, <1>2, <1>3, <1>4, <1>5, <1>6 DEF sema_down

\* sema_up moves nobody's status, and never its own caller.
LEMMA UpTidy ==
    ASSUME SemaInv, AllInv', NEW t \in Task, NEW from \in UpPc, NEW to \in UpPc, Step(t, from, to),
           status' = status, t = main => ring' = ring
    PROVE  Tidy' /\ NoUnit' /\ Stays
<1>1. /\ cur' = cur /\ cur = t /\ call' = call /\ pc[t] = from /\ main \in Task
      /\ \A u \in Task : pc'[u] = IF u = t THEN to ELSE pc[u]
      /\ call[t].op = "sema_up"
  BY Places DEF Step, SemaInv, AllInv, TypeInv, TypeOK, CallOK
<1>2. CASE t # main
  BY <1>1, <1>2, BesideMain
<1>3. CASE t = main
  <2>1. ~Leaving /\ ~Leaving'
    BY <1>1, <1>3 DEF Leaving
  <2>2. to \notin SleepPc /\ to \notin BlockedPc /\ to # "exit_returned"
    BY DEF UpPc, ResumePc, SleepPc, BlockedPc
  <2>3. \A s \in Sem : main \in On(s)' <=> main \in On(s)
    BY <1>3 DEF On
  <2> QED BY <1>1, <1>3, <2>1, <2>2, <2>3 DEF SemaInv, Tidy, NoUnit, Stays, main
<1> QED BY <1>2, <1>3

\* A unit that appears at s: the waiter is gone from its list, if it was there.
LEMMA Raises ==
    ASSUME SemaInv, AllInv', HolderRuns', NEW s \in Sem,
           \A z \in Sem : count'[z] - (IF Pops(z)' THEN 1 ELSE 0)
                          = count[z] - (IF Pops(z) THEN 1 ELSE 0) + (IF z = s THEN 1 ELSE 0),
           \A z \in Sem : main \in On(z)' <=> main \in On(z) /\ z # s
    PROVE  SemaStep
<1>1. /\ Value = [z \in Sem |-> count[z] - (IF Pops(z) THEN 1 ELSE 0)]
      /\ Waiting = [z \in Sem |-> IF main \in On(z) THEN {main} ELSE {}]
  BY Values DEF SemaInv
<1>2. /\ Value' = [z \in Sem |-> count'[z] - (IF Pops(z)' THEN 1 ELSE 0)]
      /\ Waiting' = [z \in Sem |-> IF main \in On(z)' THEN {main} ELSE {}]
  BY ValuesNext
<1>3. \A z \in Sem : count[z] \in Nat
  BY DEF SemaInv, AllInv, TypeInv, TypeOK
<1>4. Value' = [Value EXCEPT ![s] = @ + 1]
  <2>1. \A z \in Sem : Value[z] = count[z] - (IF Pops(z) THEN 1 ELSE 0) /\ Value[z] \in Int
    BY <1>1, <1>3
  <2>2. \A z \in Sem : Value'[z] = IF z = s THEN Value[z] + 1 ELSE Value[z]
    BY <1>2, <2>1
  <2> QED BY <1>1, <1>2, <2>2
<1>5. CASE main \in On(s)
  <2>1. main \in Waiting[s] /\ Waiting[s] # {}
    BY <1>1, <1>5
  <2>2. Waiting' = [Waiting EXCEPT ![s] = @ \ {main}]
    BY <1>1, <1>2
  <2>3. Sema!Raise(s)
    BY <1>4, <2>1, <2>2 DEF Sema!Raise, Value, Waiting
  <2> QED BY <2>3 DEF SemaStep, Sema!Next
<1>6. CASE main \notin On(s)
  <2>1. Waiting[s] = {} /\ Waiting' = Waiting
    BY <1>1, <1>2, <1>6
  <2>2. Sema!Raise(s)
    BY <1>4, <2>1 DEF Sema!Raise, Value, Waiting
  <2> QED BY <2>2 DEF SemaStep, Sema!Next
<1> QED BY <1>5, <1>6

LEMMA UpGood ==
    ASSUME SemaInv, AllInv', HolderRuns', NEW t \in Task, sema_up(t), UNCHANGED <<isr, todo>>
    PROVE  Good
<1>1. cur = t /\ main \in Task /\ call[t].op = "sema_up" /\ pc[t] \in UpPc
  <2>1. cur = t /\ pc[t] \in UpPc
    BY DEF sema_up, Step, spin_lock, spin_unlock, UpPc
  <2> QED BY <2>1, Places DEF SemaInv, AllInv, TypeInv, CallOK
<1>2. PICK s \in Sem : s = call[t].arg
  BY <1>1, SemArg DEF SemaInv, AllInv
<1>3. \A z \in Sem : count[z] \in Nat
  BY DEF SemaInv, AllInv, TypeInv, TypeOK
<1>4. CASE spin_lock(t, s, "sema_up", "up_inc") /\ UNCHANGED count
  BY <1>1, <1>4, Plain DEF spin_lock, SleepPc, BlockedPc, Early
<1>5. CASE /\ Step(t, "up_inc", IF count[s] + 1 > 0 THEN "up_pop" ELSE "up_unlock")
           /\ count' = [count EXCEPT ![s] = @ + 1]
           /\ UNCHANGED <<status, ring, lock, rest>>
  <2>1. Step(t, "up_inc", "up_pop") /\ ring' = ring /\ status' = status
    BY <1>3, <1>5
  <2>2. Tidy' /\ NoUnit' /\ Stays
    BY <2>1, UpTidy DEF UpPc
  <2>3. SameWaiters
    BY <2>1 DEF SameWaiters, On
  <2>4. /\ call' = call /\ pc[t] = "up_inc"
        /\ \A u \in Task : pc'[u] = IF u = t THEN "up_pop" ELSE pc[u]
        /\ \A z \in Sem : count'[z] = IF z = s THEN count[z] + 1 ELSE count[z]
    BY <1>1, <1>5, <2>1 DEF Step, SemaInv, AllInv, TypeInv, TypeOK
  <2>5. \A z \in Sem : ~Pops(z)
    BY <1>1, <2>4, Inside DEF Pops, SemRegion, SemaInv, AllInv
  <2>6. \A z \in Sem : Pops(z)' <=> z = s
    BY <1>2, <2>4, <2>5 DEF Pops
  <2>7. Value' = Value
    <3>1. \A z \in Sem : count'[z] - (IF Pops(z)' THEN 1 ELSE 0)
                         = count[z] - (IF Pops(z) THEN 1 ELSE 0)
      BY <1>3, <2>4, <2>5, <2>6
    <3> QED BY <3>1, Values, ValuesNext DEF SemaInv
  <2>8. Waiting' = Waiting
    BY <2>3, Values, ValuesNext DEF SemaInv, SameWaiters
  <2> QED BY <2>2, <2>7, <2>8 DEF Good, SemaStep
<1>6. CASE /\ Step(t, "up_pop",
                   IF ~list_empty(ring, s) /\ list_first(ring, s) \in Task
                   THEN "resume" ELSE "up_unlock")
           /\ IF list_empty(ring, s)
              THEN UNCHANGED <<local, ring>>
              ELSE /\ local' = [local EXCEPT ![t] = list_first(ring, s)]
                   /\ ring' = list_del(ring, list_first(ring, s))
           /\ UNCHANGED <<status, lock, pages, all_tasks_list, next_pid, pid, count>>
  <2>1. /\ call' = call /\ pc[t] = "up_pop" /\ pc'[t] # "up_pop"
        /\ \A u \in Task : u # t => pc'[u] = pc[u]
    BY <1>1, <1>6 DEF Step, SemaInv, AllInv, TypeInv, TypeOK
  <2>2. \A z \in Sem : Pops(z) <=> z = s
    BY <1>1, <1>2, <2>1, Inside DEF Pops, SemRegion, SemaInv, AllInv
  <2>3. \A z \in Sem : ~Pops(z)'
    BY <1>1, <2>1, Inside DEF Pops, SemRegion, SemaInv, AllInv
  <2>4. \A z \in Sem : count'[z] - (IF Pops(z)' THEN 1 ELSE 0)
                       = count[z] - (IF Pops(z) THEN 1 ELSE 0) + (IF z = s THEN 1 ELSE 0)
    BY <1>3, <1>6, <2>2, <2>3
  <2>5. ring \in Heap /\ Rings(ring) /\ s \in Head_
    BY Places DEF SemaInv, AllInv, RingInv, TypeInv, SafeHeap
  <2>6. CASE list_empty(ring, s)
    <3>1. On(s) = {} /\ ring' = ring
      BY <1>6, <2>5, <2>6, ListEmpty DEF On
    <3>2. \A z \in Sem : main \in On(z)' <=> main \in On(z) /\ z # s
      BY <3>1 DEF On
    <3>3. Step(t, "up_pop", "up_unlock") /\ status' = status
      BY <1>6, <2>6
    <3> QED BY <2>4, <3>1, <3>2, <3>3, Raises, UpTidy DEF Good, UpPc
  <2>7. CASE ~list_empty(ring, s)
    <3>1. list_first(ring, s) = main /\ main \in On(s)
      BY <2>5, <2>7, ListEmpty, OnTask, Places DEF On, SemaInv
    <3>2. t # main
      BY <1>1, <2>1, <3>1, NotWaiting DEF NoWaitPc, GoingPc, UpPc, SemaInv
    <3>3. PICK r : r = list_del(ring, main)
      OBVIOUS
    <3>4. \A z \in Sem : Members(r, z) = On(z) \ {main}
      BY <2>5, <3>1, <3>3, DelMain, Places DEF SemaInv
    <3>5. \A z \in Sem : main \in On(z)' <=> main \in On(z) /\ z # s
      <4>1. ring' = r
        BY <1>6, <2>7, <3>1, <3>3
      <4>2. \A z \in Sem : main \in On(z) => z = s
        BY <2>5, <3>1, OnTask, Places DEF SemaInv
      <4> QED BY <3>4, <4>1, <4>2 DEF On
    <3>6. Step(t, "up_pop", "resume") /\ status' = status
      BY <1>1, <1>6, <2>7, <3>1
    <3> QED BY <2>4, <3>2, <3>5, <3>6, Raises, UpTidy DEF Good, UpPc, ResumePc
  <2> QED BY <2>6, <2>7
<1>7. CASE spin_unlock(t, s, "up_unlock", "user") /\ UNCHANGED count
  BY <1>1, <1>7, Plain DEF spin_unlock, SleepPc, BlockedPc, Early
<1> QED BY <1>2, <1>4, <1>5, <1>6, <1>7 DEF sema_up

---------------------------------------------------------------------------
(* Calls and interrupts.                                                   *)

LEMMA InvokeGood ==
    ASSUME SemaInv, AllInv', HolderRuns', NEW t \in Task, Invoke(t)
    PROVE  Good
<1>1. /\ cur = t /\ cur' = cur /\ pc[t] = "user" /\ main \in Task
      /\ status' = status /\ ring' = ring /\ count' = count
      /\ \A u \in Task : u # t => pc'[u] = pc[u] /\ call'[u] = call[u]
      /\ pc'[t] = Head(todo[t]).op /\ call'[t] = Head(todo[t])
  BY Places DEF Invoke, SemaInv, AllInv, TypeInv, TypeOK
<1>2. pc'[t] \in {"create", "sema_down", "sema_up", "exit"} /\ call'[t].op = pc'[t]
  <2>1. todo[t] \in Seq(Call) /\ todo[t] # <<>>
    BY DEF Invoke, SemaInv, AllInv, TypeInv, TypeOK
  <2>2. Head(todo[t]) \in Call
    BY <2>1
  <2> QED BY <1>1, <2>2, CallArg
<1>3. SameWaiters
  BY <1>1 DEF SameWaiters, On
<1>4. SameUnits
  BY <1>1, <1>2 DEF SameUnits, Pops
<1>5. Tidy' /\ NoUnit' /\ Stays
  <2>1. CASE t # main
    BY <1>1, <2>1, BesideMain
  <2>2. CASE t = main
    <3>1. ~Leaving /\ ~Leaving'
      BY <1>1, <1>2, <2>2 DEF Leaving, Early
    <3> QED BY <1>1, <1>2, <1>3, <2>2, <3>1
            DEF SemaInv, Tidy, NoUnit, Stays, SleepPc, BlockedPc, SameWaiters, main
  <2> QED BY <2>1, <2>2
<1> QED BY <1>3, <1>4, <1>5, Stutters DEF Good

LEMMA StillGood ==
    ASSUME SemaInv, AllInv', HolderRuns', UNCHANGED <<cur, pc, call, status, ring, count>>
    PROVE  Good
<1>1. SameWaiters /\ SameUnits
  BY DEF SameWaiters, SameUnits, On, Pops
<1>2. Tidy' /\ NoUnit' /\ Stays
  BY DEF SemaInv, Tidy, NoUnit, Stays, Leaving, On, main
<1> QED BY <1>1, <1>2, Stutters DEF Good

\* A handler meets main at a statement outside every critical section.
LEMMA IsrOutside ==
    ASSUME SemaInv, ~IF_flag
    PROVE  pc[main] \notin ListRegion \cup SemRegion
<1>1. \A l \in Lock : ~Holds(main, l)
  BY Places, IsrUnlocked DEF SemaInv, AllInv
<1>2. pc[main] \in SemRegion => call[main].arg \in Sem
  BY Places, SemArg DEF SemRegion, DownPc, UpPc, ResumePc, SemaInv, AllInv
<1> QED BY <1>1, <1>2, Places DEF Holds

LEMMA TickGood ==
    ASSUME SemaInv, AllInv', HolderRuns', TickIsr
    PROVE  Good
<1> DEFINE next == list_first(ring, Ready)
<1>1. /\ UNCHANGED <<pc, call, count>> /\ isr = "tick" /\ switch_to(next)
      /\ next \in On(Ready) /\ next \in Task /\ main \in Task
  BY FirstReady, OnTask, Places DEF TickIsr, SemaInv
<1>2. cur' = next /\ \A t \in Task : status'[t] = IF t = next THEN "TASK_RUNNING" ELSE status[t]
  BY <1>1 DEF switch_to, SemaInv, AllInv, TypeInv, TypeOK
<1>3. ~IF_flag
  BY <1>1 DEF SemaInv, HolderRuns
<1>4. pc[main] \notin ListRegion \cup SemRegion
  BY <1>3, IsrOutside
<1>5. next = main => status[main] # "TASK_DYING"
  BY <1>1, <1>4, ReadyStays DEF ListRegion
<1>6. SameWaiters
  <2>1. \A s \in Sem : On(s)' = IF status[cur] # "TASK_RUNNING" THEN On(s) ELSE On(s) \ {cur}
    BY TickMoves, Places DEF SemaInv
  <2> QED BY <2>1 DEF SameWaiters, SemaInv, Tidy
<1>7. SameUnits
  BY <1>1 DEF SameUnits, Pops
<1>8. \A s \in Sem : main \in On(s)' => status'[main] = "TASK_BLOCKED"
  <2>1. next = main => \A s \in Sem : main \notin On(s)
    BY <1>1, Places, OnTask DEF SemaInv
  <2> QED BY <1>1, <1>2, <1>6, <2>1 DEF SameWaiters, SemaInv, Tidy
<1>9. Leaving' <=> Leaving
  BY <1>1 DEF Leaving, main
<1>10. Tidy'
  BY <1>1, <1>2, <1>4, <1>5, <1>8, <1>9 DEF SemaInv, Tidy, BlockedPc, ListRegion, main
<1>11. NoUnit'
  BY <1>1 DEF SemaInv, NoUnit, main
<1> QED BY <1>6, <1>7, <1>9, <1>10, <1>11, Stutters DEF Good, Stays

LEMMA DeviceGood ==
    ASSUME SemaInv, AllInv', HolderRuns', NEW s \in IrqSem, DeviceIsr(s)
    PROVE  Good
<1> DEFINE first  == list_first(ring, s)
           popped == list_del(ring, first)
           wakes  == first \in Task /\ resumes(first)
<1>1. /\ UNCHANGED <<cur, pc, call>> /\ isr = s
      /\ count' = [count EXCEPT ![s] = @ + 1]
      /\ IF count[s] + 1 > 0 /\ ~list_empty(ring, s)
         THEN /\ ring' = IF wakes THEN list_add_tail(popped, first, Ready) ELSE popped
              /\ status' = IF wakes THEN [status EXCEPT ![first] = "TASK_RUNNING"]
                                    ELSE status
         ELSE UNCHANGED <<ring, status>>
  BY DEF DeviceIsr, sema_up_in_isr
<1>2. /\ main \in Task /\ Ready \in Head_ /\ Rings(ring) /\ ring \in Heap
      /\ s \in Head_ \ {Ready} /\ s \in Sem
      /\ \A z \in Sem : count[z] \in Nat
      /\ \A z \in Sem : count'[z] = IF z = s THEN count[z] + 1 ELSE count[z]
  BY <1>1, Places, KernelAssumption
     DEF SemaInv, AllInv, RingInv, TypeInv, TypeOK, SafeHeap
<1>3. ~IF_flag
  <2>1. s # "none"
    BY <1>2, KernelAssumption
  <2> QED BY <1>1, <2>1 DEF SemaInv, HolderRuns
<1>4. pc[main] \notin ListRegion \cup SemRegion
  BY <1>3, IsrOutside
<1>5. \A z \in Sem : count'[z] - (IF Pops(z)' THEN 1 ELSE 0)
                     = count[z] - (IF Pops(z) THEN 1 ELSE 0) + (IF z = s THEN 1 ELSE 0)
  <2>1. \A z \in Sem : Pops(z)' <=> Pops(z)
    BY <1>1 DEF Pops
  <2> QED BY <1>2, <2>1
<1>6. NoUnit'
  BY <1>1, <1>4 DEF NoUnit, SleepPc, SemRegion, main
<1>7. Leaving' <=> Leaving
  BY <1>1 DEF Leaving, main
<1>8. CASE list_empty(ring, s)
  <2>1. On(s) = {} /\ ring' = ring /\ status' = status
    BY <1>1, <1>2, <1>8, ListEmpty DEF On
  <2>2. \A z \in Sem : main \in On(z)' <=> main \in On(z) /\ z # s
    BY <2>1 DEF On
  <2>3. Tidy'
    BY <1>1, <1>7, <2>1, <2>2 DEF SemaInv, Tidy, main
  <2> QED BY <1>2, <1>5, <1>6, <1>7, <2>2, <2>3, Raises DEF Good, Stays
<1>9. CASE ~list_empty(ring, s)
  <2>1. first = main /\ main \in On(s)
    BY <1>2, <1>9, ListEmpty, OnTask DEF On, SemaInv
  <2>2. status[main] = "TASK_BLOCKED" /\ wakes
    BY <1>2, <2>1 DEF SemaInv, Tidy, resumes
  <2>3. PICK r : r = list_del(ring, main)
    OBVIOUS
  <2>4. /\ Rings(r) /\ r \in Heap
        /\ \A h \in Head_ : Members(r, h) = On(h) \ {main}
    BY <1>2, <2>1, <2>3, DelMain DEF SemaInv
  <2>5. /\ ring' = list_add_tail(r, main, Ready)
        /\ \A t \in Task : status'[t] = IF t = main THEN "TASK_RUNNING" ELSE status[t]
    BY <1>1, <1>2, <1>9, <2>1, <2>2, <2>3 DEF SemaInv, AllInv, TypeInv, TypeOK
  <2>6. \A z \in Sem : Members(ring', z) = Members(r, z)
    <3>1. \A h \in Head_ : main \notin Members(r, h)
      BY <2>4
    <3>2. \A h \in Head_ : Members(ring', h) = IF h = Ready THEN Members(r, h) \cup {main}
                                                            ELSE Members(r, h)
      BY <1>2, <2>4, <2>5, <3>1, AddOff
    <3> QED BY <3>2, Places
  <2>7. \A z \in Sem : main \notin On(z)'
    BY <2>4, <2>6, Places DEF On
  <2>8. \A z \in Sem : main \in On(z)' <=> main \in On(z) /\ z # s
    <3>1. \A z \in Sem : main \in On(z) => z = s
      BY <1>2, <2>1, OnTask, Places DEF SemaInv
    <3> QED BY <2>7, <3>1
  <2>9. Tidy'
    BY <1>1, <1>2, <1>4, <1>7, <2>2, <2>5, <2>7
       DEF SemaInv, Tidy, BlockedPc, ListRegion, main
  <2> QED BY <1>2, <1>5, <1>6, <1>7, <2>8, <2>9, Raises DEF Good, Stays
<1> QED BY <1>8, <1>9

---------------------------------------------------------------------------
(* The theorems.                                                           *)

LEMMA StepGood ==
    ASSUME SemaInv, AllInv', HolderRuns', [Next]_vars
    PROVE  Good
<1>1. ASSUME NEW t \in Task, TaskStep(t) PROVE Good
  <2>1. CASE Invoke(t)
    BY <2>1, InvokeGood
  <2>2. CASE SchedStep(t) /\ UNCHANGED others
    BY <2>2, ScheduleGood, ExitGood, SuspendGood, ResumeGood, CreateGood DEF SchedStep
  <2>3. CASE (sema_down(t) \/ sema_up(t)) /\ UNCHANGED <<isr, todo>>
    BY <2>3, DownGood, UpGood
  <2> QED BY <1>1, <2>1, <2>2, <2>3 DEF TaskStep, others
<1>2. ASSUME NEW v \in Vector, Interrupt(v) PROVE Good
  BY <1>2, StillGood DEF Interrupt
<1>3. CASE TickIsr
  BY <1>3, TickGood
<1>4. ASSUME NEW s \in IrqSem, DeviceIsr(s) PROVE Good
  BY <1>4, DeviceGood
<1>5. CASE UNCHANGED vars
  BY <1>5, StillGood DEF vars, schedVars
<1> QED BY <1>1, <1>2, <1>3, <1>4, <1>5 DEF Next

LEMMA SemaNext ==
    IrqAt = "unlocked" /\ SemaInv /\ [Next]_vars => SemaInv' /\ Stays /\ SemaStep
<1> SUFFICES ASSUME IrqAt = "unlocked", SemaInv, [Next]_vars
             PROVE  SemaInv' /\ Stays /\ SemaStep
  OBVIOUS
<1>1. AllInv' /\ HolderRuns'
  BY AllNext, HolderNext DEF SemaInv, AllInv
<1>2. Good
  BY <1>1, StepGood
<1> QED BY <1>1, <1>2 DEF Good, SemaInv

\* main begins as the one task, running.
LEMMA SemaStart == MainAlone /\ Init => SemaInv
<1> SUFFICES ASSUME MainAlone, Init PROVE SemaInv
  OBVIOUS
<1>1. AllInv /\ HolderRuns
  BY AllInit, HolderInit
<1>2. /\ pc[main] = "user" /\ call[main].op = "exit" /\ main \in Task
      /\ \A t \in Task : status[t] # "TASK_DYING"
  BY Places DEF Init, SchedInit, main
<1>3. \A s \in Sem : main \notin On(s)
  BY <1>1, <1>2, WaitsAt DEF Waits
<1>4. Tidy /\ NoUnit
  BY <1>2, <1>3 DEF Tidy, NoUnit, Leaving, Early, BlockedPc, SleepPc
<1> QED BY <1>1, <1>4 DEF SemaInv

\* While no interrupt lands under a spin lock and main alone waits, a task in a
\* wait list is blocked, so the sema_up that pops it puts it on the ready list
\* (WaitersBlocked).
THEOREM SleepersBlocked == MainAlone /\ IrqAt = "unlocked" /\ Spec => []WaitersBlocked
<1> SUFFICES ASSUME MainAlone, IrqAt = "unlocked" PROVE Spec => []WaitersBlocked
  OBVIOUS
<1>1. SemaInv => WaitersBlocked
  <2> SUFFICES ASSUME SemaInv, NEW s \in Sem, NEW t \in Members(ring, s) \cap Task
               PROVE  status[t] = "TASK_BLOCKED"
    BY DEF WaitersBlocked
  <2>1. t = main /\ main \in On(s)
    BY WaiterSet DEF SemaInv
  <2> QED BY <2>1 DEF SemaInv, Tidy
<1>2. Init => SemaInv
  BY SemaStart
<1>3. SemaInv /\ [Next]_vars => SemaInv' /\ Stays /\ SemaStep
  BY SemaNext
<1> QED BY <1>1, <1>2, <1>3, PTL DEF Spec

\* Then what has exited is not dispatched again, as boot/start.S says of main
\* (ExitNeverReturns).
THEOREM NobodyReturns == MainAlone /\ IrqAt = "unlocked" /\ Spec => []ExitNeverReturns
<1> SUFFICES ASSUME MainAlone, IrqAt = "unlocked" PROVE Spec => []ExitNeverReturns
  OBVIOUS
<1>1. SemaInv => ExitNeverReturns
  <2> SUFFICES ASSUME SemaInv, cur \in Task, pc[cur] = "exit_returned" PROVE FALSE
    BY DEF ExitNeverReturns
  <2>1. PICK t \in Task : t = cur
    OBVIOUS
  <2>2. t = main
    BY <2>1, OnlyMain DEF SemaInv, UpPc, ResumePc, CreatePc
  <2> QED BY <2>1, <2>2 DEF SemaInv, Tidy
<1>2. Init => SemaInv
  BY SemaStart
<1>3. SemaInv /\ [Next]_vars => SemaInv' /\ Stays /\ SemaStep
  BY SemaNext
<1> QED BY <1>1, <1>2, <1>3, PTL DEF Spec

\* Then no status replaces TASK_DYING: not schedule's, task_resume's or
\* task_create's (DyingIsFinal).
THEOREM DyingStays == MainAlone /\ IrqAt = "unlocked" /\ Spec => DyingIsFinal
<1> SUFFICES ASSUME MainAlone, IrqAt = "unlocked" PROVE Spec => DyingIsFinal
  OBVIOUS
<1>1. SemaInv /\ SemaInv' /\ Stays
      => [\A t \in Task : status[t] = "TASK_DYING" => status'[t] = "TASK_DYING"]_vars
  <2> SUFFICES ASSUME SemaInv, SemaInv', Stays
               PROVE  \A t \in Task : status[t] = "TASK_DYING" => status'[t] = "TASK_DYING"
    OBVIOUS
  <2>1. \A t \in Task : status[t] = "TASK_DYING" => t = main /\ Leaving
    BY Places DEF SemaInv, Tidy
  <2>2. Leaving => Leaving'
    BY DEF Stays
  <2>3. Leaving' => status'[main] = "TASK_DYING"
    BY DEF SemaInv, Tidy, main
  <2> QED BY <2>1, <2>2, <2>3
<1>2. Init => SemaInv
  BY SemaStart
<1>3. SemaInv /\ [Next]_vars => SemaInv' /\ Stays /\ SemaStep
  BY SemaNext
<1> QED BY <1>1, <1>2, <1>3, PTL DEF Spec, DyingIsFinal

\* Then sema_down and sema_up, whose statements are preempted anywhere, take
\* effect as the atomic operations of module Semaphore: the unit a sema_up adds
\* appears when it pops the waiter, which sleeps from the list_add of
\* task_suspend on.
THEOREM SemaphoresAtomic == MainAlone /\ IrqAt = "unlocked" /\ Spec => SemaphoreSpec
<1> SUFFICES ASSUME MainAlone, IrqAt = "unlocked" PROVE Spec => SemaphoreSpec
  OBVIOUS
<1>1. Init => Sema!Init
  <2> SUFFICES ASSUME Init PROVE Sema!Init
    OBVIOUS
  <2>1. SemaInv
    BY SemaStart
  <2>2. \A s \in Sem : main \notin On(s) /\ ~Pops(s)
    BY <2>1, WaitsAt, Places DEF SemaInv, Waits, Init, SchedInit, Pops, main
  <2>3. Value = SemInit
    <3>1. Value = [s \in Sem |-> count[s] - (IF Pops(s) THEN 1 ELSE 0)]
      BY <2>1, Values DEF SemaInv
    <3>2. \A s \in Sem : count[s] - (IF Pops(s) THEN 1 ELSE 0) = SemInit[s]
      BY <2>2, SyncAssumption DEF Init, SyncInit
    <3> QED BY <3>1, <3>2, SyncAssumption
  <2>4. Waiting = [s \in Sem |-> {}]
    BY <2>1, <2>2, Values DEF SemaInv
  <2> QED BY <2>3, <2>4 DEF Sema!Init, Value, Waiting
<1>2. SemaStep => [Sema!Next]_<<Value, Waiting>>
  BY DEF SemaStep
<1>3. Init => SemaInv
  BY SemaStart
<1>4. SemaInv /\ [Next]_vars => SemaInv' /\ Stays /\ SemaStep
  BY SemaNext
<1> QED BY <1>1, <1>2, <1>3, <1>4, PTL DEF Spec, SemaphoreSpec, Sema!Spec, Value, Waiting
=============================================================================
