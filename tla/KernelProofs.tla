---------------------------- MODULE KernelProofs ----------------------------
(***************************************************************************)
(* What holds of the kernel for every set of tasks and semaphores, every   *)
(* workload and interrupts wherever IrqAt lets them land.                  *)
(***************************************************************************)
EXTENDS Kernel, TLAPS

Heap == [next : [Node -> Node \cup {NULL}], prev : [Node -> Node \cup {NULL}]]

\* A heap on which every list operation meets linked nodes only.
SafeHeap(r) ==
    /\ r \in Heap
    /\ Closed(r, NULL)
    /\ \A h \in Head_ : Linked(r, h, NULL)

---------------------------------------------------------------------------
(* The list operations keep a heap safe and never unlink a node.           *)

LEMMA SpliceSafe ==
    ASSUME NEW r, SafeHeap(r), NEW n \in Node, NEW p \in Node, NEW q \in Node,
           Linked(r, p, NULL), Linked(r, q, NULL)
    PROVE  /\ SafeHeap(Splice(r, n, p, q))
           /\ \A m \in Node : Linked(r, m, NULL) => Linked(Splice(r, n, p, q), m, NULL)
           /\ Linked(Splice(r, n, p, q), n, NULL)
<1> DEFINE s == Splice(r, n, p, q)
<1>1. /\ r.next \in [Node -> Node \cup {NULL}] /\ r.prev \in [Node -> Node \cup {NULL}]
      /\ NULL \notin Node /\ Head_ \subseteq Node
  BY SchedAssumption DEF SafeHeap, Heap, Node
<1>2. \A m \in Node : /\ r.next[m] = NULL <=> r.prev[m] = NULL
                      /\ r.next[m] # NULL => /\ r.next[m] \in Node /\ r.prev[m] \in Node
                                             /\ r.next[r.next[m]] # NULL
                                             /\ r.next[r.prev[m]] # NULL
  BY <1>1 DEF SafeHeap, Closed, Linked
<1>3. /\ s.next = [r.next EXCEPT ![n] = q, ![p] = n]
      /\ s.prev = [r.prev EXCEPT ![n] = p, ![q] = n]
      /\ s \in Heap
  BY <1>1 DEF Splice, Heap
<1>4. /\ s.next \in [Node -> Node \cup {NULL}] /\ s.prev \in [Node -> Node \cup {NULL}]
      /\ \A m \in Node : /\ s.next[m] = IF m = p THEN n ELSE IF m = n THEN q ELSE r.next[m]
                         /\ s.prev[m] = IF m = q THEN n ELSE IF m = n THEN p ELSE r.prev[m]
  BY <1>1, <1>3
<1>5. \A m \in Node : /\ s.next[m] # NULL <=> m = n \/ r.next[m] # NULL
                      /\ s.prev[m] # NULL <=> m = n \/ r.next[m] # NULL
  <2> SUFFICES ASSUME NEW m \in Node
               PROVE  /\ s.next[m] # NULL <=> m = n \/ r.next[m] # NULL
                      /\ s.prev[m] # NULL <=> m = n \/ r.next[m] # NULL
    OBVIOUS
  <2>1. r.next[p] # NULL /\ r.next[q] # NULL /\ n # NULL /\ p # NULL /\ q # NULL
    BY <1>1 DEF Linked
  <2>2. s.next[m] # NULL <=> m = n \/ r.next[m] # NULL
    BY <1>4, <2>1
  <2>3. s.prev[m] # NULL <=> m = n \/ r.next[m] # NULL
    BY <1>2, <1>4, <2>1
  <2> QED BY <2>2, <2>3
<1>6. \A m \in Node : s.next[m] # NULL => /\ s.next[m] \in Node /\ s.prev[m] \in Node
                                          /\ s.next[s.next[m]] # NULL
                                          /\ s.next[s.prev[m]] # NULL
  BY <1>1, <1>2, <1>4, <1>5 DEF Linked
<1>7. Closed(s, NULL)
  BY <1>4, <1>5, <1>6 DEF Closed, Linked
<1> QED BY <1>1, <1>3, <1>5, <1>7 DEF SafeHeap, Linked

LEMMA AddTailSafe ==
    ASSUME NEW r, SafeHeap(r), NEW n \in Node, NEW h \in Head_
    PROVE  /\ SafeHeap(list_add_tail(r, n, h))
           /\ \A m \in Node : Linked(r, m, NULL) => Linked(list_add_tail(r, n, h), m, NULL)
           /\ Linked(list_add_tail(r, n, h), n, NULL)
<1>1. h \in Node /\ r.prev[h] \in Node /\ Linked(r, h, NULL) /\ Linked(r, r.prev[h], NULL)
  BY DEF SafeHeap, Heap, Closed, Linked, Node
<1> QED BY <1>1, SpliceSafe DEF list_add_tail

LEMMA AddSafe ==
    ASSUME NEW r, SafeHeap(r), NEW n \in Node, NEW h \in Head_
    PROVE  /\ SafeHeap(list_add(r, n, h))
           /\ \A m \in Node : Linked(r, m, NULL) => Linked(list_add(r, n, h), m, NULL)
           /\ Linked(list_add(r, n, h), n, NULL)
<1>1. h \in Node /\ r.next[h] \in Node /\ Linked(r, h, NULL) /\ Linked(r, r.next[h], NULL)
  BY DEF SafeHeap, Heap, Closed, Linked, Node
<1> QED BY <1>1, SpliceSafe DEF list_add

LEMMA DelSafe ==
    ASSUME NEW r, SafeHeap(r), NEW n \in Node, Linked(r, n, NULL)
    PROVE  /\ SafeHeap(list_del(r, n))
           /\ \A m \in Node : Linked(r, m, NULL) => Linked(list_del(r, n), m, NULL)
<1> DEFINE s == list_del(r, n)
<1>1. /\ r.next \in [Node -> Node \cup {NULL}] /\ r.prev \in [Node -> Node \cup {NULL}]
      /\ NULL \notin Node /\ Head_ \subseteq Node
  BY SchedAssumption DEF SafeHeap, Heap, Node
<1>2. \A m \in Node : /\ r.next[m] = NULL <=> r.prev[m] = NULL
                      /\ r.next[m] # NULL => /\ r.next[m] \in Node /\ r.prev[m] \in Node
                                             /\ r.next[r.next[m]] # NULL
                                             /\ r.next[r.prev[m]] # NULL
  BY <1>1 DEF SafeHeap, Closed, Linked
<1>3. /\ s.next = [r.next EXCEPT ![r.prev[n]] = r.next[n]]
      /\ s.prev = [r.prev EXCEPT ![r.next[n]] = r.prev[n]]
      /\ s \in Heap
  BY <1>1 DEF list_del, Heap
<1>4. /\ s.next \in [Node -> Node \cup {NULL}] /\ s.prev \in [Node -> Node \cup {NULL}]
      /\ \A m \in Node : /\ s.next[m] = IF m = r.prev[n] THEN r.next[n] ELSE r.next[m]
                         /\ s.prev[m] = IF m = r.next[n] THEN r.prev[n] ELSE r.prev[m]
  BY <1>1, <1>3
<1>5. \A m \in Node : /\ s.next[m] # NULL <=> r.next[m] # NULL
                      /\ s.prev[m] # NULL <=> r.next[m] # NULL
  BY <1>1, <1>2, <1>4 DEF Linked
<1>6. \A m \in Node : s.next[m] # NULL => /\ s.next[m] \in Node /\ s.prev[m] \in Node
                                          /\ s.next[s.next[m]] # NULL
                                          /\ s.next[s.prev[m]] # NULL
  BY <1>1, <1>2, <1>4, <1>5 DEF Linked
<1>7. Closed(s, NULL)
  BY <1>4, <1>5, <1>6 DEF Closed, Linked
<1> QED BY <1>1, <1>3, <1>5, <1>7 DEF SafeHeap, Linked

LEMMA FirstLinked ==
    ASSUME NEW r, SafeHeap(r), NEW h \in Head_
    PROVE  list_first(r, h) \in Node /\ Linked(r, list_first(r, h), NULL)
BY DEF SafeHeap, Heap, Closed, Linked, list_first, Node

---------------------------------------------------------------------------
(* The invariant: TypeOK and ListsLinked are not inductive alone.  What a  *)
(* statement does depends on the call the task is in and on what its       *)
(* schedule or sema_up read before.                                        *)

DownPc   == {"sema_down", "down_test", "suspend", "suspend_status", "suspend_del",
             "suspend_add", "suspend_unlock", "down_unlock", "down_fast"}
ResumePc == {"resume", "resume_test", "resume_add", "resume_unlock"}
UpPc     == {"sema_up", "up_inc", "up_pop", "up_unlock"} \cup ResumePc
CreatePc == {"create", "create_all_lock", "create_all_add", "create_all_unlock",
             "pid", "pid_inc", "pid_unlock", "pid_read", "create_lock",
             "create_add", "create_unlock", "create_status"}
ChosenPc == {"sched_check", "sched_lock", "sched_del", "sched_add",
             "sched_unlock", "sched_switch"}

\* The statement a task is at belongs to the call it is in.
CallOK ==
    \A t \in Task : /\ pc[t] \in DownPc   => call[t].op = "sema_down"
                    /\ pc[t] \in UpPc     => call[t].op = "sema_up"
                    /\ pc[t] \in CreatePc => call[t].op = "create"

\* What a task read before, and will still use, is on some list.
LocalOK ==
    \A t \in Task : /\ pc[t] \in ChosenPc => /\ local[t] \in Node
                                             /\ Linked(ring, local[t], NULL)
                    /\ pc[t] \in ResumePc => local[t] \in Task

TypeInv ==
    /\ TypeOK
    /\ CallOK
    /\ LocalOK
    /\ SafeHeap(ring)
    /\ Linked(ring, cur, NULL)

LEMMA CallArg ==
    ASSUME NEW c \in Call
    PROVE  /\ c.op \in {"sema_down", "sema_up"} => c.arg \in Sem
           /\ c.op = "create" => c.arg \in Task
           /\ c.op \in {"create", "sema_down", "sema_up", "exit"}
BY DEF Call

\* A step from one statement to another stays within the call and within
\* the use of the local.
Flow(from, to) ==
    /\ to \in PC
    /\ to \in DownPc   => from \in DownPc
    /\ to \in UpPc     => from \in UpPc
    /\ to \in CreatePc => from \in CreatePc
    /\ to \in ChosenPc => from \in ChosenPc
    /\ to \in ResumePc => from \in ResumePc

\* What an executed statement leaves true of control.
ControlOK ==
    /\ cur' \in Node
    /\ IF_flag' \in BOOLEAN
    /\ pc' \in [Task -> PC]
    /\ call' \in [Task -> Call]
    /\ CallOK'
    /\ LocalOK'
    /\ Linked(ring', cur', NULL)

LEMMA StepControl ==
    ASSUME TypeInv, NEW t \in Task, NEW from, NEW to, Step(t, from, to), Flow(from, to),
           local' = local, \A m \in Node : Linked(ring, m, NULL) => Linked(ring', m, NULL)
    PROVE  ControlOK
<1>1. /\ cur' = cur /\ cur \in Node
      /\ IF_flag' \in BOOLEAN
      /\ call' = call /\ call \in [Task -> Call]
      /\ pc' = [pc EXCEPT ![t] = to] /\ pc \in [Task -> PC] /\ pc[t] = from
  BY DEF TypeInv, TypeOK, Step
<1>2. pc' \in [Task -> PC]
  BY <1>1 DEF Flow
<1>3. \A u \in Task : pc'[u] = IF u = t THEN to ELSE pc[u]
  BY <1>1
<1>4. CallOK'
  BY <1>1, <1>3 DEF CallOK, Flow, TypeInv
<1>5. LocalOK'
  BY <1>1, <1>3 DEF LocalOK, Flow, TypeInv
<1>6. Linked(ring', cur', NULL)
  BY <1>1 DEF TypeInv
<1> QED BY <1>1, <1>2, <1>4, <1>5, <1>6 DEF ControlOK

---------------------------------------------------------------------------
(* The building blocks of module Sched preserve the invariant.             *)

others == <<count, isr, todo>>

LEMMA LockStep ==
    ASSUME TypeInv, NEW t \in Task, NEW l \in Lock, NEW from, NEW to, Flow(from, to),
           spin_lock(t, l, from, to) \/ spin_unlock(t, l, from, to), UNCHANGED others
    PROVE  TypeInv'
<1>1. /\ Step(t, from, to) /\ UNCHANGED <<status, ring, rest, others>>
      /\ lock' = [lock EXCEPT ![l] = 0] \/ lock' = [lock EXCEPT ![l] = 1]
  BY DEF spin_lock, spin_unlock
<1>2. ControlOK
  BY <1>1, StepControl DEF rest
<1>3. lock' \in [Lock -> {0, 1}]
  BY <1>1 DEF TypeInv, TypeOK
<1> QED BY <1>1, <1>2, <1>3 DEF TypeInv, TypeOK, ControlOK, SafeHeap, rest, others, Vector

LEMMA StatusStep ==
    ASSUME TypeInv, NEW t \in Task, NEW from, NEW to, Flow(from, to), NEW tsk,
           NEW s \in Status, SetStatus(t, from, to, tsk, s), UNCHANGED others
    PROVE  TypeInv'
<1>1. /\ Step(t, from, to) /\ UNCHANGED <<lock, ring, rest, others>>
      /\ status' = [status EXCEPT ![tsk] = s]
  BY DEF SetStatus
<1>2. ControlOK
  BY <1>1, StepControl DEF rest
<1>3. status' \in [Task -> Status]
  BY <1>1 DEF TypeInv, TypeOK
<1> QED BY <1>1, <1>2, <1>3 DEF TypeInv, TypeOK, ControlOK, SafeHeap, rest, others, Vector

LEMMA RelinkStep ==
    ASSUME TypeInv, NEW t \in Task, NEW from, NEW to, Flow(from, to), NEW r,
           SafeHeap(r), \A m \in Node : Linked(ring, m, NULL) => Linked(r, m, NULL),
           Relink(t, from, to, r), UNCHANGED others
    PROVE  TypeInv'
<1>1. /\ Step(t, from, to) /\ UNCHANGED <<status, lock, rest, others>>
      /\ ring' = r
  BY DEF Relink
<1>2. ControlOK
  BY <1>1, StepControl DEF rest
<1>3. SafeHeap(ring')
  BY <1>1
<1> QED BY <1>1, <1>2, <1>3 DEF TypeInv, TypeOK, ControlOK, SafeHeap, Heap, rest, others, Vector

\* The choice and the dispatch of schedule, for a task and for the tick.
LEMMA SwitchStep ==
    ASSUME TypeInv, NEW next \in Node, Linked(ring, next, NULL),
           switch_to(next)
    PROVE  /\ cur' = next
           /\ IF_flag' = TRUE
           /\ status' \in [Task -> Status]
           /\ pages' \subseteq Task
           /\ all_tasks_list' \subseteq Task
BY SchedAssumption DEF TypeInv, TypeOK, switch_to, task_sched_post_proc, Status

LEMMA ScheduleType ==
    ASSUME TypeInv, NEW t \in Task, schedule(t), UNCHANGED others
    PROVE  TypeInv'
<1>1. CASE /\ Step(t, "schedule", "sched_check")
           /\ local' = [local EXCEPT ![t] = list_first(ring, Ready)]
           /\ UNCHANGED <<status, ring, lock, pages, all_tasks_list, next_pid, pid>>
  <2>1. list_first(ring, Ready) \in Node /\ Linked(ring, list_first(ring, Ready), NULL)
    BY FirstLinked DEF TypeInv, Head_
  <2>2. /\ cur' = cur /\ IF_flag' = IF_flag /\ call' = call
        /\ pc' = [pc EXCEPT ![t] = "sched_check"]
    BY <1>1 DEF Step
  <2>3. local' \in [Task -> Node \cup {NULL}] /\ pc' \in [Task -> PC]
    BY <1>1, <2>1, <2>2 DEF TypeInv, TypeOK, PC
  <2>4. CallOK'
    BY <2>2 DEF TypeInv, TypeOK, CallOK, DownPc, UpPc, CreatePc, ResumePc
  <2>5. LocalOK'
    BY <1>1, <2>1, <2>2 DEF TypeInv, TypeOK, LocalOK, ResumePc
  <2> QED BY <1>1, <2>2, <2>3, <2>4, <2>5 DEF TypeInv, TypeOK, SafeHeap, others, Vector
<1>2. CASE /\ Step(t, "sched_check",
                    IF status[t] = "TASK_RUNNING" THEN "sched_lock" ELSE "sched_switch")
           /\ UNCHANGED <<status, ring, lock, rest>>
  <2>1. Flow("sched_check", IF status[t] = "TASK_RUNNING" THEN "sched_lock" ELSE "sched_switch")
    BY DEF Flow, PC, DownPc, UpPc, CreatePc, ChosenPc, ResumePc
  <2>2. ControlOK
    BY <1>2, <2>1, StepControl DEF rest
  <2> QED BY <1>2, <2>2 DEF TypeInv, TypeOK, ControlOK, SafeHeap, rest, others, Vector
<1>3. CASE spin_lock(t, "list_slock", "sched_lock", "sched_del")
  <2>1. Flow("sched_lock", "sched_del")
    BY DEF Flow, PC, DownPc, UpPc, CreatePc, ChosenPc, ResumePc
  <2> QED BY <1>3, <2>1, LockStep DEF Lock
<1>4. CASE Relink(t, "sched_del", "sched_add", list_del(ring, t))
  <2>1. Flow("sched_del", "sched_add")
    BY DEF Flow, PC, DownPc, UpPc, CreatePc, ChosenPc, ResumePc
  <2>2. t \in Node /\ Linked(ring, t, NULL)
    BY <1>4 DEF Relink, Step, TypeInv, Node
  <2> QED BY <1>4, <2>1, <2>2, DelSafe, RelinkStep DEF TypeInv
<1>5. CASE Relink(t, "sched_add", "sched_unlock", list_add_tail(ring, t, Ready))
  <2>1. Flow("sched_add", "sched_unlock")
    BY DEF Flow, PC, DownPc, UpPc, CreatePc, ChosenPc, ResumePc
  <2> QED BY <1>5, <2>1, AddTailSafe, RelinkStep DEF TypeInv, Node, Head_
<1>6. CASE spin_unlock(t, "list_slock", "sched_unlock", "sched_switch")
  <2>1. Flow("sched_unlock", "sched_switch")
    BY DEF Flow, PC, DownPc, UpPc, CreatePc, ChosenPc, ResumePc
  <2> QED BY <1>6, <2>1, LockStep DEF Lock
<1>7. CASE /\ cur = t /\ IF_flag /\ pc[t] = "sched_switch"
           /\ pc' = [pc EXCEPT ![t] = ReturnFrom(t)]
           /\ switch_to(local[t])
           /\ UNCHANGED <<call, local, ring, lock, next_pid, pid>>
  <2>1. local[t] \in Node /\ Linked(ring, local[t], NULL)
    BY <1>7 DEF TypeInv, LocalOK, ChosenPc
  <2>2. /\ cur' = local[t] /\ IF_flag' = TRUE /\ status' \in [Task -> Status]
        /\ pages' \subseteq Task /\ all_tasks_list' \subseteq Task
    BY <1>7, <2>1, SwitchStep
  <2>3. ReturnFrom(t) \in PC /\ ReturnFrom(t) \notin DownPc \cup UpPc \cup CreatePc \cup ChosenPc
    BY DEF ReturnFrom, PC, DownPc, UpPc, CreatePc, ChosenPc, ResumePc
  <2>4. pc' \in [Task -> PC] /\ CallOK' /\ LocalOK'
    <3>1. \A u \in Task : pc'[u] = IF u = t THEN ReturnFrom(t) ELSE pc[u]
      BY <1>7 DEF TypeInv, TypeOK
    <3>2. pc' \in [Task -> PC]
      BY <1>7, <2>3 DEF TypeInv, TypeOK
    <3>3. CallOK' /\ LocalOK'
      BY <1>7, <2>3, <3>1 DEF TypeInv, CallOK, LocalOK, UpPc
    <3> QED BY <3>2, <3>3
  <2> QED BY <1>7, <2>1, <2>2, <2>4 DEF TypeInv, TypeOK, SafeHeap, others, Vector
<1> QED BY <1>1, <1>2, <1>3, <1>4, <1>5, <1>6, <1>7 DEF schedule
LEMMA ExitType ==
    ASSUME TypeInv, NEW t \in Task, task_exit(t), UNCHANGED others
    PROVE  TypeInv'
<1>1. CASE spin_lock(t, "list_slock", "exit", "exit_status")
  <2>1. Flow("exit", "exit_status")
    BY DEF Flow, PC, DownPc, UpPc, CreatePc, ChosenPc, ResumePc
  <2> QED BY <1>1, <2>1, LockStep DEF Lock
<1>2. CASE SetStatus(t, "exit_status", "exit_del", t, "TASK_DYING")
  <2>1. Flow("exit_status", "exit_del")
    BY DEF Flow, PC, DownPc, UpPc, CreatePc, ChosenPc, ResumePc
  <2> QED BY <1>2, <2>1, StatusStep DEF Status
<1>3. CASE Relink(t, "exit_del", "exit_unlock", list_del(ring, t))
  <2>1. Flow("exit_del", "exit_unlock")
    BY DEF Flow, PC, DownPc, UpPc, CreatePc, ChosenPc, ResumePc
  <2>2. t \in Node /\ Linked(ring, t, NULL)
    BY <1>3 DEF Relink, Step, TypeInv, Node
  <2> QED BY <1>3, <2>1, <2>2, DelSafe, RelinkStep DEF TypeInv
<1>4. CASE spin_unlock(t, "list_slock", "exit_unlock", "schedule")
  <2>1. Flow("exit_unlock", "schedule")
    BY DEF Flow, PC, DownPc, UpPc, CreatePc, ChosenPc, ResumePc
  <2> QED BY <1>4, <2>1, LockStep DEF Lock
<1> QED BY <1>1, <1>2, <1>3, <1>4 DEF task_exit

LEMMA SuspendType ==
    ASSUME TypeInv, NEW t \in Task, task_suspend(t), UNCHANGED others
    PROVE  TypeInv'
<1>1. CASE spin_lock(t, "list_slock", "suspend", "suspend_status")
  <2>1. Flow("suspend", "suspend_status")
    BY DEF Flow, PC, DownPc, UpPc, CreatePc, ChosenPc, ResumePc
  <2> QED BY <1>1, <2>1, LockStep DEF Lock
<1>2. CASE SetStatus(t, "suspend_status", "suspend_del", t, "TASK_BLOCKED")
  <2>1. Flow("suspend_status", "suspend_del")
    BY DEF Flow, PC, DownPc, UpPc, CreatePc, ChosenPc, ResumePc
  <2> QED BY <1>2, <2>1, StatusStep DEF Status
<1>3. CASE Relink(t, "suspend_del", "suspend_add", list_del(ring, t))
  <2>1. Flow("suspend_del", "suspend_add")
    BY DEF Flow, PC, DownPc, UpPc, CreatePc, ChosenPc, ResumePc
  <2>2. t \in Node /\ Linked(ring, t, NULL)
    BY <1>3 DEF Relink, Step, TypeInv, Node
  <2> QED BY <1>3, <2>1, <2>2, DelSafe, RelinkStep DEF TypeInv
<1>4. CASE Relink(t, "suspend_add", "suspend_unlock", list_add(ring, t, call[t].arg))
  <2>1. Flow("suspend_add", "suspend_unlock")
    BY DEF Flow, PC, DownPc, UpPc, CreatePc, ChosenPc, ResumePc
  <2>2. call[t].op = "sema_down" /\ call[t] \in Call
    BY <1>4 DEF Relink, Step, TypeInv, TypeOK, CallOK, DownPc
  <2>3. t \in Node /\ call[t].arg \in Head_
    BY <2>2, CallArg DEF Node, Head_
  <2> QED BY <1>4, <2>1, <2>3, AddSafe, RelinkStep DEF TypeInv
<1>5. CASE spin_unlock(t, "list_slock", "suspend_unlock", "down_unlock")
  <2>1. Flow("suspend_unlock", "down_unlock")
    BY DEF Flow, PC, DownPc, UpPc, CreatePc, ChosenPc, ResumePc
  <2> QED BY <1>5, <2>1, LockStep DEF Lock
<1> QED BY <1>1, <1>2, <1>3, <1>4, <1>5 DEF task_suspend

LEMMA ResumeType ==
    ASSUME TypeInv, NEW t \in Task, task_resume(t), UNCHANGED others
    PROVE  TypeInv'
<1> DEFINE tsk == local[t]
<1>1. CASE spin_lock(t, "list_slock", "resume", "resume_test")
  <2>1. Flow("resume", "resume_test")
    BY DEF Flow, PC, DownPc, UpPc, CreatePc, ChosenPc, ResumePc
  <2> QED BY <1>1, <2>1, LockStep DEF Lock
<1>2. CASE /\ Step(t, "resume_test", IF resumes(tsk) THEN "resume_add" ELSE "resume_unlock")
           /\ status' = IF resumes(tsk)
                        THEN [status EXCEPT ![tsk] = "TASK_RUNNING"] ELSE status
           /\ UNCHANGED <<ring, lock, rest>>
  <2>1. Flow("resume_test", IF resumes(tsk) THEN "resume_add" ELSE "resume_unlock")
    BY DEF Flow, PC, DownPc, UpPc, CreatePc, ChosenPc, ResumePc
  <2>2. ControlOK
    BY <1>2, <2>1, StepControl DEF rest
  <2>3. status' \in [Task -> Status]
    BY <1>2 DEF TypeInv, TypeOK, Status
  <2> QED BY <1>2, <2>2, <2>3 DEF TypeInv, TypeOK, ControlOK, SafeHeap, rest, others, Vector
<1>3. CASE Relink(t, "resume_add", "resume_unlock", list_add_tail(ring, tsk, Ready))
  <2>1. Flow("resume_add", "resume_unlock")
    BY DEF Flow, PC, DownPc, UpPc, CreatePc, ChosenPc, ResumePc
  <2>2. tsk \in Node
    BY <1>3 DEF Relink, Step, TypeInv, LocalOK, ResumePc, Node
  <2> QED BY <1>3, <2>1, <2>2, AddTailSafe, RelinkStep DEF TypeInv, Head_
<1>4. CASE spin_unlock(t, "list_slock", "resume_unlock", "up_unlock")
  <2>1. Flow("resume_unlock", "up_unlock")
    BY DEF Flow, PC, DownPc, UpPc, CreatePc, ChosenPc, ResumePc
  <2> QED BY <1>4, <2>1, LockStep DEF Lock
<1> QED BY <1>1, <1>2, <1>3, <1>4 DEF task_resume

LEMMA StructInitType ==
    ASSUME TypeInv, NEW t \in Task, task_struct_init(t), UNCHANGED others
    PROVE  TypeInv'
<1> DEFINE tsk == call[t].arg
<1>1. CASE /\ Step(t, "create", IF tsk \in pages THEN "user" ELSE "create_all_lock")
           /\ IF tsk \in pages
              THEN UNCHANGED <<pages, status, pid>>
              ELSE /\ pages' = pages \cup {tsk}
                   /\ status' = [status EXCEPT ![tsk] = "TASK_BLOCKED"]
                   /\ pid' = [pid EXCEPT ![tsk] = 0]
           /\ UNCHANGED <<local, ring, lock, all_tasks_list, next_pid>>
  <2>1. Flow("create", IF tsk \in pages THEN "user" ELSE "create_all_lock")
    BY DEF Flow, PC, DownPc, UpPc, CreatePc, ChosenPc, ResumePc
  <2>2. ControlOK
    BY <1>1, <2>1, StepControl
  <2>3. call[t].arg \in Task
    BY <1>1, CallArg DEF Step, TypeInv, TypeOK, CallOK, CreatePc
  <2>4. status' \in [Task -> Status] /\ pages' \subseteq Task /\ pid' \in [Task -> Nat]
    <3>1. CASE tsk \in pages
      BY <1>1, <3>1 DEF TypeInv, TypeOK
    <3>2. CASE tsk \notin pages
      <4>1. /\ pages' = pages \cup {tsk}
            /\ status' = [status EXCEPT ![tsk] = "TASK_BLOCKED"]
            /\ pid' = [pid EXCEPT ![tsk] = 0]
        BY <1>1, <3>2
      <4>2. "TASK_BLOCKED" \in Status
        BY DEF Status
      <4> QED BY <2>3, <4>1, <4>2 DEF TypeInv, TypeOK
    <3> QED BY <3>1, <3>2
  <2> QED BY <1>1, <2>2, <2>4 DEF TypeInv, TypeOK, ControlOK, SafeHeap, others, Vector
<1>2. CASE spin_lock(t, "list_slock", "create_all_lock", "create_all_add")
  <2>1. Flow("create_all_lock", "create_all_add")
    BY DEF Flow, PC, DownPc, UpPc, CreatePc, ChosenPc, ResumePc
  <2> QED BY <1>2, <2>1, LockStep DEF Lock
<1>3. CASE /\ Step(t, "create_all_add", "create_all_unlock")
           /\ all_tasks_list' = all_tasks_list \cup {tsk}
           /\ UNCHANGED <<local, status, ring, lock, pages, next_pid, pid>>
  <2>1. Flow("create_all_add", "create_all_unlock")
    BY DEF Flow, PC, DownPc, UpPc, CreatePc, ChosenPc, ResumePc
  <2>2. ControlOK
    BY <1>3, <2>1, StepControl
  <2>3. call[t].arg \in Task
    BY <1>3, CallArg DEF Step, TypeInv, TypeOK, CallOK, CreatePc
  <2> QED BY <1>3, <2>2, <2>3 DEF TypeInv, TypeOK, ControlOK, SafeHeap, others, Vector
<1>4. CASE spin_unlock(t, "list_slock", "create_all_unlock", "pid")
  <2>1. Flow("create_all_unlock", "pid")
    BY DEF Flow, PC, DownPc, UpPc, CreatePc, ChosenPc, ResumePc
  <2> QED BY <1>4, <2>1, LockStep DEF Lock
<1> QED BY <1>1, <1>2, <1>3, <1>4 DEF task_struct_init

LEMMA PidType ==
    ASSUME TypeInv, NEW t \in Task, allocate_pid(t), UNCHANGED others
    PROVE  TypeInv'
<1>1. CASE spin_lock(t, "pid_slock", "pid", "pid_inc")
  <2>1. Flow("pid", "pid_inc")
    BY DEF Flow, PC, DownPc, UpPc, CreatePc, ChosenPc, ResumePc
  <2> QED BY <1>1, <2>1, LockStep DEF Lock
<1>2. CASE /\ Step(t, "pid_inc", "pid_unlock")
           /\ next_pid' = next_pid + 1
           /\ UNCHANGED <<local, status, ring, lock, pages, all_tasks_list, pid>>
  <2>1. Flow("pid_inc", "pid_unlock")
    BY DEF Flow, PC, DownPc, UpPc, CreatePc, ChosenPc, ResumePc
  <2>2. ControlOK
    BY <1>2, <2>1, StepControl
  <2>3. next_pid' \in Nat
    BY <1>2 DEF TypeInv, TypeOK
  <2> QED BY <1>2, <2>2, <2>3 DEF TypeInv, TypeOK, ControlOK, SafeHeap, others, Vector
<1>3. CASE spin_unlock(t, "pid_slock", "pid_unlock", "pid_read")
  <2>1. Flow("pid_unlock", "pid_read")
    BY DEF Flow, PC, DownPc, UpPc, CreatePc, ChosenPc, ResumePc
  <2> QED BY <1>3, <2>1, LockStep DEF Lock
<1>4. CASE /\ Step(t, "pid_read", "create_lock")
           /\ pid' = [pid EXCEPT ![call[t].arg] = next_pid]
           /\ UNCHANGED <<local, status, ring, lock, pages, all_tasks_list, next_pid>>
  <2>1. Flow("pid_read", "create_lock")
    BY DEF Flow, PC, DownPc, UpPc, CreatePc, ChosenPc, ResumePc
  <2>2. ControlOK
    BY <1>4, <2>1, StepControl
  <2>3. pid' \in [Task -> Nat]
    BY <1>4 DEF TypeInv, TypeOK
  <2> QED BY <1>4, <2>2, <2>3 DEF TypeInv, TypeOK, ControlOK, SafeHeap, others, Vector
<1> QED BY <1>1, <1>2, <1>3, <1>4 DEF allocate_pid

LEMMA CreateType ==
    ASSUME TypeInv, NEW t \in Task, task_create(t), UNCHANGED others
    PROVE  TypeInv'
<1>1. CASE task_struct_init(t)
  BY <1>1, StructInitType
<1>2. CASE allocate_pid(t)
  BY <1>2, PidType
<1>3. CASE spin_lock(t, "list_slock", "create_lock", "create_add")
  <2>1. Flow("create_lock", "create_add")
    BY DEF Flow, PC, DownPc, UpPc, CreatePc, ChosenPc, ResumePc
  <2> QED BY <1>3, <2>1, LockStep DEF Lock
<1>4. CASE Relink(t, "create_add", "create_unlock", list_add_tail(ring, call[t].arg, Ready))
  <2>1. Flow("create_add", "create_unlock")
    BY DEF Flow, PC, DownPc, UpPc, CreatePc, ChosenPc, ResumePc
  <2>2. call[t].arg \in Node
    BY <1>4, CallArg DEF Relink, Step, TypeInv, TypeOK, CallOK, CreatePc, Node
  <2> QED BY <1>4, <2>1, <2>2, AddTailSafe, RelinkStep DEF TypeInv, Head_
<1>5. CASE spin_unlock(t, "list_slock", "create_unlock", "create_status")
  <2>1. Flow("create_unlock", "create_status")
    BY DEF Flow, PC, DownPc, UpPc, CreatePc, ChosenPc, ResumePc
  <2> QED BY <1>5, <2>1, LockStep DEF Lock
<1>6. CASE SetStatus(t, "create_status", "user", call[t].arg, "TASK_READY")
  <2>1. Flow("create_status", "user")
    BY DEF Flow, PC, DownPc, UpPc, CreatePc, ChosenPc, ResumePc
  <2> QED BY <1>6, <2>1, StatusStep DEF Status
<1> QED BY <1>1, <1>2, <1>3, <1>4, <1>5, <1>6 DEF task_create

---------------------------------------------------------------------------
(* The semaphores and the interrupts.                                      *)

LEMMA DownType ==
    ASSUME TypeInv, NEW t \in Task, sema_down(t), UNCHANGED <<isr, todo>>
    PROVE  TypeInv'
<1> DEFINE s == call[t].arg
<1>1. CASE spin_lock(t, s, "sema_down", "down_test") /\ UNCHANGED count
  <2>1. Flow("sema_down", "down_test")
    BY DEF Flow, PC, DownPc, UpPc, CreatePc, ChosenPc, ResumePc
  <2>2. s \in Lock
    BY <1>1, CallArg DEF spin_lock, Step, TypeInv, TypeOK, CallOK, DownPc, Lock
  <2> QED BY <1>1, <2>1, <2>2, LockStep DEF others
<1>2. CASE /\ Step(t, "down_test", IF must_wait(s) THEN "suspend" ELSE "down_fast")
           /\ count' = IF must_wait(s) THEN count ELSE [count EXCEPT ![s] = @ - 1]
           /\ UNCHANGED <<status, ring, lock, rest>>
  <2>1. Flow("down_test", IF must_wait(s) THEN "suspend" ELSE "down_fast")
    BY DEF Flow, PC, DownPc, UpPc, CreatePc, ChosenPc, ResumePc
  <2>2. ControlOK
    BY <1>2, <2>1, StepControl DEF rest
  <2>3. count' \in [Sem -> Nat]
    <3>1. CASE must_wait(s)
      BY <1>2, <3>1 DEF TypeInv, TypeOK
    <3>2. CASE ~must_wait(s)
      <4>1. count' = [count EXCEPT ![s] = count[s] - 1] /\ count \in [Sem -> Nat]
        BY <1>2, <3>2 DEF TypeInv, TypeOK
      <4>2. s \in Sem
        BY <1>2, CallArg DEF Step, TypeInv, TypeOK, CallOK, DownPc
      <4>3. count[s] \in Nat /\ count[s] - 1 \in Nat
        BY <3>2, <4>1, <4>2 DEF must_wait
      <4> QED BY <4>1, <4>3
    <3> QED BY <3>1, <3>2
  <2> QED BY <1>2, <2>2, <2>3 DEF TypeInv, TypeOK, ControlOK, SafeHeap, rest, Vector
<1>3. CASE spin_unlock(t, s, "down_unlock", "schedule") /\ UNCHANGED count
  <2>1. Flow("down_unlock", "schedule")
    BY DEF Flow, PC, DownPc, UpPc, CreatePc, ChosenPc, ResumePc
  <2>2. s \in Lock
    BY <1>3, CallArg DEF spin_unlock, Step, TypeInv, TypeOK, CallOK, DownPc, Lock
  <2> QED BY <1>3, <2>1, <2>2, LockStep DEF others
<1>4. CASE spin_unlock(t, s, "down_fast", "user") /\ UNCHANGED count
  <2>1. Flow("down_fast", "user")
    BY DEF Flow, PC, DownPc, UpPc, CreatePc, ChosenPc, ResumePc
  <2>2. s \in Lock
    BY <1>4, CallArg DEF spin_unlock, Step, TypeInv, TypeOK, CallOK, DownPc, Lock
  <2> QED BY <1>4, <2>1, <2>2, LockStep DEF others
<1> QED BY <1>1, <1>2, <1>3, <1>4 DEF sema_down

LEMMA UpType ==
    ASSUME TypeInv, NEW t \in Task, sema_up(t), UNCHANGED <<isr, todo>>
    PROVE  TypeInv'
<1> DEFINE s     == call[t].arg
           first == list_first(ring, s)
<1>1. CASE spin_lock(t, s, "sema_up", "up_inc") /\ UNCHANGED count
  <2>1. Flow("sema_up", "up_inc")
    BY DEF Flow, PC, DownPc, UpPc, CreatePc, ChosenPc, ResumePc
  <2>2. s \in Lock
    BY <1>1, CallArg DEF spin_lock, Step, TypeInv, TypeOK, CallOK, UpPc, Lock
  <2> QED BY <1>1, <2>1, <2>2, LockStep DEF others
<1>2. CASE /\ Step(t, "up_inc", IF count[s] + 1 > 0 THEN "up_pop" ELSE "up_unlock")
           /\ count' = [count EXCEPT ![s] = @ + 1]
           /\ UNCHANGED <<status, ring, lock, rest>>
  <2>1. Flow("up_inc", IF count[s] + 1 > 0 THEN "up_pop" ELSE "up_unlock")
    BY DEF Flow, PC, DownPc, UpPc, CreatePc, ChosenPc, ResumePc
  <2>2. ControlOK
    BY <1>2, <2>1, StepControl DEF rest
  <2>3. count' \in [Sem -> Nat]
    <3>1. count' = [count EXCEPT ![s] = count[s] + 1] /\ count \in [Sem -> Nat]
      BY <1>2 DEF TypeInv, TypeOK
    <3>2. s \in Sem
      BY <1>2, CallArg DEF Step, TypeInv, TypeOK, CallOK, UpPc
    <3> QED BY <3>1, <3>2
  <2> QED BY <1>2, <2>2, <2>3 DEF TypeInv, TypeOK, ControlOK, SafeHeap, rest, Vector
<1>3. CASE /\ Step(t, "up_pop",
                    IF ~list_empty(ring, s) /\ first \in Task THEN "resume" ELSE "up_unlock")
           /\ IF list_empty(ring, s)
              THEN UNCHANGED <<local, ring>>
              ELSE /\ local' = [local EXCEPT ![t] = first]
                   /\ ring' = list_del(ring, first)
           /\ UNCHANGED <<status, lock, pages, all_tasks_list, next_pid, pid, count>>
  <2>1. s \in Head_ /\ pc[t] = "up_pop" /\ cur = t
    BY <1>3, CallArg DEF Step, TypeInv, TypeOK, CallOK, UpPc, Head_
  <2>2. first \in Node /\ Linked(ring, first, NULL)
    BY <2>1, FirstLinked DEF TypeInv
  <2>3. /\ SafeHeap(ring')
        /\ \A m \in Node : Linked(ring, m, NULL) => Linked(ring', m, NULL)
    <3>1. CASE list_empty(ring, s)
      BY <1>3, <3>1 DEF TypeInv, SafeHeap
    <3>2. CASE ~list_empty(ring, s)
      BY <1>3, <2>2, <3>2, DelSafe DEF TypeInv
    <3> QED BY <3>1, <3>2
  <2>4. CASE ~list_empty(ring, s) /\ first \in Task
    <3>1. /\ cur' = cur /\ IF_flag' = IF_flag /\ call' = call
          /\ pc' = [pc EXCEPT ![t] = "resume"]
          /\ local' = [local EXCEPT ![t] = first]
      BY <1>3, <2>4 DEF Step
    <3>2. \A u \in Task : /\ pc'[u] = IF u = t THEN "resume" ELSE pc[u]
                          /\ local'[u] = IF u = t THEN first ELSE local[u]
      BY <3>1 DEF TypeInv, TypeOK
    <3>3. pc' \in [Task -> PC] /\ local' \in [Task -> Node \cup {NULL}]
      BY <2>2, <3>1 DEF TypeInv, TypeOK, PC
    <3>4. CallOK'
      BY <2>1, <3>1, <3>2 DEF TypeInv, CallOK, DownPc, UpPc, CreatePc, ResumePc
    <3>5. LocalOK'
      BY <2>3, <2>4, <3>1, <3>2 DEF TypeInv, LocalOK, ChosenPc
    <3> QED BY <1>3, <2>1, <2>3, <3>1, <3>3, <3>4, <3>5
            DEF TypeInv, TypeOK, SafeHeap, Heap, Vector
  <2>5. CASE ~(~list_empty(ring, s) /\ first \in Task)
    <3>1. /\ cur' = cur /\ IF_flag' = IF_flag /\ call' = call
          /\ pc' = [pc EXCEPT ![t] = "up_unlock"]
          /\ local' \in [Task -> Node \cup {NULL}]
          /\ \A u \in Task : u # t => local'[u] = local[u]
      BY <1>3, <2>2, <2>5 DEF Step, TypeInv, TypeOK
    <3>2. \A u \in Task : pc'[u] = IF u = t THEN "up_unlock" ELSE pc[u]
      BY <3>1 DEF TypeInv, TypeOK
    <3>3. pc' \in [Task -> PC]
      BY <3>1 DEF TypeInv, TypeOK, PC
    <3>4. CallOK'
      BY <2>1, <3>1, <3>2 DEF TypeInv, CallOK, DownPc, UpPc, CreatePc, ResumePc
    <3>5. LocalOK'
      BY <2>3, <3>1, <3>2 DEF TypeInv, LocalOK, ChosenPc, ResumePc
    <3> QED BY <1>3, <2>1, <2>3, <3>1, <3>3, <3>4, <3>5
            DEF TypeInv, TypeOK, SafeHeap, Heap, Vector
  <2> QED BY <2>4, <2>5
<1>4. CASE spin_unlock(t, s, "up_unlock", "user") /\ UNCHANGED count
  <2>1. Flow("up_unlock", "user")
    BY DEF Flow, PC, DownPc, UpPc, CreatePc, ChosenPc, ResumePc
  <2>2. s \in Lock
    BY <1>4, CallArg DEF spin_unlock, Step, TypeInv, TypeOK, CallOK, UpPc, Lock
  <2> QED BY <1>4, <2>1, <2>2, LockStep DEF others
<1> QED BY <1>1, <1>2, <1>3, <1>4 DEF sema_up

LEMMA InvokeType ==
    ASSUME TypeInv, NEW t \in Task, Invoke(t)
    PROVE  TypeInv'
<1>1. /\ todo[t] \in Seq(Call) /\ todo[t] # <<>>
      /\ pc' = [pc EXCEPT ![t] = Head(todo[t]).op]
      /\ call' = [call EXCEPT ![t] = Head(todo[t])]
      /\ todo' = [todo EXCEPT ![t] = Tail(todo[t])]
      /\ UNCHANGED <<cur, IF_flag, status, ring, lock, rest, count, isr>>
  BY DEF Invoke, TypeInv, TypeOK
<1>2. Head(todo[t]) \in Call /\ Tail(todo[t]) \in Seq(Call)
  BY <1>1
<1>3. Head(todo[t]).op \in {"create", "sema_down", "sema_up", "exit"}
  BY <1>2, CallArg
<1>4. pc' \in [Task -> PC] /\ call' \in [Task -> Call] /\ todo' \in [Task -> Seq(Call)]
  BY <1>1, <1>2, <1>3 DEF TypeInv, TypeOK, PC
<1>5. \A u \in Task : /\ pc'[u] = IF u = t THEN Head(todo[t]).op ELSE pc[u]
                      /\ call'[u] = IF u = t THEN Head(todo[t]) ELSE call[u]
  BY <1>1 DEF TypeInv, TypeOK
<1>6. CallOK'
  BY <1>3, <1>5 DEF TypeInv, CallOK, DownPc, UpPc, CreatePc, ResumePc
<1>7. LocalOK'
  BY <1>1, <1>3, <1>5 DEF TypeInv, LocalOK, ChosenPc, ResumePc, rest
<1> QED BY <1>1, <1>4, <1>6, <1>7 DEF TypeInv, TypeOK, SafeHeap, rest, Vector

LEMMA InterruptType ==
    ASSUME TypeInv, NEW v \in Vector, Interrupt(v)
    PROVE  TypeInv'
BY DEF TypeInv, TypeOK, Interrupt, CallOK, LocalOK, SafeHeap, rest, Vector

LEMMA TickType ==
    ASSUME TypeInv, TickIsr
    PROVE  TypeInv'
<1> DEFINE requeues == status[cur] = "TASK_RUNNING"
           next     == list_first(ring, Ready)
<1>1. /\ ring' = IF requeues THEN requeue(ring, cur) ELSE ring
      /\ switch_to(next) /\ isr' = "none"
      /\ UNCHANGED <<pc, call, local, lock, next_pid, pid, count, todo>>
  BY DEF TickIsr
<1>2. next \in Node /\ Linked(ring, next, NULL)
  BY FirstLinked DEF TypeInv, Head_
<1>3. /\ cur' = next /\ IF_flag' = TRUE /\ status' \in [Task -> Status]
      /\ pages' \subseteq Task /\ all_tasks_list' \subseteq Task
  BY <1>1, <1>2, SwitchStep
<1>4. /\ SafeHeap(ring')
      /\ \A m \in Node : Linked(ring, m, NULL) => Linked(ring', m, NULL)
  <2>1. cur \in Node /\ Linked(ring, cur, NULL) /\ SafeHeap(ring)
    BY DEF TypeInv, TypeOK
  <2>2. /\ SafeHeap(list_del(ring, cur))
        /\ \A m \in Node : Linked(ring, m, NULL) => Linked(list_del(ring, cur), m, NULL)
    BY <2>1, DelSafe
  <2>3. /\ SafeHeap(requeue(ring, cur))
        /\ \A m \in Node : Linked(list_del(ring, cur), m, NULL)
                            => Linked(requeue(ring, cur), m, NULL)
    BY <2>1, <2>2, AddTailSafe DEF requeue, Head_
  <2> QED BY <1>1, <2>1, <2>2, <2>3
<1>5. CallOK' /\ LocalOK'
  BY <1>1, <1>4 DEF TypeInv, CallOK, LocalOK
<1> QED BY <1>1, <1>2, <1>3, <1>4, <1>5 DEF TypeInv, TypeOK, SafeHeap, Heap, Vector

LEMMA DeviceType ==
    ASSUME TypeInv, NEW s \in IrqSem, DeviceIsr(s)
    PROVE  TypeInv'
<1> DEFINE first  == list_first(ring, s)
           popped == list_del(ring, first)
           wakes  == first \in Task /\ resumes(first)
<1>1. /\ count' = [count EXCEPT ![s] = @ + 1]
      /\ IF count[s] + 1 > 0 /\ ~list_empty(ring, s)
         THEN /\ ring' = IF wakes THEN list_add_tail(popped, first, Ready) ELSE popped
              /\ status' = IF wakes THEN [status EXCEPT ![first] = "TASK_RUNNING"]
                                    ELSE status
         ELSE UNCHANGED <<ring, status>>
      /\ UNCHANGED <<cur, pc, call, lock, rest>>
      /\ isr' = "none" /\ IF_flag' = TRUE /\ UNCHANGED todo
  BY DEF DeviceIsr, sema_up_in_isr
<1>2. s \in Sem /\ s \in Head_ /\ Ready \in Head_
  BY KernelAssumption DEF Head_
<1>3. first \in Node /\ Linked(ring, first, NULL) /\ SafeHeap(ring)
  BY <1>2, FirstLinked DEF TypeInv
<1>4. SafeHeap(popped) /\ \A m \in Node : Linked(ring, m, NULL) => Linked(popped, m, NULL)
  BY <1>3, DelSafe
<1>5. /\ SafeHeap(list_add_tail(popped, first, Ready))
      /\ \A m \in Node : Linked(popped, m, NULL)
                          => Linked(list_add_tail(popped, first, Ready), m, NULL)
  BY <1>2, <1>3, <1>4, AddTailSafe
<1>6. SafeHeap(ring') /\ \A m \in Node : Linked(ring, m, NULL) => Linked(ring', m, NULL)
  BY <1>1, <1>3, <1>4, <1>5
<1>7. count' \in [Sem -> Nat] /\ status' \in [Task -> Status]
  <2>1. count' = [count EXCEPT ![s] = count[s] + 1] /\ count \in [Sem -> Nat]
    BY <1>1 DEF TypeInv, TypeOK
  <2>2. status \in [Task -> Status] /\ "TASK_RUNNING" \in Status
    BY DEF TypeInv, TypeOK, Status
  <2>3. status' = status \/ status' = [status EXCEPT ![first] = "TASK_RUNNING"]
    BY <1>1
  <2> QED BY <1>2, <2>1, <2>2, <2>3
<1>8. CallOK' /\ LocalOK'
  BY <1>1, <1>6 DEF TypeInv, CallOK, LocalOK, rest
<1>9. Linked(ring', cur', NULL)
  BY <1>1, <1>6 DEF TypeInv, TypeOK
<1> QED BY <1>1, <1>6, <1>7, <1>8, <1>9 DEF TypeInv, TypeOK, SafeHeap, Heap, rest, Vector

---------------------------------------------------------------------------
LEMMA TypeInit == Init => TypeInv
<1> SUFFICES ASSUME Init PROVE TypeInv
  OBVIOUS
<1> DEFINE empty == list_head_init(Node, Head_, NULL)
<1>1. SafeHeap(empty)
  BY SchedAssumption DEF SafeHeap, Heap, Closed, Linked, list_head_init, Node
<1>2. ring = list_add(empty, InitTask, Ready) /\ cur = InitTask
  BY DEF Init, SchedInit
<1>3. SafeHeap(ring) /\ Linked(ring, InitTask, NULL)
  BY <1>1, <1>2, AddSafe, SchedAssumption DEF Node, Head_
<1>4. TypeOK
  <2>1. call \in [Task -> Call]
    BY DEF Init, SchedInit, Call
  <2>2. todo \in [Task -> Seq(Call)] /\ count \in [Sem -> Nat]
    BY KernelAssumption, SyncAssumption DEF Init, SyncInit
  <2>3. pc \in [Task -> PC]
    BY DEF Init, SchedInit, PC
  <2>4. ring \in Heap
    BY <1>3 DEF SafeHeap
  <2> QED BY <2>1, <2>2, <2>3, <2>4, SchedAssumption
          DEF Init, SchedInit, TypeOK, Node, Status, Heap
<1>5. CallOK /\ LocalOK
  BY DEF Init, SchedInit, CallOK, LocalOK, DownPc, UpPc, CreatePc, ChosenPc, ResumePc
<1> QED BY <1>2, <1>3, <1>4, <1>5 DEF TypeInv

LEMMA TypeNext == TypeInv /\ [Next]_vars => TypeInv'
<1> SUFFICES ASSUME TypeInv, [Next]_vars PROVE TypeInv'
  OBVIOUS
<1>1. ASSUME NEW t \in Task, TaskStep(t) PROVE TypeInv'
  <2>1. CASE Invoke(t)
    BY <2>1, InvokeType
  <2>2. CASE SchedStep(t) /\ UNCHANGED <<count, isr, todo>>
    BY <2>2, ScheduleType, ExitType, SuspendType, ResumeType, CreateType DEF SchedStep, others
  <2>3. CASE (sema_down(t) \/ sema_up(t)) /\ UNCHANGED <<isr, todo>>
    BY <2>3, DownType, UpType
  <2> QED BY <1>1, <2>1, <2>2, <2>3 DEF TaskStep
<1>2. ASSUME NEW v \in Vector, Interrupt(v) PROVE TypeInv'
  BY <1>2, InterruptType
<1>3. CASE TickIsr
  BY <1>3, TickType
<1>4. ASSUME NEW s \in IrqSem, DeviceIsr(s) PROVE TypeInv'
  BY <1>4, DeviceType
<1>5. CASE UNCHANGED vars
  BY <1>5 DEF vars, schedVars, TypeInv, TypeOK, CallOK, LocalOK, SafeHeap, Vector
<1> QED BY <1>1, <1>2, <1>3, <1>4, <1>5 DEF Next

\* Every variable keeps its kind in every behaviour; in particular schedule
\* always dispatches a list node, and a count never drops below zero.
THEOREM TypeCorrect == Spec => []TypeOK
<1>1. TypeInv => TypeOK
  BY DEF TypeInv
<1> QED BY <1>1, TypeInit, TypeNext, PTL DEF Spec

\* For any number of tasks and any interleaving, no list operation of the
\* scheduler or of a semaphore follows a null pointer (ListsLinked).
THEOREM NoNullLink == Spec => []ListsLinked
<1>1. TypeInv => ListsLinked
  BY DEF TypeInv, SafeHeap, ListsLinked
<1> QED BY <1>1, TypeInit, TypeNext, PTL DEF Spec

---------------------------------------------------------------------------
(* The spin locks.  Which locks a task holds is read off the statement it  *)
(* is at and the call it is in.                                            *)

HoldsAt(p, c, l) ==
    \/ l = "list_slock" /\ p \in ListRegion
    \/ l = "pid_slock" /\ p \in PidRegion
    \/ l \in Sem /\ p \in SemRegion /\ c.arg = l

\* From statement p to statement q within the call c: no lock changes hands,
\* l is taken, l is released.
Keeps(p, q, c)    == \A k \in Lock : HoldsAt(q, c, k) <=> HoldsAt(p, c, k)
Takes(p, q, c, l) == \A k \in Lock : HoldsAt(q, c, k) <=> HoldsAt(p, c, k) \/ k = l
Gives(p, q, c, l) == /\ HoldsAt(p, c, l)
                     /\ \A k \in Lock : HoldsAt(q, c, k) <=> HoldsAt(p, c, k) /\ k # l

LEMMA KeepLocks ==
    ASSUME TypeInv, LockDiscipline, NEW t \in Task, NEW p, NEW q,
           Step(t, p, q), lock' = lock, Keeps(p, q, call[t])
    PROVE  LockDiscipline'
<1>1. /\ \A u \in Task : pc'[u] = IF u = t THEN q ELSE pc[u]
      /\ pc[t] = p /\ call' = call
  BY DEF Step, TypeInv, TypeOK
<1>2. \A u \in Task : \A l \in Lock : Holds(u, l)' <=> Holds(u, l)
  BY <1>1 DEF Holds, HoldsAt, Keeps
<1> QED BY <1>2 DEF LockDiscipline

LEMMA TakeLock ==
    ASSUME TypeInv, LockDiscipline, NEW t \in Task, NEW p, NEW q, NEW l \in Lock,
           spin_lock(t, l, p, q), Takes(p, q, call[t], l)
    PROVE  LockDiscipline'
<1>1. /\ \A u \in Task : pc'[u] = IF u = t THEN q ELSE pc[u]
      /\ pc[t] = p /\ call' = call /\ lock[l] = 1 /\ lock' = [lock EXCEPT ![l] = 0]
  BY DEF spin_lock, Step, TypeInv, TypeOK
<1>2. \A u \in Task : \A k \in Lock : Holds(u, k)' <=> Holds(u, k) \/ (u = t /\ k = l)
  BY <1>1 DEF Holds, HoldsAt, Takes
<1>3. \A u \in Task : ~Holds(u, l)
  BY <1>1 DEF LockDiscipline
<1>4. \A k \in Lock : lock'[k] = IF k = l THEN 0 ELSE lock[k]
  BY <1>1 DEF TypeInv, TypeOK
<1> QED BY <1>2, <1>3, <1>4 DEF LockDiscipline

LEMMA GiveLock ==
    ASSUME TypeInv, LockDiscipline, NEW t \in Task, NEW p, NEW q, NEW l \in Lock,
           spin_unlock(t, l, p, q), Gives(p, q, call[t], l)
    PROVE  LockDiscipline'
<1>1. /\ \A u \in Task : pc'[u] = IF u = t THEN q ELSE pc[u]
      /\ pc[t] = p /\ call' = call /\ lock' = [lock EXCEPT ![l] = 1]
  BY DEF spin_unlock, Step, TypeInv, TypeOK
<1>2. \A u \in Task : \A k \in Lock : Holds(u, k)' <=> Holds(u, k) /\ ~(u = t /\ k = l)
  BY <1>1 DEF Holds, HoldsAt, Gives
<1>3. Holds(t, l)
  BY <1>1 DEF Holds, HoldsAt, Gives
<1>4. \A k \in Lock : lock'[k] = IF k = l THEN 1 ELSE lock[k]
  BY <1>1 DEF TypeInv, TypeOK
<1> QED BY <1>2, <1>3, <1>4 DEF LockDiscipline

LEMMA ScheduleLocks ==
    ASSUME TypeInv, LockDiscipline, NEW t \in Task, schedule(t)
    PROVE  LockDiscipline'
<1>1. CASE Step(t, "schedule", "sched_check") /\ lock' = lock
  <2>1. Keeps("schedule", "sched_check", call[t])
    BY SchedAssumption DEF Keeps, HoldsAt, ListRegion, PidRegion, SemRegion, Lock
  <2> QED BY <1>1, <2>1, KeepLocks
<1>2. CASE /\ Step(t, "sched_check",
                    IF status[t] = "TASK_RUNNING" THEN "sched_lock" ELSE "sched_switch")
           /\ lock' = lock
  <2>1. Keeps("sched_check", "sched_lock", call[t])
    BY SchedAssumption DEF Keeps, HoldsAt, ListRegion, PidRegion, SemRegion, Lock
  <2>2. Keeps("sched_check", "sched_switch", call[t])
    BY SchedAssumption DEF Keeps, HoldsAt, ListRegion, PidRegion, SemRegion, Lock
  <2> QED BY <1>2, <2>1, <2>2, KeepLocks
<1>3. CASE spin_lock(t, "list_slock", "sched_lock", "sched_del")
  <2>1. Takes("sched_lock", "sched_del", call[t], "list_slock") /\ "list_slock" \in Lock
    BY SchedAssumption DEF Takes, HoldsAt, ListRegion, PidRegion, SemRegion, Lock
  <2> QED BY <1>3, <2>1, TakeLock
<1>4. CASE Relink(t, "sched_del", "sched_add", list_del(ring, t))
  <2>1. Keeps("sched_del", "sched_add", call[t])
    BY SchedAssumption DEF Keeps, HoldsAt, ListRegion, PidRegion, SemRegion, Lock
  <2> QED BY <1>4, <2>1, KeepLocks DEF Relink
<1>5. CASE Relink(t, "sched_add", "sched_unlock", list_add_tail(ring, t, Ready))
  <2>1. Keeps("sched_add", "sched_unlock", call[t])
    BY SchedAssumption DEF Keeps, HoldsAt, ListRegion, PidRegion, SemRegion, Lock
  <2> QED BY <1>5, <2>1, KeepLocks DEF Relink
<1>6. CASE spin_unlock(t, "list_slock", "sched_unlock", "sched_switch")
  <2>1. Gives("sched_unlock", "sched_switch", call[t], "list_slock") /\ "list_slock" \in Lock
    BY SchedAssumption DEF Gives, HoldsAt, ListRegion, PidRegion, SemRegion, Lock
  <2> QED BY <1>6, <2>1, GiveLock
<1>7. CASE /\ pc[t] = "sched_switch"
           /\ pc' = [pc EXCEPT ![t] = ReturnFrom(t)]
           /\ UNCHANGED <<call, lock>>
  <2>1. \A u \in Task : \A l \in Lock : Holds(u, l)' <=> Holds(u, l)
    BY <1>7, SchedAssumption
       DEF TypeInv, TypeOK, ReturnFrom, Holds, ListRegion, PidRegion, SemRegion, Lock
  <2> QED BY <1>7, <2>1 DEF LockDiscipline
<1> QED BY <1>1, <1>2, <1>3, <1>4, <1>5, <1>6, <1>7 DEF schedule, rest

LEMMA ExitLocks ==
    ASSUME TypeInv, LockDiscipline, NEW t \in Task, task_exit(t)
    PROVE  LockDiscipline'
<1>1. CASE spin_lock(t, "list_slock", "exit", "exit_status")
  <2>1. Takes("exit", "exit_status", call[t], "list_slock") /\ "list_slock" \in Lock
    BY SchedAssumption DEF Takes, HoldsAt, ListRegion, PidRegion, SemRegion, Lock
  <2> QED BY <1>1, <2>1, TakeLock
<1>2. CASE SetStatus(t, "exit_status", "exit_del", t, "TASK_DYING")
  <2>1. Keeps("exit_status", "exit_del", call[t])
    BY SchedAssumption DEF Keeps, HoldsAt, ListRegion, PidRegion, SemRegion, Lock
  <2> QED BY <1>2, <2>1, KeepLocks DEF SetStatus
<1>3. CASE Relink(t, "exit_del", "exit_unlock", list_del(ring, t))
  <2>1. Keeps("exit_del", "exit_unlock", call[t])
    BY SchedAssumption DEF Keeps, HoldsAt, ListRegion, PidRegion, SemRegion, Lock
  <2> QED BY <1>3, <2>1, KeepLocks DEF Relink
<1>4. CASE spin_unlock(t, "list_slock", "exit_unlock", "schedule")
  <2>1. Gives("exit_unlock", "schedule", call[t], "list_slock") /\ "list_slock" \in Lock
    BY SchedAssumption DEF Gives, HoldsAt, ListRegion, PidRegion, SemRegion, Lock
  <2> QED BY <1>4, <2>1, GiveLock
<1> QED BY <1>1, <1>2, <1>3, <1>4 DEF task_exit

LEMMA SuspendLocks ==
    ASSUME TypeInv, LockDiscipline, NEW t \in Task, task_suspend(t)
    PROVE  LockDiscipline'
<1>1. CASE spin_lock(t, "list_slock", "suspend", "suspend_status")
  <2>1. Takes("suspend", "suspend_status", call[t], "list_slock") /\ "list_slock" \in Lock
    BY SchedAssumption DEF Takes, HoldsAt, ListRegion, PidRegion, SemRegion, Lock
  <2> QED BY <1>1, <2>1, TakeLock
<1>2. CASE SetStatus(t, "suspend_status", "suspend_del", t, "TASK_BLOCKED")
  <2>1. Keeps("suspend_status", "suspend_del", call[t])
    BY SchedAssumption DEF Keeps, HoldsAt, ListRegion, PidRegion, SemRegion, Lock
  <2> QED BY <1>2, <2>1, KeepLocks DEF SetStatus
<1>3. CASE Relink(t, "suspend_del", "suspend_add", list_del(ring, t))
  <2>1. Keeps("suspend_del", "suspend_add", call[t])
    BY SchedAssumption DEF Keeps, HoldsAt, ListRegion, PidRegion, SemRegion, Lock
  <2> QED BY <1>3, <2>1, KeepLocks DEF Relink
<1>4. CASE Relink(t, "suspend_add", "suspend_unlock", list_add(ring, t, call[t].arg))
  <2>1. Keeps("suspend_add", "suspend_unlock", call[t])
    BY SchedAssumption DEF Keeps, HoldsAt, ListRegion, PidRegion, SemRegion, Lock
  <2> QED BY <1>4, <2>1, KeepLocks DEF Relink
<1>5. CASE spin_unlock(t, "list_slock", "suspend_unlock", "down_unlock")
  <2>1. Gives("suspend_unlock", "down_unlock", call[t], "list_slock") /\ "list_slock" \in Lock
    BY SchedAssumption DEF Gives, HoldsAt, ListRegion, PidRegion, SemRegion, Lock
  <2> QED BY <1>5, <2>1, GiveLock
<1> QED BY <1>1, <1>2, <1>3, <1>4, <1>5 DEF task_suspend

LEMMA ResumeLocks ==
    ASSUME TypeInv, LockDiscipline, NEW t \in Task, task_resume(t)
    PROVE  LockDiscipline'
<1>1. CASE spin_lock(t, "list_slock", "resume", "resume_test")
  <2>1. Takes("resume", "resume_test", call[t], "list_slock") /\ "list_slock" \in Lock
    BY SchedAssumption DEF Takes, HoldsAt, ListRegion, PidRegion, SemRegion, Lock
  <2> QED BY <1>1, <2>1, TakeLock
<1>2. CASE /\ Step(t, "resume_test",
                    IF resumes(local[t]) THEN "resume_add" ELSE "resume_unlock")
           /\ lock' = lock
  <2>1. Keeps("resume_test", "resume_add", call[t])
    BY SchedAssumption DEF Keeps, HoldsAt, ListRegion, PidRegion, SemRegion, Lock
  <2>2. Keeps("resume_test", "resume_unlock", call[t])
    BY SchedAssumption DEF Keeps, HoldsAt, ListRegion, PidRegion, SemRegion, Lock
  <2> QED BY <1>2, <2>1, <2>2, KeepLocks
<1>3. CASE Relink(t, "resume_add", "resume_unlock", list_add_tail(ring, local[t], Ready))
  <2>1. Keeps("resume_add", "resume_unlock", call[t])
    BY SchedAssumption DEF Keeps, HoldsAt, ListRegion, PidRegion, SemRegion, Lock
  <2> QED BY <1>3, <2>1, KeepLocks DEF Relink
<1>4. CASE spin_unlock(t, "list_slock", "resume_unlock", "up_unlock")
  <2>1. Gives("resume_unlock", "up_unlock", call[t], "list_slock") /\ "list_slock" \in Lock
    BY SchedAssumption DEF Gives, HoldsAt, ListRegion, PidRegion, SemRegion, Lock
  <2> QED BY <1>4, <2>1, GiveLock
<1> QED BY <1>1, <1>2, <1>3, <1>4 DEF task_resume

LEMMA StructInitLocks ==
    ASSUME TypeInv, LockDiscipline, NEW t \in Task, task_struct_init(t)
    PROVE  LockDiscipline'
<1>1. CASE /\ Step(t, "create", IF call[t].arg \in pages THEN "user" ELSE "create_all_lock")
           /\ lock' = lock
  <2>1. Keeps("create", "user", call[t])
    BY SchedAssumption DEF Keeps, HoldsAt, ListRegion, PidRegion, SemRegion, Lock
  <2>2. Keeps("create", "create_all_lock", call[t])
    BY SchedAssumption DEF Keeps, HoldsAt, ListRegion, PidRegion, SemRegion, Lock
  <2> QED BY <1>1, <2>1, <2>2, KeepLocks
<1>2. CASE spin_lock(t, "list_slock", "create_all_lock", "create_all_add")
  <2>1. Takes("create_all_lock", "create_all_add", call[t], "list_slock") /\ "list_slock" \in Lock
    BY SchedAssumption DEF Takes, HoldsAt, ListRegion, PidRegion, SemRegion, Lock
  <2> QED BY <1>2, <2>1, TakeLock
<1>3. CASE Step(t, "create_all_add", "create_all_unlock") /\ lock' = lock
  <2>1. Keeps("create_all_add", "create_all_unlock", call[t])
    BY SchedAssumption DEF Keeps, HoldsAt, ListRegion, PidRegion, SemRegion, Lock
  <2> QED BY <1>3, <2>1, KeepLocks
<1>4. CASE spin_unlock(t, "list_slock", "create_all_unlock", "pid")
  <2>1. Gives("create_all_unlock", "pid", call[t], "list_slock") /\ "list_slock" \in Lock
    BY SchedAssumption DEF Gives, HoldsAt, ListRegion, PidRegion, SemRegion, Lock
  <2> QED BY <1>4, <2>1, GiveLock
<1> QED BY <1>1, <1>2, <1>3, <1>4 DEF task_struct_init

LEMMA PidLocks ==
    ASSUME TypeInv, LockDiscipline, NEW t \in Task, allocate_pid(t)
    PROVE  LockDiscipline'
<1>1. CASE spin_lock(t, "pid_slock", "pid", "pid_inc")
  <2>1. Takes("pid", "pid_inc", call[t], "pid_slock") /\ "pid_slock" \in Lock
    BY SchedAssumption DEF Takes, HoldsAt, ListRegion, PidRegion, SemRegion, Lock
  <2> QED BY <1>1, <2>1, TakeLock
<1>2. CASE Step(t, "pid_inc", "pid_unlock") /\ lock' = lock
  <2>1. Keeps("pid_inc", "pid_unlock", call[t])
    BY SchedAssumption DEF Keeps, HoldsAt, ListRegion, PidRegion, SemRegion, Lock
  <2> QED BY <1>2, <2>1, KeepLocks
<1>3. CASE spin_unlock(t, "pid_slock", "pid_unlock", "pid_read")
  <2>1. Gives("pid_unlock", "pid_read", call[t], "pid_slock") /\ "pid_slock" \in Lock
    BY SchedAssumption DEF Gives, HoldsAt, ListRegion, PidRegion, SemRegion, Lock
  <2> QED BY <1>3, <2>1, GiveLock
<1>4. CASE Step(t, "pid_read", "create_lock") /\ lock' = lock
  <2>1. Keeps("pid_read", "create_lock", call[t])
    BY SchedAssumption DEF Keeps, HoldsAt, ListRegion, PidRegion, SemRegion, Lock
  <2> QED BY <1>4, <2>1, KeepLocks
<1> QED BY <1>1, <1>2, <1>3, <1>4 DEF allocate_pid

LEMMA CreateLocks ==
    ASSUME TypeInv, LockDiscipline, NEW t \in Task, task_create(t)
    PROVE  LockDiscipline'
<1>1. CASE task_struct_init(t)
  BY <1>1, StructInitLocks
<1>2. CASE allocate_pid(t)
  BY <1>2, PidLocks
<1>3. CASE spin_lock(t, "list_slock", "create_lock", "create_add")
  <2>1. Takes("create_lock", "create_add", call[t], "list_slock") /\ "list_slock" \in Lock
    BY SchedAssumption DEF Takes, HoldsAt, ListRegion, PidRegion, SemRegion, Lock
  <2> QED BY <1>3, <2>1, TakeLock
<1>4. CASE Relink(t, "create_add", "create_unlock", list_add_tail(ring, call[t].arg, Ready))
  <2>1. Keeps("create_add", "create_unlock", call[t])
    BY SchedAssumption DEF Keeps, HoldsAt, ListRegion, PidRegion, SemRegion, Lock
  <2> QED BY <1>4, <2>1, KeepLocks DEF Relink
<1>5. CASE spin_unlock(t, "list_slock", "create_unlock", "create_status")
  <2>1. Gives("create_unlock", "create_status", call[t], "list_slock") /\ "list_slock" \in Lock
    BY SchedAssumption DEF Gives, HoldsAt, ListRegion, PidRegion, SemRegion, Lock
  <2> QED BY <1>5, <2>1, GiveLock
<1>6. CASE SetStatus(t, "create_status", "user", call[t].arg, "TASK_READY")
  <2>1. Keeps("create_status", "user", call[t])
    BY SchedAssumption DEF Keeps, HoldsAt, ListRegion, PidRegion, SemRegion, Lock
  <2> QED BY <1>6, <2>1, KeepLocks DEF SetStatus
<1> QED BY <1>1, <1>2, <1>3, <1>4, <1>5, <1>6 DEF task_create

LEMMA DownLocks ==
    ASSUME TypeInv, LockDiscipline, NEW t \in Task, sema_down(t)
    PROVE  LockDiscipline'
<1> DEFINE s == call[t].arg
<1>1. CASE spin_lock(t, s, "sema_down", "down_test")
  <2>1. call[t].arg \in Sem
    BY <1>1, CallArg DEF spin_lock, Step, TypeInv, TypeOK, CallOK, DownPc
  <2>2. Takes("sema_down", "down_test", call[t], s) /\ s \in Lock
    BY <2>1, SchedAssumption DEF Takes, HoldsAt, ListRegion, PidRegion, SemRegion, Lock
  <2> QED BY <1>1, <2>2, TakeLock
<1>2. CASE /\ Step(t, "down_test", IF must_wait(s) THEN "suspend" ELSE "down_fast")
           /\ lock' = lock
  <2>1. Keeps("down_test", "suspend", call[t])
    BY SchedAssumption DEF Keeps, HoldsAt, ListRegion, PidRegion, SemRegion, Lock
  <2>2. Keeps("down_test", "down_fast", call[t])
    BY SchedAssumption DEF Keeps, HoldsAt, ListRegion, PidRegion, SemRegion, Lock
  <2> QED BY <1>2, <2>1, <2>2, KeepLocks
<1>3. CASE spin_unlock(t, s, "down_unlock", "schedule")
  <2>1. call[t].arg \in Sem
    BY <1>3, CallArg DEF spin_unlock, Step, TypeInv, TypeOK, CallOK, DownPc
  <2>2. Gives("down_unlock", "schedule", call[t], s) /\ s \in Lock
    BY <2>1, SchedAssumption DEF Gives, HoldsAt, ListRegion, PidRegion, SemRegion, Lock
  <2> QED BY <1>3, <2>2, GiveLock
<1>4. CASE spin_unlock(t, s, "down_fast", "user")
  <2>1. call[t].arg \in Sem
    BY <1>4, CallArg DEF spin_unlock, Step, TypeInv, TypeOK, CallOK, DownPc
  <2>2. Gives("down_fast", "user", call[t], s) /\ s \in Lock
    BY <2>1, SchedAssumption DEF Gives, HoldsAt, ListRegion, PidRegion, SemRegion, Lock
  <2> QED BY <1>4, <2>2, GiveLock
<1> QED BY <1>1, <1>2, <1>3, <1>4 DEF sema_down

LEMMA UpLocks ==
    ASSUME TypeInv, LockDiscipline, NEW t \in Task, sema_up(t)
    PROVE  LockDiscipline'
<1> DEFINE s == call[t].arg
<1>1. CASE spin_lock(t, s, "sema_up", "up_inc")
  <2>1. call[t].arg \in Sem
    BY <1>1, CallArg DEF spin_lock, Step, TypeInv, TypeOK, CallOK, UpPc
  <2>2. Takes("sema_up", "up_inc", call[t], s) /\ s \in Lock
    BY <2>1, SchedAssumption DEF Takes, HoldsAt, ListRegion, PidRegion, SemRegion, Lock
  <2> QED BY <1>1, <2>2, TakeLock
<1>2. CASE /\ Step(t, "up_inc", IF count[s] + 1 > 0 THEN "up_pop" ELSE "up_unlock")
           /\ lock' = lock
  <2>1. Keeps("up_inc", "up_pop", call[t])
    BY SchedAssumption DEF Keeps, HoldsAt, ListRegion, PidRegion, SemRegion, Lock
  <2>2. Keeps("up_inc", "up_unlock", call[t])
    BY SchedAssumption DEF Keeps, HoldsAt, ListRegion, PidRegion, SemRegion, Lock
  <2> QED BY <1>2, <2>1, <2>2, KeepLocks
<1>3. CASE /\ Step(t, "up_pop", IF ~list_empty(ring, s) /\ list_first(ring, s) \in Task THEN "resume" ELSE "up_unlock")
           /\ lock' = lock
  <2>1. Keeps("up_pop", "resume", call[t])
    BY SchedAssumption DEF Keeps, HoldsAt, ListRegion, PidRegion, SemRegion, Lock
  <2>2. Keeps("up_pop", "up_unlock", call[t])
    BY SchedAssumption DEF Keeps, HoldsAt, ListRegion, PidRegion, SemRegion, Lock
  <2> QED BY <1>3, <2>1, <2>2, KeepLocks
<1>4. CASE spin_unlock(t, s, "up_unlock", "user")
  <2>1. call[t].arg \in Sem
    BY <1>4, CallArg DEF spin_unlock, Step, TypeInv, TypeOK, CallOK, UpPc
  <2>2. Gives("up_unlock", "user", call[t], s) /\ s \in Lock
    BY <2>1, SchedAssumption DEF Gives, HoldsAt, ListRegion, PidRegion, SemRegion, Lock
  <2> QED BY <1>4, <2>2, GiveLock
<1> QED BY <1>1, <1>2, <1>3, <1>4 DEF sema_up

LEMMA LockInit == Init => LockDiscipline
BY DEF Init, SchedInit, LockDiscipline, Holds, Lock, ListRegion, PidRegion, SemRegion

LEMMA LockNext == TypeInv /\ LockDiscipline /\ [Next]_vars => LockDiscipline'
<1> SUFFICES ASSUME TypeInv, LockDiscipline, [Next]_vars PROVE LockDiscipline'
  OBVIOUS
<1>1. ASSUME NEW t \in Task, TaskStep(t) PROVE LockDiscipline'
  <2>1. CASE Invoke(t)
    <3>1. /\ todo[t] \in Seq(Call) /\ todo[t] # <<>> /\ lock' = lock
          /\ pc[t] = "user" /\ pc' = [pc EXCEPT ![t] = Head(todo[t]).op]
          /\ call' = [call EXCEPT ![t] = Head(todo[t])]
      BY <2>1 DEF Invoke, TypeInv, TypeOK
    <3>2. Head(todo[t]).op \in {"create", "sema_down", "sema_up", "exit"}
      BY <3>1, CallArg
    <3>3. \A u \in Task : \A l \in Lock : Holds(u, l)' <=> Holds(u, l)
      BY <3>1, <3>2, SchedAssumption
         DEF TypeInv, TypeOK, Holds, ListRegion, PidRegion, SemRegion, Lock
    <3> QED BY <3>1, <3>3 DEF LockDiscipline
  <2>2. CASE SchedStep(t)
    BY <2>2, ScheduleLocks, ExitLocks, SuspendLocks, ResumeLocks, CreateLocks DEF SchedStep
  <2>3. CASE sema_down(t) \/ sema_up(t)
    BY <2>3, DownLocks, UpLocks
  <2> QED BY <1>1, <2>1, <2>2, <2>3 DEF TaskStep
<1>2. CASE UNCHANGED <<pc, call, lock>>
  BY <1>2 DEF LockDiscipline, Holds
<1>3. ASSUME NEW v \in Vector, Interrupt(v) PROVE LockDiscipline'
  BY <1>2, <1>3 DEF Interrupt
<1>4. CASE TickIsr
  BY <1>2, <1>4 DEF TickIsr
<1>5. ASSUME NEW s \in IrqSem, DeviceIsr(s) PROVE LockDiscipline'
  BY <1>2, <1>5 DEF DeviceIsr, sema_up_in_isr
<1>6. CASE UNCHANGED vars
  BY <1>2, <1>6 DEF vars, schedVars
<1> QED BY <1>1, <1>3, <1>4, <1>5, <1>6 DEF Next

\* Every spin lock of the scheduler and the semaphores excludes: for any
\* number of tasks, wherever interrupts land, at most one task is between
\* taking and releasing it, and the byte says whether one is.
THEOREM SpinLocksExclude == Spec => []LockDiscipline
<1> QED BY TypeInit, TypeNext, LockInit, LockNext, PTL DEF Spec
=============================================================================
