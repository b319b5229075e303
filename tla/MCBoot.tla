------------------------------- MODULE MCBoot -------------------------------
(***************************************************************************)
(* The workload the repository ships: main creates the two idle tasks,     *)
(* waits for the first one, waits for the disk twice and exits.  The       *)
(* semaphore of sched_init is boot, sema_wait of the first channel disk.   *)
(***************************************************************************)
EXTENDS Kernel

CONSTANTS init, idle1, idle2, idle3, boot, disk

C(op, arg) == [op |-> op, arg |-> arg]

BootScripts ==
    {[t \in Task |->
        CASE t = init  -> << C("create", idle1), C("create", idle2),
                             C("sema_down", boot), C("sema_down", disk),
                             C("sema_down", disk), C("exit", NULL) >>
          [] t = idle1 -> << C("sema_up", boot) >>
          [] OTHER     -> <<>>]}

\* Not part of the boot: main and a task it created create tasks at the same
\* time, and main asks for one page too many.
CreateScripts ==
    {[t \in Task |->
        CASE t = init  -> << C("create", idle1), C("create", idle2), C("create", idle1) >>
          [] t = idle1 -> << C("create", idle3) >>
          [] OTHER     -> <<>>]}

BootAndCreate == BootScripts \cup CreateScripts

\* In each of them main alone waits, and it creates a task before all else.
ASSUME BootMainAlone == MainAlone

ZeroCounts == [s \in Sem |-> 0]

\* sched_init waits for the idle task and, once that task has run, returns to
\* main (kernel/sched.c, sched_init).
SchedInitReturns == <>(cur = init /\ pc[init] = "user" /\ Len(todo[init]) = 3)
=============================================================================
