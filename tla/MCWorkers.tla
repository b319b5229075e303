----------------------------- MODULE MCWorkers -----------------------------
(***************************************************************************)
(* A workload the repository's interface allows and its boot never runs:   *)
(* main starts tasks that take and give a semaphore initialised to 1, as   *)
(* ide_read does with sema_rw, and exit.                                   *)
(***************************************************************************)
EXTENDS Kernel

CONSTANTS init, a, b, mutex

C(op, arg) == [op |-> op, arg |-> arg]

MutexScripts ==
    {[t \in Task |->
        IF t = init THEN << C("create", a), C("create", b) >>
        ELSE << C("sema_down", mutex), C("sema_up", mutex), C("exit", NULL) >>]}

OneCounts == [s \in Sem |-> 1]
=============================================================================
