----------------------------- MODULE Semaphore -----------------------------
(***************************************************************************)
(* What kernel/sync.c's semaphores do, seen from outside: sema_down and    *)
(* sema_up are atomic.  sema_up raises the value and wakes one waiter if   *)
(* there is one; the woken waiter does not take the unit it was woken for, *)
(* so the value counts it twice.                                           *)
(***************************************************************************)
EXTENDS Integers

CONSTANTS Task, Sem, SemInit

VARIABLES
    value,     \* value[s]: the units sema_down finds
    waiting    \* waiting[s]: the tasks blocked on s

Init ==
    /\ value = SemInit
    /\ waiting = [s \in Sem |-> {}]

\* sema_down finds a unit.
Take(s) ==
    /\ value[s] > 0
    /\ value' = [value EXCEPT ![s] = @ - 1]
    /\ UNCHANGED waiting

\* sema_down finds none: the task goes to sleep.
Sleep(s, t) ==
    /\ value[s] = 0
    /\ \A z \in Sem : t \notin waiting[z]
    /\ waiting' = [waiting EXCEPT ![s] = @ \cup {t}]
    /\ UNCHANGED value

\* sema_up
Raise(s) ==
    /\ value' = [value EXCEPT ![s] = @ + 1]
    /\ IF waiting[s] = {}
       THEN UNCHANGED waiting
       ELSE \E t \in waiting[s] : waiting' = [waiting EXCEPT ![s] = @ \ {t}]

Next == \E s \in Sem : Take(s) \/ Raise(s) \/ \E t \in Task : Sleep(s, t)

Spec == Init /\ [][Next]_<<value, waiting>>
=============================================================================
