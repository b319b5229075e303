---------------------------- MODULE PageAllocator ----------------------------
(***************************************************************************)
(* What mm_kget_pages and mm_kfree_pages of kernel/mm.c promise: each call *)
(* takes effect at once, a request gets the first run of free pages that   *)
(* is long enough and is refused only when there is none.                  *)
(***************************************************************************)
EXTENDS Integers

CONSTANTS Task, N, Counts, NULL

VARIABLES
    owned,    \* owned[t]: the pages t was given and has not freed
    freeing,  \* freeing[t]: the pages t is freeing
    wanted,   \* wanted[t]: the length of the run t asks for, 0 when it does not
    given     \* given[t]: the run t was last given, NULL when it was refused

Page == 0 .. N - 1
Run(s, n) == s .. s + n - 1

Taken == UNION {owned[t] \cup freeing[t] : t \in Task}
Fits(s, n) == s + n <= N /\ Run(s, n) \cap Taken = {}
FirstFit(s, n) == Fits(s, n) /\ \A r \in 0 .. s - 1 : ~Fits(r, n)

Init ==
    /\ owned = [t \in Task |-> {}]
    /\ freeing = [t \in Task |-> {}]
    /\ wanted = [t \in Task |-> 0]
    /\ given = [t \in Task |-> NULL]

Ask(t, n) ==
    /\ wanted[t] = 0 /\ freeing[t] = {}
    /\ wanted' = [wanted EXCEPT ![t] = n]
    /\ UNCHANGED <<owned, freeing, given>>

Grant(t, s) ==
    /\ wanted[t] # 0
    /\ FirstFit(s, wanted[t])
    /\ owned' = [owned EXCEPT ![t] = @ \cup Run(s, wanted[t])]
    /\ given' = [given EXCEPT ![t] = s]
    /\ wanted' = [wanted EXCEPT ![t] = 0]
    /\ UNCHANGED freeing

\* A request for no page at all is refused as well.
Refuse(t) ==
    /\ wanted[t] # 0 => \A s \in Page : ~Fits(s, wanted[t])
    /\ given' = [given EXCEPT ![t] = NULL]
    /\ wanted' = [wanted EXCEPT ![t] = 0]
    /\ UNCHANGED <<owned, freeing>>

GiveUp(t, s, n) ==
    /\ wanted[t] = 0 /\ freeing[t] = {}
    /\ Run(s, n) \subseteq owned[t]
    /\ freeing' = [freeing EXCEPT ![t] = Run(s, n)]
    /\ owned' = [owned EXCEPT ![t] = @ \ Run(s, n)]
    /\ UNCHANGED <<wanted, given>>

Release(t) ==
    /\ freeing' = [freeing EXCEPT ![t] = {}]
    /\ UNCHANGED <<owned, wanted, given>>

Next ==
    \E t \in Task :
        \/ \E n \in Counts \ {0} : Ask(t, n)
        \/ \E s \in Page : Grant(t, s)
        \/ Refuse(t)
        \/ \E s \in Page, n \in Counts : GiveUp(t, s, n)
        \/ Release(t)

Spec == Init /\ [][Next]_<<owned, freeing, wanted, given>>
=============================================================================
