------------------------------ MODULE PagePool ------------------------------
(***************************************************************************)
(* The kernel's pool of page frames: mm_kget_pages and mm_kfree_pages of   *)
(* kernel/mm.c over the bitmap of lib/kernel/bitmap.c, called by tasks     *)
(* that are preempted anywhere.  The search and the two loops that write   *)
(* bits take one iteration a step.  A page is its number in the pool: the  *)
(* index of its bit.  PF_ZERO writes the caller's own pages and PF_ATOMIC  *)
(* a message, so the flags are left out.                                   *)
(***************************************************************************)
EXTENDS Integers

CONSTANTS
    Task,
    N,       \* bit_count: the pages of the pool
    Size,    \* size_t holds 0 .. Size - 1
    Counts,  \* the page counts tasks pass
    NULL

VARIABLES
    bits,      \* the bitmap: TRUE for a page in use
    slock,     \* kernel_pool.slock: 1 free, 0 taken
    pc,        \* pc[t]: where task t is
    count,     \* page_count of t's call
    start,     \* page_idx of mm_kget_pages, page_no_start of mm_kfree_pages
    idx,       \* idx_cur of the search, i of the loops
    idx_last,  \* idx_last of the search and of the loops
    ret,       \* what t's last mm_kget_pages returned
    owned      \* owned[t]: the pages t was given and has not freed

vars == <<bits, slock, pc, count, start, idx, idx_last, ret, owned>>

Page == 0 .. N - 1
Run(s, n) == s .. s + n - 1

ASSUME PoolAssumption ==
    /\ N \in Nat /\ Size \in Nat /\ 2 * N < Size
    /\ Counts \subseteq 0 .. Size - 1
    /\ NULL \notin Page

---------------------------------------------------------------------------
Goto(t, from, to) ==
    /\ pc[t] = from
    /\ pc' = [pc EXCEPT ![t] = to]

\* The call returns; its locals die.
Return(t, from) ==
    /\ Goto(t, from, "user")
    /\ count' = [count EXCEPT ![t] = 0]
    /\ start' = [start EXCEPT ![t] = 0]
    /\ idx' = [idx EXCEPT ![t] = 0]
    /\ idx_last' = [idx_last EXCEPT ![t] = 0]

\* Mutant: the lock is not waited for.
spin_lock_no_wait == slock' = 0

spin_lock == slock = 1 /\ slock' = 0

\* The lock is taken and a loop over `from .. last - 1' starts.
LockAndStart(t, from) ==
    /\ spin_lock
    /\ idx' = [idx EXCEPT ![t] = from]
    /\ idx_last' = [idx_last EXCEPT ![t] = (from + count[t]) % Size]
    /\ UNCHANGED <<bits, count, start, ret, owned>>

\* mm_kget_pages up to the lock: a request for no page returns NULL.
mm_kget_pages(t, n) ==
    /\ pc[t] = "user"
    /\ IF n = 0 THEN ret' = [ret EXCEPT ![t] = NULL] /\ UNCHANGED <<pc, count>>
       ELSE /\ pc' = [pc EXCEPT ![t] = "get_lock"]
            /\ count' = [count EXCEPT ![t] = n]
            /\ UNCHANGED ret
    /\ UNCHANGED <<bits, slock, start, idx, idx_last, owned>>

get_lock(t) == Goto(t, "get_lock", "search") /\ LockAndStart(t, 0)

more(t) == idx_last[t] <= N /\ idx[t] < N

\* Mutant: a page in use is skipped without starting the group again.
restart_kept(t) == idx_last[t] + 1

\* Where the group ends that starts behind the page in use at idx.
restart(t) == (idx[t] + 1 + count[t]) % Size

\* One iteration of bitmap_find_first_bits_group(bm, 0, page_count, false).
search(t) ==
    /\ pc[t] = "search" /\ more(t)
    /\ idx' = [idx EXCEPT ![t] = @ + 1]
    /\ IF bits[idx[t]]
       THEN /\ idx_last' = [idx_last EXCEPT ![t] = restart(t)]
            /\ UNCHANGED <<pc, start>>
       ELSE IF idx[t] + 1 = idx_last[t]
       THEN /\ pc' = [pc EXCEPT ![t] = "found"]
            /\ start' = [start EXCEPT ![t] = idx[t] + 1 - count[t]]
            /\ UNCHANGED idx_last
       ELSE UNCHANGED <<pc, start, idx_last>>
    /\ UNCHANGED <<bits, slock, count, ret, owned>>

\* Mutant: the error path returns with the lock taken.
fail_locked(t) ==
    /\ Return(t, "search") /\ ~more(t)
    /\ ret' = [ret EXCEPT ![t] = NULL]
    /\ UNCHANGED <<bits, slock, owned>>

\* Mutant: the error value is taken for the number of a page.
fail_unchecked(t) ==
    /\ Return(t, "search") /\ ~more(t)
    /\ slock' = 1
    /\ ret' = [ret EXCEPT ![t] = Size - 1]
    /\ UNCHANGED <<bits, owned>>

\* The search returns BITMAP_ERR: the pool is unlocked and NULL returned.
fail(t) ==
    /\ Return(t, "search") /\ ~more(t)
    /\ slock' = 1
    /\ ret' = [ret EXCEPT ![t] = NULL]
    /\ UNCHANGED <<bits, owned>>

\* bitmap_set_multi_bits starts on the run found.
found(t) ==
    /\ Goto(t, "found", "mark")
    /\ idx' = [idx EXCEPT ![t] = start[t]]
    /\ idx_last' = [idx_last EXCEPT ![t] = (start[t] + count[t]) % Size]
    /\ UNCHANGED <<bits, slock, count, start, ret, owned>>

\* The loops of bitmap_set_multi_bits and bitmap_reset_multi_bits go on.
looping(t) == idx_last[t] <= N /\ idx[t] < idx_last[t]

\* One iteration of a loop that writes bits.
WriteBit(t, at, val) ==
    /\ pc[t] = at /\ looping(t)
    /\ bits' = [bits EXCEPT ![idx[t]] = val]
    /\ idx' = [idx EXCEPT ![t] = @ + 1]
    /\ UNCHANGED <<slock, pc, count, start, idx_last, ret, owned>>

mark(t) == WriteBit(t, "mark", TRUE)

\* The loop is done: mm_kget_pages unlocks and returns the run.
got(t) ==
    /\ Return(t, "mark") /\ ~looping(t)
    /\ slock' = 1
    /\ ret' = [ret EXCEPT ![t] = start[t]]
    /\ owned' = [owned EXCEPT ![t] = @ \cup Run(start[t], count[t])]
    /\ UNCHANGED bits

---------------------------------------------------------------------------
\* The checks of mm_kfree_pages; s = N stands for every address outside.
accepts(s, n) == s < N /\ (s + n) % Size <= N

\* mm_kfree_pages up to the lock.  A task frees pages it owns; what reaches
\* outside the pool it may pass with any count.
mm_kfree_pages(t, s, n) ==
    /\ pc[t] = "user"
    /\ s + n <= N => Run(s, n) \subseteq owned[t]
    /\ accepts(s, n)
    /\ pc' = [pc EXCEPT ![t] = "free_lock"]
    /\ count' = [count EXCEPT ![t] = n]
    /\ start' = [start EXCEPT ![t] = s]
    /\ owned' = [owned EXCEPT ![t] = IF s + n <= N THEN @ \ Run(s, n) ELSE @]
    /\ UNCHANGED <<bits, slock, idx, idx_last, ret>>

free_lock(t) == Goto(t, "free_lock", "clear") /\ LockAndStart(t, start[t])

\* Mutant: the loop leaves the last bit of a longer run set.
clear_short(t) ==
    /\ WriteBit(t, "clear", idx[t] = start[t] + 1)

clear(t) == WriteBit(t, "clear", FALSE)

freed(t) ==
    /\ Return(t, "clear") /\ ~looping(t)
    /\ slock' = 1
    /\ UNCHANGED <<bits, ret, owned>>

---------------------------------------------------------------------------
\* After mem_pool_init: every page is free (module PoolInit).
Init ==
    /\ bits = [p \in Page |-> FALSE]
    /\ slock = 1
    /\ pc = [t \in Task |-> "user"]
    /\ count = [t \in Task |-> 0]
    /\ start = [t \in Task |-> 0]
    /\ idx = [t \in Task |-> 0]
    /\ idx_last = [t \in Task |-> 0]
    /\ ret = [t \in Task |-> NULL]
    /\ owned = [t \in Task |-> {}]

Call(t) ==
    \/ \E n \in Counts : mm_kget_pages(t, n)
    \/ \E s \in 0 .. N, n \in Counts : mm_kfree_pages(t, s, n)

Step(t) ==
    \/ get_lock(t) \/ search(t) \/ fail(t) \/ found(t) \/ mark(t) \/ got(t)
    \/ free_lock(t) \/ clear(t) \/ freed(t)

Next == \E t \in Task : Call(t) \/ Step(t)

Spec == Init /\ [][Next]_vars

\* A task runs again and again (module Kernel), and finds the lock free.
FairSpec == Spec /\ \A t \in Task : SF_vars(Step(t))
---------------------------------------------------------------------------
(* Properties.                                                             *)

PC == {"user", "get_lock", "search", "found", "mark", "free_lock", "clear"}

\* The kind of every variable; a task never owns or is given a page outside
\* the pool, and size_t arithmetic stays in its range.
TypeOK ==
    /\ bits \in [Page -> BOOLEAN]
    /\ slock \in {0, 1}
    /\ pc \in [Task -> PC]
    /\ count \in [Task -> 0 .. Size - 1]
    /\ start \in [Task -> 0 .. Size - 1]
    /\ idx \in [Task -> 0 .. Size - 1]
    /\ idx_last \in [Task -> 0 .. Size - 1]
    /\ ret \in [Task -> Page \cup {NULL}]
    /\ owned \in [Task -> SUBSET Page]

\* The pages t is freeing.  A count that makes the sum wrap frees nothing.
Freeing(t) ==
    IF pc[t] \in {"free_lock", "clear"} /\ start[t] + count[t] <= N
    THEN Run(start[t], count[t]) ELSE {}

\* The pages t has found and is about to be given.
Granting(t) == IF pc[t] \in {"found", "mark"} THEN Run(start[t], count[t]) ELSE {}

Claim(t) == owned[t] \cup Freeing(t) \cup Granting(t)

\* mm_kget_pages never hands out a page that another task has, is freeing or
\* is being given, and no task is given a page twice.
NoSharedPage ==
    /\ \A t, u \in Task : t # u => Claim(t) \cap Claim(u) = {}
    /\ \A t \in Task : owned[t] \cap Granting(t) = {}

\* Of the run being marked or cleared, the pages whose bit is written.
Written(t) ==
    IF pc[t] \in {"mark", "clear"} THEN start[t] .. idx[t] - 1 ELSE {}

InUse(t) ==
    CASE pc[t] = "clear" -> owned[t] \cup (Freeing(t) \ Written(t))
      [] pc[t] = "mark"  -> owned[t] \cup Written(t)
      [] OTHER           -> owned[t] \cup Freeing(t)

\* No page leaks and none is freed under its owner: the bit of a page is set
\* exactly while a task has it.  kernel/mm.c warns that bitmap_reset_multi_bits
\* is called without any verification; the checks of mm_kfree_pages suffice.
BitsMatch == \A p \in Page : bits[p] <=> \E t \in Task : p \in InUse(t)

\* The state of module PageAllocator, as the calls under way have it.
freeing == [t \in Task |-> Freeing(t)]
wanted  == [t \in Task |-> IF pc[t] \in {"get_lock", "search", "found", "mark"}
                           THEN count[t] ELSE 0]
Allocator == INSTANCE PageAllocator WITH given <- ret

\* Every call takes effect atomically: a request gets the first run that fits,
\* is refused only when none does, and a free gives back exactly the pages
\* passed, or nothing when they do not lie in the pool.
AllocatorSpec == Allocator!Spec

\* Every call returns: the search and the loops end, and the lock is released
\* on every path.
CallsReturn == \A t \in Task : pc[t] # "user" ~> pc[t] = "user"
=============================================================================
