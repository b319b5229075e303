--------------------------- MODULE PagePoolProofs ---------------------------
(***************************************************************************)
(* What holds of the page pool for every set of tasks, every size of the   *)
(* pool and of size_t, and every page count.                               *)
(***************************************************************************)
EXTENDS PagePool, TLAPS

\* A page in use as mm_kget_pages sees it once it holds the lock.
Taken(p) == \E u \in Task : p \in owned[u] \cup Freeing(u)

\* A request for n pages cannot be served by the run that starts at r.
NoFit(r, n) == r + n > N \/ \E p \in Run(r, n) : Taken(p)

InCS(t) == pc[t] \in {"search", "found", "mark", "clear"}

Mutex ==
    /\ \A t \in Task : InCS(t) => slock = 0
    /\ \A t, u \in Task : InCS(t) /\ InCS(u) => t = u

\* The group a search has in hand is free, and no run before it fits.
SearchOK(t) ==
    pc[t] = "search" =>
        /\ idx[t] <= N /\ count[t] <= idx_last[t]
        /\ idx_last[t] - count[t] <= idx[t] /\ idx[t] < idx_last[t]
        /\ \A p \in idx_last[t] - count[t] .. idx[t] - 1 : ~Taken(p)
        /\ \A r \in 0 .. idx_last[t] - count[t] - 1 : NoFit(r, count[t])

\* The run found is the first that fits, and marking stays inside it.
GrantOK(t) ==
    pc[t] \in {"found", "mark"} =>
        /\ start[t] + count[t] <= N
        /\ \A p \in Granting(t) : ~Taken(p)
        /\ \A r \in 0 .. start[t] - 1 : NoFit(r, count[t])
        /\ pc[t] = "mark" => /\ idx_last[t] = start[t] + count[t]
                             /\ start[t] <= idx[t] /\ idx[t] <= idx_last[t]

\* A free that passed the checks clears its run, or nothing if the sum wraps.
FreeOK(t) ==
    pc[t] \in {"free_lock", "clear"} =>
        /\ start[t] < N
        /\ start[t] + count[t] <= N \/ Size <= start[t] + count[t]
        /\ pc[t] = "clear" =>
               /\ start[t] <= idx[t]
               /\ start[t] + count[t] <= N =>
                      idx_last[t] = start[t] + count[t] /\ idx[t] <= idx_last[t]
               /\ ~(start[t] + count[t] <= N) =>
                      idx_last[t] < start[t] /\ idx[t] = start[t]

CallOK(t) ==
    /\ pc[t] \in {"get_lock", "search", "found", "mark"} => count[t] > 0
    /\ SearchOK(t)
    /\ GrantOK(t)
    /\ FreeOK(t)

\* A page is claimed once.
Exclusive ==
    \A p \in Page : \A t \in Task :
        /\ \A u \in Task : t # u /\ p \in Claim(t) => p \notin Claim(u)
        /\ p \in owned[t] => p \notin Freeing(t) /\ p \notin Granting(t)

IInv ==
    /\ TypeOK
    /\ Mutex
    /\ \A t \in Task : CallOK(t)
    /\ Exclusive
    /\ BitsMatch
---------------------------------------------------------------------------
(* The sums of the code, at their width.                                   *)

LEMMA SumFits ==
    ASSUME NEW x \in 0 .. Size - 1, NEW y \in 0 .. Size - 1, x + y < Size
    PROVE  (x + y) % Size = x + y
  BY PoolAssumption

LEMMA SumWraps ==
    ASSUME NEW x \in 0 .. Size - 1, NEW y \in 0 .. Size - 1, Size <= x + y
    PROVE  (x + y) % Size = x + y - Size
<1>1. Size \in Nat \ {0}
  BY PoolAssumption
<1>2. x + y - Size \in 0 .. Size - 1
  BY <1>1
<1>3. (x + y) % Size = (x + y - Size) % Size
  BY <1>1
<1> QED BY <1>1, <1>2, <1>3

\* Where the search starts a group behind a page in use: no sum wraps.
LEMMA RestartNoWrap ==
    ASSUME NEW t \in Task, TypeOK, more(t), count[t] <= idx_last[t]
    PROVE  restart(t) = idx[t] + 1 + count[t] /\ restart(t) \in 0 .. Size - 1
<1> DEFINE x == idx[t] + 1
<1>1. x \in 0 .. Size - 1 /\ count[t] \in 0 .. Size - 1 /\ x + count[t] < Size
  BY PoolAssumption DEF TypeOK, more
<1>2. restart(t) = x + count[t]
  <2>1. restart(t) = (x + count[t]) % Size
    BY DEF restart
  <2> HIDE DEF x
  <2>2. (x + count[t]) % Size = x + count[t]
    BY <1>1, SumFits
  <2> QED BY <2>1, <2>2
<1> QED BY <1>1, <1>2, PoolAssumption

\* Where the loop over a run of a call ends.
LEMMA LockStarts ==
    ASSUME NEW t \in Task, TypeOK, NEW from \in 0 .. Size - 1, LockAndStart(t, from)
    PROVE  \E last \in 0 .. Size - 1 :
             /\ idx_last' = [idx_last EXCEPT ![t] = last]
             /\ from + count[t] < Size => last = from + count[t]
             /\ Size <= from + count[t] => last = from + count[t] - Size
<1>1. count[t] \in 0 .. Size - 1
  BY DEF TypeOK
<1> DEFINE last == (from + count[t]) % Size
<1>2. /\ from + count[t] < Size => last = from + count[t]
      /\ Size <= from + count[t] => last = from + count[t] - Size
  <2>1. ASSUME from + count[t] < Size PROVE last = from + count[t]
    BY <1>1, <2>1, SumFits
  <2>2. ASSUME Size <= from + count[t] PROVE last = from + count[t] - Size
    BY <1>1, <2>2, SumWraps
  <2> QED BY <2>1, <2>2
<1>3. idx_last' = [idx_last EXCEPT ![t] = last]
  BY DEF LockAndStart
<1> HIDE DEF last
<1>4. last \in 0 .. Size - 1
  <2>1. /\ from \in Int /\ count[t] \in Int /\ Size \in Int
        /\ 0 <= from /\ from < Size /\ 0 <= count[t] /\ count[t] < Size
    BY <1>1, PoolAssumption
  <2>2. CASE from + count[t] < Size
    BY <1>2, <2>1, <2>2
  <2>3. CASE Size <= from + count[t]
    BY <1>2, <2>1, <2>3
  <2> QED BY <2>1, <2>2, <2>3
<1> QED BY <1>2, <1>3, <1>4

LEMMA FreeEnd ==
    ASSUME NEW s \in 0 .. Size - 1, NEW c \in 0 .. Size - 1, NEW last \in 0 .. Size - 1,
           s + c < Size => last = s + c,
           Size <= s + c => last = s + c - Size,
           s + c <= N \/ Size <= s + c
    PROVE  /\ s + c <= N => last = s + c /\ s <= last
           /\ ~(s + c <= N) => last < s
  BY PoolAssumption

LEMMA FoundStarts ==
    ASSUME NEW t \in Task, TypeOK, CallOK(t), found(t)
    PROVE  /\ idx_last' = [idx_last EXCEPT ![t] = start[t] + count[t]]
           /\ start[t] + count[t] \in 0 .. Size - 1 /\ start[t] + count[t] <= N
<1>1. /\ start[t] \in 0 .. Size - 1 /\ count[t] \in 0 .. Size - 1
      /\ start[t] + count[t] <= N
  BY DEF TypeOK, CallOK, GrantOK, found, Goto
<1>2. (start[t] + count[t]) % Size = start[t] + count[t]
  <2>1. start[t] + count[t] < Size
    BY <1>1, PoolAssumption
  <2> QED BY <1>1, <2>1, SumFits
<1>3. idx_last' = [idx_last EXCEPT ![t] = (start[t] + count[t]) % Size]
  BY DEF found
<1>4. idx_last' = [idx_last EXCEPT ![t] = start[t] + count[t]]
  BY <1>2, <1>3, Zenon
<1>5. start[t] + count[t] \in 0 .. Size - 1
  BY <1>1, PoolAssumption
<1> QED BY <1>1, <1>4, <1>5

---------------------------------------------------------------------------
(* Type correctness.  The arguments of a step stay below Size because of   *)
(* what CallOK says of the call it belongs to.                             *)

LEMMA Types ==
    ASSUME TypeOK
    PROVE  \A t \in Task :
             /\ bits \in [Page -> BOOLEAN]
             /\ slock \in {0, 1}
             /\ pc[t] \in PC /\ count[t] \in 0 .. Size - 1 /\ start[t] \in 0 .. Size - 1
             /\ idx[t] \in 0 .. Size - 1 /\ idx_last[t] \in 0 .. Size - 1
             /\ ret[t] \in Page \cup {NULL} /\ owned[t] \in SUBSET Page
  BY DEF TypeOK

LEMMA InitInv == Init => IInv
<1> SUFFICES ASSUME Init PROVE IInv
  OBVIOUS
<1>1. TypeOK
  BY PoolAssumption DEF Init, TypeOK, PC, Page
<1>2. Mutex
  BY DEF Init, Mutex, InCS
<1>3. \A t \in Task : CallOK(t)
  BY DEF Init, CallOK, SearchOK, GrantOK, FreeOK
<1>4. \A t \in Task : Claim(t) = {} /\ InUse(t) = {} /\ owned[t] = {}
  BY DEF Init, Claim, Freeing, Granting, InUse
<1>5. Exclusive /\ BitsMatch
  BY <1>4 DEF Init, Exclusive, BitsMatch
<1> QED BY <1>1, <1>2, <1>3, <1>5 DEF IInv

LEMMA TypeStep ==
    ASSUME IInv, NEW t \in Task, Call(t) \/ Step(t)
    PROVE  TypeOK'
<1>1. TypeOK /\ CallOK(t) /\ N \in Nat /\ Size \in Nat /\ 2 * N < Size
  BY PoolAssumption DEF IInv
<1>2. CASE \E n \in Counts : mm_kget_pages(t, n)
  BY <1>1, <1>2, PoolAssumption DEF mm_kget_pages, TypeOK, PC
<1>3. CASE \E s \in 0 .. N, n \in Counts : mm_kfree_pages(t, s, n)
  BY <1>1, <1>3, PoolAssumption DEF mm_kfree_pages, TypeOK, PC, Run, Page, accepts
<1>4. CASE get_lock(t)
  <2>1. PICK last \in 0 .. Size - 1 : idx_last' = [idx_last EXCEPT ![t] = last]
    BY <1>1, <1>4, LockStarts DEF get_lock
  <2> QED BY <1>1, <1>4, <2>1 DEF get_lock, LockAndStart, spin_lock, Goto, TypeOK, PC
<1>5. CASE search(t)
  <2>1. count[t] <= idx_last[t] /\ more(t) /\ count[t] > 0 /\ idx_last[t] - count[t] <= idx[t]
    BY <1>1, <1>5 DEF search, CallOK, SearchOK
  <2>2. restart(t) \in 0 .. Size - 1
    BY <1>1, <2>1, RestartNoWrap
  <2>3. idx[t] + 1 \in 0 .. Size - 1 /\ idx[t] + 1 - count[t] \in Int
    BY <1>1, <2>1 DEF TypeOK, more
  <2>4. idx[t] + 1 = idx_last[t] => idx[t] + 1 - count[t] \in 0 .. Size - 1
    BY <1>1, <2>1, <2>3 DEF TypeOK
  <2> QED BY <1>1, <1>5, <2>2, <2>3, <2>4 DEF search, TypeOK, PC
<1>6. CASE fail(t)
  BY <1>1, <1>6 DEF fail, Return, Goto, TypeOK, PC
<1>7. CASE found(t)
  BY <1>1, <1>7, FoundStarts DEF found, Goto, TypeOK, PC
<1>8. CASE mark(t)
  BY <1>1, <1>8, Types DEF mark, WriteBit, looping, TypeOK, PC, Page
<1>9. CASE got(t)
  BY <1>1, <1>9, Types DEF got, Return, Goto, TypeOK, PC, Page, CallOK, GrantOK, Run
<1>10. CASE free_lock(t)
  <2>1. PICK last \in 0 .. Size - 1 : idx_last' = [idx_last EXCEPT ![t] = last]
    BY <1>1, <1>10, LockStarts DEF free_lock, TypeOK
  <2> QED BY <1>1, <1>10, <2>1 DEF free_lock, LockAndStart, spin_lock, Goto, TypeOK, PC
<1>11. CASE clear(t)
  BY <1>1, <1>11, Types DEF clear, WriteBit, looping, TypeOK, PC, Page
<1>12. CASE freed(t)
  BY <1>1, <1>12 DEF freed, Return, Goto, TypeOK, PC
<1> QED
  BY <1>2, <1>3, <1>4, <1>5, <1>6, <1>7, <1>8, <1>9, <1>10, <1>11, <1>12
     DEF Call, Step

\* The lock is held by whoever is between spin_lock and spin_unlock.
LEMMA MutexStep ==
    ASSUME IInv, NEW t \in Task, Call(t) \/ Step(t)
    PROVE  Mutex'
<1>1. TypeOK /\ Mutex
  BY DEF IInv
<1>2. CASE Call(t)
  BY <1>1, <1>2, Types DEF Call, mm_kget_pages, mm_kfree_pages, Mutex, InCS, TypeOK
<1>3. CASE Step(t)
  BY <1>1, <1>3, Types DEF Step, get_lock, free_lock, LockAndStart, spin_lock, search,
     fail, found, mark, clear, got, freed, WriteBit, Goto, Return, Mutex, InCS, TypeOK
<1> QED BY <1>2, <1>3
---------------------------------------------------------------------------
(* Who has a page: what a step moves between the sets owned[t], Freeing(t) *)
(* and Granting(t).                                                        *)

\* A step of t leaves everything of another task alone.
LEMMA OthersStep ==
    ASSUME IInv, NEW t \in Task, Call(t) \/ Step(t), NEW u \in Task, u # t
    PROVE  /\ pc'[u] = pc[u] /\ count'[u] = count[u] /\ start'[u] = start[u]
           /\ idx'[u] = idx[u] /\ idx_last'[u] = idx_last[u] /\ owned'[u] = owned[u]
           /\ Freeing(u)' = Freeing(u) /\ Granting(u)' = Granting(u)
           /\ Written(u)' = Written(u) /\ InUse(u)' = InUse(u)
<1>1. /\ pc'[u] = pc[u] /\ count'[u] = count[u] /\ start'[u] = start[u]
      /\ idx'[u] = idx[u] /\ idx_last'[u] = idx_last[u] /\ owned'[u] = owned[u]
  <2>1. TypeOK
    BY DEF IInv
  <2>2. CASE Call(t)
    BY <2>1, <2>2 DEF Call, mm_kget_pages, mm_kfree_pages, TypeOK
  <2>3. CASE Step(t)
    BY <2>1, <2>3 DEF Step, get_lock, free_lock, LockAndStart, search, fail, found, mark,
       clear, got, freed, WriteBit, Goto, Return, TypeOK
  <2> QED BY <2>2, <2>3
<1>2. Freeing(u)' = Freeing(u) /\ Granting(u)' = Granting(u) /\ Written(u)' = Written(u)
  BY <1>1 DEF Freeing, Granting, Written
<1>3. InUse(u)' = InUse(u)
  BY <1>1, <1>2 DEF InUse
<1> QED BY <1>1, <1>2, <1>3

Keeps(t) ==
    owned'[t] = owned[t] /\ Freeing(t)' = Freeing(t) /\ Granting(t)' = Granting(t)

Finds(t) ==
    /\ search(t) /\ ~bits[idx[t]] /\ idx[t] + 1 = idx_last[t]
    /\ owned'[t] = owned[t] /\ Freeing(t)' = {} /\ Freeing(t) = {} /\ Granting(t) = {}
    /\ start'[t] = idx_last[t] - count[t] /\ pc'[t] = "found"
    /\ Granting(t)' = idx_last[t] - count[t] .. idx[t]

Gets(t) ==
    /\ got(t)
    /\ owned'[t] = owned[t] \cup Granting(t)
    /\ Granting(t)' = {} /\ Freeing(t)' = {} /\ Freeing(t) = {}

GivesUp(t) ==
    /\ Call(t) /\ pc[t] = "user"
    /\ Freeing(t) = {} /\ Granting(t) = {} /\ Granting(t)' = {}
    /\ Freeing(t)' \subseteq owned[t]
    /\ owned'[t] = owned[t] \ Freeing(t)'

Frees(t) ==
    /\ freed(t)
    /\ owned'[t] = owned[t] /\ Freeing(t)' = {}
    /\ Granting(t) = {} /\ Granting(t)' = {}

LEMMA Moves ==
    ASSUME IInv, NEW t \in Task, Call(t) \/ Step(t)
    PROVE  Keeps(t) \/ Finds(t) \/ Gets(t) \/ GivesUp(t) \/ Frees(t)
<1>1. TypeOK /\ CallOK(t) /\ N \in Nat /\ Size \in Nat
  BY PoolAssumption DEF IInv
<1>2. CASE \E n \in Counts : mm_kget_pages(t, n)
  BY <1>1, <1>2 DEF mm_kget_pages, TypeOK, Keeps, Freeing, Granting
<1>3. CASE \E s \in 0 .. N, n \in Counts : mm_kfree_pages(t, s, n)
  <2>1. PICK s \in 0 .. N, n \in Counts : mm_kfree_pages(t, s, n)
    BY <1>3
  <2>2. /\ pc[t] = "user" /\ pc'[t] = "free_lock" /\ start'[t] = s /\ count'[t] = n
        /\ owned'[t] = IF s + n <= N THEN owned[t] \ Run(s, n) ELSE owned[t]
        /\ s + n <= N => Run(s, n) \subseteq owned[t]
    BY <1>1, <2>1 DEF mm_kfree_pages, TypeOK
  <2>3. /\ Freeing(t) = {} /\ Granting(t) = {} /\ Granting(t)' = {}
        /\ Freeing(t)' = IF s + n <= N THEN Run(s, n) ELSE {}
    BY <2>2 DEF Freeing, Granting
  <2> QED BY <1>3, <2>2, <2>3 DEF GivesUp, Call
<1>4. CASE get_lock(t) \/ free_lock(t)
  BY <1>1, <1>4 DEF get_lock, free_lock, LockAndStart, Goto, TypeOK, Keeps, Freeing, Granting
<1>5. CASE search(t)
  <2>1. /\ idx[t] \in Int /\ idx_last[t] \in Int /\ count[t] \in Int
        /\ pc[t] = "search" /\ Freeing(t) = {} /\ Granting(t) = {}
        /\ count'[t] = count[t] /\ owned'[t] = owned[t]
    BY <1>1, <1>5 DEF search, TypeOK, Freeing, Granting
  <2>2. CASE ~bits[idx[t]] /\ idx[t] + 1 = idx_last[t]
    <3>1. pc'[t] = "found" /\ start'[t] = idx_last[t] - count[t]
      BY <1>1, <1>5, <2>2 DEF search, TypeOK
    <3>2. Freeing(t)' = {} /\ Granting(t)' = Run(idx_last[t] - count[t], count[t])
      BY <2>1, <3>1 DEF Freeing, Granting
    <3>3. Run(idx_last[t] - count[t], count[t]) = idx_last[t] - count[t] .. idx[t]
      BY <2>1, <2>2 DEF Run
    <3> QED BY <1>5, <2>1, <2>2, <3>1, <3>2, <3>3 DEF Finds
  <2>3. CASE ~(~bits[idx[t]] /\ idx[t] + 1 = idx_last[t])
    <3>1. pc'[t] = "search"
      BY <1>5, <2>1, <2>3 DEF search
    <3> QED BY <2>1, <3>1 DEF Keeps, Freeing, Granting
  <2> QED BY <2>2, <2>3
<1>6. CASE fail(t)
  BY <1>1, <1>6 DEF fail, Return, Goto, TypeOK, Keeps, Freeing, Granting
<1>7. CASE found(t)
  BY <1>1, <1>7 DEF found, Goto, TypeOK, Keeps, Freeing, Granting
<1>8. CASE mark(t) \/ clear(t)
  BY <1>1, <1>8 DEF mark, clear, WriteBit, TypeOK, Keeps, Freeing, Granting
<1>9. CASE got(t)
  BY <1>1, <1>9 DEF got, Return, Goto, TypeOK, Gets, Freeing, Granting
<1>10. CASE freed(t)
  BY <1>1, <1>10 DEF freed, Return, Goto, TypeOK, Frees, Freeing, Granting
<1> QED
  BY <1>2, <1>3, <1>4, <1>5, <1>6, <1>7, <1>8, <1>9, <1>10 DEF Call, Step

\* A page becomes taken, or free, only in the step that releases the lock.
LEMMA TakenStable ==
    ASSUME IInv, NEW t \in Task, Call(t) \/ Step(t),
           Keeps(t) \/ Finds(t) \/ GivesUp(t)
    PROVE  /\ \A p : Taken(p)' <=> Taken(p)
           /\ \A r, n : NoFit(r, n)' <=> NoFit(r, n)
<1>1. \A u \in Task : (owned[u] \cup Freeing(u))' = owned[u] \cup Freeing(u)
  <2> SUFFICES ASSUME NEW u \in Task
               PROVE  owned'[u] \cup Freeing(u)' = owned[u] \cup Freeing(u)
    OBVIOUS
  <2>1. CASE u # t
    BY <2>1, OthersStep
  <2>2. CASE u = t
    BY <2>2 DEF Keeps, Finds, GivesUp
  <2> QED BY <2>1, <2>2
<1>2. \A p : Taken(p)' <=> Taken(p)
  BY <1>1 DEF Taken
<1> QED BY <1>2 DEF NoFit
---------------------------------------------------------------------------
(* The search and the loops.                                               *)

\* Whoever holds the lock and writes no bit sees every taken page in the map.
LEMMA QuietBits ==
    ASSUME IInv, NEW t \in Task, pc[t] \in {"search", "found"}
    PROVE  \A p \in Page : bits[p] <=> Taken(p)
<1>1. \A u \in Task : pc[u] \notin {"mark", "clear"}
  BY DEF IInv, Mutex, InCS
<1>2. \A u \in Task : InUse(u) = owned[u] \cup Freeing(u)
  BY <1>1 DEF InUse
<1> QED BY <1>2 DEF IInv, BitsMatch, Taken

\* While a task holds the lock, no other step takes or frees a page.
LEMMA HolderSeesStable ==
    ASSUME IInv, NEW t \in Task, Call(t) \/ Step(t),
           NEW u \in Task, u # t, InCS(u)
    PROVE  /\ \A p : Taken(p)' <=> Taken(p)
           /\ \A r, n : NoFit(r, n)' <=> NoFit(r, n)
<1>1. ~InCS(t)
  BY DEF IInv, Mutex
<1>2. ~got(t) /\ ~freed(t)
  BY <1>1 DEF InCS, got, freed, Return, Goto
<1>3. Keeps(t) \/ Finds(t) \/ GivesUp(t)
  BY <1>2, Moves DEF Gets, Frees
<1> QED BY <1>3, TakenStable

LEMMA CallOthers ==
    ASSUME IInv, NEW t \in Task, Call(t) \/ Step(t), NEW u \in Task, u # t
    PROVE  CallOK(u)'
<1>1. CallOK(u) /\ TypeOK
  BY DEF IInv
<1>2. /\ pc'[u] = pc[u] /\ count'[u] = count[u] /\ start'[u] = start[u]
      /\ idx'[u] = idx[u] /\ idx_last'[u] = idx_last[u]
      /\ Granting(u)' = Granting(u)
  BY OthersStep
<1>3. CASE InCS(u)
  <2>1. /\ \A p : Taken(p)' <=> Taken(p)
        /\ \A r, n : NoFit(r, n)' <=> NoFit(r, n)
    BY <1>3, HolderSeesStable
  <2>2. SearchOK(u)'
    BY <1>1, <1>2, <2>1 DEF SearchOK, CallOK
  <2>3. GrantOK(u)'
    BY <1>1, <1>2, <2>1 DEF GrantOK, CallOK
  <2>4. FreeOK(u)'
    BY <1>1, <1>2 DEF FreeOK, CallOK
  <2> QED BY <1>1, <1>2, <2>2, <2>3, <2>4 DEF CallOK
<1>4. CASE ~InCS(u)
  BY <1>1, <1>2, <1>4 DEF InCS, CallOK, SearchOK, GrantOK, FreeOK
<1> QED BY <1>3, <1>4

\* One iteration of the search.
LEMMA SearchStep ==
    ASSUME IInv, NEW t \in Task, search(t)
    PROVE  CallOK(t)'
<1> DEFINE base == idx_last[t] - count[t]
<1>1. /\ TypeOK /\ CallOK(t) /\ pc[t] = "search" /\ more(t) /\ N \in Nat /\ Size \in Nat
      /\ count[t] \in Nat /\ idx[t] \in Nat /\ idx_last[t] \in Nat
      /\ count[t] > 0 /\ count'[t] = count[t] /\ idx'[t] = idx[t] + 1
  BY PoolAssumption DEF IInv, TypeOK, CallOK, search
<1>2. /\ count[t] <= idx_last[t] /\ idx_last[t] <= N /\ idx[t] < N
      /\ base <= idx[t] /\ idx[t] < idx_last[t] /\ base \in Nat
      /\ \A p \in base .. idx[t] - 1 : ~Taken(p)
      /\ \A r \in 0 .. base - 1 : NoFit(r, count[t])
  BY <1>1 DEF CallOK, SearchOK, more
<1>3. Keeps(t) \/ Finds(t)
  BY <1>1, Moves DEF Step, Gets, GivesUp, Frees, got, freed, Return, Goto
<1>4. /\ \A p : Taken(p)' <=> Taken(p)
      /\ \A r, n : NoFit(r, n)' <=> NoFit(r, n)
  BY <1>3, TakenStable DEF Step
<1>5. idx[t] \in Page /\ (bits[idx[t]] <=> Taken(idx[t]))
  BY <1>1, <1>2, QuietBits DEF Page
<1>6. CASE bits[idx[t]]
  <2>1. pc'[t] = "search" /\ idx_last'[t] = idx[t] + 1 + count[t]
    <3>1. idx_last' = [idx_last EXCEPT ![t] = restart(t)] /\ pc' = pc
      BY <1>6 DEF search
    <3>2. restart(t) = idx[t] + 1 + count[t]
      BY <1>1, <1>2, RestartNoWrap
    <3> QED BY <1>1, <3>1, <3>2 DEF TypeOK
  <2>2. ASSUME NEW r \in 0 .. idx[t] PROVE NoFit(r, count[t])
    <3>1. CASE r < base
      BY <1>2, <3>1
    <3>2. CASE base <= r
      BY <1>1, <1>2, <1>5, <1>6, <3>2 DEF NoFit, Run
    <3> QED BY <1>2, <3>1, <3>2
  <2>3. idx_last'[t] - count'[t] = idx[t] + 1 /\ idx_last'[t] > idx'[t] /\ idx'[t] <= N
        /\ count'[t] <= idx_last'[t]
    BY <1>1, <1>2, <2>1
  <2>4. SearchOK(t)'
    BY <1>1, <1>4, <2>2, <2>3 DEF SearchOK
  <2> QED BY <1>1, <2>1, <2>4 DEF CallOK, GrantOK, FreeOK
<1>7. CASE ~bits[idx[t]] /\ idx[t] + 1 # idx_last[t]
  <2>1. pc'[t] = "search" /\ idx_last'[t] = idx_last[t]
    BY <1>1, <1>7 DEF search
  <2>2. \A p \in base .. idx[t] : ~Taken(p)
    BY <1>1, <1>2, <1>5, <1>7
  <2>3. SearchOK(t)'
    BY <1>1, <1>2, <1>4, <1>7, <2>1, <2>2 DEF SearchOK
  <2> QED BY <1>1, <2>1, <2>3 DEF CallOK, GrantOK, FreeOK
<1>8. CASE ~bits[idx[t]] /\ idx[t] + 1 = idx_last[t]
  <2>1. Finds(t)
    <3>1. pc'[t] = "found"
      BY <1>1, <1>8 DEF search, TypeOK
    <3>2. Granting(t) = {} /\ Granting(t)' = Run(start'[t], count[t])
      BY <1>1, <3>1 DEF Granting
    <3>3. start'[t] = base
      BY <1>1, <1>8 DEF search, TypeOK
    <3>4. base \in Granting(t)'
      BY <1>1, <1>2, <3>2, <3>3 DEF Run
    <3> QED BY <1>3, <3>2, <3>4 DEF Keeps
  <2>2. \A p \in base .. idx[t] : ~Taken(p)
    BY <1>1, <1>2, <1>5, <1>8
  <2>3. GrantOK(t)'
    BY <1>1, <1>2, <1>4, <2>1, <2>2 DEF Finds, GrantOK
  <2> QED BY <1>1, <2>1, <2>3 DEF Finds, CallOK, SearchOK, FreeOK
<1> QED BY <1>6, <1>7, <1>8
\* The other steps of a call.
LEMMA CallSelf ==
    ASSUME IInv, NEW t \in Task, Call(t) \/ Step(t)
    PROVE  CallOK(t)'
<1>1. /\ TypeOK /\ CallOK(t) /\ N \in Nat /\ Size \in Nat /\ 2 * N < Size
      /\ count[t] \in 0 .. Size - 1 /\ start[t] \in 0 .. Size - 1
      /\ idx[t] \in 0 .. Size - 1 /\ idx_last[t] \in 0 .. Size - 1
  BY PoolAssumption DEF IInv, TypeOK
<1>2. CASE \E n \in Counts : mm_kget_pages(t, n)
  <2>1. PICK n \in Counts : mm_kget_pages(t, n)
    BY <1>2
  <2>2. n \in 0 .. Size - 1
    BY PoolAssumption
  <2>3. pc'[t] = "user" \/ (pc'[t] = "get_lock" /\ count'[t] = n /\ n > 0)
    BY <1>1, <2>1, <2>2 DEF mm_kget_pages, TypeOK
  <2> QED BY <2>3 DEF CallOK, SearchOK, GrantOK, FreeOK
<1>3. CASE \E s \in 0 .. N, n \in Counts : mm_kfree_pages(t, s, n)
  <2>1. PICK s \in 0 .. N, n \in Counts : mm_kfree_pages(t, s, n)
    BY <1>3
  <2>2. /\ pc'[t] = "free_lock" /\ start'[t] = s /\ count'[t] = n
        /\ s < N /\ (s + n) % Size <= N
    BY <1>1, <2>1 DEF mm_kfree_pages, accepts, TypeOK
  <2>3. s \in 0 .. Size - 1 /\ n \in 0 .. Size - 1
    BY <1>1, PoolAssumption
  <2>4. s + n < Size => (s + n) % Size = s + n
    BY <2>3, SumFits
  <2>5. s + n <= N \/ Size <= s + n
    <3> DEFINE sum == (s + n) % Size
    <3>1. sum <= N /\ (s + n < Size => sum = s + n)
      BY <2>2, <2>4
    <3> HIDE DEF sum
    <3> QED BY <1>1, <2>3, <3>1
  <2> QED BY <2>2, <2>5 DEF CallOK, SearchOK, GrantOK, FreeOK
<1>4. CASE get_lock(t)
  <2>1. PICK last \in 0 .. Size - 1 :
          /\ idx_last' = [idx_last EXCEPT ![t] = last]
          /\ 0 + count[t] < Size => last = 0 + count[t]
          /\ Size <= 0 + count[t] => last = 0 + count[t] - Size
    BY <1>1, <1>4, LockStarts DEF get_lock
  <2>2. /\ pc[t] = "get_lock" /\ pc'[t] = "search" /\ count'[t] = count[t]
        /\ idx'[t] = 0 /\ idx_last'[t] = last
    BY <1>1, <1>4, <2>1 DEF get_lock, LockAndStart, Goto, TypeOK
  <2>3. count[t] > 0 /\ last = count[t]
    BY <1>1, <2>1, <2>2 DEF CallOK
  <2> QED BY <1>1, <2>2, <2>3 DEF CallOK, SearchOK, GrantOK, FreeOK
<1>5. CASE search(t)
  BY <1>5, SearchStep
<1>6. CASE fail(t) \/ got(t) \/ freed(t)
  <2>1. pc'[t] = "user"
    BY <1>1, <1>6 DEF fail, got, freed, Return, Goto, TypeOK
  <2> QED BY <2>1 DEF CallOK, SearchOK, GrantOK, FreeOK
<1>7. CASE found(t) \/ mark(t)
  <2>1. /\ pc[t] \in {"found", "mark"} /\ pc'[t] = "mark"
        /\ count'[t] = count[t] /\ start'[t] = start[t]
    BY <1>1, <1>7 DEF found, mark, WriteBit, Goto, TypeOK
  <2>2. Keeps(t)
    BY <1>1, <1>7, <2>1 DEF Keeps, found, mark, WriteBit, Freeing, Granting
  <2>3. /\ \A p : Taken(p)' <=> Taken(p)
        /\ \A r, n : NoFit(r, n)' <=> NoFit(r, n)
    BY <2>2, TakenStable
  <2>4. /\ idx_last'[t] = start[t] + count[t]
        /\ start[t] <= idx'[t] /\ idx'[t] <= start[t] + count[t]
    <3>1. CASE found(t)
      <4>1. idx' = [idx EXCEPT ![t] = start[t]]
        BY <3>1 DEF found
      <4>2. idx_last' = [idx_last EXCEPT ![t] = start[t] + count[t]]
        BY <1>1, <3>1, FoundStarts
      <4> QED BY <1>1, <4>1, <4>2 DEF TypeOK
    <3>2. CASE mark(t)
      BY <1>1, <3>2 DEF mark, WriteBit, looping, TypeOK, CallOK, GrantOK
    <3> QED BY <1>7, <3>1, <3>2
  <2>5. GrantOK(t)'
    BY <1>1, <2>1, <2>2, <2>3, <2>4 DEF GrantOK, Keeps, CallOK
  <2> QED BY <1>1, <2>1, <2>5 DEF CallOK, SearchOK, FreeOK
<1>8. CASE free_lock(t)
  <2>1. PICK last \in 0 .. Size - 1 :
          /\ idx_last' = [idx_last EXCEPT ![t] = last]
          /\ start[t] + count[t] < Size => last = start[t] + count[t]
          /\ Size <= start[t] + count[t] => last = start[t] + count[t] - Size
    BY <1>1, <1>8, LockStarts DEF free_lock
  <2>2. /\ pc[t] = "free_lock" /\ pc'[t] = "clear" /\ idx_last'[t] = last
        /\ idx'[t] = start[t] /\ start'[t] = start[t] /\ count'[t] = count[t]
    BY <1>1, <1>8, <2>1 DEF free_lock, LockAndStart, Goto, TypeOK
  <2>3. /\ start[t] < N
        /\ start[t] + count[t] <= N \/ Size <= start[t] + count[t]
    BY <1>1, <2>2 DEF CallOK, FreeOK
  <2>4. /\ start[t] + count[t] <= N => last = start[t] + count[t] /\ start[t] <= last
        /\ ~(start[t] + count[t] <= N) => last < start[t]
    BY <1>1, <2>1, <2>3, FreeEnd
  <2>5. start[t] <= start[t]
    BY <1>1
  <2>6. FreeOK(t)'
    BY <2>2, <2>3, <2>4, <2>5 DEF FreeOK
  <2> QED BY <2>2, <2>6 DEF CallOK, SearchOK, GrantOK
<1>9. CASE clear(t)
  <2>1. /\ pc[t] = "clear" /\ pc'[t] = "clear" /\ count'[t] = count[t] /\ start'[t] = start[t]
        /\ idx'[t] = idx[t] + 1 /\ idx_last'[t] = idx_last[t] /\ idx[t] < idx_last[t]
    BY <1>1, <1>9 DEF clear, WriteBit, looping, TypeOK
  <2>2. FreeOK(t)'
    BY <1>1, <2>1 DEF CallOK, FreeOK
  <2> QED BY <2>1, <2>2 DEF CallOK, SearchOK, GrantOK
<1> QED
  BY <1>2, <1>3, <1>4, <1>5, <1>6, <1>7, <1>8, <1>9 DEF Call, Step

---------------------------------------------------------------------------
(* No page is claimed twice, and the map says which are taken.             *)

LEMMA ExclusiveStep ==
    ASSUME IInv, NEW t \in Task, Call(t) \/ Step(t)
    PROVE  Exclusive'
<1>1. TypeOK /\ Exclusive /\ CallOK(t) /\ N \in Nat
  BY PoolAssumption DEF IInv
<1>2. \A u \in Task : u # t => Claim(u)' = Claim(u) /\ owned'[u] = owned[u]
                               /\ Freeing(u)' = Freeing(u) /\ Granting(u)' = Granting(u)
  BY OthersStep DEF Claim
<1>3. ASSUME NEW p \in Page, NEW u \in Task, u # t, p \in Claim(t)'
      PROVE  p \notin Claim(u)
  <2>1. CASE p \in Claim(t)
    BY <1>1, <1>3, <2>1 DEF Exclusive
  <2>2. CASE p \notin Claim(t)
    <3>1. Finds(t)
      BY <1>3, <2>2, Moves DEF Keeps, Gets, GivesUp, Frees, Claim
    <3>2. p \in idx_last[t] - count[t] .. idx[t]
      BY <1>3, <2>2, <3>1 DEF Finds, Claim
    <3>3. ~Taken(p)
      <4>1. pc[t] = "search" /\ idx[t] \in Int /\ idx_last[t] \in Int /\ count[t] \in Int
        BY <1>1, <3>1 DEF Finds, search, TypeOK
      <4>2. CASE p = idx[t]
        BY <3>1, <4>1, <4>2, QuietBits DEF Finds
      <4>3. CASE p # idx[t]
        BY <1>1, <3>2, <4>1, <4>3 DEF CallOK, SearchOK, Page
      <4> QED BY <4>2, <4>3
    <3>4. Granting(u) = {}
      BY <1>3, <3>1 DEF IInv, Mutex, InCS, Finds, search, Granting
    <3> QED BY <3>3, <3>4 DEF Taken, Claim
  <2> QED BY <2>1, <2>2
<1>4. ASSUME NEW p \in Page, p \in owned'[t]
      PROVE  p \notin Freeing(t)' /\ p \notin Granting(t)'
  <2>1. CASE Keeps(t)
    BY <1>1, <1>4, <2>1 DEF Keeps, Exclusive
  <2>2. CASE Finds(t)
    <3>1. p \notin Granting(t)' <=> p \notin idx_last[t] - count[t] .. idx[t]
      BY <2>2 DEF Finds
    <3>2. Taken(p)
      BY <1>4, <2>2 DEF Finds, Taken
    <3>3. /\ pc[t] = "search" /\ ~bits[idx[t]]
          /\ idx[t] \in Int /\ idx_last[t] \in Int /\ count[t] \in Int
      BY <1>1, <2>2 DEF Finds, search, TypeOK
    <3>4. p # idx[t]
      BY <3>2, <3>3, QuietBits
    <3>5. p \notin idx_last[t] - count[t] .. idx[t]
      BY <1>1, <3>2, <3>3, <3>4 DEF CallOK, SearchOK, Page
    <3> QED BY <2>2, <3>1, <3>5 DEF Finds
  <2>3. CASE Gets(t) \/ GivesUp(t) \/ Frees(t)
    BY <1>4, <2>3 DEF Gets, GivesUp, Frees
  <2> QED BY <2>1, <2>2, <2>3, Moves
<1>5. ASSUME NEW p \in Page, NEW u \in Task
      PROVE  /\ \A v \in Task : u # v /\ p \in Claim(u)' => p \notin Claim(v)'
             /\ p \in owned'[u] => p \notin Freeing(u)' /\ p \notin Granting(u)'
  <2>1. CASE u = t
    BY <1>2, <1>3, <1>4, <2>1
  <2>2. CASE u # t
    <3>1. p \in owned'[u] => p \notin Freeing(u)' /\ p \notin Granting(u)'
      BY <1>1, <1>2, <2>2 DEF Exclusive
    <3>2. ASSUME NEW v \in Task, u # v, p \in Claim(u)' PROVE p \notin Claim(v)'
      BY <1>1, <1>2, <1>3, <2>2, <3>2 DEF Exclusive
    <3> QED BY <3>1, <3>2
  <2> QED BY <2>1, <2>2
<1>6. Page' = Page
  BY DEF Page
<1> QED BY <1>5, <1>6 DEF Exclusive
\* Only the loops change which of t's pages have their bit set.
LEMMA InUseStable ==
    ASSUME IInv, NEW t \in Task, Call(t) \/ Step(t), ~mark(t), ~clear(t)
    PROVE  InUse(t)' = InUse(t) /\ bits' = bits
<1>1. /\ TypeOK /\ CallOK(t) /\ N \in Nat
      /\ count[t] \in Int /\ start[t] \in Int /\ idx[t] \in Int /\ idx_last[t] \in Int
  BY PoolAssumption DEF IInv, TypeOK
<1>2. CASE Call(t)
  <2>1. pc[t] = "user" /\ pc'[t] \in {"user", "get_lock", "free_lock"} /\ bits' = bits
    BY <1>1, <1>2 DEF Call, mm_kget_pages, mm_kfree_pages, TypeOK
  <2>2. InUse(t) = owned[t] \cup Freeing(t) /\ InUse(t)' = owned'[t] \cup Freeing(t)'
    BY <2>1 DEF InUse
  <2>3. Keeps(t) \/ GivesUp(t)
    BY <2>1, Moves DEF Finds, search, Gets, got, Frees, freed, Return, Goto
  <2> QED BY <2>1, <2>2, <2>3 DEF Keeps, GivesUp
<1>3. CASE get_lock(t) \/ search(t) \/ fail(t)
  <2>1. /\ pc[t] \in {"get_lock", "search"} /\ pc'[t] \in {"search", "found", "user"}
        /\ bits' = bits
    BY <1>1, <1>3 DEF get_lock, search, fail, LockAndStart, Return, Goto, TypeOK
  <2>2. InUse(t) = owned[t] \cup Freeing(t) /\ InUse(t)' = owned'[t] \cup Freeing(t)'
    BY <2>1 DEF InUse
  <2>3. Keeps(t) \/ Finds(t)
    BY <2>1, Moves DEF Gets, got, GivesUp, Frees, freed, Return, Goto
  <2> QED BY <2>1, <2>2, <2>3 DEF Keeps, Finds
<1>4. CASE found(t)
  <2>1. /\ pc[t] = "found" /\ pc'[t] = "mark" /\ idx'[t] = start[t] /\ start'[t] = start[t]
        /\ owned'[t] = owned[t] /\ bits' = bits
    BY <1>1, <1>4 DEF found, Goto, TypeOK
  <2>2. Freeing(t) = {} /\ Written(t)' = start[t] .. start[t] - 1
    BY <2>1 DEF Freeing, Written
  <2>3. InUse(t) = owned[t] \cup {} /\ InUse(t)' = owned[t] \cup Written(t)'
    BY <2>1, <2>2 DEF InUse
  <2>4. start[t] .. start[t] - 1 = {}
    BY <1>1
  <2> QED BY <2>1, <2>2, <2>3, <2>4
<1>5. CASE got(t)
  <2>1. /\ pc[t] = "mark" /\ pc'[t] = "user" /\ bits' = bits
        /\ owned'[t] = owned[t] \cup Run(start[t], count[t]) /\ ~looping(t)
    BY <1>1, <1>5 DEF got, Return, Goto, TypeOK
  <2>2. idx[t] = start[t] + count[t]
    BY <1>1, <2>1 DEF looping, CallOK, GrantOK
  <2>3. Written(t) = Run(start[t], count[t]) /\ Freeing(t)' = {}
    <3>1. Written(t) = start[t] .. idx[t] - 1 /\ Freeing(t)' = {}
      BY <2>1 DEF Written, Freeing
    <3>2. idx[t] - 1 = start[t] + count[t] - 1
      BY <1>1, <2>2
    <3> QED BY <3>1, <3>2, Zenon DEF Run
  <2>4. InUse(t) = owned[t] \cup Written(t) /\ InUse(t)' = owned'[t] \cup Freeing(t)'
    BY <2>1 DEF InUse
  <2> QED BY <2>1, <2>3, <2>4
<1>6. CASE free_lock(t)
  <2>1. /\ pc[t] = "free_lock" /\ pc'[t] = "clear" /\ idx'[t] = start[t]
        /\ start'[t] = start[t] /\ owned'[t] = owned[t] /\ bits' = bits
        /\ Freeing(t)' = Freeing(t)
    BY <1>1, <1>6 DEF free_lock, LockAndStart, Goto, TypeOK, Freeing
  <2>2. Written(t)' = {}
    BY <1>1, <2>1 DEF Written
  <2>3. /\ InUse(t) = owned[t] \cup Freeing(t)
        /\ InUse(t)' = owned[t] \cup (Freeing(t) \ Written(t)')
    BY <2>1 DEF InUse
  <2> QED BY <2>1, <2>2, <2>3
<1>7. CASE freed(t)
  <2>1. /\ pc[t] = "clear" /\ pc'[t] = "user" /\ bits' = bits
        /\ owned'[t] = owned[t] /\ ~looping(t) /\ Freeing(t)' = {}
    BY <1>1, <1>7 DEF freed, Return, Goto, TypeOK, Freeing
  <2>2. Freeing(t) \subseteq Written(t)
    <3>1. CASE start[t] + count[t] <= N
      BY <1>1, <2>1, <3>1 DEF looping, CallOK, FreeOK, Freeing, Written, Run
    <3>2. CASE ~(start[t] + count[t] <= N)
      BY <3>2 DEF Freeing
    <3> QED BY <3>1, <3>2
  <2>3. /\ InUse(t) = owned[t] \cup (Freeing(t) \ Written(t))
        /\ InUse(t)' = owned'[t] \cup Freeing(t)'
    BY <2>1 DEF InUse
  <2> QED BY <2>1, <2>2, <2>3
<1> QED
  BY <1>2, <1>3, <1>4, <1>5, <1>6, <1>7 DEF Step

LEMMA BitsStep ==
    ASSUME IInv, NEW t \in Task, Call(t) \/ Step(t)
    PROVE  BitsMatch'
<1>1. /\ TypeOK /\ CallOK(t) /\ Exclusive /\ BitsMatch /\ N \in Nat
      /\ count[t] \in Int /\ start[t] \in Int /\ idx[t] \in Nat /\ idx_last[t] \in Int
  BY PoolAssumption DEF IInv, TypeOK
<1>2. \A u \in Task : u # t => InUse(u)' = InUse(u)
  BY OthersStep
<1>3. CASE ~mark(t) /\ ~clear(t)
  <2>1. \A u \in Task : InUse(u)' = InUse(u)
    BY <1>2, <1>3, InUseStable
  <2>2. bits' = bits
    BY <1>3, InUseStable
  <2> QED BY <1>1, <2>1, <2>2 DEF BitsMatch, Page
<1>4. CASE mark(t)
  <2>1. /\ pc[t] = "mark" /\ pc'[t] = "mark" /\ idx'[t] = idx[t] + 1 /\ start'[t] = start[t]
        /\ owned'[t] = owned[t] /\ looping(t) /\ bits' = [bits EXCEPT ![idx[t]] = TRUE]
    BY <1>1, <1>4 DEF mark, WriteBit, TypeOK
  <2>2. start[t] <= idx[t] /\ idx[t] \in Page
    BY <1>1, <2>1 DEF looping, CallOK, GrantOK, Page
  <2>3. Written(t)' = Written(t) \cup {idx[t]}
    BY <1>1, <2>1, <2>2 DEF Written
  <2>4. InUse(t) = owned[t] \cup Written(t) /\ InUse(t)' = owned[t] \cup Written(t)'
    BY <2>1 DEF InUse
  <2>5. \A p \in Page : bits'[p] <=> p = idx[t] \/ bits[p]
    BY <1>1, <2>1, <2>2 DEF TypeOK
  <2>6. ASSUME NEW p \in Page PROVE bits'[p] <=> \E u \in Task : p \in InUse(u)'
    <3>1. CASE p = idx[t]
      BY <2>3, <2>4, <2>5, <3>1
    <3>2. CASE p # idx[t]
      <4>1. \A u \in Task : p \in InUse(u)' <=> p \in InUse(u)
        BY <1>2, <2>3, <2>4, <3>2
      <4> QED BY <1>1, <2>5, <3>2, <4>1 DEF BitsMatch
    <3> QED BY <3>1, <3>2
  <2> QED BY <2>6 DEF BitsMatch, Page
<1>5. CASE clear(t)
  <2>1. /\ pc[t] = "clear" /\ pc'[t] = "clear" /\ idx'[t] = idx[t] + 1 /\ start'[t] = start[t]
        /\ owned'[t] = owned[t] /\ looping(t) /\ bits' = [bits EXCEPT ![idx[t]] = FALSE]
        /\ Freeing(t)' = Freeing(t)
    BY <1>1, <1>5 DEF clear, WriteBit, TypeOK, Freeing
  <2>2. /\ start[t] <= idx[t] /\ idx[t] \in Page /\ start[t] + count[t] <= N
        /\ idx[t] < start[t] + count[t]
    BY <1>1, <2>1 DEF looping, CallOK, FreeOK, Page
  <2>3. Written(t)' = Written(t) \cup {idx[t]} /\ idx[t] \in Freeing(t)
    BY <1>1, <2>1, <2>2 DEF Written, Freeing, Run
  <2>4. /\ InUse(t) = owned[t] \cup (Freeing(t) \ Written(t))
        /\ InUse(t)' = owned[t] \cup (Freeing(t) \ Written(t)')
    BY <2>1 DEF InUse
  <2>5. \A p \in Page : bits'[p] <=> p # idx[t] /\ bits[p]
    BY <1>1, <2>1, <2>2 DEF TypeOK
  <2>6. ASSUME NEW u \in Task PROVE idx[t] \notin InUse(u)'
    <3>1. CASE u = t
      BY <1>1, <2>2, <2>3, <2>4, <3>1 DEF Exclusive
    <3>2. CASE u # t
      <4>1. InUse(u) = owned[u] \cup Freeing(u)
        BY <2>1, <3>2 DEF IInv, Mutex, InCS, InUse
      <4>2. idx[t] \in Claim(t) => idx[t] \notin Claim(u)
        BY <1>1, <2>2, <3>2 DEF Exclusive
      <4> QED BY <1>2, <2>3, <3>2, <4>1, <4>2 DEF Claim
    <3> QED BY <3>1, <3>2
  <2>7. ASSUME NEW p \in Page PROVE bits'[p] <=> \E u \in Task : p \in InUse(u)'
    <3>1. CASE p = idx[t]
      BY <2>5, <2>6, <3>1
    <3>2. CASE p # idx[t]
      <4>1. \A u \in Task : p \in InUse(u)' <=> p \in InUse(u)
        BY <1>2, <2>3, <2>4, <3>2
      <4> QED BY <1>1, <2>5, <3>2, <4>1 DEF BitsMatch
    <3> QED BY <3>1, <3>2
  <2> QED BY <2>7 DEF BitsMatch, Page
<1> QED BY <1>3, <1>4, <1>5

---------------------------------------------------------------------------
(* The theorems.                                                           *)

THEOREM Invariant == Spec => []IInv
<1>1. ASSUME IInv, [Next]_vars PROVE IInv'
  <2>1. CASE UNCHANGED vars
    BY <1>1, <2>1 DEF vars, IInv, TypeOK, Mutex, InCS, CallOK, SearchOK, GrantOK, FreeOK,
       Exclusive, BitsMatch, Claim, Freeing, Granting, InUse, Written, Taken, NoFit,
       Page, Run
  <2>2. ASSUME NEW t \in Task, Call(t) \/ Step(t) PROVE IInv'
    <3>1. TypeOK' /\ Mutex' /\ Exclusive' /\ BitsMatch'
      BY <1>1, <2>2, TypeStep, MutexStep, ExclusiveStep, BitsStep
    <3>2. \A u \in Task : CallOK(u)'
      BY <1>1, <2>2, CallSelf, CallOthers
    <3> QED BY <3>1, <3>2 DEF IInv
  <2> QED BY <1>1, <2>1, <2>2 DEF Next
<1> QED BY InitInv, <1>1, PTL DEF Spec

\* Every variable keeps its kind: no sum of the page pool leaves the range of
\* size_t unnoticed and no task gets a page the pool does not have.
THEOREM TypeCorrect == Spec => []TypeOK
<1>1. IInv => TypeOK
  BY DEF IInv
<1> QED BY Invariant, <1>1, PTL

\* mm_kget_pages never hands out a page that somebody has.
THEOREM PagesExclusive == Spec => []NoSharedPage
<1>1. ASSUME IInv PROVE NoSharedPage
  <2>1. \A t \in Task : Claim(t) \subseteq Page
    <3> SUFFICES ASSUME NEW t \in Task PROVE Claim(t) \subseteq Page
      OBVIOUS
    <3>1. /\ TypeOK /\ CallOK(t) /\ N \in Nat
          /\ start[t] \in Nat /\ count[t] \in Nat /\ owned[t] \subseteq Page
      BY <1>1, PoolAssumption DEF IInv, TypeOK
    <3>2. Freeing(t) \subseteq Page
      BY <3>1 DEF Freeing, Run, Page
    <3>3. Granting(t) \subseteq Page
      BY <3>1 DEF Granting, CallOK, GrantOK, Run, Page
    <3> QED BY <3>1, <3>2, <3>3 DEF Claim
  <2>2. ASSUME NEW t \in Task, NEW u \in Task, t # u PROVE Claim(t) \cap Claim(u) = {}
    BY <1>1, <2>1, <2>2 DEF IInv, Exclusive
  <2>3. ASSUME NEW t \in Task PROVE owned[t] \cap Granting(t) = {}
    BY <1>1, <2>1 DEF IInv, Exclusive, Claim
  <2> QED BY <2>2, <2>3 DEF NoSharedPage
<1> QED BY Invariant, <1>1, PTL

\* The bit of a page is set exactly while a task has the page.
THEOREM MapCorrect == Spec => []BitsMatch
<1>1. IInv => BitsMatch
  BY DEF IInv
<1> QED BY Invariant, <1>1, PTL
---------------------------------------------------------------------------
(* The page pool implements module PageAllocator.                          *)

LEMMA AllocatorFits ==
    ASSUME IInv, NEW s \in Int, NEW n \in Int
    PROVE  Allocator!Fits(s, n) <=> ~NoFit(s, n)
<1>1. \A p : p \in Allocator!Taken <=> Taken(p)
  BY DEF Allocator!Taken, Taken, freeing
<1>2. Allocator!Run(s, n) = Run(s, n) /\ N \in Nat
  BY PoolAssumption DEF Allocator!Run, Run
<1>3. s + n <= N <=> ~(s + n > N)
  BY <1>2
<1> QED BY <1>1, <1>2, <1>3 DEF Allocator!Fits, NoFit

\* A search that runs off the pool has seen that no run fits.
LEMMA SearchFails ==
    ASSUME IInv, NEW t \in Task, fail(t)
    PROVE  Allocator!Refuse(t)
<1>1. /\ TypeOK /\ CallOK(t) /\ N \in Nat /\ pc[t] = "search" /\ ~more(t)
      /\ count[t] \in Nat /\ idx[t] \in Nat /\ idx_last[t] \in Nat
  BY PoolAssumption DEF IInv, TypeOK, fail, Return, Goto
<1>2. /\ \A r \in 0 .. idx_last[t] - count[t] - 1 : NoFit(r, count[t])
      /\ idx[t] < idx_last[t]
  BY <1>1 DEF CallOK, SearchOK
<1>3. idx_last[t] > N
  BY <1>1, <1>2 DEF more
<1>4. ASSUME NEW r \in Page PROVE ~Allocator!Fits(r, count[t])
  <2>1. CASE r < idx_last[t] - count[t]
    <3>1. r \in 0 .. idx_last[t] - count[t] - 1
      BY <1>1, <2>1 DEF Page
    <3>2. NoFit(r, count[t])
      BY <1>2, <3>1
    <3>3. r \in Int /\ count[t] \in Int
      BY <1>1 DEF Page
    <3> QED BY <3>2, <3>3, AllocatorFits
  <2>2. CASE ~(r < idx_last[t] - count[t])
    <3>1. r + count[t] > N
      BY <1>1, <1>3, <2>2 DEF Page
    <3> QED BY <1>1, <3>1, AllocatorFits DEF NoFit, Page
  <2> QED BY <2>1, <2>2
<1>5. /\ pc' = [pc EXCEPT ![t] = "user"] /\ ret' = [ret EXCEPT ![t] = NULL]
      /\ owned' = owned /\ count' = [count EXCEPT ![t] = 0]
  BY DEF fail, Return, Goto
<1>6. freeing' = freeing
  <2>1. Freeing(t) = {} /\ Freeing(t)' = {}
    BY <1>1, <1>5 DEF Freeing, TypeOK
  <2> QED BY <2>1, OthersStep DEF freeing, Step
<1>7. wanted' = [wanted EXCEPT ![t] = 0]
  BY <1>1, <1>5 DEF wanted, TypeOK
<1>8. wanted[t] = count[t]
  BY <1>1 DEF wanted
<1>9. Allocator!Page = Page
  BY DEF Allocator!Page, Page
<1> QED BY <1>4, <1>5, <1>6, <1>7, <1>8, <1>9 DEF Allocator!Refuse

\* The run that is returned is the first that fits.
LEMMA GetGrants ==
    ASSUME IInv, NEW t \in Task, got(t)
    PROVE  \E s \in Page : Allocator!Grant(t, s)
<1>1. /\ TypeOK /\ CallOK(t) /\ N \in Nat /\ pc[t] = "mark"
      /\ count[t] \in Nat /\ count[t] > 0 /\ start[t] \in Nat
  BY PoolAssumption DEF IInv, TypeOK, CallOK, got, Return, Goto
<1>2. /\ start[t] + count[t] <= N /\ start[t] \in Page
      /\ \A p \in Run(start[t], count[t]) : ~Taken(p)
      /\ \A r \in 0 .. start[t] - 1 : NoFit(r, count[t])
  BY <1>1 DEF CallOK, GrantOK, Granting, Page
<1>3. Allocator!FirstFit(start[t], count[t])
  <2>1. ~NoFit(start[t], count[t])
    BY <1>1, <1>2 DEF NoFit
  <2>2. Allocator!Fits(start[t], count[t])
    BY <1>1, <2>1, AllocatorFits
  <2>3. \A r \in 0 .. start[t] - 1 : ~Allocator!Fits(r, count[t])
    BY <1>1, <1>2, AllocatorFits
  <2> QED BY <2>2, <2>3 DEF Allocator!FirstFit
<1>4. /\ pc' = [pc EXCEPT ![t] = "user"] /\ ret' = [ret EXCEPT ![t] = start[t]]
      /\ owned' = [owned EXCEPT ![t] = @ \cup Run(start[t], count[t])]
  BY DEF got, Return, Goto
<1>5. freeing' = freeing
  <2>1. Freeing(t) = {} /\ Freeing(t)' = {}
    BY <1>1, <1>4 DEF Freeing, TypeOK
  <2> QED BY <2>1, OthersStep DEF freeing, Step
<1>6. wanted' = [wanted EXCEPT ![t] = 0]
  <2>1. count' = [count EXCEPT ![t] = 0]
    BY DEF got, Return
  <2> QED BY <1>1, <1>4, <2>1 DEF wanted, TypeOK
<1>7. wanted[t] = count[t] /\ wanted[t] # 0
  BY <1>1 DEF wanted
<1>8. Allocator!Run(start[t], count[t]) = Run(start[t], count[t])
  BY DEF Allocator!Run, Run
<1> QED BY <1>2, <1>3, <1>4, <1>5, <1>6, <1>7, <1>8 DEF Allocator!Grant

LEMMA CallAsks ==
    ASSUME IInv, NEW t \in Task, Call(t)
    PROVE  \/ Allocator!Refuse(t)
           \/ \E n \in Counts \ {0} : Allocator!Ask(t, n)
           \/ \E s \in Page, n \in Counts : Allocator!GiveUp(t, s, n)
           \/ UNCHANGED <<owned, freeing, wanted, ret>>
<1>1. TypeOK /\ N \in Nat
  BY PoolAssumption DEF IInv
<1>2. CASE \E n \in Counts : mm_kget_pages(t, n)
  <2>1. PICK n \in Counts : mm_kget_pages(t, n)
    BY <1>2
  <2>2. /\ pc[t] = "user" /\ owned' = owned
        /\ wanted[t] = 0 /\ Freeing(t) = {} /\ freeing[t] = {}
    BY <2>1 DEF mm_kget_pages, wanted, Freeing, freeing
  <2>3. freeing' = freeing
    <3>1. Freeing(t)' = {}
      BY <1>1, <2>1, <2>2 DEF mm_kget_pages, Freeing, TypeOK
    <3> QED BY <2>2, <3>1, OthersStep DEF freeing
  <2>4. CASE n = 0
    <3>1. ret' = [ret EXCEPT ![t] = NULL] /\ pc' = pc /\ count' = count
      BY <2>1, <2>4 DEF mm_kget_pages
    <3>2. wanted' = [wanted EXCEPT ![t] = 0]
      BY <2>2, <3>1 DEF wanted
    <3> QED BY <2>2, <2>3, <3>1, <3>2 DEF Allocator!Refuse
  <2>5. CASE n # 0
    <3>1. /\ ret' = ret /\ pc' = [pc EXCEPT ![t] = "get_lock"]
          /\ count' = [count EXCEPT ![t] = n]
      BY <2>1, <2>5 DEF mm_kget_pages
    <3>2. wanted' = [wanted EXCEPT ![t] = n]
      BY <1>1, <3>1 DEF wanted, TypeOK
    <3>3. Allocator!Ask(t, n)
      BY <2>2, <2>3, <3>1, <3>2 DEF Allocator!Ask
    <3> QED BY <2>5, <3>3
  <2> QED BY <2>4, <2>5
<1>3. CASE \E s \in 0 .. N, n \in Counts : mm_kfree_pages(t, s, n)
  <2>1. PICK s \in 0 .. N, n \in Counts : mm_kfree_pages(t, s, n)
    BY <1>3
  <2>2. /\ pc[t] = "user" /\ ret' = ret /\ s < N
        /\ s + n <= N => Run(s, n) \subseteq owned[t]
        /\ pc' = [pc EXCEPT ![t] = "free_lock"]
        /\ count' = [count EXCEPT ![t] = n] /\ start' = [start EXCEPT ![t] = s]
        /\ owned' = [owned EXCEPT ![t] = IF s + n <= N THEN @ \ Run(s, n) ELSE @]
    BY <2>1 DEF mm_kfree_pages, accepts
  <2>3. wanted[t] = 0 /\ freeing[t] = {} /\ Freeing(t) = {} /\ wanted' = wanted
    BY <1>1, <2>2 DEF wanted, Freeing, freeing, TypeOK
  <2>4. Freeing(t)' = IF s + n <= N THEN Run(s, n) ELSE {}
    <3>1. pc'[t] = "free_lock" /\ start'[t] = s /\ count'[t] = n
      BY <1>1, <2>2 DEF TypeOK
    <3> QED BY <3>1 DEF Freeing
  <2>5. freeing' = [freeing EXCEPT ![t] = Freeing(t)']
    BY OthersStep DEF freeing
  <2>6. CASE s + n <= N
    <3>1. s \in Page /\ Allocator!Run(s, n) = Run(s, n)
      BY <2>2, PoolAssumption DEF Page, Run, Allocator!Run
    <3>2. Allocator!GiveUp(t, s, n)
      BY <2>2, <2>3, <2>4, <2>5, <2>6, <3>1 DEF Allocator!GiveUp
    <3> QED BY <3>1, <3>2
  <2>7. CASE ~(s + n <= N)
    <3>1. owned' = owned
      BY <1>1, <2>2, <2>7 DEF TypeOK
    <3>2. freeing' = freeing
      BY <2>3, <2>4, <2>5, <2>7 DEF freeing
    <3> QED BY <2>2, <2>3, <3>1, <3>2
  <2> QED BY <2>6, <2>7
<1> QED BY <1>2, <1>3 DEF Call
\* What remains of a call neither takes nor frees a page.
LEMMA InsideCall ==
    ASSUME IInv, NEW t \in Task,
           get_lock(t) \/ search(t) \/ found(t) \/ mark(t) \/ free_lock(t) \/ clear(t)
    PROVE  UNCHANGED <<owned, freeing, wanted, ret>>
<1>1. TypeOK
  BY DEF IInv
<1>2. /\ owned' = owned /\ ret' = ret /\ count' = count
  BY DEF get_lock, free_lock, LockAndStart, search, found, mark, clear, WriteBit
<1>3. Keeps(t) \/ Finds(t)
  BY Moves DEF Step, Gets, GivesUp, Frees, got, freed, get_lock, free_lock, search, found,
     mark, clear, WriteBit, Return, Goto
<1>4. freeing' = freeing
  <2>1. Freeing(t)' = Freeing(t)
    BY <1>3 DEF Keeps, Finds
  <2> QED BY <2>1, OthersStep DEF freeing, Step
<1>5. wanted' = wanted
  <2>1. \/ {pc[t], pc'[t]} \subseteq {"get_lock", "search", "found", "mark"}
        \/ {pc[t], pc'[t]} \subseteq {"free_lock", "clear"}
    BY <1>1 DEF get_lock, free_lock, search, found, mark, clear, WriteBit, Goto, TypeOK
  <2>2. \A u \in Task : u # t => pc'[u] = pc[u]
    BY OthersStep DEF Step
  <2> QED BY <1>2, <2>1, <2>2 DEF wanted
<1> QED BY <1>2, <1>4, <1>5

LEMMA FreeReleases ==
    ASSUME IInv, NEW t \in Task, freed(t)
    PROVE  Allocator!Release(t)
<1>1. TypeOK
  BY DEF IInv
<1>2. /\ owned' = owned /\ ret' = ret /\ pc' = [pc EXCEPT ![t] = "user"] /\ pc[t] = "clear"
      /\ count' = [count EXCEPT ![t] = 0]
  BY DEF freed, Return, Goto
<1>3. Freeing(t)' = {}
  BY <1>1, <1>2 DEF Freeing, TypeOK
<1>4. freeing' = [freeing EXCEPT ![t] = {}]
  BY <1>3, OthersStep DEF freeing, Step
<1>5. wanted' = wanted
  BY <1>1, <1>2 DEF wanted, TypeOK
<1> QED BY <1>2, <1>4, <1>5 DEF Allocator!Release

\* Whatever the interleaving, mm_kget_pages and mm_kfree_pages behave as the
\* atomic allocator: first fit, refusal only when nothing fits, and frees that
\* give back exactly the pages passed.
THEOREM ImplementsAllocator == Spec => AllocatorSpec
<1>1. Init => Allocator!Init
  BY DEF Init, Allocator!Init, freeing, wanted, Freeing
<1>2. ASSUME IInv, [Next]_vars
      PROVE  [Allocator!Next]_<<owned, freeing, wanted, ret>>
  <2>1. CASE UNCHANGED vars
    BY <2>1 DEF vars, freeing, wanted, Freeing
  <2>2. ASSUME NEW t \in Task, Call(t) \/ Step(t)
        PROVE  [Allocator!Next]_<<owned, freeing, wanted, ret>>
    <3>1. CASE Call(t)
      BY <1>2, <3>1, CallAsks DEF Allocator!Next, Allocator!Page, Page
    <3>2. CASE fail(t)
      BY <1>2, <3>2, SearchFails DEF Allocator!Next
    <3>3. CASE got(t)
      BY <1>2, <3>3, GetGrants DEF Allocator!Next, Allocator!Page, Page
    <3>4. CASE freed(t)
      BY <1>2, <3>4, FreeReleases DEF Allocator!Next
    <3>5. CASE get_lock(t) \/ search(t) \/ found(t) \/ mark(t) \/ free_lock(t) \/ clear(t)
      BY <1>2, <3>5, InsideCall
    <3> QED BY <2>2, <3>1, <3>2, <3>3, <3>4, <3>5 DEF Step
  <2> QED BY <1>2, <2>1, <2>2 DEF Next
<1> QED BY <1>1, <1>2, Invariant, PTL DEF Spec, AllocatorSpec, Allocator!Spec
=============================================================================
