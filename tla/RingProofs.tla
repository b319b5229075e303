----------------------------- MODULE RingProofs -----------------------------
(***************************************************************************)
(* The lists of the kernel under workloads like the one it boots with:     *)
(* MainAlone, in which main is the only task that waits or exits.  Without *)
(* that hypothesis the theorems are false, as run workers_rings shows: a   *)
(* task that schedule has chosen may suspend before it is dispatched.      *)
(*                                                                         *)
(* Every other task is in the ready list, or was never put there.  Where   *)
(* main is follows from the statement it is at, and from the statement of  *)
(* whoever has taken it from a wait list to wake it.                       *)
(***************************************************************************)
EXTENDS KernelProofs, FiniteSetTheorems

---------------------------------------------------------------------------
(* Rings.  Around(r, h) is the ring through h with its head.               *)

Around(r, h) == Members(r, h) \cup {h}

Ring(r, h) ==
    \A n \in Around(r, h) : /\ r.next[n] \in Around(r, h) /\ r.prev[n] \in Around(r, h)
                            /\ r.prev[r.next[n]] = n /\ r.next[r.prev[n]] = n

\* The ready list and the wait lists are rings of tasks that share none.
Rings(r) ==
    /\ \A h \in Head_ : Ring(r, h) /\ Members(r, h) \subseteq Task
    /\ \A g, h \in Head_ : g # h => Members(r, g) \cap Members(r, h) = {}

LEMMA LeastLap ==
    ASSUME NEW r \in Heap, NEW h \in Node
    PROVE  /\ Around(r, h) \subseteq Node /\ h \in Around(r, h)
           /\ \A n \in Around(r, h) : r.next[n] \in Node => r.next[n] \in Around(r, h)
           /\ \A W \in SUBSET Node :
                 h \in W /\ (\A n \in W : r.next[n] \in Node => r.next[n] \in W)
                 => Around(r, h) \subseteq W
<1>1. DOMAIN r.next = Node
  BY DEF Heap
<1>2. \A W \in SUBSET Node :
         Lap(r, h, W) <=> h \in W /\ \A n \in W : r.next[n] \in Node => r.next[n] \in W
  BY <1>1 DEF Lap
<1>3. \A n : n \in Members(r, h) <=> /\ n \in Node /\ n # h
                                     /\ \A W \in SUBSET Node : Lap(r, h, W) => n \in W
  BY <1>1 DEF Members
<1>4. \A n : n \in Around(r, h) <=> /\ n \in Node
                                    /\ \A W \in SUBSET Node : Lap(r, h, W) => n \in W
  BY <1>2, <1>3 DEF Around
<1>5. ASSUME NEW n \in Around(r, h), r.next[n] \in Node PROVE r.next[n] \in Around(r, h)
  BY <1>2, <1>4, <1>5
<1> QED BY <1>2, <1>3, <1>4, <1>5 DEF Around

LEMMA MembersAround ==
    ASSUME NEW r \in Heap, NEW h \in Node
    PROVE  h \notin Members(r, h) /\ Members(r, h) = Around(r, h) \ {h}
<1>1. h \notin Members(r, h)
  BY DEF Members
<1> QED BY <1>1 DEF Around

\* A ring is a matter of its own pointers.
LEMMA SameRing ==
    ASSUME NEW r \in Heap, NEW s \in Heap, NEW h \in Node, Ring(r, h),
           \A n \in Around(r, h) : s.next[n] = r.next[n] /\ s.prev[n] = r.prev[n]
    PROVE  Ring(s, h) /\ Around(s, h) = Around(r, h) /\ Members(s, h) = Members(r, h)
<1> DEFINE A == Around(r, h)
           B == Around(s, h)
<1>1. /\ A \subseteq Node /\ h \in A
      /\ \A n \in A : r.next[n] \in Node => r.next[n] \in A
      /\ \A W \in SUBSET Node :
            h \in W /\ (\A n \in W : r.next[n] \in Node => r.next[n] \in W) => A \subseteq W
  BY LeastLap, Zenon
<1>2. /\ B \subseteq Node /\ h \in B
      /\ \A n \in B : s.next[n] \in Node => s.next[n] \in B
      /\ \A W \in SUBSET Node :
            h \in W /\ (\A n \in W : s.next[n] \in Node => s.next[n] \in W) => B \subseteq W
  BY LeastLap, Zenon
<1>3. B \subseteq A
  <2>1. \A n \in A : s.next[n] \in Node => s.next[n] \in A
    BY <1>1
  <2> QED BY <1>1, <1>2, <2>1, Zenon
<1>4. A \subseteq B
  <2>1. \A n \in B : r.next[n] \in Node => r.next[n] \in B
    BY <1>2, <1>3
  <2> QED BY <1>1, <1>2, <2>1, Zenon
<1>5. A = B
  BY <1>3, <1>4
<1>6. Members(s, h) = Members(r, h)
  BY <1>5, MembersAround
<1>7. Ring(s, h)
  BY <1>5 DEF Ring
<1> QED BY <1>5, <1>6, <1>7

\* No task of a ring is a ring alone: the head would not lead to it.
LEMMA NotAlone ==
    ASSUME NEW r \in Heap, NEW h \in Node, Ring(r, h), NEW n \in Members(r, h)
    PROVE  r.next[n] # n /\ r.prev[n] # n
<1>1. /\ Around(r, h) \subseteq Node /\ h \in Around(r, h) /\ n \in Around(r, h) /\ n # h
      /\ \A W \in SUBSET Node :
            h \in W /\ (\A m \in W : r.next[m] \in Node => r.next[m] \in W)
            => Around(r, h) \subseteq W
  <2>1. n \in Around(r, h) /\ n # h
    BY MembersAround
  <2> QED BY <2>1, LeastLap, Zenon
<1>2. SUFFICES ASSUME r.next[n] = n \/ r.prev[n] = n PROVE FALSE
  OBVIOUS
<1>3. r.next[n] = n /\ r.prev[n] = n
  BY <1>1, <1>2 DEF Ring
<1>4. \A m \in Around(r, h) \ {n} : r.next[m] \in Around(r, h) \ {n}
  BY <1>1, <1>3 DEF Ring
<1>5. Around(r, h) \subseteq Around(r, h) \ {n}
  <2>1. PICK W \in SUBSET Node : W = Around(r, h) \ {n}
    BY <1>1
  <2>2. h \in W /\ \A m \in W : r.next[m] \in Node => r.next[m] \in W
    BY <1>1, <1>4, <2>1
  <2> QED BY <1>1, <2>1, <2>2
<1> QED BY <1>1, <1>5

\* list_del takes its node out of the ring it is in.
LEMMA DelShrinks ==
    ASSUME NEW r \in Heap, NEW h \in Node, Ring(r, h), NEW n \in Members(r, h)
    PROVE  /\ Ring(list_del(r, n), h)
           /\ Around(list_del(r, n), h) = Around(r, h) \ {n}
           /\ Members(list_del(r, n), h) = Members(r, h) \ {n}
           /\ list_del(r, n) \in Heap
           /\ \A m \in Node \ Around(r, h) : /\ list_del(r, n).next[m] = r.next[m]
                                             /\ list_del(r, n).prev[m] = r.prev[m]
<1> DEFINE A == Around(r, h)
<1>1. PICK s : s = list_del(r, n)
  OBVIOUS
<1>2. /\ A \subseteq Node /\ h \in A /\ n \in A /\ n # h
      /\ \A W \in SUBSET Node :
            h \in W /\ (\A m \in W : r.next[m] \in Node => r.next[m] \in W) => A \subseteq W
  <2>1. n \in A /\ n # h
    BY MembersAround
  <2> QED BY <2>1, LeastLap, Zenon
<1>3. PICK p \in A, q \in A : p = r.prev[n] /\ q = r.next[n]
  BY <1>2 DEF Ring
<1>4. p # n /\ q # n
  BY <1>3, NotAlone
<1>5. /\ s.next = [r.next EXCEPT ![p] = q] /\ s.prev = [r.prev EXCEPT ![q] = p]
      /\ r.next \in [Node -> Node \cup {NULL}] /\ r.prev \in [Node -> Node \cup {NULL}]
  BY <1>1, <1>3 DEF list_del, Heap
<1>6. s \in Heap
  BY <1>1, <1>2, <1>3, <1>5 DEF Heap, list_del
<1>7. \A m \in Node : /\ s.next[m] = (IF m = p THEN q ELSE r.next[m])
                      /\ s.prev[m] = (IF m = q THEN p ELSE r.prev[m])
  BY <1>5
<1>8. \A m \in A : /\ r.next[m] \in A /\ r.prev[m] \in A
                   /\ r.prev[r.next[m]] = m /\ r.next[r.prev[m]] = m
  BY DEF Ring
<1>9. \A m \in A \ {n} : s.next[m] \in A \ {n} /\ s.prev[m] \in A \ {n}
  BY <1>2, <1>3, <1>4, <1>7, <1>8
<1>10. \A m \in A \ {n} : s.prev[s.next[m]] = m /\ s.next[s.prev[m]] = m
  <2> SUFFICES ASSUME NEW m \in A \ {n} PROVE s.prev[s.next[m]] = m /\ s.next[s.prev[m]] = m
    OBVIOUS
  <2>1. s.prev[s.next[m]] = m
    BY <1>2, <1>3, <1>4, <1>7, <1>8
  <2>2. s.next[s.prev[m]] = m
    BY <1>2, <1>3, <1>4, <1>7, <1>8
  <2> QED BY <2>1, <2>2
<1>11. Around(s, h) = A \ {n}
  <2>1. /\ Around(s, h) \subseteq Node /\ h \in Around(s, h)
        /\ \A m \in Around(s, h) : s.next[m] \in Node => s.next[m] \in Around(s, h)
        /\ \A W \in SUBSET Node :
              h \in W /\ (\A m \in W : s.next[m] \in Node => s.next[m] \in W)
              => Around(s, h) \subseteq W
    BY <1>6, LeastLap, Zenon
  <2>2. Around(s, h) \subseteq A \ {n}
    <3>1. PICK W \in SUBSET Node : W = A \ {n}
      BY <1>2
    <3>2. h \in W /\ \A m \in W : s.next[m] \in Node => s.next[m] \in W
      BY <1>2, <1>9, <3>1
    <3> QED BY <2>1, <3>1, <3>2
  <2>3. PICK V \in SUBSET Node :
           \A x : x \in V <=> x \in Around(s, h) \/ (x = n /\ p \in Around(s, h))
    <3> DEFINE V == {x \in Node : x \in Around(s, h) \/ (x = n /\ p \in Around(s, h))}
    <3>1. \A x : x \in V <=> x \in Around(s, h) \/ (x = n /\ p \in Around(s, h))
      BY <1>2, <2>1
    <3>2. V \in SUBSET Node
      OBVIOUS
    <3> HIDE DEF V
    <3> QED BY <3>1, <3>2
  <2>4. \A m \in V : r.next[m] \in Node => r.next[m] \in V
    <3> SUFFICES ASSUME NEW m \in V PROVE r.next[m] \in V
      OBVIOUS
    <3>1. CASE m = n
      <4>1. p \in Around(s, h)
        BY <2>2, <2>3, <3>1
      <4>2. s.next[p] = q /\ q \in Node
        BY <1>2, <1>7
      <4> QED BY <1>3, <2>1, <2>3, <3>1, <4>1, <4>2
    <3>2. CASE m # n /\ m = p
      BY <1>2, <1>3, <1>8, <2>1, <2>3, <3>2
    <3>3. CASE m # n /\ m # p
      <4>1. m \in Around(s, h) /\ m \in A /\ s.next[m] = r.next[m] /\ r.next[m] \in Node
        BY <1>2, <1>7, <1>8, <2>2, <2>3, <3>3
      <4> QED BY <2>1, <2>3, <4>1
    <3> QED BY <3>1, <3>2, <3>3
  <2>5. h \in V
    BY <2>1, <2>3
  <2>6. A \subseteq V
    BY <1>2, <2>4, <2>5, Zenon
  <2> QED BY <2>2, <2>3, <2>6
<1>12. Members(s, h) = Members(r, h) \ {n}
  BY <1>6, <1>11, MembersAround
<1>13. Ring(s, h)
  BY <1>9, <1>10, <1>11 DEF Ring
<1>14. \A m \in Node \ A : s.next[m] = r.next[m] /\ s.prev[m] = r.prev[m]
  BY <1>7
<1> QED BY <1>1, <1>6, <1>11, <1>12, <1>13, <1>14

\* __list_add puts a node that is in no ring between two neighbours of one.
LEMMA SpliceGrows ==
    ASSUME NEW r \in Heap, NEW h \in Node, Ring(r, h), NEW n \in Node \ Around(r, h),
           NEW p \in Around(r, h), NEW q \in Around(r, h), r.next[p] = q
    PROVE  /\ Ring(Splice(r, n, p, q), h)
           /\ Around(Splice(r, n, p, q), h) = Around(r, h) \cup {n}
           /\ Members(Splice(r, n, p, q), h) = Members(r, h) \cup {n}
           /\ Splice(r, n, p, q) \in Heap
           /\ \A m \in Node \ (Around(r, h) \cup {n}) :
                 /\ Splice(r, n, p, q).next[m] = r.next[m]
                 /\ Splice(r, n, p, q).prev[m] = r.prev[m]
<1> DEFINE A == Around(r, h)
<1>1. PICK s : s = Splice(r, n, p, q)
  OBVIOUS
<1>2. /\ A \subseteq Node /\ h \in A
      /\ \A W \in SUBSET Node :
            h \in W /\ (\A m \in W : r.next[m] \in Node => r.next[m] \in W) => A \subseteq W
  BY LeastLap, Zenon
<1>3. /\ s.next = [r.next EXCEPT ![n] = q, ![p] = n] /\ s.prev = [r.prev EXCEPT ![n] = p, ![q] = n]
      /\ r.next \in [Node -> Node \cup {NULL}] /\ r.prev \in [Node -> Node \cup {NULL}]
  BY <1>1 DEF Splice, Heap
<1>4. s \in Heap
  BY <1>1, <1>2, <1>3 DEF Heap, Splice
<1>5. \A m \in Node : /\ s.next[m] = (IF m = p THEN n ELSE IF m = n THEN q ELSE r.next[m])
                      /\ s.prev[m] = (IF m = q THEN n ELSE IF m = n THEN p ELSE r.prev[m])
  BY <1>2, <1>3
<1>6. \A m \in A : /\ r.next[m] \in A /\ r.prev[m] \in A
                   /\ r.prev[r.next[m]] = m /\ r.next[r.prev[m]] = m
  BY DEF Ring
<1>7. r.prev[q] = p
  BY <1>6
<1>8. \A m \in A \cup {n} : s.next[m] \in A \cup {n} /\ s.prev[m] \in A \cup {n}
  BY <1>2, <1>5, <1>6
<1>9. \A m \in A \cup {n} : s.prev[s.next[m]] = m /\ s.next[s.prev[m]] = m
  <2> SUFFICES ASSUME NEW m \in A \cup {n} PROVE s.prev[s.next[m]] = m /\ s.next[s.prev[m]] = m
    OBVIOUS
  <2>1. s.prev[s.next[m]] = m
    BY <1>2, <1>5, <1>6, <1>7
  <2>2. s.next[s.prev[m]] = m
    BY <1>2, <1>5, <1>6, <1>7
  <2> QED BY <2>1, <2>2
<1>10. Around(s, h) = A \cup {n}
  <2>1. /\ Around(s, h) \subseteq Node /\ h \in Around(s, h)
        /\ \A m \in Around(s, h) : s.next[m] \in Node => s.next[m] \in Around(s, h)
        /\ \A W \in SUBSET Node :
              h \in W /\ (\A m \in W : s.next[m] \in Node => s.next[m] \in W)
              => Around(s, h) \subseteq W
    BY <1>4, LeastLap, Zenon
  <2>2. Around(s, h) \subseteq A \cup {n}
    <3>1. PICK W \in SUBSET Node : W = A \cup {n}
      BY <1>2
    <3>2. h \in W /\ \A m \in W : s.next[m] \in Node => s.next[m] \in W
      BY <1>2, <1>8, <3>1
    <3> QED BY <2>1, <3>1, <3>2
  <2>3. PICK V \in SUBSET Node : V = Around(s, h) \cap A
    BY <1>2
  <2>4. \A m \in V : r.next[m] \in Node => r.next[m] \in V
    <3> SUFFICES ASSUME NEW m \in V PROVE r.next[m] \in V
      OBVIOUS
    <3>1. CASE m = p
      <4>1. n \in Around(s, h)
        BY <1>2, <1>5, <2>1, <2>3, <3>1
      <4>2. q \in Around(s, h)
        BY <1>2, <1>5, <2>1, <4>1
      <4> QED BY <2>3, <3>1, <4>2
    <3>2. CASE m # p
      <4>1. s.next[m] = r.next[m] /\ r.next[m] \in A
        BY <1>2, <1>5, <1>6, <2>3, <3>2
      <4> QED BY <1>2, <2>1, <2>3, <4>1
    <3> QED BY <3>1, <3>2
  <2>5. A \subseteq V
    BY <1>2, <2>1, <2>3, <2>4
  <2>6. n \in Around(s, h)
    BY <1>2, <1>5, <2>1, <2>3, <2>5
  <2> QED BY <2>2, <2>3, <2>5, <2>6
<1>11. Members(s, h) = Members(r, h) \cup {n}
  BY <1>2, <1>4, <1>10, MembersAround
<1>12. Ring(s, h)
  BY <1>8, <1>9, <1>10 DEF Ring
<1>13. \A m \in Node \ (A \cup {n}) : s.next[m] = r.next[m] /\ s.prev[m] = r.prev[m]
  BY <1>5
<1> QED BY <1>1, <1>4, <1>10, <1>11, <1>12, <1>13

\* list_empty tells whether the ring has members, list_first is one of them.
LEMMA EmptyIs ==
    ASSUME NEW r \in Heap, NEW h \in Node, Ring(r, h)
    PROVE  /\ list_empty(r, h) <=> Members(r, h) = {}
           /\ ~list_empty(r, h) => list_first(r, h) \in Members(r, h)
<1>1. /\ Around(r, h) \subseteq Node /\ h \in Around(r, h)
      /\ \A W \in SUBSET Node :
            h \in W /\ (\A m \in W : r.next[m] \in Node => r.next[m] \in W)
            => Around(r, h) \subseteq W
  BY LeastLap, Zenon
<1>2. list_empty(r, h) <=> r.next[h] = h
  BY <1>1 DEF Ring, list_empty
<1>3. r.next[h] = h => Members(r, h) = {}
  <2>1. PICK W \in SUBSET Node : W = {h}
    OBVIOUS
  <2>2. r.next[h] = h => Around(r, h) \subseteq W
    BY <1>1, <2>1
  <2> QED BY <2>1, <2>2, MembersAround
<1>4. r.next[h] # h => r.next[h] \in Members(r, h)
  BY <1>1, MembersAround DEF Ring
<1> QED BY <1>2, <1>3, <1>4 DEF list_first

LEMMA Heads == Head_ \subseteq Node /\ Task \subseteq Node /\ Task \cap Head_ = {}
  BY SchedAssumption DEF Head_, Node

LEMMA Apart ==
    ASSUME NEW r \in Heap, Rings(r), NEW g \in Head_, NEW h \in Head_, g # h
    PROVE  Around(r, g) \cap Around(r, h) = {}
BY Heads DEF Rings, Around

\* The three list operations on one list leave the others alone.
LEMMA RingsDel ==
    ASSUME NEW r \in Heap, Rings(r), NEW h \in Head_, NEW n \in Members(r, h)
    PROVE  /\ Rings(list_del(r, n)) /\ list_del(r, n) \in Heap
           /\ Members(list_del(r, n), h) = Members(r, h) \ {n}
           /\ \A g \in Head_ : g # h => Members(list_del(r, n), g) = Members(r, g)
<1>1. h \in Node /\ Ring(r, h)
  BY Heads DEF Rings
<1>2. PICK s : s = list_del(r, n)
  OBVIOUS
<1>3. /\ Ring(s, h) /\ Members(s, h) = Members(r, h) \ {n} /\ s \in Heap
      /\ \A m \in Node \ Around(r, h) : s.next[m] = r.next[m] /\ s.prev[m] = r.prev[m]
  BY <1>1, <1>2, DelShrinks
<1>4. ASSUME NEW g \in Head_, g # h PROVE Ring(s, g) /\ Members(s, g) = Members(r, g)
  <2>1. g \in Node /\ Ring(r, g) /\ Around(r, g) \subseteq Node
    BY Heads, LeastLap DEF Rings
  <2>2. \A m \in Around(r, g) : s.next[m] = r.next[m] /\ s.prev[m] = r.prev[m]
    BY <1>3, <1>4, <2>1, Apart
  <2> QED BY <1>3, <2>1, <2>2, SameRing
<1>5. Rings(s)
  BY <1>3, <1>4 DEF Rings
<1> QED BY <1>2, <1>3, <1>4, <1>5

LEMMA RingsSplice ==
    ASSUME NEW r \in Heap, Rings(r), NEW h \in Head_, NEW n \in Task,
           \A g \in Head_ : n \notin Members(r, g),
           NEW p \in Around(r, h), NEW q \in Around(r, h), r.next[p] = q
    PROVE  /\ Rings(Splice(r, n, p, q)) /\ Splice(r, n, p, q) \in Heap
           /\ Members(Splice(r, n, p, q), h) = Members(r, h) \cup {n}
           /\ \A g \in Head_ : g # h => Members(Splice(r, n, p, q), g) = Members(r, g)
<1>1. h \in Node /\ Ring(r, h)
  BY Heads DEF Rings
<1>2. \A g \in Head_ : n \in Node \ Around(r, g)
  BY Heads DEF Around
<1>3. PICK s : s = Splice(r, n, p, q)
  OBVIOUS
<1>4. /\ Ring(s, h) /\ Members(s, h) = Members(r, h) \cup {n} /\ s \in Heap
      /\ \A m \in Node \ (Around(r, h) \cup {n}) : s.next[m] = r.next[m] /\ s.prev[m] = r.prev[m]
  BY <1>1, <1>2, <1>3, SpliceGrows
<1>5. ASSUME NEW g \in Head_, g # h PROVE Ring(s, g) /\ Members(s, g) = Members(r, g)
  <2>1. g \in Node /\ Ring(r, g) /\ Around(r, g) \subseteq Node
    BY Heads, LeastLap DEF Rings
  <2>2. \A m \in Around(r, g) : s.next[m] = r.next[m] /\ s.prev[m] = r.prev[m]
    BY <1>2, <1>4, <1>5, <2>1, Apart
  <2> QED BY <1>4, <2>1, <2>2, SameRing
<1>6. Rings(s)
  BY <1>4, <1>5 DEF Rings
<1> QED BY <1>3, <1>4, <1>5, <1>6

LEMMA RingsAdd ==
    ASSUME NEW r \in Heap, Rings(r), NEW h \in Head_, NEW n \in Task,
           \A g \in Head_ : n \notin Members(r, g), NEW s,
           s = list_add(r, n, h) \/ s = list_add_tail(r, n, h)
    PROVE  /\ Rings(s) /\ s \in Heap
           /\ Members(s, h) = Members(r, h) \cup {n}
           /\ \A g \in Head_ : g # h => Members(s, g) = Members(r, g)
<1>1. /\ h \in Around(r, h) /\ r.next[h] \in Around(r, h) /\ r.prev[h] \in Around(r, h)
      /\ r.next[r.prev[h]] = h
  BY DEF Rings, Ring, Around
<1>2. CASE s = list_add(r, n, h)
  BY <1>1, <1>2, RingsSplice DEF list_add
<1>3. CASE s = list_add_tail(r, n, h)
  BY <1>1, <1>3, RingsSplice DEF list_add_tail
<1> QED BY <1>2, <1>3

LEMMA ListEmpty ==
    ASSUME NEW r \in Heap, Rings(r), NEW h \in Head_
    PROVE  /\ list_empty(r, h) <=> Members(r, h) = {}
           /\ ~list_empty(r, h) => list_first(r, h) \in Members(r, h)
BY Heads, EmptyIs DEF Rings

LEMMA RingsAreRings ==
    ASSUME NEW r \in Heap, Rings(r), NEW h \in Head_
    PROVE  IsRing(r, h, Head_ \ {h})
<1>1. DOMAIN r.next = Node
  BY DEF Heap
<1>2. Around(r, h) \subseteq Node
  BY Heads, LeastLap
<1>3. \A n \in Around(r, h) : n \notin Head_ \ {h} /\ r.prev[r.next[n]] = n /\ r.next[r.prev[n]] = n
  BY Heads DEF Rings, Ring, Around
<1> QED BY <1>1, <1>2, <1>3 DEF IsRing, Around

\* A node that was deleted, with its neighbours still neighbours: a second
\* list_del of it changes nothing.
Adjacent(r, n) ==
    /\ r.next[n] \in Node /\ r.prev[n] \in Node
    /\ r.next[r.prev[n]] = r.next[n] /\ r.prev[r.next[n]] = r.prev[n]

LEMMA DelAdjacent ==
    ASSUME NEW r \in Heap, NEW h \in Head_, Rings(r), NEW n \in Members(r, h)
    PROVE  Adjacent(list_del(r, n), n)
<1>1. h \in Node /\ Ring(r, h) /\ n \in Around(r, h) /\ Around(r, h) \subseteq Node
  BY Heads, LeastLap, MembersAround DEF Rings
<1>2. PICK s : s = list_del(r, n)
  OBVIOUS
<1>3. PICK p \in Node, q \in Node : p = r.prev[n] /\ q = r.next[n] /\ r.next[p] = n /\ r.prev[q] = n
  BY <1>1 DEF Ring
<1>4. p # n /\ q # n
  BY <1>1, <1>3, NotAlone
<1>5. \A m \in Node : /\ s.next[m] = (IF m = p THEN q ELSE r.next[m])
                      /\ s.prev[m] = (IF m = q THEN p ELSE r.prev[m])
  BY <1>2, <1>3 DEF list_del, Heap
<1> QED BY <1>1, <1>2, <1>3, <1>4, <1>5 DEF Adjacent

LEMMA DelTwice ==
    ASSUME NEW r \in Heap, NEW n \in Node, Adjacent(r, n)
    PROVE  list_del(r, n) = r
<1>1. /\ r = [next |-> r.next, prev |-> r.prev]
      /\ r.next \in [Node -> Node \cup {NULL}] /\ r.prev \in [Node -> Node \cup {NULL}]
  BY DEF Heap
<1>2. [r.next EXCEPT ![r.prev[n]] = r.next[n]] = r.next
  BY <1>1 DEF Adjacent
<1>3. [r.prev EXCEPT ![r.next[n]] = r.prev[n]] = r.prev
  BY <1>1 DEF Adjacent
<1> QED BY <1>1, <1>2, <1>3 DEF list_del

---------------------------------------------------------------------------
(* The workload as an invariant: what is left of the scripts, and the      *)
(* statements they can bring a task to.                                    *)

main  == InitTask
On(h) == Members(ring, h)

MakePc     == CreatePc \ {"create"}
UnlistedPc == MakePc \ {"create_unlock", "create_status"}
ExitPc     == {"exit", "exit_status", "exit_del", "exit_unlock"}

\* Only main waits or exits.
OthersGo ==
    \A t \in Task \ {main} :
        /\ \A i \in 1..Len(todo[t]) : todo[t][i].op \in {"create", "sema_up"}
        /\ pc[t] \in {"user"} \cup UpPc \cup CreatePc

\* A page is made a task by one task_create, and main's page never.
MakesApart ==
    /\ main \in pages
    /\ \A t \in Task : pc[t] \in MakePc => call[t].arg \in pages \ {main}
    /\ \A t, u \in Task : pc[t] \in MakePc /\ pc[u] \in MakePc /\ call[t].arg = call[u].arg
                          => t = u

ExitOK == \A t \in Task : pc[t] \in ExitPc => call[t].op = "exit"

WorkInv == OthersGo /\ MakesApart /\ ExitOK

LEMMA WorkInit == MainAlone /\ Init => WorkInv
BY SchedAssumption, KernelAssumption
   DEF MainAlone, Init, SchedInit, WorkInv, OthersGo, MakesApart, ExitOK, MakePc, CreatePc,
       ExitPc, main

\* From one statement of a call to another: no call begins, no page is taken.
Goes(t) ==
    /\ call' = call /\ pages' = pages /\ todo' = todo
    /\ \A u \in Task : u # t => pc'[u] = pc[u]
    /\ pc'[t] \in MakePc => pc[t] \in MakePc
    /\ pc'[t] \in ExitPc => pc[t] \in ExitPc
    /\ pc[t] \in UpPc => pc'[t] \in {"user"} \cup UpPc
    /\ pc[t] \in CreatePc => pc'[t] \in {"user"} \cup CreatePc
    /\ pc[t] # "user"

LEMMA WorkStep ==
    ASSUME TypeInv, WorkInv, NEW t \in Task, Goes(t)
    PROVE  WorkInv'
<1>1. OthersGo'
  BY DEF WorkInv, OthersGo, Goes, main
<1>2. MakesApart'
  BY DEF WorkInv, MakesApart, Goes, main
<1>3. ExitOK'
  BY DEF WorkInv, ExitOK, Goes
<1> QED BY <1>1, <1>2, <1>3 DEF WorkInv

LEMMA WorkInvoke ==
    ASSUME TypeInv, WorkInv, NEW t \in Task, Invoke(t)
    PROVE  WorkInv'
<1>1. /\ todo[t] \in Seq(Call) /\ todo[t] # <<>> /\ pc[t] = "user" /\ pages' = pages
      /\ \A u \in Task : /\ pc'[u] = IF u = t THEN Head(todo[t]).op ELSE pc[u]
                         /\ call'[u] = IF u = t THEN Head(todo[t]) ELSE call[u]
                         /\ todo'[u] = IF u = t THEN Tail(todo[t]) ELSE todo[u]
  BY DEF Invoke, rest, TypeInv, TypeOK
<1>2. Head(todo[t]).op \in {"create", "sema_down", "sema_up", "exit"}
  BY <1>1, CallArg
<1>3. OthersGo'
  <2> SUFFICES ASSUME NEW u \in Task \ {main}
               PROVE  /\ \A i \in 1..Len(todo'[u]) : todo'[u][i].op \in {"create", "sema_up"}
                      /\ pc'[u] \in {"user"} \cup UpPc \cup CreatePc
    BY DEF OthersGo, main
  <2>1. CASE u # t
    BY <1>1, <2>1 DEF WorkInv, OthersGo
  <2>2. CASE u = t
    <3>1. \A i \in 1..Len(todo[t]) : todo[t][i].op \in {"create", "sema_up"}
      BY <2>2 DEF WorkInv, OthersGo
    <3>2. Len(todo[t]) >= 1 /\ Head(todo[t]) = todo[t][1]
      BY <1>1
    <3>3. Head(todo[t]).op \in {"create", "sema_up"}
      BY <3>1, <3>2
    <3>4. \A i \in 1..Len(Tail(todo[t])) : i + 1 \in 1..Len(todo[t]) /\ Tail(todo[t])[i] = todo[t][i + 1]
      BY <1>1
    <3>5. \A i \in 1..Len(Tail(todo[t])) : Tail(todo[t])[i].op \in {"create", "sema_up"}
      BY <3>1, <3>4
    <3> QED BY <1>1, <2>2, <3>3, <3>5 DEF UpPc, CreatePc
  <2> QED BY <2>1, <2>2
<1>4. MakesApart'
  BY <1>1, <1>2 DEF WorkInv, MakesApart, MakePc, CreatePc, main
<1>5. ExitOK'
  BY <1>1, <1>2 DEF WorkInv, ExitOK, ExitPc
<1> QED BY <1>3, <1>4, <1>5 DEF WorkInv

\* task_struct_init takes a page that nobody has.
LEMMA WorkCreate ==
    ASSUME TypeInv, WorkInv, NEW t \in Task,
           Step(t, "create", "create_all_lock"), call[t].arg \notin pages,
           pages' = pages \cup {call[t].arg}, todo' = todo
    PROVE  WorkInv'
<1>1. /\ call' = call /\ pc[t] = "create"
      /\ \A u \in Task : pc'[u] = IF u = t THEN "create_all_lock" ELSE pc[u]
  BY DEF Step, TypeInv, TypeOK
<1>2. OthersGo'
  BY <1>1 DEF WorkInv, OthersGo, main, CreatePc
<1>3. MakesApart'
  <2>1. \A u \in Task : pc'[u] \in MakePc => u = t \/ pc[u] \in MakePc
    BY <1>1
  <2>2. \A u \in Task : pc[u] \in MakePc => call[u].arg # call[t].arg
    BY DEF WorkInv, MakesApart
  <2> QED BY <1>1, <2>1, <2>2 DEF WorkInv, MakesApart, main
<1>4. ExitOK'
  BY <1>1 DEF WorkInv, ExitOK, ExitPc
<1> QED BY <1>2, <1>3, <1>4 DEF WorkInv

LEMMA StepGoes ==
    ASSUME TypeInv, NEW t \in Task, NEW from, NEW to, Step(t, from, to),
           pages' = pages, todo' = todo,
           /\ to \in MakePc => from \in MakePc
           /\ to \in ExitPc => from \in ExitPc
           /\ from \in UpPc => to \in {"user"} \cup UpPc
           /\ from \in CreatePc => to \in {"user"} \cup CreatePc
           /\ from # "user"
    PROVE  Goes(t)
<1>1. call' = call /\ pc[t] = from /\ \A u \in Task : pc'[u] = IF u = t THEN to ELSE pc[u]
  BY DEF Step, TypeInv, TypeOK
<1> QED BY <1>1 DEF Goes

\* Switching frees no page: prev is never null.
LEMMA NoPageFreed ==
    ASSUME TypeInv, NEW next, switch_to(next)
    PROVE  pages' = pages /\ all_tasks_list' = all_tasks_list
BY SchedAssumption DEF TypeInv, TypeOK, switch_to, task_sched_post_proc

LEMMA ScheduleWork ==
    ASSUME TypeInv, WorkInv, NEW t \in Task, schedule(t), UNCHANGED others
    PROVE  WorkInv'
<1> USE DEF MakePc, ExitPc, UpPc, ResumePc, CreatePc, rest, others
<1>1. CASE /\ Step(t, "schedule", "sched_check")
           /\ pages' = pages
  BY <1>1, StepGoes, WorkStep
<1>2. CASE /\ Step(t, "sched_check",
                    IF status[t] = "TASK_RUNNING" THEN "sched_lock" ELSE "sched_switch")
           /\ UNCHANGED <<status, ring, lock, rest>>
  <2>1. Goes(t)
    BY <1>2, StepGoes
  <2> QED BY <2>1, WorkStep
<1>3. CASE spin_lock(t, "list_slock", "sched_lock", "sched_del")
  BY <1>3, StepGoes, WorkStep DEF spin_lock
<1>4. CASE Relink(t, "sched_del", "sched_add", list_del(ring, t))
  BY <1>4, StepGoes, WorkStep DEF Relink
<1>5. CASE Relink(t, "sched_add", "sched_unlock", list_add_tail(ring, t, Ready))
  BY <1>5, StepGoes, WorkStep DEF Relink
<1>6. CASE spin_unlock(t, "list_slock", "sched_unlock", "sched_switch")
  BY <1>6, StepGoes, WorkStep DEF spin_unlock
<1>7. CASE /\ cur = t /\ IF_flag /\ pc[t] = "sched_switch"
           /\ pc' = [pc EXCEPT ![t] = ReturnFrom(t)]
           /\ switch_to(local[t])
           /\ UNCHANGED <<call, local, ring, lock, next_pid, pid>>
  <2>1. pages' = pages
    BY <1>7, NoPageFreed
  <2>2. \A u \in Task : pc'[u] = IF u = t THEN ReturnFrom(t) ELSE pc[u]
    BY <1>7 DEF TypeInv, TypeOK
  <2>3. Goes(t)
    BY <1>7, <2>1, <2>2 DEF Goes, ReturnFrom
  <2> QED BY <2>3, WorkStep
<1> QED BY <1>1, <1>2, <1>3, <1>4, <1>5, <1>6, <1>7 DEF schedule

LEMMA ExitWork ==
    ASSUME TypeInv, WorkInv, NEW t \in Task, task_exit(t) \/ task_suspend(t), UNCHANGED others
    PROVE  WorkInv'
<1> USE DEF MakePc, ExitPc, UpPc, ResumePc, CreatePc, rest, others
<1>1. CASE task_exit(t)
  <2>1. CASE spin_lock(t, "list_slock", "exit", "exit_status")
    BY <2>1, StepGoes, WorkStep DEF spin_lock
  <2>2. CASE SetStatus(t, "exit_status", "exit_del", t, "TASK_DYING")
    BY <2>2, StepGoes, WorkStep DEF SetStatus
  <2>3. CASE Relink(t, "exit_del", "exit_unlock", list_del(ring, t))
    BY <2>3, StepGoes, WorkStep DEF Relink
  <2>4. CASE spin_unlock(t, "list_slock", "exit_unlock", "schedule")
    BY <2>4, StepGoes, WorkStep DEF spin_unlock
  <2> QED BY <1>1, <2>1, <2>2, <2>3, <2>4 DEF task_exit
<1>2. CASE task_suspend(t)
  <2>1. CASE spin_lock(t, "list_slock", "suspend", "suspend_status")
    BY <2>1, StepGoes, WorkStep DEF spin_lock
  <2>2. CASE SetStatus(t, "suspend_status", "suspend_del", t, "TASK_BLOCKED")
    BY <2>2, StepGoes, WorkStep DEF SetStatus
  <2>3. CASE Relink(t, "suspend_del", "suspend_add", list_del(ring, t))
    BY <2>3, StepGoes, WorkStep DEF Relink
  <2>4. CASE Relink(t, "suspend_add", "suspend_unlock", list_add(ring, t, call[t].arg))
    BY <2>4, StepGoes, WorkStep DEF Relink
  <2>5. CASE spin_unlock(t, "list_slock", "suspend_unlock", "down_unlock")
    BY <2>5, StepGoes, WorkStep DEF spin_unlock
  <2> QED BY <1>2, <2>1, <2>2, <2>3, <2>4, <2>5 DEF task_suspend
<1> QED BY <1>1, <1>2

LEMMA ResumeWork ==
    ASSUME TypeInv, WorkInv, NEW t \in Task, task_resume(t), UNCHANGED others
    PROVE  WorkInv'
<1> USE DEF MakePc, ExitPc, UpPc, ResumePc, CreatePc, rest, others
<1>1. CASE spin_lock(t, "list_slock", "resume", "resume_test")
  BY <1>1, StepGoes, WorkStep DEF spin_lock
<1>2. CASE /\ Step(t, "resume_test",
                    IF resumes(local[t]) THEN "resume_add" ELSE "resume_unlock")
           /\ UNCHANGED <<ring, lock, rest>>
  <2>1. Goes(t)
    BY <1>2, StepGoes
  <2> QED BY <2>1, WorkStep
<1>3. CASE Relink(t, "resume_add", "resume_unlock", list_add_tail(ring, local[t], Ready))
  BY <1>3, StepGoes, WorkStep DEF Relink
<1>4. CASE spin_unlock(t, "list_slock", "resume_unlock", "up_unlock")
  BY <1>4, StepGoes, WorkStep DEF spin_unlock
<1> QED BY <1>1, <1>2, <1>3, <1>4 DEF task_resume

LEMMA CreateWork ==
    ASSUME TypeInv, WorkInv, NEW t \in Task, task_create(t), UNCHANGED others
    PROVE  WorkInv'
<1> USE DEF MakePc, ExitPc, UpPc, ResumePc, CreatePc, rest, others
<1>1. CASE task_struct_init(t)
  <2>1. CASE /\ Step(t, "create",
                     IF call[t].arg \in pages THEN "user" ELSE "create_all_lock")
             /\ IF call[t].arg \in pages
                THEN UNCHANGED <<pages, status, pid>>
                ELSE /\ pages' = pages \cup {call[t].arg}
                     /\ status' = [status EXCEPT ![call[t].arg] = "TASK_BLOCKED"]
                     /\ pid' = [pid EXCEPT ![call[t].arg] = 0]
    <3>1. CASE call[t].arg \in pages
      BY <2>1, <3>1, StepGoes, WorkStep
    <3>2. CASE call[t].arg \notin pages
      BY <2>1, <3>2, WorkCreate
    <3> QED BY <3>1, <3>2
  <2>2. CASE spin_lock(t, "list_slock", "create_all_lock", "create_all_add")
    BY <2>2, StepGoes, WorkStep DEF spin_lock
  <2>3. CASE Step(t, "create_all_add", "create_all_unlock") /\ pages' = pages
    BY <2>3, StepGoes, WorkStep
  <2>4. CASE spin_unlock(t, "list_slock", "create_all_unlock", "pid")
    BY <2>4, StepGoes, WorkStep DEF spin_unlock
  <2> QED BY <1>1, <2>1, <2>2, <2>3, <2>4 DEF task_struct_init
<1>2. CASE allocate_pid(t)
  <2>1. CASE spin_lock(t, "pid_slock", "pid", "pid_inc")
    BY <2>1, StepGoes, WorkStep DEF spin_lock
  <2>2. CASE Step(t, "pid_inc", "pid_unlock") /\ pages' = pages
    BY <2>2, StepGoes, WorkStep
  <2>3. CASE spin_unlock(t, "pid_slock", "pid_unlock", "pid_read")
    BY <2>3, StepGoes, WorkStep DEF spin_unlock
  <2>4. CASE Step(t, "pid_read", "create_lock") /\ pages' = pages
    BY <2>4, StepGoes, WorkStep
  <2> QED BY <1>2, <2>1, <2>2, <2>3, <2>4 DEF allocate_pid
<1>3. CASE spin_lock(t, "list_slock", "create_lock", "create_add")
  BY <1>3, StepGoes, WorkStep DEF spin_lock
<1>4. CASE Relink(t, "create_add", "create_unlock", list_add_tail(ring, call[t].arg, Ready))
  BY <1>4, StepGoes, WorkStep DEF Relink
<1>5. CASE spin_unlock(t, "list_slock", "create_unlock", "create_status")
  BY <1>5, StepGoes, WorkStep DEF spin_unlock
<1>6. CASE SetStatus(t, "create_status", "user", call[t].arg, "TASK_READY")
  BY <1>6, StepGoes, WorkStep DEF SetStatus
<1> QED BY <1>1, <1>2, <1>3, <1>4, <1>5, <1>6 DEF task_create

LEMMA SemaWork ==
    ASSUME TypeInv, WorkInv, NEW t \in Task, sema_down(t) \/ sema_up(t), UNCHANGED <<isr, todo>>
    PROVE  WorkInv'
<1> USE DEF MakePc, ExitPc, UpPc, ResumePc, CreatePc, rest
<1> DEFINE s == call[t].arg
<1>1. CASE sema_down(t)
  <2>1. CASE spin_lock(t, s, "sema_down", "down_test")
    BY <2>1, StepGoes, WorkStep DEF spin_lock
  <2>2. CASE /\ Step(t, "down_test", IF must_wait(s) THEN "suspend" ELSE "down_fast")
             /\ pages' = pages
    <3>1. Goes(t)
      BY <2>2, StepGoes
    <3> QED BY <3>1, WorkStep
  <2>3. CASE spin_unlock(t, s, "down_unlock", "schedule")
    BY <2>3, StepGoes, WorkStep DEF spin_unlock
  <2>4. CASE spin_unlock(t, s, "down_fast", "user")
    BY <2>4, StepGoes, WorkStep DEF spin_unlock
  <2> QED BY <1>1, <2>1, <2>2, <2>3, <2>4 DEF sema_down
<1>2. CASE sema_up(t)
  <2>1. CASE spin_lock(t, s, "sema_up", "up_inc")
    BY <2>1, StepGoes, WorkStep DEF spin_lock
  <2>2. CASE /\ Step(t, "up_inc", IF count[s] + 1 > 0 THEN "up_pop" ELSE "up_unlock")
             /\ pages' = pages
    <3>1. Goes(t)
      BY <2>2, StepGoes
    <3> QED BY <3>1, WorkStep
  <2>3. CASE /\ Step(t, "up_pop",
                     IF ~list_empty(ring, s) /\ list_first(ring, s) \in Task
                     THEN "resume" ELSE "up_unlock")
             /\ pages' = pages
    <3>1. Goes(t)
      BY <2>3, StepGoes
    <3> QED BY <3>1, WorkStep
  <2>4. CASE spin_unlock(t, s, "up_unlock", "user")
    BY <2>4, StepGoes, WorkStep DEF spin_unlock
  <2> QED BY <1>2, <2>1, <2>2, <2>3, <2>4 DEF sema_up
<1> QED BY <1>1, <1>2

LEMMA WorkNext == TypeInv /\ WorkInv /\ [Next]_vars => WorkInv'
<1> SUFFICES ASSUME TypeInv, WorkInv, [Next]_vars PROVE WorkInv'
  OBVIOUS
<1>1. ASSUME NEW t \in Task, TaskStep(t) PROVE WorkInv'
  BY <1>1, WorkInvoke, ScheduleWork, ExitWork, ResumeWork, CreateWork, SemaWork
     DEF TaskStep, SchedStep, others
<1>2. CASE UNCHANGED <<pc, call, pages, todo>>
  BY <1>2 DEF WorkInv, OthersGo, MakesApart, ExitOK, main
<1>3. ASSUME NEW v \in Vector, Interrupt(v) PROVE WorkInv'
  BY <1>2, <1>3 DEF Interrupt, rest
<1>4. CASE TickIsr
  BY <1>2, <1>4, NoPageFreed DEF TickIsr
<1>5. ASSUME NEW s \in IrqSem, DeviceIsr(s) PROVE WorkInv'
  BY <1>2, <1>5 DEF DeviceIsr, sema_up_in_isr, rest
<1>6. CASE UNCHANGED vars
  BY <1>2, <1>6 DEF vars, schedVars
<1> QED BY <1>1, <1>3, <1>4, <1>5, <1>6 DEF Next

---------------------------------------------------------------------------
(* Where the tasks are.                                                    *)

Off(t) == \A h \in Head_ : t \notin On(h)

\* A task that is being made and is not on the ready list yet.
Unlisted(t) == \E u \in Task : pc[u] \in UnlistedPc /\ call[u].arg = t

\* Every task but main, once made, stays on the ready list.
OthersPlaced ==
    \A t \in Task \ {main} :
        /\ t \in On(Ready) <=> t \in pages /\ ~Unlisted(t)
        /\ \A s \in Sem : t \notin On(s)
        /\ cur = t \/ pc[t] # "user" => t \in On(Ready)

\* A task between popping main off a wait list and putting it on the ready
\* list: it is alone, and main is on its way out of sema_down.
WakePc == {"resume", "resume_test", "resume_add"}
Wakers ==
    /\ \A t \in Task : pc[t] \in WakePc =>
          /\ local[t] = main /\ Off(main) /\ cur # main
          /\ pc[main] \in {"schedule", "sched_check", "sched_switch", "user"}
          /\ status[main] = IF pc[t] = "resume_add" THEN "TASK_RUNNING" ELSE "TASK_BLOCKED"
    /\ \A t, u \in Task : pc[t] \in WakePc /\ pc[u] \in WakePc => t = u

\* The statements main executes with its node on the ready list, and those of
\* schedule on either side of the requeueing.
GoingPc == {"user", "sema_down", "down_test", "suspend", "suspend_status", "suspend_del",
            "down_fast", "exit", "exit_status", "exit_del"} \cup UpPc \cup CreatePc
SchedPc == {"schedule", "sched_check", "sched_lock", "sched_del", "sched_unlock", "sched_switch"}

InReady ==
    /\ main \in On(Ready)
    /\ pc[main] \in GoingPc \cup SchedPc \cup {"down_unlock", "exit_returned"}
    /\ pc[main] \notin GoingPc => status[main] = "TASK_RUNNING"
    /\ pc[main] = "suspend_del" => status[main] \in {"TASK_RUNNING", "TASK_BLOCKED"}
    /\ pc[main] = "exit_del" => status[main] \in {"TASK_RUNNING", "TASK_DYING"}

\* Blocked in sema_down; or, when a tick came between the store to status and
\* the list_del of task_suspend, waiting and yet running on.
Waits ==
    /\ call[main].op = "sema_down" /\ main \in On(call[main].arg)
    /\ \/ /\ status[main] = "TASK_BLOCKED"
          /\ pc[main] \in {"suspend_unlock", "down_unlock", "schedule", "sched_check",
                           "sched_switch", "user"}
          /\ pc[main] = "user" => cur # main
       \/ /\ status[main] = "TASK_RUNNING" /\ cur = main
          /\ pc[main] \in {"suspend_unlock", "down_unlock", "schedule", "sched_check",
                           "sched_lock", "sched_del"}

Popped == Off(main) /\ call[main].op = "sema_down" /\ \E t \in Task : pc[t] \in WakePc

\* Off every list and running: schedule or the tick will requeue it, and their
\* list_del meets a node that is deleted already.
Unlinked ==
    /\ Off(main) /\ status[main] = "TASK_RUNNING" /\ cur = main /\ Adjacent(ring, main)
    /\ pc[main] \in {"exit_unlock", "schedule", "sched_check", "sched_lock", "sched_del"}

Between ==
    /\ Off(main)
    /\ \/ pc[main] = "sched_add" /\ status[main] = "TASK_RUNNING" /\ cur = main
       \/ /\ pc[main] = "suspend_add" /\ status[main] \in {"TASK_BLOCKED", "TASK_RUNNING"}
          /\ status[main] = "TASK_RUNNING" => cur = main

Dead ==
    /\ Off(main) /\ call[main].op = "exit" /\ status[main] = "TASK_DYING"
    /\ pc[main] \in {"exit_unlock", "schedule", "sched_check", "sched_switch", "exit_returned"}

MainPlaced == InReady \/ Waits \/ Popped \/ Unlinked \/ Between \/ Dead

\* What main's schedule chose is still on the ready list when it switches.
LocalMain ==
    pc[main] \in ChosenPc =>
        /\ local[main] \in Task
        /\ local[main] # main => local[main] \in On(Ready)
        /\ local[main] = main /\ pc[main] # "sched_add" => main \in On(Ready)

\* From its first task_create on, main is not alone on the ready list.
Peer ==
    /\ cur \in Task
    /\ \/ \E t \in Task \ {main} : t \in On(Ready)
       \/ /\ main \in On(Ready) /\ pc[main] = "user"
          /\ todo[main] # <<>> => /\ Head(todo[main]).op = "create"
                                  /\ Head(todo[main]).arg # main
       \/ pc[main] \in {"create"} \cup UnlistedPc /\ call[main].arg # main

RingInv ==
    /\ Rings(ring)
    /\ OthersPlaced
    /\ Wakers
    /\ MainPlaced
    /\ LocalMain
    /\ Peer

AllInv == TypeInv /\ LockDiscipline /\ WorkInv /\ RingInv

\* main at a statement before it suspends or exits, on the processor.
LEMMA GoingReady ==
    ASSUME AllInv, cur = main, pc[main] \in GoingPc
    PROVE  InReady
<1>1. ~Waits
  BY DEF Waits, GoingPc, UpPc, ResumePc, CreatePc
<1>2. ~Popped
  BY DEF Popped, AllInv, RingInv, Wakers
<1>3. ~Unlinked /\ ~Between /\ ~Dead
  BY DEF Unlinked, Between, Dead, GoingPc, UpPc, ResumePc, CreatePc
<1> QED BY <1>1, <1>2, <1>3 DEF AllInv, RingInv, MainPlaced

LEMMA NoWakers ==
    ASSUME AllInv, cur = main
    PROVE  \A t \in Task : pc[t] \notin WakePc
BY DEF AllInv, RingInv, Wakers

\* A running task other than main, and main's partners.
LEMMA OtherRuns ==
    ASSUME AllInv, NEW t \in Task \ {main}, cur = t
    PROVE  t \in On(Ready) /\ pc[t] \in {"user"} \cup UpPc \cup CreatePc
BY DEF AllInv, RingInv, OthersPlaced, WorkInv, OthersGo

LEMMA OnTask ==
    ASSUME AllInv, NEW h \in Head_
    PROVE  /\ On(h) \subseteq Task
           /\ h # Ready => On(h) \subseteq {main}
           /\ \A g \in Head_ : g # h => On(g) \cap On(h) = {}
<1>1. On(h) \subseteq Task /\ \A g \in Head_ : g # h => On(g) \cap On(h) = {}
  BY DEF AllInv, RingInv, Rings, On
<1>2. h # Ready => On(h) \subseteq {main}
  BY <1>1 DEF AllInv, RingInv, OthersPlaced, Head_
<1> QED BY <1>1, <1>2

\* A step that moves no node but main's, taken by main outside the statements
\* of GoingPc, or leaving them: what it does to main's own node is left to show.
LEMMA MainMoves ==
    ASSUME AllInv, NEW from, NEW to, Step(main, from, to), pages' = pages,
           Rings(ring'), \A h \in Head_ : On(h)' \ {main} = On(h) \ {main},
           from \notin {"user", "create"} \cup UnlistedPc,
           to \notin WakePc \cup UnlistedPc,
           MainPlaced', LocalMain'
    PROVE  RingInv'
<1>1. /\ cur' = cur /\ cur = main /\ call' = call /\ pc[main] = from /\ main \in Task
      /\ \A u \in Task : pc'[u] = IF u = main THEN to ELSE pc[u]
  BY SchedAssumption DEF Step, AllInv, TypeInv, TypeOK, main
<1>2. \A t \in Task \ {main} : \A h \in Head_ : t \in On(h)' <=> t \in On(h)
  OBVIOUS
<1>3. OthersPlaced'
  <2>1. \A t : Unlisted(t)' <=> Unlisted(t)
    BY <1>1 DEF Unlisted
  <2> QED BY <1>1, <1>2, <2>1 DEF AllInv, RingInv, OthersPlaced, Head_, main
<1>4. Wakers'
  BY <1>1, NoWakers DEF Wakers
<1>5. Peer'
  BY <1>1, <1>2, SchedAssumption DEF AllInv, RingInv, Peer, Head_, main
<1> QED BY <1>3, <1>4, <1>5 DEF RingInv

\* A statement of GoingPc that moves no node.
LEMMA QuietStep ==
    ASSUME AllInv, NEW t \in Task, NEW from, NEW to, Step(t, from, to),
           ring' = ring, local' = local, pages' = pages, todo' = todo,
           status'[main] = status[main],
           from \in GoingPc \ {"user"}, to \in GoingPc \ {"suspend_del", "exit_del"},
           to \in WakePc <=> from \in WakePc, "resume_add" \notin {from, to},
           to \in UnlistedPc <=> from \in UnlistedPc,
           from = "create" => \E u \in Task \ {main} : u \in On(Ready)
    PROVE  RingInv'
<1>1. /\ cur' = cur /\ cur = t /\ call' = call /\ pc[t] = from /\ main \in Task
      /\ \A u \in Task : pc'[u] = IF u = t THEN to ELSE pc[u]
      /\ \A h : On(h)' = On(h)
  BY SchedAssumption DEF Step, AllInv, TypeInv, TypeOK, main, On
<1>2. \A u \in Task : pc'[u] \in WakePc <=> pc[u] \in WakePc
  BY <1>1
<1>3. Off(main)' <=> Off(main)
  BY <1>1 DEF Off
<1>4. Rings(ring')
  BY DEF AllInv, RingInv
<1>5. OthersPlaced'
  <2>1. \A u : Unlisted(u)' <=> Unlisted(u)
    BY <1>1 DEF Unlisted
  <2> QED BY <1>1, <2>1 DEF AllInv, RingInv, OthersPlaced
<1>6. Wakers'
  <2>1. CASE t = main
    BY <1>1, <1>2, <2>1, NoWakers DEF Wakers
  <2>2. CASE t # main
    <3>1. pc'[main] = pc[main]
      BY <1>1, <2>2
    <3>2. \A u \in Task : pc'[u] = "resume_add" <=> pc[u] = "resume_add"
      BY <1>1
    <3> QED BY <1>1, <1>2, <1>3, <3>1, <3>2 DEF AllInv, RingInv, Wakers
  <2> QED BY <2>1, <2>2
<1>7. MainPlaced'
  <2>1. CASE t = main
    <3>1. InReady
      BY <1>1, <2>1, GoingReady
    <3>2. InReady'
      BY <1>1, <2>1, <3>1 DEF InReady
    <3> QED BY <3>2 DEF MainPlaced
  <2>2. CASE t # main
    <3>1. pc'[main] = pc[main]
      BY <1>1, <2>2
    <3>2. InReady => InReady'
      BY <1>1, <3>1 DEF InReady
    <3>3. Waits => Waits'
      BY <1>1, <3>1 DEF Waits
    <3>4. Popped => Popped'
      BY <1>1, <1>2, <1>3 DEF Popped
    <3>5. Unlinked => Unlinked'
      BY <1>1, <1>3, <3>1 DEF Unlinked
    <3>6. Between => Between'
      BY <1>1, <1>3, <3>1 DEF Between
    <3>7. Dead => Dead'
      BY <1>1, <1>3, <3>1 DEF Dead
    <3> QED BY <3>2, <3>3, <3>4, <3>5, <3>6, <3>7 DEF MainPlaced, AllInv, RingInv
  <2> QED BY <2>1, <2>2
<1>8. LocalMain'
  <2>1. to \notin ChosenPc
    BY DEF GoingPc, UpPc, ResumePc, CreatePc, ChosenPc
  <2> QED BY <1>1, <2>1 DEF AllInv, RingInv, LocalMain
<1>9. Peer'
  BY <1>1 DEF AllInv, RingInv, Peer
<1> QED BY <1>4, <1>5, <1>6, <1>7, <1>8, <1>9 DEF RingInv

\* A step of main outside GoingPc that moves no node.
LEMMA MainQuiet ==
    ASSUME AllInv, NEW from, NEW to, Step(main, from, to),
           ring' = ring, pages' = pages, LocalMain', MainPlaced',
           from \notin {"user", "create"} \cup UnlistedPc,
           to \notin WakePc \cup UnlistedPc
    PROVE  RingInv'
<1>1. Rings(ring') /\ \A h \in Head_ : On(h)' = On(h)
  BY DEF AllInv, RingInv, On
<1> QED BY <1>1, MainMoves

---------------------------------------------------------------------------
(* The statements that change a list, or what schedule will do with one.   *)

\* schedule, which only main calls.
LEMMA OnlyMain ==
    ASSUME AllInv, NEW t \in Task, pc[t] \notin {"user"} \cup UpPc \cup CreatePc
    PROVE  t = main
BY DEF AllInv, WorkInv, OthersGo

\* Where main is when it runs outside GoingPc.
LEMMA MainRuns ==
    ASSUME AllInv, cur = main
    PROVE  InReady \/ Waits \/ Unlinked \/ Between \/ Dead
BY DEF AllInv, RingInv, Wakers, MainPlaced, Popped

LEMMA ReadyNotEmpty ==
    ASSUME AllInv
    PROVE  On(Ready) # {}
<1>1. CASE cur = main /\ pc[main] \in {"create"} \cup UnlistedPc
  <2>1. pc[main] \in GoingPc
    BY <1>1 DEF GoingPc, UnlistedPc, MakePc, CreatePc
  <2> QED BY <1>1, <2>1, GoingReady DEF InReady
<1>2. CASE cur = main /\ pc[main] \notin {"create"} \cup UnlistedPc
  BY <1>2 DEF AllInv, RingInv, Peer
<1>3. CASE cur # main
  BY <1>3 DEF AllInv, RingInv, Peer, OthersPlaced
<1> QED BY <1>1, <1>2, <1>3

LEMMA FirstReady ==
    ASSUME AllInv
    PROVE  list_first(ring, Ready) \in On(Ready)
BY ReadyNotEmpty, ListEmpty DEF AllInv, RingInv, TypeInv, SafeHeap, Head_, On

\* Taking main off the list it is on.
LEMMA DelMain ==
    ASSUME AllInv, NEW h \in Head_, main \in On(h), NEW s, s = list_del(ring, main)
    PROVE  /\ Rings(s) /\ s \in Heap /\ Adjacent(s, main)
           /\ \A g \in Head_ : Members(s, g) = On(g) \ {main}
<1>1. ring \in Heap /\ Rings(ring)
  BY DEF AllInv, RingInv, TypeInv, SafeHeap
<1>2. Adjacent(s, main) /\ Rings(s) /\ s \in Heap
  BY <1>1, DelAdjacent, RingsDel DEF On
<1>3. ASSUME NEW g \in Head_ PROVE Members(s, g) = On(g) \ {main}
  <2>1. CASE g = h
    BY <1>1, <2>1, RingsDel DEF On
  <2>2. CASE g # h
    <3>1. Members(s, g) = On(g)
      BY <1>1, <2>2, RingsDel DEF On
    <3>2. main \notin On(g)
      BY <2>2, OnTask
    <3> QED BY <3>1, <3>2
  <2> QED BY <2>1, <2>2
<1> QED BY <1>2, <1>3

\* Putting a task that is on no list on one.
LEMMA AddOff ==
    ASSUME NEW r \in Heap, Rings(r), NEW h \in Head_, NEW t \in Task,
           \A g \in Head_ : t \notin Members(r, g),
           NEW s, s = list_add(r, t, h) \/ s = list_add_tail(r, t, h)
    PROVE  /\ Rings(s) /\ s \in Heap
           /\ \A g \in Head_ : Members(s, g) = IF g = h THEN Members(r, g) \cup {t}
                                                        ELSE Members(r, g)
<1>1. /\ Rings(s) /\ s \in Heap /\ Members(s, h) = Members(r, h) \cup {t}
      /\ \A g \in Head_ : g # h => Members(s, g) = Members(r, g)
  BY RingsAdd
<1> QED BY <1>1

LEMMA ScheduleRing ==
    ASSUME AllInv, NEW t \in Task, schedule(t), UNCHANGED others
    PROVE  RingInv'
<1>1. t = main /\ main \in Task /\ cur = main
  BY OnlyMain, SchedAssumption
     DEF schedule, Step, spin_lock, spin_unlock, Relink, UpPc, ResumePc, CreatePc, main
<1>2. MainPlaced /\ LocalMain /\ Rings(ring) /\ ring \in Heap /\ Ready \in Head_
  BY DEF AllInv, RingInv, TypeInv, SafeHeap, Head_
<1> USE DEF UnlistedPc, MakePc, CreatePc, WakePc
<1>3. CASE /\ Step(t, "schedule", "sched_check")
           /\ local' = [local EXCEPT ![t] = list_first(ring, Ready)]
           /\ UNCHANGED <<status, ring, lock, pages, all_tasks_list, next_pid, pid>>
  <2>1. /\ pc[main] = "schedule" /\ pc'[main] = "sched_check" /\ cur' = main /\ call' = call
        /\ local'[main] \in On(Ready) /\ On(Ready) \subseteq Task
        /\ \A h \in Head_ : On(h)' = On(h)
    BY <1>1, <1>2, <1>3, FirstReady, OnTask DEF Step, AllInv, TypeInv, TypeOK, On
  <2>2. LocalMain'
    BY <1>2, <2>1 DEF LocalMain
  <2>3. MainPlaced'
    BY <1>1, <1>2, <1>3, <2>1, MainRuns, CallArg
       DEF MainPlaced, InReady, Waits, Unlinked, Between, Dead, Off, GoingPc, UpPc, ResumePc,
           SchedPc, Head_, AllInv, TypeInv, TypeOK
  <2> QED BY <1>1, <1>3, <2>2, <2>3, MainQuiet
<1>4. CASE /\ Step(t, "sched_check",
                    IF status[t] = "TASK_RUNNING" THEN "sched_lock" ELSE "sched_switch")
           /\ UNCHANGED <<status, ring, lock, rest>>
  <2>1. /\ pc[main] = "sched_check" /\ cur' = main /\ call' = call /\ local' = local
        /\ pc'[main] = IF status[main] = "TASK_RUNNING" THEN "sched_lock" ELSE "sched_switch"
        /\ \A h \in Head_ : On(h)' = On(h)
    BY <1>1, <1>4 DEF Step, rest, AllInv, TypeInv, TypeOK, On
  <2>2. LocalMain'
    BY <1>2, <2>1 DEF LocalMain, ChosenPc, Head_
  <2>3. MainPlaced'
    BY <1>1, <1>2, <1>4, <2>1, MainRuns, CallArg
       DEF MainPlaced, InReady, Waits, Unlinked, Between, Dead, Off, GoingPc, UpPc, ResumePc,
           SchedPc, Head_, AllInv, TypeInv, TypeOK
  <2>4. pages' = pages
    BY <1>4 DEF rest
  <2> QED BY <1>1, <1>4, <2>2, <2>3, <2>4, MainQuiet
<1>5. CASE spin_lock(t, "list_slock", "sched_lock", "sched_del")
  <2>1. /\ pc[main] = "sched_lock" /\ cur' = main /\ call' = call /\ local' = local
        /\ pc'[main] = "sched_del" /\ status' = status /\ ring' = ring /\ pages' = pages
        /\ \A h \in Head_ : On(h)' = On(h)
    BY <1>1, <1>5 DEF Step, spin_lock, rest, AllInv, TypeInv, TypeOK, On
  <2>2. LocalMain'
    BY <1>2, <2>1 DEF LocalMain, ChosenPc, Head_
  <2>3. MainPlaced'
    BY <1>1, <1>2, <2>1, MainRuns, CallArg
       DEF MainPlaced, InReady, Waits, Unlinked, Between, Dead, Off, GoingPc, UpPc, ResumePc,
           SchedPc, Head_, AllInv, TypeInv, TypeOK
  <2>4. Step(main, "sched_lock", "sched_del")
    BY <1>1, <1>5 DEF spin_lock
  <2> QED BY <2>1, <2>2, <2>3, <2>4, MainQuiet
<1>6. CASE Relink(t, "sched_del", "sched_add", list_del(ring, t))
  <2>1. /\ pc[main] = "sched_del" /\ cur' = main /\ call' = call /\ local' = local
        /\ pc'[main] = "sched_add" /\ status' = status /\ ring' = list_del(ring, main)
        /\ pages' = pages
    BY <1>1, <1>6 DEF Step, Relink, rest, AllInv, TypeInv, TypeOK
  <2>2. status[main] = "TASK_RUNNING" /\ (InReady \/ Waits \/ Unlinked)
    BY <1>1, <2>1, MainRuns
       DEF InReady, Waits, Unlinked, Between, Dead, GoingPc, UpPc, ResumePc
  <2>3. Rings(ring') /\ \A h \in Head_ : On(h)' = On(h) \ {main}
    <3>1. CASE \E h \in Head_ : main \in On(h)
      BY <2>1, <3>1, DelMain DEF On
    <3>2. CASE ~\E h \in Head_ : main \in On(h)
      <4>1. ~InReady /\ ~Waits
        BY <1>1, <1>2, <3>2, CallArg DEF InReady, Waits, Head_, AllInv, TypeInv, TypeOK
      <4>2. Adjacent(ring, main) /\ main \in Node
        BY <1>1, <2>2, <4>1 DEF Unlinked, Node
      <4>3. ring' = ring
        BY <1>2, <2>1, <4>2, DelTwice
      <4> QED BY <1>2, <3>2, <4>3 DEF On
    <3> QED BY <3>1, <3>2
  <2>4. MainPlaced'
    BY <2>1, <2>2, <2>3 DEF MainPlaced, Between, Off
  <2>5. LocalMain'
    BY <1>2, <2>1, <2>3 DEF LocalMain, ChosenPc
  <2>6. Step(main, "sched_del", "sched_add")
    BY <1>1, <1>6 DEF Relink
  <2>7. \A h \in Head_ : On(h)' \ {main} = On(h) \ {main}
    BY <2>3
  <2> QED BY <2>1, <2>3, <2>4, <2>5, <2>6, <2>7, MainMoves
<1>7. CASE Relink(t, "sched_add", "sched_unlock", list_add_tail(ring, t, Ready))
  <2>1. /\ pc[main] = "sched_add" /\ cur' = main /\ call' = call /\ local' = local
        /\ pc'[main] = "sched_unlock" /\ status' = status
        /\ ring' = list_add_tail(ring, main, Ready) /\ pages' = pages
    BY <1>1, <1>7 DEF Step, Relink, rest, AllInv, TypeInv, TypeOK
  <2>2. Off(main) /\ status[main] = "TASK_RUNNING"
    BY <1>1, <2>1, MainRuns
       DEF InReady, Waits, Unlinked, Between, Dead, GoingPc, UpPc, ResumePc, SchedPc
  <2>3. Rings(ring') /\ \A h \in Head_ : On(h)' = IF h = Ready THEN On(h) \cup {main} ELSE On(h)
    BY <1>1, <1>2, <2>1, <2>2, AddOff DEF Off, On
  <2>4. MainPlaced'
    BY <1>2, <2>1, <2>2, <2>3 DEF MainPlaced, InReady, SchedPc
  <2>5. LocalMain'
    BY <1>2, <2>1, <2>3 DEF LocalMain, ChosenPc
  <2>6. Step(main, "sched_add", "sched_unlock")
    BY <1>1, <1>7 DEF Relink
  <2>7. \A h \in Head_ : On(h)' \ {main} = On(h) \ {main}
    BY <2>3
  <2> QED BY <2>1, <2>3, <2>4, <2>5, <2>6, <2>7, MainMoves
<1>8. CASE spin_unlock(t, "list_slock", "sched_unlock", "sched_switch")
  <2>1. /\ pc[main] = "sched_unlock" /\ cur' = main /\ call' = call /\ local' = local
        /\ pc'[main] = "sched_switch" /\ status' = status /\ ring' = ring /\ pages' = pages
        /\ \A h \in Head_ : On(h)' = On(h)
    BY <1>1, <1>8 DEF Step, spin_unlock, rest, AllInv, TypeInv, TypeOK, On
  <2>2. LocalMain'
    BY <1>2, <2>1 DEF LocalMain, ChosenPc, Head_
  <2>3. MainPlaced'
    BY <1>1, <1>2, <2>1, MainRuns, CallArg
       DEF MainPlaced, InReady, Waits, Unlinked, Between, Dead, Off, GoingPc, UpPc, ResumePc,
           SchedPc, Head_, AllInv, TypeInv, TypeOK
  <2>4. Step(main, "sched_unlock", "sched_switch")
    BY <1>1, <1>8 DEF spin_unlock
  <2> QED BY <2>1, <2>2, <2>3, <2>4, MainQuiet
<1>9. CASE /\ cur = t /\ IF_flag /\ pc[t] = "sched_switch"
           /\ pc' = [pc EXCEPT ![t] = ReturnFrom(t)]
           /\ switch_to(local[t])
           /\ UNCHANGED <<call, local, ring, lock, next_pid, pid>>
  <2>1. /\ local[main] \in Task /\ local[main] \in On(Ready)
        /\ cur' = local[main] /\ status' = [status EXCEPT ![local[main]] = "TASK_RUNNING"]
        /\ pages' = pages
    BY <1>1, <1>2, <1>9, NoPageFreed DEF LocalMain, ChosenPc, switch_to, AllInv
  <2>2. /\ pc[main] = "sched_switch" /\ pc'[main] = ReturnFrom(main)
        /\ \A u \in Task : u # main => pc'[u] = pc[u]
        /\ \A h : On(h)' = On(h)
        /\ status'[main] = IF main = local[main] THEN "TASK_RUNNING" ELSE status[main]
    BY <1>1, <1>9, <2>1 DEF AllInv, TypeInv, TypeOK, On
  <2>3. pc'[main] = (IF call[main].op = "exit" THEN "exit_returned" ELSE "user")
    BY <2>2 DEF ReturnFrom
  <2>4. MainPlaced'
    <3>1. CASE InReady
      <4>1. status[main] = "TASK_RUNNING"
        BY <2>2, <3>1 DEF InReady, GoingPc, UpPc, ResumePc
      <4>2. InReady'
        BY <1>9, <2>2, <2>3, <3>1, <4>1 DEF InReady, GoingPc
      <4> QED BY <4>2 DEF MainPlaced
    <3>2. CASE Waits
      <4>1. call[main].arg \in Head_ /\ call[main].arg # Ready
        BY <3>2, CallArg, SchedAssumption, <1>1
           DEF Waits, AllInv, TypeInv, TypeOK, Head_
      <4>2. main \notin On(Ready) /\ local[main] # main
        BY <1>2, <2>1, <3>2, <4>1, OnTask DEF Waits
      <4>3. Waits'
        BY <1>9, <2>1, <2>2, <2>3, <3>2, <4>2 DEF Waits
      <4> QED BY <4>3 DEF MainPlaced
    <3>3. CASE Dead
      <4>1. local[main] # main
        BY <1>2, <2>1, <3>3 DEF Dead, Off
      <4>2. Dead'
        BY <1>9, <2>1, <2>2, <2>3, <3>3, <4>1 DEF Dead, Off
      <4> QED BY <4>2 DEF MainPlaced
    <3>4. ~Unlinked /\ ~Between
      BY <2>2 DEF Unlinked, Between
    <3> QED BY <1>1, <3>1, <3>2, <3>3, <3>4, MainRuns
  <2>5. OthersPlaced'
    <3>1. \A u : Unlisted(u)' <=> Unlisted(u)
      BY <1>9, <2>2, <2>3 DEF Unlisted
    <3> QED BY <2>1, <2>2, <3>1 DEF AllInv, RingInv, OthersPlaced
  <2>6. Wakers'
    <3>1. \A u \in Task : pc'[u] \notin WakePc
      BY <1>1, <2>2, <2>3, NoWakers
    <3> QED BY <3>1 DEF Wakers
  <2>7. LocalMain'
    BY <2>3 DEF LocalMain, ChosenPc
  <2>8. Peer'
    BY <1>1, <2>1, <2>2 DEF AllInv, RingInv, Peer
  <2>9. Rings(ring')
    BY <1>2, <1>9
  <2> QED BY <2>4, <2>5, <2>6, <2>7, <2>8, <2>9 DEF RingInv
<1> QED BY <1>3, <1>4, <1>5, <1>6, <1>7, <1>8, <1>9 DEF schedule

LEMMA ExitRing ==
    ASSUME AllInv, NEW t \in Task, task_exit(t), UNCHANGED others
    PROVE  RingInv'
<1>1. t = main /\ main \in Task /\ cur = main
  BY OnlyMain, SchedAssumption
     DEF task_exit, Step, spin_lock, spin_unlock, SetStatus, Relink, UpPc, ResumePc, CreatePc, main
<1>2. Rings(ring) /\ ring \in Heap /\ Ready \in Head_ /\ call[main] \in Call
  BY <1>1 DEF AllInv, RingInv, TypeInv, TypeOK, SafeHeap, Head_
<1>3. pc[main] \in ExitPc \ {"exit_unlock"} => InReady
  BY <1>1, GoingReady DEF ExitPc, GoingPc
<1>4. pc'[main] \notin ChosenPc => LocalMain'
  BY DEF LocalMain
<1> USE DEF UnlistedPc, MakePc, CreatePc, WakePc, UpPc, ResumePc, ChosenPc, ExitPc
<1>5. CASE spin_lock(t, "list_slock", "exit", "exit_status")
  BY <1>1, <1>5, QuietStep DEF spin_lock, rest, others, GoingPc
<1>6. CASE SetStatus(t, "exit_status", "exit_del", t, "TASK_DYING")
  <2>1. /\ pc[main] = "exit_status" /\ pc'[main] = "exit_del" /\ cur' = main /\ call' = call
        /\ ring' = ring /\ pages' = pages /\ status'[main] = "TASK_DYING"
        /\ \A h : On(h)' = On(h)
    BY <1>1, <1>6 DEF Step, SetStatus, rest, AllInv, TypeInv, TypeOK, On
  <2>2. MainPlaced'
    BY <1>3, <2>1 DEF MainPlaced, InReady, GoingPc
  <2>3. Step(main, "exit_status", "exit_del")
    BY <1>1, <1>6 DEF SetStatus
  <2> QED BY <1>4, <2>1, <2>2, <2>3, MainQuiet
<1>7. CASE Relink(t, "exit_del", "exit_unlock", list_del(ring, t))
  <2>1. /\ pc[main] = "exit_del" /\ pc'[main] = "exit_unlock" /\ cur' = main /\ call' = call
        /\ ring' = list_del(ring, main) /\ pages' = pages /\ status' = status
    BY <1>1, <1>7 DEF Step, Relink, rest, AllInv, TypeInv, TypeOK
  <2>2. main \in On(Ready) /\ status[main] \in {"TASK_RUNNING", "TASK_DYING"}
    BY <1>3, <2>1 DEF InReady
  <2>3. Rings(ring') /\ Adjacent(ring', main) /\ \A h \in Head_ : On(h)' = On(h) \ {main}
    BY <1>2, <2>1, <2>2, DelMain DEF On
  <2>4. call[main].op = "exit"
    BY <1>1, <2>1 DEF AllInv, WorkInv, ExitOK
  <2>5. MainPlaced'
    BY <1>1, <2>1, <2>2, <2>3, <2>4 DEF MainPlaced, Unlinked, Dead, Off
  <2>6. Step(main, "exit_del", "exit_unlock")
    BY <1>1, <1>7 DEF Relink
  <2>7. \A h \in Head_ : On(h)' \ {main} = On(h) \ {main}
    BY <2>3
  <2> QED BY <1>4, <2>1, <2>3, <2>5, <2>6, <2>7, MainMoves
<1>8. CASE spin_unlock(t, "list_slock", "exit_unlock", "schedule")
  <2>1. /\ pc[main] = "exit_unlock" /\ pc'[main] = "schedule" /\ cur' = main /\ call' = call
        /\ ring' = ring /\ pages' = pages /\ status' = status
        /\ \A h : On(h)' = On(h)
    BY <1>1, <1>8 DEF Step, spin_unlock, rest, AllInv, TypeInv, TypeOK, On
  <2>2. Unlinked \/ Dead
    BY <1>1, <2>1, MainRuns DEF InReady, Waits, Between, GoingPc, SchedPc
  <2>3. MainPlaced'
    BY <1>1, <2>1, <2>2 DEF MainPlaced, Unlinked, Dead, Off
  <2>4. Step(main, "exit_unlock", "schedule")
    BY <1>1, <1>8 DEF spin_unlock
  <2> QED BY <1>4, <2>1, <2>3, <2>4, MainQuiet
<1> QED BY <1>5, <1>6, <1>7, <1>8 DEF task_exit

LEMMA SuspendRing ==
    ASSUME AllInv, NEW t \in Task, task_suspend(t), UNCHANGED others
    PROVE  RingInv'
<1>1. t = main /\ main \in Task /\ cur = main
  BY OnlyMain, SchedAssumption
     DEF task_suspend, Step, spin_lock, spin_unlock, SetStatus, Relink, UpPc, ResumePc, CreatePc,
         main
<1>2. Rings(ring) /\ ring \in Heap /\ Ready \in Head_ /\ call[main] \in Call
  BY <1>1 DEF AllInv, RingInv, TypeInv, TypeOK, SafeHeap, Head_
<1>3. pc[main] \in {"suspend", "suspend_status", "suspend_del"} => InReady
  BY <1>1, GoingReady DEF GoingPc
<1>4. pc[main] \in DownPc => call[main].op = "sema_down" /\ call[main].arg \in Head_ \ {Ready}
  BY <1>1, <1>2, CallArg, SchedAssumption DEF AllInv, TypeInv, CallOK, Head_
<1>5. pc'[main] \notin ChosenPc => LocalMain'
  BY DEF LocalMain
<1> USE DEF UnlistedPc, MakePc, CreatePc, WakePc, UpPc, ResumePc, ChosenPc
<1>6. CASE spin_lock(t, "list_slock", "suspend", "suspend_status")
  BY <1>1, <1>6, QuietStep DEF spin_lock, rest, others, GoingPc
<1>7. CASE SetStatus(t, "suspend_status", "suspend_del", t, "TASK_BLOCKED")
  <2>1. /\ pc[main] = "suspend_status" /\ pc'[main] = "suspend_del" /\ cur' = main
        /\ ring' = ring /\ pages' = pages /\ status'[main] = "TASK_BLOCKED"
        /\ \A h : On(h)' = On(h)
    BY <1>1, <1>7 DEF Step, SetStatus, rest, AllInv, TypeInv, TypeOK, On
  <2>2. MainPlaced'
    BY <1>3, <2>1 DEF MainPlaced, InReady, GoingPc
  <2>3. Step(main, "suspend_status", "suspend_del")
    BY <1>1, <1>7 DEF SetStatus
  <2> QED BY <1>5, <2>1, <2>2, <2>3, MainQuiet
<1>8. CASE Relink(t, "suspend_del", "suspend_add", list_del(ring, t))
  <2>1. /\ pc[main] = "suspend_del" /\ pc'[main] = "suspend_add" /\ cur' = main
        /\ ring' = list_del(ring, main) /\ pages' = pages /\ status' = status
    BY <1>1, <1>8 DEF Step, Relink, rest, AllInv, TypeInv, TypeOK
  <2>2. main \in On(Ready) /\ status[main] \in {"TASK_RUNNING", "TASK_BLOCKED"}
    BY <1>3, <2>1 DEF InReady
  <2>3. Rings(ring') /\ \A h \in Head_ : On(h)' = On(h) \ {main}
    BY <1>2, <2>1, <2>2, DelMain DEF On
  <2>4. MainPlaced'
    BY <1>1, <2>1, <2>2, <2>3 DEF MainPlaced, Between, Off
  <2>5. Step(main, "suspend_del", "suspend_add")
    BY <1>1, <1>8 DEF Relink
  <2>6. \A h \in Head_ : On(h)' \ {main} = On(h) \ {main}
    BY <2>3
  <2> QED BY <1>5, <2>1, <2>3, <2>4, <2>5, <2>6, MainMoves
<1>9. CASE Relink(t, "suspend_add", "suspend_unlock", list_add(ring, t, call[t].arg))
  <2>1. /\ pc[main] = "suspend_add" /\ pc'[main] = "suspend_unlock" /\ cur' = main
        /\ call' = call /\ ring' = list_add(ring, main, call[main].arg)
        /\ pages' = pages /\ status' = status
    BY <1>1, <1>9 DEF Step, Relink, rest, AllInv, TypeInv, TypeOK
  <2>2. Between
    BY <1>1, <2>1, MainRuns DEF InReady, Waits, Unlinked, Dead, GoingPc, SchedPc
  <2>3. /\ Off(main) /\ status[main] \in {"TASK_RUNNING", "TASK_BLOCKED"}
        /\ call[main].op = "sema_down" /\ call[main].arg \in Head_
    BY <1>4, <2>1, <2>2 DEF Between, DownPc
  <2>4. PICK s \in Head_ : s = call[main].arg
    BY <2>3
  <2>5. Rings(ring') /\ \A h \in Head_ : On(h)' = IF h = s THEN On(h) \cup {main} ELSE On(h)
    <3>1. \A h \in Head_ : main \notin Members(ring, h)
      BY <2>3 DEF Off, On
    <3>2. ring' = list_add(ring, main, s)
      BY <2>1, <2>4
    <3> QED BY <1>1, <1>2, <3>1, <3>2, AddOff DEF On
  <2>6. main \in Members(ring', call'[main].arg)
    BY <2>1, <2>4, <2>5 DEF On
  <2>7. Waits'
    BY <1>1, <2>1, <2>3, <2>6 DEF Waits, On
  <2>8. Step(main, "suspend_add", "suspend_unlock")
    BY <1>1, <1>9 DEF Relink
  <2>9. \A h \in Head_ : On(h)' \ {main} = On(h) \ {main}
    BY <2>5
  <2> QED BY <1>5, <2>1, <2>5, <2>7, <2>8, <2>9, MainMoves DEF MainPlaced
<1>10. CASE spin_unlock(t, "list_slock", "suspend_unlock", "down_unlock")
  <2>1. /\ pc[main] = "suspend_unlock" /\ pc'[main] = "down_unlock" /\ cur' = main
        /\ call' = call /\ ring' = ring /\ pages' = pages /\ status' = status
        /\ \A h : On(h)' = On(h)
    BY <1>1, <1>10 DEF Step, spin_unlock, rest, AllInv, TypeInv, TypeOK, On
  <2>2. Waits
    BY <1>1, <2>1, MainRuns DEF InReady, Unlinked, Between, Dead, GoingPc, SchedPc
  <2>3. MainPlaced'
    BY <1>1, <2>1, <2>2 DEF MainPlaced, Waits, On
  <2>4. Step(main, "suspend_unlock", "down_unlock")
    BY <1>1, <1>10 DEF spin_unlock
  <2> QED BY <1>5, <2>1, <2>3, <2>4, MainQuiet
<1> QED BY <1>6, <1>7, <1>8, <1>9, <1>10 DEF task_suspend

LEMMA DownRing ==
    ASSUME AllInv, NEW t \in Task, sema_down(t), UNCHANGED <<isr, todo>>
    PROVE  RingInv'
<1> DEFINE s == call[t].arg
<1>1. t = main /\ main \in Task /\ cur = main
  BY OnlyMain, SchedAssumption
     DEF sema_down, Step, spin_lock, spin_unlock, UpPc, ResumePc, CreatePc, main
<1> USE DEF UnlistedPc, MakePc, CreatePc, WakePc, UpPc, ResumePc, ChosenPc
<1>2. CASE spin_lock(t, s, "sema_down", "down_test")
  BY <1>1, <1>2, QuietStep DEF spin_lock, rest, GoingPc
<1>3. CASE /\ Step(t, "down_test", IF must_wait(s) THEN "suspend" ELSE "down_fast")
           /\ UNCHANGED <<status, ring, lock, rest>>
  <2>1. CASE must_wait(s)
    BY <1>1, <1>3, <2>1, QuietStep DEF rest, GoingPc
  <2>2. CASE ~must_wait(s)
    BY <1>1, <1>3, <2>2, QuietStep DEF rest, GoingPc
  <2> QED BY <2>1, <2>2
<1>4. CASE spin_unlock(t, s, "down_unlock", "schedule")
  <2>1. /\ pc[main] = "down_unlock" /\ pc'[main] = "schedule" /\ cur' = main
        /\ call' = call /\ ring' = ring /\ pages' = pages /\ status' = status
        /\ \A h : On(h)' = On(h)
    BY <1>1, <1>4 DEF Step, spin_unlock, rest, AllInv, TypeInv, TypeOK, On
  <2>2. InReady \/ Waits
    BY <1>1, <2>1, MainRuns DEF Unlinked, Between, Dead
  <2>3. MainPlaced'
    BY <1>1, <2>1, <2>2 DEF MainPlaced, InReady, Waits, GoingPc, SchedPc, On
  <2>4. Step(main, "down_unlock", "schedule")
    BY <1>1, <1>4 DEF spin_unlock
  <2>5. LocalMain'
    BY <2>1 DEF LocalMain
  <2> QED BY <2>1, <2>3, <2>4, <2>5, MainQuiet
<1>5. CASE spin_unlock(t, s, "down_fast", "user")
  BY <1>1, <1>5, QuietStep DEF spin_unlock, rest, GoingPc
<1> QED BY <1>2, <1>3, <1>4, <1>5 DEF sema_down

\* A statement of a sema_up that moves main's node, or none.
LEMMA WakeMoves ==
    ASSUME AllInv, NEW t \in Task \ {main}, NEW from \in UpPc, NEW to \in UpPc,
           Step(t, from, to), pages' = pages, todo' = todo, local'[main] = local[main],
           Rings(ring'), \A h \in Head_ : On(h)' \ {main} = On(h) \ {main},
           main \in On(Ready) => main \in On(Ready)', Wakers', MainPlaced'
    PROVE  RingInv'
<1>1. /\ cur' = cur /\ cur = t /\ call' = call /\ pc[t] = from /\ main \in Task
      /\ \A u \in Task : pc'[u] = IF u = t THEN to ELSE pc[u]
  BY SchedAssumption DEF Step, AllInv, TypeInv, TypeOK, main
<1>2. \A u \in Task \ {main} : \A h \in Head_ : u \in On(h)' <=> u \in On(h)
  OBVIOUS
<1>3. OthersPlaced'
  <2>1. from \notin UnlistedPc /\ to \notin UnlistedPc /\ from # "user"
    BY DEF UpPc, ResumePc, UnlistedPc, MakePc, CreatePc
  <2>2. \A u : Unlisted(u)' <=> Unlisted(u)
    BY <1>1, <2>1 DEF Unlisted
  <2> QED BY <1>1, <1>2, <2>1, <2>2 DEF AllInv, RingInv, OthersPlaced, Head_
<1>4. LocalMain'
  BY <1>1, <1>2 DEF AllInv, RingInv, LocalMain, Head_
<1>5. Peer'
  BY <1>1, <1>2 DEF AllInv, RingInv, Peer, Head_
<1> QED BY <1>3, <1>4, <1>5 DEF RingInv

LEMMA UpRing ==
    ASSUME AllInv, NEW t \in Task, sema_up(t), UNCHANGED <<isr, todo>>
    PROVE  RingInv'
<1> DEFINE s == call[t].arg
<1>1. main \in Task /\ Rings(ring) /\ ring \in Heap /\ cur = t
  BY SchedAssumption
     DEF AllInv, RingInv, TypeInv, SafeHeap, main, sema_up, Step, spin_lock, spin_unlock
<1> USE DEF UnlistedPc, MakePc, CreatePc, WakePc, UpPc, ResumePc
<1>2. CASE spin_lock(t, s, "sema_up", "up_inc")
  BY <1>2, QuietStep DEF spin_lock, rest, GoingPc
<1>3. CASE /\ Step(t, "up_inc", IF count[s] + 1 > 0 THEN "up_pop" ELSE "up_unlock")
           /\ UNCHANGED <<status, ring, lock, rest>>
  <2>1. CASE count[s] + 1 > 0
    BY <1>3, <2>1, QuietStep DEF rest, GoingPc
  <2>2. CASE ~(count[s] + 1 > 0)
    BY <1>3, <2>2, QuietStep DEF rest, GoingPc
  <2> QED BY <2>1, <2>2
<1>4. CASE /\ Step(t, "up_pop",
                   IF ~list_empty(ring, s) /\ list_first(ring, s) \in Task
                   THEN "resume" ELSE "up_unlock")
           /\ IF list_empty(ring, s)
              THEN UNCHANGED <<local, ring>>
              ELSE /\ local' = [local EXCEPT ![t] = list_first(ring, s)]
                   /\ ring' = list_del(ring, list_first(ring, s))
           /\ UNCHANGED <<status, lock, pages, all_tasks_list, next_pid, pid, count>>
  <2>1. CASE list_empty(ring, s)
    BY <1>4, <2>1, QuietStep DEF GoingPc
  <2>2. CASE ~list_empty(ring, s)
    <3>1. pc[t] = "up_pop"
      BY <1>4 DEF Step
    <3>2. s \in Head_ \ {Ready} /\ s \in Sem /\ s \in Lock
      <4>1. call[t] \in Call /\ call[t].op = "sema_up"
        BY <3>1 DEF AllInv, TypeInv, TypeOK, CallOK
      <4>2. s \in Sem
        BY <4>1, CallArg
      <4> QED BY <4>2, SchedAssumption DEF Head_, Lock
    <3>3. list_first(ring, s) = main /\ main \in On(s)
      BY <1>1, <2>2, <3>2, ListEmpty, OnTask DEF On
    <3>4. t # main
      <4>1. t = main => main \in On(Ready)
        BY <1>1, <3>1, GoingReady DEF GoingPc, InReady
      <4> QED BY <3>2, <3>3, <4>1, OnTask DEF Head_
    <3>5. Waits
      BY <3>2, <3>3, OnTask
         DEF AllInv, RingInv, MainPlaced, InReady, Popped, Unlinked, Between, Dead, Off, Head_
    <3>6. call[main].arg = s
      <4>1. call[main].arg \in Head_
        BY <1>1, <3>5, CallArg DEF Waits, AllInv, TypeInv, TypeOK, Head_
      <4> QED BY <3>2, <3>3, <3>5, <4>1, OnTask DEF Waits
    <3>7. pc[main] \notin {"suspend_unlock", "down_unlock"}
      BY <1>1, <3>1, <3>2, <3>4, <3>6 DEF AllInv, LockDiscipline, Holds, SemRegion
    <3>8. /\ status[main] = "TASK_BLOCKED" /\ cur # main /\ call[main].op = "sema_down"
          /\ pc[main] \in {"schedule", "sched_check", "sched_switch", "user"}
      BY <1>1, <3>4, <3>5, <3>7 DEF Waits
    <3>9. \A u \in Task : pc[u] \notin WakePc
      BY <3>2, <3>3 DEF AllInv, RingInv, Wakers, Off
    <3>10. /\ Step(t, "up_pop", "resume") /\ status' = status /\ pages' = pages
           /\ ring' = list_del(ring, main) /\ cur' = cur /\ call' = call
           /\ local'[t] = main /\ local'[main] = local[main]
           /\ \A u \in Task : pc'[u] = IF u = t THEN "resume" ELSE pc[u]
      BY <1>1, <1>4, <2>2, <3>3, <3>4 DEF Step, AllInv, TypeInv, TypeOK
    <3>11. Rings(ring') /\ \A h \in Head_ : On(h)' = On(h) \ {main}
      BY <3>2, <3>3, <3>10, DelMain DEF On
    <3>12. Off(main)'
      BY <3>11 DEF Off
    <3>13. Wakers'
      BY <1>1, <3>4, <3>8, <3>9, <3>10, <3>12 DEF Wakers
    <3>14. MainPlaced'
      BY <3>8, <3>10, <3>12 DEF MainPlaced, Popped
    <3>15. /\ \A h \in Head_ : On(h)' \ {main} = On(h) \ {main}
           /\ main \notin On(Ready)
      BY <3>2, <3>3, <3>11, OnTask DEF Head_
    <3> QED BY <3>4, <3>10, <3>11, <3>13, <3>14, <3>15, WakeMoves
  <2> QED BY <2>1, <2>2
<1>5. CASE spin_unlock(t, s, "up_unlock", "user")
  BY <1>5, QuietStep DEF spin_unlock, rest, GoingPc
<1> QED BY <1>2, <1>3, <1>4, <1>5 DEF sema_up

LEMMA ResumeRing ==
    ASSUME AllInv, NEW t \in Task, task_resume(t), UNCHANGED others
    PROVE  RingInv'
<1>1. main \in Task /\ Rings(ring) /\ ring \in Heap /\ cur = t /\ Ready \in Head_
  BY SchedAssumption
     DEF AllInv, RingInv, TypeInv, SafeHeap, main, task_resume, Step, spin_lock, spin_unlock,
         Relink, Head_
<1>2. pc[t] \in WakePc =>
        /\ local[t] = main /\ t # main /\ Off(main) /\ cur # main
        /\ pc[main] \in {"schedule", "sched_check", "sched_switch", "user"}
        /\ status[main] = IF pc[t] = "resume_add" THEN "TASK_RUNNING" ELSE "TASK_BLOCKED"
        /\ \A u \in Task \ {t} : pc[u] \notin WakePc
  BY <1>1 DEF AllInv, RingInv, Wakers
<1> USE DEF UnlistedPc, MakePc, CreatePc, WakePc, UpPc, ResumePc
<1>3. CASE spin_lock(t, "list_slock", "resume", "resume_test")
  BY <1>3, QuietStep DEF spin_lock, rest, others, GoingPc
<1>4. CASE /\ Step(t, "resume_test",
                    IF resumes(local[t]) THEN "resume_add" ELSE "resume_unlock")
           /\ status' = IF resumes(local[t])
                        THEN [status EXCEPT ![local[t]] = "TASK_RUNNING"] ELSE status
           /\ UNCHANGED <<ring, lock, rest>>
  <2>1. pc[t] = "resume_test"
    BY <1>4 DEF Step
  <2>2. /\ local[t] = main /\ t # main /\ Off(main) /\ cur # main
        /\ pc[main] \in {"schedule", "sched_check", "sched_switch", "user"}
        /\ status[main] = "TASK_BLOCKED"
        /\ \A u \in Task \ {t} : pc[u] \notin WakePc
    BY <1>2, <2>1
  <2>3. call[main].op = "sema_down"
    BY <1>1, <2>1, <2>2, CallArg, SchedAssumption
       DEF AllInv, RingInv, MainPlaced, InReady, Waits, Popped, Unlinked, Between, Dead, Off,
           TypeInv, TypeOK, Head_
  <2>4. /\ Step(t, "resume_test", "resume_add") /\ status'[main] = "TASK_RUNNING"
        /\ ring' = ring /\ local' = local /\ pages' = pages /\ cur' = cur /\ call' = call
        /\ \A u \in Task : pc'[u] = IF u = t THEN "resume_add" ELSE pc[u]
        /\ \A h : On(h)' = On(h)
    BY <1>1, <1>4, <2>2 DEF Step, resumes, rest, AllInv, TypeInv, TypeOK, On
  <2>5. Off(main)'
    BY <2>2, <2>4 DEF Off
  <2>6. Wakers'
    BY <1>1, <2>2, <2>4, <2>5 DEF Wakers
  <2>7. MainPlaced'
    BY <2>3, <2>4, <2>5 DEF MainPlaced, Popped
  <2> QED BY <1>1, <2>2, <2>4, <2>6, <2>7, WakeMoves DEF others
<1>5. CASE Relink(t, "resume_add", "resume_unlock", list_add_tail(ring, local[t], Ready))
  <2>1. pc[t] = "resume_add"
    BY <1>5 DEF Relink, Step
  <2>2. /\ local[t] = main /\ t # main /\ Off(main) /\ cur # main
        /\ pc[main] \in {"schedule", "sched_check", "sched_switch", "user"}
        /\ status[main] = "TASK_RUNNING"
        /\ \A u \in Task \ {t} : pc[u] \notin WakePc
    BY <1>2, <2>1
  <2>3. /\ Step(t, "resume_add", "resume_unlock") /\ status' = status
        /\ ring' = list_add_tail(ring, main, Ready)
        /\ local' = local /\ pages' = pages
        /\ \A u \in Task : pc'[u] = IF u = t THEN "resume_unlock" ELSE pc[u]
    BY <1>1, <1>5, <2>2 DEF Step, Relink, rest, AllInv, TypeInv, TypeOK
  <2>4. Rings(ring') /\ \A h \in Head_ : On(h)' = IF h = Ready THEN On(h) \cup {main} ELSE On(h)
    BY <1>1, <2>2, <2>3, AddOff DEF Off, On
  <2>5. Wakers'
    BY <2>2, <2>3 DEF Wakers
  <2>6. MainPlaced'
    BY <1>1, <2>2, <2>3, <2>4 DEF MainPlaced, InReady, GoingPc, SchedPc
  <2>7. (\A h \in Head_ : On(h)' \ {main} = On(h) \ {main}) /\ main \in On(Ready)'
    BY <1>1, <2>4
  <2> QED BY <2>2, <2>3, <2>4, <2>5, <2>6, <2>7, WakeMoves DEF others
<1>6. CASE spin_unlock(t, "list_slock", "resume_unlock", "up_unlock")
  BY <1>6, QuietStep DEF spin_unlock, rest, others, GoingPc
<1> QED BY <1>3, <1>4, <1>5, <1>6 DEF task_resume

\* task_create fails only when some other task is there already.
LEMMA CreatePeer ==
    ASSUME AllInv, NEW t \in Task, cur = t, pc[t] = "create", call[t].arg \in pages
    PROVE  \E u \in Task \ {main} : u \in On(Ready)
<1>1. CASE t # main
  BY <1>1, OtherRuns
<1>2. CASE t = main
  <2>1. SUFFICES ASSUME call[main].arg # main, call[main].op = "create"
                 PROVE  \E u \in Task \ {main} : u \in On(Ready)
    BY <1>2 DEF AllInv, RingInv, Peer, UnlistedPc, MakePc, CreatePc, TypeInv, CallOK
  <2>2. call[main].arg \in Task \ {main}
    BY <1>2, <2>1, CallArg DEF AllInv, TypeInv, TypeOK
  <2>3. CASE ~Unlisted(call[main].arg)
    BY <1>2, <2>2, <2>3 DEF AllInv, RingInv, OthersPlaced
  <2>4. CASE Unlisted(call[main].arg)
    <3>1. PICK u \in Task : pc[u] \in UnlistedPc
      BY <2>4 DEF Unlisted
    <3>2. u # main /\ pc[u] # "user"
      BY <1>2, <3>1 DEF UnlistedPc, MakePc, CreatePc
    <3> QED BY <3>2 DEF AllInv, RingInv, OthersPlaced
  <2> QED BY <2>3, <2>4
<1> QED BY <1>1, <1>2

LEMMA StructInitRing ==
    ASSUME AllInv, NEW t \in Task, Step(t, "create", "create_all_lock"),
           call[t].arg \notin pages, pages' = pages \cup {call[t].arg},
           status' = [status EXCEPT ![call[t].arg] = "TASK_BLOCKED"],
           ring' = ring, local' = local
    PROVE  RingInv'
<1>1. /\ cur' = cur /\ cur = t /\ call' = call /\ pc[t] = "create"
      /\ \A u \in Task : pc'[u] = IF u = t THEN "create_all_lock" ELSE pc[u]
      /\ \A h : On(h)' = On(h)
  BY DEF Step, AllInv, TypeInv, TypeOK, On
<1>2. PICK a \in Task : a = call[t].arg
  <2>1. call[t] \in Call /\ call[t].op = "create"
    BY <1>1 DEF AllInv, TypeInv, TypeOK, CallOK, CreatePc
  <2> QED BY <2>1, CallArg
<1>3. a # main /\ main \in Task /\ status'[main] = status[main]
  BY <1>2, SchedAssumption DEF AllInv, WorkInv, MakesApart, TypeInv, TypeOK, main
<1>4. OthersPlaced'
  <2>1. Unlisted(a)'
    BY <1>1, <1>2 DEF Unlisted, UnlistedPc, MakePc, CreatePc
  <2>2. \A u : u # a => (Unlisted(u)' <=> Unlisted(u))
    BY <1>1, <1>2 DEF Unlisted, UnlistedPc, MakePc, CreatePc
  <2>3. a \notin On(Ready)
    BY <1>2, <1>3 DEF AllInv, RingInv, OthersPlaced
  <2>4. \A u \in Task : u # a => (u \in pages' <=> u \in pages)
    BY <1>2
  <2>5. \A u \in Task : pc'[u] # "user" => pc[u] # "user"
    BY <1>1
  <2>6. \A u \in Task \ {main} : u \in On(Ready) <=> u \in pages' /\ ~Unlisted(u)'
    BY <2>1, <2>2, <2>3, <2>4 DEF AllInv, RingInv, OthersPlaced
  <2> QED BY <1>1, <2>5, <2>6 DEF AllInv, RingInv, OthersPlaced
<1>5. \A u \in Task : pc'[u] \in WakePc <=> pc[u] \in WakePc
  BY <1>1 DEF WakePc
<1>6. Off(main)' <=> Off(main)
  BY <1>1 DEF Off
<1>7. Wakers'
  <2>1. CASE t = main
    BY <1>1, <1>5, <2>1, NoWakers DEF Wakers
  <2>2. CASE t # main
    <3>1. pc'[main] = pc[main] /\ \A u \in Task : pc'[u] = "resume_add" <=> pc[u] = "resume_add"
      BY <1>1, <1>3, <2>2
    <3> QED BY <1>1, <1>3, <1>5, <1>6, <3>1 DEF AllInv, RingInv, Wakers
  <2> QED BY <2>1, <2>2
<1>8. MainPlaced'
  <2>1. CASE t = main
    <3>1. InReady
      BY <1>1, <2>1, GoingReady DEF GoingPc, CreatePc
    <3>2. InReady'
      BY <1>1, <1>3, <2>1, <3>1 DEF InReady, GoingPc, CreatePc
    <3> QED BY <3>2 DEF MainPlaced
  <2>2. CASE t # main
    <3>1. pc'[main] = pc[main]
      BY <1>1, <1>3, <2>2
    <3>2. InReady => InReady'
      BY <1>1, <1>3, <3>1 DEF InReady
    <3>3. Waits => Waits'
      BY <1>1, <1>3, <3>1 DEF Waits, On
    <3>4. Popped => Popped'
      BY <1>1, <1>5, <1>6 DEF Popped
    <3>5. ~Unlinked
      BY <1>1, <2>2 DEF Unlinked
    <3>6. Between => Between'
      BY <1>1, <1>3, <1>6, <3>1 DEF Between
    <3>7. Dead => Dead'
      BY <1>1, <1>3, <1>6, <3>1 DEF Dead
    <3> QED BY <3>2, <3>3, <3>4, <3>5, <3>6, <3>7 DEF MainPlaced, AllInv, RingInv
  <2> QED BY <2>1, <2>2
<1>9. LocalMain'
  BY <1>1, <1>3 DEF AllInv, RingInv, LocalMain, ChosenPc
<1>10. Peer'
  <2>1. CASE t = main
    BY <1>1, <1>2, <1>3, <2>1 DEF AllInv, RingInv, Peer, UnlistedPc, MakePc, CreatePc
  <2>2. CASE t # main
    BY <1>1, <2>2, OtherRuns DEF AllInv, RingInv, Peer
  <2> QED BY <2>1, <2>2
<1>11. Rings(ring')
  BY DEF AllInv, RingInv
<1> QED BY <1>4, <1>7, <1>8, <1>9, <1>10, <1>11 DEF RingInv

LEMMA CreateAddRing ==
    ASSUME AllInv, NEW t \in Task,
           Relink(t, "create_add", "create_unlock", list_add_tail(ring, call[t].arg, Ready))
    PROVE  RingInv'
<1>1. /\ cur' = cur /\ cur = t /\ call' = call /\ pc[t] = "create_add"
      /\ \A u \in Task : pc'[u] = IF u = t THEN "create_unlock" ELSE pc[u]
      /\ ring' = list_add_tail(ring, call[t].arg, Ready)
      /\ status' = status /\ local' = local /\ pages' = pages /\ main \in Task
  BY SchedAssumption DEF Relink, Step, AllInv, TypeInv, TypeOK, rest, main
<1> USE DEF UnlistedPc, MakePc, CreatePc
<1>2. PICK a \in Task : a = call[t].arg /\ a # main /\ a \in pages
  <2>1. call[t] \in Call /\ call[t].op = "create"
    BY <1>1 DEF AllInv, TypeInv, TypeOK, CallOK
  <2>2. call[t].arg \in pages \ {main}
    BY <1>1 DEF AllInv, WorkInv, MakesApart
  <2> QED BY <2>1, <2>2, CallArg
<1>3. Off(a)
  <2>1. Unlisted(a)
    BY <1>1, <1>2 DEF Unlisted
  <2>2. a \notin On(Ready) /\ \A s \in Sem : a \notin On(s)
    BY <1>2, <2>1 DEF AllInv, RingInv, OthersPlaced
  <2> QED BY <2>2 DEF Off, Head_
<1>4. Rings(ring') /\ \A h \in Head_ : On(h)' = IF h = Ready THEN On(h) \cup {a} ELSE On(h)
  <2>1. Rings(ring) /\ ring \in Heap /\ Ready \in Head_
    BY DEF AllInv, RingInv, TypeInv, SafeHeap, Head_
  <2>2. (\A h \in Head_ : a \notin Members(ring, h)) /\ ring' = list_add_tail(ring, a, Ready)
    BY <1>1, <1>2, <1>3 DEF Off, On
  <2> QED BY <2>1, <2>2, AddOff DEF On
<1>5. Ready \in Head_ /\ Sem \subseteq Head_ \ {Ready}
  BY SchedAssumption DEF Head_
<1>6. OthersPlaced'
  <2>1. ~Unlisted(a)'
    <3>1. \A u \in Task : pc[u] \in UnlistedPc /\ call[u].arg = a => u = t
      BY <1>1, <1>2 DEF AllInv, WorkInv, MakesApart
    <3> QED BY <1>1, <3>1 DEF Unlisted
  <2>2. \A u : u # a => (Unlisted(u)' <=> Unlisted(u))
    BY <1>1, <1>2 DEF Unlisted
  <2>3. \A u \in Task \ {main} : u \in On(Ready)' <=> u \in pages' /\ ~Unlisted(u)'
    BY <1>1, <1>2, <1>4, <1>5, <2>1, <2>2 DEF AllInv, RingInv, OthersPlaced
  <2>4. \A u \in Task \ {main} : (cur' = u \/ pc'[u] # "user") => u \in On(Ready)'
    BY <1>1, <1>4, <1>5 DEF AllInv, RingInv, OthersPlaced
  <2>5. \A u \in Task \ {main} : \A s \in Sem : u \notin On(s)'
    BY <1>4, <1>5 DEF AllInv, RingInv, OthersPlaced
  <2> QED BY <2>3, <2>4, <2>5 DEF OthersPlaced
<1>7. \A h \in Head_ : main \in On(h)' <=> main \in On(h)
  BY <1>2, <1>4
<1>8. Off(main)' <=> Off(main)
  BY <1>7 DEF Off
<1>9. \A u \in Task : pc'[u] \in WakePc <=> pc[u] \in WakePc
  BY <1>1 DEF WakePc
<1>10. Wakers'
  <2>1. CASE t = main
    BY <1>1, <1>9, <2>1, NoWakers DEF Wakers
  <2>2. CASE t # main
    <3>1. pc'[main] = pc[main] /\ \A u \in Task : pc'[u] = "resume_add" <=> pc[u] = "resume_add"
      BY <1>1, <2>2
    <3> QED BY <1>1, <1>8, <1>9, <3>1 DEF AllInv, RingInv, Wakers
  <2> QED BY <2>1, <2>2
<1>11. MainPlaced'
  <2>1. CASE t = main
    <3>1. InReady
      BY <1>1, <2>1, GoingReady DEF GoingPc
    <3>2. InReady'
      BY <1>1, <1>5, <1>7, <2>1, <3>1 DEF InReady, GoingPc
    <3> QED BY <3>2 DEF MainPlaced
  <2>2. CASE t # main
    <3>1. pc'[main] = pc[main]
      BY <1>1, <2>2
    <3>2. InReady => InReady'
      BY <1>1, <1>5, <1>7, <3>1 DEF InReady
    <3>3. Waits => Waits'
      <4>1. SUFFICES ASSUME Waits PROVE Waits'
        OBVIOUS
      <4>2. PICK s \in Head_ : s = call[main].arg
        BY <1>1, <4>1, CallArg DEF Waits, AllInv, TypeInv, TypeOK, Head_
      <4>3. main \in Members(ring', call'[main].arg)
        BY <1>1, <1>7, <4>1, <4>2 DEF Waits, On
      <4> QED BY <1>1, <3>1, <4>1, <4>3 DEF Waits, On
    <3>4. Popped => Popped'
      BY <1>1, <1>8, <1>9 DEF Popped
    <3>5. ~Unlinked
      BY <1>1, <2>2 DEF Unlinked
    <3>6. Between => Between'
      BY <1>1, <1>8, <3>1 DEF Between
    <3>7. Dead => Dead'
      BY <1>1, <1>8, <3>1 DEF Dead
    <3> QED BY <3>2, <3>3, <3>4, <3>5, <3>6, <3>7 DEF MainPlaced, AllInv, RingInv
  <2> QED BY <2>1, <2>2
<1>12. LocalMain'
  BY <1>1, <1>4, <1>5 DEF AllInv, RingInv, LocalMain, ChosenPc
<1>13. Peer'
  BY <1>1, <1>2, <1>4, <1>5 DEF AllInv, RingInv, Peer
<1> QED BY <1>4, <1>6, <1>10, <1>11, <1>12, <1>13 DEF RingInv

LEMMA CreateRing ==
    ASSUME AllInv, NEW t \in Task, task_create(t), UNCHANGED others
    PROVE  RingInv'
<1> USE DEF UnlistedPc, MakePc, CreatePc, WakePc, UpPc, ResumePc, others
<1>1. CASE task_struct_init(t)
  <2>1. CASE /\ Step(t, "create", IF call[t].arg \in pages THEN "user" ELSE "create_all_lock")
             /\ IF call[t].arg \in pages
                THEN UNCHANGED <<pages, status, pid>>
                ELSE /\ pages' = pages \cup {call[t].arg}
                     /\ status' = [status EXCEPT ![call[t].arg] = "TASK_BLOCKED"]
                     /\ pid' = [pid EXCEPT ![call[t].arg] = 0]
             /\ UNCHANGED <<local, ring, lock, all_tasks_list, next_pid>>
    <3>1. CASE call[t].arg \in pages
      <4>1. \E u \in Task \ {main} : u \in On(Ready)
        BY <2>1, <3>1, CreatePeer DEF Step
      <4> QED BY <2>1, <3>1, <4>1, QuietStep DEF GoingPc
    <3>2. CASE call[t].arg \notin pages
      BY <2>1, <3>2, StructInitRing
    <3> QED BY <3>1, <3>2
  <2>2. CASE spin_lock(t, "list_slock", "create_all_lock", "create_all_add")
    BY <2>2, QuietStep DEF spin_lock, rest, GoingPc
  <2>3. CASE /\ Step(t, "create_all_add", "create_all_unlock")
             /\ UNCHANGED <<local, status, ring, lock, pages, next_pid, pid>>
    BY <2>3, QuietStep DEF GoingPc
  <2>4. CASE spin_unlock(t, "list_slock", "create_all_unlock", "pid")
    BY <2>4, QuietStep DEF spin_unlock, rest, GoingPc
  <2> QED BY <1>1, <2>1, <2>2, <2>3, <2>4 DEF task_struct_init
<1>2. CASE allocate_pid(t)
  <2>1. CASE spin_lock(t, "pid_slock", "pid", "pid_inc")
    BY <2>1, QuietStep DEF spin_lock, rest, GoingPc
  <2>2. CASE /\ Step(t, "pid_inc", "pid_unlock")
             /\ UNCHANGED <<local, status, ring, lock, pages, all_tasks_list, pid>>
    BY <2>2, QuietStep DEF GoingPc
  <2>3. CASE spin_unlock(t, "pid_slock", "pid_unlock", "pid_read")
    BY <2>3, QuietStep DEF spin_unlock, rest, GoingPc
  <2>4. CASE /\ Step(t, "pid_read", "create_lock")
             /\ UNCHANGED <<local, status, ring, lock, pages, all_tasks_list, next_pid>>
    BY <2>4, QuietStep DEF GoingPc
  <2> QED BY <1>2, <2>1, <2>2, <2>3, <2>4 DEF allocate_pid
<1>3. CASE spin_lock(t, "list_slock", "create_lock", "create_add")
  BY <1>3, QuietStep DEF spin_lock, rest, GoingPc
<1>4. CASE Relink(t, "create_add", "create_unlock", list_add_tail(ring, call[t].arg, Ready))
  BY <1>4, CreateAddRing
<1>5. CASE spin_unlock(t, "list_slock", "create_unlock", "create_status")
  BY <1>5, QuietStep DEF spin_unlock, rest, GoingPc
<1>6. CASE SetStatus(t, "create_status", "user", call[t].arg, "TASK_READY")
  <2>1. pc[t] = "create_status"
    BY <1>6 DEF SetStatus, Step
  <2>2. call[t].arg # main
    BY <2>1 DEF AllInv, WorkInv, MakesApart
  <2>3. status'[main] = status[main]
    BY <1>6, <2>2, SchedAssumption DEF SetStatus, AllInv, TypeInv, TypeOK, main
  <2> QED BY <1>6, <2>3, QuietStep DEF SetStatus, rest, GoingPc
<1> QED BY <1>1, <1>2, <1>3, <1>4, <1>5, <1>6 DEF task_create

---------------------------------------------------------------------------
(* Calls, interrupts, the beginning.                                       *)

LEMMA InvokeRing ==
    ASSUME AllInv, NEW t \in Task, Invoke(t)
    PROVE  RingInv'
<1>1. /\ todo[t] \in Seq(Call) /\ todo[t] # <<>> /\ pc[t] = "user" /\ cur = t /\ cur' = cur
      /\ status' = status /\ ring' = ring /\ local' = local /\ pages' = pages
      /\ \A u \in Task : /\ pc'[u] = IF u = t THEN Head(todo[t]).op ELSE pc[u]
                         /\ call'[u] = IF u = t THEN Head(todo[t]) ELSE call[u]
                         /\ todo'[u] = IF u = t THEN Tail(todo[t]) ELSE todo[u]
      /\ \A h : On(h)' = On(h)
  BY DEF Invoke, rest, AllInv, TypeInv, TypeOK, On
<1>2. Head(todo[t]).op \in {"create", "sema_down", "sema_up", "exit"} /\ main \in Task
  BY <1>1, CallArg, SchedAssumption DEF main
<1> USE DEF UnlistedPc, MakePc, CreatePc, WakePc, UpPc, ResumePc
<1>3. \A u \in Task : /\ pc'[u] \in WakePc <=> pc[u] \in WakePc
                      /\ pc'[u] = "resume_add" <=> pc[u] = "resume_add"
                      /\ pc'[u] \in UnlistedPc <=> pc[u] \in UnlistedPc
                      /\ pc[u] \in UnlistedPc => call'[u] = call[u]
  BY <1>1, <1>2
<1>4. Off(main)' <=> Off(main)
  BY <1>1 DEF Off
<1>5. OthersPlaced'
  <2>1. \A u : Unlisted(u)' <=> Unlisted(u)
    BY <1>3 DEF Unlisted
  <2> QED BY <1>1, <2>1 DEF AllInv, RingInv, OthersPlaced
<1>6. Wakers'
  <2>1. CASE t = main
    BY <1>1, <1>3, <2>1, NoWakers DEF Wakers
  <2>2. CASE t # main
    BY <1>1, <1>2, <1>3, <1>4, <2>2 DEF AllInv, RingInv, Wakers
  <2> QED BY <2>1, <2>2
<1>7. MainPlaced'
  <2>1. CASE t = main
    <3>1. InReady
      BY <1>1, <2>1, GoingReady DEF GoingPc
    <3>2. InReady'
      BY <1>1, <1>2, <2>1, <3>1 DEF InReady, GoingPc
    <3> QED BY <3>2 DEF MainPlaced
  <2>2. CASE t # main
    <3>1. pc'[main] = pc[main] /\ call'[main] = call[main]
      BY <1>1, <1>2, <2>2
    <3>2. InReady => InReady'
      BY <1>1, <3>1 DEF InReady
    <3>3. Waits => Waits'
      BY <1>1, <3>1 DEF Waits, On
    <3>4. Popped => Popped'
      BY <1>1, <1>3, <1>4, <3>1 DEF Popped
    <3>5. ~Unlinked
      BY <1>1, <2>2 DEF Unlinked
    <3>6. Between => Between'
      BY <1>1, <1>4, <3>1 DEF Between
    <3>7. Dead => Dead'
      BY <1>1, <1>4, <3>1 DEF Dead
    <3> QED BY <3>2, <3>3, <3>4, <3>5, <3>6, <3>7 DEF MainPlaced, AllInv, RingInv
  <2> QED BY <2>1, <2>2
<1>8. LocalMain'
  BY <1>1, <1>2 DEF AllInv, RingInv, LocalMain, ChosenPc
<1>9. Peer'
  <2>1. CASE \E u \in Task \ {main} : u \in On(Ready)
    BY <1>1, <2>1 DEF AllInv, RingInv, Peer
  <2>2. CASE ~\E u \in Task \ {main} : u \in On(Ready)
    <3>1. t = main
      BY <1>1, <2>2, OtherRuns
    <3>2. Head(todo[main]).op = "create" /\ Head(todo[main]).arg # main
      BY <1>1, <2>2, <3>1 DEF AllInv, RingInv, Peer
    <3> QED BY <1>1, <1>2, <3>1, <3>2 DEF AllInv, RingInv, Peer
  <2> QED BY <2>1, <2>2
<1>10. Rings(ring')
  BY <1>1 DEF AllInv, RingInv
<1> QED BY <1>5, <1>6, <1>7, <1>8, <1>9, <1>10 DEF RingInv

LEMMA StutterRing ==
    ASSUME AllInv, UNCHANGED <<cur, pc, call, local, status, ring, pages, todo>>
    PROVE  RingInv'
<1>1. \A h : On(h)' = On(h)
  BY DEF On
<1>2. (Off(main)' <=> Off(main)) /\ \A t : Unlisted(t)' <=> Unlisted(t)
  BY <1>1 DEF Off, Unlisted
<1>3. OthersPlaced' /\ Wakers' /\ LocalMain' /\ Peer' /\ Rings(ring')
  BY <1>1, <1>2 DEF AllInv, RingInv, OthersPlaced, Wakers, LocalMain, Peer
<1>4. MainPlaced'
  BY <1>1, <1>2
     DEF AllInv, RingInv, MainPlaced, InReady, Waits, Popped, Unlinked, Between, Dead, On
<1> QED BY <1>3, <1>4 DEF RingInv

\* What the tick does to the lists: a task that still runs goes to the tail of
\* the ready list, main also from a wait list or from no list at all.
LEMMA TickMoves ==
    ASSUME AllInv, TickIsr
    PROVE  /\ Rings(ring')
           /\ \A h \in Head_ :
                 On(h)' = IF status[cur] # "TASK_RUNNING" THEN On(h)
                          ELSE IF h = Ready THEN On(h) \cup {cur} ELSE On(h) \ {cur}
<1> DEFINE requeues == status[cur] = "TASK_RUNNING"
<1>1. /\ ring' = IF requeues THEN requeue(ring, cur) ELSE ring
      /\ requeues => lock["list_slock"] = 1
  BY DEF TickIsr
<1>2. /\ main \in Task /\ cur \in Task /\ Ready \in Head_ /\ Rings(ring) /\ ring \in Heap
      /\ Sem = Head_ \ {Ready}
  BY SchedAssumption DEF AllInv, RingInv, TypeInv, SafeHeap, Peer, Head_, main
<1>3. requeues => pc[cur] \notin ListRegion
  BY <1>1, <1>2 DEF AllInv, LockDiscipline, Holds, Lock
<1>4. cur = main /\ requeues => InReady \/ Waits \/ Unlinked
  BY <1>3, MainRuns DEF Between, Dead, ListRegion
<1>5. CASE ~requeues
  BY <1>1, <1>2, <1>5 DEF On
<1>6. CASE requeues /\ \E h \in Head_ : cur \in On(h)
  <2>1. PICK h \in Head_ : cur \in On(h)
    BY <1>6
  <2>2. PICK r : r = list_del(ring, cur)
    OBVIOUS
  <2>3. Rings(r) /\ r \in Heap /\ \A g \in Head_ : Members(r, g) = On(g) \ {cur}
    <3>1. /\ Rings(r) /\ r \in Heap /\ Members(r, h) = On(h) \ {cur}
          /\ \A g \in Head_ : g # h => Members(r, g) = On(g)
      BY <1>2, <2>1, <2>2, RingsDel DEF On
    <3>2. \A g \in Head_ : g # h => cur \notin On(g)
      BY <2>1, OnTask
    <3> QED BY <3>1, <3>2
  <2>4. ring' = list_add_tail(r, cur, Ready)
    BY <1>1, <1>6, <2>2 DEF requeue
  <2>5. /\ Rings(ring')
        /\ \A g \in Head_ : Members(ring', g) =
              IF g = Ready THEN Members(r, g) \cup {cur} ELSE Members(r, g)
    <3>1. \A g \in Head_ : cur \notin Members(r, g)
      BY <2>3
    <3> QED BY <1>2, <2>3, <2>4, <3>1, AddOff
  <2> QED BY <1>2, <1>6, <2>3, <2>5 DEF On
<1>7. CASE requeues /\ ~\E h \in Head_ : cur \in On(h)
  <2>1. cur = main
    BY <1>2, <1>7 DEF AllInv, RingInv, OthersPlaced
  <2>2. Unlinked
    BY <1>2, <1>4, <1>7, <2>1, CallArg
       DEF InReady, Waits, AllInv, TypeInv, TypeOK, Head_
  <2>3. list_del(ring, cur) = ring
    BY <1>2, <2>1, <2>2, DelTwice DEF Unlinked, Node
  <2>4. ring' = list_add_tail(ring, cur, Ready) /\ \A h \in Head_ : cur \notin Members(ring, h)
    BY <1>1, <1>7, <2>3 DEF requeue, On
  <2>5. /\ Rings(ring')
        /\ \A g \in Head_ : Members(ring', g) =
              IF g = Ready THEN Members(ring, g) \cup {cur} ELSE Members(ring, g)
    BY <1>2, <2>4, AddOff
  <2> QED BY <1>7, <2>4, <2>5 DEF On
<1> QED BY <1>5, <1>6, <1>7

LEMMA TickRing ==
    ASSUME AllInv, TickIsr
    PROVE  RingInv'
<1> DEFINE requeues == status[cur] = "TASK_RUNNING"
           next     == list_first(ring, Ready)
<1>1. /\ ring' = IF requeues THEN requeue(ring, cur) ELSE ring
      /\ switch_to(next) /\ UNCHANGED <<pc, call, local, todo>>
      /\ requeues => lock["list_slock"] = 1
  BY DEF TickIsr
<1>2. /\ main \in Task /\ cur \in Task /\ Ready \in Head_ /\ Rings(ring) /\ ring \in Heap
      /\ Sem = Head_ \ {Ready}
  BY SchedAssumption DEF AllInv, RingInv, TypeInv, SafeHeap, Peer, Head_, main
<1>3. next \in On(Ready) /\ next \in Task /\ cur' = next /\ pages' = pages
  BY <1>1, <1>2, FirstReady, OnTask, NoPageFreed DEF switch_to, AllInv
<1>4. \A t \in Task : status'[t] = IF t = next THEN "TASK_RUNNING" ELSE status[t]
  BY <1>1, <1>3 DEF switch_to, AllInv, TypeInv, TypeOK
<1>5. requeues => pc[cur] \notin ListRegion
  BY <1>1, <1>2 DEF AllInv, LockDiscipline, Holds, Lock
<1>6. cur = main /\ requeues => InReady \/ Waits \/ Unlinked
  BY <1>5, MainRuns DEF Between, Dead, ListRegion
<1>7. /\ Rings(ring')
      /\ \A h \in Head_ : On(h)' = IF ~requeues THEN On(h)
                                   ELSE IF h = Ready THEN On(h) \cup {cur} ELSE On(h) \ {cur}
  BY TickMoves
<1>8. /\ \A h \in Head_ : On(h)' \ {main} = On(h) \ {main}
      /\ On(Ready) \subseteq On(Ready)'
  <2>1. cur # main => cur \in On(Ready) /\ \A s \in Sem : cur \notin On(s)
    BY <1>2 DEF AllInv, RingInv, OthersPlaced
  <2> QED BY <1>2, <1>7, <2>1
<1>9. \A t \in Task \ {main} : \A h \in Head_ : t \in On(h)' <=> t \in On(h)
  BY <1>8
<1>10. OthersPlaced'
  <2>1. \A t : Unlisted(t)' <=> Unlisted(t)
    BY <1>1 DEF Unlisted
  <2> QED BY <1>1, <1>2, <1>3, <1>9, <2>1 DEF AllInv, RingInv, OthersPlaced
<1>11. cur # main \/ ~requeues => \A h \in Head_ : main \in On(h)' <=> main \in On(h)
  BY <1>2, <1>7
<1>12. Wakers'
  <2>1. CASE \E t \in Task : pc[t] \in WakePc
    <3>1. cur # main /\ Off(main)
      BY <2>1 DEF AllInv, RingInv, Wakers
    <3>2. Off(main)' /\ next # main
      BY <1>2, <1>3, <1>11, <3>1 DEF Off
    <3> QED BY <1>1, <1>2, <1>3, <1>4, <3>2 DEF AllInv, RingInv, Wakers
  <2>2. CASE ~\E t \in Task : pc[t] \in WakePc
    BY <1>1, <2>2 DEF Wakers
  <2> QED BY <2>1, <2>2
<1>13. MainPlaced'
  <2>1. CASE cur = main /\ requeues
    <3>1. status'[main] = "TASK_RUNNING" /\ main \in On(Ready)'
      BY <1>2, <1>4, <1>7, <2>1
    <3>2. InReady'
      BY <1>1, <1>5, <1>6, <2>1, <3>1
         DEF InReady, Waits, Unlinked, GoingPc, SchedPc, ListRegion, UpPc, ResumePc, CreatePc
    <3> QED BY <3>2 DEF MainPlaced
  <2>2. CASE ~(cur = main /\ requeues)
    <3>1. \A h \in Head_ : main \in On(h)' <=> main \in On(h)
      BY <1>11, <2>2
    <3>2. Off(main)' <=> Off(main)
      BY <3>1 DEF Off
    <3>3. Off(main) => next # main
      BY <1>2, <1>3 DEF Off
    <3>4. InReady => InReady'
      BY <1>1, <1>2, <1>4, <3>1 DEF InReady
    <3>5. Waits => Waits'
      <4>1. SUFFICES ASSUME Waits PROVE Waits'
        OBVIOUS
      <4>2. PICK s \in Head_ : s = call[main].arg /\ s # Ready
        BY <1>2, <4>1, CallArg DEF Waits, AllInv, TypeInv, TypeOK
      <4>3. main \in Members(ring', call'[main].arg)
        BY <1>1, <3>1, <4>1, <4>2 DEF Waits, On
      <4>4. main \notin On(Ready)
        BY <1>2, <4>1, <4>2, OnTask DEF Waits
      <4>5. next # main
        BY <1>3, <4>4
      <4>6. status[main] = "TASK_BLOCKED"
        BY <2>2, <4>1 DEF Waits
      <4> QED BY <1>1, <1>2, <1>3, <1>4, <4>1, <4>3, <4>5, <4>6 DEF Waits, On
    <3>6. Popped => Popped'
      BY <1>1, <3>2 DEF Popped
    <3>7. ~Unlinked
      BY <2>2 DEF Unlinked
    <3>8. Between => Between'
      BY <1>1, <1>2, <1>4, <2>2, <3>2, <3>3 DEF Between
    <3>9. Dead => Dead'
      BY <1>1, <1>2, <1>4, <3>2, <3>3 DEF Dead
    <3> QED BY <3>4, <3>5, <3>6, <3>7, <3>8, <3>9 DEF MainPlaced, AllInv, RingInv
  <2> QED BY <2>1, <2>2
<1>14. LocalMain'
  BY <1>1, <1>8 DEF AllInv, RingInv, LocalMain
<1>15. Peer'
  BY <1>1, <1>2, <1>3, <1>8 DEF AllInv, RingInv, Peer
<1> QED BY <1>7, <1>10, <1>12, <1>13, <1>14, <1>15 DEF RingInv

\* A device's sema_up moves main from a wait list to the ready list; or, when
\* main still runs, to no list.
LEMMA DeviceRing ==
    ASSUME AllInv, NEW s \in IrqSem, DeviceIsr(s)
    PROVE  RingInv'
<1> DEFINE first  == list_first(ring, s)
           popped == list_del(ring, first)
           wakes  == first \in Task /\ resumes(first)
<1>1. /\ UNCHANGED <<cur, pc, call, local, pages, todo>> /\ lock[s] = 1
      /\ IF count[s] + 1 > 0 /\ ~list_empty(ring, s)
         THEN /\ first \in Task => lock["list_slock"] = 1
              /\ ring' = IF wakes THEN list_add_tail(popped, first, Ready) ELSE popped
              /\ status' = IF wakes THEN [status EXCEPT ![first] = "TASK_RUNNING"]
                                    ELSE status
         ELSE UNCHANGED <<ring, status>>
  BY DEF DeviceIsr, sema_up_in_isr, rest
<1>2. /\ main \in Task /\ Ready \in Head_ /\ Rings(ring) /\ ring \in Heap
      /\ s \in Head_ \ {Ready} /\ s \in Sem /\ s \in Lock
  BY SchedAssumption, KernelAssumption
     DEF AllInv, RingInv, TypeInv, SafeHeap, Head_, Lock, main
<1>3. CASE ~(count[s] + 1 > 0 /\ ~list_empty(ring, s))
  BY <1>1, <1>3, StutterRing
<1>4. CASE count[s] + 1 > 0 /\ ~list_empty(ring, s)
  <2>1. first = main /\ main \in On(s)
    BY <1>2, <1>4, ListEmpty, OnTask DEF On
  <2>2. lock["list_slock"] = 1
    BY <1>1, <1>2, <1>4, <2>1
  <2>3. Waits
    BY <1>2, <2>1, OnTask
       DEF AllInv, RingInv, MainPlaced, InReady, Popped, Unlinked, Between, Dead, Off
  <2>4. call[main].arg = s
    <3>1. call[main].arg \in Head_
      BY <1>2, <2>3, CallArg DEF Waits, AllInv, TypeInv, TypeOK, Head_
    <3> QED BY <1>2, <2>1, <2>3, <3>1, OnTask DEF Waits
  <2>5. pc[main] \notin {"suspend_unlock", "down_unlock"}
    BY <1>1, <1>2, <2>4 DEF AllInv, LockDiscipline, Holds, SemRegion
  <2>6. \A t \in Task : pc[t] \notin WakePc
    BY <1>2, <2>1 DEF AllInv, RingInv, Wakers, Off
  <2>7. main \notin On(Ready)
    BY <1>2, <2>1, OnTask
  <2>8. PICK r : r = list_del(ring, main)
    OBVIOUS
  <2>9. /\ Rings(r) /\ r \in Heap /\ Adjacent(r, main)
        /\ \A h \in Head_ : Members(r, h) = On(h) \ {main}
    BY <1>2, <2>1, <2>8, DelMain
  <2>10. /\ Rings(ring') /\ (\A h \in Head_ : On(h)' \ {main} = On(h) \ {main})
         /\ On(Ready) \subseteq On(Ready)' /\ MainPlaced'
    <3>1. CASE status[main] = "TASK_BLOCKED"
      <4>1. ring' = list_add_tail(r, main, Ready) /\ status'[main] = "TASK_RUNNING"
        BY <1>1, <1>2, <1>4, <2>1, <2>8, <3>1 DEF resumes, AllInv, TypeInv, TypeOK
      <4>2. /\ Rings(ring')
            /\ \A h \in Head_ : On(h)' = IF h = Ready THEN Members(r, h) \cup {main}
                                                      ELSE Members(r, h)
        <5>1. \A h \in Head_ : main \notin Members(r, h)
          BY <2>9
        <5> QED BY <1>2, <2>9, <4>1, <5>1, AddOff DEF On
      <4>3. main \in On(Ready)' /\ \A h \in Head_ : On(h)' \ {main} = On(h) \ {main}
        BY <1>2, <2>9, <4>2
      <4>4. On(Ready) \subseteq On(Ready)'
        BY <1>2, <2>7, <2>9, <4>2
      <4>5. InReady'
        BY <1>1, <2>3, <2>5, <3>1, <4>1, <4>3 DEF InReady, Waits, GoingPc, SchedPc
      <4> QED BY <4>2, <4>3, <4>4, <4>5 DEF MainPlaced
    <3>2. CASE status[main] # "TASK_BLOCKED"
      <4>1. ring' = r /\ status' = status
        BY <1>1, <1>4, <2>1, <2>8, <3>2 DEF resumes
      <4>2. /\ Rings(ring') /\ Adjacent(ring', main)
            /\ \A h \in Head_ : On(h)' = On(h) \ {main}
        BY <2>9, <4>1 DEF On
      <4>3. Off(main)'
        BY <4>2 DEF Off
      <4>4. Unlinked'
        BY <1>1, <2>3, <2>5, <3>2, <4>1, <4>2, <4>3 DEF Unlinked, Waits
      <4>5. \A h \in Head_ : On(h)' \ {main} = On(h) \ {main}
        BY <4>2
      <4>6. On(Ready) \subseteq On(Ready)'
        BY <1>2, <2>7, <4>2
      <4> QED BY <4>2, <4>4, <4>5, <4>6 DEF MainPlaced
    <3> QED BY <3>1, <3>2
  <2>11. \A t \in Task \ {main} : \A h \in Head_ : t \in On(h)' <=> t \in On(h)
    BY <2>10
  <2>12. OthersPlaced'
    <3>1. \A t : Unlisted(t)' <=> Unlisted(t)
      BY <1>1 DEF Unlisted
    <3> QED BY <1>1, <1>2, <2>11, <3>1 DEF AllInv, RingInv, OthersPlaced, Head_
  <2>13. Wakers'
    BY <1>1, <2>6 DEF Wakers
  <2>14. LocalMain'
    BY <1>1, <2>7, <2>10 DEF AllInv, RingInv, LocalMain
  <2>15. Peer'
    BY <1>1, <2>10 DEF AllInv, RingInv, Peer
  <2> QED BY <2>10, <2>12, <2>13, <2>14, <2>15 DEF RingInv
<1> QED BY <1>3, <1>4

\* sched_init leaves main alone on the ready list and the wait lists empty.
LEMMA RingInit == MainAlone /\ Init => RingInv
<1> SUFFICES ASSUME MainAlone, Init PROVE RingInv
  OBVIOUS
<1>1. PICK empty : empty = list_head_init(Node, Head_, NULL)
  OBVIOUS
<1>2. /\ ring = list_add(empty, main, Ready) /\ cur = main /\ main \in Task /\ Ready \in Head_
      /\ pc = [t \in Task |-> "user"] /\ pages = {main} /\ todo \in Scripts
      /\ local = [t \in Task |-> NULL] /\ Sem = Head_ \ {Ready}
  BY <1>1, SchedAssumption DEF Init, SchedInit, main, Head_
<1>3. empty \in Heap /\ \A n \in Node : empty.next[n] = (IF n \in Head_ THEN n ELSE NULL)
                                        /\ empty.prev[n] = (IF n \in Head_ THEN n ELSE NULL)
  BY <1>1 DEF list_head_init, Heap
<1>4. ASSUME NEW h \in Head_ PROVE Ring(empty, h) /\ Members(empty, h) = {}
  <2>1. h \in Node
    BY Heads
  <2>2. Around(empty, h) \subseteq {h}
    <3>1. PICK W \in SUBSET Node : W = {h}
      BY <2>1
    <3>2. h \in W /\ \A n \in W : empty.next[n] \in Node => empty.next[n] \in W
      BY <1>3, <2>1, <3>1
    <3> QED BY <1>3, <2>1, <3>1, <3>2, LeastLap
  <2>3. Members(empty, h) = {} /\ Around(empty, h) = {h}
    BY <1>3, <2>1, <2>2, LeastLap, MembersAround
  <2> QED BY <1>3, <2>1, <2>3 DEF Ring
<1>5. Rings(empty)
  BY <1>4 DEF Rings
<1>6. Rings(ring) /\ \A h \in Head_ : On(h) = IF h = Ready THEN {main} ELSE {}
  <2>1. \A h \in Head_ : main \notin Members(empty, h)
    BY <1>4
  <2>2. /\ Rings(ring)
        /\ \A h \in Head_ : Members(ring, h) = IF h = Ready THEN Members(empty, h) \cup {main}
                                                            ELSE Members(empty, h)
    BY <1>2, <1>3, <1>5, <2>1, AddOff
  <2> QED BY <1>2, <1>4, <2>2 DEF On
<1>7. OthersPlaced
  BY <1>2, <1>6 DEF OthersPlaced
<1>8. Wakers
  BY <1>2 DEF Wakers, WakePc
<1>9. MainPlaced
  BY <1>2, <1>6 DEF MainPlaced, InReady, GoingPc
<1>10. LocalMain
  BY <1>2 DEF LocalMain, ChosenPc
<1>11. Peer
  BY <1>2, <1>6 DEF Peer, MainAlone, main
<1> QED BY <1>6, <1>7, <1>8, <1>9, <1>10, <1>11 DEF RingInv

LEMMA RingNext == AllInv /\ [Next]_vars => RingInv'
<1> SUFFICES ASSUME AllInv, [Next]_vars PROVE RingInv'
  OBVIOUS
<1>1. ASSUME NEW t \in Task, TaskStep(t) PROVE RingInv'
  BY <1>1, InvokeRing, ScheduleRing, ExitRing, SuspendRing, ResumeRing, CreateRing, DownRing,
     UpRing DEF TaskStep, SchedStep, others
<1>2. ASSUME NEW v \in Vector, Interrupt(v) PROVE RingInv'
  BY <1>2, StutterRing DEF Interrupt, rest
<1>3. CASE TickIsr
  BY <1>3, TickRing
<1>4. ASSUME NEW s \in IrqSem, DeviceIsr(s) PROVE RingInv'
  BY <1>4, DeviceRing
<1>5. CASE UNCHANGED vars
  BY <1>5, StutterRing DEF vars, schedVars
<1> QED BY <1>1, <1>2, <1>3, <1>4, <1>5 DEF Next

LEMMA AllInit == MainAlone /\ Init => AllInv
BY TypeInit, LockInit, WorkInit, RingInit DEF AllInv

LEMMA AllNext == AllInv /\ [Next]_vars => AllInv'
<1> SUFFICES ASSUME AllInv, [Next]_vars PROVE AllInv'
  OBVIOUS
<1>1. TypeInv' /\ LockDiscipline' /\ WorkInv' /\ RingInv'
  BY TypeNext, LockNext, WorkNext, RingNext DEF AllInv
<1> QED BY <1>1 DEF AllInv

---------------------------------------------------------------------------
\* However many tasks, semaphores and interrupts, and wherever these land: as
\* long as main alone waits, the lists of the scheduler stay closed rings.
THEOREM ListsStayRings == MainAlone /\ Spec => []RingsOK
<1>1. AllInv => RingsOK
  BY RingsAreRings DEF AllInv, RingInv, TypeInv, SafeHeap, RingsOK
<1> QED BY <1>1, AllInit, AllNext, PTL DEF Spec

\* A task is in one list at most, in the middle of task_suspend and task_resume
\* too (OneList).
THEOREM NeverOnTwoLists == MainAlone /\ Spec => []OneList
<1>1. ASSUME AllInv, NEW g \in Head_, NEW h \in Head_,
             NEW t \in Members(ring, g) \cap Task, t \in Members(ring, h)
      PROVE  g = h
  BY <1>1, OnTask DEF On
<1>2. AllInv => OneList
  <2> SUFFICES ASSUME AllInv, NEW g \in Head_, NEW h \in Head_,
                      NEW t \in Members(ring, g) \cap Task, t \in Members(ring, h)
               PROVE  g = h
    BY DEF OneList
  <2> QED BY <1>1
<1> QED BY <1>2, AllInit, AllNext, PTL DEF Spec

\* The processor always has a task to run, and every task that does not run can
\* be found again, whatever statement it was preempted at (NoTaskLost).
THEOREM TasksAreFound == MainAlone /\ Spec => []NoTaskLost
<1>1. ASSUME AllInv, NEW t \in pages \ {cur}, t # main
      PROVE  t \in Members(ring, Ready) \/ Creating(t)
  <2>1. t \in Task /\ (t \in On(Ready) \/ Unlisted(t))
    BY <1>1 DEF AllInv, TypeInv, TypeOK, RingInv, OthersPlaced
  <2>2. ASSUME NEW u \in Task, pc[u] \in UnlistedPc, call[u].arg = t PROVE Creating(t)
    <3>1. call[u] \in Call /\ call[u].op = "create"
      BY <1>1, <2>2 DEF AllInv, TypeInv, TypeOK, CallOK, UnlistedPc, MakePc
    <3>2. call[u] = [op |-> "create", arg |-> t]
      BY <2>2, <3>1 DEF Call
    <3> QED BY <2>2, <3>2 DEF Creating, UnlistedPc, MakePc, CreatePc
  <2> QED BY <2>1, <2>2 DEF Unlisted, On
<1>2. ASSUME AllInv, cur # main
      PROVE  \/ main \in Members(ring, Ready)
             \/ call[main].op = "sema_down" /\ main \in Members(ring, call[main].arg)
             \/ Waking(main) \/ Exited(main) \/ Holds(main, "list_slock")
  <2>1. InReady => main \in Members(ring, Ready)
    BY DEF InReady, On
  <2>2. Waits => call[main].op = "sema_down" /\ main \in Members(ring, call[main].arg)
    BY DEF Waits, On
  <2>3. Popped => Waking(main)
    BY <1>2 DEF Popped, Waking, AllInv, RingInv, Wakers, WakePc
  <2>4. ~Unlinked
    BY <1>2 DEF Unlinked
  <2>5. Between => Holds(main, "list_slock")
    BY DEF Between, Holds, ListRegion
  <2>6. Dead => Exited(main)
    BY DEF Dead, Exited
  <2> QED BY <1>2, <2>1, <2>2, <2>3, <2>4, <2>5, <2>6 DEF AllInv, RingInv, MainPlaced
<1>3. AllInv => NoTaskLost
  <2>1. AllInv => cur \in Task
    BY DEF AllInv, RingInv, Peer
  <2> QED BY <1>1, <1>2, <2>1 DEF NoTaskLost
<1> QED BY <1>3, AllInit, AllNext, PTL DEF Spec
=============================================================================
