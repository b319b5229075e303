---------------------------- MODULE LinkedList ----------------------------
(***************************************************************************)
(* lib/list.h: circular doubly-linked lists threaded through their nodes.  *)
(*                                                                         *)
(* A heap of nodes is a record of two functions, next and prev, from nodes *)
(* to pointers.  A list is the ring through its head.  A node that was     *)
(* deleted keeps its old pointers, exactly as list_del leaves them, so a   *)
(* second deletion or a stale traversal does here what it does in C.       *)
(***************************************************************************)
EXTENDS Naturals, FiniteSets

\* Mutant: a head is initialised with one pointer only.
heads_not_closed(nodes, heads, null) ==
    [next |-> [n \in nodes |-> IF n \in heads THEN n ELSE null],
     prev |-> [n \in nodes |-> null]]

\* A heap in which every node of heads is an empty ring and every other node
\* has never been linked (its fields were zeroed by memset).
list_head_init(nodes, heads, null) ==
    LET self == [n \in nodes |-> IF n \in heads THEN n ELSE null]
    IN  [next |-> self, prev |-> self]

list_empty(r, head) == r.next[head] = head \/ r.prev[head] = head

\* __list_add: node goes between the neighbours p and n.
Splice(r, node, p, n) ==
    [next |-> [r.next EXCEPT ![node] = n, ![p] = node],
     prev |-> [r.prev EXCEPT ![node] = p, ![n] = node]]

list_add(r, node, head) == Splice(r, node, head, r.next[head])

\* Mutant: the tail of the list is taken for its head.
add_tail_at_head(r, node, head) == list_add(r, node, head)

list_add_tail(r, node, head) == Splice(r, node, r.prev[head], head)

\* Mutant: only the forward pointer is relinked.
del_forward_only(r, node) ==
    [r EXCEPT !.next = [@ EXCEPT ![r.prev[node]] = r.next[node]]]

list_del(r, node) ==
    [next |-> [r.next EXCEPT ![r.prev[node]] = r.next[node]],
     prev |-> [r.prev EXCEPT ![r.next[node]] = r.prev[node]]]

\* list_pop returns the first node; the caller's heap is then list_del of it.
list_first(r, head) == r.next[head]

---------------------------------------------------------------------------
(* The view of a heap that the properties are stated in.                   *)

\* A lap from head: the set has head and whatever next leads to.
Lap(r, head, W) ==
    /\ head \in W
    /\ \A n \in W : r.next[n] \in DOMAIN r.next => r.next[n] \in W

\* The nodes met by following next from head: those no lap leaves out.
Members(r, head) ==
    LET laps == {W \in SUBSET DOMAIN r.next : Lap(r, head, W)}
    IN  {n \in DOMAIN r.next : n # head /\ \A W \in laps : n \in W}

Linked(r, n, null) == r.next[n] # null

\* No list operation on a linked node meets a null pointer: a node has both
\* pointers or none, and pointers lead to nodes that have them.
Closed(r, null) ==
    \A n \in DOMAIN r.next :
        /\ r.next[n] = null <=> r.prev[n] = null
        /\ Linked(r, n, null) => /\ r.next[n] \in DOMAIN r.next
                                 /\ r.prev[n] \in DOMAIN r.next
                                 /\ Linked(r, r.next[n], null)
                                 /\ Linked(r, r.prev[n], null)

\* The ring through head is closed: next and prev are inverse on it, and it
\* holds no node of others (the other heads).
IsRing(r, head, others) ==
    \A n \in Members(r, head) \cup {head} :
        /\ n \in DOMAIN r.next
        /\ n \notin others
        /\ r.prev[r.next[n]] = n
        /\ r.next[r.prev[n]] = n
===========================================================================
