------------------------------- MODULE DList -------------------------------
(***************************************************************************)
(* The intrusive circular list of list.h.  A list is the pair of functions *)
(* prev and next over all nodes that may be linked, the list heads among   *)
(* them; the pointers of a node that is in no list are meaningless.        *)
(*                                                                         *)
(* A definition named D_Fault is D with a fault; no specification uses it. *)
(***************************************************************************)
EXTENDS Integers

dlist_init(l, node) ==
  [prev |-> [l.prev EXCEPT ![node] = node], next |-> [l.next EXCEPT ![node] = node]]

dlist_empty(l, node) == l.next[node] = node

\* Fault: the link back to the predecessor is forgotten.
dlist_detach_OneWay(l, node) ==
  [prev |-> l.prev, next |-> [l.next EXCEPT ![l.prev[node]] = l.next[node]]]

dlist_detach(l, node) ==
  [prev |-> [l.prev EXCEPT ![l.next[node]] = l.prev[node]],
   next |-> [l.next EXCEPT ![l.prev[node]] = l.next[node]]]

\* Fault: the rookie is linked in behind the target, at the front of a list
\* whose head is the target.
dlist_insert_before_After(l, target, rookie) ==
  LET next == l.next[target] IN
  [prev |-> [l.prev EXCEPT ![rookie] = target, ![next] = rookie],
   next |-> [l.next EXCEPT ![target] = rookie, ![rookie] = next]]

dlist_insert_before(l, target, rookie) ==
  LET prev == l.prev[target] IN
  [prev |-> [l.prev EXCEPT ![rookie] = prev, ![target] = rookie],
   next |-> [l.next EXCEPT ![prev] = rookie, ![rookie] = target]]

-----------------------------------------------------------------------------
\* The node reached from `node' by n steps forward; the walk stays at a
\* pointer that leads nowhere.
Walk(l, node, n) ==
  LET at[i \in 0..n] == IF i = 0 THEN node
                        ELSE IF at[i - 1] \in DOMAIN l.next THEN l.next[at[i - 1]]
                        ELSE at[i - 1]
  IN at[n]

\* The list of `node' has exactly the n nodes of S besides its head, each
\* once, in both directions: forward it returns to the head after all of
\* them, and every backward link undoes a forward one.
IsListOf(l, node, S, n) ==
  /\ {Walk(l, node, i) : i \in 1..n} = S
  /\ Walk(l, node, n + 1) = node
  /\ \A x \in S \cup {node} : l.prev[l.next[x]] = x

-----------------------------------------------------------------------------
(* The same, as the operations preserve it: no walk and no count *)

\* Both links of a node of N lead into N and undo each other.
Linked(l, N) ==
  \A x \in N : /\ l.next[x] \in N /\ l.prev[l.next[x]] = x
               /\ l.prev[x] \in N /\ l.next[l.prev[x]] = x

\* N is one cycle: the forward links leave no part of it but N itself closed.
OneCycle(l, N) ==
  \A C \in SUBSET N : C # {} /\ (\A x \in C : l.next[x] \in C) => C = N
=============================================================================
