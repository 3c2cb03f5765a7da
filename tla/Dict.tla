-------------------------------- MODULE Dict --------------------------------
(***************************************************************************)
(* What a hash map promises its callers: a set of keys.  An insertion      *)
(* takes effect when it is called, a lookup or a deletion just before it   *)
(* returns, and it answers for the key it was called with.  HashTable      *)
(* (hashtable.cpp) implements this while it moves nodes between two tables.*)
(***************************************************************************)
CONSTANT Node   \* the nodes, one per key

VARIABLES
  keys,   \* the nodes in the map
  op,     \* the call that is running: its name and node
  ret     \* the answer of the last lookup or deletion: was the key there

dictVars == <<keys, op, ret>>

NoOp == [name |-> "none", node |-> {}]

DInit == keys = {} /\ op = NoOp /\ ret = FALSE

DCall(name, k) ==
  /\ op.name = "none"
  /\ name = "insert" => k \notin keys
  /\ op' = [name |-> name, node |-> k]
  /\ keys' = IF name = "insert" THEN keys \cup {k} ELSE keys
  /\ UNCHANGED ret

DReturn ==
  /\ op.name # "none"
  /\ op' = NoOp
  /\ ret' = IF op.name = "insert" THEN ret ELSE op.node \in keys
  /\ keys' = IF op.name = "delete" THEN keys \ {op.node} ELSE keys

DClear ==
  /\ op.name = "none"
  /\ keys' = {}
  /\ UNCHANGED <<op, ret>>

DNext ==
  \/ \E name \in {"lookup", "insert", "delete"}, k \in Node : DCall(name, k)
  \/ DReturn
  \/ DClear

DSpec == DInit /\ [][DNext]_dictVars
=============================================================================
