---------------------------- MODULE MCHashTable ----------------------------
(***************************************************************************)
(* TLC instances of HashTable.                                             *)
(***************************************************************************)
EXTENDS HashTable

\* Hash codes that collide in small tables and part in larger ones.
Codes == [x \in Node |-> CASE x = 1 -> 0 [] x = 2 -> 3 [] x = 3 -> 7
                           [] x = 4 -> 4 [] x = 5 -> 2 [] OTHER -> 7]
=============================================================================
