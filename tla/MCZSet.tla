------------------------------- MODULE MCZSet -------------------------------
(***************************************************************************)
(* TLC instances of ZSet, with a history variable that counts the turns of *)
(* the loop of avl_offset.                                                 *)
(***************************************************************************)
EXTENDS ZSet

\* Keys in the middle of the set and at its ends; offsets in both directions
\* and past the ends; limits that are odd, even and zero.
Queries ==
  [score : {1, 2}, name : {0, 3}, offset : {-3, 0, 2}, limit : {1, 4}]
    \cup [score : {1}, name : {0}, offset : {0}, limit : {0}]

VARIABLE turns  \* turns of the loop in the current call of avl_offset

HInit == Init /\ turns = 0

HNext ==
  /\ Next
  /\ turns' = IF OffsetStep THEN turns + 1 ELSE 0

HSpec == HInit /\ [][HNext]_<<vars, turns>>

\* avl_offset is "O(log N) regardless of how long the offset is": it climbs to
\* a common ancestor and descends from there, and never turns back.
OffsetIsLogarithmic == turns <= 2 * (avl_height(tree, root) - 1) \/ turns = 0
=============================================================================
