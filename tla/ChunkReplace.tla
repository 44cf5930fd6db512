---------------------------- MODULE ChunkReplace ----------------------------
(***************************************************************************)
(* What persisting promises to retrieval: a version has at most one         *)
(* generation of chunks at a time, a new one takes the place of the old in  *)
(* one step, and a generation that was replaced never comes back.           *)
(***************************************************************************)
CONSTANTS Generations, None

VARIABLES current, retired

vars == <<current, retired>>

Init ==
    /\ current \in Generations \cup {None}
    /\ retired = {}

Replace(g) ==
    /\ g \notin retired \cup {current}
    /\ current' = g
    /\ retired' = retired \cup ({current} \ {None})

Next == \E g \in Generations : Replace(g)

Spec == Init /\ [][Next]_vars

=============================================================================
