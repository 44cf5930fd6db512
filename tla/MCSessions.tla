----------------------------- MODULE MCSessions -----------------------------
(* Sessions on small instances.                                            *)
EXTENDS Sessions, TLC

\* Tabs, users and request slots are interchangeable; used for safety only.
Symmetry == Permutations(Tabs) \cup Permutations(Users) \cup Permutations(Requests)

=============================================================================
