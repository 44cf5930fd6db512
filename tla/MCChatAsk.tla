----------------------------- MODULE MCChatAsk -----------------------------
(* Chat on small instances.                                                *)
EXTENDS ChatAsk, TLC

\* Requests, conversations and texts are interchangeable; used for safety only.
Symmetry == Permutations(Asks) \cup Permutations(Conversations) \cup Permutations(Texts)

=============================================================================
