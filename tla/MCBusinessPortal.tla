--------------------------- MODULE MCBusinessPortal ---------------------------
(* Instances of BusinessPortal for TLC: two commands, and their writers.        *)
EXTENDS BusinessPortal, FiniteSets, TLC

CONSTANTS c1, c2

\* A writer that looks its request_id up in memory and file, and one that does not
\* look it up again.
WriterOf == [c \in Commands |-> IF c = c2 THEN "plain" ELSE "request"]

\* The two that look it up in a session file only: the portal's, and that of the
\* default conversation.
FileWriterOf == [c \in Commands |-> IF c = c1 THEN "buying" ELSE "approval"]

\* No temporal property but action properties is checked under it.
Symmetry == Permutations(Threads) \cup Permutations(Users) \cup Permutations(Requests)
=============================================================================
