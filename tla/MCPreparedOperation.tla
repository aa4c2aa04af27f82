------------------------ MODULE MCPreparedOperation -------------------------
(* Instances of PreparedOperation for TLC: two sessions of one employee (a    *)
(* second browser tab or agent), and in the wider one a third session of      *)
(* another employee.                                                          *)
EXTENDS PreparedOperation, FiniteSets, TLC

CONSTANTS s1, s2, s3, e1, e2

EmployeeOf == [s \in Sessions |-> IF s = s3 THEN e2 ELSE e1]

\* One pending_id for every (employee, request_id): no INSERT is short of one.
ASSUME EnoughIds ==
    Cardinality(PendingIds) >= Cardinality({EmployeeOf[s] : s \in Sessions} \X Requests)
\* Threads, ids, request ids and calls are interchangeable, and so are the two
\* sessions of one employee; no temporal property is checked under it.
Symmetry ==
    Permutations(Threads) \cup Permutations(PendingIds) \cup Permutations(Requests)
        \cup Permutations(Calls) \cup Permutations(Sessions \ {s3})
=============================================================================
