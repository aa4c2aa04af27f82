---------------------------- MODULE MCConfirmations ----------------------------
(* What a confirmation executes, for TLC: the rows of the capability service, as *)
(* in MCPreparedOperation, or the actions of the in-process agent runtime.  The  *)
(* two share no state: a behaviour is one of a part, with the variables of the   *)
(* other at rest.                                                                *)
EXTENDS MCPreparedOperation, RuntimeTurn

VARIABLE part   \* the part this behaviour is one of

MCInit ==
    /\ part \in {"capability", "runtime"}
    /\ Init /\ RuntimeInit
    /\ part = "runtime" => permitted = [s \in Sessions |-> TRUE]

MCNext ==
    /\ UNCHANGED part
    /\ \/ part = "capability" /\ UNCHANGED turnVars /\ Next
       \/ part = "runtime" /\ UNCHANGED vars /\ RuntimeNext

MCSpec == MCInit /\ [][MCNext]_<<part, vars, turnVars>>

ActionSymmetry == Symmetry \cup Permutations(Turns) \cup Permutations(Conversations)
=============================================================================
