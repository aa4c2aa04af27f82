---------------------------- MODULE MCPortalWriters ----------------------------
(* What threads write to files they share, for TLC: the session files of the     *)
(* portal, as in MCBusinessPortal, with one file that its two commands share or  *)
(* with one for each; or the files of a batch review.  The parts share no state: *)
(* a behaviour is one of a part, with the variables of the others at rest.       *)
EXTENDS MCBusinessPortal, BatchReview

VARIABLE part   \* the part this behaviour is one of

\* The clock stands still: what expires does so in the other instance.  A session
\* file is full with one result.
TwoFiles == INSTANCE BusinessPortal
                WITH Writer <- FileWriterOf, TTL <- 0, MaxTime <- 0, Capacity <- 1

MCInit ==
    /\ part \in {"one file", "two files", "review"}
    /\ Init /\ ReviewInit

MCNext ==
    /\ UNCHANGED part
    /\ \/ part = "one file" /\ UNCHANGED reviewVars /\ Next
       \/ part = "two files" /\ UNCHANGED reviewVars /\ TwoFiles!Next
       \/ part = "review" /\ UNCHANGED vars /\ ReviewNext

MCSpec == MCInit /\ [][MCNext]_<<part, vars, reviewVars>>
=============================================================================
