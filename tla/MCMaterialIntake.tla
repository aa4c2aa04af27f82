--------------------------- MODULE MCMaterialIntake ---------------------------
(* Instances of MaterialIntake, CatalogRevision and TariffJobs for TLC.  The    *)
(* three share no state, so a behaviour is one of a part, with the variables of *)
(* the others at rest: the intake, with drafts of one standard type that all    *)
(* start with the same content, compiled once (two drafts) or twice (one); the  *)
(* catalog, followed by the page, which knows its tables by the commits it read *)
(* them from and not by their content, so that maintenance of the nodes stands  *)
(* for every writer; the catalog, maintenance of any table and all scripts,     *)
(* followed by the builds of a release; or the tariff jobs.                     *)
EXTENDS MaterialIntake, CatalogRevision, TariffJobs, TLC

CONSTANTS A, B

VARIABLE part   \* the part this behaviour is one of

FirstOf   == [l \in 1..MaxLine |-> A]
Symmetric == Permutations(Threads)

MCInit ==
    /\ part \in {"intake", "page", "release", "tariff"}
    /\ Init /\ CatalogInit /\ TariffInit
    /\ part # "intake" => lines = 1

MCNext ==
    /\ UNCHANGED part
    /\ \/ part = "intake" /\ UNCHANGED <<catalogVars, tariffVars>> /\ Next
       \/ part = "page" /\ UNCHANGED <<vars, tariffVars>> /\ UNCHANGED releases
          /\ CatalogNext /\ UNCHANGED <<script, edited>>
       \/ part = "release" /\ UNCHANGED <<vars, tariffVars>>
          /\ UNCHANGED workbench /\ CatalogNext
       \/ part = "tariff" /\ UNCHANGED <<vars, catalogVars>> /\ TariffNext

MCSpec == MCInit /\ [][MCNext]_<<part, vars, catalogVars, tariffVars>>
=============================================================================
