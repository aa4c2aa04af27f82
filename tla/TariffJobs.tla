---------------------------- MODULE TariffJobs ----------------------------
(***************************************************************************)
(* The extraction of the tariff and its reader: TariffExtractionJobManager, *)
(* whose background thread writes the nodes of a job and its manifest, and  *)
(* resolve_tariff_taxonomy_source, which finds among the directories of all *)
(* jobs, those that failed, were cancelled or died included, the nodes the  *)
(* taxonomy page is to show.  TariffDeclarationJobManager runs its jobs the *)
(* same way.                                                                *)
(*                                                                          *)
(* No reviewed source is configured, so that the newest complete manifest   *)
(* decides.  A file is missing, part of it is written, or all of it.        *)
(***************************************************************************)
EXTENDS Integers, Sequences

CONSTANTS
    MaxJobs,    \* bound on the jobs that are ever started
    MaxPages    \* pages of the source, after each of which a job can be cancelled

ASSUME JobsAssumption == MaxJobs \in Nat /\ MaxPages \in Nat

Jobs     == 1..MaxJobs
Statuses == {"new", "queued", "running", "completed", "cancelled", "failed", "forgotten"}
Parts    == {"missing", "part", "whole"}
Modes    == {"demo", "full"}

\* The files of a full job, in the order they are written; the demo writes no nodes.
\* Mutation: the manifest first.
OutputsManifestFirst(mode) == IF mode = "demo" THEN <<"manifest">> ELSE <<"manifest", "nodes">>
Outputs(mode) == IF mode = "demo" THEN <<"manifest">> ELSE <<"nodes", "manifest">>

VARIABLES
    job,        \* the manager's _jobs, by the order they are started
    output,     \* the directories of the jobs
    resolved,   \* the job whose nodes a request of the page is about to load; 0 if none
    tree        \* the nodes the page was last given; job 0 if it never was

tariffVars == <<job, output, resolved, tree>>

Job    == [status : Statuses, mode : Modes, cancelled : BOOLEAN, page : 0..MaxPages,
           done : 0..2]
Output == [nodes : Parts, manifest : Parts, complete : BOOLEAN]

TariffTypeOK ==
    /\ job \in [Jobs -> Job]
    /\ output \in [Jobs -> Output]
    /\ resolved \in 0..MaxJobs
    /\ tree \in [job : 0..MaxJobs, nodes : Parts]

TariffInit ==
    /\ job = [j \in Jobs |-> [status |-> "new", mode |-> "demo", cancelled |-> FALSE,
                              page |-> 0, done |-> 0]]
    /\ output = [j \in Jobs |-> [nodes |-> "missing", manifest |-> "missing",
                                 complete |-> FALSE]]
    /\ resolved = 0
    /\ tree = [job |-> 0, nodes |-> "missing"]

-----------------------------------------------------------------------------
Active(j) == job[j].status \in {"queued", "running"}

\* start: one active job at a time.
StartJob(j, mode) ==
    /\ job[j].status = "new"
    /\ \A i \in Jobs : i < j => job[i].status # "new"
    /\ \A i \in Jobs : ~Active(i)
    /\ job' = [job EXCEPT ![j].status = "queued", ![j].mode = mode]
    /\ UNCHANGED <<output, resolved, tree>>

\* cancel: it sets the event; the thread looks at it between two pages.
CancelJob(j) ==
    /\ Active(j)
    /\ job' = [job EXCEPT ![j].cancelled = TRUE]
    /\ UNCHANGED <<output, resolved, tree>>

RunJob(j) ==
    /\ job[j].status = "queued"
    /\ job' = [job EXCEPT ![j].status = "running"]
    /\ UNCHANGED <<output, resolved, tree>>

ReadPage(j) ==
    /\ job[j].status = "running"
    /\ job[j].page < MaxPages
    /\ job' = IF job[j].cancelled THEN [job EXCEPT ![j].status = "cancelled"]
              ELSE [job EXCEPT ![j].page = @ + 1]
    /\ UNCHANGED <<output, resolved, tree>>

Writing(j) == job[j].status = "running" /\ job[j].page = MaxPages
File(j)    == Outputs(job[j].mode)[job[j].done + 1]

\* A file is opened and its rows are flushed as they come.
OpenOutput(j) ==
    /\ Writing(j) /\ job[j].done < Len(Outputs(job[j].mode))
    /\ output[j][File(j)] = "missing"
    /\ output' = [output EXCEPT ![j][File(j)] = "part"]
    /\ UNCHANGED <<job, resolved, tree>>

\* The manifest of a full job says whether the hierarchy of its nodes is complete.
CloseOutput(j, complete) ==
    /\ Writing(j) /\ job[j].done < Len(Outputs(job[j].mode))
    /\ output[j][File(j)] = "part"
    /\ complete => job[j].mode = "full" /\ File(j) = "manifest"
    /\ output' = [output EXCEPT ![j][File(j)] = "whole",
                                ![j].complete = @ \/ complete]
    /\ job' = [job EXCEPT ![j].done = @ + 1]
    /\ UNCHANGED <<resolved, tree>>

CompleteJob(j) ==
    /\ Writing(j) /\ job[j].done = Len(Outputs(job[j].mode))
    /\ job' = [job EXCEPT ![j].status = "completed"]
    /\ UNCHANGED <<output, resolved, tree>>

\* A source that cannot be read, a disk that is full.
FailJob(j) ==
    /\ job[j].status = "running"
    /\ job' = [job EXCEPT ![j].status = "failed"]
    /\ UNCHANGED <<output, resolved, tree>>

\* The jobs are in memory and their threads are daemons; the directories stay.
RestartManager ==
    /\ job' = [j \in Jobs |-> IF job[j].status = "new" THEN job[j]
                              ELSE [job[j] EXCEPT !.status = "forgotten"]]
    /\ resolved' = 0
    /\ UNCHANGED <<output, tree>>

-----------------------------------------------------------------------------
\* A manifest that does not parse is passed over.
Candidates == {j \in Jobs : output[j].manifest = "whole" /\ output[j].complete
                            /\ output[j].nodes # "missing"}

\* resolve_tariff_taxonomy_source: the manifest written last.  Jobs run one at a time,
\* so it is the one of the job started last.
ResolveSource ==
    /\ resolved = 0
    /\ \E j \in Candidates : (\A i \in Candidates : i <= j) /\ resolved' = j
    /\ UNCHANGED <<job, output, tree>>

\* TariffTaxonomyIndex.from_jsonl.
LoadTree ==
    /\ resolved # 0
    /\ tree' = [job |-> resolved, nodes |-> output[resolved].nodes]
    /\ resolved' = 0
    /\ UNCHANGED <<job, output>>

TariffNext ==
    \/ \E j \in Jobs :
        \/ \E mode \in Modes : StartJob(j, mode)
        \/ CancelJob(j) \/ RunJob(j) \/ ReadPage(j) \/ OpenOutput(j)
        \/ \E complete \in BOOLEAN : CloseOutput(j, complete)
        \/ CompleteJob(j) \/ FailJob(j)
    \/ RestartManager \/ ResolveSource \/ LoadTree

TariffSpec == TariffInit /\ [][TariffNext]_tariffVars

-----------------------------------------------------------------------------
\* The page is never given half a tree, whether jobs are cancelled, fail or die while
\* their files are being written, and whatever is started after them.
TreeIsWhole == tree.job # 0 => tree.nodes = "whole"
=============================================================================
